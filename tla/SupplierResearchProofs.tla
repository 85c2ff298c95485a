------------------------ MODULE SupplierResearchProofs ------------------------
(***************************************************************************)
(* Proofs about SupplierResearch, for any categories, names, batches and    *)
(* tool calls.  A tool that writes a run's document back holds the run's    *)
(* row since it read it (OneRow), so what it writes is the document as it   *)
(* is (Callers) with what the tool adds: no candidate is lost, and a        *)
(* recommendation is still one of the candidates when it is written.        *)
(***************************************************************************)
EXTENDS SupplierResearch, FiniteSetTheorems, TLAPS

HoldingPhases == {"placed", "named", "weighed"}
Holding(x) == call[x] # None /\ call[x].phase \in HoldingPhases

SearchCalls == [phase : {"waiting", "searching"}, batch : Batch, query : Query]
SaveCalls == [phase : {"saving", "placed", "named"}, batch : Batch, category : Category,
              name : Name, contact : BOOLEAN, input : Spread \cup {None},
              saved : BOOLEAN \cup {None}, found : (SUBSET Vendor) \cup {None}]
ChooseCalls == [phase : {"choosing", "weighed"}, batch : Batch, category : Category,
                vendor : Vendor, input : Spread \cup {None}]

TypeOK ==
  /\ run \in [Batch -> Runs \cup {None}]
  /\ call \in [Call -> SearchCalls \cup SaveCalls \cup ChooseCalls \cup {None}]

OneRow ==
  \A x, y \in Call : Holding(x) /\ Holding(y) /\ call[x].batch = call[y].batch => x = y

\* What a call c relies on: its run, the document it read, the candidates it weighed.
Founded(c) ==
  /\ Exists(c.batch)
  /\ c.phase \in HoldingPhases => c.input = run[c.batch].input
  /\ c.phase = "weighed" => c.vendor \in Compared(c.input, c.category)

Callers == \A x \in Call : call[x] # None => Founded(call[x])

ResearchInv == TypeOK /\ OneRow /\ Callers /\ RecommendationsStand

-----------------------------------------------------------------------------
(* The kinds of step.                                                       *)

\* The document j offers what i offers.
Grows(i, j) ==
  /\ Chosen(i.candidates) \subseteq Chosen(j.candidates)
  /\ Chosen(i.previous) \subseteq Chosen(j.previous)

Offers(i) == Chosen(i.candidates) \cup Chosen(i.previous)

\* A batch begins, with what the batch it continues offered.
NewBatch ==
  \E b \in Batch, r \in Runs :
    /\ ~Exists(b)
    /\ run' = [run EXCEPT ![b] = r]
    /\ call' = call
    /\ \/ r.input.recommended = {}
       \/ \E of \in Batch : /\ Exists(of)
                            /\ r.input.recommended = run[of].input.recommended
                            /\ Offers(run[of].input) \subseteq Offers(r.input)

\* A batch ends or gets its plan while no tool holds its row.
BatchChanges ==
  \E b \in Batch, r \in Runs :
    /\ Exists(b) /\ RowFree(b)
    /\ run' = [run EXCEPT ![b] = r]
    /\ call' = call
    /\ r.input.recommended = run[b].input.recommended
    /\ Grows(run[b].input, r.input)

\* A tool writes the document back.
ToolWrites ==
  \E x \in Call, b \in Batch, r \in Runs :
    /\ Holding(x) /\ call[x].batch = b /\ Exists(b)
    /\ run' = [run EXCEPT ![b] = r]
    /\ call' = [call EXCEPT ![x] = None]
    /\ Grows(run[b].input, r.input)
    /\ \/ r.input.recommended = run[b].input.recommended
       \/ \E c \in Category : \E v \in Compared(run[b].input, c) :
            r.input.recommended =
              {s \in run[b].input.recommended : s[1] # c} \cup {<<c, v>>}

CallEnds == \E x \in Call : call' = [call EXCEPT ![x] = None] /\ run' = run

\* A call begins or goes on; if it takes the row, no other call holds it.
CallMoves ==
  \E x \in Call, c \in SearchCalls \cup SaveCalls \cup ChooseCalls :
    /\ call' = [call EXCEPT ![x] = c]
    /\ run' = run
    /\ Founded(c)
    /\ c.phase \in HoldingPhases =>
         \A y \in Call : y # x /\ Holding(y) => call[y].batch # c.batch

Idle == UNCHANGED <<run, call>>

-----------------------------------------------------------------------------
LEMMA ChosenAppend ==
  ASSUME NEW s \in Seq(Choices), NEW c \in Choices
  PROVE  /\ Append(s, c) \in Seq(Choices)
         /\ Chosen(s) \subseteq Chosen(Append(s, c))
  <1>1. \A n \in 1..Len(s) : n \in 1..Len(Append(s, c)) /\ Append(s, c)[n] = s[n]
    OBVIOUS
  <1> QED
    BY <1>1 DEF Chosen

LEMMA ChosenConcat ==
  ASSUME NEW s \in Seq(Choices), NEW t \in Seq(Choices)
  PROVE  /\ s \o t \in Seq(Choices)
         /\ Chosen(s) \cup Chosen(t) \subseteq Chosen(s \o t)
  <1> DEFINE u == s \o t
  <1>1. u \in Seq(Choices)
    OBVIOUS
  <1>2. \A n \in 1..Len(s) : n \in 1..Len(u) /\ u[n] = s[n]
    OBVIOUS
  <1>3. \A n \in 1..Len(t) : Len(s) + n \in 1..Len(u) /\ u[Len(s) + n] = t[n]
    OBVIOUS
  <1> HIDE DEF u
  <1>4. Chosen(s) \subseteq Chosen(u)
    BY <1>2 DEF Chosen
  <1>5. Chosen(t) \subseteq Chosen(u)
    BY <1>3 DEF Chosen
  <1> QED
    BY <1>1, <1>4, <1>5 DEF u

\* A continuation keeps the recommendations and offers what was offered.
LEMMA CarriedOffers ==
  ASSUME NEW i \in Spread
  PROVE  /\ Carried(i) \in Spread
         /\ Carried(i).recommended = i.recommended
         /\ Offers(i) \subseteq Offers(Carried(i))
  <1>1. i.previous \in Seq(Choices) /\ i.candidates \in Seq(Choices) /\ <<>> \in Seq(Choices)
    BY DEF Spread
  <1>2. /\ Carried(i).previous = i.previous \o i.candidates
        /\ Carried(i).recommended = i.recommended
        /\ i.previous \o i.candidates \in Seq(Choices)
    BY <1>1, ChosenConcat DEF Spread, Carried
  <1>3. Carried(i) \in Spread
    BY <1>1, <1>2 DEF Spread, Carried
  <1> QED
    BY <1>1, <1>2, <1>3, ChosenConcat DEF Offers

-----------------------------------------------------------------------------
LEMMA BatchSteps ==
  ASSUME TypeOK, BatchStep
  PROVE  NewBatch \/ BatchChanges \/ Idle
  <1> USE ResearchConstantsOK, NoneIsNoRun
  <1>1. ASSUME NEW b \in Batch, Start(b) \/ Dispatch(b) PROVE NewBatch
    <2> DEFINE r == NewRun(0, <<"start", None>>, Blank)
    <2>1. Blank \in Spread /\ Blank.recommended = {}
      BY DEF Blank, Spread
    <2>2. r \in Runs /\ r.input = Blank
      BY <2>1 DEF NewRun, Runs
    <2>3. ~Exists(b) /\ run' = [run EXCEPT ![b] = r] /\ call' = call
      BY <1>1 DEF Start, Dispatch, IsNext
    <2> HIDE DEF r
    <2> QED
      BY <2>1, <2>2, <2>3 DEF NewBatch
  <1>2. ASSUME NEW b \in Batch, NEW of \in Batch, Retry(b, of) PROVE NewBatch
    <2> DEFINE r == NewRun(of, <<"retry", None>>, Carried(run[of].input))
    <2>1. Exists(of) /\ run[of].input \in Spread
      BY <1>2 DEF Retry, Exists, TypeOK, Runs
    <2>2. Carried(run[of].input) \in Spread
      BY <2>1, CarriedOffers
    <2>3. r \in Runs /\ r.input = Carried(run[of].input)
      BY <2>2 DEF NewRun, Runs
    <2>4. ~Exists(b) /\ run' = [run EXCEPT ![b] = r] /\ call' = call
      BY <1>2 DEF Retry, IsNext
    <2> HIDE DEF r
    <2> QED
      BY <2>1, <2>3, <2>4, CarriedOffers DEF NewBatch
  <1>3. ASSUME NEW b \in Batch, NEW of \in Batch, NEW only \in Category \cup {None},
               More(b, of, only)
        PROVE  NewBatch
    <2> DEFINE i == run[of].input
               j == Expanded(i, only)
               r == NewRun(of, <<"more", only>>, j)
    <2>1. Exists(of) /\ i \in Spread
      BY <1>3 DEF More, Exists, TypeOK, Runs
    <2>2. /\ Carried(i) \in Spread
          /\ Carried(i).recommended = i.recommended
          /\ Offers(i) \subseteq Offers(Carried(i))
      BY <2>1, CarriedOffers
    <2>3. /\ i.offered \in Plans \cup {None} /\ i.plan \in Plans \cup {None}
          /\ Available(i) \in Plans \cup {None}
          /\ only # None => {only} \in Plans
      <3>1. i.offered \in Plans \cup {None} /\ i.plan \in Plans \cup {None}
        BY <2>1 DEF Spread
      <3>2. only # None => {only} \in Plans
        BY DEF Plans
      <3> QED
        BY <3>1, <3>2 DEF Available
    <2>4. {v \in Known : ~vendor[v].managed} \subseteq Vendor
      BY DEF Known
    <2> HIDE DEF i
    <2>5. /\ j \in Spread
          /\ j.recommended = Carried(i).recommended
          /\ j.candidates = Carried(i).candidates
          /\ j.previous = Carried(i).previous
      BY <2>2, <2>3, <2>4 DEF Expanded, Spread
    <2>6. ~Exists(b) /\ run' = [run EXCEPT ![b] = r] /\ call' = call
      BY <1>3 DEF More, IsNext, i
    <2> HIDE DEF j
    <2>7. r \in Runs /\ r.input = j
      BY <2>5 DEF NewRun, Runs
    <2>8. r.input.recommended = i.recommended /\ Offers(i) \subseteq Offers(r.input)
      BY <2>2, <2>5, <2>7 DEF Offers
    <2> HIDE DEF r
    <2> QED
      BY <2>1, <2>6, <2>7, <2>8 DEF NewBatch, i
  <1>4. ASSUME NEW b \in Batch, Finish(b) \/ Discard(b)
        PROVE  BatchChanges
    <2>1. Exists(b) /\ RowFree(b) /\ run[b] \in Runs /\ call' = call
      BY <1>4 DEF Finish, Discard, IsActive, Exists, TypeOK
    <2>2. PICK r \in Runs : run' = [run EXCEPT ![b] = r] /\ r.input = run[b].input
      <3>1. CASE Finish(b)
        <4>1. [run[b] EXCEPT !.status = "over"] \in Runs
          BY <2>1 DEF Runs
        <4>2. [run[b] EXCEPT !.status = "over"].input = run[b].input
          BY <2>1 DEF Runs
        <4> QED
          BY <3>1, <4>1, <4>2 DEF Finish
      <3>2. CASE Discard(b)
        <4>1. [run[b] EXCEPT !.status = "over", !.dismissed = TRUE] \in Runs
          BY <2>1 DEF Runs
        <4>2. [run[b] EXCEPT !.status = "over", !.dismissed = TRUE].input = run[b].input
          BY <2>1 DEF Runs
        <4> QED
          BY <3>2, <4>1, <4>2 DEF Discard
      <3> QED
        BY <1>4, <3>1, <3>2
    <2> QED
      BY <2>1, <2>2 DEF BatchChanges, Grows
  <1>5. ASSUME NEW b \in Batch, NEW categories \in Plans, Plan(b, categories)
        PROVE  BatchChanges
    <2> DEFINE r == [run[b] EXCEPT !.input.plan = categories]
    <2>1. Exists(b) /\ RowFree(b) /\ run[b] \in Runs /\ call' = call
      BY <1>5 DEF Plan, IsActive, Exists, TypeOK
    <2>2. run' = [run EXCEPT ![b] = r]
      BY <1>5 DEF Plan
    <2>3. r \in Runs
      BY <2>1 DEF Runs, Spread
    <2>4. /\ r.input.recommended = run[b].input.recommended
          /\ r.input.candidates = run[b].input.candidates
          /\ r.input.previous = run[b].input.previous
      BY <2>1 DEF Runs, Spread
    <2> HIDE DEF r
    <2> QED
      BY <2>1, <2>2, <2>3, <2>4 DEF BatchChanges, Grows
  <1>6. ASSUME NEW b \in Batch, NEW v \in Vendor, NEW vetting \in {"checked", "reviewed"},
               Vet(b, v, vetting)
        PROVE  Idle
    BY <1>6 DEF Vet, Idle
  <1> QED
    BY <1>1, <1>2, <1>3, <1>4, <1>5, <1>6 DEF BatchStep

LEMMA BeginSteps ==
  ASSUME TypeOK, BeginStep
  PROVE  CallMoves
  <1> USE ResearchConstantsOK
  <1>1. ASSUME NEW x \in Call, NEW b \in Batch, NEW q \in Query, BeginSearch(x, b, q)
        PROVE  CallMoves
    <2> DEFINE c == [phase |-> "waiting", batch |-> b, query |-> q]
    <2>1. c \in SearchCalls /\ c.batch = b /\ c.phase = "waiting"
      BY DEF SearchCalls
    <2>2. call' = [call EXCEPT ![x] = c] /\ run' = run /\ Exists(b)
      BY <1>1 DEF BeginSearch, Begin, IsActive
    <2> HIDE DEF c
    <2> QED
      BY <2>1, <2>2 DEF CallMoves, Founded, HoldingPhases
  <1>2. ASSUME NEW x \in Call, NEW b \in Batch, NEW g \in Category, NEW name \in Name,
               NEW contact \in BOOLEAN, BeginSave(x, b, g, name, contact)
        PROVE  CallMoves
    <2> DEFINE c == [phase |-> "saving", batch |-> b, category |-> g, name |-> name,
                     contact |-> contact, input |-> None, saved |-> None, found |-> None]
    <2>1. c \in SaveCalls /\ c.batch = b /\ c.phase = "saving"
      BY DEF SaveCalls
    <2>2. call' = [call EXCEPT ![x] = c] /\ run' = run /\ Exists(b)
      BY <1>2 DEF BeginSave, Begin, IsActive
    <2> HIDE DEF c
    <2> QED
      BY <2>1, <2>2 DEF CallMoves, Founded, HoldingPhases
  <1>3. ASSUME NEW x \in Call, NEW b \in Batch, NEW g \in Category, NEW v \in Vendor,
               BeginRecommend(x, b, g, v)
        PROVE  CallMoves
    <2> DEFINE c == [phase |-> "choosing", batch |-> b, category |-> g, vendor |-> v,
                     input |-> None]
    <2>1. c \in ChooseCalls /\ c.batch = b /\ c.phase = "choosing"
      BY DEF ChooseCalls
    <2>2. call' = [call EXCEPT ![x] = c] /\ run' = run /\ Exists(b)
      BY <1>3 DEF BeginRecommend, Begin, IsActive
    <2> HIDE DEF c
    <2> QED
      BY <2>1, <2>2 DEF CallMoves, Founded, HoldingPhases
  <1> QED
    BY <1>1, <1>2, <1>3 DEF BeginStep

\* A call's phase says which kind of call it is.
LEMMA KindOfCall ==
  ASSUME TypeOK, NEW x \in Call, call[x] # None
  PROVE  /\ call[x].phase \in {"waiting", "searching"} => call[x] \in SearchCalls
         /\ call[x].phase \in {"saving", "placed", "named"} => call[x] \in SaveCalls
         /\ call[x].phase \in {"choosing", "weighed"} => call[x] \in ChooseCalls
         /\ call[x].batch \in Batch
  <1>1. call[x] \in SearchCalls \/ call[x] \in SaveCalls \/ call[x] \in ChooseCalls
    BY DEF TypeOK
  <1>2. CASE call[x] \in SearchCalls
    BY <1>2 DEF SearchCalls
  <1>3. CASE call[x] \in SaveCalls
    BY <1>3 DEF SaveCalls
  <1>4. CASE call[x] \in ChooseCalls
    BY <1>4 DEF ChooseCalls
  <1> QED
    BY <1>1, <1>2, <1>3, <1>4

LEMMA SearchSteps ==
  ASSUME TypeOK, Callers, NEW x \in Call, Acquire(x) \/ Answer(x) \/ NoAnswer(x) \/ Drop(x)
  PROVE  CallMoves \/ CallEnds
  <1>1. CASE Answer(x) \/ NoAnswer(x) \/ Drop(x)
    BY <1>1 DEF Answer, NoAnswer, Drop, Return, CallEnds
  <1>2. CASE Acquire(x) /\ Return(x)
    BY <1>2 DEF Acquire, Return, CallEnds
  <1>3. CASE Acquire(x) /\ ~Return(x)
    <2> DEFINE c == [call[x] EXCEPT !.phase = "searching"]
    <2>1. call[x] \in SearchCalls /\ Founded(call[x])
      BY <1>3, KindOfCall DEF Acquire, At, Callers
    <2>2. c \in SearchCalls /\ c.batch = call[x].batch /\ c.phase = "searching"
      BY <2>1 DEF SearchCalls
    <2>3. call' = [call EXCEPT ![x] = c] /\ run' = run
      BY <1>3 DEF Acquire
    <2> HIDE DEF c
    <2> QED
      BY <2>1, <2>2, <2>3 DEF CallMoves, Founded, HoldingPhases
  <1> QED
    BY <1>1, <1>2, <1>3

\* Place, LockName and Weigh read the document under the lock on the run's row.
LEMMA ReadSteps ==
  ASSUME TypeOK, OneRow, Callers, NEW x \in Call, Place(x) \/ LockName(x) \/ Weigh(x)
  PROVE  CallMoves \/ CallEnds
  <1>1. CASE (Place(x) \/ Weigh(x)) /\ Return(x)
    BY <1>1 DEF Place, Weigh, Return, CallEnds
  <1>2. CASE Place(x) /\ ~Return(x)
    <2> DEFINE b == call[x].batch
               i == run[b].input
               saved == Already(i, call[x].name, call[x].category)
               c == [call[x] EXCEPT !.phase = "placed", !.input = i, !.saved = saved]
    <2>1. call[x] \in SaveCalls /\ Founded(call[x]) /\ RowFree(b)
      BY <1>2, KindOfCall DEF Place, At, Callers
    <2>2. b \in Batch /\ Exists(b) /\ i \in Spread
      BY <2>1 DEF SaveCalls, Founded, Exists, TypeOK, Runs
    <2>3. saved \in BOOLEAN
      BY DEF Already
    <2>4. call' = [call EXCEPT ![x] = c] /\ run' = run
      BY <1>2 DEF Place
    <2> HIDE DEF saved, i
    <2>5. c \in SaveCalls /\ c.batch = b /\ c.phase = "placed" /\ c.input = i
      BY <2>1, <2>2, <2>3 DEF SaveCalls
    <2>6. \A y \in Call : Holding(y) => call[y].batch # b
      BY <2>1 DEF RowFree, Holding, HoldingPhases, At
    <2> HIDE DEF c
    <2>7. Founded(c)
      BY <2>2, <2>5 DEF Founded, i
    <2> HIDE DEF b
    <2> QED
      BY <2>4, <2>5, <2>6, <2>7 DEF CallMoves
  <1>3. CASE LockName(x)
    <2> DEFINE found == Named(call[x].name)
               c == [call[x] EXCEPT !.phase = "named", !.found = found]
    <2>1. call[x] \in SaveCalls /\ Founded(call[x]) /\ Holding(x) /\ call[x].phase = "placed"
      BY <1>3, KindOfCall DEF LockName, At, Callers, Holding, HoldingPhases
    <2>2. found \in SUBSET Vendor
      BY DEF Named, Known
    <2>3. call' = [call EXCEPT ![x] = c] /\ run' = run
      BY <1>3 DEF LockName
    <2> HIDE DEF found
    <2>4. /\ c \in SaveCalls /\ c.batch = call[x].batch /\ c.phase = "named"
          /\ c.input = call[x].input
      BY <2>1, <2>2 DEF SaveCalls
    <2>5. \A y \in Call : y # x /\ Holding(y) => call[y].batch # c.batch
      BY <2>1, <2>4 DEF OneRow
    <2> HIDE DEF c
    <2>6. Founded(c)
      BY <2>1, <2>4 DEF Founded, HoldingPhases
    <2> QED
      BY <2>3, <2>4, <2>5, <2>6 DEF CallMoves
  <1>4. CASE Weigh(x) /\ ~Return(x)
    <2> DEFINE b == call[x].batch
               i == run[b].input
               c == [call[x] EXCEPT !.phase = "weighed", !.input = i]
    <2>1. call[x] \in ChooseCalls /\ Founded(call[x]) /\ RowFree(b)
      BY <1>4, KindOfCall DEF Weigh, At, Callers
    <2>2. b \in Batch /\ Exists(b) /\ i \in Spread
      BY <2>1 DEF ChooseCalls, Founded, Exists, TypeOK, Runs
    <2>3. /\ call' = [call EXCEPT ![x] = c] /\ run' = run
          /\ call[x].vendor \in Compared(i, call[x].category)
      BY <1>4 DEF Weigh
    <2> HIDE DEF i
    <2>4. /\ c \in ChooseCalls /\ c.batch = b /\ c.phase = "weighed" /\ c.input = i
          /\ c.vendor = call[x].vendor /\ c.category = call[x].category
      BY <2>1, <2>2 DEF ChooseCalls
    <2>5. \A y \in Call : Holding(y) => call[y].batch # b
      BY <2>1 DEF RowFree, Holding, HoldingPhases, At
    <2> HIDE DEF c
    <2>6. Founded(c)
      BY <2>2, <2>3, <2>4 DEF Founded, i
    <2> HIDE DEF b
    <2> QED
      BY <2>3, <2>4, <2>5, <2>6 DEF CallMoves
  <1> QED
    BY <1>1, <1>2, <1>3, <1>4

\* A save adds its candidate to the document it read.
LEMMA AddedCandidate ==
  ASSUME TypeOK, Callers, NEW x \in Call, At(x, "named"), NEW v \in Vendor
  PROVE  \E r \in Runs :
           /\ Holding(x) /\ call[x].batch \in Batch /\ Exists(call[x].batch)
           /\ [run EXCEPT ![call[x].batch].input = WithCandidate(x, v)]
                = [run EXCEPT ![call[x].batch] = r]
           /\ r.input.recommended = run[call[x].batch].input.recommended
           /\ Grows(run[call[x].batch].input, r.input)
  <1> DEFINE b == call[x].batch
             i == run[b].input
             j == WithCandidate(x, v)
             r == [run[b] EXCEPT !.input = j]
  <1>1. call[x] \in SaveCalls /\ Founded(call[x]) /\ Holding(x) /\ call[x].phase = "named"
    BY KindOfCall DEF At, Callers, Holding, HoldingPhases
  <1>2. /\ b \in Batch /\ Exists(b) /\ run[b] \in Runs /\ call[x].category \in Category
        /\ call[x].input = i
    BY <1>1 DEF SaveCalls, Founded, HoldingPhases, Exists, TypeOK
  <1>3. i \in Spread
    BY <1>2 DEF Runs
  <1>4. i.candidates \in Seq(Choices) /\ <<call[x].category, v>> \in Choices
    BY <1>2, <1>3 DEF Spread, Choices
  <1>5. \/ j = [i EXCEPT !.candidates = i.candidates]
        \/ j = [i EXCEPT !.candidates = Append(i.candidates, <<call[x].category, v>>)]
    BY <1>2 DEF WithCandidate
  <1>6. PICK s \in Seq(Choices) :
          j = [i EXCEPT !.candidates = s] /\ Chosen(i.candidates) \subseteq Chosen(s)
    BY <1>4, <1>5, ChosenAppend
  <1> HIDE DEF i, j
  <1>7. /\ j \in Spread /\ j.candidates = s /\ j.previous = i.previous
        /\ j.recommended = i.recommended
    BY <1>3, <1>6 DEF Spread
  <1>8. r \in Runs /\ r.input = j
    BY <1>2, <1>7 DEF Runs
  <1>9. [run EXCEPT ![b].input = j] = [run EXCEPT ![b] = r]
    OBVIOUS
  <1>10. Grows(i, j)
    BY <1>6, <1>7 DEF Grows
  <1> HIDE DEF r, b
  <1> QED
    BY <1>1, <1>2, <1>7, <1>8, <1>9, <1>10 DEF i, j, b

LEMMA WriteSteps ==
  ASSUME TypeOK, Callers, NEW x \in Call,
         Recommend(x) \/ \E v \in Vendor : SaveKnown(x, v) \/ SaveNew(x, v)
  PROVE  ToolWrites \/ CallEnds
  <1>1. ASSUME NEW v \in Vendor, SaveKnown(x, v) \/ SaveNew(x, v)
        PROVE  ToolWrites \/ CallEnds
    <2>1. At(x, "named") /\ call' = [call EXCEPT ![x] = None]
      BY <1>1 DEF SaveKnown, SaveNew, Return
    <2>2. run' = run \/ run' = [run EXCEPT ![call[x].batch].input = WithCandidate(x, v)]
      BY <1>1 DEF SaveKnown, SaveNew
    <2>3. CASE run' = run
      BY <2>1, <2>3 DEF CallEnds
    <2>4. CASE run' = [run EXCEPT ![call[x].batch].input = WithCandidate(x, v)]
      BY <2>1, <2>4, AddedCandidate DEF ToolWrites
    <2> QED
      BY <2>2, <2>3, <2>4
  <1>2. CASE Recommend(x)
    <2> DEFINE b == call[x].batch
               i == run[b].input
               c == call[x].category
               v == call[x].vendor
               new == {s \in i.recommended : s[1] # c} \cup {<<c, v>>}
               j == [i EXCEPT !.recommended = new]
               r == [run[b] EXCEPT !.input = j]
    <2>1. /\ call[x] \in ChooseCalls /\ Founded(call[x]) /\ Holding(x)
          /\ call[x].phase = "weighed"
      BY <1>2, KindOfCall DEF Recommend, At, Callers, Holding, HoldingPhases
    <2>2. /\ b \in Batch /\ c \in Category /\ v \in Vendor
          /\ Exists(b) /\ run[b] \in Runs
          /\ call[x].input = i /\ v \in Compared(i, c)
      BY <2>1 DEF ChooseCalls, Founded, HoldingPhases, Exists, TypeOK
    <2>3. i \in Spread
      BY <2>2 DEF Runs
    <2>4. call' = [call EXCEPT ![x] = None] /\ run' = [run EXCEPT ![b].input = j]
      BY <1>2, <2>2 DEF Recommend, Return
    <2> HIDE DEF i, c, v
    <2>5. new \in SUBSET Choices
      BY <2>2, <2>3 DEF Spread, Choices
    <2> HIDE DEF new
    <2>6. /\ j \in Spread /\ j.recommended = new
          /\ j.candidates = i.candidates /\ j.previous = i.previous
      BY <2>3, <2>5 DEF Spread
    <2> HIDE DEF j
    <2>7. r \in Runs /\ r.input = j
      BY <2>2, <2>6 DEF Runs
    <2>8. [run EXCEPT ![b].input = j] = [run EXCEPT ![b] = r]
      OBVIOUS
    <2>9. Grows(i, j)
      BY <2>6 DEF Grows
    <2> HIDE DEF r
    <2>10. \E d \in Category : \E w \in Compared(i, d) :
             r.input.recommended = {s \in i.recommended : s[1] # d} \cup {<<d, w>>}
      BY <2>2, <2>6, <2>7 DEF new
    <2> QED
      BY <2>1, <2>2, <2>4, <2>7, <2>8, <2>9, <2>10 DEF ToolWrites, i
  <1> QED
    BY <1>1, <1>2

\* Every step of the specification is of one of the kinds.
LEMMA StepKinds ==
  ASSUME TypeOK, OneRow, Callers, [Next]_vars
  PROVE  NewBatch \/ BatchChanges \/ ToolWrites \/ CallEnds \/ CallMoves \/ Idle
  <1>1. CASE UNCHANGED vars
    BY <1>1 DEF vars, Idle
  <1>2. CASE BatchStep
    BY <1>2, BatchSteps
  <1>3. CASE BeginStep
    BY <1>3, BeginSteps
  <1>4. CASE CallStep
    BY <1>4, SearchSteps, ReadSteps, WriteSteps DEF CallStep
  <1>5. CASE OperatorStep
    BY <1>5 DEF OperatorStep, CreateVendor, Rename, SelectVendor, Idle
  <1> QED
    BY <1>1, <1>2, <1>3, <1>4, <1>5 DEF Next

-----------------------------------------------------------------------------
LEMMA StepTypeOK ==
  ASSUME TypeOK, OneRow, Callers, [Next]_vars
  PROVE  TypeOK'
  <1>1. NewBatch \/ BatchChanges => TypeOK'
    BY DEF NewBatch, BatchChanges, TypeOK
  <1>2. ToolWrites \/ CallEnds => TypeOK'
    BY DEF ToolWrites, CallEnds, TypeOK
  <1>3. CallMoves \/ Idle => TypeOK'
    BY DEF CallMoves, Idle, TypeOK
  <1> QED
    BY <1>1, <1>2, <1>3, StepKinds

LEMMA StepOneRow ==
  ASSUME TypeOK, OneRow, Callers, [Next]_vars
  PROVE  OneRow'
  <1> USE DEF OneRow, Holding
  <1>1. CASE NewBatch \/ BatchChanges \/ Idle
    BY <1>1 DEF NewBatch, BatchChanges, Idle
  <1>2. CASE ToolWrites \/ CallEnds
    BY <1>2 DEF ToolWrites, CallEnds, TypeOK
  <1>3. CASE CallMoves
    BY <1>3 DEF CallMoves, TypeOK
  <1> HIDE DEF OneRow
  <1> QED
    BY <1>1, <1>2, <1>3, StepKinds

\* What a call is founded on stays if its run does, or still exists and is not held.
LEMMA StaysFounded ==
  ASSUME NEW x \in Call, Founded(call[x]), call' = call,
         \/ run'[call[x].batch] = run[call[x].batch]
         \/ run'[call[x].batch] # None /\ call[x].phase \notin HoldingPhases
  PROVE  Founded(call[x])'
  <1>1. CASE run'[call[x].batch] = run[call[x].batch]
    BY <1>1 DEF Founded, Exists, Compared
  <1>2. CASE run'[call[x].batch] # None /\ call[x].phase \notin HoldingPhases
    BY <1>2 DEF Founded, Exists, HoldingPhases
  <1> QED
    BY <1>1, <1>2

LEMMA StepCallers ==
  ASSUME TypeOK, OneRow, Callers, [Next]_vars
  PROVE  Callers'
  <1> USE NoneIsNoRun
  <1>1. CASE Idle
    BY <1>1 DEF Idle, Callers, Founded, Exists, Compared
  <1>2. CASE NewBatch
    <2>1. PICK b \in Batch, r \in Runs : ~Exists(b) /\ run' = [run EXCEPT ![b] = r] /\ call' = call
      BY <1>2 DEF NewBatch
    <2>2. ASSUME NEW x \in Call, call[x] # None PROVE run'[call[x].batch] = run[call[x].batch]
      <3>1. Exists(call[x].batch) /\ call[x].batch \in Batch
        BY <2>2, KindOfCall DEF Callers, Founded
      <3> QED
        BY <2>1, <3>1 DEF TypeOK
    <2> QED
      BY <2>1, <2>2, StaysFounded DEF Callers
  <1>3. CASE BatchChanges
    <2>1. PICK b \in Batch, r \in Runs : RowFree(b) /\ run' = [run EXCEPT ![b] = r] /\ call' = call
      BY <1>3 DEF BatchChanges
    <2>2. ASSUME NEW x \in Call, call[x] # None
          PROVE  \/ run'[call[x].batch] = run[call[x].batch]
                 \/ run'[call[x].batch] # None /\ call[x].phase \notin HoldingPhases
      <3>1. call[x].batch \in Batch
        BY <2>2, KindOfCall
      <3>2. CASE call[x].batch = b
        BY <2>1, <2>2, <3>1, <3>2 DEF TypeOK, RowFree, At, HoldingPhases
      <3>3. CASE call[x].batch # b
        BY <2>1, <3>1, <3>3 DEF TypeOK
      <3> QED
        BY <3>2, <3>3
    <2> QED
      BY <2>1, <2>2, StaysFounded DEF Callers
  <1>4. CASE ToolWrites
    <2>1. PICK x \in Call, b \in Batch, r \in Runs :
            /\ Holding(x) /\ call[x].batch = b
            /\ run' = [run EXCEPT ![b] = r]
            /\ call' = [call EXCEPT ![x] = None]
      BY <1>4 DEF ToolWrites
    <2>2. ASSUME NEW y \in Call, call'[y] # None
          PROVE  Founded(call[y])'
      <3>1. y # x /\ call'[y] = call[y] /\ Founded(call[y]) /\ call[y].batch \in Batch
        BY <2>1, <2>2, KindOfCall DEF TypeOK, Callers
      <3>2. CASE call[y].batch = b
        <4>1. call[y].phase \notin HoldingPhases
          BY <2>1, <2>2, <3>1, <3>2 DEF OneRow, Holding
        <4>2. run'[b] # None
          BY <2>1 DEF TypeOK
        <4> QED
          BY <3>1, <3>2, <4>1, <4>2 DEF Founded, Exists, HoldingPhases
      <3>3. CASE call[y].batch # b
        <4>1. run'[call[y].batch] = run[call[y].batch]
          BY <2>1, <3>1, <3>3 DEF TypeOK
        <4> QED
          BY <3>1, <4>1 DEF Founded, Exists, Compared
      <3> QED
        BY <3>2, <3>3
    <2> QED
      BY <2>2 DEF Callers
  <1>5. CASE CallEnds
    BY <1>5 DEF CallEnds, Callers, Founded, Exists, Compared, TypeOK
  <1>6. CASE CallMoves
    BY <1>6 DEF CallMoves, Callers, Founded, Exists, Compared, TypeOK
  <1> QED
    BY <1>1, <1>2, <1>3, <1>4, <1>5, <1>6, StepKinds

\* What RecommendationsStand says of one document.
Stands(i) ==
  /\ \A r \in i.recommended : r[2] \in Compared(i, r[1])
  /\ \A r, s \in i.recommended : r[1] = s[1] => r = s

LEMMA OffersStand ==
  ASSUME NEW i, NEW j, Stands(i), j.recommended = i.recommended, Offers(i) \subseteq Offers(j)
  PROVE  Stands(j)
  BY DEF Stands, Compared, Offers

LEMMA ReplacedStands ==
  ASSUME NEW i, NEW j, Stands(i), Grows(i, j),
         NEW c \in Category, NEW v \in Compared(i, c),
         j.recommended = {s \in i.recommended : s[1] # c} \cup {<<c, v>>}
  PROVE  Stands(j)
  <1>1. \A d : Compared(i, d) \subseteq Compared(j, d)
    BY DEF Compared, Grows
  <1>2. \A r \in j.recommended : (r \in i.recommended /\ r[1] # c) \/ r = <<c, v>>
    OBVIOUS
  <1>3. \A r \in j.recommended : r[2] \in Compared(j, r[1])
    BY <1>1, <1>2 DEF Stands
  <1>4. \A r, s \in j.recommended : r[1] = s[1] => r = s
    BY <1>2 DEF Stands
  <1> QED
    BY <1>3, <1>4 DEF Stands

LEMMA StepStands ==
  ASSUME ResearchInv, [Next]_vars
  PROVE  RecommendationsStand'
  <1> USE DEF ResearchInv
  <1>1. \A b \in Batch : Exists(b) => Stands(run[b].input)
    BY DEF RecommendationsStand, Stands
  <1>2. ASSUME NEW b \in Batch, NEW r \in Runs, run' = [run EXCEPT ![b] = r], Stands(r.input)
        PROVE  RecommendationsStand'
    <2>1. \A a \in Batch : run'[a] # None => Stands(run'[a].input)
      BY <1>1, <1>2 DEF TypeOK, Exists
    <2> QED
      BY <2>1 DEF RecommendationsStand, Stands, Exists, Compared
  <1>3. CASE run' = run
    BY <1>3 DEF RecommendationsStand, Exists, Compared
  <1>4. CASE NewBatch
    <2>1. PICK b \in Batch, r \in Runs :
            /\ run' = [run EXCEPT ![b] = r]
            /\ \/ r.input.recommended = {}
               \/ \E of \in Batch : /\ Exists(of)
                                    /\ r.input.recommended = run[of].input.recommended
                                    /\ Offers(run[of].input) \subseteq Offers(r.input)
      BY <1>4 DEF NewBatch
    <2>2. Stands(r.input)
      BY <1>1, <2>1, OffersStand DEF Stands
    <2> QED
      BY <1>2, <2>1, <2>2
  <1>5. CASE BatchChanges
    <2>1. PICK b \in Batch, r \in Runs :
            /\ Exists(b) /\ run' = [run EXCEPT ![b] = r]
            /\ r.input.recommended = run[b].input.recommended
            /\ Grows(run[b].input, r.input)
      BY <1>5 DEF BatchChanges
    <2>2. Stands(r.input)
      BY <1>1, <2>1, OffersStand DEF Grows, Offers
    <2> QED
      BY <1>2, <2>1, <2>2
  <1>6. CASE ToolWrites
    <2>1. PICK b \in Batch, r \in Runs :
            /\ Exists(b) /\ run' = [run EXCEPT ![b] = r]
            /\ Grows(run[b].input, r.input)
            /\ \/ r.input.recommended = run[b].input.recommended
               \/ \E c \in Category : \E v \in Compared(run[b].input, c) :
                    r.input.recommended =
                      {s \in run[b].input.recommended : s[1] # c} \cup {<<c, v>>}
      BY <1>6 DEF ToolWrites
    <2>2. Stands(run[b].input)
      BY <1>1, <2>1
    <2>3. Stands(r.input)
      <3>1. CASE r.input.recommended = run[b].input.recommended
        BY <2>1, <2>2, <3>1, OffersStand DEF Grows, Offers
      <3>2. CASE \E c \in Category : \E v \in Compared(run[b].input, c) :
                   r.input.recommended =
                     {s \in run[b].input.recommended : s[1] # c} \cup {<<c, v>>}
        BY <2>1, <2>2, <3>2, ReplacedStands
      <3> QED
        BY <2>1, <3>1, <3>2
    <2> QED
      BY <1>2, <2>1, <2>3
  <1> QED
    BY <1>3, <1>4, <1>5, <1>6, StepKinds DEF CallEnds, CallMoves, Idle

THEOREM ResearchInvHolds == Spec => []ResearchInv
  <1>1. Init => ResearchInv
    BY DEF Init, ResearchInv, TypeOK, OneRow, Callers, RecommendationsStand, Holding, Exists
  <1>2. ResearchInv /\ [Next]_vars => ResearchInv'
    BY StepTypeOK, StepOneRow, StepCallers, StepStands DEF ResearchInv
  <1> QED
    BY <1>1, <1>2, PTL DEF Spec

\* Through every retry, expansion and concurrent tool call, a category has at most
\* one recommended vendor, a candidate that its batch or one before it offered.
THEOREM RecommendationsAreCandidates == Spec => []RecommendationsStand
  <1>1. ResearchInv => RecommendationsStand
    BY DEF ResearchInv
  <1> QED
    BY <1>1, ResearchInvHolds, PTL

\* No tool call that writes a run's document back loses a candidate that another
\* call saved, whatever calls of the run are under way and however they end.
THEOREM NoCandidateLost == Spec => CandidatesKept
  <1>1. ASSUME ResearchInv, [Next]_vars, NEW b \in Batch, Exists(b)
        PROVE  /\ Exists(b)'
               /\ Chosen(run[b].input.candidates) \subseteq Chosen(run'[b].input.candidates)
    <2> USE <1>1, NoneIsNoRun
    <2>1. CASE run' = run
      BY <2>1 DEF Exists
    <2>2. ASSUME NEW a \in Batch, NEW r \in Runs, run' = [run EXCEPT ![a] = r],
                 a = b => Grows(run[b].input, r.input)
          PROVE  /\ Exists(b)'
                 /\ Chosen(run[b].input.candidates) \subseteq Chosen(run'[b].input.candidates)
      <3>1. run \in [Batch -> Runs \cup {None}]
        BY DEF ResearchInv, TypeOK
      <3> QED
        BY <2>2, <3>1 DEF Exists, Grows
    <2>3. CASE NewBatch
      BY <2>2, <2>3 DEF NewBatch
    <2>4. CASE BatchChanges \/ ToolWrites
      BY <2>2, <2>4 DEF BatchChanges, ToolWrites
    <2> QED
      BY <2>1, <2>3, <2>4, StepKinds DEF ResearchInv, CallEnds, CallMoves, Idle
  <1>2. ResearchInv /\ [Next]_vars =>
          [\A b \in Batch : Exists(b) =>
             Exists(b)' /\ Chosen(run[b].input.candidates) \subseteq Chosen(run'[b].input.candidates)]_vars
    BY <1>1
  <1> QED
    BY <1>2, ResearchInvHolds, PTL DEF Spec, CandidatesKept

-----------------------------------------------------------------------------
(***************************************************************************)
(* The searches: a run is never charged for more searches than its plan      *)
(* allows, nor twice for a query.  A call that asks the provider holds the   *)
(* run's lock since it compared the searches with the allowance (OneAsks),   *)
(* so the search it will save is the only one that is not yet counted; and   *)
(* the plan, which sets the allowance, changes only while nothing is saved   *)
(* (PlansKept).                                                              *)
(***************************************************************************)
Asking(x, b) == At(x, "searching") /\ call[x].batch = b

OneAsks ==
  /\ search \in Seq(Searches)
  /\ lock \in [Batch -> Call \cup {None}]
  /\ \A x \in Call : At(x, "searching") => lock[call[x].batch] = x
  /\ \A b \in Batch : ~Exists(b) => Used(b) = {}

Spent(b) ==
  /\ Cardinality(Used(b)) <= Allowance(b)
  /\ (\E x \in Call : Asking(x, b)) => Cardinality(Used(b)) + 1 <= Allowance(b)
  /\ \A q \in Query : \A i, j \in Found(b, q) : i = j
  /\ \A x \in Call : Asking(x, b) => Found(b, call[x].query) = {}

SearchInv == OneAsks /\ \A b \in Batch : Exists(b) => Spent(b)

-----------------------------------------------------------------------------
LEMMA UsedIsFinite ==
  ASSUME search \in Seq(Searches), NEW b \in Batch
  PROVE  IsFiniteSet(Used(b)) /\ Cardinality(Used(b)) \in Nat
  <1>1. Len(search) \in Nat
    OBVIOUS
  <1>2. IsFiniteSet(1..Len(search))
    BY <1>1, FS_Interval
  <1>3. Used(b) \subseteq 1..Len(search)
    BY DEF Used
  <1> QED
    BY <1>2, <1>3, FS_Subset, FS_CardinalityType

\* A plan allows SearchLimit searches at least.
LEMMA PlanAllows ==
  ASSUME NEW plan \in Plans \cup {None}
  PROVE  LET n == SearchLimit * (IF plan = None THEN 1 ELSE Cardinality(plan))
         IN  SearchLimit \in Nat /\ n \in Nat /\ n >= SearchLimit
             /\ (plan = None => n = SearchLimit)
  <1> DEFINE size == IF plan = None THEN 1 ELSE Cardinality(plan)
  <1>1. plan # None => Cardinality(plan) \in Nat /\ Cardinality(plan) # 0
    <2>1. ASSUME plan # None PROVE plan \subseteq Category /\ plan # {}
      BY <2>1 DEF Plans
    <2> QED
      BY <2>1, CategoriesAreFinite, FS_Subset, FS_CardinalityType, FS_EmptySet
  <1>2. size \in Nat /\ size >= 1 /\ (plan = None => size = 1)
    BY <1>1
  <1>3. SearchLimit \in Nat
    BY ResearchConstantsOK
  <1> HIDE DEF size
  <1>4. SearchLimit * size \in Nat /\ SearchLimit * size >= SearchLimit
    BY <1>2, <1>3
  <1> QED
    BY <1>2, <1>3, <1>4 DEF size

-----------------------------------------------------------------------------
(* Steps that neither save a search nor ask the provider.                    *)

StillAsking ==
  \A x \in Call : At(x, "searching")' =>
    At(x, "searching") /\ call'[x] = call[x] /\ lock'[call[x].batch] = lock[call[x].batch]

PlansKept ==
  \A b \in Batch :
    /\ Exists(b) => Exists(b)'
    /\ Exists(b)' => \/ ~Exists(b)
                     \/ run'[b].input.plan = run[b].input.plan
                     \/ run[b].input.plan = None /\ Used(b) = {}

Quiet == /\ search' = search
         /\ lock' \in [Batch -> Call \cup {None}]
         /\ StillAsking
         /\ PlansKept

LEMMA StepQuiet ==
  ASSUME ResearchInv, ResearchInv', SearchInv, Quiet
  PROVE  SearchInv'
  <1>1. \A b \in Batch : Used(b)' = Used(b) /\ \A q \in Query : Found(b, q)' = Found(b, q)
    BY DEF Quiet, Used, Found
  <1>2. OneAsks'
    <2>1. \A x \in Call : At(x, "searching")' => lock'[call'[x].batch] = x
      BY DEF SearchInv, OneAsks, Quiet, StillAsking
    <2>2. \A b \in Batch : ~Exists(b)' => Used(b)' = {}
      BY <1>1 DEF SearchInv, OneAsks, Quiet, PlansKept
    <2> QED
      BY <2>1, <2>2 DEF SearchInv, OneAsks, Quiet
  <1>3. ASSUME NEW b \in Batch, Exists(b)' PROVE Spent(b)'
    <2>1. \A x \in Call : Asking(x, b)' =>
            /\ Asking(x, b) /\ call'[x].query = call[x].query /\ call[x].query \in Query
            /\ Exists(b)
      <3>1. ASSUME NEW x \in Call, Asking(x, b)'
            PROVE  Asking(x, b) /\ call'[x] = call[x]
        BY <3>1 DEF Asking, Quiet, StillAsking
      <3>2. ASSUME NEW x \in Call, Asking(x, b) PROVE call[x].query \in Query /\ Exists(b)
        BY <3>2, KindOfCall DEF Asking, At, ResearchInv, SearchCalls, Callers, Founded
      <3> QED
        BY <3>1, <3>2
    <2>2. /\ Allowance(b)' \in Nat /\ Allowance(b)' >= SearchLimit /\ SearchLimit \in Nat
      <3>1. run'[b].input.plan \in Plans \cup {None}
        BY <1>3 DEF ResearchInv, TypeOK, Exists, Runs, Spread
      <3> QED
        BY <3>1, PlanAllows DEF Allowance
    <2>3. CASE ~Exists(b)
      <3>1. Used(b)' = {} /\ Cardinality(Used(b)') = 0
        BY <1>1, <2>3, FS_EmptySet DEF SearchInv, OneAsks
      <3>2. \A q \in Query : Found(b, q)' = {}
        BY <3>1 DEF Found
      <3> QED
        BY <2>1, <2>2, <2>3, <3>1, <3>2 DEF Spent
    <2>4. CASE Exists(b)
      <3>1. Spent(b) /\ Cardinality(Used(b)) \in Nat
        BY <2>4, UsedIsFinite DEF SearchInv, OneAsks
      <3>2. Allowance(b)' = Allowance(b) \/ (Used(b) = {} /\ Allowance(b) = SearchLimit)
        <4>1. CASE run'[b].input.plan = run[b].input.plan
          BY <4>1 DEF Allowance
        <4>2. CASE run[b].input.plan = None /\ Used(b) = {}
          BY <4>2, ResearchConstantsOK DEF Allowance
        <4> QED
          BY <1>3, <2>4, <4>1, <4>2 DEF Quiet, PlansKept
      <3>3. /\ Cardinality(Used(b)') <= Allowance(b)'
            /\ (\E x \in Call : Asking(x, b)') => Cardinality(Used(b)') + 1 <= Allowance(b)'
        <4>1. CASE Allowance(b)' = Allowance(b)
          BY <1>1, <2>1, <3>1, <4>1 DEF Spent
        <4>2. CASE Used(b) = {} /\ Allowance(b) = SearchLimit
          <5>1. Cardinality(Used(b)) = 0
            BY <4>2, FS_EmptySet
          <5> QED
            BY <1>1, <2>1, <2>2, <3>1, <4>2, <5>1 DEF Spent
        <4> QED
          BY <3>2, <4>1, <4>2
      <3> QED
        BY <1>1, <2>1, <3>1, <3>3 DEF Spent
    <2> QED
      BY <2>3, <2>4
  <1> QED
    BY <1>2, <1>3 DEF SearchInv

\* A call that ends or goes on without asking the provider.
LEMMA OthersAsk ==
  ASSUME TypeOK, NEW x \in Call, NEW c, c = None \/ c.phase # "searching",
         call' = [call EXCEPT ![x] = c],
         \A y \in Call : y # x /\ At(y, "searching") =>
           lock'[call[y].batch] = lock[call[y].batch]
  PROVE  StillAsking
  <1>1. call'[x] = c /\ \A y \in Call : y # x => call'[y] = call[y]
    BY DEF TypeOK
  <1>2. ~At(x, "searching")'
    BY <1>1 DEF At
  <1>3. \A y \in Call : y # x /\ At(y, "searching")' => At(y, "searching") /\ call'[y] = call[y]
    BY <1>1 DEF At
  <1> QED
    BY <1>2, <1>3 DEF StillAsking

\* No batch goes away.
LEMMA BatchesStay ==
  ASSUME ResearchInv, [Next]_vars, NEW a \in Batch, Exists(a)
  PROVE  Exists(a)'
  <1>1. ASSUME NEW b \in Batch, NEW r \in Runs, run' = [run EXCEPT ![b] = r]
        PROVE  Exists(a)'
    BY <1>1, NoneIsNoRun DEF ResearchInv, TypeOK, Exists
  <1>2. CASE run' = run
    BY <1>2 DEF Exists
  <1>3. CASE NewBatch \/ BatchChanges \/ ToolWrites
    BY <1>1, <1>3 DEF NewBatch, BatchChanges, ToolWrites
  <1> QED
    BY <1>2, <1>3, StepKinds DEF ResearchInv, CallEnds, CallMoves, Idle

\* What the steps may do to the plan of a batch that is there.
PlanStays ==
  \A a \in Batch : Exists(a) =>
    \/ run'[a].input.plan = run[a].input.plan
    \/ run[a].input.plan = None /\ Used(a) = {}

LEMMA QuietBatchStep ==
  ASSUME ResearchInv, BatchStep
  PROVE  PlanStays /\ UNCHANGED <<search, lock, call>>
  <1>1. run \in [Batch -> Runs \cup {None}]
    BY DEF ResearchInv, TypeOK
  <1>2. ASSUME NEW b \in Batch, NEW of \in Batch, NEW only \in Category \cup {None},
               Start(b) \/ Dispatch(b) \/ Retry(b, of) \/ More(b, of, only)
        PROVE  PlanStays /\ UNCHANGED <<search, lock, call>>
    <2>1. /\ ~Exists(b) /\ UNCHANGED <<search, lock, call>>
          /\ \A a \in Batch : a # b => run'[a] = run[a]
      BY <1>1, <1>2 DEF Start, Dispatch, Retry, More, IsNext
    <2> QED
      BY <2>1 DEF PlanStays
  <1>3. ASSUME NEW b \in Batch, Finish(b) \/ Discard(b)
        PROVE  PlanStays /\ UNCHANGED <<search, lock, call>>
    <2>1. Exists(b) /\ run[b] \in Runs /\ UNCHANGED <<search, lock, call>>
      BY <1>1, <1>3 DEF Finish, Discard, IsActive, Exists
    <2>2. run'[b].input = run[b].input
      BY <1>1, <1>3, <2>1 DEF Finish, Discard, Runs
    <2>3. \A a \in Batch : a # b => run'[a] = run[a]
      BY <1>1, <1>3 DEF Finish, Discard
    <2> QED
      BY <2>1, <2>2, <2>3 DEF PlanStays
  <1>4. ASSUME NEW b \in Batch, NEW categories \in Plans, Plan(b, categories)
        PROVE  PlanStays /\ UNCHANGED <<search, lock, call>>
    <2>1. /\ run[b].input.plan = None /\ Used(b) = {}
          /\ UNCHANGED <<search, lock, call>>
          /\ \A a \in Batch : a # b => run'[a] = run[a]
      BY <1>1, <1>4 DEF Plan, Used
    <2> QED
      BY <2>1 DEF PlanStays
  <1>5. ASSUME NEW b \in Batch, NEW v \in Vendor, NEW vetting \in {"checked", "reviewed"},
               Vet(b, v, vetting)
        PROVE  PlanStays /\ UNCHANGED <<search, lock, call>>
    BY <1>5 DEF Vet, PlanStays
  <1> QED
    BY <1>2, <1>3, <1>4, <1>5 DEF BatchStep

\* A tool that writes the document back keeps its plan.
LEMMA WritesKeepPlan ==
  ASSUME ResearchInv, NEW x \in Call, NEW v \in Vendor,
         SaveKnown(x, v) \/ SaveNew(x, v) \/ Recommend(x)
  PROVE  PlanStays
  <1> DEFINE b == call[x].batch
             i == run[b].input
  <1>1. CASE run' = run
    BY <1>1 DEF PlanStays
  <1>2. CASE run' # run
    <2>1. call[x] # None /\ call[x].phase \in {"named", "weighed"}
      BY <1>2 DEF SaveKnown, SaveNew, Recommend, At
    <2>2. b \in Batch /\ Exists(b) /\ call[x].input = i
      BY <2>1, KindOfCall DEF ResearchInv, Callers, Founded, HoldingPhases
    <2>3. run \in [Batch -> Runs \cup {None}] /\ run[b] \in Runs
      BY <2>2 DEF ResearchInv, TypeOK, Exists
    <2>4. i \in Spread
      BY <2>3 DEF Runs
    <2>5. PICK j : run' = [run EXCEPT ![b].input = j] /\ j.plan = i.plan
      <3>1. CASE SaveKnown(x, v) \/ SaveNew(x, v)
        <4>1. WithCandidate(x, v).plan = call[x].input.plan
          BY <2>2, <2>4 DEF WithCandidate, Spread
        <4>2. run' = [run EXCEPT ![b].input = WithCandidate(x, v)]
          BY <1>2, <3>1 DEF SaveKnown, SaveNew
        <4> QED
          BY <2>2, <4>1, <4>2
      <3>2. CASE Recommend(x)
        <4> DEFINE recommended == {r \in call[x].input.recommended : r[1] # call[x].category}
                                    \cup {<<call[x].category, call[x].vendor>>}
                   j == [call[x].input EXCEPT !.recommended = recommended]
        <4>1. run' = [run EXCEPT ![b].input = j]
          BY <3>2 DEF Recommend
        <4> HIDE DEF recommended
        <4>2. j.plan = i.plan
          BY <2>2, <2>4 DEF Spread
        <4> QED
          BY <4>1, <4>2
      <3> QED
        BY <3>1, <3>2
    <2> HIDE DEF b, i
    <2>6. run'[b].input = j /\ \A a \in Batch : a # b => run'[a] = run[a]
      BY <2>2, <2>3, <2>5 DEF Runs
    <2> QED
      BY <2>2, <2>5, <2>6 DEF PlanStays, i
  <1> QED
    BY <1>1, <1>2

\* A call ends or goes on, neither saving a search nor asking the provider.
LEMMA QuietCallStep ==
  ASSUME ResearchInv, SearchInv, NEW x \in Call,
         \/ NoAnswer(x) \/ Drop(x) \/ Place(x) \/ LockName(x) \/ Weigh(x) \/ Recommend(x)
         \/ \E v \in Vendor : SaveKnown(x, v) \/ SaveNew(x, v)
         \/ Acquire(x) /\ lock' = lock
  PROVE  StillAsking /\ search' = search /\ lock' \in [Batch -> Call \cup {None}]
  <1>1. /\ TypeOK /\ lock \in [Batch -> Call \cup {None}] /\ call[x] # None
        /\ \A y \in Call : At(y, "searching") => lock[call[y].batch] = y /\ call[y].batch \in Batch
    BY KindOfCall DEF ResearchInv, SearchInv, OneAsks, At, NoAnswer, Drop, Place, LockName,
       Weigh, Recommend, SaveKnown, SaveNew, Acquire
  <1>2. CASE ~(NoAnswer(x) \/ Drop(x))
    <2>1. PICK c : call' = [call EXCEPT ![x] = c] /\ (c = None \/ c.phase # "searching")
      <3>1. CASE Place(x) /\ ~Return(x)
        <4>1. call[x] \in SaveCalls
          BY <1>1, <3>1, KindOfCall DEF Place, At
        <4>2. PICK i, saved : call' = [call EXCEPT ![x].phase = "placed", ![x].input = i,
                                                  ![x].saved = saved]
          BY <3>1 DEF Place
        <4> DEFINE c == [call[x] EXCEPT !.phase = "placed", !.input = i, !.saved = saved]
        <4>3. c.phase = "placed"
          BY <4>1 DEF SaveCalls
        <4>4. call' = [call EXCEPT ![x] = c]
          BY <4>2
        <4> HIDE DEF c
        <4> QED
          BY <4>3, <4>4
      <3>2. CASE LockName(x)
        <4>1. call[x] \in SaveCalls
          BY <1>1, <3>2, KindOfCall DEF LockName, At
        <4>2. PICK found : call' = [call EXCEPT ![x].phase = "named", ![x].found = found]
          BY <3>2 DEF LockName
        <4> DEFINE c == [call[x] EXCEPT !.phase = "named", !.found = found]
        <4>3. c.phase = "named"
          BY <4>1 DEF SaveCalls
        <4>4. call' = [call EXCEPT ![x] = c]
          BY <4>2
        <4> HIDE DEF c
        <4> QED
          BY <4>3, <4>4
      <3>3. CASE Weigh(x) /\ ~Return(x)
        <4>1. call[x] \in ChooseCalls
          BY <1>1, <3>3, KindOfCall DEF Weigh, At
        <4>2. PICK i : call' = [call EXCEPT ![x].phase = "weighed", ![x].input = i]
          BY <3>3 DEF Weigh
        <4> DEFINE c == [call[x] EXCEPT !.phase = "weighed", !.input = i]
        <4>3. c.phase = "weighed"
          BY <4>1 DEF ChooseCalls
        <4>4. call' = [call EXCEPT ![x] = c]
          BY <4>2
        <4> HIDE DEF c
        <4> QED
          BY <4>3, <4>4
      <3>4. Acquire(x) /\ lock' = lock => Return(x)
        <4>1. call[x].batch \in Batch
          BY <1>1, KindOfCall
        <4> QED
          BY <1>1, <4>1, ResearchConstantsOK DEF Acquire
      <3>5. Return(x) \/ (Place(x) /\ ~Return(x)) \/ LockName(x) \/ (Weigh(x) /\ ~Return(x))
        BY <1>2, <3>4 DEF Recommend, SaveKnown, SaveNew
      <3> QED
        BY <3>1, <3>2, <3>3, <3>5 DEF Return
    <2>2. search' = search /\ lock' = lock
      BY <1>2 DEF Place, LockName, Weigh, Recommend, SaveKnown, SaveNew, Acquire
    <2> QED
      BY <1>1, <2>1, <2>2, OthersAsk
  <1>3. CASE NoAnswer(x) \/ Drop(x)
    <2>1. /\ call' = [call EXCEPT ![x] = None] /\ search' = search
          /\ \/ At(x, "searching") /\ lock' = [lock EXCEPT ![call[x].batch] = None]
             \/ lock' = [b \in Batch |-> IF lock[b] = x THEN None ELSE lock[b]]
      BY <1>3 DEF NoAnswer, Drop, Return
    <2>2. lock' \in [Batch -> Call \cup {None}]
      BY <1>1, <2>1
    <2>3. \A y \in Call : y # x /\ At(y, "searching") =>
            lock'[call[y].batch] = lock[call[y].batch]
      BY <1>1, <2>1
    <2> QED
      BY <1>1, <2>1, <2>2, <2>3, OthersAsk
  <1> QED
    BY <1>2, <1>3

LEMMA QuietBegin ==
  ASSUME ResearchInv, SearchInv, BeginStep
  PROVE  StillAsking /\ UNCHANGED <<run, search, lock>>
  <1>1. PICK x \in Call :
          /\ \E c : c.phase # "searching" /\ call' = [call EXCEPT ![x] = c]
          /\ UNCHANGED <<run, search, lock>>
    BY DEF BeginStep, BeginSearch, BeginSave, BeginRecommend, Begin
  <1>2. PICK c : c.phase # "searching" /\ call' = [call EXCEPT ![x] = c]
    BY <1>1
  <1> QED
    BY <1>1, <1>2, OthersAsk DEF ResearchInv

\* The call that got the run's lock is the only one that asks.
LEMMA AskStep ==
  ASSUME ResearchInv, SearchInv, NEW x \in Call, Acquire(x), lock' # lock
  PROVE  SearchInv'
  <1>1. PICK b \in Batch, q \in Query :
        /\ call[x] \in SearchCalls /\ b = call[x].batch /\ q = call[x].query /\ Exists(b)
        /\ call \in [Call -> SearchCalls \cup SaveCalls \cup ChooseCalls \cup {None}]
    BY KindOfCall DEF ResearchInv, TypeOK, Acquire, At, Callers, Founded, SearchCalls
  <1>2. /\ lock[b] = None /\ lock' = [lock EXCEPT ![b] = x]
        /\ Found(b, q) = {} /\ ~(Cardinality(Used(b)) >= Allowance(b))
        /\ call' = [call EXCEPT ![x].phase = "searching"]
        /\ UNCHANGED <<run, search>>
    BY <1>1 DEF Acquire
  <1>3. /\ call'[x].batch = b /\ call'[x].query = q
        /\ \A y \in Call : y # x => call'[y] = call[y]
    BY <1>1, <1>2 DEF SearchCalls
  <1>4. \A y \in Call : At(y, "searching") => lock[call[y].batch] = y
    BY DEF SearchInv, OneAsks
  <1>5. \A y \in Call : At(y, "searching") => call[y].batch # b
    BY <1>2, <1>4, ResearchConstantsOK
  <1>6. \A a \in Batch : /\ Used(a)' = Used(a) /\ Allowance(a)' = Allowance(a)
                         /\ Exists(a)' = Exists(a)
                         /\ \A p \in Query : Found(a, p)' = Found(a, p)
    BY <1>2 DEF Used, Found, Allowance, Exists
  <1>7. OneAsks'
    <2>1. lock' \in [Batch -> Call \cup {None}]
      BY <1>2 DEF SearchInv, OneAsks
    <2>2. ASSUME NEW y \in Call, At(y, "searching")' PROVE lock'[call'[y].batch] = y
      <3>1. CASE y = x
        BY <1>1, <1>2, <1>3, <3>1 DEF SearchInv, OneAsks
      <3>2. CASE y # x
        <4>1. At(y, "searching") /\ call'[y] = call[y] /\ call[y].batch # b
          BY <1>3, <1>5, <2>2, <3>2 DEF At
        <4>2. call[y].batch \in Batch
          BY <4>1, KindOfCall DEF ResearchInv, At
        <4> QED
          BY <1>2, <1>4, <4>1, <4>2 DEF SearchInv, OneAsks
      <3> QED
        BY <3>1, <3>2
    <2> QED
      BY <1>2, <1>6, <2>1, <2>2 DEF SearchInv, OneAsks
  <1>8. ASSUME NEW a \in Batch, Exists(a) PROVE Spent(a)'
    <2>1. Spent(a)
      BY <1>8 DEF SearchInv
    <2>2. CASE a = b
      <3>1. \A y \in Call : Asking(y, a)' => y = x
        BY <1>3, <1>5, <2>2 DEF Asking, At
      <3>2. Cardinality(Used(b)) \in Nat /\ Allowance(b) \in Nat
        <4>1. run[b].input.plan \in Plans \cup {None}
          BY <1>1 DEF ResearchInv, TypeOK, Exists, Runs, Spread
        <4> QED
          BY <1>1, <4>1, UsedIsFinite, PlanAllows DEF SearchInv, OneAsks, Allowance
      <3>3. Cardinality(Used(b)) + 1 <= Allowance(b)
        BY <1>2, <3>2
      <3>4. \A y \in Call : Asking(y, a)' => Found(a, call[y].query)' = {}
        BY <1>1, <1>2, <1>3, <1>6, <2>2, <3>1
      <3>5. \A p \in Query : \A i, j \in Found(a, p)' : i = j
        BY <1>6, <2>1 DEF Spent
      <3> QED
        BY <1>6, <2>1, <2>2, <3>3, <3>4, <3>5 DEF Spent
    <2>3. CASE a # b
      <3>1. \A y \in Call : Asking(y, a)' => Asking(y, a) /\ call'[y] = call[y]
        BY <1>3, <2>3 DEF Asking, At
      <3>2. \A y \in Call : Asking(y, a) => call[y].query \in Query
        BY KindOfCall DEF Asking, At, ResearchInv, SearchCalls
      <3> QED
        BY <1>6, <2>1, <3>1, <3>2 DEF Spent
    <2> QED
      BY <2>2, <2>3
  <1> QED
    BY <1>6, <1>7, <1>8 DEF SearchInv

\* The search that was asked for is saved, and nobody asks.
LEMMA AnswerStep ==
  ASSUME ResearchInv, SearchInv, NEW x \in Call, Answer(x)
  PROVE  SearchInv'
  <1> DEFINE n == Len(search) + 1
  <1>1. PICK b \in Batch, q \in Query :
        /\ At(x, "searching") /\ b = call[x].batch /\ q = call[x].query /\ Exists(b)
        /\ call \in [Call -> SearchCalls \cup SaveCalls \cup ChooseCalls \cup {None}]
    BY KindOfCall DEF ResearchInv, TypeOK, Answer, At, Callers, Founded, SearchCalls
  <1>2. /\ search \in Seq(Searches) /\ Len(search) \in Nat
        /\ search' = Append(search, [batch |-> b, query |-> q])
        /\ lock' = [lock EXCEPT ![b] = None]
        /\ call' = [call EXCEPT ![x] = None]
        /\ run' = run
    BY <1>1 DEF Answer, Return, SearchInv, OneAsks
  <1>3. /\ search' \in Seq(Searches) /\ Len(search') = n
        /\ search'[n].batch = b /\ search'[n].query = q
        /\ \A i \in 1..Len(search) : search'[i] = search[i]
        /\ 1..Len(search') = 1..Len(search) \cup {n} /\ n \notin 1..Len(search)
    BY <1>1, <1>2 DEF Searches
  <1>4. /\ Used(b)' = Used(b) \cup {n}
        /\ \A a \in Batch : a # b => Used(a)' = Used(a)
    BY <1>2, <1>3 DEF Used
  <1>5. /\ \A p \in Query : p # q => Found(b, p)' = Found(b, p)
        /\ Found(b, q)' = Found(b, q) \cup {n}
        /\ \A a \in Batch : a # b => \A p \in Query : Found(a, p)' = Found(a, p)
    BY <1>2, <1>3, <1>4 DEF Found, Used
  <1>6. /\ ~At(x, "searching")'
        /\ \A y \in Call : At(y, "searching")' => At(y, "searching") /\ call'[y] = call[y]
    BY <1>1, <1>2 DEF At
  <1>7. \A y \in Call : At(y, "searching") => lock[call[y].batch] = y /\ call[y].batch \in Batch
    BY KindOfCall DEF SearchInv, OneAsks, ResearchInv, At
  <1>8. \A y \in Call : At(y, "searching")' => call[y].batch # b
    BY <1>1, <1>6, <1>7
  <1>9. \A a \in Batch : Allowance(a)' = Allowance(a) /\ Exists(a)' = Exists(a)
    BY <1>2 DEF Allowance, Exists
  <1>10. OneAsks'
    <2>1. lock' \in [Batch -> Call \cup {None}]
      BY <1>2 DEF SearchInv, OneAsks
    <2>2. \A y \in Call : At(y, "searching")' => lock'[call'[y].batch] = y
      BY <1>2, <1>6, <1>7, <1>8 DEF SearchInv, OneAsks
    <2>3. \A a \in Batch : ~Exists(a)' => Used(a)' = {}
      BY <1>1, <1>4, <1>9 DEF SearchInv, OneAsks
    <2> QED
      BY <1>3, <2>1, <2>2, <2>3 DEF OneAsks
  <1>11. ASSUME NEW a \in Batch, Exists(a) PROVE Spent(a)'
    <2>1. Spent(a)
      BY <1>11 DEF SearchInv
    <2>2. CASE a = b
      <3>1. Asking(x, b) /\ Cardinality(Used(b)) + 1 <= Allowance(b) /\ Found(b, q) = {}
        BY <1>1, <2>1, <2>2 DEF Spent, Asking
      <3>2. n \notin Used(b)
        BY <1>2 DEF Used
      <3>3. Cardinality(Used(b)') = Cardinality(Used(b)) + 1
        BY <1>1, <1>2, <1>4, <3>2, UsedIsFinite, FS_AddElement
      <3>4. \A y \in Call : ~Asking(y, b)'
        BY <1>6, <1>8 DEF Asking
      <3>5. \A p \in Query : \A i, j \in Found(b, p)' : i = j
        BY <1>5, <2>1, <2>2, <3>1 DEF Spent
      <3> QED
        BY <1>9, <2>2, <3>1, <3>3, <3>4, <3>5 DEF Spent
    <2>3. CASE a # b
      <3>1. \A y \in Call : Asking(y, a)' => Asking(y, a) /\ call'[y] = call[y]
        BY <1>6 DEF Asking
      <3>2. \A y \in Call : Asking(y, a) => call[y].query \in Query
        BY KindOfCall DEF Asking, At, ResearchInv, SearchCalls
      <3> QED
        BY <1>4, <1>5, <1>9, <2>1, <2>3, <3>1, <3>2 DEF Spent
    <2> QED
      BY <2>2, <2>3
  <1> QED
    BY <1>9, <1>10, <1>11 DEF SearchInv

LEMMA StepSearch ==
  ASSUME ResearchInv, ResearchInv', SearchInv, [Next]_vars
  PROVE  SearchInv'
  <1>1. ASSUME PlanStays, StillAsking, search' = search, lock' \in [Batch -> Call \cup {None}]
        PROVE  SearchInv'
    <2>1. PlansKept
      BY <1>1, BatchesStay DEF PlansKept, PlanStays
    <2> QED
      BY <1>1, <2>1, StepQuiet DEF Quiet
  <1>2. lock \in [Batch -> Call \cup {None}]
    BY DEF SearchInv, OneAsks
  <1>3. UNCHANGED call /\ UNCHANGED lock => StillAsking
    BY DEF StillAsking, At
  <1>4. UNCHANGED run => PlanStays
    BY DEF PlanStays
  <1>5. CASE UNCHANGED vars
    BY <1>1, <1>2, <1>3, <1>4, <1>5 DEF vars
  <1>6. CASE BatchStep
    BY <1>1, <1>2, <1>3, <1>6, QuietBatchStep
  <1>7. CASE BeginStep
    BY <1>1, <1>2, <1>4, <1>7, QuietBegin
  <1>8. CASE OperatorStep
    <2>1. UNCHANGED <<run, search, lock, call>>
      BY <1>8 DEF OperatorStep, CreateVendor, Rename, SelectVendor
    <2> QED
      BY <1>1, <1>2, <1>3, <1>4, <2>1
  <1>9. ASSUME NEW x \in Call,
               \/ NoAnswer(x) \/ Drop(x) \/ Place(x) \/ LockName(x) \/ Weigh(x)
               \/ Acquire(x) /\ lock' = lock
        PROVE  SearchInv'
    <2>1. UNCHANGED run
      BY <1>9 DEF NoAnswer, Drop, Place, LockName, Weigh, Acquire
    <2> QED
      BY <1>1, <1>4, <1>9, <2>1, QuietCallStep
  <1>10. ASSUME NEW x \in Call, NEW v \in Vendor,
                SaveKnown(x, v) \/ SaveNew(x, v) \/ Recommend(x)
         PROVE  SearchInv'
    BY <1>1, <1>10, QuietCallStep, WritesKeepPlan
  <1>11. ASSUME NEW x \in Call, Recommend(x) PROVE SearchInv'
    <2>1. call[x] # None /\ call[x].phase = "weighed"
      BY <1>11 DEF Recommend, At
    <2>2. call[x].vendor \in Vendor
      BY <2>1, KindOfCall DEF ResearchInv, ChooseCalls
    <2> QED
      BY <1>10, <1>11, <2>2
  <1>12. ASSUME NEW x \in Call, Answer(x) \/ (Acquire(x) /\ lock' # lock) PROVE SearchInv'
    BY <1>12, AnswerStep, AskStep
  <1> QED
    BY <1>5, <1>6, <1>7, <1>8, <1>9, <1>10, <1>11, <1>12 DEF Next, CallStep

\* The one call that may be asking is counted with the searches that are saved.
LEMMA AllowanceFollows ==
  ASSUME ResearchInv, SearchInv
  PROVE  AllowanceIsKept
  <1> SUFFICES ASSUME NEW b \in Batch, Exists(b)
               PROVE  LET asking == {x \in Call : At(x, "searching") /\ call[x].batch = b}
                      IN /\ Cardinality(Used(b)) + Cardinality(asking) <= Allowance(b)
                         /\ \A q \in Query :
                              Cardinality(Found(b, q))
                                + Cardinality({x \in asking : call[x].query = q}) <= 1
    BY DEF AllowanceIsKept
  <1> DEFINE asking == {x \in Call : At(x, "searching") /\ call[x].batch = b}
             same(q) == {x \in asking : call[x].query = q}
  <1>1. Spent(b) /\ IsFiniteSet(Used(b)) /\ Cardinality(Used(b)) \in Nat
    BY UsedIsFinite DEF SearchInv, OneAsks
  <1>2. \A x \in Call : x \in asking <=> Asking(x, b)
    BY DEF Asking
  <1>3. \A x, y \in asking : x = y
    BY DEF SearchInv, OneAsks
  <1>4. asking = {} \/ \E x \in asking : asking = {x}
    BY <1>3
  <1>5. Cardinality(Used(b)) + Cardinality(asking) <= Allowance(b)
    <2>1. CASE asking = {}
      <3>1. Cardinality(asking) = 0
        BY <2>1, FS_EmptySet
      <3> QED
        BY <1>1, <3>1 DEF Spent
    <2>2. ASSUME NEW x \in asking, asking = {x}
          PROVE  Cardinality(Used(b)) + Cardinality(asking) <= Allowance(b)
      <3>1. Cardinality(asking) = 1
        BY <2>2, FS_Singleton
      <3>2. Asking(x, b)
        BY <1>2, <2>2
      <3> QED
        BY <1>1, <3>1, <3>2 DEF Spent
    <2> QED
      BY <1>4, <2>1, <2>2
  <1>6. ASSUME NEW q \in Query
        PROVE  Cardinality(Found(b, q)) + Cardinality(same(q)) <= 1
    <2>1. IsFiniteSet(Found(b, q))
      BY <1>1, FS_Subset DEF Found
    <2>2. Found(b, q) = {} \/ \E i \in Found(b, q) : Found(b, q) = {i}
      BY <1>1 DEF Spent
    <2>3. same(q) = {} \/ \E x \in same(q) : same(q) = {x}
      BY <1>3
    <2>4. same(q) # {} => Found(b, q) = {}
      BY <1>1, <1>2 DEF Spent
    <2>5. \A S : (S = {} => Cardinality(S) = 0) /\ ((\E e \in S : S = {e}) => Cardinality(S) = 1)
      BY FS_EmptySet, FS_Singleton
    <2>6. /\ Cardinality(Found(b, q)) = 0 \/ Cardinality(Found(b, q)) = 1
          /\ Cardinality(same(q)) = 0 \/ Cardinality(same(q)) = 1
          /\ Cardinality(same(q)) = 1 => Cardinality(Found(b, q)) = 0
      BY <2>2, <2>3, <2>4, <2>5
    <2> QED
      BY <2>6
  <1> QED
    BY <1>5, <1>6

\* Calls that ask hold the lock, and what is spent and asked for is within the plan.
THEOREM SearchInvHolds == Spec => []SearchInv
  <1>1. Init => SearchInv
    <2> SUFFICES ASSUME Init PROVE OneAsks /\ \A b \in Batch : ~Exists(b)
      BY DEF SearchInv
    <2> QED
      BY DEF Init, OneAsks, Exists, At, Used
  <1>2. ResearchInv /\ ResearchInv' /\ SearchInv /\ [Next]_vars => SearchInv'
    BY StepSearch
  <1> QED
    BY <1>1, <1>2, ResearchInvHolds, PTL DEF Spec

\* The searches a run has paid for, with the one being asked for, are within its
\* allowance, and no query is paid for twice, for any batches, calls and plans.
THEOREM AllowanceHolds == Spec => []AllowanceIsKept
  <1>1. ResearchInv /\ SearchInv => AllowanceIsKept
    BY AllowanceFollows
  <1> QED
    BY <1>1, ResearchInvHolds, SearchInvHolds, PTL

-----------------------------------------------------------------------------
(***************************************************************************)
(* The candidates.  A save holds the run's row from reading the document to  *)
(* writing it, but not the vendors it looked up: what it has checked about   *)
(* them stays true because no other step takes a name from a vendor without  *)
(* renaming it, or excludes or offers a vendor there is not (StaysFit).      *)
(* A plan comes before any candidate (Sound).                                *)
(***************************************************************************)
Rows == {"placed", "named"}

\* What CandidatesBounded says of one document, where free are the renamed vendors.
Bounded(i, free) ==
  /\ \A c \in Category : Cardinality(InCategory(i.candidates, c)) <= PerCategory
  /\ i.plan # None => \A n \in 1..Len(i.candidates) : i.candidates[n][1] \in i.plan
  /\ \A n \in 1..Len(i.candidates) : i.candidates[n][2] \notin free =>
       /\ i.candidates[n][2] \notin i.excluded
       /\ \A m \in 1..Len(i.candidates) : i.candidates[m] = i.candidates[n] => m = n

\* A document whose vendors are all among known.
Names(i, known) ==
  /\ i.excluded \subseteq known
  /\ \A n \in 1..Len(i.candidates) : i.candidates[n][2] \in known

\* A document has candidates only after a search, when its plan no longer changes.
Sound(b) ==
  /\ Bounded(run[b].input, renamed)
  /\ Names(run[b].input, Known)
  /\ run[b].input.candidates # <<>> => Used(b) # {}

\* What a save has found out stays so until it writes, except about the vendors
\* the operator renames: the candidate is of the plan, there is room for it, and
\* the vendors of the name are neither excluded nor candidates.
Checked(c, namesakes) ==
  /\ c.input.plan # None => c.category \in c.input.plan
  /\ ~c.saved => ~Full(c.input, c.category)
  /\ \A v \in namesakes :
       /\ v \notin c.input.excluded
       /\ ~c.saved => <<c.category, v>> \notin Chosen(c.input.candidates)

Namesakes(c) == Named(c.name) \ renamed

Fit(x) ==
  /\ Used(call[x].batch) # {}
  /\ call[x].phase \in Rows => call[x].saved \in BOOLEAN /\ Checked(call[x], Namesakes(call[x]))
  /\ call[x].phase = "named" => /\ call[x].found \subseteq Known
                                /\ call[x].found \ renamed \subseteq Namesakes(call[x])

Saves(x) == call[x] # None /\ call[x].phase \in Rows \cup {"saving"}

VendorsTypeOK == vendor \in [Vendor -> Vendors \cup {None}] /\ renamed \subseteq Vendor

OffersInv ==
  /\ VendorsTypeOK
  /\ \A b \in Batch : Exists(b) => Sound(b)
  /\ \A x \in Call : Saves(x) => Fit(x)

-----------------------------------------------------------------------------
(* What every step keeps of the vendors and the searches.                   *)

VendorsStay ==
  /\ VendorsTypeOK'
  /\ Known \subseteq Known'
  /\ renamed \subseteq renamed'
  /\ \A v \in Known \ renamed' : vendor'[v].name = vendor[v].name

SearchesStay == \A b \in Batch : Used(b) # {} => Used(b)' # {}

\* A vendor is added or changed, and renamed if its name is.
LEMMA VendorChanges ==
  ASSUME VendorsTypeOK, NEW v \in Vendor, NEW w \in Vendors,
         vendor' = [vendor EXCEPT ![v] = w],
         \/ renamed' = renamed /\ (v \in Known => w.name = vendor[v].name)
         \/ renamed' = renamed \cup {v}
  PROVE  VendorsStay
  <1>1. VendorsTypeOK'
    BY DEF VendorsTypeOK
  <1>2. Known \subseteq Known'
    BY NoneIsNoVendor DEF VendorsTypeOK, Known
  <1>3. \A u \in Known \ renamed' : vendor'[u].name = vendor[u].name
    BY DEF VendorsTypeOK, Known
  <1> QED
    BY <1>1, <1>2, <1>3 DEF VendorsStay

LEMMA VendorsKept ==
  ASSUME VendorsTypeOK, UNCHANGED <<vendor, renamed>>
  PROVE  VendorsStay
  BY DEF VendorsTypeOK, VendorsStay, Known

LEMMA VettingKeeps ==
  ASSUME VendorsTypeOK, NEW v \in Known, NEW vetting \in {"checked", "reviewed"}
  PROVE  /\ [vendor[v] EXCEPT !.vetting = vetting] \in Vendors
         /\ [vendor[v] EXCEPT !.vetting = vetting].name = vendor[v].name
  BY DEF VendorsTypeOK, Known, Vendors

LEMMA ContactKeeps ==
  ASSUME VendorsTypeOK, NEW v \in Known, NEW contact \in BOOLEAN
  PROVE  /\ [vendor[v] EXCEPT !.contact = @ \/ contact] \in Vendors
         /\ [vendor[v] EXCEPT !.contact = @ \/ contact].name = vendor[v].name
  <1> DEFINE k == vendor[v].contact \/ contact
  <1>1. k \in BOOLEAN
    OBVIOUS
  <1> HIDE DEF k
  <1>2. /\ [vendor[v] EXCEPT !.contact = k] \in Vendors
        /\ [vendor[v] EXCEPT !.contact = k].name = vendor[v].name
    BY <1>1 DEF VendorsTypeOK, Known, Vendors
  <1> QED
    BY <1>2 DEF k

LEMMA StepVendors ==
  ASSUME ResearchInv, OffersInv, [Next]_vars
  PROVE  VendorsStay
  <1>0. VendorsTypeOK
    BY DEF OffersInv
  <1> USE <1>0
  <1>1. CASE UNCHANGED <<vendor, renamed>>
    BY <1>1, VendorsKept
  <1>2. ASSUME NEW b \in Batch, NEW v \in Vendor, NEW vetting \in {"checked", "reviewed"},
               Vet(b, v, vetting)
        PROVE  VendorsStay
    <2> DEFINE w == [vendor[v] EXCEPT !.vetting = vetting]
    <2>1. v \in Known /\ vendor' = [vendor EXCEPT ![v] = w] /\ renamed' = renamed
      BY <1>2 DEF Vet
    <2>2. w \in Vendors /\ w.name = vendor[v].name
      BY <2>1, VettingKeeps
    <2> HIDE DEF w
    <2> QED
      BY <2>1, <2>2, VendorChanges
  <1>3. ASSUME NEW x \in Call, NEW v \in Vendor, SaveKnown(x, v)
        PROVE  VendorsStay
    <2> DEFINE w == [vendor[v] EXCEPT !.contact = @ \/ call[x].contact]
    <2>1. /\ v \in call[x].found /\ renamed' = renamed
          /\ vendor' = vendor \/ vendor' = [vendor EXCEPT ![v] = w]
          /\ call[x] # None /\ call[x].phase = "named"
      BY <1>3 DEF SaveKnown, At
    <2>2. v \in Known
      BY <2>1 DEF OffersInv, Saves, Fit, Rows
    <2>3. call[x].contact \in BOOLEAN
      <3>1. call[x] \in SaveCalls
        BY <2>1, KindOfCall DEF ResearchInv
      <3> QED
        BY <3>1 DEF SaveCalls
    <2>4. w \in Vendors /\ w.name = vendor[v].name
      BY <2>2, <2>3, ContactKeeps
    <2> HIDE DEF w
    <2>5. CASE vendor' = vendor
      BY <1>1, <2>1, <2>5
    <2>6. CASE vendor' = [vendor EXCEPT ![v] = w]
      BY <2>1, <2>4, <2>6, VendorChanges
    <2> QED
      BY <2>1, <2>5, <2>6
  <1>4. ASSUME NEW v \in Vendor, NEW name \in Name, NEW managed \in BOOLEAN,
               NEW contact \in BOOLEAN, v \notin Known, renamed' = renamed,
               vendor' = [vendor EXCEPT ![v] =
                 [name |-> name, managed |-> managed, discarded |-> FALSE,
                  contact |-> contact, vetting |-> "none"]]
        PROVE  VendorsStay
    <2> DEFINE w == [name |-> name, managed |-> managed, discarded |-> FALSE,
                     contact |-> contact, vetting |-> "none"]
    <2>1. w \in Vendors
      BY DEF Vendors
    <2>2. vendor' = [vendor EXCEPT ![v] = w]
      BY <1>4
    <2> HIDE DEF w
    <2> QED
      BY <1>4, <2>1, <2>2, VendorChanges
  <1>5. ASSUME NEW x \in Call, NEW v \in Vendor, SaveNew(x, v)
        PROVE  VendorsStay
    <2>1. call[x].contact \in BOOLEAN /\ call[x].name \in Name
      <3>1. call[x] \in SaveCalls
        BY <1>5, KindOfCall DEF SaveNew, At, ResearchInv
      <3> QED
        BY <3>1 DEF SaveCalls
    <2>2. v \notin Known /\ renamed' = renamed
      BY <1>5 DEF SaveNew
    <2>3. CASE UNCHANGED vendor
      BY <1>1, <2>2, <2>3
    <2>4. CASE ~UNCHANGED vendor
      <3>1. vendor' = [vendor EXCEPT ![v] =
               [name |-> call[x].name, managed |-> FALSE, discarded |-> FALSE,
                contact |-> call[x].contact, vetting |-> "none"]]
        BY <1>5, <2>4 DEF SaveNew
      <3> QED
        BY <1>4, <2>1, <2>2, <3>1
    <2> QED
      BY <2>3, <2>4
  <1>6. ASSUME NEW v \in Vendor, NEW name \in Name, CreateVendor(v, name)
        PROVE  VendorsStay
    BY <1>4, <1>6 DEF CreateVendor
  <1>7. ASSUME NEW v \in Vendor, NEW name \in Name, Rename(v, name)
        PROVE  VendorsStay
    <2> DEFINE w == [vendor[v] EXCEPT !.name = name]
    <2>1. v \in Known /\ vendor' = [vendor EXCEPT ![v] = w] /\ renamed' = renamed \cup {v}
      BY <1>7 DEF Rename
    <2>2. w \in Vendors
      BY <2>1 DEF VendorsTypeOK, Known, Vendors
    <2> HIDE DEF w
    <2> QED
      BY <2>1, <2>2, VendorChanges
  <1>8. ASSUME NEW v \in Vendor, NEW discarded \in BOOLEAN, SelectVendor(v, discarded)
        PROVE  VendorsStay
    <2> DEFINE w == [vendor[v] EXCEPT !.discarded = discarded]
    <2>1. v \in Known /\ vendor' = [vendor EXCEPT ![v] = w] /\ renamed' = renamed
      BY <1>8 DEF SelectVendor
    <2>2. w \in Vendors /\ w.name = vendor[v].name
      BY <2>1 DEF VendorsTypeOK, Known, Vendors
    <2> HIDE DEF w
    <2> QED
      BY <2>1, <2>2, VendorChanges
  <1>9. CASE UNCHANGED vars
    BY <1>1, <1>9 DEF vars
  <1>10. CASE BatchStep
    BY <1>1, <1>2, <1>10 DEF BatchStep, Start, Dispatch, Finish, Discard, Retry, More, Plan
  <1>11. CASE BeginStep
    BY <1>1, <1>11 DEF BeginStep, BeginSearch, BeginSave, BeginRecommend, Begin
  <1>12. CASE CallStep
    BY <1>1, <1>3, <1>5, <1>12
       DEF CallStep, Acquire, Answer, NoAnswer, Drop, Place, LockName, Weigh, Recommend
  <1>13. CASE OperatorStep
    BY <1>6, <1>7, <1>8, <1>13 DEF OperatorStep
  <1> QED
    BY <1>9, <1>10, <1>11, <1>12, <1>13 DEF Next

LEMMA StepSearches ==
  ASSUME SearchInv, SearchInv', [Next]_vars
  PROVE  SearchesStay
  <1>1. CASE UNCHANGED search
    BY <1>1 DEF SearchesStay, Used
  <1>2. ASSUME NEW x \in Call, Answer(x) PROVE SearchesStay
    <2> DEFINE e == [batch |-> call[x].batch, query |-> call[x].query]
    <2>1. search \in Seq(Searches) /\ search' \in Seq(Searches) /\ search' = Append(search, e)
      BY <1>2 DEF Answer, SearchInv, OneAsks
    <2> HIDE DEF e
    <2>2. Len(search') = Len(search) + 1 /\ \A n \in 1..Len(search) : search'[n] = search[n]
      BY <2>1
    <2>3. Len(search) \in Nat
      BY <2>1
    <2> QED
      BY <2>2, <2>3 DEF SearchesStay, Used
  <1>3. UNCHANGED search \/ \E x \in Call : Answer(x)
    <2>1. CASE UNCHANGED vars
      BY <2>1 DEF vars
    <2>2. CASE BatchStep
      BY <2>2 DEF BatchStep, Start, Dispatch, Finish, Discard, Retry, More, Plan, Vet
    <2>3. CASE BeginStep
      BY <2>3 DEF BeginStep, BeginSearch, BeginSave, BeginRecommend, Begin
    <2>4. CASE CallStep
      BY <2>4 DEF CallStep, Acquire, NoAnswer, Drop, Place, LockName, SaveKnown, SaveNew,
                  Weigh, Recommend
    <2>5. CASE OperatorStep
      BY <2>5 DEF OperatorStep, CreateVendor, Rename, SelectVendor
    <2> QED
      BY <2>1, <2>2, <2>3, <2>4, <2>5 DEF Next
  <1> QED
    BY <1>1, <1>2, <1>3

-----------------------------------------------------------------------------
(* One document.                                                            *)

LEMMA AddsOne ==
  ASSUME NEW s \in Seq(Choices), NEW e \in Choices, NEW c
  PROVE  /\ Cardinality(InCategory(s, c)) \in Nat
         /\ Cardinality(InCategory(Append(s, e), c))
              = Cardinality(InCategory(s, c)) + (IF e[1] = c THEN 1 ELSE 0)
  <1> DEFINE m == Len(s) + 1
             t == Append(s, e)
  <1>1. m \in Nat /\ IsFiniteSet(1..m) /\ InCategory(s, c) \subseteq 1..m
    <2>1. m \in Nat
      OBVIOUS
    <2> QED
      BY <2>1, FS_Interval DEF InCategory
  <1>2. IsFiniteSet(InCategory(s, c)) /\ m \notin InCategory(s, c)
    BY <1>1, FS_Subset DEF InCategory
  <1>3. Len(t) = m /\ t[m] = e /\ \A n \in 1..Len(s) : t[n] = s[n]
    OBVIOUS
  <1> HIDE DEF t
  <1>4. InCategory(t, c) = InCategory(s, c) \cup (IF e[1] = c THEN {m} ELSE {})
    BY <1>3 DEF InCategory
  <1> HIDE DEF m
  <1>5. Cardinality(InCategory(s, c)) \in Nat
    BY <1>2, FS_CardinalityType
  <1>6. CASE e[1] = c
    <2>1. InCategory(t, c) = InCategory(s, c) \cup {m}
      BY <1>4, <1>6
    <2> QED
      BY <1>2, <1>5, <1>6, <2>1, FS_AddElement DEF t
  <1>7. CASE e[1] # c
    <2>1. InCategory(t, c) = InCategory(s, c)
      BY <1>4, <1>7
    <2> QED
      BY <1>5, <1>7, <2>1 DEF t
  <1> QED
    BY <1>6, <1>7

\* A candidate of the plan that there is room for, and that is neither excluded
\* nor there, unless it is renamed, keeps a document bounded.
LEMMA AppendBounded ==
  ASSUME NEW i \in Spread, NEW j \in Spread, NEW free, Bounded(i, free),
         NEW c \in Category, NEW v \in Vendor,
         j.candidates = Append(i.candidates, <<c, v>>),
         j.plan = i.plan, j.excluded = i.excluded,
         i.plan # None => c \in i.plan,
         ~Full(i, c),
         v \notin free => v \notin i.excluded /\ <<c, v>> \notin Chosen(i.candidates)
  PROVE  Bounded(j, free)
  <1> DEFINE s == i.candidates
             e == <<c, v>>
             t == Append(s, e)
  <1>1. s \in Seq(Choices) /\ e \in Choices /\ e[1] = c /\ e[2] = v
    BY DEF Spread, Choices
  <1>2. PerCategory \in Nat
    BY ResearchConstantsOK
  <1>3. ASSUME NEW d \in Category PROVE Cardinality(InCategory(t, d)) <= PerCategory
    <2>1. /\ Cardinality(InCategory(s, d)) \in Nat
          /\ Cardinality(InCategory(s, d)) <= PerCategory
          /\ Cardinality(InCategory(t, d))
               = Cardinality(InCategory(s, d)) + (IF c = d THEN 1 ELSE 0)
      BY <1>1, AddsOne DEF Bounded
    <2>2. c = d => ~(Cardinality(InCategory(s, d)) >= PerCategory)
      BY DEF Full
    <2> QED
      BY <1>2, <2>1, <2>2
  <1> HIDE DEF e
  <1>4. /\ Len(s) \in Nat /\ Len(t) = Len(s) + 1
        /\ \A n \in 1..Len(s) : t[n] = s[n]
        /\ t[Len(s) + 1] = e
    BY <1>1
  <1> HIDE DEF t
  <1>5. \A n \in 1..Len(t) : (n \in 1..Len(s) /\ t[n] = s[n]) \/ (n = Len(s) + 1 /\ t[n] = e)
    BY <1>4
  <1> HIDE DEF s
  <1>6. j.plan # None => \A n \in 1..Len(t) : t[n][1] \in j.plan
    BY <1>1, <1>5 DEF Bounded, s
  <1>7. ASSUME NEW n \in 1..Len(t), t[n][2] \notin free
        PROVE  t[n][2] \notin j.excluded
    BY <1>1, <1>5, <1>7 DEF Bounded, s
  <1>8. ASSUME NEW n \in 1..Len(t), NEW m \in 1..Len(t), t[n][2] \notin free, t[m] = t[n]
        PROVE  m = n
    <2>1. \A k \in 1..Len(s) : s[k] \in Chosen(i.candidates)
      BY DEF Chosen, s
    <2>2. v \notin free => \A k \in 1..Len(s) : s[k] # e
      BY <2>1 DEF e
    <2>3. CASE n \in 1..Len(s) /\ m \in 1..Len(s) /\ t[n] = s[n] /\ t[m] = s[m]
      BY <1>8, <2>3 DEF Bounded, s
    <2> QED
      BY <1>1, <1>5, <1>8, <2>2, <2>3
  <1> QED
    BY <1>3, <1>6, <1>7, <1>8 DEF Bounded, s, t, e

\* No candidates are bounded, whoever is excluded.
LEMMA NoneBounded ==
  ASSUME NEW i \in Spread, NEW free, i.candidates = <<>>
  PROVE  Bounded(i, free)
  <1>1. Len(i.candidates) = 0 /\ \A c : InCategory(i.candidates, c) = {}
    BY DEF InCategory
  <1>2. \A c \in Category : Cardinality(InCategory(i.candidates, c)) <= PerCategory
    <2>1. PerCategory \in Nat /\ Cardinality({}) = 0
      BY FS_EmptySet, ResearchConstantsOK
    <2>2. 0 <= PerCategory
      BY <2>1
    <2>3. ASSUME NEW c \in Category PROVE Cardinality(InCategory(i.candidates, c)) = 0
      BY <1>1, <2>1, Zenon
    <2> QED
      BY <2>2, <2>3
  <1>3. 1..Len(i.candidates) = {}
    BY <1>1
  <1> QED
    BY <1>2, <1>3 DEF Bounded

\* The same offers of the same plan are as good with more renamed vendors, and
\* for more vendors.
SameOffers(i, j) ==
  j.candidates = i.candidates /\ j.plan = i.plan /\ j.excluded = i.excluded

LEMMA SameBounded ==
  ASSUME NEW i, NEW j, NEW free, NEW more, SameOffers(i, j), free \subseteq more,
         Bounded(i, free)
  PROVE  Bounded(j, more)
  BY DEF SameOffers, Bounded

-----------------------------------------------------------------------------
(* How the documents change in a step.                                      *)

Opens(b) ==
  /\ ~Exists(b)
  /\ run'[b].input.candidates = <<>>
  /\ run'[b].input.excluded \subseteq Known

GetsPlan(b) ==
  /\ Exists(b)
  /\ Used(b) = {}
  /\ run'[b].input.candidates = run[b].input.candidates
  /\ run'[b].input.excluded = run[b].input.excluded

Saved(b, x, v) ==
  /\ Exists(b)
  /\ At(x, "named") /\ call[x].batch = b
  /\ v \in Known'
  /\ v \in call[x].found \/ v \notin Known
  /\ run'[b].input = WithCandidate(x, v)

Keeps(b) == Exists(b) /\ SameOffers(run[b].input, run'[b].input)

DocumentSteps ==
  \A b \in Batch : Exists(b)' =>
    Keeps(b) \/ Opens(b) \/ GetsPlan(b) \/ \E x \in Call, v \in Vendor : Saved(b, x, v)

LEMMA OneDocument ==
  ASSUME ResearchInv, NEW b \in Batch, NEW r, run' = [run EXCEPT ![b] = r],
         Exists(b)' => Keeps(b) \/ Opens(b) \/ GetsPlan(b)
                       \/ \E x \in Call, v \in Vendor : Saved(b, x, v)
  PROVE  DocumentSteps
  <1>1. \A a \in Batch \ {b} : Exists(a)' => Keeps(a)
    BY DEF ResearchInv, TypeOK, Exists, Keeps, SameOffers
  <1> QED
    BY <1>1 DEF DocumentSteps

LEMMA NoDocument ==
  ASSUME UNCHANGED run
  PROVE  DocumentSteps
  BY DEF DocumentSteps, Keeps, SameOffers, Exists

LEMMA BatchDocuments ==
  ASSUME ResearchInv, OffersInv, BatchStep
  PROVE  DocumentSteps
  <1>0. run \in [Batch -> Runs \cup {None}]
    BY DEF ResearchInv, TypeOK
  <1>1. ASSUME NEW b \in Batch, Start(b) \/ Dispatch(b) PROVE DocumentSteps
    <2> DEFINE r == NewRun(0, <<"start", None>>, Blank)
    <2>1. ~Exists(b) /\ run' = [run EXCEPT ![b] = r]
      BY <1>1 DEF Start, Dispatch, IsNext
    <2>2. r.input.candidates = <<>> /\ r.input.excluded = {}
      BY DEF NewRun, Blank
    <2> HIDE DEF r
    <2>3. Opens(b)
      BY <1>0, <2>1, <2>2 DEF Opens
    <2> QED
      BY <2>1, <2>3, OneDocument
  <1>2. ASSUME NEW b \in Batch, NEW of \in Batch, Retry(b, of) PROVE DocumentSteps
    <2> DEFINE i == run[of].input
               r == NewRun(of, <<"retry", None>>, Carried(i))
    <2>1. ~Exists(b) /\ run' = [run EXCEPT ![b] = r] /\ Exists(of)
      BY <1>2 DEF Retry, IsNext
    <2>2. i \in Spread /\ i.excluded \subseteq Known
      <3>1. Sound(of) /\ run[of] \in Runs
        BY <1>0, <2>1 DEF OffersInv, Exists
      <3> QED
        BY <3>1 DEF Sound, Names, Runs
    <2> HIDE DEF i
    <2>3. r.input.candidates = <<>> /\ r.input.excluded = i.excluded
      BY <2>2 DEF NewRun, Carried, Spread
    <2> HIDE DEF r
    <2>4. Opens(b)
      BY <1>0, <2>1, <2>2, <2>3 DEF Opens
    <2> QED
      BY <2>1, <2>4, OneDocument
  <1>3. ASSUME NEW b \in Batch, NEW of \in Batch, NEW only \in Category \cup {None},
               More(b, of, only)
        PROVE  DocumentSteps
    <2> DEFINE i == run[of].input
               r == NewRun(of, <<"more", only>>, Expanded(i, only))
    <2>1. ~Exists(b) /\ run' = [run EXCEPT ![b] = r] /\ Exists(of)
      BY <1>3 DEF More, IsNext
    <2>2. i \in Spread
      BY <1>0, <2>1 DEF Exists, Runs
    <2> HIDE DEF i
    <2>3. Carried(i) \in Spread /\ Carried(i).candidates = <<>>
      BY <2>2, CarriedOffers DEF Carried, Spread
    <2>4. r.input.candidates = <<>> /\ r.input.excluded = {v \in Known : ~vendor[v].managed}
      BY <2>3 DEF NewRun, Expanded, Spread
    <2> HIDE DEF r
    <2>5. Opens(b)
      BY <1>0, <2>1, <2>4 DEF Opens
    <2> QED
      BY <2>1, <2>5, OneDocument
  <1>4. ASSUME NEW b \in Batch, Finish(b) \/ Discard(b) PROVE DocumentSteps
    <2>1. PICK r : run' = [run EXCEPT ![b] = r] /\ r.input = run[b].input /\ Exists(b)
      <3>1. CASE Finish(b)
        <4> DEFINE q == [run[b] EXCEPT !.status = "over"]
        <4>1. Exists(b) /\ run[b] \in Runs /\ run' = [run EXCEPT ![b] = q]
          BY <1>0, <3>1 DEF Finish, IsActive, Exists
        <4>2. q.input = run[b].input
          BY <4>1 DEF Runs
        <4> QED
          BY <4>1, <4>2
      <3>2. CASE Discard(b)
        <4> DEFINE q == [run[b] EXCEPT !.status = "over", !.dismissed = TRUE]
        <4>1. Exists(b) /\ run[b] \in Runs /\ run' = [run EXCEPT ![b] = q]
          BY <1>0, <3>2 DEF Discard, Exists
        <4>2. q.input = run[b].input
          BY <4>1 DEF Runs
        <4> QED
          BY <4>1, <4>2
      <3> QED
        BY <1>4, <3>1, <3>2
    <2>2. Keeps(b)
      BY <1>0, <2>1 DEF Keeps, SameOffers
    <2> QED
      BY <2>1, <2>2, OneDocument
  <1>5. ASSUME NEW b \in Batch, NEW categories \in Plans, Plan(b, categories)
        PROVE  DocumentSteps
    <2> DEFINE r == [run[b] EXCEPT !.input.plan = categories]
    <2>1. Exists(b) /\ run[b] \in Runs /\ run' = [run EXCEPT ![b] = r] /\ Used(b) = {}
      BY <1>0, <1>5 DEF Plan, IsActive, Exists, Used
    <2>2. r.input.candidates = run[b].input.candidates /\ r.input.excluded = run[b].input.excluded
      BY <2>1 DEF Runs, Spread
    <2> HIDE DEF r
    <2>3. GetsPlan(b)
      BY <1>0, <2>1, <2>2 DEF GetsPlan
    <2> QED
      BY <2>1, <2>3, OneDocument
  <1>6. ASSUME NEW b \in Batch, NEW v \in Vendor, NEW vetting \in {"checked", "reviewed"},
               Vet(b, v, vetting)
        PROVE  DocumentSteps
    BY <1>6, NoDocument DEF Vet
  <1> QED
    BY <1>1, <1>2, <1>3, <1>4, <1>5, <1>6 DEF BatchStep

LEMMA WriteDocuments ==
  ASSUME ResearchInv, OffersInv, VendorsStay, NEW x \in Call,
         Recommend(x) \/ \E v \in Vendor : SaveKnown(x, v) \/ SaveNew(x, v)
  PROVE  DocumentSteps
  <1>0. run \in [Batch -> Runs \cup {None}]
    BY DEF ResearchInv, TypeOK
  <1>1. ASSUME NEW v \in Vendor, SaveKnown(x, v) \/ SaveNew(x, v)
        PROVE  DocumentSteps
    <2> DEFINE b == call[x].batch
               j == WithCandidate(x, v)
               r == [run[b] EXCEPT !.input = j]
    <2>1. At(x, "named") /\ call[x] # None /\ call[x].phase = "named"
      BY <1>1 DEF SaveKnown, SaveNew, At
    <2>2. b \in Batch /\ Exists(b) /\ run[b] \in Runs
      <3>1. call[x] \in SaveCalls /\ Founded(call[x])
        BY <2>1, KindOfCall DEF ResearchInv, Callers
      <3> QED
        BY <1>0, <3>1 DEF SaveCalls, Founded, Exists
    <2>3. CASE run' = run
      BY <2>3, NoDocument
    <2>4. CASE run' # run
      <3>1. run' = [run EXCEPT ![b].input = j]
        BY <1>1, <2>4 DEF SaveKnown, SaveNew
      <3> HIDE DEF j
      <3>2. run' = [run EXCEPT ![b] = r] /\ r.input = j
        BY <2>2, <3>1 DEF Runs
      <3> HIDE DEF r, b
      <3>3. run'[b].input = j
        BY <1>0, <2>2, <3>2
      <3>4. v \in Known' /\ (v \in call[x].found \/ v \notin Known)
        <4>1. CASE SaveKnown(x, v)
          <5>1. v \in call[x].found
            BY <4>1 DEF SaveKnown
          <5>2. v \in Known
            BY <2>1, <5>1 DEF OffersInv, Saves, Fit, Rows
          <5> QED
            BY <5>1, <5>2 DEF VendorsStay
        <4>2. CASE SaveNew(x, v)
          <5> DEFINE w == [name |-> call[x].name, managed |-> FALSE, discarded |-> FALSE,
                           contact |-> call[x].contact, vetting |-> "none"]
          <5>1. vendor' = [vendor EXCEPT ![v] = w] /\ v \notin Known
            BY <2>4, <4>2 DEF SaveNew
          <5>2. w \in Vendors
            <6>1. call[x] \in SaveCalls
              BY <2>1, KindOfCall DEF ResearchInv
            <6> QED
              BY <6>1 DEF SaveCalls, Vendors
          <5> HIDE DEF w
          <5>3. vendor'[v] # None
            BY <5>1, <5>2, NoneIsNoVendor DEF OffersInv, VendorsTypeOK
          <5> QED
            BY <5>1, <5>3 DEF Known
        <4> QED
          BY <1>1, <4>1, <4>2
      <3>5. Saved(b, x, v)
        BY <2>1, <2>2, <3>3, <3>4 DEF Saved, j, b
      <3> QED
        BY <2>2, <3>2, <3>5, OneDocument
    <2> QED
      BY <2>3, <2>4
  <1>2. CASE Recommend(x)
    <2> DEFINE b == call[x].batch
               new == {s \in call[x].input.recommended : s[1] # call[x].category}
                        \cup {<<call[x].category, call[x].vendor>>}
               j == [call[x].input EXCEPT !.recommended = new]
               r == [run[b] EXCEPT !.input = j]
    <2>1. call[x] # None /\ call[x].phase = "weighed" /\ run' = [run EXCEPT ![b].input = j]
      BY <1>2 DEF Recommend, At
    <2>2. /\ b \in Batch /\ Exists(b) /\ run[b] \in Runs
          /\ call[x].input = run[b].input
      <3>1. call[x] \in ChooseCalls /\ Founded(call[x])
        BY <2>1, KindOfCall DEF ResearchInv, Callers
      <3> QED
        BY <1>0, <2>1, <3>1 DEF ChooseCalls, Founded, Exists, HoldingPhases
    <2> HIDE DEF new
    <2>3. SameOffers(run[b].input, j)
      BY <2>2 DEF SameOffers, Runs, Spread
    <2> HIDE DEF j
    <2>4. run' = [run EXCEPT ![b] = r] /\ r.input = j
      BY <2>1, <2>2 DEF Runs
    <2> HIDE DEF r, b
    <2>5. Keeps(b)
      BY <1>0, <2>2, <2>3, <2>4 DEF Keeps
    <2> QED
      BY <2>2, <2>4, <2>5, OneDocument
  <1> QED
    BY <1>1, <1>2

LEMMA StepDocuments ==
  ASSUME ResearchInv, OffersInv, VendorsStay, [Next]_vars
  PROVE  DocumentSteps
  <1>1. CASE UNCHANGED vars
    BY <1>1, NoDocument DEF vars
  <1>2. CASE BatchStep
    BY <1>2, BatchDocuments
  <1>3. CASE BeginStep
    BY <1>3, NoDocument DEF BeginStep, BeginSearch, BeginSave, BeginRecommend, Begin
  <1>4. CASE CallStep
    BY <1>4, NoDocument, WriteDocuments
       DEF CallStep, Acquire, Answer, NoAnswer, Drop, Place, LockName, Weigh
  <1>5. CASE OperatorStep
    BY <1>5, NoDocument DEF OperatorStep, CreateVendor, Rename, SelectVendor
  <1> QED
    BY <1>1, <1>2, <1>3, <1>4, <1>5 DEF Next

-----------------------------------------------------------------------------
(* The invariant.                                                           *)

\* A vendor that is not known is neither excluded nor a candidate.
LEMMA UnknownIsFree ==
  ASSUME NEW i, NEW known, NEW c, NEW v, Names(i, known), v \notin known
  PROVE  v \notin i.excluded /\ <<c, v>> \notin Chosen(i.candidates)
  <1>1. ASSUME NEW n \in 1..Len(i.candidates), i.candidates[n] = <<c, v>> PROVE FALSE
    BY <1>1 DEF Names
  <1> QED
    BY <1>1 DEF Names, Chosen

\* A save that is not renamed away writes what it has checked.
LEMMA SavedSound ==
  ASSUME ResearchInv, ResearchInv', OffersInv, VendorsStay, SearchesStay,
         NEW b \in Batch, NEW x \in Call, NEW v \in Vendor, Saved(b, x, v)
  PROVE  Sound(b)'
  <1> DEFINE i == run[b].input
             j == run'[b].input
             c == call[x].category
  <1>1. call[x] # None /\ call[x].phase = "named" /\ call[x].batch = b /\ Exists(b)
    BY DEF Saved, At
  <1>2. /\ call[x] \in SaveCalls /\ call[x].input = i /\ c \in Category
        /\ i \in Spread /\ run[b] \in Runs
    <2>1. call[x] \in SaveCalls /\ Founded(call[x])
      BY <1>1, KindOfCall DEF ResearchInv, Callers
    <2>2. run[b] \in Runs
      BY <1>1 DEF ResearchInv, TypeOK, Exists
    <2> QED
      BY <1>1, <2>1, <2>2 DEF SaveCalls, Founded, HoldingPhases, Runs
  <1>3. /\ Sound(b) /\ Used(b) # {} /\ call[x].saved \in BOOLEAN
        /\ Checked(call[x], Namesakes(call[x]))
        /\ call[x].found \ renamed \subseteq Namesakes(call[x])
    BY <1>1 DEF OffersInv, Saves, Fit, Rows
  <1>4. v \in Known' /\ j = WithCandidate(x, v) /\ (v \in call[x].found \/ v \notin Known)
    BY DEF Saved
  <1>5. Used(b)' # {} /\ Known \subseteq Known' /\ renamed \subseteq renamed'
    BY <1>3 DEF SearchesStay, VendorsStay
  <1>6. CASE call[x].saved
    <2>1. SameOffers(i, j)
      BY <1>2, <1>4, <1>6 DEF WithCandidate, SameOffers, Spread
    <2>2. Bounded(j, renamed')
      BY <1>3, <1>5, <2>1, SameBounded DEF Sound
    <2>3. Names(j, Known')
      BY <1>3, <1>5, <2>1 DEF Sound, Names, SameOffers
    <2> QED
      BY <1>5, <2>2, <2>3 DEF Sound
  <1>7. CASE ~call[x].saved
    <2> DEFINE s == Append(i.candidates, <<c, v>>)
    <2>1. i.candidates \in Seq(Choices) /\ <<c, v>> \in Choices /\ s \in Seq(Choices)
      <3>1. i.candidates \in Seq(Choices) /\ <<c, v>> \in Choices
        BY <1>2 DEF Spread, Choices
      <3> QED
        BY <3>1
    <2>2. \A n \in 1..Len(s) : (n \in 1..Len(i.candidates) /\ s[n] = i.candidates[n]) \/ s[n] = <<c, v>>
      BY <2>1
    <2>3. j = [i EXCEPT !.candidates = s]
      BY <1>2, <1>4, <1>7 DEF WithCandidate
    <2> HIDE DEF s
    <2>4. j \in Spread /\ j.candidates = s /\ j.plan = i.plan /\ j.excluded = i.excluded
      BY <1>2, <2>1, <2>3 DEF Spread
    <2>5. v \notin renamed => v \notin i.excluded /\ <<c, v>> \notin Chosen(i.candidates)
      <3>1. CASE v \in call[x].found
        BY <1>2, <1>3, <1>7, <3>1 DEF Checked
      <3>2. CASE v \notin Known
        BY <1>3, <3>2, UnknownIsFree DEF Sound
      <3> QED
        BY <1>4, <3>1, <3>2
    <2>6. (i.plan # None => c \in i.plan) /\ ~Full(i, c) /\ Bounded(i, renamed)
      BY <1>2, <1>3, <1>7 DEF Checked, Sound
    <2>7. Bounded(j, renamed)
      <3> HIDE DEF i, j, c
      <3> QED
        BY <1>2, <2>4, <2>5, <2>6, AppendBounded DEF s
    <2>8. Bounded(j, renamed')
      BY <1>5, <2>7, SameBounded DEF SameOffers
    <2>9. Names(j, Known')
      <3>1. i.excluded \subseteq Known /\ \A n \in 1..Len(i.candidates) : i.candidates[n][2] \in Known
        BY <1>3 DEF Sound, Names
      <3>2. ASSUME NEW n \in 1..Len(s) PROVE s[n][2] \in Known'
        BY <1>4, <1>5, <2>2, <3>1
      <3> QED
        BY <1>5, <2>4, <3>1, <3>2 DEF Names
    <2> QED
      BY <1>5, <2>8, <2>9 DEF Sound
  <1> QED
    BY <1>3, <1>6, <1>7

LEMMA StepSound ==
  ASSUME ResearchInv, ResearchInv', OffersInv, VendorsStay, SearchesStay, DocumentSteps,
         NEW b \in Batch, Exists(b)'
  PROVE  Sound(b)'
  <1> DEFINE i == run[b].input
             j == run'[b].input
  <1>1. j \in Spread
    BY DEF ResearchInv, TypeOK, Exists, Runs
  <1>2. Known \subseteq Known' /\ renamed \subseteq renamed' /\ (Used(b) # {} => Used(b)' # {})
    BY DEF SearchesStay, VendorsStay
  <1>3. Exists(b) => Bounded(i, renamed) /\ Names(i, Known) /\ (i.candidates # <<>> => Used(b) # {})
    BY DEF OffersInv, Sound
  <1>4. ASSUME j.candidates = <<>>, j.excluded \subseteq Known
        PROVE  Sound(b)'
    <2>1. Bounded(j, renamed')
      BY <1>1, <1>4, NoneBounded
    <2>2. Names(j, Known')
      <3>1. 1..Len(j.candidates) = {}
        BY <1>4
      <3> QED
        BY <1>2, <1>4, <3>1 DEF Names
    <2> QED
      BY <1>4, <2>1, <2>2 DEF Sound
  <1>5. CASE Keeps(b)
    <2>1. SameOffers(i, j) /\ Exists(b)
      BY <1>5 DEF Keeps
    <2>2. Bounded(j, renamed')
      BY <1>2, <1>3, <2>1, SameBounded
    <2>3. Names(j, Known') /\ (j.candidates # <<>> => Used(b)' # {})
      BY <1>2, <1>3, <2>1 DEF Names, SameOffers
    <2> QED
      BY <2>2, <2>3 DEF Sound
  <1>6. CASE Opens(b)
    BY <1>4, <1>6 DEF Opens
  <1>7. CASE GetsPlan(b)
    <2>1. i.candidates = <<>> /\ i.excluded \subseteq Known
      BY <1>3, <1>7 DEF GetsPlan, Names
    <2> QED
      BY <1>4, <1>7, <2>1 DEF GetsPlan
  <1>8. CASE \E x \in Call, v \in Vendor : Saved(b, x, v)
    BY <1>8, SavedSound
  <1> QED
    BY <1>5, <1>6, <1>7, <1>8 DEF DocumentSteps

\* A save under way keeps what it has checked, whatever others do.
LEMMA StaysFit ==
  ASSUME ResearchInv, OffersInv, VendorsStay, SearchesStay,
         NEW x \in Call, Saves(x), call'[x] = call[x]
  PROVE  Fit(x)'
  <1> DEFINE c == call[x]
  <1>1. Fit(x)
    BY DEF OffersInv
  <1>2. c \in SaveCalls /\ Founded(c) /\ c.batch \in Batch
    BY KindOfCall DEF Saves, Rows, ResearchInv, Callers
  <1>3. Used(c.batch)' # {}
    BY <1>1, <1>2 DEF Fit, SearchesStay
  <1>4. /\ Known \subseteq Known' /\ renamed \subseteq renamed'
        /\ \A v \in Known \ renamed' : vendor'[v].name = vendor[v].name
    BY DEF VendorsStay
  <1> DEFINE before == Namesakes(c)
             after == {v \in Known' : vendor'[v].name = c.name} \ renamed'
  <1>5. \A v \in after : v \in before \/ v \notin Known
    BY <1>4 DEF Namesakes, Named
  <1>6. (before \ renamed') \subseteq after
    BY <1>4 DEF Namesakes, Named
  <1>7. Namesakes(call[x])' = after
    BY DEF Namesakes, Named
  <1> HIDE DEF before, after
  <1>8. ASSUME c.phase \in Rows PROVE c.saved \in BOOLEAN /\ Checked(c, after)
    <2>1. c.saved \in BOOLEAN /\ Checked(c, before)
      BY <1>1, <1>8 DEF Fit, before
    <2>2. Names(c.input, Known)
      BY <1>2, <1>8 DEF Founded, HoldingPhases, Rows, OffersInv, Sound
    <2>3. \A v \in after \ before : v \notin c.input.excluded /\ <<c.category, v>> \notin Chosen(c.input.candidates)
      BY <1>5, <2>2, UnknownIsFree
    <2> QED
      BY <2>1, <2>3 DEF Checked
  <1>9. ASSUME c.phase = "named" PROVE c.found \subseteq Known' /\ c.found \ renamed' \subseteq after
    BY <1>1, <1>4, <1>6, <1>9 DEF Fit, before
  <1> QED
    BY <1>3, <1>7, <1>8, <1>9 DEF Fit

\* Place has checked the document that it holds, and LockName the vendors.
LEMMA PlacedFit ==
  ASSUME ResearchInv, OffersInv, NEW x \in Call, Place(x), Saves(x)'
  PROVE  Fit(x)'
  <1> DEFINE i == run[call[x].batch].input
             saved == Already(i, call[x].name, call[x].category)
             c == [call[x] EXCEPT !.phase = "placed", !.input = i, !.saved = saved]
  <1>1. /\ call \in [Call -> SearchCalls \cup SaveCalls \cup ChooseCalls \cup {None}]
        /\ call[x] # None /\ call[x].phase = "saving" /\ call[x] \in SaveCalls
    BY KindOfCall DEF Place, At, ResearchInv, TypeOK
  <1>2. /\ call' = [call EXCEPT ![x] = c]
        /\ i.plan # None => call[x].category \in i.plan
        /\ ~Excluded(i, call[x].name)
        /\ ~saved => ~Full(i, call[x].category)
    <2>1. ~Return(x)
      BY <1>1 DEF Return, Saves
    <2> QED
      BY <2>1 DEF Place
  <1>3. /\ saved \in BOOLEAN
        /\ ~saved => \A v \in Named(call[x].name) : <<call[x].category, v>> \notin Chosen(i.candidates)
    BY DEF Already
  <1>4. \A v \in Named(call[x].name) : v \notin i.excluded
    BY <1>2 DEF Excluded
  <1> HIDE DEF i, saved
  <1>5. /\ c.phase = "placed" /\ c.input = i /\ c.saved = saved /\ c.batch = call[x].batch
        /\ c.category = call[x].category /\ c.name = call[x].name
    BY <1>1 DEF SaveCalls
  <1>6. call'[x] = c /\ UNCHANGED <<search, vendor, renamed>>
    BY <1>1, <1>2 DEF Place
  <1> HIDE DEF c
  <1>7. Checked(c, Namesakes(c)) /\ c.saved \in BOOLEAN
    BY <1>2, <1>3, <1>4, <1>5 DEF Checked, Namesakes
  <1>8. Namesakes(call[x])' = Namesakes(c) /\ Used(call[x].batch)' = Used(c.batch)
    BY <1>6 DEF Namesakes, Named, Known, Used
  <1>9. Used(c.batch) # {}
    BY <1>1, <1>5 DEF OffersInv, Saves, Fit
  <1> QED
    BY <1>5, <1>6, <1>7, <1>8, <1>9 DEF Fit

LEMMA NamedFit ==
  ASSUME ResearchInv, OffersInv, NEW x \in Call, LockName(x)
  PROVE  Fit(x)'
  <1> DEFINE found == Named(call[x].name)
             c == [call[x] EXCEPT !.phase = "named", !.found = found]
  <1>1. /\ call \in [Call -> SearchCalls \cup SaveCalls \cup ChooseCalls \cup {None}]
        /\ call[x] # None /\ call[x].phase = "placed" /\ call[x] \in SaveCalls
    BY KindOfCall DEF LockName, At, ResearchInv, TypeOK
  <1>2. found \subseteq Known /\ call' = [call EXCEPT ![x] = c]
    BY DEF LockName, Named
  <1>3. found \ renamed = Namesakes(call[x])
    BY DEF Namesakes
  <1> HIDE DEF found
  <1>4. /\ c.phase = "named" /\ c.input = call[x].input /\ c.saved = call[x].saved
        /\ c.batch = call[x].batch /\ c.category = call[x].category
        /\ c.name = call[x].name /\ c.found = found
    BY <1>1 DEF SaveCalls
  <1>5. call'[x] = c /\ UNCHANGED <<search, vendor, renamed>>
    BY <1>1, <1>2 DEF LockName
  <1> HIDE DEF c
  <1>6. Fit(x)
    BY <1>1 DEF OffersInv, Saves, Rows
  <1>7. Namesakes(c) = Namesakes(call[x])
    BY <1>4 DEF Namesakes
  <1>8. Checked(c, Namesakes(c)) /\ c.saved \in BOOLEAN /\ Used(c.batch) # {}
    BY <1>1, <1>4, <1>6, <1>7 DEF Fit, Checked, Rows
  <1>9. /\ Namesakes(call[x])' = Namesakes(c) /\ Used(call[x].batch)' = Used(c.batch)
        /\ Known' = Known /\ renamed' = renamed
    BY <1>5 DEF Namesakes, Named, Known, Used
  <1> QED
    BY <1>2, <1>3, <1>4, <1>5, <1>7, <1>8, <1>9 DEF Fit

\* A call is a save as it was, or one that begins, or one that goes on.
LEMMA SaveSteps ==
  ASSUME ResearchInv, [Next]_vars, NEW x \in Call, Saves(x)'
  PROVE  \/ Saves(x) /\ call'[x] = call[x]
         \/ /\ call'[x].phase = "saving" /\ Used(call'[x].batch) # {} /\ UNCHANGED search
         \/ Place(x) \/ LockName(x)
  <1> DEFINE Goal == \/ Saves(x) /\ call'[x] = call[x]
                     \/ /\ call'[x].phase = "saving" /\ Used(call'[x].batch) # {}
                        /\ UNCHANGED search
                     \/ Place(x) \/ LockName(x)
  <1>0. call \in [Call -> SearchCalls \cup SaveCalls \cup ChooseCalls \cup {None}]
    BY DEF ResearchInv, TypeOK
  <1>1. call'[x] # None /\ call'[x].phase \in {"saving", "placed", "named"}
    BY DEF Saves, Rows
  <1>2. ASSUME call'[x] = call[x] PROVE Goal
    BY <1>1, <1>2 DEF Saves, Rows
  <1>3. ASSUME NEW y \in Call, NEW c, call' = [call EXCEPT ![y] = c],
               c = None \/ c.phase \notin {"saving", "placed", "named"}
        PROVE  Goal
    <2>1. x # y
      BY <1>0, <1>1, <1>3
    <2> QED
      BY <1>0, <1>2, <1>3, <2>1
  <1>4. ASSUME NEW y \in Call, Return(y) PROVE Goal
    BY <1>3, <1>4 DEF Return
  <1>5. CASE UNCHANGED call
    BY <1>2, <1>5
  <1>6. CASE BeginStep
    <2>1. ASSUME NEW y \in Call, NEW b \in Batch, NEW q \in Query, BeginSearch(y, b, q)
          PROVE  Goal
      <3>1. call' = [call EXCEPT ![y] = [phase |-> "waiting", batch |-> b, query |-> q]]
        BY <2>1 DEF BeginSearch, Begin
      <3> QED
        BY <1>3, <3>1
    <2>2. ASSUME NEW y \in Call, NEW b \in Batch, NEW g \in Category, NEW v \in Vendor,
                 BeginRecommend(y, b, g, v)
          PROVE  Goal
      <3>1. call' = [call EXCEPT ![y] = [phase |-> "choosing", batch |-> b, category |-> g,
                                         vendor |-> v, input |-> None]]
        BY <2>2 DEF BeginRecommend, Begin
      <3> QED
        BY <1>3, <3>1
    <2>3. ASSUME NEW y \in Call, NEW b \in Batch, NEW g \in Category, NEW name \in Name,
                 NEW contact \in BOOLEAN, BeginSave(y, b, g, name, contact)
          PROVE  Goal
      <3> DEFINE c == [phase |-> "saving", batch |-> b, category |-> g, name |-> name,
                       contact |-> contact, input |-> None, saved |-> None, found |-> None]
      <3>1. call' = [call EXCEPT ![y] = c] /\ Used(b) # {} /\ UNCHANGED search
        BY <2>3 DEF BeginSave, Begin
      <3>2. c.phase = "saving" /\ c.batch = b
        OBVIOUS
      <3> HIDE DEF c
      <3>3. CASE x = y
        BY <1>0, <3>1, <3>2, <3>3
      <3>4. CASE x # y
        BY <1>0, <1>2, <3>1, <3>4
      <3> QED
        BY <3>3, <3>4
    <2> QED
      BY <1>6, <2>1, <2>2, <2>3 DEF BeginStep
  <1>7. CASE CallStep
    <2>1. ASSUME NEW y \in Call,
                 \/ Answer(y) \/ NoAnswer(y) \/ Drop(y) \/ Recommend(y)
                 \/ \E v \in Vendor : SaveKnown(y, v) \/ SaveNew(y, v)
          PROVE  Goal
      BY <1>4, <2>1 DEF Answer, NoAnswer, Drop, Recommend, SaveKnown, SaveNew
    <2>2. ASSUME NEW y \in Call, Acquire(y) PROVE Goal
      <3> DEFINE c == [call[y] EXCEPT !.phase = "searching"]
      <3>1. CASE Return(y)
        BY <1>4, <3>1
      <3>2. CASE ~Return(y)
        <4>1. call' = [call EXCEPT ![y] = c] /\ call[y] # None /\ call[y].phase = "waiting"
          BY <2>2, <3>2 DEF Acquire, At
        <4>2. call[y] \in SearchCalls
          BY <4>1, KindOfCall DEF ResearchInv
        <4>3. c.phase = "searching"
          BY <4>2 DEF SearchCalls
        <4> HIDE DEF c
        <4> QED
          BY <1>3, <4>1, <4>3
      <3> QED
        BY <3>1, <3>2
    <2>3. ASSUME NEW y \in Call, Weigh(y) PROVE Goal
      <3> DEFINE c == [call[y] EXCEPT !.phase = "weighed", !.input = run[call[y].batch].input]
      <3>1. CASE Return(y)
        BY <1>4, <3>1
      <3>2. CASE ~Return(y)
        <4>1. call' = [call EXCEPT ![y] = c] /\ call[y] # None /\ call[y].phase = "choosing"
          BY <2>3, <3>2 DEF Weigh, At
        <4>2. call[y] \in ChooseCalls
          BY <4>1, KindOfCall DEF ResearchInv
        <4>3. c.phase = "weighed"
          BY <4>2 DEF ChooseCalls
        <4> HIDE DEF c
        <4> QED
          BY <1>3, <4>1, <4>3
      <3> QED
        BY <3>1, <3>2
    <2>4. ASSUME NEW y \in Call, Place(y) \/ LockName(y) PROVE Goal
      <3>1. CASE x = y
        BY <2>4, <3>1
      <3>2. CASE x # y
        <4>1. call'[x] = call[x]
          BY <1>0, <2>4, <3>2 DEF Place, LockName, Return
        <4> QED
          BY <1>2, <4>1
      <3> QED
        BY <3>1, <3>2
    <2> QED
      BY <1>7, <2>1, <2>2, <2>3, <2>4 DEF CallStep
  <1>8. CASE BatchStep
    BY <1>5, <1>8 DEF BatchStep, Start, Dispatch, Finish, Discard, Retry, More, Plan, Vet
  <1>9. CASE OperatorStep
    BY <1>5, <1>9 DEF OperatorStep, CreateVendor, Rename, SelectVendor
  <1>10. CASE UNCHANGED vars
    BY <1>5, <1>10 DEF vars
  <1> QED
    BY <1>6, <1>7, <1>8, <1>9, <1>10 DEF Next

LEMMA StepOffers ==
  ASSUME ResearchInv, ResearchInv', SearchInv, SearchInv', OffersInv, [Next]_vars
  PROVE  OffersInv'
  <1>1. VendorsStay /\ SearchesStay /\ DocumentSteps
    BY StepVendors, StepSearches, StepDocuments
  <1>2. \A b \in Batch : Exists(b)' => Sound(b)'
    BY <1>1, StepSound
  <1>3. ASSUME NEW x \in Call, Saves(x)' PROVE Fit(x)'
    <2>1. CASE Saves(x) /\ call'[x] = call[x]
      BY <1>1, <2>1, StaysFit
    <2>2. CASE call'[x].phase = "saving" /\ Used(call'[x].batch) # {} /\ UNCHANGED search
      BY <2>2 DEF Fit, Rows, Used
    <2> QED
      BY <1>3, <2>1, <2>2, SaveSteps, PlacedFit, NamedFit
  <1> QED
    BY <1>1, <1>2, <1>3 DEF OffersInv, VendorsStay

\* The documents are sound, and what a save has checked stays so until it writes.
THEOREM OffersInvHolds == Spec => []OffersInv
  <1>1. Init => OffersInv
    BY DEF Init, OffersInv, VendorsTypeOK, Exists, Saves
  <1>2. ResearchInv /\ ResearchInv' /\ SearchInv /\ SearchInv' /\ OffersInv /\ [Next]_vars
          => OffersInv'
    BY StepOffers
  <1> QED
    BY <1>1, <1>2, ResearchInvHolds, SearchInvHolds, PTL DEF Spec

\* Of every category a batch offers at most PerCategory candidates, all of its
\* plan; and, but for vendors an operator renamed, none twice and none that it
\* was to exclude, for any calls, batches and operators under way together.
THEOREM CandidatesAreBounded == Spec => []CandidatesBounded
  <1>1. OffersInv => CandidatesBounded
    BY DEF OffersInv, Sound, Bounded, CandidatesBounded
  <1> QED
    BY <1>1, OffersInvHolds, PTL
=============================================================================
