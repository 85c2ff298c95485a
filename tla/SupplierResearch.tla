--------------------------- MODULE SupplierResearch ---------------------------
(***************************************************************************)
(* Supplier research (research.rs): batches of a web search for suppliers, *)
(* each one run of the queue.  The model's tool calls search the web, save *)
(* and vet candidates and recommend one per category; the operator asks    *)
(* for another try or for more suppliers, discards a batch, and edits the  *)
(* same vendors by hand.                                                   *)
(*                                                                         *)
(* A run's plan, candidates and recommendations are one JSON document that *)
(* a tool reads and writes back whole (agent_runs.input).  A call begins   *)
(* while its run is active, but may commit after the run was stopped: the  *)
(* supervisor only notices at its next tick.                               *)
(*                                                                         *)
(* Batches and vendors are numbered in the order they are created.         *)
(***************************************************************************)
EXTENDS Naturals, FiniteSets, Sequences

CONSTANTS
  Call,         \* tool calls and how many can be under way together
  Query,        \* search queries that differ when lower-cased
  Category,     \* supply categories
  Name,         \* business names
  MaxBatches,   \* bound: the research runs
  MaxVendors,   \* bound: the vendors
  SearchLimit,  \* successful searches per category (SEARCH_LIMIT)
  PerCategory,  \* candidates per category and batch (3)
  None

ASSUME ResearchConstantsOK ==
  /\ {MaxBatches, MaxVendors, SearchLimit, PerCategory} \subseteq Nat
  /\ None \notin Nat \cup Call \cup Category

ASSUME CategoriesAreFinite == IsFiniteSet(Category)

Batch == 1..MaxBatches
Vendor == 1..MaxVendors
\* One to five categories (at most five: Category is smaller).
Plans == (SUBSET Category) \ {{}}
Choices == Category \X Vendor
Spread == [plan : Plans \cup {None}, offered : Plans \cup {None},
           candidates : Seq(Choices), previous : Seq(Choices),
           recommended : SUBSET Choices, excluded : SUBSET Vendor]
Runs == [status : {"active", "over"}, dismissed : BOOLEAN, of : Batch \cup {0},
         key : {"start", "retry", "more"} \X (Category \cup {None}), input : Spread]
Vendors == [name : Name, managed : BOOLEAN, discarded : BOOLEAN, contact : BOOLEAN,
            vetting : {"none", "checked", "reviewed"}]

ASSUME NoneIsNoRun == None \notin Runs
ASSUME NoneIsNoVendor == None \notin Vendors

VARIABLES
  run,      \* by batch: its run, or None
  search,   \* vendor_searches, oldest first: the batch and the query
  lock,     \* by batch: the call whose session holds the search lock, or None
  vendor,   \* by number: the vendor, or None
  renamed,  \* the vendors an operator has renamed
  call      \* by call: None, or what the handler holds

vars == <<run, search, lock, vendor, renamed, call>>

Searches == [batch : Batch, query : Query]
At(x, phase) == call[x] # None /\ call[x].phase = phase

ResearchTypeOK ==
  /\ run \in [Batch -> Runs \cup {None}]
  /\ search \in Seq(Searches)
  /\ lock \in [Batch -> Call \cup {None}]
  /\ vendor \in [Vendor -> Vendors \cup {None}]
  /\ renamed \subseteq Vendor

Init ==
  /\ run = [b \in Batch |-> None]
  /\ search = <<>>
  /\ lock = [b \in Batch |-> None]
  /\ vendor = [v \in Vendor |-> None]
  /\ renamed = {}
  /\ call = [x \in Call |-> None]

-----------------------------------------------------------------------------
(* The batches.                                                            *)

Exists(b) == run[b] # None
IsActive(b) == Exists(b) /\ run[b].status = "active"
Known == {v \in Vendor : vendor[v] # None}
Chosen(choices) == {choices[n] : n \in 1..Len(choices)}

\* A call between its SELECT ... FOR UPDATE and its commit holds the run's row.
RowFree(b) ==
  \A x \in Call : At(x, "placed") \/ At(x, "named") \/ At(x, "weighed") => call[x].batch # b

NewRun(of, key, input) ==
  [status |-> "active", dismissed |-> FALSE, of |-> of, key |-> key, input |-> input]
Blank == [plan |-> None, offered |-> None, candidates |-> <<>>, previous |-> <<>>,
          recommended |-> {}, excluded |-> {}]

\* The next batch number.
IsNext(b) == ~Exists(b) /\ \A a \in Batch : a < b => Exists(a)

\* From the low-stock picker, unless a search is active (it is reused instead).
Start(b) ==
  /\ IsNext(b)
  /\ \A a \in Batch : ~IsActive(a)
  /\ run' = [run EXCEPT ![b] = NewRun(0, <<"start", None>>, Blank)]
  /\ UNCHANGED <<search, lock, vendor, renamed, call>>

\* From a chat turn, whatever else is active.
Dispatch(b) ==
  /\ IsNext(b)
  /\ run' = [run EXCEPT ![b] = NewRun(0, <<"start", None>>, Blank)]
  /\ UNCHANGED <<search, lock, vendor, renamed, call>>

\* The run completes, fails or is cancelled.
Finish(b) ==
  /\ IsActive(b)
  /\ RowFree(b)
  /\ run' = [run EXCEPT ![b].status = "over"]
  /\ UNCHANGED <<search, lock, vendor, renamed, call>>

Discard(b) ==
  /\ Exists(b)
  /\ ~run[b].dismissed
  /\ RowFree(b)
  /\ run' = [run EXCEPT ![b].status = "over", ![b].dismissed = TRUE]
  /\ UNCHANGED <<search, lock, vendor, renamed, call>>

\* What a run's expansions may narrow to.
Available(input) == IF input.offered # None THEN input.offered ELSE input.plan

\* Mutant: the candidates of the batches before the last are forgotten.
CarriedFromLast(input) ==
  [input EXCEPT !.candidates = <<>>, !.previous = input.candidates]

\* The document a continuation starts from: the plan and the recommendations
\* stay, the candidates join those of earlier batches.
Carried(input) ==
  [input EXCEPT !.candidates = <<>>, !.previous = @ \o input.candidates]

Expanded(input, only) ==
  [Carried(input) EXCEPT !.offered = Available(input),
                         !.plan = IF only # None THEN {only} ELSE @,
                         !.excluded = {v \in Known : ~vendor[v].managed}]

\* A repeated click finds the run of its key and creates none.
Retry(b, of) ==
  /\ IsNext(b)
  /\ Exists(of)
  /\ RowFree(of)
  /\ run[of].status = "over" /\ ~run[of].dismissed
  /\ \A a \in Batch : Exists(a) => ~(run[a].of = of /\ run[a].key[1] = "retry")
  /\ run' = [run EXCEPT ![b] = NewRun(of, <<"retry", None>>, Carried(run[of].input))]
  /\ UNCHANGED <<search, lock, vendor, renamed, call>>

More(b, of, only) ==
  /\ IsNext(b)
  /\ Exists(of)
  /\ RowFree(of)
  /\ run[of].status = "over" /\ ~run[of].dismissed
  /\ only # None => Available(run[of].input) # None /\ only \in Available(run[of].input)
  /\ \A a \in Batch : Exists(a) => ~(run[a].of = of /\ run[a].key = <<"more", only>>)
  /\ run' = [run EXCEPT ![b] = NewRun(of, <<"more", only>>, Expanded(run[of].input, only))]
  /\ UNCHANGED <<search, lock, vendor, renamed, call>>

\* Categories are planned before the first search, once.
Plan(b, categories) ==
  /\ IsActive(b)
  /\ RowFree(b)
  /\ run[b].input.plan = None
  /\ \A n \in 1..Len(search) : search[n].batch # b
  /\ run' = [run EXCEPT ![b].input.plan = categories]
  /\ UNCHANGED <<search, lock, vendor, renamed, call>>

-----------------------------------------------------------------------------
(* Searching the web.                                                      *)

Used(b) == {n \in 1..Len(search) : search[n].batch = b}
Found(b, q) == {n \in Used(b) : search[n].query = q}
Allowance(b) ==
  SearchLimit * (IF run[b].input.plan = None THEN 1 ELSE Cardinality(run[b].input.plan))

Begin(x, held) ==
  /\ call[x] = None
  /\ IsActive(held.batch)
  /\ call' = [call EXCEPT ![x] = held]
  /\ UNCHANGED <<run, search, lock, vendor, renamed>>

Return(x) == call' = [call EXCEPT ![x] = None]

BeginSearch(x, b, q) == Begin(x, [phase |-> "waiting", batch |-> b, query |-> q])

\* Mutant: the search does not wait for the run's other searches.
AcquireNoWait(x) ==
  LET b == call[x].batch
      spent == Found(b, call[x].query) # {} \/ Cardinality(Used(b)) >= Allowance(b)
  IN /\ At(x, "waiting")
     /\ IF spent
        THEN Return(x) /\ UNCHANGED lock
        ELSE /\ call' = [call EXCEPT ![x].phase = "searching"]
             /\ lock' = [lock EXCEPT ![b] = x]
     /\ UNCHANGED <<run, search, vendor, renamed>>

\* pg_advisory_lock on the run, then the cache, then the allowance: with a saved
\* answer or nothing left to spend the call returns at once, else the provider
\* is asked and the session keeps the lock.
Acquire(x) ==
  LET b == call[x].batch
      spent == Found(b, call[x].query) # {} \/ Cardinality(Used(b)) >= Allowance(b)
  IN /\ At(x, "waiting")
     /\ lock[b] = None
     /\ IF spent
        THEN Return(x) /\ UNCHANGED lock
        ELSE /\ call' = [call EXCEPT ![x].phase = "searching"]
             /\ lock' = [lock EXCEPT ![b] = x]
     /\ UNCHANGED <<run, search, vendor, renamed>>

\* The provider answers with sources: the search is saved and spent.
Answer(x) ==
  /\ At(x, "searching")
  /\ search' = Append(search, [batch |-> call[x].batch, query |-> call[x].query])
  /\ lock' = [lock EXCEPT ![call[x].batch] = None]
  /\ Return(x)
  /\ UNCHANGED <<run, vendor, renamed>>

\* No answer in time, or none with sources: nothing is spent.
NoAnswer(x) ==
  /\ At(x, "searching")
  /\ lock' = [lock EXCEPT ![call[x].batch] = None]
  /\ Return(x)
  /\ UNCHANGED <<run, search, vendor, renamed>>

\* Mutant: the session goes back to the pool with its lock.
DropIntoPool(x) ==
  /\ call[x] # None
  /\ Return(x)
  /\ UNCHANGED <<run, search, lock, vendor, renamed>>

\* The run is stopped and the call dropped wherever it is: its transaction rolls
\* back, and its session, with the lock, is closed.
Drop(x) ==
  /\ call[x] # None
  /\ ~IsActive(call[x].batch)
  /\ lock' = [b \in Batch |-> IF lock[b] = x THEN None ELSE lock[b]]
  /\ Return(x)
  /\ UNCHANGED <<run, search, vendor, renamed>>

-----------------------------------------------------------------------------
(* Saving a candidate.                                                     *)

Named(name) == {v \in Known : vendor[v].name = name}

\* A candidate names a source of one of the run's searches.
BeginSave(x, b, c, name, contact) ==
  /\ Used(b) # {}
  /\ Begin(x, [phase |-> "saving", batch |-> b, category |-> c, name |-> name,
               contact |-> contact, input |-> None, saved |-> None, found |-> None])

InCategory(choices, c) == {n \in 1..Len(choices) : choices[n][1] = c}

\* Mutant: one more than there may be.
FullPast(input, c) == Cardinality(InCategory(input.candidates, c)) > PerCategory

Full(input, c) == Cardinality(InCategory(input.candidates, c)) >= PerCategory

\* The vendors of the name, excluded from this batch or already a candidate.
Excluded(input, name) == Named(name) \cap input.excluded # {}
Already(input, name, c) == \E v \in Named(name) : <<c, v>> \in Chosen(input.candidates)

\* The run's row is locked and its document read; the vendor is looked up by name.
Place(x) ==
  LET b == call[x].batch
      c == call[x].category
      input == run[b].input
      saved == Already(input, call[x].name, c)
      refused == \/ input.plan # None /\ c \notin input.plan
                 \/ Excluded(input, call[x].name)
                 \/ ~saved /\ Full(input, c)
  IN /\ At(x, "saving")
     /\ RowFree(b)
     /\ IF refused
        THEN Return(x)
        ELSE call' = [call EXCEPT ![x].phase = "placed", ![x].input = input,
                                  ![x].saved = saved]
     /\ UNCHANGED <<run, search, lock, vendor, renamed>>

\* The lock on the name, which other runs' saves share; then the vendor is looked
\* up again.
LockName(x) ==
  /\ At(x, "placed")
  /\ \A y \in Call : At(y, "named") => call[y].name # call[x].name
  /\ call' = [call EXCEPT ![x].phase = "named", ![x].found = Named(call[x].name)]
  /\ UNCHANGED <<run, search, lock, vendor, renamed>>

WithCandidate(x, v) ==
  [call[x].input EXCEPT
     !.candidates = IF call[x].saved THEN @ ELSE Append(@, <<call[x].category, v>>)]

\* A known vendor gets the evidence, and the contact if it has none.
SaveKnown(x, v) ==
  /\ At(x, "named")
  /\ v \in call[x].found
  /\ IF vendor[v].managed \/ vendor[v].discarded
     THEN UNCHANGED <<run, vendor>>
     ELSE /\ vendor' = [vendor EXCEPT ![v].contact = @ \/ call[x].contact]
          /\ run' = [run EXCEPT ![call[x].batch].input = WithCandidate(x, v)]
  /\ Return(x)
  /\ UNCHANGED <<search, lock, renamed>>

\* A new vendor; a name that came into use since fails on the unique key.
SaveNew(x, v) ==
  /\ At(x, "named")
  /\ call[x].found = {}
  /\ v \notin Known /\ \A w \in Vendor : w < v => w \in Known
  /\ IF Named(call[x].name) # {}
     THEN UNCHANGED <<run, vendor>>
     ELSE /\ vendor' = [vendor EXCEPT ![v] =
               [name |-> call[x].name, managed |-> FALSE, discarded |-> FALSE,
                contact |-> call[x].contact, vetting |-> "none"]]
          /\ run' = [run EXCEPT ![call[x].batch].input = WithCandidate(x, v)]
  /\ Return(x)
  /\ UNCHANGED <<search, lock, renamed>>

-----------------------------------------------------------------------------
(* Vetting and recommending.                                               *)

\* The assessment cites a search of the run; it locks nothing and replaces what
\* an earlier one said.
Vet(b, v, vetting) ==
  /\ IsActive(b)
  /\ Used(b) # {}
  /\ v \in Known
  /\ ~vendor[v].managed /\ ~vendor[v].discarded
  /\ vendor' = [vendor EXCEPT ![v].vetting = vetting]
  /\ UNCHANGED <<run, search, lock, renamed, call>>

BeginRecommend(x, b, c, v) ==
  Begin(x, [phase |-> "choosing", batch |-> b, category |-> c, vendor |-> v, input |-> None])

\* The candidates of the category, of this batch and the ones before it.
Compared(input, c) ==
  {v \in Vendor : <<c, v>> \in Chosen(input.candidates) \cup Chosen(input.previous)}

Recommendable(v) ==
  /\ ~vendor[v].discarded
  /\ vendor[v].vetting = "reviewed"
  /\ vendor[v].contact

\* Mutant: the document is read without the lock on the run's row.
WeighNoWait(x) ==
  LET input == run[call[x].batch].input
      rivals == Compared(input, call[x].category)
      sound == /\ call[x].vendor \in rivals
               /\ \A v \in rivals : ~vendor[v].discarded => vendor[v].vetting # "none"
               /\ Recommendable(call[x].vendor)
  IN /\ At(x, "choosing")
     /\ IF sound
        THEN call' = [call EXCEPT ![x].phase = "weighed", ![x].input = input]
        ELSE Return(x)
     /\ UNCHANGED <<run, search, lock, vendor, renamed>>

\* The run's row is locked and its document read; then the vendors are read.
Weigh(x) ==
  LET input == run[call[x].batch].input
      rivals == Compared(input, call[x].category)
      sound == /\ call[x].vendor \in rivals
               /\ \A v \in rivals : ~vendor[v].discarded => vendor[v].vetting # "none"
               /\ Recommendable(call[x].vendor)
  IN /\ At(x, "choosing")
     /\ RowFree(call[x].batch)
     /\ IF sound
        THEN call' = [call EXCEPT ![x].phase = "weighed", ![x].input = input]
        ELSE Return(x)
     /\ UNCHANGED <<run, search, lock, vendor, renamed>>

\* The recommendation replaces the category's, and the document is written back.
Recommend(x) ==
  LET others == {r \in call[x].input.recommended : r[1] # call[x].category}
  IN /\ At(x, "weighed")
     /\ run' = [run EXCEPT ![call[x].batch].input =
                 [call[x].input EXCEPT
                    !.recommended = others \cup {<<call[x].category, call[x].vendor>>}]]
     /\ Return(x)
     /\ UNCHANGED <<search, lock, vendor, renamed>>

-----------------------------------------------------------------------------
(* The operator, who works on the same vendors.                            *)

CreateVendor(v, name) ==
  /\ v \notin Known /\ \A w \in Vendor : w < v => w \in Known
  /\ Named(name) = {}
  /\ vendor' = [vendor EXCEPT ![v] = [name |-> name, managed |-> TRUE, discarded |-> FALSE,
                                      contact |-> TRUE, vetting |-> "none"]]
  /\ UNCHANGED <<run, search, lock, renamed, call>>

Rename(v, name) ==
  /\ v \in Known
  /\ vendor[v].name # name /\ Named(name) = {}
  /\ vendor' = [vendor EXCEPT ![v].name = name]
  /\ renamed' = renamed \cup {v}
  /\ UNCHANGED <<run, search, lock, call>>

\* Shortlisted or discarded from the Suppliers screen.
SelectVendor(v, discarded) ==
  /\ v \in Known
  /\ vendor' = [vendor EXCEPT ![v].discarded = discarded]
  /\ UNCHANGED <<run, search, lock, renamed, call>>

-----------------------------------------------------------------------------
BatchStep ==
  \E b \in Batch :
    \/ Start(b) \/ Dispatch(b) \/ Finish(b) \/ Discard(b)
    \/ \E of \in Batch : Retry(b, of) \/ \E only \in Category \cup {None} : More(b, of, only)
    \/ \E categories \in Plans : Plan(b, categories)
    \/ \E v \in Vendor, vetting \in {"checked", "reviewed"} : Vet(b, v, vetting)

BeginStep ==
  \E x \in Call, b \in Batch :
    \/ \E q \in Query : BeginSearch(x, b, q)
    \/ \E c \in Category, name \in Name, contact \in BOOLEAN : BeginSave(x, b, c, name, contact)
    \/ \E c \in Category, v \in Vendor : BeginRecommend(x, b, c, v)

CallStep ==
  \E x \in Call :
    \/ Acquire(x) \/ Answer(x) \/ NoAnswer(x) \/ Drop(x)
    \/ Place(x) \/ LockName(x)
    \/ \E v \in Vendor : SaveKnown(x, v) \/ SaveNew(x, v)
    \/ Weigh(x) \/ Recommend(x)

OperatorStep ==
  \E v \in Vendor :
    \/ \E name \in Name : CreateVendor(v, name) \/ Rename(v, name)
    \/ \E discarded \in BOOLEAN : SelectVendor(v, discarded)

Next == BatchStep \/ BeginStep \/ CallStep \/ OperatorStep

\* A provider call has a timeout; the database queues the waiters of a lock.
Fairness ==
  \A x \in Call : WF_vars(Answer(x) \/ NoAnswer(x)) /\ SF_vars(Acquire(x))

Spec == Init /\ [][Next]_vars /\ Fairness

-----------------------------------------------------------------------------
\* The searches a run has paid for, with the one the provider is working on, are
\* within its allowance, and no query is paid for twice, however many calls of
\* the run search together and however often they are dropped and tried again.
AllowanceIsKept ==
  \A b \in Batch : Exists(b) =>
    LET asking == {x \in Call : At(x, "searching") /\ call[x].batch = b}
    IN /\ Cardinality(Used(b)) + Cardinality(asking) <= Allowance(b)
       /\ \A q \in Query :
            Cardinality(Found(b, q)) + Cardinality({x \in asking : call[x].query = q}) <= 1

\* A batch offers at most PerCategory candidates of a category, all of its plan;
\* and none of them twice, and none that it was to exclude, unless the operator
\* renamed that vendor (the save then looks the name up before and after).
CandidatesBounded ==
  \A b \in Batch : Exists(b) =>
    LET input == run[b].input
        offers == input.candidates
    IN /\ \A c \in Category : Cardinality(InCategory(offers, c)) <= PerCategory
       /\ input.plan # None => \A n \in 1..Len(offers) : offers[n][1] \in input.plan
       /\ \A n \in 1..Len(offers) : offers[n][2] \notin renamed =>
            /\ offers[n][2] \notin input.excluded
            /\ \A m \in 1..Len(offers) : offers[m] = offers[n] => m = n

\* Through every retry and expansion, a category has at most one recommended
\* vendor, and it is a candidate that the batch or one before it offered.
RecommendationsStand ==
  \A b \in Batch : Exists(b) =>
    LET input == run[b].input
    IN /\ \A r \in input.recommended : r[2] \in Compared(input, r[1])
       /\ \A r, s \in input.recommended : r[1] = s[1] => r = s

\* A candidate is never lost to another tool call that writes the document back,
\* though every writer writes all of it.
CandidatesKept ==
  [][\A b \in Batch : Exists(b) =>
       Exists(b)' /\ Chosen(run[b].input.candidates) \subseteq Chosen(run'[b].input.candidates)]_vars

\* A call that waits for the run's search lock gets it, or is dropped: a call
\* that is stopped in the middle of a search takes the lock with it.
SearchesEnd == \A x \in Call : At(x, "waiting") ~> ~At(x, "waiting")
=============================================================================
