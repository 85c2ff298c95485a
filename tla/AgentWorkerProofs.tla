-------------------------- MODULE AgentWorkerProofs --------------------------
(***************************************************************************)
(* Proof about AgentWorker, for any runs and bounds: no message of another  *)
(* run is taken for one of the run in hand.  The answer that is being kept  *)
(* was compared with the run when it was heard (Heard); that the run in     *)
(* hand is still the same when it is kept needs every way out of the loop.  *)
(* That it is of the same claim, too, follows from Tidy: between two runs    *)
(* the child is at rest, with nothing in its pipes to hear or to start on.   *)
(***************************************************************************)
EXTENDS AgentWorker, TLAPS

\* The answer in hand is one of the run in hand.
Heard == phase = "keeping" => RunId(hand.of) = RunId(job)

WorkInv == Heard /\ WorkIsForItsRun

-----------------------------------------------------------------------------
\* The two ways the supervisor leaves a run, or waits for the child to.
LEMMA Leaving ==
  /\ Done => phase' # "keeping"
  /\ WorkerLost => phase' # "keeping"
  /\ \A must \in BOOLEAN : Abort(must) => phase' # "keeping"
  BY DEF Done, WorkerLost, Abort

LEMMA StepSupervise ==
  ASSUME WorkInv, Supervise
  PROVE  WorkInv'
  <1> USE DEF WorkInv, Heard, WorkIsForItsRun
  <1>1. CASE Spawn \/ NoticeDeath \/ SendRun \/ (\E r \in Run : ClaimRun(r))
    BY <1>1, Leaving DEF Spawn, NoticeDeath, SendRun, ClaimRun, history
  <1>2. CASE PrepareConflict \/ Fail \/ LoseRun \/ Release
    BY <1>2, Leaving DEF PrepareConflict, Fail, LoseRun, Release, history
  <1>3. CASE StatementFails \/ DrainFails \/ DrainIgnored
    BY <1>3, Leaving DEF StatementFails, DrainFails, DrainIgnored, history
  <1>4. CASE DrainMessage
    <2>1. phase = "draining" /\ UNCHANGED uses /\ (Done \/ UNCHANGED supervisor)
      BY <1>4 DEF DrainMessage, history
    <2> QED
      BY <2>1, Leaving DEF supervisor
  <1> QED
    BY <1>1, <1>2, <1>3, <1>4 DEF Supervise

LEMMA StepConverse ==
  ASSUME WorkInv, Converse
  PROVE  WorkInv'
  <1> USE DEF WorkInv, Heard, WorkIsForItsRun
  <1>1. CASE IgnoreMessage
    BY <1>1 DEF IgnoreMessage, supervisor, history
  <1>2. CASE CallTool
    <2>1. /\ phase' = "calling"
          /\ uses' = uses \cup {<<job, Head(stdout).of>>}
          /\ RunId(Head(stdout).of) = RunId(job)
      BY <1>2 DEF CallTool, Hears, ForRun
    <2>2. \A u \in uses' : u \in uses \/ u = <<job, Head(stdout).of>>
      BY <2>1
    <2> QED
      BY <2>1, <2>2
  <1>3. CASE HearAnswer
    BY <1>3 DEF HearAnswer, Hears, ForRun, history
  <1>4. CASE KeepAnswer
    <2>1. /\ phase = "keeping" /\ phase' # "keeping"
          /\ uses' = uses \/ uses' = uses \cup {<<job, hand.of>>}
      BY <1>4, Leaving DEF KeepAnswer
    <2>2. \A u \in uses' : u \in uses \/ u = <<job, hand.of>>
      BY <2>1
    <2> QED
      BY <2>1, <2>2
  <1>5. CASE AnswerTool \/ ToolConflict
    BY <1>5, Leaving DEF AnswerTool, ToolConflict, history
  <1>6. CASE HearFailure \/ HearBusy \/ HearCancelled \/ ChildGone
    BY <1>6, Leaving DEF HearFailure, HearBusy, HearCancelled, ChildGone, history
  <1> QED
    BY <1>1, <1>2, <1>3, <1>4, <1>5, <1>6 DEF Converse

\* The child, the operator and the clock change nothing the supervisor holds.
LEMMA StepOthers ==
  ASSUME WorkInv, Child \/ Environment \/ UNCHANGED vars
  PROVE  WorkInv'
  <1>1. UNCHANGED <<supervisor, history>>
    <2>1. CASE Child
      BY <2>1 DEF Child, ReadRun, ReadResult, ReadCancel, ModelCalls, ToolTimesOut,
           ModelAnswers, ModelFails, ModelCancelled, ChildDies, EndSession
    <2>2. CASE Environment \/ UNCHANGED vars
      BY <2>2 DEF Environment, Pause, Resume, Cancel, Control, LeaseRunsOut, vars
    <2> QED
      BY <2>1, <2>2
  <1> QED
    BY <1>1 DEF WorkInv, Heard, WorkIsForItsRun, supervisor, history

\* Whatever the child says late, after a cancellation, a lost lease or another
\* run's claim, a tool is executed and an answer kept for a run only if the child
\* asked for it or gave it in a session of that run.
THEOREM WorkStaysWithItsRun == Spec => []WorkIsForItsRun
  <1>1. Init => WorkInv
    BY DEF Init, WorkInv, Heard, WorkIsForItsRun
  <1>2. WorkInv /\ [Next]_vars => WorkInv'
    BY StepSupervise, StepConverse, StepOthers DEF Next
  <1>3. WorkInv => WorkIsForItsRun
    BY DEF WorkInv
  <1> QED
    BY <1>1, <1>2, <1>3, PTL DEF Spec

-----------------------------------------------------------------------------
(* As long as the child was not kept in spite of a lapse, everything it says *)
(* and everything it was asked for belongs to the claim in hand.             *)

Held == Run \X Nat
LineTypes == Terminals \cup {"run", "cancel", "tool_call", "tool_result"}
Lines == [type : LineTypes, of : Held \cup {None}, call : Nat]
Busy == {"preparing", "driving", "calling", "keeping", "draining"}

Types ==
  /\ claims \in [Run -> Nat]
  /\ job \in Held \cup {None}
  /\ hand \in Lines \cup {None}
  /\ session \in Held \cup {None}
  /\ stdin \in Seq(Lines)
  /\ stdout \in Seq(Lines)
  /\ pending \in Nat /\ sequence \in Nat
  /\ alive \in BOOLEAN
  /\ phase \in Phases
  /\ phase \in Busy => job \in Held
  /\ phase \in {"calling", "keeping"} => hand \in Lines

\* A Run line waits in the pipe.
Waiting(n) == n \in 1..Len(stdin) /\ stdin[n].type = "run"

\* The child has nothing to say, nothing to do and no run to expect.
Rested ==
  /\ stdout = <<>> /\ session = None /\ activeRun = None
  /\ \A n \in 1..Len(stdin) : ~Waiting(n)

Tidy ==
  /\ \A n \in 1..Len(stdout) : stdout[n].of = job
  /\ \A n \in 1..Len(stdout) : stdout[n].type \in Terminals => n = Len(stdout) /\ session = None
  /\ session # None => session = job /\ alive
  /\ alive => \A n \in 1..Len(stdin) : Waiting(n) =>
       /\ stdin[n].of = job /\ session = None /\ stdout = <<>>
       /\ \A m \in 1..Len(stdin) : Waiting(m) => m = n
  /\ phase \in {"calling", "keeping"} => hand.of = job
  /\ phase \in {"driving", "calling", "draining"} => activeRun = RunId(job)
  /\ phase \in {"keeping", "preparing"} => (alive => Rested) /\ activeRun = None /\ stdout = <<>>
  /\ phase = "idle" => (alive => Rested) /\ stdout = <<>>

FreshInv == Types /\ (lapses = {} /\ phase # "spawning" => Tidy)

LEMMA Appended ==
  ASSUME NEW s \in Seq(Lines), NEW m \in Lines
  PROVE  /\ Append(s, m) \in Seq(Lines)
         /\ Len(s) \in Nat /\ Len(Append(s, m)) = Len(s) + 1
         /\ Append(s, m)[Len(s) + 1] = m
         /\ \A n \in 1..Len(s) : Append(s, m)[n] = s[n]
  OBVIOUS

LEMMA Dropped ==
  ASSUME NEW s \in Seq(Lines), s # <<>>
  PROVE  /\ Tail(s) \in Seq(Lines)
         /\ Len(s) \in Nat /\ Len(s) >= 1 /\ Len(Tail(s)) = Len(s) - 1
         /\ Head(s) = s[1] /\ Head(s) \in Lines
         /\ \A n \in 1..Len(Tail(s)) : n + 1 \in 1..Len(s) /\ Tail(s)[n] = s[n + 1]
  OBVIOUS

\* Hearing the last line of a session leaves nothing behind.
LEMMA HearTidy ==
  ASSUME Types, stdout # <<>>, Hear
  PROVE  /\ stdout' \in Seq(Lines)
         /\ Head(stdout) \in Lines
         /\ Tidy => /\ Head(stdout).of = job
                    /\ \A n \in 1..Len(stdout') :
                         /\ stdout'[n].of = job
                         /\ stdout'[n].type \in Terminals => n = Len(stdout') /\ session = None
                    /\ Head(stdout).type \notin Terminals => activeRun' = activeRun
                    /\ Head(stdout).type \in Terminals =>
                         /\ stdout' = <<>> /\ session = None
                         /\ activeRun = RunId(job) => activeRun' = None
                    /\ alive => \A n \in 1..Len(stdin) : ~Waiting(n)
  <1>1. stdout \in Seq(Lines)
    BY DEF Types
  <1>2. stdout' = Tail(stdout)
    BY DEF Hear
  <1>3. /\ stdout' \in Seq(Lines) /\ Len(stdout) \in Nat /\ Len(stdout) >= 1
        /\ Len(stdout') = Len(stdout) - 1
        /\ Head(stdout) = stdout[1] /\ Head(stdout) \in Lines
        /\ \A n \in 1..Len(stdout') : n + 1 \in 1..Len(stdout) /\ stdout'[n] = stdout[n + 1]
    BY <1>1, <1>2, Dropped
  <1>4. ASSUME Tidy
        PROVE  /\ Head(stdout).of = job
               /\ \A n \in 1..Len(stdout') :
                    /\ stdout'[n].of = job
                    /\ stdout'[n].type \in Terminals => n = Len(stdout') /\ session = None
               /\ Head(stdout).type \notin Terminals => activeRun' = activeRun
               /\ alive => \A n \in 1..Len(stdin) : ~Waiting(n)
    <2>1. 1 \in 1..Len(stdout) /\ stdout[1].of = job
      BY <1>3, <1>4 DEF Tidy
    <2>2. ASSUME NEW n \in 1..Len(stdout')
          PROVE  /\ stdout'[n].of = job
                 /\ stdout'[n].type \in Terminals => n = Len(stdout') /\ session = None
      BY <1>3, <1>4 DEF Tidy
    <2>3. Head(stdout).type \notin Terminals => activeRun' = activeRun
      BY DEF Hear
    <2>4. alive => \A n \in 1..Len(stdin) : ~Waiting(n)
      BY <1>4 DEF Tidy
    <2> QED
      BY <1>3, <2>1, <2>2, <2>3, <2>4
  <1>5. ASSUME Tidy, Head(stdout).type \in Terminals
        PROVE  /\ stdout' = <<>> /\ session = None
               /\ activeRun = RunId(job) => activeRun' = None
    <2>1. 1 \in 1..Len(stdout) /\ stdout[1].type \in Terminals
      BY <1>3, <1>5
    <2>2. Len(stdout) = 1 /\ session = None
      BY <2>1, <1>5 DEF Tidy
    <2>3. stdout' = <<>>
      BY <2>2, <1>3
    <2> QED
      BY <2>2, <2>3, <1>4, <1>5 DEF Hear
  <1> QED
    BY <1>3, <1>4, <1>5

LEMMA TypesAreFresh ==
  ASSUME Types', lapses' # {} \/ phase' = "spawning" \/ Tidy'
  PROVE  FreshInv'
  BY DEF FreshInv

LEMMA FreshAbort ==
  ASSUME FreshInv, NEW must \in BOOLEAN, phase \in {"preparing", "driving", "calling", "keeping"},
         Abort(must), claims' = claims, UNCHANGED <<child, history>>
  PROVE  FreshInv'
  <1> USE ConstantsOK
  <1>1. Types /\ job \in Held /\ RunId(job) # None
    BY DEF FreshInv, Types, Busy, Held, RunId
  <1>2. CASE activeRun # RunId(job)
    <2>1. /\ phase' = "idle" /\ job' = None /\ hand' = None
          /\ UNCHANGED <<claims, child, history, pipes>>
      BY <1>2 DEF Abort, Done
    <2>2. Types'
      BY <1>1, <2>1 DEF Types, child, pipes, Phases, Busy
    <2>3. ASSUME lapses = {} PROVE Tidy'
      <3>1. Tidy /\ phase \in {"preparing", "keeping"}
        BY <1>2, <2>3 DEF FreshInv, Tidy
      <3> QED
        BY <2>1, <3>1 DEF Tidy, Rested, Waiting, child, pipes
    <2> QED
      BY <2>1, <2>2, <2>3, TypesAreFresh DEF history
  <1>3. CASE activeRun = RunId(job)
    <2> DEFINE m == Message("cancel", job, 0)
    <2>1. /\ phase' = "draining" /\ hand' = None /\ stdin' = Append(stdin, m)
          /\ UNCHANGED <<claims, job, activeRun, stdout, child, history>>
      BY <1>3 DEF Abort
    <2>2. m \in Lines /\ m.type = "cancel"
      BY <1>1 DEF Message, Lines, LineTypes
    <2> HIDE DEF m
    <2>3. /\ stdin' \in Seq(Lines)
          /\ Len(stdin) \in Nat /\ Len(stdin') = Len(stdin) + 1
          /\ stdin'[Len(stdin) + 1] = m
          /\ \A n \in 1..Len(stdin) : stdin'[n] = stdin[n]
      BY <1>1, <2>1, <2>2, Appended DEF Types
    <2>4. Types'
      BY <1>1, <2>1, <2>3 DEF Types, child, Phases, Busy
    <2>5. \A n \in 1..Len(stdin') : Waiting(n)' => Waiting(n)
      BY <2>2, <2>3 DEF Waiting
    <2>6. ASSUME lapses = {} PROVE Tidy'
      <3>1. Tidy /\ phase \in {"driving", "calling"}
        BY <1>1, <1>3, <2>6 DEF FreshInv, Tidy
      <3>2. alive => \A n \in 1..Len(stdin') : Waiting(n)' =>
              /\ stdin'[n].of = job /\ session = None /\ stdout = <<>>
              /\ \A k \in 1..Len(stdin') : Waiting(k)' => k = n
        BY <2>3, <2>5, <3>1 DEF Tidy, Waiting
      <3> QED
        BY <1>3, <2>1, <3>1, <3>2 DEF Tidy, child
    <2> QED
      BY <2>1, <2>4, <2>6, TypesAreFresh DEF history
  <1> QED
    BY <1>2, <1>3

LEMMA FreshSupervise ==
  ASSUME FreshInv, Supervise
  PROVE  FreshInv'
  <1> USE ConstantsOK
  <1>1. CASE Spawn
    <2>1. /\ phase' = "idle" /\ stdin' = <<>> /\ stdout' = <<>> /\ session' = None
          /\ activeRun' = None /\ alive' = TRUE /\ pending' = 0 /\ sequence' = 0
          /\ UNCHANGED <<claims, job, hand>>
      BY <1>1 DEF Spawn, row
    <2>2. Types'
      BY <2>1 DEF FreshInv, Types, Phases, Busy
    <2>3. Tidy'
      BY <2>1 DEF Tidy, Rested, Waiting
    <2> QED
      BY <2>2, <2>3, TypesAreFresh
  <1>2. CASE NoticeDeath \/ DrainFails
    <2>1. /\ phase' = "spawning" /\ job' = None /\ hand' = None
          /\ UNCHANGED <<claims, pipes, child>>
      BY <1>2 DEF NoticeDeath, DrainFails, WorkerLost, row
    <2>2. Types'
      BY <2>1 DEF FreshInv, Types, Phases, Busy, pipes, child
    <2> QED
      BY <2>1, <2>2, TypesAreFresh
  <1>3. ASSUME NEW r \in Run, ClaimRun(r)
        PROVE  FreshInv'
    <2>1. /\ phase = "idle" /\ alive /\ phase' = "preparing"
          /\ claims' = [claims EXCEPT ![r] = @ + 1]
          /\ job' = <<r, claims[r] + 1>>
          /\ UNCHANGED <<hand, pipes, child, history>>
      BY <1>3 DEF ClaimRun
    <2>2. job' \in Held /\ claims' \in [Run -> Nat]
      BY <2>1 DEF FreshInv, Types, Held
    <2>3. Types'
      BY <2>1, <2>2 DEF FreshInv, Types, Phases, Busy, pipes, child
    <2>4. ASSUME lapses = {} PROVE Tidy'
      <3>1. Rested /\ alive
        BY <2>1, <2>4 DEF FreshInv, Tidy
      <3> QED
        BY <2>1, <3>1 DEF Tidy, Rested, Waiting, pipes, child
    <2> QED
      BY <2>1, <2>3, <2>4, TypesAreFresh DEF history
  <1>4. CASE SendRun
    <2> DEFINE m == Message("run", job, 0)
    <2>1. /\ phase = "preparing" /\ alive /\ phase' = "driving"
          /\ activeRun' = RunId(job) /\ stdin' = Append(stdin, m)
          /\ UNCHANGED <<claims, job, hand, stdout, child, history>>
      BY <1>4 DEF SendRun, row
    <2>2. m \in Lines /\ m.of = job
      BY <2>1 DEF FreshInv, Types, Busy, Message, Lines, LineTypes
    <2> HIDE DEF m
    <2>3. /\ stdin' \in Seq(Lines)
          /\ Len(stdin) \in Nat /\ Len(stdin') = Len(stdin) + 1
          /\ stdin'[Len(stdin) + 1] = m
          /\ \A n \in 1..Len(stdin) : stdin'[n] = stdin[n]
      BY <2>1, <2>2, Appended DEF FreshInv, Types
    <2>4. Types'
      BY <2>1, <2>3 DEF FreshInv, Types, child, Phases, Busy
    <2>5. ASSUME lapses = {} PROVE Tidy'
      <3>1. Rested /\ alive
        BY <2>1, <2>5 DEF FreshInv, Tidy
      <3>2. \A n \in 1..Len(stdin') : Waiting(n)' => n = Len(stdin')
        BY <2>3, <3>1 DEF Rested, Waiting
      <3>3. stdin'[Len(stdin')].of = job
        BY <2>2, <2>3
      <3> QED
        BY <2>1, <3>1, <3>2, <3>3 DEF Tidy, Rested, child
    <2> QED
      BY <2>1, <2>4, <2>5, TypesAreFresh DEF history
  <1>5. CASE PrepareConflict
    BY <1>5, FreshAbort DEF PrepareConflict, row
  <1>6. CASE Fail \/ LoseRun \/ Release
    <2>1. PICK must \in BOOLEAN : Abort(must)
      BY <1>6 DEF Fail, LoseRun, Release
    <2>2. phase \in {"preparing", "driving", "calling", "keeping"} /\ claims' = claims
          /\ UNCHANGED <<child, history>>
      BY <1>6 DEF Fail, LoseRun, Release, Driving, FinishFailed, row
    <2> QED
      BY <2>1, <2>2, FreshAbort
  <1>7. CASE StatementFails
    <2>1. /\ phase' = "idle" /\ job' = None /\ hand' = None /\ lapses' # {}
          /\ UNCHANGED <<claims, pipes, child>>
      BY <1>7 DEF StatementFails, Done, row
    <2>2. Types'
      BY <2>1 DEF FreshInv, Types, Phases, Busy, pipes, child
    <2> QED
      BY <2>1, <2>2, TypesAreFresh
  <1>8. CASE DrainMessage
    <2> DEFINE m == Message("tool_result", job, Head(stdout).call)
    <2>1. /\ phase = "draining" /\ stdout # <<>> /\ Hear
          /\ stdin' = stdin \/ stdin' = Append(stdin, m)
          /\ IF Head(stdout).type \in Terminals /\ ForRun(Head(stdout))
             THEN Done ELSE UNCHANGED supervisor
          /\ UNCHANGED <<claims, child, history>>
      BY <1>8 DEF DrainMessage, row
    <2>2. Types /\ job \in Held
      BY <2>1 DEF FreshInv, Types, Busy
    <2>3. /\ stdout' \in Seq(Lines) /\ Head(stdout) \in Lines
          /\ Tidy => /\ Head(stdout).of = job
                     /\ \A n \in 1..Len(stdout') :
                          /\ stdout'[n].of = job
                          /\ stdout'[n].type \in Terminals => n = Len(stdout') /\ session = None
                     /\ Head(stdout).type \notin Terminals => activeRun' = activeRun
                     /\ Head(stdout).type \in Terminals =>
                          /\ stdout' = <<>> /\ session = None
                          /\ activeRun = RunId(job) => activeRun' = None
                     /\ alive => \A n \in 1..Len(stdin) : ~Waiting(n)
      BY <2>1, <2>2, HearTidy
    <2>4. m \in Lines /\ m.type # "run"
      BY <2>2, <2>3 DEF Message, Lines, LineTypes
    <2> HIDE DEF m
    <2>5. /\ stdin' \in Seq(Lines)
          /\ (\A n \in 1..Len(stdin) : ~Waiting(n)) => \A n \in 1..Len(stdin') : ~Waiting(n)'
      <3>1. CASE stdin' = stdin
        BY <2>2, <3>1 DEF Types, Waiting
      <3>2. CASE stdin' = Append(stdin, m)
        <4>1. /\ stdin' \in Seq(Lines)
              /\ Len(stdin) \in Nat /\ Len(stdin') = Len(stdin) + 1
              /\ stdin'[Len(stdin) + 1] = m
              /\ \A n \in 1..Len(stdin) : stdin'[n] = stdin[n]
          BY <2>2, <2>4, <3>2, Appended DEF Types
        <4> QED
          BY <2>4, <4>1 DEF Waiting
      <3> QED
        BY <2>1, <3>1, <3>2
    <2>6. Types'
      BY <2>1, <2>2, <2>3, <2>5 DEF Types, Done, supervisor, child, Phases, Busy
    <2>7. ASSUME lapses = {} PROVE Tidy'
      <3>1. Tidy
        BY <2>1, <2>7 DEF FreshInv
      <3>2. CASE Head(stdout).type \in Terminals
        <4>1. /\ phase' = "idle" /\ stdout' = <<>> /\ session' = None /\ activeRun' = None
              /\ alive' = alive
              /\ alive => \A n \in 1..Len(stdin') : ~Waiting(n)'
          BY <2>1, <2>3, <2>5, <3>1, <3>2 DEF Tidy, ForRun, Done, child
        <4> QED
          BY <4>1 DEF Tidy, Rested
      <3>3. CASE Head(stdout).type \notin Terminals
        <4>1. /\ phase' = "draining" /\ job' = job /\ activeRun' = activeRun
              /\ session' = session /\ alive' = alive
              /\ alive => \A n \in 1..Len(stdin') : ~Waiting(n)'
          BY <2>1, <2>3, <2>5, <3>1, <3>3 DEF supervisor, child
        <4> QED
          BY <2>1, <2>3, <3>1, <4>1 DEF Tidy
      <3> QED
        BY <3>2, <3>3
    <2> QED
      BY <2>1, <2>6, <2>7, TypesAreFresh DEF history
  <1>9. CASE DrainIgnored
    <2>1. /\ phase = "draining" /\ phase' = "idle" /\ job' = None /\ hand' = None
          /\ lapses' # {} \/ (lapses' = lapses /\ ~alive /\ stdout = <<>>)
          /\ UNCHANGED <<claims, pipes, child>>
      BY <1>9 DEF DrainIgnored, Done, row
    <2>2. Types'
      BY <2>1 DEF FreshInv, Types, Phases, Busy, pipes, child
    <2>3. ASSUME lapses' = {} PROVE Tidy'
      <3>1. Tidy /\ ~alive /\ stdout = <<>>
        BY <2>1, <2>3 DEF FreshInv
      <3> QED
        BY <2>1, <3>1 DEF Tidy, pipes, child
    <2> QED
      BY <2>2, <2>3, TypesAreFresh
  <1> QED
    BY <1>1, <1>2, <1>3, <1>4, <1>5, <1>6, <1>7, <1>8, <1>9 DEF Supervise

\* The last message of a session, heard in the loop.
LEMMA FreshEnd ==
  ASSUME FreshInv, phase = "driving", stdout # <<>>, Head(stdout).type \in Terminals, Hear,
         \/ phase' = "keeping" /\ job' = job /\ hand' = Head(stdout)
         \/ phase' \in {"idle", "spawning"} /\ job' = None /\ hand' = None,
         UNCHANGED <<claims, stdin, child, history>>
  PROVE  FreshInv'
  <1>1. Types /\ job \in Held
    BY DEF FreshInv, Types, Busy
  <1>2. /\ stdout' \in Seq(Lines) /\ Head(stdout) \in Lines
        /\ Tidy => /\ Head(stdout).of = job /\ stdout' = <<>> /\ session = None
                   /\ activeRun = RunId(job) => activeRun' = None
                   /\ alive => \A n \in 1..Len(stdin) : ~Waiting(n)
    BY <1>1, HearTidy
  <1>3. Types'
    BY <1>1, <1>2 DEF Types, child, Phases, Busy
  <1>4. ASSUME lapses = {}, phase' # "spawning" PROVE Tidy'
    <2>1. Tidy
      BY <1>4 DEF FreshInv
    <2>2. /\ stdout' = <<>> /\ session' = None /\ activeRun' = None /\ alive' = alive
          /\ alive => \A n \in 1..Len(stdin') : ~Waiting(n)'
          /\ phase' = "keeping" => job' = job /\ hand'.of = job
          /\ phase' \in {"keeping", "idle"}
      BY <1>2, <1>4, <2>1 DEF Tidy, Waiting, child
    <2> QED
      BY <2>2 DEF Tidy, Rested
  <1> QED
    BY <1>3, <1>4, TypesAreFresh DEF history

LEMMA FreshConverse ==
  ASSUME FreshInv, Converse
  PROVE  FreshInv'
  <1> USE ConstantsOK
  <1>1. CASE IgnoreMessage
    <2>1. /\ phase = "driving" /\ stdout # <<>> /\ ~ForRun(Head(stdout)) /\ Hear
          /\ UNCHANGED <<claims, phase, job, hand, stdin, child, history>>
      BY <1>1 DEF IgnoreMessage, row, supervisor
    <2>2. Types
      BY DEF FreshInv
    <2>3. stdout' \in Seq(Lines) /\ (Tidy => Head(stdout).of = job)
      BY <2>1, <2>2, HearTidy
    <2>4. Types'
      BY <2>1, <2>2, <2>3 DEF Types, child, Phases, Busy
    <2>5. ~Tidy
      BY <2>1, <2>3 DEF ForRun
    <2> QED
      BY <2>1, <2>4, <2>5, TypesAreFresh DEF FreshInv, history
  <1>2. CASE CallTool
    <2>1. /\ phase = "driving" /\ stdout # <<>> /\ Head(stdout).type = "tool_call" /\ Hear
          /\ phase' = "calling" /\ hand' = Head(stdout)
          /\ lapses' = lapses
          /\ UNCHANGED <<claims, job, stdin, child>>
      BY <1>2 DEF CallTool, Hears, row
    <2>2. Types /\ Head(stdout).type \notin Terminals
      BY <2>1 DEF FreshInv, Terminals
    <2>3. /\ stdout' \in Seq(Lines) /\ Head(stdout) \in Lines
          /\ Tidy => /\ Head(stdout).of = job /\ activeRun' = activeRun
                     /\ \A n \in 1..Len(stdout') :
                          /\ stdout'[n].of = job
                          /\ stdout'[n].type \in Terminals => n = Len(stdout') /\ session = None
                     /\ alive => \A n \in 1..Len(stdin) : ~Waiting(n)
      BY <2>1, <2>2, HearTidy
    <2>4. Types'
      BY <2>1, <2>2, <2>3 DEF Types, child, Phases, Busy
    <2>5. ASSUME lapses = {} PROVE Tidy'
      <3>1. Tidy
        BY <2>1, <2>5 DEF FreshInv
      <3>2. alive => \A n \in 1..Len(stdin') : ~Waiting(n)'
        BY <2>1, <2>3, <3>1 DEF Waiting
      <3> QED
        BY <2>1, <2>3, <3>1, <3>2 DEF Tidy, child
    <2> QED
      BY <2>1, <2>4, <2>5, TypesAreFresh
  <1>3. CASE AnswerTool
    <2> DEFINE m == Message("tool_result", job, hand.call)
    <2>1. /\ phase = "calling" /\ phase' = "driving" /\ hand' = None
          /\ stdin' = Append(stdin, m)
          /\ UNCHANGED <<claims, job, activeRun, stdout, child, history>>
      BY <1>3 DEF AnswerTool, row
    <2>2. Types /\ m \in Lines /\ m.type # "run"
      BY <2>1 DEF FreshInv, Types, Busy, Message, Lines, LineTypes
    <2> HIDE DEF m
    <2>3. /\ stdin' \in Seq(Lines)
          /\ Len(stdin) \in Nat /\ Len(stdin') = Len(stdin) + 1
          /\ stdin'[Len(stdin) + 1] = m
          /\ \A n \in 1..Len(stdin) : stdin'[n] = stdin[n]
      BY <2>1, <2>2, Appended DEF Types
    <2>4. Types'
      BY <2>1, <2>2, <2>3 DEF Types, child, Phases, Busy
    <2>5. \A n \in 1..Len(stdin') : Waiting(n)' => Waiting(n)
      BY <2>2, <2>3 DEF Waiting
    <2>6. ASSUME lapses = {} PROVE Tidy'
      <3>1. Tidy
        BY <2>1, <2>6 DEF FreshInv
      <3>2. alive => \A n \in 1..Len(stdin') : Waiting(n)' =>
              /\ stdin'[n].of = job /\ session = None /\ stdout = <<>>
              /\ \A k \in 1..Len(stdin') : Waiting(k)' => k = n
        BY <2>3, <2>5, <3>1 DEF Tidy, Waiting
      <3> QED
        BY <2>1, <3>1, <3>2 DEF Tidy, child
    <2> QED
      BY <2>1, <2>4, <2>6, TypesAreFresh DEF history
  <1>4. CASE ToolConflict
    BY <1>4, FreshAbort DEF ToolConflict, Hears, row
  <1>5. CASE HearAnswer
    BY <1>5, FreshEnd DEF HearAnswer, Hears, Terminals, row
  <1>6. CASE KeepAnswer
    <2>1. /\ phase = "keeping" /\ phase' = "idle" /\ job' = None /\ hand' = None
          /\ lapses' = lapses /\ claims' = claims
          /\ UNCHANGED <<pipes, child>>
      BY <1>6 DEF KeepAnswer, Done, row
    <2>2. Types'
      BY <2>1 DEF FreshInv, Types, Phases, Busy, pipes, child
    <2>3. ASSUME lapses = {} PROVE Tidy'
      <3>1. Tidy
        BY <2>1, <2>3 DEF FreshInv
      <3>2. (alive => Rested) /\ stdout = <<>> /\ UNCHANGED <<pipes, child>>
        BY <2>1, <3>1 DEF Tidy
      <3>3. (alive => Rested)' /\ stdout' = <<>>
        BY <3>2 DEF Rested, Waiting, pipes, child
      <3> QED
        BY <2>1, <3>1, <3>3 DEF Tidy, Rested, pipes, child
    <2> QED
      BY <2>1, <2>2, <2>3, TypesAreFresh
  <1>7. CASE HearFailure \/ HearBusy \/ HearCancelled
    <2>1. /\ phase = "driving" /\ stdout # <<>> /\ Head(stdout).type \in Terminals /\ Hear
          /\ phase' \in {"idle", "spawning"} /\ job' = None /\ hand' = None
          /\ UNCHANGED <<claims, stdin, child, history>>
      BY <1>7 DEF HearFailure, HearBusy, HearCancelled, Hears, Terminals, Done, WorkerLost,
           FinishFailed, row
    <2> QED
      BY <2>1, FreshEnd
  <1>8. CASE ChildGone
    <2>1. /\ phase' = "spawning" /\ job' = None /\ hand' = None
          /\ UNCHANGED <<claims, pipes, child>>
      BY <1>8 DEF ChildGone, WorkerLost, FinishFailed, row
    <2>2. Types'
      BY <2>1 DEF FreshInv, Types, Phases, Busy, pipes, child
    <2> QED
      BY <2>1, <2>2, TypesAreFresh
  <1> QED
    BY <1>1, <1>2, <1>3, <1>4, <1>5, <1>6, <1>7, <1>8 DEF Converse

\* A line the child sends in its session, the last of which ends it.
LEMMA FreshEmit ==
  ASSUME FreshInv, NEW m \in Lines, Emit(m), alive, session # None,
         m.of = session,
         \/ m.type \notin Terminals /\ session' = session
         \/ m.type \in Terminals /\ session' = None,
         pending' \in Nat, sequence' \in Nat,
         UNCHANGED <<claims, supervisor, activeRun, stdin, alive, history>>
  PROVE  FreshInv'
  <1>1. Types
    BY DEF FreshInv
  <1>2. /\ stdout' \in Seq(Lines)
        /\ Len(stdout) \in Nat /\ Len(stdout') = Len(stdout) + 1
        /\ stdout'[Len(stdout) + 1] = m
        /\ \A n \in 1..Len(stdout) : stdout'[n] = stdout[n]
    BY <1>1, Appended DEF Types, Emit
  <1>3. Types'
    BY <1>1, <1>2 DEF Types, supervisor
  <1>4. ASSUME lapses = {}, phase # "spawning" PROVE Tidy'
    <2>1. Tidy /\ session = job
      BY <1>4 DEF FreshInv, Tidy
    <2>2. phase \in {"driving", "calling", "draining"}
      BY <1>1, <1>4, <2>1 DEF Tidy, Rested, Types, Phases
    <2>3. \A n \in 1..Len(stdin) : ~Waiting(n)
      BY <2>1 DEF Tidy
    <2>4. \A n \in 1..Len(stdout') :
            /\ stdout'[n].of = job
            /\ stdout'[n].type \in Terminals => n = Len(stdout') /\ session' = None
      BY <1>2, <2>1 DEF Tidy
    <2>5. \A n \in 1..Len(stdin') : ~Waiting(n)'
      BY <2>3 DEF Waiting
    <2> QED
      BY <2>1, <2>2, <2>4, <2>5 DEF Tidy, supervisor
  <1> QED
    BY <1>3, <1>4, TypesAreFresh DEF supervisor, history

LEMMA FreshChild ==
  ASSUME FreshInv, Child
  PROVE  FreshInv'
  <1> USE ConstantsOK
  <1> DEFINE Taken == /\ stdin' \in Seq(Lines) /\ Head(stdin) \in Lines
                      /\ Len(stdin) \in Nat /\ Len(stdin) >= 1
                      /\ Len(stdin') = Len(stdin) - 1
                      /\ Head(stdin) = stdin[1]
                      /\ \A n \in 1..Len(stdin') : n + 1 \in 1..Len(stdin) /\ stdin'[n] = stdin[n + 1]
  <1>1. Types
    BY DEF FreshInv
  <1>2. stdin # <<>> /\ Consume => Taken
    BY <1>1, Dropped DEF Consume, Types
  <1> HIDE DEF Taken
  <1>3. CASE ReadRun
    <2> DEFINE m == Message("busy", Head(stdin).of, 0)
    <2>1. /\ alive /\ stdin # <<>> /\ Consume /\ Head(stdin).type = "run"
          /\ \/ session = None /\ session' = Head(stdin).of /\ pending' = 0 /\ sequence' = 0
                /\ UNCHANGED stdout
             \/ session # None /\ Emit(m) /\ UNCHANGED <<session, pending, sequence>>
          /\ UNCHANGED <<claims, supervisor, activeRun, alive, history>>
      BY <1>3 DEF ReadRun, Reads, row
    <2>2. Taken
      BY <1>2, <2>1
    <2>3. m \in Lines
      BY <2>2 DEF Taken, Message, Lines, LineTypes, Terminals
    <2> HIDE DEF m
    <2>4. stdout' \in Seq(Lines) /\ session' \in Held \cup {None} /\ pending' \in Nat /\ sequence' \in Nat
      <3>1. CASE session = None
        BY <1>1, <2>1, <2>2, <3>1 DEF Taken, Types, Lines
      <3>2. CASE session # None
        <4>1. stdout' = Append(stdout, m)
          BY <2>1, <3>2 DEF Emit
        <4> QED
          BY <1>1, <2>1, <2>3, <3>2, <4>1, Appended DEF Types
      <3> QED
        BY <3>1, <3>2
    <2>5. Types'
      BY <1>1, <2>1, <2>2, <2>4 DEF Types, Taken, supervisor
    <2>6. ASSUME lapses = {}, phase # "spawning" PROVE Tidy'
      <3>1. Tidy /\ Waiting(1) /\ 1 \in 1..Len(stdin)
        BY <2>1, <2>2, <2>6 DEF FreshInv, Waiting, Taken
      <3>2. /\ stdin[1].of = job /\ session = None /\ stdout = <<>>
            /\ \A n \in 1..Len(stdin) : Waiting(n) => n = 1
        BY <2>1, <3>1 DEF Tidy
      <3>3. session' = job /\ stdout' = <<>>
        BY <2>1, <2>2, <3>2 DEF Taken
      <3>4. \A n \in 1..Len(stdin') : ~Waiting(n)'
        BY <2>2, <3>2 DEF Taken, Waiting
      <3>5. phase \in {"driving", "calling", "draining"}
        BY <1>1, <2>1, <2>6, <3>1 DEF Tidy, Rested, Types, Phases
      <3> QED
        BY <2>1, <3>1, <3>3, <3>4, <3>5 DEF Tidy, supervisor
    <2> QED
      BY <2>1, <2>5, <2>6, TypesAreFresh DEF supervisor, history
  <1>4. CASE ReadResult \/ ReadCancel
    <2>1. /\ alive /\ stdin # <<>> /\ Consume /\ Head(stdin).type # "run"
          /\ pending' = 0 \/ pending' = pending
          /\ UNCHANGED <<claims, supervisor, activeRun, stdout, alive, session, sequence, history>>
      BY <1>4 DEF ReadResult, ReadCancel, Reads, row
    <2>2. Taken
      BY <1>2, <2>1
    <2>3. Types'
      BY <1>1, <2>1, <2>2 DEF Types, Taken, supervisor
    <2>4. ASSUME lapses = {}, phase # "spawning" PROVE Tidy'
      <3>1. Tidy
        BY <2>4 DEF FreshInv
      <3>2. \A n \in 1..Len(stdin') : Waiting(n)' =>
              n + 1 \in 1..Len(stdin) /\ Waiting(n + 1) /\ stdin'[n] = stdin[n + 1]
        BY <2>2 DEF Taken, Waiting
      <3>3. \A n \in 1..Len(stdin') : Waiting(n)' =>
              /\ stdin'[n].of = job /\ session = None /\ stdout = <<>>
              /\ \A k \in 1..Len(stdin') : Waiting(k)' => k = n
        BY <2>1, <3>1, <3>2 DEF Tidy
      <3>4. (alive => Rested) => (alive => Rested)'
        BY <2>1, <3>2 DEF Rested
      <3> QED
        BY <2>1, <3>1, <3>3, <3>4 DEF Tidy, supervisor
    <2> QED
      BY <2>1, <2>3, <2>4, TypesAreFresh DEF supervisor, history
  <1>5. CASE ModelCalls
    <2> DEFINE m == Message("tool_call", session, sequence + 1)
    <2>1. /\ alive /\ session # None /\ Emit(m)
          /\ pending' = sequence + 1 /\ sequence' = sequence + 1
          /\ UNCHANGED <<claims, supervisor, activeRun, stdin, alive, session, history>>
      BY <1>5 DEF ModelCalls, Thinking, row
    <2>2. m \in Lines /\ m.of = session /\ m.type \notin Terminals
      BY <1>1 DEF Types, Message, Lines, LineTypes, Terminals
    <2> HIDE DEF m
    <2>3. pending' \in Nat /\ sequence' \in Nat
      BY <1>1, <2>1 DEF Types
    <2> QED
      BY <2>1, <2>2, <2>3, FreshEmit
  <1>6. ASSUME NEW type \in Terminals, alive, session # None, EndSession(type)
        PROVE  FreshInv'
    <2> DEFINE m == Message(type, session, 0)
    <2>1. /\ Emit(m) /\ session' = None /\ pending' = 0 /\ sequence' = 0
          /\ UNCHANGED <<claims, supervisor, activeRun, stdin, alive, history>>
      BY <1>6 DEF EndSession, row
    <2>2. m \in Lines /\ m.of = session /\ m.type \in Terminals
      BY <1>1, <1>6 DEF Types, Message, Lines, LineTypes
    <2> HIDE DEF m
    <2> QED
      BY <1>6, <2>1, <2>2, FreshEmit
  <1>7. CASE ModelAnswers \/ ModelFails \/ ModelCancelled
    BY <1>6, <1>7 DEF ModelAnswers, ModelFails, ModelCancelled, Thinking, Terminals
  <1>8. CASE ToolTimesOut
    <2>1. pending' = 0 /\ UNCHANGED <<claims, supervisor, pipes, alive, session, sequence, history>>
      BY <1>8 DEF ToolTimesOut, row
    <2>2. Types' /\ (Tidy => Tidy')
      BY <1>1, <2>1 DEF Types, Tidy, Rested, Waiting, supervisor, pipes
    <2> QED
      BY <2>1, <2>2 DEF FreshInv, supervisor, history
  <1>9. CASE ChildDies
    <2>1. /\ alive' = FALSE /\ session' = None /\ pending' = 0 /\ sequence' = 0
          /\ UNCHANGED <<claims, supervisor, pipes, history>>
      BY <1>9 DEF ChildDies, row
    <2>2. Types' /\ (Tidy => Tidy')
      BY <1>1, <2>1 DEF Types, Tidy, supervisor, pipes
    <2> QED
      BY <2>1, <2>2 DEF FreshInv, supervisor, history
  <1> QED
    BY <1>3, <1>4, <1>5, <1>7, <1>8, <1>9 DEF Child

LEMMA FreshAround ==
  ASSUME FreshInv, Environment \/ UNCHANGED vars
  PROVE  FreshInv'
  <1>1. UNCHANGED <<claims, supervisor, pipes, child, history>>
    BY DEF Environment, Pause, Resume, Cancel, Control, LeaseRunsOut, vars, row
  <1>2. Types = Types' /\ Tidy = Tidy'
    BY <1>1 DEF Types, Tidy, Rested, Waiting, supervisor, pipes, child
  <1> QED
    BY <1>1, <1>2 DEF FreshInv, supervisor, history

\* Tools run for, and answers kept for, a claim are those of its own session, as
\* long as no child was kept in spite of a failed statement or of a cancellation
\* it did not acknowledge.
THEOREM WorkKeptIsFresh == Spec => WorkIsFresh
  <1>1. Init => FreshInv
    <2> SUFFICES ASSUME Init PROVE Types /\ phase = "spawning"
      BY DEF FreshInv
    <2>1. claims = [r \in Run |-> 0] /\ claims \in [Run -> Nat]
      BY DEF Init
    <2>2. stdin \in Seq(Lines) /\ stdout \in Seq(Lines)
      BY DEF Init
    <2> QED
      BY <2>1, <2>2, ConstantsOK DEF Init, Types, Phases, Busy
  <1>2. FreshInv /\ [Next]_vars => FreshInv'
    BY FreshSupervise, FreshConverse, FreshChild, FreshAround DEF Next
  <1>3. FreshInv /\ [Next]_vars => [\A u \in uses' \ uses : lapses = {} => u[1] = u[2]]_vars
    <2> SUFFICES ASSUME FreshInv, Next, lapses = {}, NEW u \in uses' \ uses
                 PROVE  u[1] = u[2]
      BY DEF Next
    <2>1. CASE CallTool
      <3>1. /\ phase = "driving" /\ stdout # <<>> /\ Hear
            /\ u = <<job, Head(stdout).of>>
        BY <2>1 DEF CallTool, Hears
      <3>2. Types /\ Tidy
        BY <3>1 DEF FreshInv
      <3> QED
        BY <3>1, <3>2, HearTidy
    <2>2. CASE KeepAnswer
      <3>1. phase = "keeping" /\ (uses' = uses \/ uses' = uses \cup {<<job, hand.of>>})
        BY <2>2 DEF KeepAnswer
      <3>2. u = <<job, hand.of>> /\ Tidy
        BY <3>1 DEF FreshInv
      <3> QED
        BY <3>1, <3>2 DEF Tidy
    <2>3. CASE IgnoreMessage \/ AnswerTool \/ ToolConflict \/ HearAnswer
               \/ HearFailure \/ HearBusy \/ HearCancelled \/ ChildGone
      BY <2>3 DEF IgnoreMessage, AnswerTool, ToolConflict, HearAnswer, HearFailure, HearBusy,
           HearCancelled, ChildGone, history
    <2>4. CASE Supervise
      BY <2>4 DEF Supervise, Spawn, NoticeDeath, SendRun, PrepareConflict, ClaimRun, Fail,
           LoseRun, Release, StatementFails, DrainMessage, DrainFails, DrainIgnored, history
    <2>5. CASE Child \/ Environment
      BY <2>5 DEF Child, ReadRun, ReadResult, ReadCancel, ModelCalls, ToolTimesOut, ModelAnswers,
           ModelFails, ModelCancelled, EndSession, ChildDies, Environment, Pause, Resume, Cancel,
           Control, LeaseRunsOut, history
    <2> QED
      BY <2>1, <2>2, <2>3, <2>4, <2>5 DEF Next, Converse
  <1> QED
    BY <1>1, <1>2, <1>3, PTL DEF Spec, WorkIsFresh
=============================================================================
