--------------------------- MODULE RunQueueProofs ---------------------------
(***************************************************************************)
(* Theorems about RunQueue, for every set of rows, conversations and        *)
(* supervisors and every value of the bounds.                               *)
(***************************************************************************)
EXTENDS RunQueue, TLAPS

-----------------------------------------------------------------------------
(* The rows a supervisor moves out of "running" by finish or release.       *)

\* finish keeps the types: it writes the row only for the current lease.
LEMMA FinishTypes ==
  ASSUME TypeOK, NEW w \in Worker, NEW next \in Statuses, NEW avail \in BOOLEAN,
         NEW code \in Causes, job[w] \in Run, Finish(w, next, avail, code)
  PROVE  /\ status' \in [Run -> Statuses] /\ attempt' \in [Run -> Nat]
         /\ token' \in [Run -> Token \cup {None}] /\ lease' \in [Run -> 0..LeaseSpan]
         /\ ready' \in [Run -> BOOLEAN] /\ cause' \in [Run -> Causes]
         /\ dismissed' = dismissed /\ interrupted' = interrupted
<1>1. CASE Owns(w)
  BY <1>1, ConstantsOK, SMT DEF Finish, SetRow, TypeOK
<1>2. CASE ~Owns(w)
  BY <1>2, SMT DEF Finish, TypeOK, rows
<1> QED BY <1>1, <1>2

\* release_for keeps the types: a running row has an attempt to give back.
LEMMA ReleaseTypes ==
  ASSUME TypeOK, LeaseInv, NEW w \in Worker, job[w] \in Run, ReleaseFor(w)
  PROVE  /\ status' \in [Run -> Statuses] /\ attempt' \in [Run -> Nat]
         /\ token' \in [Run -> Token \cup {None}] /\ lease' \in [Run -> 0..LeaseSpan]
         /\ ready' \in [Run -> BOOLEAN] /\ cause' \in [Run -> Causes]
         /\ dismissed' = dismissed /\ interrupted' = interrupted
<1>1. CASE HoldsToken(w)
  <2>1. attempt[job[w]] - 1 \in Nat
    BY <1>1, SMT DEF HoldsToken, LeaseInv, TypeOK
  <2>2. SetRow(job[w], "queued", attempt[job[w]] - 1, TRUE, cause[job[w]])
    BY <1>1 DEF ReleaseFor
  <2>3. "queued" \in Statuses /\ cause[job[w]] \in Causes /\ 0 \in 0..LeaseSpan
    BY ConstantsOK, SMT DEF Statuses, Active, TypeOK
  <2>4. dismissed' = dismissed /\ interrupted' = interrupted
    BY <1>1 DEF ReleaseFor
  <2> QED BY <2>1, <2>2, <2>3, <2>4, SMT DEF SetRow, TypeOK
<1>2. CASE ~HoldsToken(w)
  BY <1>2, SMT DEF ReleaseFor, TypeOK, rows
<1> QED BY <1>1, <1>2

\* A supervisor that leaves its run keeps the types of its own variables.
LEMMA LeaveTypes ==
  ASSUME TypeOK, NEW w \in Worker, Leave(w)
  PROVE  /\ phase' \in [Worker -> {"idle", "working", "recording"}]
         /\ job' \in [Worker -> Run \cup {None}]
         /\ jobToken' \in [Worker -> Token \cup {None}]
         /\ jobAttempt' \in [Worker -> Nat]
BY SMT DEF Leave, TypeOK

-----------------------------------------------------------------------------
(* One lemma for each kind of step that needs more than its definition.     *)

\* Inserting a queued row preserves the invariant: a fresh row has no token and no attempts.
LEMMA InsertStep ==
  ASSUME IInv, NEW r \in Run, Insert(r), UNCHANGED <<roles, pausing, locked, supervisors>>,
         starting' \in SUBSET Run
  PROVE  IInv'
BY ConstantsOK, SMT DEF IInv, TypeOK, HandInv, LeaseInv, FenceInv, BudgetInv, LockInv, Insert,
   roles, supervisors, Statuses, Active

\* A claim preserves the invariant: its token is in no row and no hand, and the
\* run it takes was claimable, so it has an attempt left.
LEMMA ClaimStep ==
  ASSUME IInv, NEW w \in Worker, NEW r \in Run, NEW t \in Token, ClaimInLane(w, r, t)
  PROVE  IInv'
<1> USE DEF IInv
<1>0. /\ Recovered(r) = "queued" /\ r \notin locked
      /\ \A s \in Run : token[s] # t
      /\ \A v \in Worker : jobToken[v] # t
      /\ t # None
  BY ConstantsOK, SMT DEF ClaimInLane, Preferred, Claimable, FreshTokens
<1>1. TypeOK'
  BY <1>0, ConstantsOK, SMT DEF TypeOK, ClaimInLane, Recovered, roles, transactions, Statuses,
     Active, Terminal, Causes
<1>2. HandInv'
  BY <1>0, ConstantsOK, SMT DEF TypeOK, HandInv, ClaimInLane
<1>3. LeaseInv'
  BY <1>0, ConstantsOK, SMT DEF TypeOK, LeaseInv, ClaimInLane, Recovered, Expired
<1>4. FenceInv'
  BY <1>0, ConstantsOK, SMT DEF TypeOK, HandInv, FenceInv, ClaimInLane
<1>5. BudgetInv'
  BY <1>0, ConstantsOK, SMT DEF TypeOK, BudgetInv, ClaimInLane, Recovered, Expired
<1>6. LockInv'
  BY <1>0, SMT DEF TypeOK, LockInv, ClaimInLane, RecoveryFree, Recovered, transactions
<1> QED BY <1>1, <1>2, <1>3, <1>4, <1>5, <1>6

\* Completing a run preserves the invariant.
LEMMA CompleteStep ==
  ASSUME IInv, NEW w \in Worker, Complete(w)
  PROVE  IInv'
<1> USE DEF IInv
<1>0. job[w] \in Run
  BY DEF HandInv, Complete
<1>1. TypeOK'
  <2>1. TRUE \in BOOLEAN /\ "completed" \in Statuses /\ None \in Causes
    BY DEF Statuses, Terminal, Causes
  <2>2. Finish(w, "completed", TRUE, None)
    BY DEF Complete
  <2>3. /\ phase' \in [Worker -> {"idle", "working", "recording"}]
        /\ job' \in [Worker -> Run \cup {None}]
        /\ jobToken' \in [Worker -> Token \cup {None}]
        /\ jobAttempt' \in [Worker -> Nat]
    BY LeaveTypes, SMT DEF Complete, TypeOK
  <2>4. UNCHANGED <<archived, enabled, monitoring, revision, checked, note, starting, pausing, locked>>
    BY DEF Complete, roles, transactions
  <2>5. /\ status' \in [Run -> Statuses] /\ attempt' \in [Run -> Nat]
        /\ token' \in [Run -> Token \cup {None}] /\ lease' \in [Run -> 0..LeaseSpan]
        /\ ready' \in [Run -> BOOLEAN] /\ cause' \in [Run -> Causes]
        /\ dismissed' = dismissed /\ interrupted' = interrupted
    BY <1>0, <2>1, <2>2, FinishTypes
  <2> QED BY <2>3, <2>4, <2>5 DEF TypeOK
<1>2. HandInv'
  BY <1>0, ConstantsOK, SMT DEF TypeOK, HandInv, LeaseInv, FenceInv, BudgetInv, LockInv, rows,
     transactions, Complete, Finish, SetRow, Owns, Unblocked, Leave
<1>3. LeaseInv'
  BY <1>0, ConstantsOK, SMT DEF TypeOK, HandInv, LeaseInv, FenceInv, BudgetInv, LockInv, rows,
     transactions, Complete, Finish, SetRow, Owns, Unblocked, Leave
<1>4. FenceInv'
  BY <1>0, ConstantsOK, SMT DEF TypeOK, HandInv, LeaseInv, FenceInv, BudgetInv, LockInv, rows,
     transactions, Complete, Finish, SetRow, Owns, Unblocked, Leave
<1>5. BudgetInv'
  BY <1>0, ConstantsOK, SMT DEF TypeOK, HandInv, LeaseInv, FenceInv, BudgetInv, LockInv, rows,
     transactions, Complete, Finish, SetRow, Owns, Unblocked, Leave
<1>6. LockInv'
  BY <1>0, ConstantsOK, SMT DEF TypeOK, HandInv, LeaseInv, FenceInv, BudgetInv, LockInv, rows,
     transactions, Complete, Finish, SetRow, Owns, Unblocked, Leave
<1> QED BY <1>1, <1>2, <1>3, <1>4, <1>5, <1>6

\* A failed attempt preserves the invariant: by FenceInv the attempt the supervisor
\* compares with MaxAttempts is the row's, so a run put back has an attempt left.
LEMMA FailStep ==
  ASSUME IInv, NEW w \in Worker, FailRun(w)
  PROVE  IInv'
<1> USE DEF IInv
<1>0. job[w] \in Run
  BY DEF HandInv, FailRun
<1>1. TypeOK'
  <2>1. /\ (IF Retries(w) THEN "queued" ELSE "failed") \in Statuses
        /\ (~Retries(w)) \in BOOLEAN /\ "run_error" \in Causes
    BY DEF Statuses, Active, Terminal, Causes
  <2>2. Finish(w, IF Retries(w) THEN "queued" ELSE "failed", ~Retries(w), "run_error") /\ Leave(w)
    BY DEF FailRun
  <2>3. UNCHANGED <<archived, enabled, monitoring, revision, checked, note, starting, pausing, locked>>
    BY DEF FailRun, roles, transactions
  <2>4. /\ status' \in [Run -> Statuses] /\ attempt' \in [Run -> Nat]
        /\ token' \in [Run -> Token \cup {None}] /\ lease' \in [Run -> 0..LeaseSpan]
        /\ ready' \in [Run -> BOOLEAN] /\ cause' \in [Run -> Causes]
        /\ dismissed' = dismissed /\ interrupted' = interrupted
    BY <1>0, <2>1, <2>2, FinishTypes
  <2>5. /\ phase' \in [Worker -> {"idle", "working", "recording"}]
        /\ job' \in [Worker -> Run \cup {None}]
        /\ jobToken' \in [Worker -> Token \cup {None}]
        /\ jobAttempt' \in [Worker -> Nat]
    BY <2>2, LeaveTypes
  <2> QED BY <2>3, <2>4, <2>5 DEF TypeOK
<1>2. HandInv'
  BY <1>0, ConstantsOK, SMT DEF TypeOK, HandInv, LeaseInv, FenceInv, BudgetInv, LockInv, rows,
     transactions, FailRun, Finish, SetRow, Owns, Unblocked, Leave, Retries
<1>3. LeaseInv'
  BY <1>0, ConstantsOK, SMT DEF TypeOK, HandInv, LeaseInv, FenceInv, BudgetInv, LockInv, rows,
     transactions, FailRun, Finish, SetRow, Owns, Unblocked, Leave, Retries
<1>4. FenceInv'
  BY <1>0, ConstantsOK, SMT DEF TypeOK, HandInv, LeaseInv, FenceInv, BudgetInv, LockInv, rows,
     transactions, FailRun, Finish, SetRow, Owns, Unblocked, Leave, Retries
<1>5. BudgetInv'
  BY <1>0, ConstantsOK, SMT DEF TypeOK, HandInv, LeaseInv, FenceInv, BudgetInv, LockInv, rows,
     transactions, FailRun, Finish, SetRow, Owns, Unblocked, Leave, Retries
<1>6. LockInv'
  BY <1>0, ConstantsOK, SMT DEF TypeOK, HandInv, LeaseInv, FenceInv, BudgetInv, LockInv, rows,
     transactions, FailRun, Finish, SetRow, Owns, Unblocked, Leave, Retries
<1> QED BY <1>1, <1>2, <1>3, <1>4, <1>5, <1>6

\* Giving a run back preserves the invariant: the attempt it returns was the row's.
LEMMA ReleaseStep ==
  ASSUME IInv, NEW w \in Worker, phase[w] = "working", ReleaseFor(w)
  PROVE  IInv'
<1> USE DEF IInv
<1>0. job[w] \in Run
  BY DEF HandInv
<1>1. TypeOK'
  <2>1. UNCHANGED <<archived, enabled, monitoring, revision, checked, note, starting, pausing, locked>>
    BY DEF ReleaseFor, roles, transactions
  <2>2. /\ status' \in [Run -> Statuses] /\ attempt' \in [Run -> Nat]
        /\ token' \in [Run -> Token \cup {None}] /\ lease' \in [Run -> 0..LeaseSpan]
        /\ ready' \in [Run -> BOOLEAN] /\ cause' \in [Run -> Causes]
        /\ dismissed' = dismissed /\ interrupted' = interrupted
    BY <1>0, ReleaseTypes
  <2>3. /\ phase' \in [Worker -> {"idle", "working", "recording"}]
        /\ job' \in [Worker -> Run \cup {None}]
        /\ jobToken' \in [Worker -> Token \cup {None}]
        /\ jobAttempt' \in [Worker -> Nat]
    BY LeaveTypes DEF ReleaseFor
  <2> QED BY <2>1, <2>2, <2>3 DEF TypeOK
<1>2. HandInv'
  BY <1>0, ConstantsOK, SMT DEF TypeOK, HandInv, LeaseInv, FenceInv, BudgetInv, LockInv, rows,
     transactions, ReleaseFor, HoldsToken, SetRow, Unblocked, Leave
<1>3. LeaseInv'
  BY <1>0, ConstantsOK, SMT DEF TypeOK, HandInv, LeaseInv, FenceInv, BudgetInv, LockInv, rows,
     transactions, ReleaseFor, HoldsToken, SetRow, Unblocked, Leave
<1>4. FenceInv'
  BY <1>0, ConstantsOK, SMT DEF TypeOK, HandInv, LeaseInv, FenceInv, BudgetInv, LockInv, rows,
     transactions, ReleaseFor, HoldsToken, SetRow, Unblocked, Leave
<1>5. BudgetInv'
  BY <1>0, ConstantsOK, SMT DEF TypeOK, HandInv, LeaseInv, FenceInv, BudgetInv, LockInv, rows,
     transactions, ReleaseFor, HoldsToken, SetRow, Unblocked, Leave
<1>6. LockInv'
  BY <1>0, ConstantsOK, SMT DEF TypeOK, HandInv, LeaseInv, FenceInv, BudgetInv, LockInv, rows,
     transactions, ReleaseFor, HoldsToken, SetRow, Unblocked, Leave
<1> QED BY <1>1, <1>2, <1>3, <1>4, <1>5, <1>6

\* The commit of a procurement pause preserves the invariant: by LockInv it moves
\* rows that are still queued or running, and gives the running ones an attempt back.
LEMMA CommitStep ==
  ASSUME IInv, CommitProcurementPause
  PROVE  IInv'
<1> USE DEF IInv
<1>1. TypeOK'
  <2>1. \A r \in Run : Refunded(r) \in Nat
    BY SMT DEF Refunded, LeaseInv, TypeOK
  <2>2. status' \in [Run -> Statuses] /\ attempt' \in [Run -> Nat]
    BY <2>1, SMT DEF TypeOK, CommitProcurementPause, Statuses, Active
  <2>3. /\ token' \in [Run -> Token \cup {None}] /\ lease' \in [Run -> 0..LeaseSpan]
        /\ cause' \in [Run -> Causes]
    BY ConstantsOK, SMT DEF TypeOK, CommitProcurementPause, Causes
  <2>4. UNCHANGED <<ready, dismissed, interrupted, archived, monitoring, revision, checked, note,
                    starting, phase, job, jobToken, jobAttempt>>
    BY DEF CommitProcurementPause, supervisors
  <2>5. enabled' \in BOOLEAN /\ pausing' \in BOOLEAN /\ locked' \in SUBSET Run
    BY DEF CommitProcurementPause
  <2> QED BY <2>2, <2>3, <2>4, <2>5 DEF TypeOK
<1>2. HandInv' /\ LeaseInv' /\ FenceInv' /\ BudgetInv' /\ LockInv'
  BY ConstantsOK, SMT DEF TypeOK, HandInv, LeaseInv, FenceInv, BudgetInv, LockInv,
     CommitProcurementPause, Refunded, supervisors
<1> QED BY <1>1, <1>2

\* Resuming procurement preserves the invariant.
LEMMA ResumeProcurementStep ==
  ASSUME IInv, ResumeProcurement
  PROVE  IInv'
<1> USE DEF IInv
<1>1. TypeOK'
  <2>1. status' \in [Run -> Statuses]
    BY SMT DEF TypeOK, ResumeProcurement, Statuses, Active
  <2>2. ready' \in [Run -> BOOLEAN]
    <3>1. \A r \in Run : (IF HeldBySwitch(r) THEN TRUE ELSE ready[r]) \in BOOLEAN
      BY DEF TypeOK
    <3> QED BY <3>1, Zenon DEF ResumeProcurement
  <2>3. cause' \in [Run -> Causes]
    BY SMT DEF TypeOK, ResumeProcurement, Causes
  <2>4. UNCHANGED <<attempt, token, lease, dismissed, interrupted, archived, monitoring, revision,
                    checked, note, starting, pausing, locked, phase, job, jobToken, jobAttempt>>
    BY DEF ResumeProcurement, transactions, supervisors
  <2>5. enabled' \in BOOLEAN
    BY DEF ResumeProcurement
  <2> QED BY <2>1, <2>2, <2>3, <2>4, <2>5 DEF TypeOK
<1>2. HandInv' /\ LeaseInv' /\ FenceInv' /\ BudgetInv' /\ LockInv'
  BY ConstantsOK, SMT DEF TypeOK, HandInv, LeaseInv, FenceInv, BudgetInv, LockInv,
     ResumeProcurement, HeldBySwitch, transactions, supervisors
<1> QED BY <1>1, <1>2

\* A procurement pause that does not commit preserves the invariant.
LEMMA AbortStep ==
  ASSUME IInv, AbortProcurementPause
  PROVE  IInv'
<1> USE DEF IInv
<1>1. TypeOK'
  <2>1. UNCHANGED <<status, attempt, token, lease, ready, cause, dismissed, interrupted>>
    BY DEF AbortProcurementPause, rows
  <2>2. UNCHANGED <<archived, enabled, monitoring, revision, checked, note, starting>>
    BY DEF AbortProcurementPause, roles
  <2>3. UNCHANGED <<phase, job, jobToken, jobAttempt>>
    BY DEF AbortProcurementPause, supervisors
  <2>4. pausing' \in BOOLEAN /\ locked' \in SUBSET Run
    BY DEF AbortProcurementPause
  <2> QED BY <2>1, <2>2, <2>3, <2>4 DEF TypeOK
<1>2. HandInv' /\ LeaseInv' /\ FenceInv' /\ BudgetInv' /\ LockInv'
  BY SMT DEF HandInv, LeaseInv, FenceInv, BudgetInv, LockInv, AbortProcurementPause, rows,
     supervisors
<1> QED BY <1>1, <1>2
-----------------------------------------------------------------------------
(* The induction.                                                            *)

\* The empty queue satisfies the invariant.
LEMMA InitIInv == Init => IInv
<1> SUFFICES ASSUME Init PROVE IInv
  OBVIOUS
<1>1. TypeOK
  <2>1. 0 \in 0..LeaseSpan /\ 0 \in 0..MaxInterrupts /\ 0 \in 0..MaxRevision /\ -1 \in -1..MaxRevision
    BY ConstantsOK, SMT
  <2>2. "absent" \in Statuses /\ None \in Causes
    BY DEF Statuses, Causes
  <2> QED BY <2>1, <2>2, Zenon DEF Init, TypeOK
<1>2. HandInv /\ LeaseInv /\ FenceInv /\ BudgetInv /\ LockInv
  BY ConstantsOK, SMT DEF Init, HandInv, LeaseInv, FenceInv, BudgetInv, LockInv
<1> QED BY <1>1, <1>2 DEF IInv

\* A request preserves the invariant.
LEMMA RequestSteps ==
  ASSUME IInv, Requests
  PROVE  IInv'
<1> SUFFICES ASSUME NEW r \in Run,
                    \/ Enqueue(r) \/ EnqueueReply(r)
                    \/ BeginResearch(r) \/ InsertResearch(r) \/ ContinueSearch(r)
             PROVE  IInv'
  BY DEF Requests
<1>0. starting \in SUBSET Run
  BY DEF IInv, TypeOK
<1>1. CASE Enqueue(r)
  BY <1>0, <1>1, InsertStep DEF Enqueue, transactions
<1>2. CASE EnqueueReply(r)
  BY <1>0, <1>2, InsertStep DEF EnqueueReply, transactions
<1>3. CASE ContinueSearch(r)
  BY <1>0, <1>3, InsertStep DEF ContinueSearch, transactions
<1>4. CASE BeginResearch(r)
  BY <1>4, SMT DEF IInv, TypeOK, HandInv, LeaseInv, FenceInv, BudgetInv, LockInv, BeginResearch,
     rows, roles, supervisors
<1>5. CASE InsertResearch(r)
  <2>1. CASE Insert(r)
    BY <1>0, <1>5, <2>1, InsertStep DEF InsertResearch
  <2>2. CASE UNCHANGED rows
    BY <1>5, <2>2, SMT DEF IInv, TypeOK, HandInv, LeaseInv, FenceInv, BudgetInv, LockInv,
       InsertResearch, rows, roles, supervisors
  <2> QED BY <1>5, <2>1, <2>2 DEF InsertResearch
<1> QED BY <1>1, <1>2, <1>3, <1>4, <1>5

\* What a supervisor does preserves the invariant.
LEMMA SuperviseSteps ==
  ASSUME IInv, NEW w \in Worker, Supervise(w) \/ Interruption(w)
  PROVE  IInv'
<1> USE DEF IInv
<1>1. CASE \E r \in Run, t \in Token : ClaimInLane(w, r, t)
  BY <1>1, ClaimStep
<1>2. CASE RecoverOnly(w)
  BY <1>2, ConstantsOK, SMTT(20) DEF TypeOK, HandInv, LeaseInv, FenceInv, BudgetInv, LockInv,
     RecoverOnly, RecoveryFree, Recovered, Expired, roles, transactions, supervisors, Statuses,
     Active, Terminal, Causes
<1>3. CASE Heartbeat(w)
  BY <1>3, ConstantsOK, SMTT(20) DEF TypeOK, HandInv, LeaseInv, FenceInv, BudgetInv, LockInv,
     Heartbeat, Owns, roles, transactions, supervisors
<1>4. CASE Complete(w)
  BY <1>4, CompleteStep
<1>5. CASE RecordReview(w)
  BY <1>5, ConstantsOK, SMTT(20) DEF TypeOK, HandInv, LeaseInv, FenceInv, BudgetInv, LockInv,
     RecordReview, Leave, rows, transactions
<1>6. CASE FailRun(w)
  BY <1>6, FailStep
<1>7. CASE LoseRun(w) \/ ToolConflict(w) \/ Crash(w)
  <2>1. Leave(w) /\ UNCHANGED <<rows, roles, transactions>>
    BY <1>7 DEF LoseRun, ToolConflict, Crash
  <2> QED BY <2>1, ConstantsOK, SMTT(20) DEF TypeOK, HandInv, LeaseInv, FenceInv, BudgetInv,
             LockInv, Leave, rows, roles, transactions
<1>8. CASE YieldToChat(w) \/ StopRun(w)
  BY <1>8, ReleaseStep DEF YieldToChat, StopRun
<1>9. CASE CancelStale(w)
  <2>0. job[w] \in Run
    BY <1>9 DEF HandInv, CancelStale
  <2>1. TypeOK'
    <3>1. "cancelled" \in Statuses /\ 0 \in 0..LeaseSpan
      BY ConstantsOK, SMT DEF Statuses, Terminal
    <3>2. /\ status' \in [Run -> Statuses] /\ attempt' \in [Run -> Nat]
          /\ token' \in [Run -> Token \cup {None}] /\ lease' \in [Run -> 0..LeaseSpan]
          /\ ready' \in [Run -> BOOLEAN] /\ cause' \in [Run -> Causes]
          /\ dismissed' = dismissed /\ interrupted' = interrupted
      BY <1>9, <2>0, <3>1, SMT DEF CancelStale, SetRow, rows, TypeOK
    <3>3. UNCHANGED <<archived, enabled, monitoring, revision, checked, note, starting, pausing,
                      locked>>
      BY <1>9 DEF CancelStale, roles, transactions
    <3> QED BY <1>9, <3>2, <3>3, LeaveTypes DEF CancelStale, TypeOK
  <2>2. HandInv' /\ LeaseInv' /\ FenceInv'
    BY <1>9, <2>0, ConstantsOK, SMT DEF TypeOK, HandInv, LeaseInv, FenceInv, CancelStale, SetRow,
       Leave, rows, Active
  <2>3. BudgetInv' /\ LockInv'
    BY <1>9, <2>0, ConstantsOK, SMT DEF TypeOK, BudgetInv, LockInv, CancelStale, SetRow, rows,
       transactions, ProcurementKinds
  <2> QED BY <2>1, <2>2, <2>3
<1>10. CASE \E r \in Run : DispatchFromChat(w, r)
  BY <1>10, InsertStep DEF DispatchFromChat, transactions, TypeOK
<1> QED BY <1>1, <1>2, <1>3, <1>4, <1>5, <1>6, <1>7, <1>8, <1>9, <1>10
        DEF Supervise, Interruption, Claim, Conclude

\* What an operator does preserves the invariant.
LEMMA OperateSteps ==
  ASSUME IInv, Operate
  PROVE  IInv'
<1> USE DEF IInv
<1>1. ASSUME NEW r \in Run, Pause(r) PROVE IInv'
  BY <1>1, ConstantsOK, SMTT(20) DEF TypeOK, HandInv, LeaseInv, FenceInv, BudgetInv, LockInv,
     Pause, Controllable, SetRow, roles, transactions, supervisors, Statuses, Active
<1>2. ASSUME NEW r \in Run, Resume(r) PROVE IInv'
  BY <1>2, ConstantsOK, SMTT(20) DEF TypeOK, HandInv, LeaseInv, FenceInv, BudgetInv, LockInv,
     Resume, Controllable, SetRow, roles, transactions, supervisors, Statuses, Active
<1>3. ASSUME NEW r \in Run, Cancel(r) PROVE IInv'
  BY <1>3, ConstantsOK, SMTT(20) DEF TypeOK, HandInv, LeaseInv, FenceInv, BudgetInv, LockInv,
     Cancel, Controllable, SetRow, roles, transactions, supervisors, Statuses, Active, Terminal
<1>4. ASSUME NEW r \in Run, Discard(r) PROVE IInv'
  BY <1>4, ConstantsOK, SMTT(20) DEF TypeOK, HandInv, LeaseInv, FenceInv, BudgetInv, LockInv,
     Discard, SetRow, roles, transactions, supervisors, Statuses, Active, Terminal
<1>5. ASSUME NEW c \in Conversation, Archive(c) PROVE IInv'
  BY <1>5, ConstantsOK, SMTT(20) DEF TypeOK, HandInv, LeaseInv, FenceInv, BudgetInv, LockInv,
     Archive, Unfinished, transactions, supervisors, Statuses, Active, Terminal,
     Kinds, ProcurementKinds
<1>6. CASE BeginProcurementPause
  BY <1>6, SMTT(20) DEF TypeOK, HandInv, LeaseInv, FenceInv, BudgetInv, LockInv,
     BeginProcurementPause, rows, roles, supervisors
<1>7. CASE ResumeProcurement
  BY <1>7, ResumeProcurementStep
<1>8. CASE SwitchMonitoring
  BY <1>8, SMTT(20) DEF TypeOK, HandInv, LeaseInv, FenceInv, BudgetInv, LockInv,
     SwitchMonitoring, rows, transactions, supervisors
<1> QED BY <1>1, <1>2, <1>3, <1>4, <1>5, <1>6, <1>7, <1>8 DEF Operate

\* The monitor and the clock preserve the invariant.
LEMMA MonitorTimeSteps ==
  ASSUME IInv, Monitor \/ Time
  PROVE  IInv'
<1> USE DEF IInv
<1>1. CASE DataChange
  BY <1>1, ConstantsOK, SMTT(20) DEF TypeOK, HandInv, LeaseInv, FenceInv, BudgetInv, LockInv,
     DataChange, rows, transactions, supervisors
<1>2. ASSUME NEW review \in BOOLEAN, CheckInventory(review) PROVE IInv'
  BY <1>2, ConstantsOK, SMTT(20) DEF TypeOK, HandInv, LeaseInv, FenceInv, BudgetInv, LockInv,
     CheckInventory, Superseded, ReviewOf, transactions, supervisors, Kinds, ProcurementKinds,
     Statuses, Active, Terminal, Causes
<1>3. ASSUME NEW r \in Run, LeaseRunsDown(r) PROVE IInv'
  BY <1>3, ConstantsOK, SMTT(20) DEF TypeOK, HandInv, LeaseInv, FenceInv, BudgetInv, LockInv,
     LeaseRunsDown, roles, transactions, supervisors
<1>4. ASSUME NEW r \in Run, BackoffElapses(r) PROVE IInv'
  BY <1>4, SMTT(20) DEF TypeOK, HandInv, LeaseInv, FenceInv, BudgetInv, LockInv,
     BackoffElapses, roles, transactions, supervisors
<1> QED BY <1>1, <1>2, <1>3, <1>4 DEF Monitor, Time

\* Every step preserves the invariant.
LEMMA NextIInv ==
  ASSUME IInv, [Next]_vars
  PROVE  IInv'
<1>1. CASE Requests
  BY <1>1, RequestSteps
<1>2. CASE \E w \in Worker : Supervise(w) \/ Interruption(w)
  BY <1>2, SuperviseSteps
<1>3. CASE Operate
  BY <1>3, OperateSteps
<1>4. CASE PauseTransaction
  BY <1>4, CommitStep, AbortStep DEF PauseTransaction
<1>5. CASE Monitor \/ Time
  BY <1>5, MonitorTimeSteps
<1>6. CASE UNCHANGED vars
  BY <1>6 DEF IInv, TypeOK, HandInv, LeaseInv, FenceInv, BudgetInv, LockInv, vars, rows, roles,
     transactions, supervisors
<1> QED BY <1>1, <1>2, <1>3, <1>4, <1>5, <1>6 DEF Next, Operation

\* The inductive invariant holds in every reachable state of the queue.
THEOREM Inductive == Spec => []IInv
BY InitIInv, NextIInv, PTL DEF Spec

\* Every variable keeps its type.
THEOREM TypeCorrect == Spec => []TypeOK
<1>1. IInv => TypeOK
  BY DEF IInv
<1> QED BY <1>1, Inductive, PTL

\* Two supervisors never both hold the current lease of one run.
THEOREM Fencing == Spec => []OneOwner
<1>1. IInv => OneOwner
  BY ConstantsOK DEF IInv, TypeOK, HandInv, LeaseInv, FenceInv, OneOwner, Owns
<1> QED BY <1>1, Inductive, PTL

\* A supervisor that holds the lease decides retries by the row's own attempt.
THEOREM ClaimedAttempt == Spec => []ClaimedAttemptIsCurrent
<1>1. IInv => ClaimedAttemptIsCurrent
  BY ConstantsOK DEF IInv, TypeOK, HandInv, LeaseInv, FenceInv, ClaimedAttemptIsCurrent, Owns
<1> QED BY <1>1, Inductive, PTL

\* No run is started more often than max_attempts plus its operator pauses.
THEOREM RetryBound == Spec => []RetriesBounded
<1>1. IInv => RetriesBounded
  BY DEF IInv, BudgetInv, RetriesBounded
<1> QED BY <1>1, Inductive, PTL

-----------------------------------------------------------------------------
(* The queue implements RunLifecycle.                                        *)

\* Every row keeps its status, or is active and stays so or ends, or is
\* background work that starts: a step of Progress.
Moves(r) ==
  \/ status'[r] = status[r]
  \/ status[r] \in Active /\ status'[r] \in Active \cup Terminal
  \/ Kind[r] # "chat" /\ status[r] = "absent" /\ status'[r] = "queued"

\* Requests other than a chat's, and everything supervisors, operators, the
\* monitor and the clock do short of archiving a conversation, move rows so.
LEMMA MovesStep ==
  ASSUME IInv, [Next]_vars,
         ~\E c \in Conversation : Archive(c), ~\E r \in Run : Enqueue(r)
  PROVE  (\A r \in Run : Moves(r)) /\ archived' = archived
<1> USE DEF Moves, Active, Terminal
<1>1. ASSUME NEW s \in Run, Insert(s), Kind[s] # "chat" PROVE \A r \in Run : Moves(r)
  BY <1>1, SMT DEF Insert, IInv, TypeOK
<1>2. CASE Requests
  <2>1. PICK r \in Run : EnqueueReply(r) \/ BeginResearch(r) \/ InsertResearch(r) \/ ContinueSearch(r)
    BY <1>2 DEF Requests
  <2>2. archived' = archived
    BY <2>1 DEF EnqueueReply, BeginResearch, InsertResearch, ContinueSearch, roles
  <2>3. CASE EnqueueReply(r) \/ ContinueSearch(r)
    BY <1>1, <2>2, <2>3 DEF EnqueueReply, ContinueSearch
  <2>4. CASE BeginResearch(r)
    BY <2>2, <2>4 DEF BeginResearch, rows
  <2>5. CASE InsertResearch(r)
    BY <1>1, <2>2, <2>5 DEF InsertResearch, rows
  <2> QED BY <2>1, <2>3, <2>4, <2>5
<1>3. ASSUME NEW w \in Worker, Supervise(w) \/ Interruption(w)
      PROVE  (\A r \in Run : Moves(r)) /\ archived' = archived
  <2>1. CASE Claim(w)
    BY <2>1, SMT DEF Claim, ClaimInLane, RecoverOnly, Preferred, Claimable, Recovered, Expired,
       roles, IInv, TypeOK
  <2>2. CASE Heartbeat(w) \/ LoseRun(w) \/ ToolConflict(w) \/ Crash(w) \/ RecordReview(w)
    BY <2>2, SMT DEF Heartbeat, LoseRun, ToolConflict, Crash, RecordReview, rows, roles
  <2>3. CASE Complete(w) \/ FailRun(w)
    BY <2>3, SMT DEF Complete, FailRun, Finish, Owns, SetRow, rows, roles, IInv, TypeOK
  <2>4. CASE YieldToChat(w) \/ StopRun(w)
    BY <2>4, SMT DEF YieldToChat, StopRun, ReleaseFor, HoldsToken, SetRow, rows, roles, IInv,
       TypeOK
  <2>5. CASE CancelStale(w)
    BY <2>5, SMT DEF CancelStale, SetRow, rows, roles, IInv, TypeOK
  <2>6. CASE \E s \in Run : DispatchFromChat(w, s)
    BY <1>1, <2>6 DEF DispatchFromChat, roles
  <2> QED BY <1>3, <2>1, <2>2, <2>3, <2>4, <2>5, <2>6 DEF Supervise, Interruption, Conclude
<1>4. CASE Operate
  <2>1. ASSUME NEW r \in Run, Pause(r) \/ Resume(r) \/ Cancel(r) \/ Discard(r)
        PROVE  (\A s \in Run : Moves(s)) /\ archived' = archived
    <3>1. CASE Pause(r)
      BY <3>1, SMT DEF Pause, SetRow, roles, IInv, TypeOK
    <3>2. CASE Resume(r)
      BY <3>2, SMT DEF Resume, SetRow, roles, IInv, TypeOK
    <3>3. CASE Cancel(r)
      BY <3>3, SMT DEF Cancel, SetRow, roles, IInv, TypeOK
    <3>4. CASE Discard(r)
      <4>1. SetRow(r, IF status[r] \in Active THEN "cancelled" ELSE status[r], attempt[r], ready[r],
                   cause[r])
        BY <3>4 DEF Discard
      <4>2. \A s \in Run : s # r => status'[s] = status[s]
        BY <4>1, SMT DEF SetRow, IInv, TypeOK
      <4>3. status'[r] = IF status[r] \in Active THEN "cancelled" ELSE status[r]
        BY <4>1, SMT DEF SetRow, IInv, TypeOK
      <4> QED BY <3>4, <4>2, <4>3, SMT DEF Discard, roles
    <3> QED BY <2>1, <3>1, <3>2, <3>3, <3>4
  <2>2. CASE BeginProcurementPause \/ SwitchMonitoring
    BY <2>2 DEF BeginProcurementPause, SwitchMonitoring, rows, roles
  <2>3. CASE ResumeProcurement
    BY <2>3, SMT DEF ResumeProcurement, HeldBySwitch, IInv, TypeOK
  <2> QED BY <1>4, <2>1, <2>2, <2>3 DEF Operate
<1>5. CASE PauseTransaction
  BY <1>5, SMT DEF PauseTransaction, CommitProcurementPause, AbortProcurementPause, rows, roles,
     IInv, TypeOK, LockInv
<1>6. CASE Monitor
  BY <1>6, SMT DEF Monitor, DataChange, CheckInventory, Superseded, ReviewOf, rows, roles, IInv,
     TypeOK
<1>7. CASE Time
  BY <1>7, SMT DEF Time, LeaseRunsDown, BackoffElapses, roles
<1>8. CASE UNCHANGED vars
  BY <1>8 DEF vars, rows, roles
<1> QED BY <1>2, <1>3, <1>4, <1>5, <1>6, <1>7, <1>8 DEF Next, Operation

\* Every step of the queue is a step of RunLifecycle, or leaves it alone.
LEMMA StepRefines ==
  ASSUME IInv, [Next]_vars
  PROVE  [Lifecycle!Next]_(Lifecycle!vars)
<1> USE DEF IInv
<1>0. /\ Outcome' = [r \in Run |-> IF status'[r] \in Active THEN "open" ELSE status'[r]]
      /\ \A r \in Run : Outcome[r] = IF status[r] \in Active THEN "open" ELSE status[r]
      /\ \A r \in Run : Outcome'[r] = IF status'[r] \in Active THEN "open" ELSE status'[r]
      /\ "open" \notin Statuses /\ TypeOK /\ TypeOK'
  BY NextIInv DEF Outcome, Statuses, Active, Terminal
<1>1. ASSUME NEW c \in Conversation, Archive(c) PROVE Lifecycle!Close(c)
  <2>1. archived' = archived \cup {c}
    BY <1>1 DEF Archive
  <2>2. \A r \in Run : Outcome'[r] = IF Conv[r] = c /\ Outcome[r] = "open" THEN "cancelled"
                                     ELSE Outcome[r]
    BY <1>0, <1>1 DEF Archive, Unfinished, Active, Statuses, Terminal, TypeOK
  <2>3. Outcome' = [r \in Run |-> IF Conv[r] = c /\ Outcome[r] = "open" THEN "cancelled"
                                  ELSE Outcome[r]]
    BY <1>0, <2>2, Zenon
  <2> QED BY <2>1, <2>3 DEF Lifecycle!Close
<1>2. ASSUME NEW r \in Run, Enqueue(r) PROVE Lifecycle!Submit(r)
  <2>1. Outcome[r] = "absent" /\ Conv[r] \notin archived /\ archived' = archived
    BY <1>0, <1>2 DEF Enqueue, Insert, roles, Active
  <2>2. \A s \in Run : Conv[s] = Conv[r] => Outcome[s] # "open"
    BY <1>0, <1>2 DEF Enqueue, Busy, TypeOK
  <2>3. \A s \in Run : Outcome'[s] = IF s = r THEN "open" ELSE Outcome[s]
    BY <1>0, <1>2 DEF Enqueue, Insert, Active, TypeOK
  <2>4. Outcome' = [Outcome EXCEPT ![r] = "open"]
    BY <1>0, <2>3, Zenon DEF Outcome
  <2> QED BY <2>1, <2>2, <2>4 DEF Lifecycle!Submit
<1>3. CASE (~\E c \in Conversation : Archive(c)) /\ ~\E r \in Run : Enqueue(r)
  <2>1. (\A r \in Run : Moves(r)) /\ archived' = archived
    BY <1>3, MovesStep
  <2>2. Outcome' \in [Run -> {"absent", "open"} \cup Lifecycle!Outcomes]
    BY <1>0, SMT DEF TypeOK, Statuses, Active, Terminal, Lifecycle!Outcomes
  <2>3. ASSUME NEW r \in Run
        PROVE  Outcome'[r] = Outcome[r] \/ Lifecycle!Settles(r) \/ Lifecycle!Starts(r)
    <3>1. Kind[r] # "chat" => Conv[r] = None
      BY ConstantsOK
    <3> QED BY <1>0, <2>1, <3>1, SMT DEF Moves, Lifecycle!Settles, Lifecycle!Starts,
            Lifecycle!Outcomes, Active, Terminal, Statuses, TypeOK
  <2> QED BY <2>1, <2>2, <2>3 DEF Lifecycle!Next, Lifecycle!Progress
<1> QED BY <1>1, <1>2, <1>3 DEF Lifecycle!Next

\* The queue implements RunLifecycle: one outcome per run, one open run per
\* conversation, none in an archived one.
THEOREM Implements == Spec => ImplementsLifecycle
<1>1. Init => Lifecycle!Init
  BY SMT DEF Init, Outcome, Lifecycle!Init, Active
<1>2. IInv /\ [Next]_vars => [Lifecycle!Next]_(Lifecycle!vars)
  BY StepRefines
<1> QED BY <1>1, <1>2, Inductive, PTL DEF Spec, ImplementsLifecycle, Lifecycle!Spec

-----------------------------------------------------------------------------
(* What follows for the rows themselves.                                     *)

\* A row that becomes active was inserted by this step; if it is a chat, by the
\* request that found its conversation open and idle.
LEMMA Activation ==
  ASSUME IInv, [Next]_vars, NEW r \in Run, status'[r] \in Active, status[r] \notin Active
  PROVE  status[r] = "absent" /\ (Kind[r] = "chat" => Enqueue(r))
<1>1. ASSUME NEW s \in Run, Enqueue(s) PROVE r = s
  BY <1>1, SMT DEF Enqueue, Insert, IInv, TypeOK
<1>2. ASSUME NEW c \in Conversation, Archive(c) PROVE FALSE
  BY <1>2, SMT DEF Archive, Unfinished, Active, IInv, TypeOK
<1>3. CASE ~\E s \in Run : Enqueue(s)
  BY <1>2, <1>3, MovesStep, SMT DEF Moves
<1> QED BY <1>1, <1>3 DEF Enqueue, Insert

\* A finished run keeps its outcome.
LEMMA FinalStep ==
  ASSUME IInv, [Next]_vars, NEW r \in Run, status[r] \in Terminal
  PROVE  status'[r] = status[r]
<1>1. status[r] \notin Active /\ status[r] # "absent"
  BY DEF Active, Terminal
<1>2. ASSUME NEW s \in Run, Enqueue(s) PROVE status'[r] = status[r]
  BY <1>1, <1>2, SMT DEF Enqueue, Insert, IInv, TypeOK
<1>3. ASSUME NEW c \in Conversation, Archive(c) PROVE status'[r] = status[r]
  BY <1>1, <1>3, SMT DEF Archive, Unfinished, IInv, TypeOK
<1>4. CASE (~\E c \in Conversation : Archive(c)) /\ ~\E s \in Run : Enqueue(s)
  BY <1>1, <1>4, MovesStep DEF Moves
<1> QED BY <1>2, <1>3, <1>4

\* A finished run never changes its outcome.
THEOREM Final == Spec => TerminalIsFinal
<1>1. IInv /\ [Next]_vars
        => [\A r \in Run : status[r] \in Terminal => status'[r] = status[r]]_vars
  BY FinalStep
<1> QED BY <1>1, Inductive, PTL DEF Spec, TerminalIsFinal

\* A conversation never has two unfinished runs.
THEOREM OneActive == Spec => []OneActivePerConversation
<1>1. Init => OneActivePerConversation
  BY SMT DEF Init, OneActivePerConversation, Active
<1>2. IInv /\ OneActivePerConversation /\ [Next]_vars => OneActivePerConversation'
  <2> SUFFICES ASSUME IInv, OneActivePerConversation, [Next]_vars,
                      NEW r \in Run, NEW s \in Run, r # s, Conv[r] # None, Conv[r] = Conv[s],
                      status'[r] \in Active, status'[s] \in Active
               PROVE  FALSE
    BY DEF OneActivePerConversation
  <2>0. Kind[r] = "chat" /\ Kind[s] = "chat"
    BY ConstantsOK
  <2>1. ASSUME NEW x \in Run, NEW y \in Run, x # y, Conv[x] = Conv[y], Enqueue(x)
        PROVE  status'[y] \notin Active
    BY <2>1, SMT DEF Enqueue, Busy, Insert, IInv, TypeOK
  <2>2. CASE status[r] \in Active /\ status[s] \in Active
    BY <2>2 DEF OneActivePerConversation
  <2>3. CASE status[r] \notin Active
    BY <2>0, <2>1, <2>3, Activation
  <2>4. CASE status[s] \notin Active
    BY <2>0, <2>1, <2>4, Activation
  <2> QED BY <2>2, <2>3, <2>4
<1> QED BY <1>1, <1>2, Inductive, PTL DEF Spec

\* An archived conversation has no unfinished run.
THEOREM Quiet == Spec => []ArchivedIsQuiet
<1>1. Init => ArchivedIsQuiet
  BY DEF Init, ArchivedIsQuiet
<1>2. IInv /\ ArchivedIsQuiet /\ [Next]_vars => ArchivedIsQuiet'
  <2> SUFFICES ASSUME IInv, ArchivedIsQuiet, [Next]_vars,
                      NEW r \in Run, Conv[r] \in archived', status'[r] \in Active
               PROVE  FALSE
    BY DEF ArchivedIsQuiet
  <2>1. ASSUME NEW c \in Conversation, Archive(c) PROVE FALSE
    BY <2>1, SMT DEF Archive, Unfinished, Active, ArchivedIsQuiet, IInv, TypeOK
  <2>2. archived' = archived
    BY <2>1, MovesStep DEF Enqueue, roles
  <2>3. status[r] \notin Active
    BY <2>2 DEF ArchivedIsQuiet
  <2>4. Kind[r] = "chat"
    BY <2>2, ConstantsOK DEF IInv, TypeOK
  <2> QED BY <2>2, <2>3, <2>4, Activation DEF Enqueue
<1> QED BY <1>1, <1>2, Inductive, PTL DEF Spec

\* Only a dismissal adds to the dismissed searches.
LEMMA DismissStep ==
  ASSUME [Next]_vars
  PROVE  dismissed' = dismissed \/ \E r \in Run : Discard(r)
<1>1. CASE Requests
  BY <1>1 DEF Requests, Enqueue, EnqueueReply, BeginResearch, InsertResearch, ContinueSearch,
     Insert, rows
<1>2. ASSUME NEW w \in Worker, Supervise(w) \/ Interruption(w) PROVE dismissed' = dismissed
  BY <1>2 DEF Supervise, Interruption, Claim, ClaimInLane, RecoverOnly, Heartbeat, Conclude,
     Complete, RecordReview, FailRun, LoseRun, Finish, ToolConflict, YieldToChat, StopRun,
     ReleaseFor, CancelStale, DispatchFromChat, Insert, Crash, rows
<1>3. CASE Operate
  BY <1>3 DEF Operate, Pause, Resume, Cancel, Archive, BeginProcurementPause,
     ResumeProcurement, SwitchMonitoring, rows
<1>4. CASE PauseTransaction \/ Monitor \/ Time \/ UNCHANGED vars
  BY <1>4 DEF PauseTransaction, CommitProcurementPause, AbortProcurementPause, Monitor,
     DataChange, CheckInventory, Time, LeaseRunsDown, BackoffElapses, vars, rows
<1> QED BY <1>1, <1>2, <1>3, <1>4 DEF Next, Operation

\* A dismissed search stays finished.
THEOREM Dismissed == Spec => []DismissedIsOver
<1>1. Init => DismissedIsOver
  BY DEF Init, DismissedIsOver
<1>2. IInv /\ DismissedIsOver /\ [Next]_vars => DismissedIsOver'
  <2> SUFFICES ASSUME IInv, DismissedIsOver, [Next]_vars, NEW r \in dismissed'
               PROVE  status'[r] \in Terminal
    BY DEF DismissedIsOver
  <2>1. CASE r \in dismissed
    <3>1. r \in Run /\ status[r] \in Terminal
      BY <2>1 DEF IInv, TypeOK, DismissedIsOver
    <3> QED BY <3>1, FinalStep
  <2>2. CASE r \notin dismissed
    <3>1. Discard(r) /\ r \in Run
      BY <2>2, DismissStep DEF Discard, IInv, TypeOK
    <3> QED BY <3>1, SMT DEF Discard, SetRow, Statuses, Active, Terminal, IInv, TypeOK
  <2> QED BY <2>1, <2>2
<1> QED BY <1>1, <1>2, Inductive, PTL DEF Spec

\* The note changes with the review that is recorded, and with the checkpoint.
LEMMA NoteStep ==
  ASSUME [Next]_vars
  PROVE  \/ note' = note /\ checked' = checked
         \/ note' = None
         \/ \E w \in Worker : RecordReview(w)
<1>1. CASE Requests
  BY <1>1 DEF Requests, Enqueue, EnqueueReply, BeginResearch, InsertResearch, ContinueSearch,
     roles
<1>2. ASSUME NEW w \in Worker, Supervise(w) \/ Interruption(w)
      PROVE  RecordReview(w) \/ (note' = note /\ checked' = checked)
  <2>1. CASE Claim(w) \/ Heartbeat(w) \/ Interruption(w)
    BY <2>1 DEF Interruption, Claim, ClaimInLane, RecoverOnly, Heartbeat, StopRun, ReleaseFor, Crash, roles
  <2>2. CASE Conclude(w)
    BY <2>2 DEF Conclude, Complete, FailRun, LoseRun, roles
  <2>3. CASE ToolConflict(w) \/ YieldToChat(w) \/ CancelStale(w)
    BY <2>3 DEF ToolConflict, YieldToChat, ReleaseFor, CancelStale, roles
  <2>4. ASSUME NEW r \in Run, DispatchFromChat(w, r) PROVE note' = note /\ checked' = checked
    BY <2>4 DEF DispatchFromChat, roles
  <2> QED BY <1>2, <2>1, <2>2, <2>3, <2>4 DEF Supervise
<1>3. CASE Operate
  BY <1>3 DEF Operate, Pause, Resume, Cancel, Discard, Archive, BeginProcurementPause,
     ResumeProcurement, SwitchMonitoring, roles
<1>4. CASE PauseTransaction \/ Monitor \/ Time \/ UNCHANGED vars
  BY <1>4 DEF PauseTransaction, CommitProcurementPause, AbortProcurementPause, Monitor,
     DataChange, CheckInventory, Time, LeaseRunsDown, BackoffElapses, vars, roles
<1> QED BY <1>1, <1>2, <1>3, <1>4 DEF Next, Operation

\* The review that is shown is a finished one of the checkpoint it is shown with,
\* however long its record comes after its finish.
THEOREM NoteIsCurrent == Spec => []NoteDescribesCheckpoint
<1>1. Init => NoteDescribesCheckpoint
  BY DEF Init, NoteDescribesCheckpoint
<1>2. ASSUME IInv, NoteDescribesCheckpoint, [Next]_vars PROVE NoteDescribesCheckpoint'
  <2>1. CASE note' = note /\ checked' = checked
    <3>1. ASSUME note # None PROVE status'[note] = "completed"
      BY <1>2, <3>1, FinalStep DEF NoteDescribesCheckpoint, Terminal, IInv, TypeOK
    <3> QED BY <1>2, <2>1, <3>1 DEF NoteDescribesCheckpoint
  <2>2. CASE note' = None
    BY <2>2 DEF NoteDescribesCheckpoint
  <2>3. ASSUME NEW w \in Worker, RecordReview(w), note' # note \/ checked' # checked
        PROVE  NoteDescribesCheckpoint'
    BY <2>3 DEF RecordReview, NoteFits, NoteDescribesCheckpoint, rows
  <2> QED BY <1>2, <2>1, <2>2, <2>3, NoteStep
<1> QED BY <1>1, <1>2, Inductive, PTL DEF Spec
=============================================================================
