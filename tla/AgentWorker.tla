----------------------------- MODULE AgentWorker -----------------------------
(***************************************************************************)
(* One supervisor and its model child: runtime::agent_worker and            *)
(* agent::work_one_in_lane with the loop of agent::execute, the handle      *)
(* worker::Worker, the JSON-line protocol over the child's stdin and stdout *)
(* and the child itself (worker/src/worker.ts and run.ts).                  *)
(*                                                                          *)
(* The protocol names a run by its id and says nothing of the claim it was  *)
(* sent for.  A claim here is <<run, n>>, the n-th time the run was claimed *)
(* (its lease_token in the code), and a session is the claim whose Run      *)
(* message the child took up; messages and uses carry the session as a      *)
(* history variable, which no guard reads.                                  *)
(*                                                                          *)
(* Of a row only what this supervisor asks of it is kept; RunQueue has the  *)
(* queue with its other actors.                                             *)
(***************************************************************************)
EXTENDS Integers, Sequences

CONSTANTS
  Run,          \* the runs of this supervisor's lane
  None,
  MaxAttempts,  \* agent_runs.max_attempts, and the literal 3 in jobs::finish
  MaxClaims,    \* bound: claims of one run
  MaxCalls,     \* bound: tool calls of one session
  MaxLapses     \* bound: failed statements and ignored cancellations

ASSUME ConstantsOK ==
  /\ None \notin Run
  /\ MaxAttempts \in Nat \ {0}
  /\ MaxClaims \in Nat
  /\ MaxCalls \in Nat
  /\ MaxLapses \in Nat

VARIABLES
  \* agent_runs
  status, attempt,
  claims,     \* claims of the run so far: the newest lease_token
  live,       \* the runs with lease_until > now()
  \* the supervisor
  phase,      \* where work_one_in_lane is
  job,        \* the claim in hand, or None
  hand,       \* the child's message being acted on, or None
  abandon,    \* an unacknowledged cancellation costs the child its place
  \* Worker and the pipes
  activeRun,  \* Worker.active_run
  stdin,      \* messages to the child
  stdout,     \* messages from the child
  \* the child
  alive,
  session,    \* the session of `current', or None
  pending,    \* the call the model waits for, 0 when there is none
  sequence,   \* callSequence of the session
  aborted,    \* the AbortController of the session has fired
  \* history
  uses,       \* <<claim, session>>: work of the session done or kept for the claim
  lapses,     \* what this child was kept in spite of: "unacked", "error"
  faults      \* lapses so far, over all children

row == <<status, attempt, claims, live>>
supervisor == <<phase, job, hand, abandon>>
pipes == <<activeRun, stdin, stdout>>
child == <<alive, session, pending, sequence, aborted>>
history == <<uses, lapses, faults>>
vars == <<row, supervisor, pipes, child, history>>

Claim == Run \X (1..MaxClaims)
Calls == 1..MaxCalls
Phases == {"spawning", "idle", "preparing", "driving", "calling", "keeping", "draining"}
Terminals == {"completed", "failed", "busy", "cancelled"}
ToChild == [type : {"run", "cancel"}, of : Claim, call : {0}]
             \cup [type : {"tool_result"}, of : Claim, call : Calls]
FromChild == [type : Terminals, of : Claim, call : {0}]
               \cup [type : {"tool_call"}, of : Claim, call : Calls]

TypeOK ==
  /\ status \in [Run -> {"queued", "running", "paused", "completed", "failed", "cancelled"}]
  /\ attempt \in [Run -> 0..MaxAttempts]
  /\ claims \in [Run -> 0..MaxClaims]
  /\ live \in SUBSET Run
  /\ phase \in Phases
  /\ job \in Claim \cup {None}
  /\ hand \in FromChild \cup {None}
  /\ abandon \in BOOLEAN
  /\ activeRun \in Run \cup {None}
  /\ stdin \in Seq(ToChild)
  /\ stdout \in Seq(FromChild)
  /\ alive \in BOOLEAN
  /\ session \in Claim \cup {None}
  /\ pending \in 0..MaxCalls
  /\ sequence \in 0..MaxCalls
  /\ aborted \in BOOLEAN
  /\ uses \in SUBSET (Claim \X Claim)
  /\ lapses \in SUBSET {"unacked", "error"}
  /\ faults \in 0..MaxLapses

Init ==
  /\ status = [r \in Run |-> "queued"]
  /\ attempt = [r \in Run |-> 0]
  /\ claims = [r \in Run |-> 0]
  /\ live = {}
  /\ phase = "spawning"
  /\ job = None
  /\ hand = None
  /\ abandon = FALSE
  /\ activeRun = None
  /\ stdin = << >>
  /\ stdout = << >>
  /\ alive = FALSE
  /\ session = None
  /\ pending = 0
  /\ sequence = 0
  /\ aborted = FALSE
  /\ uses = {}
  /\ lapses = {}
  /\ faults = 0

RunId(c) == c[1]
Message(type, c, call) == [type |-> type, of |-> c, call |-> call]

\* jobs::active: the row still belongs to the claim in hand.
Owned ==
  LET r == RunId(job) IN status[r] = "running" /\ claims[r] = job[2] /\ r \in live

-----------------------------------------------------------------------------
(* How work_one_in_lane ends.                                               *)

\* It returns with the worker in place ...
Done ==
  /\ phase' = "idle"
  /\ job' = None /\ hand' = None /\ abandon' = FALSE

\* ... or WorkerLost: agent_worker shuts the child down and spawns another.
WorkerLost ==
  /\ phase' = "spawning"
  /\ job' = None /\ hand' = None /\ abandon' = FALSE

\* Worker::abort_run, up to the wait for the terminal message.  "must" says
\* that a missing acknowledgement costs the child its place.
\* Mutant: the cancellation is sent and not waited for.
AbortUnheard(must) ==
  IF activeRun # RunId(job)
  THEN Done /\ UNCHANGED pipes
  ELSE /\ stdin' = Append(stdin, Message("cancel", job, 0))
       /\ Done
       /\ UNCHANGED <<activeRun, stdout>>

Abort(must) ==
  IF activeRun # RunId(job)
  THEN Done /\ UNCHANGED pipes
  ELSE /\ stdin' = Append(stdin, Message("cancel", job, 0))
       /\ phase' = "draining" /\ abandon' = must /\ hand' = None
       /\ UNCHANGED <<job, activeRun, stdout>>

\* jobs::finish with an error: retried up to the last attempt.
FinishFailed ==
  IF Owned
  THEN LET r == RunId(job)
       IN /\ status' = [status EXCEPT ![r] =
                          IF attempt[r] < MaxAttempts THEN "queued" ELSE "failed"]
          /\ live' = live \ {r}
          /\ UNCHANGED <<attempt, claims>>
  ELSE UNCHANGED row

\* A lease that ran out is recovered by the next claim.
Recovered(r) ==
  IF status[r] = "running" /\ r \notin live
  THEN IF attempt[r] < MaxAttempts THEN "queued" ELSE "failed"
  ELSE status[r]

-----------------------------------------------------------------------------
(* The supervisor.                                                          *)

\* Worker::spawn; what the old child had to say is gone with its pipes.
Spawn ==
  /\ phase = "spawning"
  /\ phase' = "idle"
  /\ activeRun' = None /\ stdin' = << >> /\ stdout' = << >>
  /\ alive' = TRUE
  /\ session' = None /\ pending' = 0 /\ sequence' = 0 /\ aborted' = FALSE
  /\ lapses' = {}
  /\ UNCHANGED <<row, job, hand, abandon, uses, faults>>

\* is_alive is asked between two runs only.
NoticeDeath ==
  /\ phase = "idle" /\ ~alive
  /\ WorkerLost
  /\ UNCHANGED <<row, pipes, child, history>>

\* jobs::claim_in_lane, with its recovery of expired leases.
ClaimRun(r) ==
  /\ phase = "idle" /\ alive
  /\ Recovered(r) = "queued" /\ claims[r] < MaxClaims
  /\ status' = [[s \in Run |-> Recovered(s)] EXCEPT ![r] = "running"]
  /\ attempt' = [attempt EXCEPT ![r] = @ + 1]
  /\ claims' = [claims EXCEPT ![r] = @ + 1]
  /\ live' = live \cup {r}
  /\ phase' = "preparing"
  /\ job' = <<r, claims[r] + 1>>
  /\ UNCHANGED <<hand, abandon, pipes, child, history>>

\* execute up to the Run message: context_ready is an event of an owned run.
SendRun ==
  /\ phase = "preparing" /\ Owned /\ alive
  /\ phase' = "driving"
  /\ activeRun' = RunId(job)
  /\ stdin' = Append(stdin, Message("run", job, 0))
  /\ UNCHANGED <<row, job, hand, abandon, stdout, child, history>>

\* The run was paused, cancelled or lost before the Run message.
PrepareConflict ==
  /\ phase = "preparing" /\ ~Owned
  /\ Abort(FALSE)
  /\ UNCHANGED <<row, child, history>>

Driving == phase \in {"preparing", "driving", "calling", "keeping"}

\* execute ends by a timeout of its own or of the supervisor, an output limit
\* or an error that is neither the run's nor the worker's.
Fail ==
  /\ Driving
  /\ FinishFailed
  /\ Abort(TRUE)
  /\ UNCHANGED <<child, history>>

\* A tick finds the run paused, cancelled or expired.
LoseRun ==
  /\ Driving /\ ~Owned
  /\ Abort(TRUE)
  /\ UNCHANGED <<row, child, history>>

\* A stop, or a review that makes way for a chat: release_for, then abort_run.
Release ==
  /\ Driving
  /\ LET r == RunId(job)
     IN IF status[r] = "running" /\ claims[r] = job[2]
        THEN /\ status' = [status EXCEPT ![r] = "queued"]
             /\ attempt' = [attempt EXCEPT ![r] = @ - 1]
             /\ live' = live \ {r}
             /\ UNCHANGED claims
        ELSE UNCHANGED row
  /\ Abort(TRUE)
  /\ UNCHANGED <<child, history>>

\* A statement of a tick or of jobs::finish fails: `?' leaves work_one_in_lane
\* with the child as it is.
StatementFails ==
  /\ Driving
  /\ faults < MaxLapses
  /\ faults' = faults + 1
  /\ lapses' = lapses \cup {"error"}
  /\ Done
  /\ UNCHANGED <<row, pipes, child, uses>>

-----------------------------------------------------------------------------
(* The loop of execute over the child's messages.                           *)

\* Mutant: every message is taken for one of the run in hand.
AnyRun(m) == TRUE

ForRun(m) == RunId(m.of) = RunId(job)

\* Worker::next, on the oldest message.
Hear ==
  LET m == Head(stdout)
  IN /\ stdout' = Tail(stdout)
     /\ activeRun' = IF m.type \in Terminals /\ activeRun = RunId(m.of)
                     THEN None ELSE activeRun

\* The supervisor is at a message of the run in hand that has this type.
Hears(type) ==
  /\ phase = "driving" /\ stdout # << >>
  /\ Head(stdout).type = type /\ ForRun(Head(stdout))

IgnoreMessage ==
  /\ phase = "driving" /\ stdout # << >>
  /\ ~ForRun(Head(stdout))
  /\ Hear
  /\ UNCHANGED <<row, supervisor, stdin, child, history>>

\* A tool runs once its event is written for the owned run.
CallTool ==
  /\ Hears("tool_call") /\ Owned
  /\ phase' = "calling"
  /\ hand' = Head(stdout)
  /\ uses' = uses \cup {<<job, Head(stdout).of>>}
  /\ Hear
  /\ UNCHANGED <<row, job, abandon, stdin, child, lapses, faults>>

AnswerTool ==
  /\ phase = "calling" /\ alive
  /\ phase' = "driving" /\ hand' = None
  /\ stdin' = Append(stdin, Message("tool_result", job, hand.call))
  /\ UNCHANGED <<row, job, abandon, activeRun, stdout, child, history>>

\* A Conflict, of the row or of the tool's own business, ends execute; the
\* outcome of the abort is ignored.
ToolConflict ==
  /\ \/ phase = "calling"
     \/ Hears("tool_call") /\ ~Owned
  /\ Abort(FALSE)
  /\ UNCHANGED <<row, child, history>>

HearAnswer ==
  /\ Hears("completed")
  /\ phase' = "keeping" /\ hand' = Head(stdout)
  /\ Hear
  /\ UNCHANGED <<row, job, abandon, stdin, child, history>>

\* jobs::active, then jobs::finish with the result; without the row nothing.
KeepAnswer ==
  /\ phase = "keeping"
  /\ IF Owned
     THEN /\ status' = [status EXCEPT ![RunId(job)] = "completed"]
          /\ live' = live \ {RunId(job)}
          /\ uses' = uses \cup {<<job, hand.of>>}
          /\ UNCHANGED <<attempt, claims>>
     ELSE UNCHANGED <<row, uses>>
  /\ Done
  /\ UNCHANGED <<pipes, child, lapses, faults>>

HearFailure ==
  /\ Hears("failed")
  /\ FinishFailed
  /\ Hear /\ Done
  /\ UNCHANGED <<stdin, child, history>>

\* worker_busy or worker_error: the child is lost; but the event of the failure is
\* written first, and without the row that is a Conflict, which keeps the child.
HearBusy ==
  /\ Hears("busy")
  /\ FinishFailed
  /\ IF Owned THEN WorkerLost ELSE Done
  /\ Hear
  /\ UNCHANGED <<stdin, child, history>>

HearCancelled ==
  /\ Hears("cancelled")
  /\ Hear /\ Done
  /\ UNCHANGED <<row, stdin, child, history>>

\* The pipes of a dead child are closed, once read to the end.
ChildGone ==
  /\ ~alive
  /\ \/ phase = "preparing" /\ Owned
     \/ phase = "driving" /\ stdout = << >>
     \/ phase = "calling"
  /\ FinishFailed
  /\ WorkerLost
  /\ UNCHANGED <<pipes, child, history>>

-----------------------------------------------------------------------------
(* abort_run waits for the terminal message.                                *)

\* No tool runs for an abandoned run: its calls are answered with an error.
DrainMessage ==
  /\ phase = "draining" /\ stdout # << >>
  /\ LET m == Head(stdout)
     IN /\ stdin' = IF m.type = "tool_call" /\ ForRun(m)
                    THEN Append(stdin, Message("tool_result", job, m.call))
                    ELSE stdin
        /\ IF m.type \in Terminals /\ ForRun(m) THEN Done ELSE UNCHANGED supervisor
  /\ Hear
  /\ UNCHANGED <<row, child, history>>

\* Five seconds pass, or the child is gone.
DrainFails ==
  /\ phase = "draining" /\ abandon
  /\ WorkerLost
  /\ UNCHANGED <<row, pipes, child, history>>

\* The same after a Conflict, whose caller does not look.
DrainIgnored ==
  /\ phase = "draining" /\ ~abandon
  /\ IF ~alive /\ stdout = << >>
     THEN UNCHANGED <<lapses, faults>>
     ELSE /\ faults < MaxLapses
          /\ faults' = faults + 1
          /\ lapses' = lapses \cup {"unacked"}
  /\ Done
  /\ UNCHANGED <<row, pipes, child, uses>>

-----------------------------------------------------------------------------
(* The child.                                                               *)

Emit(m) == stdout' = Append(stdout, m)

Reads(type) == alive /\ stdin # << >> /\ Head(stdin).type = type

Consume == stdin' = Tail(stdin)

\* Its current run is the one the line names.
Concerned == session # None /\ RunId(session) = RunId(Head(stdin).of)

\* startRun: one run at a time.
ReadRun ==
  /\ Reads("run")
  /\ Consume
  /\ IF session = None
     THEN /\ session' = Head(stdin).of
          /\ pending' = 0 /\ sequence' = 0 /\ aborted' = FALSE
          /\ UNCHANGED stdout
     ELSE /\ Emit(Message("busy", Head(stdin).of, 0))
          /\ UNCHANGED <<session, pending, sequence, aborted>>
  /\ UNCHANGED <<row, supervisor, activeRun, alive, history>>

\* A result for a call that is not pending is ignored.
ReadResult ==
  /\ Reads("tool_result")
  /\ Consume
  /\ pending' = IF Concerned /\ pending = Head(stdin).call THEN 0 ELSE pending
  /\ UNCHANGED <<row, supervisor, activeRun, stdout, alive, session, sequence, aborted, history>>

ReadCancel ==
  /\ Reads("cancel")
  /\ Consume
  /\ IF Concerned THEN aborted' = TRUE /\ pending' = 0 ELSE UNCHANGED <<aborted, pending>>
  /\ UNCHANGED <<row, supervisor, activeRun, stdout, alive, session, sequence, history>>

Thinking == alive /\ session # None /\ ~aborted /\ pending = 0

\* requestTool; the executor is sequential.
ModelCalls ==
  /\ Thinking /\ sequence < MaxCalls
  /\ sequence' = sequence + 1
  /\ pending' = sequence + 1
  /\ Emit(Message("tool_call", session, sequence + 1))
  /\ UNCHANGED <<row, supervisor, activeRun, stdin, alive, session, aborted, history>>

\* The call's own timeout; the answer may still come.
ToolTimesOut ==
  /\ alive /\ pending # 0
  /\ pending' = 0
  /\ UNCHANGED <<row, supervisor, pipes, alive, session, sequence, aborted, history>>

\* executeRun ends and `current' is cleared.
EndSession(type) ==
  /\ Emit(Message(type, session, 0))
  /\ session' = None /\ pending' = 0 /\ sequence' = 0 /\ aborted' = FALSE
  /\ UNCHANGED <<row, supervisor, activeRun, stdin, alive, history>>

ModelAnswers == Thinking /\ EndSession("completed")

\* The model, its limits or the run's timeout; or worker_error, which the
\* supervisor takes as it takes worker_busy.
ModelFails ==
  /\ alive /\ session # None /\ ~aborted
  /\ EndSession("failed") \/ EndSession("busy")

ModelCancelled == alive /\ session # None /\ aborted /\ EndSession("cancelled")

ChildDies ==
  /\ alive
  /\ alive' = FALSE
  /\ session' = None /\ pending' = 0 /\ sequence' = 0 /\ aborted' = FALSE
  /\ UNCHANGED <<row, supervisor, pipes, history>>

-----------------------------------------------------------------------------
(* The operator and the clock.                                              *)

Control(r, from, to) ==
  /\ status[r] \in from
  /\ status' = [status EXCEPT ![r] = to]
  /\ live' = live \ {r}
  /\ UNCHANGED <<attempt, claims, supervisor, pipes, child, history>>

Pause(r) == Control(r, {"queued", "running"}, "paused")
Resume(r) == Control(r, {"paused"}, "queued")
Cancel(r) == Control(r, {"queued", "running", "paused"}, "cancelled")

\* The supervisor was held up for longer than the lease.
LeaseRunsOut(r) ==
  /\ r \in live
  /\ live' = live \ {r}
  /\ UNCHANGED <<status, attempt, claims, supervisor, pipes, child, history>>

Converse ==
  \/ IgnoreMessage \/ CallTool \/ AnswerTool \/ ToolConflict
  \/ HearAnswer \/ KeepAnswer \/ HearFailure \/ HearBusy \/ HearCancelled \/ ChildGone

Supervise ==
  \/ Spawn \/ NoticeDeath \/ SendRun \/ PrepareConflict
  \/ \E r \in Run : ClaimRun(r)
  \/ Fail \/ LoseRun \/ Release \/ StatementFails
  \/ DrainMessage \/ DrainFails \/ DrainIgnored

Child ==
  \/ ReadRun \/ ReadResult \/ ReadCancel
  \/ ModelCalls \/ ToolTimesOut \/ ModelAnswers \/ ModelFails \/ ModelCancelled
  \/ ChildDies

Environment == \E r \in Run : Pause(r) \/ Resume(r) \/ Cancel(r) \/ LeaseRunsOut(r)

Next == Supervise \/ Converse \/ Child \/ Environment

Spec == Init /\ [][Next]_vars

-----------------------------------------------------------------------------
(* Properties.                                                              *)

\* Whatever fails, a tool is executed and an answer kept for a run only if the
\* child asked for it or gave it in a session of that run: a message left over
\* from an abandoned run is never taken for another run's (execute, abort_run).
WorkIsForItsRun == \A u \in uses : RunId(u[1]) = RunId(u[2])

\* The protocol does not tell the claims of one run apart, so that a retry gets
\* the work of its own session rests on the drain of abort_run: as long as the
\* child was not kept after a failed statement or an unheard cancellation, every
\* tool executed and every answer kept is of the session of the claim in hand.
WorkIsFresh == [][\A u \in uses' \ uses : lapses = {} => u[1] = u[2]]_vars

\* worker.rs:276, on a cancellation that is not acknowledged: "Failure means the
\* caller must replace this worker."
UnackedIsReplaced == phase \in {"driving", "calling", "keeping"} => "unacked" \notin lapses
=============================================================================
