------------------------------ MODULE RunQueue ------------------------------
(***************************************************************************)
(* The durable queue of agent runs (src/jobs.rs) and everything that moves  *)
(* a row of agent_runs: the API and chat handlers that enqueue, the         *)
(* supervisors that claim and run (agent::work_one_in_lane), the operator's *)
(* controls (jobs::control, conversations::archive, research::discard), the *)
(* procurement switch (scoped_agents::control) and the inventory monitor    *)
(* (scoped_agents::check_one).                                              *)
(*                                                                          *)
(* One element of Run is one row the instance may ever insert, named by its *)
(* request key; it is "absent" until inserted.  A database transaction is   *)
(* one step, unless another transaction can commit between two of its       *)
(* statements and change what it does; then it is two (BeginResearch and    *)
(* InsertResearch, BeginProcurementPause and CommitProcurementPause).       *)
(***************************************************************************)
EXTENDS Integers, FiniteSets

CONSTANTS
  Run,            \* the rows, by request key
  Conversation,   \* chat threads
  Worker,         \* supervisor loops (runtime::agent_worker), over all processes
  Token,          \* lease tokens (fresh UUIDs)
  None,           \* SQL NULL / "no run in hand"
  Kind,           \* Kind[r]: the kind column
  Conv,           \* Conv[r]: the conversation of a chat run, else None
  Parent,         \* Parent[r]: the run whose id is part of r's request key, or None
  Rev,            \* Rev[r]: the revision an inventory review is about, else -1
  Lane,           \* Lane[w]: the lane a supervisor claims from
  Switches,       \* bound: the agents' switches operators use, of "procurement", "inventory"
  MaxAttempts,    \* agent_runs.max_attempts, and the literal 3 in jobs::finish
  LeaseSpan,      \* the 30 second lease, in steps of the model's clock
  MaxInterrupts,  \* bound: operator pauses of one run while it is running
  MaxRevision     \* bound: inventory revisions that happen

Kinds == {"chat", "inventory_review", "vendor_research", "supplier_reply"}
ProcurementKinds == {"vendor_research", "supplier_reply"}
Lanes == {"all", "chat", "background"}
Active == {"queued", "running", "paused"}
Terminal == {"completed", "failed", "cancelled"}
Statuses == {"absent"} \cup Active \cup Terminal
Causes == {None, "worker_lease_expired", "run_error", "procurement_paused",
           "superseded_revision"}

ASSUME ConstantsOK ==
  /\ None \notin Run \cup Token \cup Conversation
  /\ Kind \in [Run -> Kinds]
  /\ Conv \in [Run -> Conversation \cup {None}]
  /\ \A r \in Run : Kind[r] = "chat" <=> Conv[r] # None
  /\ Parent \in [Run -> Run \cup {None}]
  /\ Rev \in [Run -> Int]
  /\ Lane \in [Worker -> Lanes]
  /\ MaxAttempts \in Nat \ {0}
  /\ LeaseSpan \in Nat \ {0}
  /\ MaxInterrupts \in Nat
  /\ MaxRevision \in Nat

VARIABLES
  \* agent_runs, one function per column
  status, attempt,
  token,       \* lease_token
  lease,       \* steps until lease_until; 0 once lease_until <= now(), and when NULL
  ready,       \* available_at <= now()
  cause,       \* error_code
  dismissed,   \* the runs with dismissed_at set
  interrupted, \* history: operator pauses that hit the run while it was running
  \* conversations and scoped_agents
  archived,    \* the conversations with archived_at set
  enabled,     \* procurement's switch
  monitoring,  \* inventory's switch
  revision,    \* agent_data_revisions.revision of inventory
  checked,     \* scoped_agents.checked_revision of inventory
  note,        \* review_run_id in inventory's observation
  \* transactions in flight
  starting,    \* research::start calls that have read the switch
  pausing,     \* a procurement pause has run its UPDATE and not committed
  locked,      \* the rows that UPDATE has locked
  \* supervisors
  phase, job, jobToken, jobAttempt

rows == <<status, attempt, token, lease, ready, cause, dismissed, interrupted>>
roles == <<archived, enabled, monitoring, revision, checked, note>>
transactions == <<starting, pausing, locked>>
supervisors == <<phase, job, jobToken, jobAttempt>>
vars == <<rows, roles, transactions, supervisors>>

TypeOK ==
  /\ status \in [Run -> Statuses]
  /\ attempt \in [Run -> Nat]
  /\ token \in [Run -> Token \cup {None}]
  /\ lease \in [Run -> 0..LeaseSpan]
  /\ ready \in [Run -> BOOLEAN]
  /\ cause \in [Run -> Causes]
  /\ dismissed \in SUBSET Run
  /\ interrupted \in [Run -> 0..MaxInterrupts]
  /\ archived \in SUBSET Conversation
  /\ enabled \in BOOLEAN
  /\ monitoring \in BOOLEAN
  /\ revision \in 0..MaxRevision
  /\ checked \in -1..MaxRevision
  /\ note \in Run \cup {None}
  /\ starting \in SUBSET Run
  /\ pausing \in BOOLEAN
  /\ locked \in SUBSET Run
  /\ phase \in [Worker -> {"idle", "working", "recording"}]
  /\ job \in [Worker -> Run \cup {None}]
  /\ jobToken \in [Worker -> Token \cup {None}]
  /\ jobAttempt \in [Worker -> Nat]

Init ==
  /\ status = [r \in Run |-> "absent"]
  /\ attempt = [r \in Run |-> 0]
  /\ token = [r \in Run |-> None]
  /\ lease = [r \in Run |-> 0]
  /\ ready = [r \in Run |-> TRUE]
  /\ cause = [r \in Run |-> None]
  /\ dismissed = {}
  /\ interrupted = [r \in Run |-> 0]
  /\ archived = {}
  /\ enabled = TRUE
  /\ monitoring = TRUE
  /\ revision = 0
  /\ checked = -1
  /\ note = None
  /\ starting = {}
  /\ pausing = FALSE
  /\ locked = {}
  /\ phase = [w \in Worker |-> "idle"]
  /\ job = [w \in Worker |-> None]
  /\ jobToken = [w \in Worker |-> None]
  /\ jobAttempt = [w \in Worker |-> 0]

-----------------------------------------------------------------------------
(* Enqueueing.  A key that already has a row returns that row and changes   *)
(* nothing, so every insertion starts from "absent".                        *)

Insert(r) ==
  /\ status[r] = "absent"
  /\ status' = [status EXCEPT ![r] = "queued"]
  /\ UNCHANGED <<attempt, token, lease, ready, cause, dismissed, interrupted>>

\* Mutant: a paused run does not keep its conversation busy.
BusyUnlessPaused(c) == \E s \in Run : Conv[s] = c /\ status[s] \in {"queued", "running"}

Busy(c) == \E s \in Run : Conv[s] = c /\ status[s] \in Active

\* POST /v1/agents/chat
Enqueue(r) ==
  /\ Kind[r] = "chat"
  /\ Conv[r] \notin archived
  /\ ~Busy(Conv[r])
  /\ Insert(r)
  /\ UNCHANGED <<roles, transactions, supervisors>>

\* A supplier's answer is collected or pasted.
EnqueueReply(r) ==
  /\ Kind[r] = "supplier_reply"
  /\ Insert(r)
  /\ UNCHANGED <<roles, transactions, supervisors>>

\* research::start reads procurement's switch before it opens its transaction ...
BeginResearch(r) ==
  /\ Kind[r] = "vendor_research" /\ Parent[r] = None
  /\ status[r] = "absent" /\ r \notin starting
  /\ enabled
  /\ starting' = starting \cup {r}
  /\ UNCHANGED <<rows, roles, pausing, locked, supervisors>>

\* ... and inserts under an advisory lock, unless a search is already active.
InsertResearch(r) ==
  /\ Kind[r] = "vendor_research" /\ r \in starting
  /\ starting' = starting \ {r}
  /\ IF \E s \in Run : Kind[s] = "vendor_research" /\ status[s] \in Active
     THEN UNCHANGED rows
     ELSE Insert(r)
  /\ UNCHANGED <<roles, pausing, locked, supervisors>>

\* research::retry and research::more, on a finished search.  FOR SHARE on the
\* switch waits for a pause in flight.
ContinueSearch(r) ==
  /\ Kind[r] = "vendor_research" /\ Parent[r] # None
  /\ Kind[Parent[r]] = "vendor_research"
  /\ enabled /\ ~pausing
  /\ Parent[r] \notin dismissed
  /\ status[Parent[r]] \in Terminal
  /\ Insert(r)
  /\ UNCHANGED <<roles, transactions, supervisors>>

-----------------------------------------------------------------------------
(* Claiming, with the recovery of expired leases in the same transaction.   *)

Expired(r) == status[r] = "running" /\ lease[r] = 0

\* Mutant: an exhausted run stays as its dead supervisor left it.
RecoveredIfRetriable(r) ==
  IF Expired(r) /\ attempt[r] < MaxAttempts THEN "queued" ELSE status[r]

Recovered(r) ==
  IF ~Expired(r) THEN status[r]
  ELSE IF attempt[r] < MaxAttempts THEN "queued" ELSE "failed"

InLane(w, r) ==
  \/ Lane[w] = "all"
  \/ Lane[w] = "chat" /\ Kind[r] = "chat"
  \/ Lane[w] = "background" /\ Kind[r] # "chat"

MayRun(r) == Kind[r] \in ProcurementKinds => enabled

Claimable(w) ==
  {r \in Run \ locked : Recovered(r) = "queued" /\ ready[r] /\ InLane(w, r) /\ MayRun(r)}

\* ORDER BY chat first; the order by created_at is left open.
Preferred(w) ==
  LET chats == {r \in Claimable(w) : Kind[r] = "chat"}
  IN  IF chats # {} THEN chats ELSE Claimable(w)

FreshTokens == {t \in Token : /\ \A r \in Run : token[r] # t
                              /\ \A w \in Worker : jobToken[w] # t}

\* The recovery UPDATE waits for a row that a pause in flight has locked.
RecoveryFree == \A r \in Run : Expired(r) => r \notin locked

ClaimInLane(w, r, t) ==
  /\ phase[w] = "idle"
  /\ RecoveryFree
  /\ r \in Preferred(w)
  /\ t \in FreshTokens
  /\ status' = [s \in Run |-> IF s = r THEN "running" ELSE Recovered(s)]
  /\ attempt' = [attempt EXCEPT ![r] = @ + 1]
  /\ token' = [s \in Run |-> IF s = r THEN t ELSE IF Expired(s) THEN None ELSE token[s]]
  /\ lease' = [lease EXCEPT ![r] = LeaseSpan]
  /\ cause' = [s \in Run |-> IF Expired(s) THEN "worker_lease_expired" ELSE cause[s]]
  /\ phase' = [phase EXCEPT ![w] = "working"]
  /\ job' = [job EXCEPT ![w] = r]
  /\ jobToken' = [jobToken EXCEPT ![w] = t]
  /\ jobAttempt' = [jobAttempt EXCEPT ![w] = attempt[r] + 1]
  /\ UNCHANGED <<ready, dismissed, interrupted, roles, transactions>>

\* The same transaction when nothing is claimable.
RecoverOnly(w) ==
  /\ phase[w] = "idle"
  /\ RecoveryFree
  /\ Preferred(w) = {}
  /\ \E r \in Run : Expired(r)
  /\ status' = [s \in Run |-> Recovered(s)]
  /\ token' = [s \in Run |-> IF Expired(s) THEN None ELSE token[s]]
  /\ cause' = [s \in Run |-> IF Expired(s) THEN "worker_lease_expired" ELSE cause[s]]
  /\ UNCHANGED <<attempt, lease, ready, dismissed, interrupted, roles, transactions,
                 supervisors>>

-----------------------------------------------------------------------------
(* A supervisor with a run in hand.                                         *)

\* Mutant: any unexpired lease will do.
OwnsAnyLease(w) ==
  job[w] # None /\ status[job[w]] = "running" /\ lease[job[w]] > 0

\* WHERE status='running' AND lease_token=$3 AND lease_until>now()
Owns(w) ==
  /\ job[w] # None
  /\ status[job[w]] = "running"
  /\ token[job[w]] = jobToken[w]
  /\ lease[job[w]] > 0

\* The row lock of a pause in flight makes this supervisor's writes wait.
Unblocked(w) == job[w] \notin locked

Leave(w) ==
  /\ phase' = [phase EXCEPT ![w] = "idle"]
  /\ job' = [job EXCEPT ![w] = None]
  /\ jobToken' = [jobToken EXCEPT ![w] = None]
  /\ jobAttempt' = [jobAttempt EXCEPT ![w] = 0]

\* Mutant: the lease token stays behind.
SetRowKeepingToken(r, next, tries, available, code) ==
  /\ status' = [status EXCEPT ![r] = next]
  /\ attempt' = [attempt EXCEPT ![r] = tries]
  /\ lease' = [lease EXCEPT ![r] = 0]
  /\ ready' = [ready EXCEPT ![r] = available]
  /\ cause' = [cause EXCEPT ![r] = code]
  /\ UNCHANGED token

\* Move row r out of "running", or between states that hold no lease.
SetRow(r, next, tries, available, code) ==
  /\ status' = [status EXCEPT ![r] = next]
  /\ attempt' = [attempt EXCEPT ![r] = tries]
  /\ token' = [token EXCEPT ![r] = None]
  /\ lease' = [lease EXCEPT ![r] = 0]
  /\ ready' = [ready EXCEPT ![r] = available]
  /\ cause' = [cause EXCEPT ![r] = code]

\* Every fifth tick of the monitor extends the lease.
Heartbeat(w) ==
  /\ phase[w] = "working"
  /\ Unblocked(w)
  /\ Owns(w)
  /\ lease' = [lease EXCEPT ![job[w]] = LeaseSpan]
  /\ UNCHANGED <<status, attempt, token, ready, cause, dismissed, interrupted, roles,
                 transactions, supervisors>>

\* A tick, or an event the run records, finds the lease gone: Exit::Lost, or
\* a Conflict that ends the run.
LoseRun(w) ==
  /\ phase[w] = "working"
  /\ ~Owns(w)
  /\ Leave(w)
  /\ UNCHANGED <<rows, roles, transactions>>

\* jobs::finish: a no-op unless the lease is still this supervisor's.
Finish(w, next, available, code) ==
  IF Owns(w)
  THEN /\ SetRow(job[w], next, attempt[job[w]], available, code)
       /\ UNCHANGED <<dismissed, interrupted>>
  ELSE UNCHANGED rows

Complete(w) ==
  /\ phase[w] = "working"
  /\ Unblocked(w)
  /\ Finish(w, "completed", TRUE, None)
  /\ IF Kind[job[w]] = "inventory_review"
     THEN /\ phase' = [phase EXCEPT ![w] = "recording"]
          /\ UNCHANGED <<job, jobToken, jobAttempt>>
     ELSE Leave(w)
  /\ UNCHANGED <<roles, transactions>>

\* Mutant: the note ignores which revision is checked by now.
NoteFitsAnyRevision(r) == status[r] = "completed"

\* purchasing::record_review, a second transaction after finish.
NoteFits(r) == checked = Rev[r] /\ status[r] = "completed"

RecordReview(w) ==
  /\ phase[w] = "recording"
  /\ note' = IF NoteFits(job[w]) THEN job[w] ELSE note
  /\ Leave(w)
  /\ UNCHANGED <<rows, archived, enabled, monitoring, revision, checked, transactions>>

\* finish decides by the attempt this supervisor claimed.
Retries(w) == jobAttempt[w] < MaxAttempts

\* A model, tool or worker failure, or the timeout around execute.
FailRun(w) ==
  /\ phase[w] = "working"
  /\ Unblocked(w)
  /\ Finish(w, IF Retries(w) THEN "queued" ELSE "failed", ~Retries(w), "run_error")
  /\ Leave(w)
  /\ UNCHANGED <<roles, transactions>>

\* A tool call answers Conflict for a reason of its own (a business rule, not a
\* lost lease).  execute passes it on, and work_one_in_lane aborts the child's
\* run without touching the row.
ToolConflict(w) ==
  /\ phase[w] = "working"
  /\ Owns(w)
  /\ Leave(w)
  /\ UNCHANGED <<rows, roles, transactions>>

\* Mutant: a stop gives the row back without asking whose it is.
HoldsAnyRow(w) == job[w] # None

\* WHERE status='running' AND lease_token=$3: an expired lease still counts.
HoldsToken(w) == status[job[w]] = "running" /\ token[job[w]] = jobToken[w]

\* Mutant: a run given back has used up its attempt.
ReleaseCounted(w) ==
  /\ Unblocked(w)
  /\ IF HoldsToken(w)
     THEN /\ SetRow(job[w], "queued", attempt[job[w]], TRUE, cause[job[w]])
          /\ UNCHANGED <<dismissed, interrupted>>
     ELSE UNCHANGED rows
  /\ Leave(w)
  /\ UNCHANGED <<roles, transactions>>

ReleaseFor(w) ==
  /\ Unblocked(w)
  /\ IF HoldsToken(w)
     THEN /\ SetRow(job[w], "queued", attempt[job[w]] - 1, TRUE, cause[job[w]])
          /\ UNCHANGED <<dismissed, interrupted>>
     ELSE UNCHANGED rows
  /\ Leave(w)
  /\ UNCHANGED <<roles, transactions>>

\* The process is asked to stop while the run executes.
StopRun(w) ==
  /\ phase[w] = "working"
  /\ ReleaseFor(w)

\* An inventory review gives way to a chat that waits, in the combined lane.
YieldToChat(w) ==
  /\ phase[w] = "working"
  /\ Kind[job[w]] = "inventory_review"
  /\ Lane[w] = "all"
  /\ \E r \in Run : Kind[r] = "chat" /\ status[r] = "queued" /\ ready[r]
  /\ ReleaseFor(w)

\* A tick finds the review's revision superseded and cancels by jobs::control,
\* which looks at neither token nor lease and refuses a finished row.
CancelStale(w) ==
  /\ phase[w] = "working"
  /\ Kind[job[w]] = "inventory_review"
  /\ Rev[job[w]] # checked
  /\ LET r == job[w]
     IN  IF status[r] \in Active
         THEN /\ SetRow(r, "cancelled", attempt[r], ready[r], cause[r])
              /\ UNCHANGED <<dismissed, interrupted>>
         ELSE UNCHANGED rows
  /\ Leave(w)
  /\ UNCHANGED <<roles, transactions>>

\* The find_vendors tool of a chat run: one search per chat run, by its key.
DispatchFromChat(w, r) ==
  /\ phase[w] = "working"
  /\ Kind[job[w]] = "chat"
  /\ Kind[r] = "vendor_research" /\ Parent[r] = job[w]
  /\ enabled /\ ~pausing
  /\ Owns(w)
  /\ Insert(r)
  /\ UNCHANGED <<roles, transactions, supervisors>>

\* The process dies, or a database error in a tick ends work_one_in_lane.
Crash(w) ==
  /\ phase[w] # "idle"
  /\ Leave(w)
  /\ UNCHANGED <<rows, roles, transactions>>

-----------------------------------------------------------------------------
(* The operator: jobs::control on one run, the conversation's archive, the  *)
(* dismissal of a search.                                                   *)

Controllable(r) == r \notin locked /\ Conv[r] \notin archived

Pause(r) ==
  /\ Controllable(r)
  /\ status[r] \in {"queued", "running"}
  /\ status[r] = "running" => interrupted[r] < MaxInterrupts
  /\ SetRow(r, "paused", attempt[r], ready[r], cause[r])
  /\ interrupted' = [interrupted EXCEPT ![r] = IF status[r] = "running" THEN @ + 1 ELSE @]
  /\ UNCHANGED <<dismissed, roles, transactions, supervisors>>

Resume(r) ==
  /\ Controllable(r)
  /\ status[r] = "paused"
  /\ SetRow(r, "queued", attempt[r], ready[r], cause[r])
  /\ UNCHANGED <<dismissed, interrupted, roles, transactions, supervisors>>

Cancel(r) ==
  /\ Controllable(r)
  /\ status[r] \in Active
  /\ SetRow(r, "cancelled", attempt[r], ready[r], cause[r])
  /\ UNCHANGED <<dismissed, interrupted, roles, transactions, supervisors>>

\* Mutant: an archive overlooks paused runs.
UnfinishedUnlessPaused(c) ==
  {r \in Run : Conv[r] = c /\ status[r] \in {"queued", "running"}}

\* The runs an archive stops.
Unfinished(c) == {r \in Run : Conv[r] = c /\ status[r] \in Active}

Archive(c) ==
  /\ c \notin archived
  /\ archived' = archived \cup {c}
  /\ status' = [r \in Run |-> IF r \in Unfinished(c) THEN "cancelled" ELSE status[r]]
  /\ token' = [r \in Run |-> IF r \in Unfinished(c) THEN None ELSE token[r]]
  /\ lease' = [r \in Run |-> IF r \in Unfinished(c) THEN 0 ELSE lease[r]]
  /\ UNCHANGED <<attempt, ready, cause, dismissed, interrupted, enabled, monitoring,
                 revision, checked, note, transactions, supervisors>>

\* Mutant: a dismissed search that is paused stays paused.
DiscardUnlessPaused(r) ==
  /\ Kind[r] = "vendor_research"
  /\ status[r] # "absent" /\ r \notin dismissed /\ r \notin locked
  /\ dismissed' = dismissed \cup {r}
  /\ SetRow(r, IF status[r] \in {"queued", "running"} THEN "cancelled" ELSE status[r],
            attempt[r], ready[r], cause[r])
  /\ UNCHANGED <<interrupted, roles, transactions, supervisors>>

Discard(r) ==
  /\ Kind[r] = "vendor_research"
  /\ status[r] # "absent" /\ r \notin dismissed /\ r \notin locked
  /\ dismissed' = dismissed \cup {r}
  /\ SetRow(r, IF status[r] \in Active THEN "cancelled" ELSE status[r],
            attempt[r], ready[r], cause[r])
  /\ UNCHANGED <<interrupted, roles, transactions, supervisors>>

-----------------------------------------------------------------------------
(* Procurement's switch.  The pause updates the switch and then the runs    *)
(* its second statement can see; those rows are locked until it commits,    *)
(* and until then every other transaction still reads the switch as on.     *)

BeginProcurementPause ==
  /\ "procurement" \in Switches
  /\ ~pausing
  /\ pausing' = TRUE
  /\ locked' = {r \in Run : Kind[r] \in ProcurementKinds /\ status[r] \in {"queued", "running"}}
  /\ UNCHANGED <<rows, roles, starting, supervisors>>

Refunded(r) == IF status[r] = "running" THEN attempt[r] - 1 ELSE attempt[r]

CommitProcurementPause ==
  /\ pausing
  /\ pausing' = FALSE
  /\ locked' = {}
  /\ enabled' = FALSE
  /\ status' = [r \in Run |-> IF r \in locked THEN "paused" ELSE status[r]]
  /\ attempt' = [r \in Run |-> IF r \in locked THEN Refunded(r) ELSE attempt[r]]
  /\ token' = [r \in Run |-> IF r \in locked THEN None ELSE token[r]]
  /\ lease' = [r \in Run |-> IF r \in locked THEN 0 ELSE lease[r]]
  /\ cause' = [r \in Run |-> IF r \in locked THEN "procurement_paused" ELSE cause[r]]
  /\ UNCHANGED <<ready, dismissed, interrupted, archived, monitoring, revision, checked,
                 note, starting, supervisors>>

\* The process dies before it commits.
AbortProcurementPause ==
  /\ pausing
  /\ pausing' = FALSE
  /\ locked' = {}
  /\ UNCHANGED <<rows, roles, starting, supervisors>>

HeldBySwitch(r) ==
  /\ Kind[r] \in ProcurementKinds
  /\ status[r] = "paused"
  /\ cause[r] = "procurement_paused"

ResumeProcurement ==
  /\ "procurement" \in Switches
  /\ ~pausing
  /\ enabled' = TRUE
  /\ status' = [r \in Run |-> IF HeldBySwitch(r) THEN "queued" ELSE status[r]]
  /\ ready' = [r \in Run |-> IF HeldBySwitch(r) THEN TRUE ELSE ready[r]]
  /\ cause' = [r \in Run |-> IF HeldBySwitch(r) THEN None ELSE cause[r]]
  /\ UNCHANGED <<attempt, token, lease, dismissed, interrupted, archived, monitoring,
                 revision, checked, note, transactions, supervisors>>

-----------------------------------------------------------------------------
(* The inventory monitor's side of the queue: each check of a new revision  *)
(* replaces the observation, cancels the reviews still queued and queues    *)
(* one for the revision.  What the check does to orders is not in here.     *)

DataChange ==
  /\ revision < MaxRevision
  /\ revision' = revision + 1
  /\ UNCHANGED <<rows, archived, enabled, monitoring, checked, note, transactions,
                 supervisors>>

SwitchMonitoring ==
  /\ "inventory" \in Switches
  /\ monitoring' = ~monitoring
  /\ UNCHANGED <<rows, archived, enabled, revision, checked, note, transactions,
                 supervisors>>

\* Mutant: a new check cancels finished reviews too.
SupersededAny(r) == Kind[r] = "inventory_review" /\ status[r] \notin {"absent", "running"}

Superseded(r) == Kind[r] = "inventory_review" /\ status[r] = "queued"

ReviewOf(rev) == {r \in Run : /\ Kind[r] = "inventory_review" /\ Rev[r] = rev
                              /\ status[r] = "absent"}

\* review: this process has a model configured.
CheckInventory(review) ==
  /\ monitoring
  /\ checked < revision
  /\ checked' = revision
  /\ note' = None
  /\ status' = IF ~review THEN status
               ELSE [r \in Run |-> IF Superseded(r) THEN "cancelled"
                                   ELSE IF r \in ReviewOf(revision) THEN "queued"
                                   ELSE status[r]]
  /\ cause' = [r \in Run |-> IF review /\ Superseded(r) THEN "superseded_revision"
                             ELSE cause[r]]
  /\ UNCHANGED <<attempt, token, lease, ready, dismissed, interrupted, archived, enabled,
                 monitoring, revision, transactions, supervisors>>

-----------------------------------------------------------------------------
(* Time.                                                                    *)

LeaseRunsDown(r) ==
  /\ lease[r] > 0
  /\ lease' = [lease EXCEPT ![r] = @ - 1]
  /\ UNCHANGED <<status, attempt, token, ready, cause, dismissed, interrupted, roles,
                 transactions, supervisors>>

BackoffElapses(r) ==
  /\ ~ready[r]
  /\ ready' = [ready EXCEPT ![r] = TRUE]
  /\ UNCHANGED <<status, attempt, token, lease, cause, dismissed, interrupted, roles,
                 transactions, supervisors>>

-----------------------------------------------------------------------------
Requests ==
  \E r \in Run : \/ Enqueue(r) \/ EnqueueReply(r)
                 \/ BeginResearch(r) \/ InsertResearch(r) \/ ContinueSearch(r)

Claim(w) == \/ \E r \in Run, t \in Token : ClaimInLane(w, r, t)
            \/ RecoverOnly(w)

\* The ways a run that is not interrupted from outside ends.
Conclude(w) == Complete(w) \/ RecordReview(w) \/ FailRun(w) \/ LoseRun(w)

Supervise(w) ==
  \/ Claim(w) \/ Heartbeat(w) \/ Conclude(w)
  \/ ToolConflict(w) \/ YieldToChat(w) \/ CancelStale(w)
  \/ \E r \in Run : DispatchFromChat(w, r)

Interruption(w) == StopRun(w) \/ Crash(w)

Operate ==
  \/ \E r \in Run : Pause(r) \/ Resume(r) \/ Cancel(r) \/ Discard(r)
  \/ \E c \in Conversation : Archive(c)
  \/ BeginProcurementPause \/ ResumeProcurement \/ SwitchMonitoring

PauseTransaction == CommitProcurementPause \/ AbortProcurementPause

Monitor == DataChange \/ \E review \in BOOLEAN : CheckInventory(review)

Time == \E r \in Run : LeaseRunsDown(r) \/ BackoffElapses(r)

Operation ==
  \/ Requests
  \/ \E w \in Worker : Supervise(w)
  \/ Operate \/ PauseTransaction
  \/ Monitor
  \/ Time

Next == Operation \/ \E w \in Worker : Interruption(w)

Spec == Init /\ [][Next]_vars

\* No process stops or dies.
AliveSpec == Init /\ [][Operation]_vars

-----------------------------------------------------------------------------
(* Safety.                                                                  *)

\* Two supervisors never both hold the current lease of one run, whatever
\* expiries, restarts, pauses and re-claims came between (the lease_token
\* conditions of jobs::heartbeat, event, finish and active).
OneOwner ==
  \A v, w \in Worker : v # w /\ Owns(v) /\ Owns(w) => job[v] # job[w]

\* While a supervisor's token is the row's, the attempt it claimed is the row's
\* attempt, so jobs::finish decides between retry and failure by the row's own
\* count although it compares the number it was handed at the claim.
ClaimedAttemptIsCurrent ==
  \A w \in Worker : Owns(w) => jobAttempt[w] = attempt[job[w]]

\* A run is never started more often than max_attempts, plus once for every
\* time an operator paused it while it ran: expired leases and failures are
\* counted, while stops, yields to a chat and procurement pauses are not.
RetriesBounded ==
  \A r \in Run : attempt[r] <= MaxAttempts + interrupted[r]

\* A conversation never has two unfinished runs, so its history is one
\* exchange after another (jobs::enqueue, one_active_run_per_conversation).
OneActivePerConversation ==
  \A r, s \in Run :
    r # s /\ Conv[r] # None /\ Conv[r] = Conv[s] => ~(status[r] \in Active /\ status[s] \in Active)

\* An archived conversation has no unfinished run, and none comes back to life
\* after it (conversations::archive against the claims, finishes and controls).
ArchivedIsQuiet ==
  \A r \in Run : Conv[r] \in archived => status[r] \notin Active

\* A dismissed search stays finished: no recovery, resume or late supervisor
\* brings it back (research::discard).
DismissedIsOver ==
  \A r \in dismissed : status[r] \in Terminal

\* The review shown beside the inventory check is a completed run about the
\* checkpoint it is shown with ("a newer revision keeps its own findings
\* untouched", purchasing::record_review), although finish and the record are
\* two transactions.
NoteDescribesCheckpoint ==
  note # None => Rev[note] = checked /\ status[note] = "completed"

\* A finished run never changes its outcome (every update of status in
\* src/jobs.rs, scoped_agents.rs, conversations.rs and research.rs).
TerminalIsFinal ==
  [][\A r \in Run : status[r] \in Terminal => status'[r] = status[r]]_vars

\* What a caller sees of a row.
Outcome == [r \in Run |-> IF status[r] \in Active THEN "open" ELSE status[r]]

Lifecycle == INSTANCE RunLifecycle WITH outcome <- Outcome, closed <- archived

\* Behind leases, retries, recoveries, switches and supervisors that die, the
\* queue keeps the simple promise of RunLifecycle.
ImplementsLifecycle == Lifecycle!Spec

\* README: "Procurement pause also pauses its active/queued model jobs".
ProcurementPauseStopsJobs ==
  ~enabled => \A r \in Run : Kind[r] \in ProcurementKinds => status[r] # "running"

-----------------------------------------------------------------------------
(* The inductive invariant behind OneOwner, ClaimedAttemptIsCurrent and      *)
(* RetriesBounded.                                                           *)

\* A supervisor has a run and a token in hand exactly while it works on one.
HandInv ==
  \A w \in Worker :
    IF phase[w] = "idle" THEN job[w] = None /\ jobToken[w] = None
                         ELSE job[w] \in Run /\ jobToken[w] \in Token

\* Exactly the running rows carry a token, and a running row has been claimed.
LeaseInv ==
  \A r \in Run :
    /\ status[r] = "running" <=> token[r] # None
    /\ lease[r] > 0 => status[r] = "running"
    /\ status[r] = "running" => attempt[r] >= 1

\* A token is in one hand only, and the row that carries it is that hand's run,
\* at the attempt that hand claimed.
FenceInv ==
  /\ \A v, w \in Worker : v # w /\ jobToken[v] # None => jobToken[v] # jobToken[w]
  /\ \A w \in Worker, r \in Run :
       jobToken[w] # None /\ jobToken[w] = token[r] => job[w] = r /\ jobAttempt[w] = attempt[r]

\* A run that may be claimed again has an attempt left.
BudgetInv ==
  \A r \in Run :
    /\ attempt[r] <= MaxAttempts + interrupted[r]
    /\ status[r] \in {"absent", "queued", "paused"} => attempt[r] < MaxAttempts + interrupted[r]

\* A row locked by a procurement pause stays as the pause found it.
LockInv ==
  \A r \in locked : Kind[r] \in ProcurementKinds /\ status[r] \in {"queued", "running"}

IInv == TypeOK /\ HandInv /\ LeaseInv /\ FenceInv /\ BudgetInv /\ LockInv

-----------------------------------------------------------------------------
(* Liveness.  Supervisors keep polling and their runs end, clocks run, and a *)
(* transaction in flight ends; nobody has to operate or request anything.    *)

Fairness ==
  /\ \A w \in Worker : WF_vars(Claim(w)) /\ WF_vars(Conclude(w))
  /\ \A r \in Run : WF_vars(LeaseRunsDown(r)) /\ WF_vars(BackoffElapses(r))
  /\ WF_vars(PauseTransaction)

\* From some point on no operator interferes and no process stops or dies: what
\* looks like it is a supervisor's own step (losing a lease, a tool's Conflict)
\* or the monitor's.
Calm ==
  <>[][Operate \/ (\E w \in Worker : Interruption(w))
         => Monitor \/ \E w \in Worker : Supervise(w)]_vars

FairSpec == Spec /\ Fairness /\ Calm

Settled(r) ==
  \/ status[r] \in {"absent", "paused"} \cup Terminal
  \/ status[r] = "queued" /\ ~MayRun(r)

\* Every request is settled in the end: however often supervisors died with it
\* in hand, a run is recovered, retried and finished or failed, or it waits for
\* an operator (paused, or of an agent that is switched off).
RunsSettle == \A r \in Run : <>[]Settled(r)
=============================================================================
