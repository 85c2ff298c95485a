# Verification of the Backhaus backend

TLA+ models of the Rust backend, TLC instances that check them, and TLAPS
proofs. Paths below are relative to the repository; `src/jobs.rs` etc. are the
files of the crate's own `src/`.

## The system

The backend is one process (several may share a database) around PostgreSQL.
Everything durable is a row; in-memory state is limited to sign-in sessions,
the supervisors' hands and the model children they own.

| Part | State | Operations | Talks to |
|---|---|---|---|
| Run queue, `jobs.rs` | `agent_runs`, `agent_events` | enqueue, claim (with recovery of expired leases), heartbeat, active, event, finish, release, control | everything below |
| Agent supervisors, `agent.rs`, `runtime.rs` | the run in hand: id, lease token, attempt | claim, run the model, tick every second, finish / release / abandon | queue, model child, tools |
| Model child, `worker.rs`, `worker/src/*.ts` | one session per run | start, tool calls and results, abort, shutdown, over stdio | supervisor |
| Scoped agents and monitor, `scoped_agents.rs` | switches, checkpoints, observations | control (pause, resume), check_one | queue, purchasing |
| Conversations, `conversations.rs` | `conversations.archived_at` | archive, history | queue |
| Supplier research, `research.rs` | run input (categories, candidates), saved searches, vendors | start, dispatch_from_chat, retry, more, discard; tools: plan, search, save, vet, recommend | queue, search provider |
| Outreach, `outreach.rs` | `supplier_threads`, `supplier_messages` | create, approve, send_email, sync, ingest, review, discard | queue, mail provider |
| Purchasing, `purchasing.rs` | `purchase_orders`, lines, approvals, exports | prepare_drafts, decide, export, record_review | monitor, vendors, settings |
| Vendors and policy, `vendors.rs`, `settings.rs` | vendors, item links, policy | create, update, assign, unassign, policy | purchasing |
| Inventory ledger, `inventory.rs` | balances, movements | record | revision triggers, hence monitor |
| HTTP API and event stream, `api.rs`, `auth.rs` | sessions | handlers, resumable SSE of `agent_events` | all |
| Demo, import, reports, tables, config | | sample data, bulk load, read-only queries, documents | |

### What is hard, and what makes each part correct

- **Run queue.** Leases expire under slow supervisors, processes die, operators
  pause, cancel, archive and dismiss at any time, and the procurement switch
  moves many rows at once. Correct means: one owner at a time; attempts counted
  once per real try; an outcome is final; one unfinished run per conversation;
  everything settles.
- **Supervisors and child.** The `select!` of work_one_in_lane can leave at any
  tick; the child may still run when the supervisor has left. Correct means: no
  tool runs for a lost lease, and nothing a child says late is taken for the run
  that follows.
- **Monitor, purchasing.** Checks, edits and decisions of orders race. Correct
  means: a decision applies to the version its maker saw, an approval follows
  the policy of that moment, one order per need.
- **Outreach.** Sending happens between two transactions, with a retry window.
  Correct means: a message is sent at most once and never after its thread is
  discarded or its question is stale.
- **Research.** An allowance shared by concurrent, retried searches. Correct
  means: never overspent; a saved result is reused.
- **Ledger.** Retried movements. Correct means: one movement per key, the
  balance is the sum of the movements.
- **Event stream.** A cursor over ids that commit out of order. Correct means:
  a reconnecting client misses nothing.

## The modules

| Module | Models | Extends | Instance | Proofs |
|---|---|---|---|---|
| `RunLifecycle` | what a caller of the queue may rely on (abstract) | | through RunQueue | |
| `RunQueue` | the rows of `agent_runs` and everybody who writes them | | `MCRunQueue` | `RunQueueProofs` |
| `AgentWorker` | one supervisor, its child, the pipes between them | | `MCAgentWorker` | `AgentWorkerProofs` |
| `MessageLifecycle` | what the reader of an enquiry's thread may rely on (abstract) | | through OutreachSend | |
| `OutreachSend` | one supplier enquiry, its senders and the mail provider | | `MCOutreachSend` | `OutreachSendProofs` |
| `StockLedger` | stock movements and idempotency keys | | through Purchasing | `StockLedgerProofs` |
| `Purchasing` | inventory checks, orders, decisions, suppliers, limits | `StockLedger` | `MCPurchasing` | `PurchasingProofs`, `DraftsMatchProofs` |
| `SupplierResearch` | search batches, their document, vendors | | `MCSupplierResearch` | `SupplierResearchProofs` |
| `EventLog` | what who follows a run's events may rely on (abstract) | | through EventStream | |
| `EventStream` | the writers and the readers of a run's events | | `MCEventStream` | `EventStreamProofs` |

They compose the system as follows. RunQueue has all actors on the rows of the
queue and takes what a run does as a choice of how it ends; AgentWorker is the
inside of one of its supervisors and takes the other actors on the row as a
choice (`Environment`); EventStream has the events that the queue's
transactions write. Purchasing contains StockLedger: a movement that commits
wakes the monitor. SupplierResearch has what the tools of a search do to data,
with the run reduced to active or over; OutreachSend has what follows once a
vendor is approved.

A constant that only bounds an instance is called a bound where it is declared.
An operator under the comment "Mutant" is a plausible bug of the definition
below it; nothing refers to it.

## RunQueue

One function per column of `agent_runs` (`status`, `attempt`, `token`, `lease`,
`ready`, `cause`, `dismissed`), the switches and checkpoints (`enabled`,
`monitoring`, `revision`, `checked`, `note`), `archived`, the transactions that
are two steps (`starting`, `pausing`, `locked`) and the supervisors' hands
(`phase`, `job`, `jobToken`, `jobAttempt`). `interrupted` is a history variable:
how often an operator paused a run while it ran.

A run is named by its request key: `UNIQUE (workspace_id, request_key)` makes a
second request with the key return the first row, so an element of `Run` is
inserted once. Its kind, conversation, parent and revision are part of its
request and therefore constants. One database transaction is one action, with
these exceptions, where another transaction can commit in between and matter:

- `research::start` reads the switch outside its transaction: `BeginResearch`,
  `InsertResearch`;
- the procurement pause runs two statements under READ COMMITTED:
  `BeginProcurementPause` fixes and locks the rows its UPDATE sees,
  `CommitProcurementPause` makes switch and rows visible. Until then other
  transactions read the old switch; those that need a locked row, or the
  switch `FOR SHARE`, wait (they are not enabled). `AbortProcurementPause`: the
  process dies first;
- `finish` and `record_review` are two transactions: `Complete`, `RecordReview`.

Every exit of `work_one_in_lane` is an action: `Complete`, `FailRun` (model,
tool and child failures and the timeout), `LoseRun`, `ToolConflict`, `StopRun`,
`YieldToChat`, `CancelStale`, and `Crash` for a process that dies or a tick that
fails on the database. Time is `LeaseRunsDown`, one unit of a lease, and
`BackoffElapses`; leases and clocks of different rows are independent, which
allows every interleaving of expiry that real clocks do and more.

Left out: `agent_events` (EventStream has them), results and inputs of runs, the order by `created_at`
among claimable runs of equal priority (any may be claimed), and the deletion of
runs by the demo's reset, which is refused while runs are unfinished.

`RunLifecycle` is what a caller may rely on: a run is open until it has one
outcome, which it keeps; a conversation has at most one open run; closing it
cancels that run. `ImplementsLifecycle` says RunQueue implements it with
`outcome` = open for queued, running and paused rows.

### Runs

`MCRunQueue` gives the instances. Rows are c1, c2 (chats of one conversation),
v1, v2 (searches), s1 (a supplier's reply), i0, i1 (reviews of revisions 0, 1).
Tokens and, where their lanes agree, supervisors are symmetric.

| Run | Instance | Question |
|---|---|---|
| queue_chat | c1, c2; two chat supervisors; 3 attempts; leases of 2 | fencing, attempts, one unfinished run per conversation, archiving, refinement |
| queue_background | either v1, v2 continuing it, s1 and the procurement switch, or c1, i0, i1 and two revisions; the combined and the background lane | interruptions, yields and shutdowns cost no attempt; dismissal and outcomes are final; the note belongs to the checkpoint |
| queue_settle | c1, v1 dispatched by it; one supervisor per lane; the switch | liveness |
| queue_pause_race | v1, s1; one supervisor | violation, see Findings |

queue_background explores the union of two scenarios (the constraint
`SearchesOrReviews`): each leaves the other's rows uninserted and its switch
alone, and is otherwise complete.

Bounds: `LeaseSpan` 1 is enough to separate "before" from "after" expiry, 2 lets
a heartbeat matter; `MaxAttempts` 1 to 3 reaches recovery into failure, retry
and both in a row; three tokens are one more than hands, so a row may keep a
token that no hand holds while both supervisors hold others; `MaxInterrupts`
bounds operator pauses of a running run, the only unbounded way to start one
again; `MaxRevision` 1 gives one superseded revision. Deadlock is not checked:
with every run finished nothing need happen.

Fairness (`FairSpec`, queue_settle): supervisors poll (WF of `Claim`, the loop of
`agent_worker`), a run in hand ends (WF of `Conclude`: `execute` is under a
timeout), clocks run, and a pause in flight commits or is rolled back. Nothing
is assumed of requests or operators. `Calm` says operators and crashes stop at
some point: each of them can otherwise restart a run for ever. A step is
excluded only if it is not also one a supervisor takes by itself, so leases may
still be lost and tools may still answer Conflict. Under it every run ends up
finished, or waits for an operator.

### Proofs

`RunQueueProofs` proves, for every set of rows, conversations, supervisors and
tokens and every bound, from `ConstantsOK` alone:

- `Inductive`: `IInv` is invariant. OneOwner and RetriesBounded are not inductive
  by themselves. `FenceInv` adds that a token is in one hand and that the row
  carrying it is that hand's run at that hand's attempt; `LeaseInv` that
  exactly running rows carry a token; `BudgetInv` that a row that can still be
  claimed has an attempt left, which needs FenceInv at `FailRun` (the attempt
  compared is the hand's) and `LockInv` at `CommitProcurementPause` (the row
  refunded is still the row that was locked).
- `TypeCorrect`, `Fencing`, `ClaimedAttempt`, `RetryBound` follow from `IInv`.
- `Implements`: RunQueue implements RunLifecycle. `MovesStep` shows that all but
  two actions move rows only as `Progress` allows; `Archive` is `Close`, a chat's
  `Enqueue` is `Submit`.
- `Final`, `OneActive`, `Quiet`, `Dismissed` follow from the same lemma.
- `NoteIsCurrent`: the note changes with `RecordReview`, which compares the
  checkpoint, and goes when the checkpoint moves (`NoteStep`).

Only model-checked: `RunsSettle` (liveness under fairness is out of the prover's
reach).

## OutreachSend

One enquiry of one vendor: its thread, its messages, the replies, and everybody
who sends. A message is attempted (`payload` is not None) when its
`send_payload` is frozen; `closed` and `recent` stand for the two clocks a
message has (23 hours since the first attempt, 90 seconds since it was last
marked 'sending'). `older` is the order by `created_at`. The column is DEFAULT
`now()` (`migrations/0008_inventory_outreach.sql:28`), the time of BEGIN, and
every handler takes the thread's advisory lock only after its BEGIN: so the
order is that of `OpenTransaction(x)`, not of the locks or the commits, and a
row may be dated before one that was there before it. `known`, `deliveries`
and `late` are the provider: the idempotency keys it remembers, what it has
delivered, and the requests whose senders have given up but which may still
arrive. The provider is external; it is modelled by what `send_email_at` and its
comments rely on.

`send_email_at` is `Begin` (the transaction that checks, freezes and marks),
the call (`ProviderAccepts`, `CallFails`), then `RecordSent` or the two separate
statements `MarkThreadFailed` and `MarkMessageFailed`. Anything may come in
between, and `Abandon` ends a sender anywhere: a disconnected browser, a
shutdown that drops the loop, a process that dies. An approval is four steps
around it (`Approve`, `Shortlist`, `SendApproved` or `ApprovalRefused`,
`RecordRefusal`); a vendor's discard is three (`ListThreads`, `SweepThread`,
`RejectVendor`). `Ingest`, `Review`, `DraftReply` and `DiscardEnquiry` are one
transaction each under the thread's advisory lock, hence one action each, after
the `OpenTransaction` of the row they write. The model lets a transaction wait
for the lock as long as it likes; in the code the limits of statements (15 s)
and of idle transactions (30 s) end the wait.

`process_replies` is `List`, then the sends of what it listed. The list is the
oldest `ListLimit` reviewed questions of all enquiries, so the module counts
those of other enquiries that are older than this one's: `ahead` are reviewed,
`coming` are still under review. `SendOlder` sends the listed ones (a send that
begins takes its question off the list, whatever becomes of it),
`SendPicked`/`DropPicked` this enquiry's question if it was among them.

Left out: the rest of other enquiries (threads share the vendor row, the
switches and the agent's list), texts and their limits, and the matching of
inbox mail to threads and the listings, which are reads. A cycle of the loop
that ends in an error of the inbox is one in which `List` is not taken. The run
of a reply is reduced to open, completed or closed: RunQueue has the rest.

`MessageLifecycle` is what somebody who reads the thread may rely on, knowing
nothing of senders, clocks, replies or switches: a message is written, tried,
delivered and recorded, in this order; all messages are tried to one address; a
message is delivered once; what was tried is never superseded; a discard ends
every open message in one step; and what is recorded as sent stays so.
`ImplementsLifecycle` says OutreachSend implements it, with `stage` = open for
draft, review_pending, sending and failed messages and `to` = the address in the
frozen payload. A delivery may follow the discard of its message: the request
that carries it may be late.

### Runs

| Run | Instance | Question |
|---|---|---|
| outreach_sends | with stalls: two operators send, approve, retry and draft before any answer; or two replies, their reviews, one question and an operator's draft, with one late request, their transactions overlapping | one delivery, one recipient, sent stays sent, stale questions, the limit of questions, supersession |
| outreach_follow_up | without stalls: the same before any answer, with discards of enquiry and vendor; or one reply, its question, one draft, an older question of another enquiry, the agent's loop with a list of one, and its switches | a discarded enquiry is over; refinement of MessageLifecycle; liveness |
| outreach_stuck | one operator, one reply | violation, see Findings |

`Unanswered`, `Answered` and `FollowedUp` in `MCOutreachSend` are the scenarios.
`Answered` lets two of senders at work, late requests and waiting transactions
overlap, enough for a draft or a review that begins before a reply and gets the
lock after it; `FollowedUp` lets one transaction wait. For the liveness property
the scenario is closed where it matters: once a reply is there, no step of the
loop leaves `FollowedUp`, so the constraint cuts off steps of operators and
beginnings of transactions only, which are not assumed to happen. `ListLimit` 1
and `Backlog` 1 make the list too short for this question while an older one
waits; with the other instances' `Backlog` 0 the list is never full.

`Scope` is a bound: the kinds of events an instance has, so that each instance
spends its states on the races it is about. `Stalls` says whether a request may
outlive the 90 seconds after which its send may be repeated. The time limits of
the call (10 s), the pool (5 s) and the statements (15 s) exclude it unless the
process is suspended. DeliveredOnce, OneRecipient, SentIsFinal and
SupersededWasNeverSent hold with stalls too; DiscardedIsOver does not, because
the second transaction of a send (`src/outreach.rs:590`) marks the thread
awaiting_reply without looking at it, so a stalled sender would revive a
discarded thread. The other assumption on time is that no request is under way
for the hour between the end of the retry window and the end of the provider's
memory. Deadlock is not checked: an enquiry with nothing to do may rest.

Fairness (`FairSpec`, outreach_follow_up): the loop works off a list it has
(`Serve`), and a send of its own ends (`Proceed`), which the time limits give.
`Calm`: from some point on the process that runs the loop is not restarted and
has its database. Nothing is assumed of operators or models. That the loop gets
to its list is not among the fairness, because the code does not give it: any
error of the inbox leaves `process_replies` before the list
(`src/outreach.rs:713`), and one matching e-mail above a megabyte is such an
error in every cycle (`src/research.rs:153`). `QuestionsLeave` therefore has it as
its hypothesis, `InboxIsRead`, beside the switches that stay on: what it says is
that nothing in the database, be it a stuck message, a failed send or questions
of other enquiries at the head of the list, keeps a question waiting.

### Proofs

`OutreachSendProofs` proves, for every set of messages, replies, operators and
addresses, with and without stalls, from `ConstantsOK` alone:

- `Inductive`: `IInv` is invariant. DeliveredOnce is not inductive by itself: a
  second delivery needs a message the provider has forgotten, and `DeliverInv`
  says that such a message is past its retry window with no request left, so no
  `Begin` can take it up again. `AttemptInv` says that what reached the provider
  is frozen, and for the thread's recipient; `CurrentInv` that a question that
  waits is current by the dates of the rows, because whatever would make it stale
  supersedes it when it commits, or finds it not yet written, and then the review
  that writes it finds the row;
  `CallInv` (without stalls) that a message has one sender, which `BeingSent`
  gives, so that `Busy` keeps a discard away from every sender.
- `Delivered`, `Recipient`, `Superseded`, `Bounded` follow from it, `Discarded`
  without stalls.
- `Final` and `Fresh` (SentIsFinal, QuestionIsCurrent) are action properties:
  `WritersStep` says which steps write something new, `PayloadStep` that only
  `Begin` freezes a payload.

- `Implements`: OutreachSend implements MessageLifecycle (`LifecycleStep`, one
  lemma per abstract action). `Begin` is `Try` the first time and a stutter
  afterwards (`TryingStep`, where the address is the thread's by `AttemptInv`);
  an acceptance by the provider is `Deliver` or, for a key it remembers, a
  stutter (`DeliveringStep`, from `DeliverInv`); `DiscardEnquiry` and each
  `SweepThread` find nothing being sent, so they end all open messages
  (`DiscardingStep`); reviews and drafts only supersede what was never tried
  (`RevisingStep`).

Each part of the invariant has a lemma with one step per kind of action
(`StepKinds`). Only model-checked: `QuestionsLeave` (liveness).

## AgentWorker

One supervisor (a lane of one process), the child it owns and the two pipes.
`phase` is where `work_one_in_lane` is: spawning and idle are the loop of
`agent_worker`; preparing, driving, calling and keeping are `execute` before the
Run message, at the next message of the child, in a tool, and between the
answer and `finish`; draining is the wait of `abort_run`. The child's side is
`worker.ts`: it takes one line at a time, has at most one session, and inside it
one tool call at a time.

The protocol names a run by its id. That a run may be claimed again while the
child still works for its last claim is what makes the drain necessary, so the
model numbers the claims of a run (`<<run, n>>`; the code's `lease_token`) and
lets messages carry, as history no guard reads, the claim whose session they
belong to. `uses` collects, for every tool executed and answer kept, the claim
and the session it came from.

Every exit is there: an answer, a failure, `worker_busy` and `worker_error`
(`HearBusy`: the child is replaced, unless the row is lost, when the failed event
write turns the exit into a Conflict), a cancellation, a dead child, a timeout
(`Fail`), a lost row (`LoseRun`), a stop or a yield (`Release`), a Conflict, and
a statement that fails (`StatementFails`, which leaves by `?` with the child as
it is). `lapses` records the two ways a child is kept without its terminal
message.

Left out: text deltas and limits, backoff, the other processes (a lease that
runs out stands for them: the row is claimed again only by this supervisor, the
only one its pipes could confuse), the kill at shutdown.

Run agent_worker: two symmetric runs, three claims in all, two attempts, one
tool call per session, one lapse. Two claims of one run are needed for
`WorkIsFresh`, two runs for `WorkIsForItsRun`; a third claim lets a confusion
pass over a run in between. `WorkIsFresh` speaks of children without a lapse:
with one it is false, which is the finding worker_unacked. Deadlock is not
checked: the claims may be used up.

`AgentWorkerProofs` proves both properties for any runs, attempts, calls and
lapses, from `ConstantsOK`. `WorkStaysWithItsRun` rests on `WorkInv`: whatever
the supervisor keeps in hand came from a message that names its run.
`WorkKeptIsFresh` rests on `FreshInv`: without a lapse, between two runs the child
is at rest and nothing is in its pipes (`Tidy`), because the drain of `abort_run`
reads until the run's terminal message; so what a supervisor reads during a claim
was written in it.

## StockLedger and Purchasing

`inventory::record` is one transaction with two locks: the advisory lock of the
idempotency key, then the row of the item. Between the locks other calls
proceed, so it is `Arrive`, `LockKey`, `LockItem` (which reads the balance and the
stored request), then one of `Reuse`, `Refuse`, `Apply`; `Abandon` is a rollback
anywhere. A caller that lost its answer and asks again is a second element of
`Call` with the same key and payload.

An inventory check is one REPEATABLE READ transaction and three steps:
`CheckBegin` takes the role's lock and the snapshot, `CheckLock` locks the
existing drafts and fails on one that changed since, `CheckCommit` writes what
`prepare_drafts` computed on the snapshot (`AfterCheck`). Everything else may
commit in between. Other transactions lock the row they read before they read
it, and are one step each. `Asked` to `ApprovalReason` are the ordering rule and
the approval rule as functions of a snapshot; decimals are integers.

Operators work from dialogs: `form` is one dialog left open, with the row as it
was shown; every edit and decision is submitted from it or from a dialog opened
just before (`Submit`), with the version it showed. `revision` is bumped by the
statement triggers once per transaction (the code's triggers bump it once per
statement; the monitor only compares it with the checkpoint). A rule's `born` is
history: the revision of its creation. A vendor's contact is the set of its details
(e-mail, phone), of which research fills in those that are missing; `JudgeVendor`
discards a vendor or shortlists it, which also restores a discarded one.

Left out: the audit rows, the copied `inventory_items.supplier` name, the names
and texts of vendors, the lock-free read of the limits by `decide_versioned`
beside an `UpdatePolicy` (one step, as if before it), more than one dialog, and
the demo's reset.

Run purchasing: two items, two vendors and one that may be created, two
monitors, two revisions, three orders, vendors with no contact, an e-mail or both
details, and terms that are cheaper by the pack, by the unit, or unpriced. Two data changes are what it takes to change stock or
rules before and during a check. `OneOrTheOther`: either operators edit and
decide beside one delivery, or any two stock movements (the same delivery
twice, its key on another item, one that expects an older balance, an issue of
more than there is, a count) run beside the checks. Monitors and calls are
taken in order (`InOrder`), since they are alike. `MaxCheckItems` is 2, so the
LIMIT never cuts; see Divergences. Deadlock is not checked: the revisions may be
used up.

`StockLedgerProofs` proves, for any items, keys, payloads and calls, from
`LedgerConstantsOK` and `NoneIsNoRequest`, that movements add up
(`MovementsAddUp`) and keys apply once (`KeysApplyOnce`). The inductive invariant
`LedgerInv` says that a key and an item have one holder (`OneHolder`), that what
a holder read is still so when it writes (`LocksHeld`), that what is stored under
a key is what was applied (`Stored`, `Told`, `Used`), and that the movements of an
item form a chain (`Chain`).

`PurchasingProofs` shows first that every purchasing step is a step of the
ledger or leaves it alone (`PurchasingKeepsLedger`: PurchasingSpec implements
LedgerSpec), so both properties hold beside the checks and the edits. Then, for
any vendors, monitors, orders, terms, limits and edits:

- `NoCheckWhilePaused`: a pause finds no check under way (`PausedIsQuiet`).
- `DecidedOrdersAreFinal`, from `OrdersInv`: orders are numbered without a gap
  (`NoGap`), so the numbers a check takes by counting are free, and a check that
  has locked the drafts sees them as they are (`ChecksHold`), so it does not
  write what was decided since its snapshot.
- `NoShortageTwice`, `DraftsCountOnOrder`, `RejectedIsNotRepeated`, from
  `DraftsInv`: a check that has locked the drafts sees every order as it is
  (`Current`); a check writes one order per vendor and an item has one preferred
  vendor (`RulesInv`), so orders it writes share no item (`TakenApart`); hence an
  order approved by the check, or by an operator meanwhile, changes what is on
  order for no item of another draft.
- `SavesReplaceWhatWasShown`, from `EditsInv`: a row's version never falls, and
  while it is what an open dialog read, so is the row, but for contact details that
  research added (`Supplemented`) and a rule that was created again (`FormInv`). A check raises the
  version of an order whose lines it changes and takes no number in use
  (`OrdersMove`); every edit of a supplier, rule or limit raises the row's version
  (`CatalogueMoves`).

`DraftsMatchProofs` adds the arithmetic of an order:

- `PacksCover`: the packs a check orders cover the shortage, and no fewer would.
  The amounts on order are a fold over a set, whose definition chooses the order
  of the summands; the supporting lemma `SumAddsOne` splits one off. In place of
  an induction, a smallest subset for which a claim would fail is taken
  (`Smallest`): so the function the fold defines exists (`SumsExist`) and two of
  them agree (`SumsAgree`).
- `DraftsMatchWhatIsExamined`, from `MatchInv`: a check read the stock and the
  catalogue as they are or as they were at an earlier revision (`Reads`). If the
  revision has not moved when it commits, what it computed is what the committed
  rows call for (`CommitSettles`); otherwise the checkpoint stays behind and
  nothing is claimed. A decision keeps it so: what is approved is on order and
  `PacksCover` leaves no shortage, what is rejected is held (`DecisionSettles`).
- `DraftsMatchTheStock` is DraftsMatchStock itself. Its hypothesis,
  `Cardinality(Item) <= MaxCheckItems`, is needed: with more items below par than a
  check examines the code drops the rest and still marks the revision as
  checked (see Divergences). The theorem before it needs no such hypothesis and
  says that this is all that is missed.

They rest on `PurchasingConstantsOK` (a target is a natural number, by the CHECK
of `migrations/0006_purchasing.sql:34`); the theorem on edits also on `EditsOK` (dialogs are
of vendors and rules there can be) and `NoneIsNoRow` (the value that stands for a
missing row is no row).

## SupplierResearch

Batches are runs of the queue, here active or over. The model's plan, its
candidates and recommendations, those of earlier batches and the vendors it must
not offer again are one JSON document in `agent_runs.input`, read and written
back whole by `Place`/`SaveKnown`/`SaveNew` and `Weigh`/`Recommend` under the row
lock. A tool call is `call[x]`, with what its handler has read; `Drop` is a
supervisor that leaves (a stop, a lost run), which drops the future: its
transaction rolls back and its session is closed with its locks.

`search_at` holds the run's advisory lock from before it reads the saved
searches until after the provider's answer: `Acquire`, then `Answer` or
`NoAnswer`. `save` locks the run's row, looks the name up (`Place`), takes the
name's lock and looks it up again (`LockName`), then writes.

Left out: the checks of evidence (URLs, quotes, addresses), contact details
beyond having one, website matching, and the ten-entry cap on evidence.

Run research: two calls; `SearchLimit` and `PerCategory` 1 make one too many
reachable by two calls; three batches let an expansion follow a retry. The
constraint is the union of three scenarios: `Searching` (calls of a batch and
its retry), `Saving` (two calls and the operator in one batch), `Continuing`
(batch after batch, with renames). Fairness: a provider call ends, by its timeout
at the latest (WF), and a waiter that keeps finding the lock free gets it (SF:
PostgreSQL queues the waiters). For `SearchesEnd` the scenario `Searching` is
closed under all steps of calls that search, so the constraint hides no waiting
call that would not be served.

`SupplierResearchProofs` proves, for any categories, names, batches and calls,
from `ResearchConstantsOK` and `NoneIsNoRun`, that no candidate is lost
(`NoCandidateLost`) and that recommendations are candidates
(`RecommendationsAreCandidates`): a tool that writes the document back has held
the run's row since it read it (`OneRow`), so what it writes is the document as it
is (`Callers`) with what it adds. Further:

- `AllowanceHolds` (with `CategoriesAreFinite`), from `SearchInv`: the call that
  asks the provider is the only one of its run (`OneAsks`), so its search is the
  only one not yet counted (`Spent`), and the plan, which sets the allowance,
  changes only while nothing is saved (`PlansKept`).
- `CandidatesAreBounded` (with `NoneIsNoVendor`), from `OffersInv`. A save holds
  the run's row, so the plan, the room and the exclusions it read stay; but it
  holds no vendor, and the names it looked up are the operator's to change. What
  it found stays true except about renamed vendors (`Checked`, `StaysFit`): a
  vendor gets a name by its insertion, which the name's lock excludes, or by a
  rename. A plan replaced after the first candidate would leave candidates
  outside it; `Sound` says there is none before the first search and SearchInv
  that the plan is fixed from then on.

Only model-checked: `SearchesEnd` (liveness).

## EventStream

The rows of one run's events, the transactions that write them, and one browser
with its connection. `next` is the bigserial sequence: a writer takes its id
before it commits, and may never commit. Every writer of the code holds the row
of the run first (`UPDATE ... RETURNING` or `FOR UPDATE`), which is `LockRun`.
`server` is the loop of `api::events`: a page of events past the cursor (`Poll`),
one `Send` per row, then the run's status and the pending check. The browser's
side (`Receive`, `Connect` with the last id) is the EventSource standard, marked
external.

`EventLog` is what a follower may rely on, knowing nothing of transactions, pages
or connections: a log that grows at its end only, in which a run is completed or
cancelled but not both and works no more after that, and of which each entry is
delivered once and in order. `DeliversTheLog` says EventStream implements it, with
the committed events as the log.

Run event_stream: two writers, five ids, pages of two rows, three connections. Fairness: the server's loop and the wire make progress, and a
browser that has not seen the end reconnects; losses are bounded by
`MaxConnects`. Under it `EndIsReceived`.

`EventStreamProofs` proves, for any number of writers, ids, page size and
connections, from `StreamConstantsOK` alone, the inductive invariant
`StreamInvHolds` and from it `NothingSkipped` and `EndIsSent`. What
makes it inductive is that only the holder of the row's lock has an id that is
not committed, and that it is larger than every committed one; so a cursor has
nothing uncommitted behind it. `Implements` proves DeliversTheLog: a commit is an
`Append` (`CommitIsAppend`; that it fits the run's outcome needs `LogInv`: what a
writer decided under the lock still fits the status when it commits), a receipt
is the `Deliver` of the first entry missing (`ReceiveIsDeliver`), every other step
a stutter. Only model-checked: `EndIsReceived` (liveness).

## Findings

- **A procurement pause can miss a run** (queue_pause_race). `README.md:105`:
  "Procurement pause also pauses its active/queued model jobs". A reply inserted
  after the pause's UPDATE and claimed before its commit stays running while the
  switch is off (`src/scoped_agents.rs:79`).
- **A dead sender leaves its enquiry stuck** (outreach_stuck). A discard is
  refused with "A message is being sent. Wait for its result before discarding"
  (`src/outreach.rs:748`), but a message can stay 'sending' with no result to
  come: the send button takes the newest e-mail only, and after 23 hours no send
  may be repeated. Discards and drafts of the enquiry are then refused for good.
- **An unacknowledged cancellation is ignored after a Conflict**
  (worker_unacked). "Failure means the caller must replace this worker"
  (`src/worker.rs:276`), but the Conflict exit (`src/agent.rs:618`) drops the
  failure and keeps the child. The next claim meets a busy child or, if it is of
  the same run, the abandoned session's messages. A statement that fails in a
  tick (`src/agent.rs:567`) has the same effect.

## Divergences without a run

Read from the code and modelled as it is, but shown by no run of their own.

- **A business Conflict abandons its run.** The Conflict exit assumes that "the
  control action already recorded state" (`src/agent.rs:617`), but tools answer
  Conflict for reasons of their own (no location set, procurement paused), and
  the row stays running, its conversation busy, until the lease expires; each
  retry spends an attempt.
- **A vendor's discard can miss an enquiry.** "Discarding a vendor with an active
  enquiry must also stop future replies" (`src/outreach.rs:773`); one created
  between the listing of the threads and the mark on the vendor survives.
- **A check is truncated.** "purchasing checks examine at most 500 items (larger
  workspaces fail explicitly)" (`README.md:74`); `prepare_drafts` takes the first
  500 items below par (`LIMIT`, `src/purchasing.rs:255`) and drafts for those;
  drafts of vendors whose items fall behind the limit are withdrawn.
- **Stale edits that do not conflict** (`src/vendors.rs:2` "stale edits
  conflict"). A rule removed and created again counts its versions from 1, so a
  dialog of the old rule may overwrite the new one; research fills in an e-mail
  or a phone that a vendor lacks without a new version (`src/research.rs:678`).
  `EditsAreCurrent` excepts both.
- **A draft that waited for the lock is not seen.** A review hands the thread to a
  person when an operator's draft is dated later than its reply
  (`src/outreach.rs:437`). A draft whose transaction began before the reply's and
  got the lock after it is dated earlier: the review asks its question beside it,
  and the question goes out while the draft waits. `QuestionIsCurrent` is therefore
  stated by `created_at`, for drafts and for replies (`src/outreach.rs:428`), and
  says nothing of rows dated earlier and written later.
- **One e-mail can stop the follow-ups.** An e-mail of more than a megabyte that
  matches a thread is refused with an error (`src/research.rs:153`), which `sync`
  hands to `process_replies` (`src/outreach.rs:713`); it is not marked as read, so
  every later cycle ends there and no agent's question is sent until the provider
  no longer lists it.
- **Names.** Vendors are compared by lower-cased name, but the unique index is
  on the name as written (`migrations/0006_purchasing.sql:19`) and
  `vendors::create` takes no lock on the name, so two spellings may both be
  created.

## Only model-checked

Every invariant and action property of the passing runs is stated by a theorem.
Liveness (`RunsSettle`, `QuestionsLeave`, `SearchesEnd`, `EndIsReceived`) is out
of the prover's reach and is checked on the instances only. The violations under
Findings are shown by runs.

## Not modelled

- `auth.rs`: every operation on the table of sessions is one critical section.
- `demo.rs`: the file is sample data and the arithmetic that makes it; populate
  and clear replace the business tables in one transaction.
- `import.rs`: a command-line loader that runs before the service.
- `tables.rs`, `data.rs`, `reports.rs`: reads; a report is one insert keyed by run
  and request hash.
- `config.rs`, `main.rs`, `lib.rs`: start-up.
- The other handlers of `api.rs`: each calls one operation of a component.
- The sales check of `scoped_agents.rs`: it reads sales and writes its own
  observation, which nothing else reads.
