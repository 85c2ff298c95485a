---------------------------- MODULE OutreachSend ----------------------------
(***************************************************************************)
(* One supplier enquiry (src/outreach.rs): a row of supplier_threads, its   *)
(* supplier_messages, the requests that send them through the mail          *)
(* provider, the supplier's replies with the questions the procurement      *)
(* agent prepares, and the ways an enquiry is dropped.                      *)
(*                                                                          *)
(* Every handler that changes messages takes the advisory lock of the       *)
(* thread, so each transaction is one step, but for its BEGIN, which comes  *)
(* before the lock and dates the rows it writes.  A send is a transaction,  *)
(* the call of the provider and further transactions, and another handler   *)
(* may run, or the process die, between any two.  Of a vendor's enquiries   *)
(* the module follows one; the transactions of different threads share the  *)
(* vendor row and the switches, and the agent's list takes the oldest       *)
(* questions of all.                                                        *)
(***************************************************************************)
EXTENDS Integers, FiniteSets

CONSTANTS
  Initial,       \* the message create_enquiry writes
  Draft,         \* messages operators write, by their request_id
  Question,      \* messages the agent's reviews write
  Reply,         \* the supplier's replies, by provider_id
  Source,        \* Source[q]: the reply a question answers (source_message_id)
  Pasted,        \* the replies that came by WhatsApp and were pasted by an operator
  Operator,      \* requests of operators in flight: browser tabs
  Agent,         \* the loop of runtime::run that calls process_replies
  Address,       \* e-mail addresses a vendor row may get
  None,          \* SQL NULL: no usable address, no payload, nothing in hand
  MaxQuestions,  \* the literal 3 in review
  ListLimit,     \* the LIMIT 3 of process_replies
  Backlog,       \* bound: how many older questions of other enquiries wait at a time
  Scope,         \* bound: which of these happen: "approve", "address", "reject", "switch",
                 \* and a "day" that passes
  Stalls         \* may a request outlive the 90 seconds after which a send may be repeated?

Message == {Initial} \cup Draft \cup Question
Row == Message \cup Reply
Sender == Operator \cup {Agent}

ASSUME ConstantsOK ==
  /\ Initial \notin Draft \cup Question \cup Reply
  /\ Draft \cap Question = {}
  /\ Reply \cap (Draft \cup Question) = {}
  /\ Source \in [Question -> Reply]
  /\ \A p, q \in Question : Source[p] = Source[q] => p = q
  /\ Pasted \subseteq Reply
  /\ Agent \notin Operator
  /\ None \notin Address \cup Message
  /\ IsFiniteSet(Question)
  /\ MaxQuestions \in Nat
  /\ ListLimit \in Nat \ {0}
  /\ Backlog \in Nat
  /\ Scope \subseteq {"approve", "address", "reject", "switch", "day"}
  /\ Stalls \in BOOLEAN

Live == {"draft", "whatsapp_opened", "awaiting_reply", "reply_received", "reply_ready",
         "offer_ready", "needs_attention", "send_failed"}
ThreadStates == {"none", "discarded"} \cup Live
MessageStates == {"absent", "draft", "review_pending", "sending", "sent", "failed",
                  "superseded", "discarded"}

VARIABLES
  \* supplier_threads and the vendor's row
  thread,     \* status, "none" before the enquiry exists
  recipient,  \* recipient_email
  address,    \* vendors.email
  rejected,   \* vendors.research_status = 'discarded'
  \* supplier_messages
  state,      \* status of the outbound messages
  payload,    \* to whom send_payload is addressed; None until the first attempt
  closed,     \* the messages whose first_attempt_at is more than 23 hours ago
  recent,     \* the messages being sent whose updated_at is less than 90 seconds ago
  reply,      \* status of the inbound messages
  older,      \* older[x]: the rows whose transaction began before x's, {} until x's begins:
              \* created_at is DEFAULT now(), the time of BEGIN
  ahead,      \* while a question of this enquiry waits: how many older ones of other
              \* enquiries wait too, their reviews complete
  coming,     \* and how many older ones there are whose reviews are still at work
  \* agent_runs and the switches
  run,        \* run[r]: status of the supplier_reply run of r (RunQueue has its whole life)
  enabled,    \* procurement's switch
  auto,       \* business_settings.auto_reply
  \* requests in flight
  phase, hand,
  approving,  \* the operators' requests that are approvals (approve_candidate)
  sweep,      \* a discarding candidate_action: "no", "listed" its threads, "swept" them
  \* the mail provider
  known,      \* the idempotency keys it remembers
  deliveries, \* how often it has accepted a message for delivery
  late        \* requests the sender has given up that may still arrive

threadVars == <<thread, recipient, address, rejected>>
attemptVars == <<payload, closed, recent>>
replyVars == <<reply, run>>
orderVars == <<older, ahead, coming>>
switchVars == <<enabled, auto>>
senderVars == <<phase, hand, approving>>
providerVars == <<known, deliveries, late>>
vars == <<threadVars, state, attemptVars, replyVars, orderVars, switchVars, senderVars, sweep,
          providerVars>>

Phases == {"idle", "drafted", "unreachable", "shortlisted", "listed", "picked", "calling",
           "accepted", "failed", "halfway", "refused"}

TypeOK ==
  /\ thread \in ThreadStates
  /\ recipient \in Address \cup {None}
  /\ address \in Address \cup {None}
  /\ rejected \in BOOLEAN
  /\ state \in [Message -> MessageStates]
  /\ payload \in [Message -> Address \cup {None}]
  /\ closed \in SUBSET Message
  /\ recent \in SUBSET Message
  /\ reply \in [Reply -> {"absent", "received", "reviewed"}]
  /\ older \in [Row -> SUBSET Row]
  /\ ahead \in 0..Backlog /\ coming \in 0..Backlog
  /\ ahead + coming <= Backlog
  /\ run \in [Reply -> {"absent", "open", "completed", "closed"}]
  /\ enabled \in BOOLEAN
  /\ auto \in BOOLEAN
  /\ phase \in [Sender -> Phases]
  /\ hand \in [Sender -> Message \cup {None}]
  /\ approving \in SUBSET Operator
  /\ sweep \in {"no", "listed", "swept"}
  /\ known \in SUBSET Message
  /\ deliveries \in [Message -> Nat]
  /\ late \in SUBSET Message

Init ==
  /\ thread = "none"
  /\ recipient = None
  /\ address \in Address
  /\ rejected = FALSE
  /\ state = [m \in Message |-> "absent"]
  /\ payload = [m \in Message |-> None]
  /\ closed = {}
  /\ recent = {}
  /\ reply = [r \in Reply |-> "absent"]
  /\ older = [x \in Row |-> {}]
  /\ ahead = 0
  /\ coming = 0
  /\ run = [r \in Reply |-> "absent"]
  /\ enabled = TRUE
  /\ auto = TRUE
  /\ phase = [s \in Sender |-> "idle"]
  /\ hand = [s \in Sender |-> None]
  /\ approving = {}
  /\ sweep = "no"
  /\ known = {}
  /\ deliveries = [m \in Message |-> 0]
  /\ late = {}

-----------------------------------------------------------------------------
(* Rows and their order.                                                    *)

\* The transactions that have begun; nobody knows a thread before its first
\* message is committed.
Begun == {Initial} \cup {x \in Row : older[x] # {}}

\* Whoever writes row x may wait for the lock of the thread from here on, and
\* rows of transactions that began later may be there before x; a transaction
\* that failed and is tried again begins anew.
OpenTransaction(x) ==
  /\ thread \in Live
  /\ \/ x \in Draft /\ state[x] = "absent"
     \/ /\ x \in Reply /\ reply[x] = "absent"
        /\ x \notin Pasted => \E m \in Message : state[m] = "sent"
     \/ /\ x \in Question /\ state[x] = "absent"
        /\ reply[Source[x]] = "received" /\ run[Source[x]] = "open"
  /\ older' = [y \in Row |-> IF y = x THEN Begun \ {x} ELSE older[y] \ {x}]
  /\ UNCHANGED <<threadVars, state, attemptVars, replyVars, ahead, coming, switchVars,
                 senderVars, sweep, providerVars>>

\* The messages of the given statuses become status new.
Becoming(old, new, S) == [m \in Message |-> IF m \in S /\ state[m] \in old THEN new ELSE state[m]]

Attempted == {m \in Message : payload[m] # None}
Unattempted == Message \ Attempted

ByEmail(m) == m \notin {q \in Question : Source[q] \in Pasted}

\* The latest e-mail to the supplier, which the send button sends.
Newest(m) ==
  /\ state[m] # "absent" /\ ByEmail(m)
  /\ \A n \in Message \ {m} : state[n] # "absent" /\ ByEmail(n) => n \in older[m]

-----------------------------------------------------------------------------
(* The enquiry.                                                             *)

\* create_enquiry: an enquiry that exists is returned as it is.
Prepare ==
  \/ /\ thread = "none"
     /\ ~rejected
     /\ thread' = "draft"
     /\ recipient' = address
     /\ state' = [state EXCEPT ![Initial] = "draft"]
     /\ UNCHANGED <<address, rejected>>
  \/ /\ thread \in Live
     /\ UNCHANGED <<threadVars, state>>

CreateEnquiry ==
  /\ thread = "none"
  /\ Prepare
  /\ UNCHANGED <<attemptVars, replyVars, orderVars, switchVars, senderVars, sweep,
                 providerVars>>

\* whatsapp: a composer with the text is opened; nothing counts as sent.
OpenWhatsApp ==
  /\ thread = "draft"
  /\ thread' = "whatsapp_opened"
  /\ UNCHANGED <<recipient, address, rejected, state, attemptVars, replyVars, orderVars,
                 switchVars, senderVars, sweep, providerVars>>

\* vendors::update.
ChangeAddress ==
  /\ "address" \in Scope
  /\ address' \in (Address \cup {None}) \ {address}
  /\ UNCHANGED <<thread, recipient, rejected, state, attemptVars, replyVars, orderVars,
                 switchVars, senderVars, sweep, providerVars>>

\* draft_reply: the operator's text replaces whatever has not been attempted.
DraftReply(d) ==
  /\ thread \in Live
  /\ state[d] = "absent" /\ d \in Begun
  /\ \A m \in Message : state[m] # "sending"
  /\ state' = [Becoming({"draft", "review_pending"}, "superseded", Unattempted)
                 EXCEPT ![d] = "draft"]
  /\ thread' = "reply_ready"
  /\ UNCHANGED <<recipient, address, rejected, attemptVars, replyVars, orderVars, switchVars,
                 senderVars, sweep, providerVars>>

-----------------------------------------------------------------------------
(* Sending.                                                                 *)

\* A send that crashed, or was given up, may be repeated after 90 seconds.
BeingSent(m) == state[m] = "sending" /\ m \in recent

\* Mutant: a retry is always thought safe.
RetryWindowIgnored(m) == TRUE

\* The provider remembers an idempotency key for 24 hours from its first use.
RetryWindowOpen(m) == m \notin closed

\* Agents' questions wait for their review, and for the switch.
Released(m) == \A q \in Question : q = m => enabled /\ run[Source[q]] = "completed"

\* Mutant: the thread follows the vendor's row for ever.
AlwaysRefreshed == address

\* Until the first attempt the thread follows the vendor's row.
Refreshed == IF Attempted = {} THEN address ELSE recipient

Sendable(m) ==
  /\ thread # "discarded"
  /\ state[m] \notin {"absent", "discarded", "superseded", "sent"}
  /\ ~BeingSent(m)
  /\ Released(m)
  /\ Refreshed # None
  /\ RetryWindowOpen(m)

\* The transaction before the call: it freezes what is sent and to whom.
Begin(s, m) ==
  /\ Sendable(m)
  /\ state' = [state EXCEPT ![m] = "sending"]
  /\ recipient' = Refreshed
  /\ payload' = [payload EXCEPT ![m] = IF @ = None THEN Refreshed ELSE @]
  /\ recent' = recent \cup {m}
  /\ phase' = [phase EXCEPT ![s] = "calling"]
  /\ hand' = [hand EXCEPT ![s] = m]
  /\ UNCHANGED <<thread, address, rejected, closed, replyVars, orderVars, switchVars, approving,
                 sweep, providerVars>>

Go(s, p) ==
  /\ phase' = [phase EXCEPT ![s] = p]
  /\ hand' = IF p = "idle" THEN [hand EXCEPT ![s] = None] ELSE hand
  /\ approving' = IF p = "idle" THEN approving \ {s} ELSE approving

\* The send button (api::outreach email route).
SendNewest(o) ==
  /\ phase[o] = "idle"
  /\ \E m \in Message : Newest(m) /\ Begin(o, m)

\* What the provider does with a request: a key it remembers is not delivered again.
Accept(m) ==
  /\ known' = known \cup {m}
  /\ deliveries' = IF m \in known THEN deliveries ELSE [deliveries EXCEPT ![m] = @ + 1]

ProviderAccepts(s) ==
  /\ phase[s] = "calling"
  /\ Accept(hand[s])
  /\ Go(s, "accepted")
  /\ UNCHANGED <<threadVars, state, attemptVars, replyVars, orderVars, switchVars, sweep, late>>

\* Refused, timed out, or the answer or the database failed: the sender cannot
\* tell, and a request that timed out may still arrive.
CallFails(s) ==
  /\ phase[s] \in {"calling", "accepted"}
  /\ Go(s, "failed")
  /\ late' = IF phase[s] = "calling" THEN late \cup {hand[s]} ELSE late
  /\ UNCHANGED <<threadVars, state, attemptVars, replyVars, orderVars, switchVars, sweep, known,
                 deliveries>>

LateArrival(m) ==
  /\ m \in late
  /\ Accept(m)
  /\ late' = late \ {m}
  /\ UNCHANGED <<threadVars, state, attemptVars, replyVars, orderVars, switchVars, senderVars,
                 sweep>>

LateLoss(m) ==
  /\ m \in late
  /\ late' = late \ {m}
  /\ UNCHANGED <<threadVars, state, attemptVars, replyVars, orderVars, switchVars, senderVars,
                 sweep, known, deliveries>>

RecordSent(s) ==
  /\ phase[s] = "accepted"
  /\ state' = [state EXCEPT ![hand[s]] = "sent"]
  /\ recent' = recent \ {hand[s]}
  /\ thread' = "awaiting_reply"
  /\ Go(s, "idle")
  /\ UNCHANGED <<recipient, address, rejected, payload, closed, replyVars, orderVars,
                 switchVars, sweep, providerVars>>

\* A failure is recorded by two statements, each its own transaction.
MarkThreadFailed(s) ==
  /\ phase[s] = "failed"
  /\ thread' = IF thread = "discarded" THEN thread ELSE "send_failed"
  /\ Go(s, "halfway")
  /\ UNCHANGED <<recipient, address, rejected, state, attemptVars, replyVars, orderVars,
                 switchVars, sweep, providerVars>>

\* Mutant: the second statement without its AND status='sending'.
FailedAnyway(m) == [state EXCEPT ![m] = "failed"]

Failed(m) == Becoming({"sending"}, "failed", {m})

MarkMessageFailed(s) ==
  /\ phase[s] = "halfway"
  /\ state' = Failed(hand[s])
  /\ recent' = recent \ {hand[s]}
  /\ Go(s, IF s \in approving THEN "refused" ELSE "idle")
  /\ UNCHANGED <<threadVars, payload, closed, replyVars, orderVars, switchVars, sweep,
                 providerVars>>

\* The client disconnects, the database fails before the send has begun, the
\* loop is dropped by a shutdown, or the process dies.
Abandon(s) ==
  /\ phase[s] # "idle"
  /\ late' = IF phase[s] = "calling" THEN late \cup {hand[s]} ELSE late
  /\ Go(s, "idle")
  /\ UNCHANGED <<threadVars, state, attemptVars, replyVars, orderVars, switchVars, sweep, known,
                 deliveries>>

-----------------------------------------------------------------------------
(* Approval of a researched supplier: enquiry, vendor and send in a row.    *)

Approve(o) ==
  /\ "approve" \in Scope
  /\ phase[o] = "idle"
  /\ ~rejected
  /\ Prepare
  /\ phase' = [phase EXCEPT ![o] = IF Refreshed = None THEN "unreachable" ELSE "drafted"]
  /\ approving' = approving \cup {o}
  /\ UNCHANGED <<hand, attemptVars, replyVars, orderVars, switchVars, sweep, providerVars>>

\* The UPDATE to 'shortlisted' does not touch a vendor discarded meanwhile.  A
\* supplier that had no address when the enquiry was read is not written to.
Shortlist(o) ==
  /\ phase[o] \in {"drafted", "unreachable"}
  /\ Go(o, IF rejected \/ phase[o] = "unreachable" THEN "idle" ELSE "shortlisted")
  /\ UNCHANGED <<threadVars, state, attemptVars, replyVars, orderVars, switchVars, sweep,
                 providerVars>>

SendApproved(o) ==
  /\ phase[o] = "shortlisted"
  /\ Begin(o, Initial)

\* A message sent before ends the approval well.  Anything else that keeps the
\* send from starting (a guard, no mail service configured, the database) is to
\* be recorded.
ApprovalRefused(o) ==
  /\ phase[o] = "shortlisted"
  /\ Go(o, IF thread # "discarded" /\ state[Initial] = "sent" THEN "idle" ELSE "refused")
  /\ UNCHANGED <<threadVars, state, attemptVars, replyVars, orderVars, switchVars, sweep,
                 providerVars>>

\* The send's own record of a failure fails on the database.
RecordingFails(o) ==
  /\ o \in approving
  /\ phase[o] \in {"failed", "halfway"}
  /\ Go(o, "refused")
  /\ UNCHANGED <<threadVars, state, attemptVars, replyVars, orderVars, switchVars, sweep,
                 providerVars>>

RecordRefusal(o) ==
  /\ phase[o] = "refused"
  /\ state' = Becoming({"draft", "failed"}, "failed", {Initial})
  /\ thread' = IF state[Initial] \in {"draft", "failed"} /\ thread # "discarded"
               THEN "send_failed" ELSE thread
  /\ Go(o, "idle")
  /\ UNCHANGED <<recipient, address, rejected, attemptVars, replyVars, orderVars, switchVars,
                 sweep, providerVars>>

-----------------------------------------------------------------------------
(* Replies and the agent.                                                   *)

\* Mutant: whatever the agent wrote and is not sent, attempted or not.
OvertakenIfUnsent == Becoming({"review_pending", "failed"}, "superseded", Question)

\* A new reply, or a new review, makes the agent's waiting question stale.
Overtaken == Becoming({"review_pending"}, "superseded", Question \cap Unattempted)

\* ingest, from the inbox (which is searched once something was sent) or pasted.
Ingest(r) ==
  /\ reply[r] = "absent" /\ r \in Begun
  /\ thread \in Live
  /\ reply' = [reply EXCEPT ![r] = "received"]
  /\ state' = Overtaken
  /\ run' = [run EXCEPT ![r] = "open"]
  /\ thread' = "reply_received"
  /\ UNCHANGED <<recipient, address, rejected, attemptVars, orderVars, switchVars, senderVars,
                 sweep, providerVars>>

NewerReply(r) == \E n \in Reply : reply[n] # "absent" /\ r \in older[n]

\* Mutant: the review does not look for a draft.
OperatorDraftUnseen(r) == FALSE

OperatorDraft(r) == \E d \in Draft : state[d] = "draft" /\ r \in older[d]

Asked == {q \in Question : state[q] # "absent"}
\* Mutant: off by one.
ExhaustedLate == Cardinality(Asked) > MaxQuestions

Exhausted == Cardinality(Asked) >= MaxQuestions

\* The run's tool review_supplier_reply; person and complete are the model's judgement.
Review(r, person, complete) ==
  LET attention == person \/ (~complete /\ Exhausted) \/ OperatorDraft(r)
      asked == {q \in Question : Source[q] = r /\ ~attention /\ ~complete}
  IN
  /\ run[r] = "open"
  /\ reply[r] = "received"
  /\ thread # "discarded"
  /\ reply' = [reply EXCEPT ![r] = "reviewed"]
  /\ IF NewerReply(r) THEN UNCHANGED <<state, thread, ahead, coming>>
     ELSE /\ state' = [m \in Message |-> IF m \in asked THEN "review_pending" ELSE Overtaken[m]]
          /\ asked \subseteq Begun
          /\ IF asked = {} THEN UNCHANGED <<ahead, coming>>
             ELSE /\ ahead' \in 0..Backlog /\ coming' \in 0..Backlog
                  /\ ahead' + coming' <= Backlog
          /\ thread' = IF attention THEN "needs_attention"
                       ELSE IF complete THEN "offer_ready" ELSE "reply_ready"
  /\ UNCHANGED <<recipient, address, rejected, run, older, attemptVars, switchVars, senderVars,
                 sweep, providerVars>>

EndRun(r) ==
  /\ run[r] = "open"
  /\ run' \in {[run EXCEPT ![r] = "completed"], [run EXCEPT ![r] = "closed"]}
  /\ UNCHANGED <<threadVars, state, attemptVars, reply, orderVars, switchVars, senderVars,
                 sweep, providerVars>>

Waiting == {q \in Question : /\ state[q] = "review_pending" /\ ByEmail(q)
                             /\ run[Source[q]] = "completed"}

\* Of the reviewed questions of all enquiries the oldest are listed.
Listed == IF ahead < ListLimit THEN Waiting ELSE {}

\* process_replies up to its list, in a cycle that finds the switches on, reads
\* the inbox without an error (one ends the cycle before the list) and has a
\* question of this enquiry to consider.
List ==
  /\ phase[Agent] = "idle"
  /\ enabled /\ auto
  /\ Waiting # {}
  /\ phase' = [phase EXCEPT ![Agent] = "listed"]
  /\ \/ \E q \in Listed : hand' = [hand EXCEPT ![Agent] = q]
     \/ Listed = {} /\ hand' = [hand EXCEPT ![Agent] = None]
  /\ UNCHANGED <<threadVars, state, attemptVars, replyVars, orderVars, switchVars, approving,
                 sweep, providerVars>>

\* Mutant: a question whose send failed goes back to the list.
Unserved == ahead

\* A send that began takes its question off the list, whatever becomes of it.
Unlisted == IF ahead <= ListLimit THEN 0 ELSE ahead - ListLimit

\* The older questions are sent first.  With the switch off none of them is;
\* what else stops a send before it begins has taken its question off the list.
SendOlder ==
  /\ phase[Agent] = "listed"
  /\ ahead' = IF enabled THEN Unlisted ELSE ahead
  /\ Go(Agent, IF hand[Agent] = None THEN "idle" ELSE "picked")
  /\ UNCHANGED <<threadVars, state, attemptVars, replyVars, older, coming, switchVars, sweep,
                 providerVars>>

\* Elsewhere an older question is sent by an operator, superseded or discarded,
OlderLeaves ==
  /\ ahead > 0
  /\ ahead' = ahead - 1
  /\ UNCHANGED <<threadVars, state, attemptVars, replyVars, older, coming, switchVars,
                 senderVars, sweep, providerVars>>

\* or the review that wrote one ends, well or not.
OlderReviewed ==
  /\ coming > 0
  /\ coming' = coming - 1
  /\ ahead' \in {ahead, ahead + 1}
  /\ UNCHANGED <<threadVars, state, attemptVars, replyVars, older, switchVars, senderVars,
                 sweep, providerVars>>

SendPicked ==
  /\ phase[Agent] = "picked"
  /\ Begin(Agent, hand[Agent])

DropPicked ==
  /\ phase[Agent] = "picked"
  /\ ~Sendable(hand[Agent])
  /\ Go(Agent, "idle")
  /\ UNCHANGED <<threadVars, state, attemptVars, replyVars, orderVars, switchVars, sweep,
                 providerVars>>

SwitchProcurement ==
  /\ "switch" \in Scope
  /\ enabled' = ~enabled
  /\ UNCHANGED <<threadVars, state, attemptVars, replyVars, orderVars, auto, senderVars, sweep,
                 providerVars>>

SwitchAutoReply ==
  /\ "switch" \in Scope
  /\ auto' = ~auto
  /\ UNCHANGED <<threadVars, state, attemptVars, replyVars, orderVars, enabled, senderVars,
                 sweep, providerVars>>

-----------------------------------------------------------------------------
(* Dropping the enquiry, alone or with its vendor.                          *)

\* Mutant: a send that may be repeated no longer counts as a send.
BusyRecently == \E m \in recent : state[m] = "sending"

Busy == \E m \in Message : state[m] = "sending"

DropThread ==
  /\ ~Busy
  /\ thread' = "discarded"
  /\ state' = Becoming({"draft", "review_pending", "failed"}, "discarded", Message)
  /\ UNCHANGED <<recipient, address, rejected>>

DiscardEnquiry ==
  /\ thread \in Live
  /\ DropThread
  /\ UNCHANGED <<attemptVars, replyVars, orderVars, switchVars, senderVars, sweep,
                 providerVars>>

\* candidate_action 'discarded' lists the vendor's threads, discards each, and
\* only then marks the vendor.
ListThreads ==
  /\ "reject" \in Scope
  /\ sweep = "no"
  /\ ~rejected
  /\ sweep' = IF thread \in Live THEN "listed" ELSE "swept"
  /\ UNCHANGED <<threadVars, state, attemptVars, replyVars, orderVars, switchVars, senderVars,
                 providerVars>>

SweepThread ==
  /\ sweep = "listed"
  /\ DropThread
  /\ sweep' = "swept"
  /\ UNCHANGED <<attemptVars, replyVars, orderVars, switchVars, senderVars, providerVars>>

RejectVendor ==
  /\ sweep = "swept"
  /\ rejected' = TRUE
  /\ sweep' = "no"
  /\ UNCHANGED <<thread, recipient, address, state, attemptVars, replyVars, orderVars,
                 switchVars, senderVars, providerVars>>

\* A thread with a send in progress refuses; or the client or process is gone.
AbandonSweep ==
  /\ sweep # "no"
  /\ sweep' = "no"
  /\ UNCHANGED <<threadVars, state, attemptVars, replyVars, orderVars, switchVars, senderVars,
                 providerVars>>

RestoreVendor ==
  /\ rejected
  /\ rejected' = FALSE
  /\ UNCHANGED <<thread, recipient, address, state, attemptVars, replyVars, orderVars,
                 switchVars, senderVars, sweep, providerVars>>

-----------------------------------------------------------------------------
(* Time.                                                                    *)

\* A request for message m or the record of its result is still under way.
Calls == {"calling", "accepted", "failed", "halfway"}
UnderWay(m) == \E s \in Sender : hand[s] = m /\ phase[s] \in Calls

\* 90 seconds pass.  The time limits of the call (10 s), the pool (5 s) and the
\* statements (15 s) end a send earlier, unless its process stalls.
SendGrowsOld(m) ==
  /\ m \in recent
  /\ Stalls \/ ~UnderWay(m)
  /\ recent' = recent \ {m}
  /\ UNCHANGED <<threadVars, state, payload, closed, replyVars, orderVars, switchVars,
                 senderVars, sweep, providerVars>>

\* 23 hours pass since the first attempt.
WindowCloses(m) ==
  /\ "day" \in Scope
  /\ m \in Attempted \ closed
  /\ closed' = closed \cup {m}
  /\ UNCHANGED <<threadVars, state, payload, recent, replyVars, orderVars, switchVars,
                 senderVars, sweep, providerVars>>

\* 24 hours pass; no request stays under way for the hour in between.
ProviderForgets(m) ==
  /\ m \in known \cap closed
  /\ m \notin late /\ ~UnderWay(m)
  /\ known' = known \ {m}
  /\ UNCHANGED <<threadVars, state, attemptVars, replyVars, orderVars, switchVars, senderVars,
                 sweep, deliveries, late>>

-----------------------------------------------------------------------------
\* What a send in progress does next by itself.
Proceed(s) ==
  \/ ProviderAccepts(s) \/ CallFails(s) \/ RecordSent(s)
  \/ MarkThreadFailed(s) \/ MarkMessageFailed(s)

Enquire ==
  \/ CreateEnquiry \/ OpenWhatsApp \/ ChangeAddress
  \/ \E d \in Draft : DraftReply(d)
  \/ \E x \in Row : OpenTransaction(x)

Approval(o) ==
  \/ Approve(o) \/ Shortlist(o) \/ SendApproved(o)
  \/ ApprovalRefused(o) \/ RecordingFails(o) \/ RecordRefusal(o)

Send ==
  \/ \E o \in Operator : SendNewest(o) \/ Approval(o)
  \/ \E s \in Sender : Proceed(s) \/ Abandon(s)
  \/ \E m \in Message : LateArrival(m) \/ LateLoss(m)

Hear ==
  \E r \in Reply : \/ Ingest(r) \/ EndRun(r)
                   \/ \E person, complete \in BOOLEAN : Review(r, person, complete)

\* What the loop does with its list.
Serve == SendOlder \/ SendPicked \/ DropPicked

FollowUp == List \/ Serve \/ OlderLeaves \/ OlderReviewed

Drop ==
  DiscardEnquiry \/ ListThreads \/ SweepThread \/ RejectVendor \/ AbandonSweep \/ RestoreVendor

Time == \E m \in Message : SendGrowsOld(m) \/ WindowCloses(m) \/ ProviderForgets(m)

Next == Enquire \/ Send \/ Hear \/ FollowUp \/ SwitchProcurement \/ SwitchAutoReply \/ Drop \/ Time

Spec == Init /\ [][Next]_vars

-----------------------------------------------------------------------------
(* Safety.                                                                  *)

\* The supplier gets each message at most once, however many senders retry it,
\* die in the middle, lose the answer or are overtaken by a late request
\* (send_email_at: "Freeze the exact provider payload before the first attempt.
\* Retries use its ID for 23h").
DeliveredOnce == \A m \in Message : deliveries[m] <= 1

\* An enquiry is with one person: once a message was attempted, every later one
\* and every retry goes to the same address, whatever the vendor's row says now.
OneRecipient == \A m, n \in Attempted : payload[m] = payload[n]

\* What was recorded as sent has been accepted by the provider, and no later
\* failure, supersession or discard takes the record back.
SentIsFinal ==
  [][\A m \in Message : state[m] = "sent" => state'[m] = "sent" /\ deliveries[m] >= 1]_vars

\* "Keep sent/attempted messages intact for their audit trail" (ingest): a
\* superseded message never reached the provider.
SupersededWasNeverSent ==
  \A m \in Message : state[m] = "superseded" => m \in Unattempted /\ deliveries[m] = 0

\* When an agent's question goes out for the first time, no reply dated after the
\* one it answers has come in ("Do not let an older model run ... send questions
\* it has answered", review), and no operator's text dated after that reply is
\* waiting to be sent, however the transactions that write them overlap.  Dates
\* are those of BEGIN: a text whose transaction began before the reply's is not
\* seen, even if it was committed after it.
Current(q) ==
  /\ \A r \in Reply : reply[r] # "absent" => Source[q] \notin older[r]
  /\ \A d \in Draft : state[d] = "draft" => Source[q] \notin older[d]

QuestionIsCurrent ==
  [][\A q \in Question : q \in Unattempted /\ payload'[q] # None => Current(q)]_vars

\* The agent asks a supplier at most MaxQuestions questions, counting those that
\* were superseded (review: previous >= 3).
QuestionsBounded == Cardinality(Asked) <= MaxQuestions

\* A discarded enquiry is over: nothing in it can still be sent, retried or
\* brought back, and no send of it is under way whose record is to come.
DiscardedIsOver ==
  thread = "discarded" =>
    \A m \in Message : /\ state[m] \in {"absent", "sent", "superseded", "discarded"}
                       /\ ~UnderWay(m)

\* discard: "A message is being sent. Wait for its result before discarding."
\* There is a result to wait for: somebody is sending it, or can send it again.
RefusalIsTemporary ==
  \A m \in Message : state[m] = "sending" =>
    \/ UnderWay(m)
    \/ RetryWindowOpen(m) /\ (Newest(m) \/ m = Initial)

-----------------------------------------------------------------------------
(* What a reader of the thread sees.                                        *)

StageOf(status) ==
  IF status = "absent" THEN "unwritten"
  ELSE IF status \in {"draft", "review_pending", "sending", "failed"} THEN "open" ELSE status

Stage == [m \in Message |-> StageOf(state[m])]

Lifecycle == INSTANCE MessageLifecycle WITH stage <- Stage, to <- payload

\* However senders, reviews, retries and discards interleave, the messages of an
\* enquiry keep the simple promise of MessageLifecycle.
ImplementsLifecycle == Lifecycle!Spec

-----------------------------------------------------------------------------
(* The inductive invariant behind the safety properties.                    *)

\* Who calls, calls for a message whose first attempt is recorded.
HandInv ==
  \A s \in Sender : /\ phase[s] \in Calls => hand[s] \in Attempted
                    /\ phase[s] = "picked" => hand[s] \in Question
                    /\ phase[s] = "listed" => hand[s] \in Question \cup {None}

\* What has reached the provider was attempted, to the thread's recipient; what
\* may still be rewritten or superseded was not.
AttemptInv ==
  /\ thread = "none" => \A m \in Message : state[m] = "absent"
  /\ \A m \in Message :
       /\ state[m] \in {"absent", "draft", "review_pending", "superseded"} => payload[m] = None
       /\ payload[m] # None => payload[m] = recipient
       /\ deliveries[m] > 0 => payload[m] # None
  /\ closed \cup known \cup late \subseteq Attempted

\* The provider remembers what it delivered; a delivered message that it has
\* forgotten is past its window, and no request for it is left.
DeliverInv ==
  /\ \A m \in Message :
       /\ deliveries[m] <= 1
       /\ m \in known => deliveries[m] > 0
       /\ deliveries[m] > 0 /\ m \notin known => m \in closed /\ m \notin late /\ ~UnderWay(m)
       /\ state[m] = "sent" => deliveries[m] > 0
  /\ \A s \in Sender : phase[s] = "accepted" => deliveries[hand[s]] > 0

\* Without stalls a message has one sender at a time, and is marked while it has.
CallInv ==
  ~Stalls =>
    /\ \A s \in Sender : phase[s] \in Calls => state[hand[s]] = "sending" /\ hand[s] \in recent
    /\ \A s, t \in Sender : s # t /\ phase[s] \in Calls /\ phase[t] \in Calls => hand[s] # hand[t]

\* A question comes from the review of its reply.
QuestionInv == \A q \in Question : state[q] # "absent" => reply[Source[q]] = "reviewed"

\* A question is current from its review until it is attempted or superseded:
\* only a question that waits for its first attempt can be superseded.
CurrentInv ==
  \A q \in Question :
    /\ state[q] # "draft"
    /\ state[q] \in {"sending", "failed"} => payload[q] # None
    /\ state[q] = "review_pending" => Current(q)

IInv ==
  /\ TypeOK /\ HandInv /\ AttemptInv /\ DeliverInv /\ CallInv /\ QuestionInv /\ CurrentInv
  /\ QuestionsBounded
  /\ ~Stalls => DiscardedIsOver

-----------------------------------------------------------------------------
(* Liveness.  The loop of process_replies works off its list, and a send of   *)
(* its ends (the call has a time limit).                                     *)

Fairness ==
  /\ WF_vars(Serve)
  /\ WF_vars(Proceed(Agent))

\* From some point on the process that runs the loop is not restarted and has
\* its database: its hand is emptied by its own steps only.
Calm == <>[][Abandon(Agent) => SendOlder \/ DropPicked \/ Proceed(Agent)]_vars

FairSpec == Spec /\ Fairness /\ Calm

\* The loop does not fail for ever at the inbox, which it reads before it lists.
\* The code does not see to that; it depends on the mail provider and on what
\* suppliers send.
InboxIsRead == WF_vars(List)

\* With the switches on and the inbox read, a question whose review has finished
\* does not wait for ever, whatever became of other messages and however many
\* questions of other enquiries are listed before it: it is sent or tried, or
\* overtaken.
QuestionsLeave ==
  InboxIsRead /\ <>[](enabled /\ auto) =>
    \A q \in Question : q \in Waiting ~> state[q] # "review_pending"
=============================================================================
