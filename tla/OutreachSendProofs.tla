------------------------- MODULE OutreachSendProofs -------------------------
(***************************************************************************)
(* Theorems about OutreachSend, for every set of messages, replies and      *)
(* senders and every value of the bounds.                                   *)
(***************************************************************************)
EXTENDS OutreachSend, FiniteSetTheorems, TLAPS

\* Steps that touch no message, no attempt and no sender.
Elsewhere ==
  OpenWhatsApp \/ ChangeAddress \/ (\E r \in Reply : EndRun(r)) \/ SwitchProcurement
  \/ SwitchAutoReply \/ ListThreads \/ RejectVendor \/ AbandonSweep \/ RestoreVendor
  \/ OlderLeaves \/ OlderReviewed \/ (\E x \in Row : OpenTransaction(x))

\* The first transaction of a send, by any of its three callers.
Starts(s) ==
  /\ phase[s] \notin Calls
  /\ \E m \in Message : Begin(s, m)

\* An approval's steps outside the send, and the agent's work on its list.
Prepares(s) ==
  \/ s \in Operator /\ (Shortlist(s) \/ ApprovalRefused(s))
  \/ s = Agent /\ (List \/ SendOlder \/ DropPicked)

\* Every step is one of these; used to prove each part of the invariant.
LEMMA StepKinds ==
  ASSUME TypeOK, HandInv, [Next]_vars
  PROVE  \/ UNCHANGED vars
         \/ Elsewhere
         \/ CreateEnquiry
         \/ \E d \in Draft : DraftReply(d)
         \/ \E s \in Sender : Starts(s) \/ Prepares(s) \/ Proceed(s) \/ Abandon(s)
         \/ \E o \in Operator : Approve(o) \/ RecordingFails(o) \/ RecordRefusal(o)
         \/ \E m \in Message : LateArrival(m) \/ LateLoss(m)
         \/ \E r \in Reply : Ingest(r) \/ \E person, complete \in BOOLEAN : Review(r, person, complete)
         \/ DiscardEnquiry \/ SweepThread
         \/ \E m \in Message : SendGrowsOld(m) \/ WindowCloses(m) \/ ProviderForgets(m)
<1>1. ASSUME NEW o \in Operator, SendNewest(o) \/ SendApproved(o)
      PROVE  o \in Sender /\ Starts(o)
  BY <1>1, ConstantsOK DEF SendNewest, SendApproved, Starts, Calls, Sender, Message
<1>2. ASSUME SendPicked PROVE Agent \in Sender /\ Starts(Agent)
  BY <1>2 DEF SendPicked, Starts, Calls, Sender, HandInv, Message
<1>3. ASSUME NEW o \in Operator, Shortlist(o) \/ ApprovalRefused(o)
      PROVE  o \in Sender /\ Prepares(o)
  BY <1>3 DEF Prepares, Sender
<1>4. ASSUME List \/ SendOlder \/ DropPicked
      PROVE  Agent \in Sender /\ Prepares(Agent)
  BY <1>4 DEF Prepares, Sender
<1>5. CASE Enquire
  BY <1>5 DEF Enquire, Elsewhere
<1>6. CASE Send
  BY <1>6, <1>1, <1>3 DEF Send, Approval
<1>7. CASE Hear
  BY <1>7 DEF Hear, Elsewhere
<1>8. CASE FollowUp
  BY <1>8, <1>2, <1>4 DEF FollowUp, Serve, Elsewhere
<1>9. CASE Drop
  BY <1>9 DEF Drop, Elsewhere
<1>10. CASE Time \/ SwitchProcurement \/ SwitchAutoReply
  BY <1>10 DEF Time, Elsewhere
<1> QED BY <1>5, <1>6, <1>7, <1>8, <1>9, <1>10 DEF Next

\* What a review does to the messages: it writes the questions of its reply, if
\* the limit allows, and nothing else but the supersession of those that wait.
LEMMA ReviewEffect ==
  ASSUME NEW r \in Reply, NEW person \in BOOLEAN, NEW complete \in BOOLEAN,
         Review(r, person, complete)
  PROVE  \E asked \in SUBSET Question :
           /\ \A q \in asked : Source[q] = r
           /\ asked = {} \/ (~Exhausted /\ ~OperatorDraft(r))
           /\ \/ UNCHANGED <<state, thread>>
              \/ /\ ~NewerReply(r)
                 /\ state' = [m \in Message |-> IF m \in asked THEN "review_pending"
                                               ELSE Overtaken[m]]
                 /\ thread' \in {"needs_attention", "offer_ready", "reply_ready"}
<1> DEFINE attention == person \/ (~complete /\ Exhausted) \/ OperatorDraft(r)
           asked == {q \in Question : Source[q] = r /\ ~attention /\ ~complete}
<1>1. asked \in SUBSET Question /\ \A q \in asked : Source[q] = r
  OBVIOUS
<1>2. asked = {} \/ (~Exhausted /\ ~OperatorDraft(r))
  OBVIOUS
<1>3. CASE NewerReply(r)
  BY <1>1, <1>2, <1>3 DEF Review
<1>4. CASE ~NewerReply(r)
  <2>1. state' = [m \in Message |-> IF m \in asked THEN "review_pending" ELSE Overtaken[m]]
    BY <1>4 DEF Review
  <2>2. thread' \in {"needs_attention", "offer_ready", "reply_ready"}
    BY <1>4 DEF Review
  <2> HIDE DEF asked
  <2> QED BY <1>1, <1>2, <1>4, <2>1, <2>2
<1> QED BY <1>3, <1>4

\* What follows from it without the set of questions.
LEMMA ReviewAdds ==
  ASSUME TypeOK, NEW r \in Reply, NEW person \in BOOLEAN, NEW complete \in BOOLEAN,
         Review(r, person, complete)
  PROVE  /\ state' \in [Message -> MessageStates]
         /\ \A q \in Question : state'[q] # "absent" => state[q] # "absent" \/ Source[q] = r
<1>1. PICK asked \in SUBSET Question :
        /\ \A q \in asked : Source[q] = r
        /\ \/ UNCHANGED <<state, thread>>
           \/ state' = [m \in Message |-> IF m \in asked THEN "review_pending" ELSE Overtaken[m]]
  <2> HIDE DEF Review
  <2> QED BY ReviewEffect
<1>2. state' \in [Message -> MessageStates]
  <2>1. Overtaken \in [Message -> MessageStates]
    BY DEF Overtaken, Becoming, MessageStates, TypeOK
  <2>2. "review_pending" \in MessageStates /\ state \in [Message -> MessageStates]
    BY DEF MessageStates, TypeOK
  <2> QED BY <1>1, <2>1, <2>2
<1>3. ASSUME NEW q \in Question, state'[q] # "absent" PROVE state[q] # "absent" \/ Source[q] = r
  BY <1>1, <1>3 DEF Overtaken, Becoming, Message
<1> QED BY <1>2, <1>3

-----------------------------------------------------------------------------
(* The parts of the invariant.                                              *)

\* Senders hold what they send: only Begin takes a message in hand, and it freezes it.
LEMMA HandStep ==
  ASSUME TypeOK, HandInv, [Next]_vars
  PROVE  HandInv'
<1> USE ConstantsOK DEF TypeOK, HandInv, Attempted, Calls
<1>1. CASE UNCHANGED vars
  BY <1>1 DEF vars, attemptVars, senderVars
<1>2. CASE Elsewhere \/ CreateEnquiry \/ (\E d \in Draft : DraftReply(d))
  BY <1>2 DEF Elsewhere, CreateEnquiry, DraftReply, attemptVars, senderVars, OpenWhatsApp,
     ChangeAddress, EndRun, SwitchProcurement, SwitchAutoReply, ListThreads, RejectVendor,
     AbandonSweep, RestoreVendor, OlderLeaves,
     OlderReviewed, OpenTransaction
<1>3. ASSUME NEW s \in Sender, Starts(s) PROVE HandInv'
  BY <1>3 DEF Starts, Begin, Sendable
<1>4. ASSUME NEW s \in Sender, Prepares(s) PROVE HandInv'
  <2>1. CASE List
    <3>1. payload' = payload /\ phase' = [phase EXCEPT ![Agent] = "listed"]
      BY <2>1 DEF List, attemptVars
    <3>2. \A t \in Sender : hand'[t] = hand[t] \/ (t = Agent /\ hand'[t] \in Question \cup {None})
      BY <2>1 DEF List, Listed, Waiting, Sender
    <3>3. hand'[Agent] \in Question \cup {None}
      BY <2>1 DEF List, Listed, Waiting, Sender
    <3> QED BY <3>1, <3>2, <3>3
  <2>2. CASE SendOlder
    BY <2>2 DEF SendOlder, Go, attemptVars
  <2>3. CASE ~List /\ ~SendOlder
    BY <1>4, <2>3 DEF Prepares, Shortlist, ApprovalRefused, DropPicked, Go, attemptVars
  <2> QED BY <2>1, <2>2, <2>3
<1>5. ASSUME NEW s \in Sender, Proceed(s) \/ Abandon(s) PROVE HandInv'
  BY <1>5 DEF Proceed, Abandon, ProviderAccepts, CallFails, RecordSent, MarkThreadFailed,
     MarkMessageFailed, Go, attemptVars
<1>6. ASSUME NEW o \in Operator, Approve(o) \/ RecordingFails(o) \/ RecordRefusal(o)
      PROVE  HandInv'
  BY <1>6 DEF Approve, RecordingFails, RecordRefusal, Go, attemptVars, Sender
<1>7. CASE \E m \in Message : LateArrival(m) \/ LateLoss(m)
  BY <1>7 DEF LateArrival, LateLoss, attemptVars, senderVars
<1>8. CASE \E r \in Reply : Ingest(r) \/ \E person, complete \in BOOLEAN : Review(r, person, complete)
  BY <1>8 DEF Ingest, Review, attemptVars, senderVars
<1>9. CASE DiscardEnquiry \/ SweepThread
  BY <1>9 DEF DiscardEnquiry, SweepThread, attemptVars, senderVars
<1>10. CASE \E m \in Message : SendGrowsOld(m) \/ WindowCloses(m) \/ ProviderForgets(m)
  BY <1>10 DEF SendGrowsOld, WindowCloses, ProviderForgets, attemptVars, senderVars
<1> QED BY <1>1, <1>2, <1>3, <1>4, <1>5, <1>6, <1>7, <1>8, <1>9, <1>10, StepKinds

\* Every step keeps the types.
LEMMA TypeStep ==
  ASSUME TypeOK, HandInv, [Next]_vars
  PROVE  TypeOK'
<1> USE ConstantsOK DEF TypeOK, HandInv, ThreadStates, Live, MessageStates, Phases, Sender,
   Message, Row, Attempted, Calls, Refreshed, threadVars, attemptVars, replyVars, orderVars,
   switchVars, senderVars, providerVars
<1>1. CASE UNCHANGED vars
  BY <1>1 DEF vars
<1>2. CASE Elsewhere
  <2>1. CASE OpenWhatsApp \/ ChangeAddress
    BY <2>1 DEF OpenWhatsApp, ChangeAddress
  <2>2. CASE ListThreads \/ RejectVendor \/ AbandonSweep \/ RestoreVendor
    <3>1. rejected' \in BOOLEAN /\ sweep' \in {"no", "listed", "swept"}
      BY <2>2 DEF ListThreads, RejectVendor, AbandonSweep, RestoreVendor
    <3> QED BY <2>2, <3>1 DEF ListThreads, RejectVendor, AbandonSweep, RestoreVendor
  <2>3. ASSUME NEW r \in Reply, EndRun(r) PROVE TypeOK'
    BY <2>3 DEF EndRun
  <2>4. CASE SwitchProcurement \/ SwitchAutoReply
    <3>1. enabled' \in BOOLEAN /\ auto' \in BOOLEAN
      BY <2>4 DEF SwitchProcurement, SwitchAutoReply
    <3> QED BY <2>4, <3>1 DEF SwitchProcurement, SwitchAutoReply
  <2>5. CASE OlderLeaves \/ OlderReviewed
    <3>1. ahead' \in 0..Backlog /\ coming' \in 0..Backlog /\ ahead' + coming' <= Backlog
      BY <2>5 DEF OlderLeaves, OlderReviewed
    <3>2. UNCHANGED <<threadVars, state, attemptVars, replyVars, older, switchVars, senderVars,
                      sweep, providerVars>>
      BY <2>5 DEF OlderLeaves, OlderReviewed
    <3> QED BY <3>1, <3>2
  <2>6. ASSUME NEW x \in Row, OpenTransaction(x) PROVE TypeOK'
    <3>1. older' \in [Row -> SUBSET Row]
      BY <2>6 DEF OpenTransaction, Begun
    <3> QED BY <2>6, <3>1 DEF OpenTransaction
  <2> QED BY <1>2, <2>1, <2>2, <2>3, <2>4, <2>5, <2>6 DEF Elsewhere
<1>3. CASE CreateEnquiry
  BY <1>3 DEF CreateEnquiry, Prepare
<1>4. ASSUME NEW d \in Draft, DraftReply(d) PROVE TypeOK'
  BY <1>4 DEF DraftReply, Becoming
<1>5. ASSUME NEW s \in Sender, NEW m \in Message, phase[s] \notin Calls, Begin(s, m) PROVE TypeOK'
  BY <1>5 DEF Begin, Sendable
<1>6. ASSUME NEW s \in Sender, Prepares(s) PROVE TypeOK'
  <2>1. CASE List
    <3>1. hand' \in [Sender -> Message \cup {None}]
      BY <2>1 DEF List, Listed, Waiting
    <3> QED BY <2>1, <3>1 DEF List
  <2>2. CASE SendOlder
    <3>1. ahead' \in 0..Backlog /\ coming' = coming /\ ahead' + coming' <= Backlog
      BY <2>2, ConstantsOK DEF SendOlder, Unlisted
    <3> QED BY <2>2, <3>1 DEF SendOlder, Go
  <2>3. CASE ~List /\ ~SendOlder
    BY <1>6, <2>3 DEF Prepares, Shortlist, ApprovalRefused, DropPicked, Go
  <2> QED BY <2>1, <2>2, <2>3
<1>7. ASSUME NEW s \in Sender, Proceed(s) PROVE TypeOK'
  BY <1>7 DEF Proceed, ProviderAccepts, CallFails, RecordSent, MarkThreadFailed,
     MarkMessageFailed, Go, Failed, Becoming, Accept
<1>8. ASSUME NEW s \in Sender, Abandon(s) PROVE TypeOK'
  BY <1>8 DEF Abandon, Go
<1>9. ASSUME NEW o \in Operator, Approve(o) \/ RecordingFails(o) \/ RecordRefusal(o) PROVE TypeOK'
  BY <1>9 DEF Approve, Prepare, RecordingFails, RecordRefusal, Go, Becoming, Sender
<1>10. ASSUME NEW m \in Message, LateArrival(m) \/ LateLoss(m) PROVE TypeOK'
  BY <1>10 DEF LateArrival, LateLoss, Accept
<1>11. ASSUME NEW r \in Reply, Ingest(r) PROVE TypeOK'
  BY <1>11 DEF Ingest, Overtaken, Becoming
<1>12. ASSUME NEW r \in Reply, NEW person \in BOOLEAN, NEW complete \in BOOLEAN,
             Review(r, person, complete)
      PROVE  TypeOK'
  <2>1. state' \in [Message -> MessageStates]
    BY <1>12, ReviewAdds
  <2>2. ahead' \in 0..Backlog /\ coming' \in 0..Backlog /\ ahead' + coming' <= Backlog
    BY <1>12 DEF Review
  <2>3. thread' \in ThreadStates /\ reply' \in [Reply -> {"absent", "received", "reviewed"}]
    BY <1>12 DEF Review
  <2> QED BY <1>12, <2>1, <2>2, <2>3 DEF Review
<1>13. CASE DiscardEnquiry \/ SweepThread
  BY <1>13 DEF DiscardEnquiry, SweepThread, DropThread, Busy, Becoming
<1>14. ASSUME NEW m \in Message, SendGrowsOld(m) \/ WindowCloses(m) \/ ProviderForgets(m) PROVE TypeOK'
  BY <1>14 DEF SendGrowsOld, WindowCloses, ProviderForgets
<1> HIDE DEF TypeOK, HandInv
<1> QED BY <1>1, <1>2, <1>3, <1>4, <1>5, <1>6, <1>7, <1>8, <1>9, <1>10, <1>11, <1>12, <1>13,
   <1>14, StepKinds DEF Starts

\* What is frozen stays frozen, and only what is not frozen is rewritten.
LEMMA AttemptStep ==
  ASSUME TypeOK, HandInv, AttemptInv, QuestionInv, [Next]_vars
  PROVE  AttemptInv'
<1> USE ConstantsOK DEF TypeOK, HandInv, AttemptInv, QuestionInv, Live, Calls, Attempted,
   Unattempted, Refreshed, threadVars, attemptVars, replyVars, switchVars, senderVars,
   providerVars
<1>1. CASE UNCHANGED vars
  BY <1>1 DEF vars
<1>2. CASE Elsewhere
  BY <1>2 DEF Elsewhere, OpenWhatsApp, ChangeAddress, EndRun, SwitchProcurement,
     SwitchAutoReply, ListThreads, RejectVendor, AbandonSweep, RestoreVendor, OlderLeaves,
     OlderReviewed, OpenTransaction
<1>3. CASE CreateEnquiry
  BY <1>3 DEF CreateEnquiry, Prepare
<1>4. ASSUME NEW d \in Draft, DraftReply(d) PROVE AttemptInv'
  BY <1>4 DEF DraftReply, Becoming
<1>5. ASSUME NEW s \in Sender, NEW m \in Message, phase[s] \notin Calls, Begin(s, m) PROVE AttemptInv'
  BY <1>5 DEF Begin, Sendable
<1>6. ASSUME NEW s \in Sender, Prepares(s) PROVE AttemptInv'
  BY <1>6 DEF Prepares, Shortlist, ApprovalRefused, DropPicked, List, SendOlder, Go
<1>7. ASSUME NEW s \in Sender, Proceed(s) PROVE AttemptInv'
  BY <1>7 DEF Proceed, ProviderAccepts, CallFails, RecordSent, MarkThreadFailed,
     MarkMessageFailed, Go, Failed, Becoming, Accept
<1>8. ASSUME NEW s \in Sender, Abandon(s) PROVE AttemptInv'
  BY <1>8 DEF Abandon, Go
<1>9. ASSUME NEW o \in Operator, Approve(o) \/ RecordingFails(o) \/ RecordRefusal(o) PROVE AttemptInv'
  BY <1>9 DEF Approve, Prepare, RecordingFails, RecordRefusal, Go, Becoming, Sender
<1>10. ASSUME NEW m \in Message, LateArrival(m) \/ LateLoss(m) PROVE AttemptInv'
  BY <1>10 DEF LateArrival, LateLoss, Accept
<1>11. ASSUME NEW r \in Reply, Ingest(r) PROVE AttemptInv'
  BY <1>11 DEF Ingest, Overtaken, Becoming
<1>12. ASSUME NEW r \in Reply, NEW person \in BOOLEAN, NEW complete \in BOOLEAN,
             Review(r, person, complete)
      PROVE  AttemptInv'
  BY <1>12 DEF Review, Overtaken, Becoming
<1>13. CASE DiscardEnquiry \/ SweepThread
  BY <1>13 DEF DiscardEnquiry, SweepThread, DropThread, Busy, Becoming
<1>14. ASSUME NEW m \in Message, SendGrowsOld(m) \/ WindowCloses(m) \/ ProviderForgets(m) PROVE AttemptInv'
  BY <1>14 DEF SendGrowsOld, WindowCloses, ProviderForgets
<1> QED BY <1>1, <1>2, <1>3, <1>4, <1>5, <1>6, <1>7, <1>8, <1>9, <1>10, <1>11, <1>12, <1>13,
   <1>14, StepKinds DEF Starts

\* No step delivers a message twice.
LEMMA DeliverStep ==
  ASSUME TypeOK, HandInv, AttemptInv, DeliverInv, QuestionInv, [Next]_vars
  PROVE  DeliverInv'
<1> USE ConstantsOK DEF TypeOK, HandInv, AttemptInv, DeliverInv, QuestionInv, Calls, UnderWay,
   RetryWindowOpen, Attempted, threadVars, attemptVars, replyVars, switchVars, senderVars,
   providerVars
<1>1. CASE UNCHANGED vars
  BY <1>1 DEF vars
<1>2. CASE Elsewhere
  BY <1>2 DEF Elsewhere, OpenWhatsApp, ChangeAddress, EndRun, SwitchProcurement,
     SwitchAutoReply, ListThreads, RejectVendor, AbandonSweep, RestoreVendor, OlderLeaves,
     OlderReviewed, OpenTransaction
<1>3. CASE CreateEnquiry
  BY <1>3 DEF CreateEnquiry, Prepare
<1>4. ASSUME NEW d \in Draft, DraftReply(d) PROVE DeliverInv'
  BY <1>4 DEF DraftReply, Becoming
<1>5. ASSUME NEW s \in Sender, NEW m \in Message, phase[s] \notin Calls, Begin(s, m) PROVE DeliverInv'
  BY <1>5 DEF Begin, Sendable
<1>6. ASSUME NEW s \in Sender, Prepares(s) PROVE DeliverInv'
  BY <1>6 DEF Prepares, Shortlist, ApprovalRefused, DropPicked, List, SendOlder, Go
<1>7. ASSUME NEW s \in Sender, Proceed(s) PROVE DeliverInv'
  BY <1>7 DEF Proceed, ProviderAccepts, CallFails, RecordSent, MarkThreadFailed,
     MarkMessageFailed, Go, Failed, Becoming, Accept
<1>8. ASSUME NEW s \in Sender, Abandon(s) PROVE DeliverInv'
  BY <1>8 DEF Abandon, Go
<1>9. ASSUME NEW o \in Operator, Approve(o) \/ RecordingFails(o) \/ RecordRefusal(o) PROVE DeliverInv'
  BY <1>9 DEF Approve, Prepare, RecordingFails, RecordRefusal, Go, Becoming, Sender
<1>10. ASSUME NEW m \in Message, LateArrival(m) \/ LateLoss(m) PROVE DeliverInv'
  BY <1>10 DEF LateArrival, LateLoss, Accept
<1>11. ASSUME NEW r \in Reply, Ingest(r) PROVE DeliverInv'
  BY <1>11 DEF Ingest, Overtaken, Becoming
<1>12. ASSUME NEW r \in Reply, NEW person \in BOOLEAN, NEW complete \in BOOLEAN,
             Review(r, person, complete)
      PROVE  DeliverInv'
  BY <1>12 DEF Review, Overtaken, Becoming
<1>13. CASE DiscardEnquiry \/ SweepThread
  BY <1>13 DEF DiscardEnquiry, SweepThread, DropThread, Busy, Becoming
<1>14. ASSUME NEW m \in Message, SendGrowsOld(m) \/ WindowCloses(m) \/ ProviderForgets(m) PROVE DeliverInv'
  BY <1>14 DEF SendGrowsOld, WindowCloses, ProviderForgets
<1> QED BY <1>1, <1>2, <1>3, <1>4, <1>5, <1>6, <1>7, <1>8, <1>9, <1>10, <1>11, <1>12, <1>13,
   <1>14, StepKinds DEF Starts

\* Without stalls nobody else sends what is being sent.
LEMMA CallStep ==
  ASSUME TypeOK, HandInv, AttemptInv, CallInv, QuestionInv, [Next]_vars
  PROVE  CallInv'
<1> USE ConstantsOK DEF TypeOK, HandInv, AttemptInv, CallInv, QuestionInv, Calls, UnderWay,
   BeingSent, Attempted, Unattempted, threadVars, attemptVars, replyVars, switchVars,
   senderVars, providerVars
<1>1. CASE UNCHANGED vars
  BY <1>1 DEF vars
<1>2. CASE Elsewhere
  BY <1>2 DEF Elsewhere, OpenWhatsApp, ChangeAddress, EndRun, SwitchProcurement,
     SwitchAutoReply, ListThreads, RejectVendor, AbandonSweep, RestoreVendor, OlderLeaves,
     OlderReviewed, OpenTransaction
<1>3. CASE CreateEnquiry
  BY <1>3 DEF CreateEnquiry, Prepare
<1>4. ASSUME NEW d \in Draft, DraftReply(d) PROVE CallInv'
  BY <1>4 DEF DraftReply, Becoming
<1>5. ASSUME NEW s \in Sender, NEW m \in Message, phase[s] \notin Calls, Begin(s, m) PROVE CallInv'
  BY <1>5 DEF Begin, Sendable
<1>6. ASSUME NEW s \in Sender, Prepares(s) PROVE CallInv'
  BY <1>6 DEF Prepares, Shortlist, ApprovalRefused, DropPicked, List, SendOlder, Go
<1>7. ASSUME NEW s \in Sender, Proceed(s) PROVE CallInv'
  BY <1>7 DEF Proceed, ProviderAccepts, CallFails, RecordSent, MarkThreadFailed,
     MarkMessageFailed, Go, Failed, Becoming, Accept
<1>8. ASSUME NEW s \in Sender, Abandon(s) PROVE CallInv'
  BY <1>8 DEF Abandon, Go
<1>9. ASSUME NEW o \in Operator, Approve(o) \/ RecordingFails(o) \/ RecordRefusal(o) PROVE CallInv'
  BY <1>9 DEF Approve, Prepare, RecordingFails, RecordRefusal, Go, Becoming, Sender
<1>10. ASSUME NEW m \in Message, LateArrival(m) \/ LateLoss(m) PROVE CallInv'
  BY <1>10 DEF LateArrival, LateLoss, Accept
<1>11. ASSUME NEW r \in Reply, Ingest(r) PROVE CallInv'
  BY <1>11 DEF Ingest, Overtaken, Becoming
<1>12. ASSUME NEW r \in Reply, NEW person \in BOOLEAN, NEW complete \in BOOLEAN,
             Review(r, person, complete)
      PROVE  CallInv'
  BY <1>12 DEF Review, Overtaken, Becoming
<1>13. CASE DiscardEnquiry \/ SweepThread
  BY <1>13 DEF DiscardEnquiry, SweepThread, DropThread, Busy, Becoming
<1>14. ASSUME NEW m \in Message, SendGrowsOld(m) \/ WindowCloses(m) \/ ProviderForgets(m) PROVE CallInv'
  BY <1>14 DEF SendGrowsOld, WindowCloses, ProviderForgets
<1> QED BY <1>1, <1>2, <1>3, <1>4, <1>5, <1>6, <1>7, <1>8, <1>9, <1>10, <1>11, <1>12, <1>13,
   <1>14, StepKinds DEF Starts

\* A question is written by the review of its reply and by nothing else.
LEMMA QuestionStep ==
  ASSUME TypeOK, HandInv, AttemptInv, QuestionInv, [Next]_vars
  PROVE  QuestionInv'
<1> USE ConstantsOK DEF TypeOK, HandInv, AttemptInv, QuestionInv, Calls, Attempted, Message,
   threadVars, attemptVars, replyVars, switchVars, senderVars, providerVars
<1>1. CASE UNCHANGED vars
  BY <1>1 DEF vars
<1>2. CASE Elsewhere
  BY <1>2 DEF Elsewhere, OpenWhatsApp, ChangeAddress, EndRun, SwitchProcurement,
     SwitchAutoReply, ListThreads, RejectVendor, AbandonSweep, RestoreVendor, OlderLeaves,
     OlderReviewed, OpenTransaction
<1>3. CASE CreateEnquiry
  BY <1>3 DEF CreateEnquiry, Prepare
<1>4. ASSUME NEW d \in Draft, DraftReply(d) PROVE QuestionInv'
  BY <1>4 DEF DraftReply, Becoming
<1>5. ASSUME NEW s \in Sender, NEW m \in Message, phase[s] \notin Calls, Begin(s, m) PROVE QuestionInv'
  BY <1>5 DEF Begin, Sendable
<1>6. ASSUME NEW s \in Sender, Prepares(s) PROVE QuestionInv'
  BY <1>6 DEF Prepares, Shortlist, ApprovalRefused, DropPicked, List, SendOlder, Go
<1>7. ASSUME NEW s \in Sender, Proceed(s) PROVE QuestionInv'
  BY <1>7 DEF Proceed, ProviderAccepts, CallFails, RecordSent, MarkThreadFailed,
     MarkMessageFailed, Go, Failed, Becoming, Accept
<1>8. ASSUME NEW s \in Sender, Abandon(s) PROVE QuestionInv'
  BY <1>8 DEF Abandon, Go
<1>9. ASSUME NEW o \in Operator, Approve(o) \/ RecordingFails(o) \/ RecordRefusal(o) PROVE QuestionInv'
  BY <1>9 DEF Approve, Prepare, RecordingFails, RecordRefusal, Go, Becoming, Sender
<1>10. ASSUME NEW m \in Message, LateArrival(m) \/ LateLoss(m) PROVE QuestionInv'
  BY <1>10 DEF LateArrival, LateLoss, Accept
<1>11. ASSUME NEW r \in Reply, Ingest(r) PROVE QuestionInv'
  BY <1>11 DEF Ingest, Overtaken, Becoming
<1>12. ASSUME NEW r \in Reply, NEW person \in BOOLEAN, NEW complete \in BOOLEAN,
             Review(r, person, complete)
      PROVE  QuestionInv'
  <2>1. \A q \in Question : state'[q] # "absent" => state[q] # "absent" \/ Source[q] = r
    BY <1>12, ReviewAdds
  <2>2. reply[r] = "received" /\ reply' = [reply EXCEPT ![r] = "reviewed"]
    BY <1>12 DEF Review
  <2> QED BY <2>1, <2>2
<1>13. CASE DiscardEnquiry \/ SweepThread
  BY <1>13 DEF DiscardEnquiry, SweepThread, DropThread, Busy, Becoming
<1>14. ASSUME NEW m \in Message, SendGrowsOld(m) \/ WindowCloses(m) \/ ProviderForgets(m) PROVE QuestionInv'
  BY <1>14 DEF SendGrowsOld, WindowCloses, ProviderForgets
<1> QED BY <1>1, <1>2, <1>3, <1>4, <1>5, <1>6, <1>7, <1>8, <1>9, <1>10, <1>11, <1>12, <1>13,
   <1>14, StepKinds DEF Starts

\* Without stalls a discard leaves nothing behind.
LEMMA DiscardStep ==
  ASSUME TypeOK, HandInv, AttemptInv, CallInv, QuestionInv, ~Stalls, DiscardedIsOver, [Next]_vars
  PROVE  DiscardedIsOver'
<1> USE ConstantsOK DEF TypeOK, HandInv, CallInv, DiscardedIsOver, Live, Calls, UnderWay,
   MessageStates, Attempted, threadVars, attemptVars, replyVars, switchVars, senderVars,
   providerVars
<1>1. CASE UNCHANGED vars
  BY <1>1 DEF vars
<1>2. CASE Elsewhere
  BY <1>2 DEF Elsewhere, OpenWhatsApp, ChangeAddress, EndRun, SwitchProcurement,
     SwitchAutoReply, ListThreads, RejectVendor, AbandonSweep, RestoreVendor, OlderLeaves,
     OlderReviewed, OpenTransaction
<1>3. CASE CreateEnquiry
  BY <1>3 DEF CreateEnquiry, Prepare
<1>4. ASSUME NEW d \in Draft, DraftReply(d) PROVE DiscardedIsOver'
  BY <1>4 DEF DraftReply, Becoming
<1>5. ASSUME NEW s \in Sender, NEW m \in Message, phase[s] \notin Calls, Begin(s, m) PROVE DiscardedIsOver'
  BY <1>5 DEF Begin, Sendable
<1>6. ASSUME NEW s \in Sender, Prepares(s) PROVE DiscardedIsOver'
  BY <1>6 DEF Prepares, Shortlist, ApprovalRefused, DropPicked, List, SendOlder, Go
<1>7. ASSUME NEW s \in Sender, Proceed(s) PROVE DiscardedIsOver'
  BY <1>7 DEF Proceed, ProviderAccepts, CallFails, RecordSent, MarkThreadFailed,
     MarkMessageFailed, Go, Failed, Becoming, Accept
<1>8. ASSUME NEW s \in Sender, Abandon(s) PROVE DiscardedIsOver'
  BY <1>8 DEF Abandon, Go
<1>9. ASSUME NEW o \in Operator, Approve(o) \/ RecordingFails(o) \/ RecordRefusal(o) PROVE DiscardedIsOver'
  BY <1>9 DEF Approve, Prepare, RecordingFails, RecordRefusal, Go, Becoming, Sender
<1>10. ASSUME NEW m \in Message, LateArrival(m) \/ LateLoss(m) PROVE DiscardedIsOver'
  BY <1>10 DEF LateArrival, LateLoss, Accept
<1>11. ASSUME NEW r \in Reply, Ingest(r) PROVE DiscardedIsOver'
  BY <1>11 DEF Ingest, Overtaken, Becoming
<1>12. ASSUME NEW r \in Reply, NEW person \in BOOLEAN, NEW complete \in BOOLEAN,
             Review(r, person, complete)
      PROVE  DiscardedIsOver'
  BY <1>12 DEF Review, Overtaken, Becoming
<1>13. CASE DiscardEnquiry \/ SweepThread
  BY <1>13 DEF DiscardEnquiry, SweepThread, DropThread, Busy, Becoming
<1>14. ASSUME NEW m \in Message, SendGrowsOld(m) \/ WindowCloses(m) \/ ProviderForgets(m) PROVE DiscardedIsOver'
  BY <1>14 DEF SendGrowsOld, WindowCloses, ProviderForgets
<1> QED BY <1>1, <1>2, <1>3, <1>4, <1>5, <1>6, <1>7, <1>8, <1>9, <1>10, <1>11, <1>12, <1>13,
   <1>14, StepKinds DEF Starts

\* Nobody writes anything new: no draft, reply, review or question.  The first
\* message may be written, waiting texts may leave their state, and transactions
\* may begin.
NothingNew ==
  /\ reply' = reply
  /\ \A r \in Reply : reply[r] # "absent" => older'[r] \subseteq older[r]
  /\ \A d \in Draft : state[d] # "absent" => older'[d] \subseteq older[d]
  /\ \A m \in Message : state'[m] = "absent" => state[m] = "absent"
  /\ \A m \in Message : state[m] = "sent" => state'[m] = "sent"
  /\ \A m \in Question \cup Draft :
       /\ state[m] = "absent" => state'[m] = "absent"
       /\ state'[m] \in {"review_pending", "draft"} => state'[m] = state[m]
  /\ \A q \in Question : state'[q] \in {"sending", "failed"} => payload'[q] # None

\* Something new comes from a draft, a reply or a review only.
LEMMA WritersStep ==
  ASSUME TypeOK, HandInv, AttemptInv, CurrentInv, [Next]_vars
  PROVE  \/ NothingNew
         \/ \E d \in Draft : DraftReply(d)
         \/ \E r \in Reply : Ingest(r)
         \/ \E r \in Reply, person, complete \in BOOLEAN : Review(r, person, complete)
<1> USE ConstantsOK DEF TypeOK, HandInv, AttemptInv, CurrentInv, NothingNew, Calls, Attempted,
   Message, orderVars
<1>1. CASE UNCHANGED vars
  BY <1>1 DEF vars, replyVars, attemptVars
<1>2. CASE Elsewhere
  <2>1. ASSUME NEW x \in Row, OpenTransaction(x) PROVE NothingNew
    <3>1. ASSUME NEW r \in Reply, reply[r] # "absent" PROVE x # r
      BY <2>1, <3>1, ConstantsOK DEF OpenTransaction
    <3>2. ASSUME NEW d \in Draft, state[d] # "absent" PROVE x # d
      BY <2>1, <3>2, ConstantsOK DEF OpenTransaction
    <3>3. \A y \in Reply \cup Draft : y # x => older'[y] \subseteq older[y]
      BY <2>1 DEF OpenTransaction, Row
    <3> QED BY <2>1, <3>1, <3>2, <3>3 DEF OpenTransaction, replyVars, attemptVars
  <2>2. CASE ~\E x \in Row : OpenTransaction(x)
    BY <1>2, <2>2 DEF Elsewhere, OpenWhatsApp, ChangeAddress, EndRun, SwitchProcurement,
       SwitchAutoReply, ListThreads, RejectVendor, AbandonSweep, RestoreVendor, OlderLeaves,
       OlderReviewed, replyVars, attemptVars
  <2> QED BY <2>1, <2>2
<1>3. CASE CreateEnquiry
  BY <1>3 DEF CreateEnquiry, Prepare, replyVars, attemptVars
<1>4. ASSUME NEW s \in Sender, NEW m \in Message, Begin(s, m) PROVE NothingNew
  BY <1>4 DEF Begin, Sendable, replyVars
<1>5. ASSUME NEW s \in Sender, Prepares(s) PROVE NothingNew
  BY <1>5 DEF Prepares, Shortlist, ApprovalRefused, DropPicked, List, SendOlder, replyVars, attemptVars
<1>6. ASSUME NEW s \in Sender, Proceed(s) \/ Abandon(s) PROVE NothingNew
  BY <1>6 DEF Proceed, Abandon, ProviderAccepts, CallFails, RecordSent, MarkThreadFailed,
     MarkMessageFailed, Failed, Becoming, replyVars, attemptVars
<1>7. ASSUME NEW o \in Operator, Approve(o) \/ RecordingFails(o) \/ RecordRefusal(o)
      PROVE  NothingNew
  BY <1>7 DEF Approve, Prepare, RecordingFails, RecordRefusal, Becoming, replyVars, attemptVars
<1>8. ASSUME NEW m \in Message, LateArrival(m) \/ LateLoss(m) PROVE NothingNew
  BY <1>8 DEF LateArrival, LateLoss, replyVars, attemptVars
<1>9. CASE DiscardEnquiry \/ SweepThread
  BY <1>9 DEF DiscardEnquiry, SweepThread, DropThread, Busy, Becoming, replyVars, attemptVars
<1>10. ASSUME NEW m \in Message, SendGrowsOld(m) \/ WindowCloses(m) \/ ProviderForgets(m)
       PROVE  NothingNew
  BY <1>10 DEF SendGrowsOld, WindowCloses, ProviderForgets, replyVars, attemptVars
<1> HIDE DEF TypeOK, HandInv, AttemptInv, CurrentInv, NothingNew
<1> QED BY <1>1, <1>2, <1>3, <1>4, <1>5, <1>6, <1>7, <1>8, <1>9, <1>10, StepKinds DEF Starts

\* A question stays current until it is attempted or superseded.
LEMMA CurrentStep ==
  ASSUME TypeOK, HandInv, AttemptInv, QuestionInv, CurrentInv, [Next]_vars
  PROVE  CurrentInv'
<1> DEFINE Kept(q) == /\ state[q] # "draft"
                      /\ state[q] \in {"sending", "failed"} => payload[q] # None
                      /\ state[q] = "review_pending" => Current(q)
<1>1. CASE NothingNew
  <2>1. ASSUME NEW q \in Question, state'[q] = "review_pending" PROVE Current(q)'
    <3>1. Current(q)
      BY <1>1, <2>1 DEF NothingNew, CurrentInv
    <3>2. ASSUME NEW r \in Reply, reply'[r] # "absent" PROVE Source[q] \notin older'[r]
      BY <1>1, <3>1, <3>2 DEF NothingNew, Current
    <3>3. ASSUME NEW d \in Draft, state'[d] = "draft" PROVE Source[q] \notin older'[d]
      BY <1>1, <3>1, <3>3 DEF NothingNew, Current
    <3> QED BY <3>2, <3>3 DEF Current
  <2>2. ASSUME NEW q \in Question PROVE Kept(q)'
    BY <1>1, <2>1 DEF NothingNew, CurrentInv
  <2> QED BY <2>2 DEF CurrentInv
<1>2. ASSUME NEW d \in Draft, DraftReply(d) PROVE CurrentInv'
  BY <1>2, ConstantsOK DEF DraftReply, Becoming, CurrentInv, AttemptInv, Attempted, Unattempted,
     TypeOK, Message, attemptVars
<1>3. ASSUME NEW r \in Reply, Ingest(r) PROVE CurrentInv'
  BY <1>3, ConstantsOK DEF Ingest, Overtaken, Becoming, CurrentInv, AttemptInv, Attempted,
     Unattempted, TypeOK, Message, attemptVars
<1>4. ASSUME NEW r \in Reply, NEW person \in BOOLEAN, NEW complete \in BOOLEAN,
             Review(r, person, complete)
      PROVE  CurrentInv'
  <2>0. /\ reply[r] = "received" /\ reply' = [reply EXCEPT ![r] = "reviewed"]
        /\ payload' = payload /\ older' = older
    BY <1>4 DEF Review, attemptVars
  <2>1. PICK asked \in SUBSET Question :
          /\ \A q \in asked : Source[q] = r
          /\ asked = {} \/ ~OperatorDraft(r)
          /\ \/ state' = state
             \/ /\ ~NewerReply(r)
                /\ state' = [m \in Message |-> IF m \in asked THEN "review_pending" ELSE Overtaken[m]]
    BY <1>4, ReviewEffect
  <2>2. \A n \in Reply : reply'[n] # "absent" => reply[n] # "absent"
    BY <2>0 DEF TypeOK
  <2>3. CASE state' = state
    BY <2>0, <2>2, <2>3 DEF CurrentInv, Current
  <2>4. CASE /\ ~NewerReply(r)
             /\ state' = [m \in Message |-> IF m \in asked THEN "review_pending" ELSE Overtaken[m]]
    <3>1. ASSUME NEW q \in Question, q \notin asked PROVE Kept(q)'
      BY <2>0, <2>4, <3>1 DEF Overtaken, Becoming, CurrentInv, AttemptInv, Attempted, Unattempted,
         Message
    <3>2. ASSUME NEW q \in asked PROVE Kept(q)'
      <4>1. Source[q] = r /\ q \in Question /\ state'[q] = "review_pending"
        BY <2>1, <2>4, <3>2 DEF Message
      <4>2. \A d \in Draft : state'[d] = "draft" => r \notin older'[d]
        BY <2>0, <2>1, <2>4, <3>2, ConstantsOK DEF OperatorDraft, Overtaken, Becoming, Message
      <4>3. Current(q)'
        BY <2>0, <2>2, <2>4, <4>1, <4>2 DEF NewerReply, Current
      <4> QED BY <4>1, <4>3
    <3> QED BY <3>1, <3>2 DEF CurrentInv
  <2> QED BY <2>1, <2>3, <2>4
<1> QED BY <1>1, <1>2, <1>3, <1>4, WritersStep

\* Only a review adds to the agent's questions.
LEMMA AskedStep ==
  ASSUME TypeOK, HandInv, AttemptInv, CurrentInv, [Next]_vars
  PROVE  \/ Asked' = Asked
         \/ \E r \in Reply, person, complete \in BOOLEAN : Review(r, person, complete)
<1>1. CASE NothingNew
  BY <1>1 DEF NothingNew, Asked, Message
<1>2. ASSUME NEW d \in Draft, DraftReply(d) PROVE Asked' = Asked
  BY <1>2, ConstantsOK DEF DraftReply, Becoming, Asked, Message, TypeOK
<1>3. ASSUME NEW r \in Reply, Ingest(r) PROVE Asked' = Asked
  BY <1>3 DEF Ingest, Overtaken, Becoming, Asked, Message, TypeOK
<1> QED BY <1>1, <1>2, <1>3, WritersStep

\* A review asks at most one question, and none at the limit.
LEMMA BoundedStep ==
  ASSUME TypeOK, HandInv, AttemptInv, CurrentInv, QuestionsBounded, [Next]_vars
  PROVE  QuestionsBounded'
<1>0. IsFiniteSet(Asked)
  BY FS_Subset, ConstantsOK DEF Asked
<1>1. CASE Asked' = Asked
  BY <1>1 DEF QuestionsBounded
<1>2. ASSUME NEW r \in Reply, NEW person \in BOOLEAN, NEW complete \in BOOLEAN,
             Review(r, person, complete)
      PROVE  QuestionsBounded'
  <2>1. PICK asked \in SUBSET Question :
          /\ \A q \in asked : Source[q] = r
          /\ asked = {} \/ ~Exhausted
          /\ \/ state' = state
             \/ state' = [m \in Message |-> IF m \in asked THEN "review_pending" ELSE Overtaken[m]]
    BY <1>2, ReviewEffect
  <2>2. Asked' \subseteq Asked \cup asked
    BY <2>1 DEF Asked, Overtaken, Becoming, Message
  <2>3. CASE asked = {}
    <3>1. Cardinality(Asked') <= Cardinality(Asked)
      BY <1>0, <2>2, <2>3, FS_Subset
    <3> QED BY <3>1, <1>0, FS_CardinalityType, FS_Subset, <2>2, <2>3, ConstantsOK
        DEF QuestionsBounded
  <2>4. CASE asked # {}
    <3>1. PICK q \in asked : TRUE
      BY <2>4
    <3>2. Asked' \subseteq Asked \cup {q}
      BY <2>1, <2>2, <3>1, ConstantsOK
    <3>3. IsFiniteSet(Asked \cup {q}) /\ Cardinality(Asked \cup {q}) <= Cardinality(Asked) + 1
      <4>1. Cardinality(Asked \cup {q}) = IF q \in Asked THEN Cardinality(Asked)
                                                       ELSE Cardinality(Asked) + 1
        BY <1>0, FS_AddElement
      <4>2. Cardinality(Asked) \in Nat
        BY <1>0, FS_CardinalityType
      <4> QED BY <1>0, <4>1, <4>2, FS_AddElement
    <3>4. Cardinality(Asked') <= Cardinality(Asked \cup {q}) /\ IsFiniteSet(Asked')
      BY <3>2, <3>3, FS_Subset
    <3>5. Cardinality(Asked) < MaxQuestions
      BY <2>1, <2>4, <1>0, FS_CardinalityType, ConstantsOK DEF Exhausted
    <3> QED BY <3>3, <3>4, <3>5, <1>0, FS_CardinalityType, ConstantsOK DEF QuestionsBounded
  <2> QED BY <2>3, <2>4
<1> QED BY <1>1, <1>2, AskedStep

\* A payload is frozen by the first transaction of a send and by nothing else.
LEMMA PayloadStep ==
  ASSUME TypeOK, HandInv, [Next]_vars
  PROVE  payload' = payload \/ \E s \in Sender, m \in Message : Begin(s, m)
<1> USE DEF attemptVars
<1>1. CASE UNCHANGED vars \/ Elsewhere
  BY <1>1 DEF vars, Elsewhere, OpenWhatsApp, ChangeAddress, EndRun, SwitchProcurement,
     SwitchAutoReply, ListThreads, RejectVendor, AbandonSweep, RestoreVendor, OlderLeaves,
     OlderReviewed, OpenTransaction
<1>2. CASE CreateEnquiry \/ DiscardEnquiry \/ SweepThread
  BY <1>2 DEF CreateEnquiry, DiscardEnquiry, SweepThread
<1>3. ASSUME NEW d \in Draft, DraftReply(d) PROVE payload' = payload
  BY <1>3 DEF DraftReply
<1>4. ASSUME NEW s \in Sender, Prepares(s) \/ Proceed(s) \/ Abandon(s) PROVE payload' = payload
  BY <1>4 DEF Prepares, Shortlist, ApprovalRefused, DropPicked, List, SendOlder, Proceed, Abandon,
     ProviderAccepts, CallFails, RecordSent, MarkThreadFailed, MarkMessageFailed
<1>5. ASSUME NEW o \in Operator, Approve(o) \/ RecordingFails(o) \/ RecordRefusal(o)
      PROVE  payload' = payload
  BY <1>5 DEF Approve, RecordingFails, RecordRefusal
<1>6. ASSUME NEW m \in Message, \/ LateArrival(m) \/ LateLoss(m) \/ SendGrowsOld(m)
                                \/ WindowCloses(m) \/ ProviderForgets(m)
      PROVE  payload' = payload
  BY <1>6 DEF LateArrival, LateLoss, SendGrowsOld, WindowCloses, ProviderForgets
<1>7. ASSUME NEW r \in Reply, Ingest(r) \/ \E person, complete \in BOOLEAN : Review(r, person, complete)
      PROVE  payload' = payload
  BY <1>7 DEF Ingest, Review
<1> QED BY <1>1, <1>2, <1>3, <1>4, <1>5, <1>6, <1>7, StepKinds DEF Starts

-----------------------------------------------------------------------------
(* The theorems.                                                            *)

\* The inductive invariant of the enquiry holds in every reachable state: what
\* send_email_at freezes stays frozen, what the provider has delivered is
\* accounted for, and (without stalls) every message has one sender.
THEOREM Inductive == Spec => []IInv
<1>1. Init => IInv
  <2> SUFFICES ASSUME Init PROVE IInv
    OBVIOUS
  <2>1. TypeOK
    <3>1. ahead \in 0..Backlog /\ coming \in 0..Backlog /\ ahead + coming <= Backlog
      BY ConstantsOK DEF Init
    <3> QED BY <3>1 DEF Init, TypeOK, ThreadStates, MessageStates, Phases
  <2>2. HandInv /\ CallInv /\ QuestionInv /\ DiscardedIsOver
    BY ConstantsOK DEF Init, HandInv, CallInv, QuestionInv, DiscardedIsOver, Calls, Message
  <2>3. AttemptInv /\ DeliverInv /\ CurrentInv
    BY DEF Init, AttemptInv, DeliverInv, CurrentInv, Message, Row
  <2>4. QuestionsBounded
    <3>1. Asked = {}
      BY DEF Init, Asked, Message
    <3> QED BY <3>1, FS_EmptySet, ConstantsOK DEF QuestionsBounded
  <2> QED BY <2>1, <2>2, <2>3, <2>4 DEF IInv
<1>2. IInv /\ [Next]_vars => IInv'
  <2> SUFFICES ASSUME IInv, [Next]_vars PROVE IInv'
    OBVIOUS
  <2>1. TypeOK' /\ HandInv' /\ AttemptInv' /\ DeliverInv' /\ CallInv' /\ QuestionInv'
        /\ CurrentInv' /\ QuestionsBounded'
    BY TypeStep, HandStep, AttemptStep, DeliverStep, CallStep, QuestionStep, CurrentStep,
       BoundedStep DEF IInv
  <2>2. ~Stalls => DiscardedIsOver'
    BY DiscardStep DEF IInv
  <2> QED BY <2>1, <2>2 DEF IInv
<1> QED BY <1>1, <1>2, PTL DEF Spec

\* Every variable keeps its type.
THEOREM TypeCorrect == Spec => []TypeOK
<1>1. IInv => TypeOK
  BY DEF IInv
<1> QED BY <1>1, Inductive, PTL

\* The supplier gets each message at most once, with any number of senders,
\* retries, deaths, stalls, lost answers and late requests.
THEOREM Delivered == Spec => []DeliveredOnce
<1>1. IInv => DeliveredOnce
  BY DEF IInv, DeliverInv, DeliveredOnce
<1> QED BY <1>1, Inductive, PTL

\* Every attempt of every message of an enquiry goes to one address.
THEOREM Recipient == Spec => []OneRecipient
<1>1. IInv => OneRecipient
  BY DEF IInv, AttemptInv, OneRecipient, Attempted
<1> QED BY <1>1, Inductive, PTL

\* A superseded message never reached the provider.
THEOREM Superseded == Spec => []SupersededWasNeverSent
<1>1. IInv => SupersededWasNeverSent
  BY DEF IInv, TypeOK, AttemptInv, SupersededWasNeverSent, Attempted, Unattempted
<1> QED BY <1>1, Inductive, PTL

\* What was recorded as sent was accepted, and stays recorded.
THEOREM Final == Spec => SentIsFinal
<1>1. IInv /\ [Next]_vars
        => [\A m \in Message : state[m] = "sent" => state'[m] = "sent" /\ deliveries[m] >= 1]_vars
  <2> SUFFICES ASSUME IInv, [Next]_vars, NEW m \in Message, state[m] = "sent"
               PROVE  state'[m] = "sent" /\ deliveries[m] >= 1
    OBVIOUS
  <2>1. deliveries[m] >= 1
    BY DEF IInv, DeliverInv, TypeOK
  <2>2. CASE NothingNew
    BY <2>1, <2>2 DEF NothingNew
  <2>3. ASSUME NEW d \in Draft, DraftReply(d) PROVE state'[m] = "sent"
    BY <2>3, ConstantsOK DEF DraftReply, Becoming, IInv, TypeOK, Message
  <2>4. ASSUME NEW r \in Reply, Ingest(r) PROVE state'[m] = "sent"
    BY <2>4 DEF Ingest, Overtaken, Becoming
  <2>5. ASSUME NEW r \in Reply, NEW person \in BOOLEAN, NEW complete \in BOOLEAN,
               Review(r, person, complete)
        PROVE  state'[m] = "sent"
    <3>1. reply[r] = "received"
      BY <2>5 DEF Review
    <3>2. PICK asked \in SUBSET Question :
            /\ \A q \in asked : Source[q] = r
            /\ \/ state' = state
               \/ state' = [n \in Message |-> IF n \in asked THEN "review_pending" ELSE Overtaken[n]]
      BY <2>5, ReviewEffect
    <3> QED BY <3>1, <3>2 DEF IInv, QuestionInv, Overtaken, Becoming
  <2> QED BY <2>1, <2>2, <2>3, <2>4, <2>5, WritersStep DEF IInv
<1> QED BY <1>1, Inductive, PTL DEF Spec, SentIsFinal

\* A question that goes out for the first time is current, by the dates of the
\* transactions (created_at), however they overlap and whoever gets the lock first.
THEOREM Fresh == Spec => QuestionIsCurrent
<1>1. IInv /\ [Next]_vars
        => [\A q \in Question : q \in Unattempted /\ payload'[q] # None => Current(q)]_vars
  <2> SUFFICES ASSUME IInv, [Next]_vars, NEW q \in Question, payload[q] = None, payload'[q] # None
               PROVE  Current(q)
    BY DEF Unattempted, Attempted, Message
  <2>1. PICK s \in Sender, m \in Message : Begin(s, m)
    BY PayloadStep DEF IInv
  <2>2. m = q
    BY <2>1, ConstantsOK DEF Begin, IInv, TypeOK, Message
  <2>3. state[q] \notin {"absent", "discarded", "superseded", "sent", "sending", "failed", "draft"}
    BY <2>1, <2>2 DEF Begin, Sendable, IInv, CurrentInv
  <2>4. state[q] = "review_pending"
    BY <2>3 DEF IInv, TypeOK, MessageStates, Message
  <2> QED BY <2>4 DEF IInv, CurrentInv
<1> QED BY <1>1, Inductive, PTL DEF Spec, QuestionIsCurrent

\* The agent asks at most MaxQuestions questions.
THEOREM Bounded == Spec => []QuestionsBounded
<1>1. IInv => QuestionsBounded
  BY DEF IInv
<1> QED BY <1>1, Inductive, PTL

\* When no request outlives the 90 seconds after which its send may be repeated,
\* a discarded enquiry is over.
THEOREM Discarded == ~Stalls /\ Spec => []DiscardedIsOver
<1>1. ~Stalls /\ IInv => DiscardedIsOver
  BY DEF IInv
<1>2. CASE ~Stalls
  <2>1. IInv => DiscardedIsOver
    BY <1>1, <1>2
  <2> QED BY <2>1, Inductive, PTL
<1> QED BY <1>2

-----------------------------------------------------------------------------
(* The enquiry implements MessageLifecycle.                                 *)

Untried == UNCHANGED <<payload, deliveries>>

\* A step that only writes, opens or supersedes messages revises the thread.
LEMMA Revised ==
  ASSUME TypeOK, state' \in [Message -> MessageStates], Untried,
         \A m \in Message :
           \/ StageOf(state'[m]) = StageOf(state[m])
           \/ state[m] = "absent" /\ StageOf(state'[m]) = "open"
           \/ StageOf(state[m]) = "open" /\ payload[m] = None /\ state'[m] = "superseded"
  PROVE  Lifecycle!Revise
<1>1. \A m \in Message : Stage[m] = StageOf(state[m]) /\ Stage'[m] = StageOf(state'[m])
  BY DEF Stage
<1>2. \A m \in Message : StageOf(state'[m]) \in Lifecycle!Stages
  BY DEF StageOf, MessageStates, Lifecycle!Stages
<1>3. Stage' \in [Message -> Lifecycle!Stages]
  BY <1>2 DEF Stage
<1>4. ASSUME NEW m \in Message
      PROVE  Stage'[m] = Stage[m] \/ Lifecycle!Written(m) \/ Lifecycle!Superseded(m)
  BY <1>1 DEF StageOf, Lifecycle!Written, Lifecycle!Superseded
<1> QED BY <1>3, <1>4 DEF Lifecycle!Revise, Untried

\* Steps of the enquiry that leave the thread's messages as a reader sees them.
LEMMA LifecycleStutters ==
  ASSUME UNCHANGED <<state, payload, deliveries>>
  PROVE  UNCHANGED Lifecycle!vars
BY DEF Stage, Lifecycle!vars

LEMMA RevisingStep ==
  ASSUME IInv,
         \/ CreateEnquiry
         \/ \E d \in Draft : DraftReply(d)
         \/ \E o \in Operator : Approve(o) \/ RecordRefusal(o)
         \/ \E s \in Sender : MarkMessageFailed(s)
         \/ \E r \in Reply : Ingest(r) \/ \E person, complete \in BOOLEAN : Review(r, person, complete)
  PROVE  Lifecycle!Revise
<1> USE ConstantsOK
<1>0. TypeOK /\ AttemptInv /\ HandInv /\ QuestionInv /\ state \in [Message -> MessageStates]
  BY DEF IInv, TypeOK
<1>1. ASSUME CreateEnquiry \/ \E o \in Operator : Approve(o)
      PROVE  Lifecycle!Revise
  <2>1. Untried
    BY <1>1 DEF CreateEnquiry, Approve, Untried, attemptVars, providerVars
  <2>2. state' = state \/ (thread = "none" /\ state' = [state EXCEPT ![Initial] = "draft"])
    BY <1>1 DEF CreateEnquiry, Approve, Prepare
  <2>3. thread = "none" => \A m \in Message : state[m] = "absent"
    BY <1>0 DEF AttemptInv
  <2> QED BY <1>0, <2>1, <2>2, <2>3, Revised DEF StageOf, MessageStates, Message
<1>2. ASSUME NEW d \in Draft, DraftReply(d)
      PROVE  Lifecycle!Revise
  <2>1. Untried /\ d \in Message /\ state[d] = "absent"
    BY <1>2 DEF DraftReply, Untried, attemptVars, providerVars, Message
  <2>2. state' = [m \in Message |->
          IF m = d THEN "draft"
          ELSE IF payload[m] = None /\ state[m] \in {"draft", "review_pending"} THEN "superseded"
          ELSE state[m]]
    BY <1>2 DEF DraftReply, Becoming, Unattempted, Attempted
  <2> QED BY <1>0, <2>1, <2>2, Revised DEF StageOf, MessageStates
<1>3. ASSUME NEW o \in Operator, RecordRefusal(o)
      PROVE  Lifecycle!Revise
  <2>1. Untried /\ state' = Becoming({"draft", "failed"}, "failed", {Initial})
    BY <1>3 DEF RecordRefusal, Untried, attemptVars, providerVars
  <2> QED BY <1>0, <2>1, Revised DEF Becoming, StageOf, MessageStates
<1>4. ASSUME NEW s \in Sender, MarkMessageFailed(s)
      PROVE  Lifecycle!Revise
  <2>1. Untried /\ state' = Becoming({"sending"}, "failed", {hand[s]})
    BY <1>4 DEF MarkMessageFailed, Failed, Untried, attemptVars, providerVars
  <2> QED BY <1>0, <2>1, Revised DEF Becoming, StageOf, MessageStates
<1>5. ASSUME NEW asked \in SUBSET Question, Untried,
             \A q \in asked : state[q] = "absent",
             state' = state
             \/ state' = [m \in Message |-> IF m \in asked THEN "review_pending" ELSE Overtaken[m]]
      PROVE  Lifecycle!Revise
  <2>1. CASE state' = state
    BY <1>0, <1>5, <2>1, Revised
  <2>2. CASE state' = [m \in Message |-> IF m \in asked THEN "review_pending" ELSE Overtaken[m]]
    <3>1. \A m \in Message : Overtaken[m] =
            IF m \in Question /\ payload[m] = None /\ state[m] = "review_pending" THEN "superseded"
            ELSE state[m]
      BY DEF Overtaken, Becoming, Unattempted, Attempted
    <3> QED BY <1>0, <1>5, <2>2, <3>1, Revised DEF StageOf, MessageStates
  <2> QED BY <1>5, <2>1, <2>2
<1>6. ASSUME NEW r \in Reply, Ingest(r)
      PROVE  Lifecycle!Revise
  <2>1. Untried
    BY <1>6 DEF Ingest, Untried, attemptVars, providerVars
  <2>2. state' = [m \in Message |-> IF m \in {} THEN "review_pending" ELSE Overtaken[m]]
    BY <1>6 DEF Ingest, Overtaken, Becoming
  <2> QED BY <1>5, <2>1, <2>2
<1>7. ASSUME NEW r \in Reply, NEW person \in BOOLEAN, NEW complete \in BOOLEAN,
             Review(r, person, complete)
      PROVE  Lifecycle!Revise
  <2>1. Untried /\ reply[r] = "received"
    BY <1>7 DEF Review, Untried, attemptVars, providerVars
  <2>2. PICK asked \in SUBSET Question :
          /\ \A q \in asked : Source[q] = r
          /\ \/ state' = state
             \/ state' = [m \in Message |-> IF m \in asked THEN "review_pending" ELSE Overtaken[m]]
    BY <1>7, ReviewEffect
  <2>3. \A q \in asked : state[q] = "absent"
    BY <1>0, <2>1, <2>2 DEF QuestionInv
  <2> QED BY <1>5, <2>1, <2>2, <2>3
<1> QED BY <1>1, <1>2, <1>3, <1>4, <1>6, <1>7

\* The first transaction of a send is the first attempt, or a retry.
LEMMA TryingStep ==
  ASSUME IInv, NEW s \in Sender, NEW m \in Message, Begin(s, m)
  PROVE  UNCHANGED Lifecycle!vars \/ \E a \in Address : Lifecycle!Try(m, a)
<1>0. TypeOK /\ AttemptInv
  BY DEF IInv
<1>1. /\ deliveries' = deliveries
      /\ state[m] \in {"draft", "review_pending", "sending", "failed"}
      /\ state' = [state EXCEPT ![m] = "sending"]
  BY <1>0 DEF Begin, Sendable, TypeOK, MessageStates, providerVars
<1>2. Stage' = Stage
  BY <1>0, <1>1 DEF Stage, StageOf, TypeOK
<1>3. Refreshed \in Address /\ payload' = [payload EXCEPT ![m] = IF @ = None THEN Refreshed ELSE @]
  BY <1>0 DEF Begin, Sendable, Refreshed, TypeOK
<1>4. CASE payload[m] # None
  <2>1. payload' = payload
    BY <1>0, <1>3, <1>4 DEF TypeOK
  <2> QED BY <1>1, <1>2, <2>1 DEF Lifecycle!vars
<1>5. CASE payload[m] = None
  <2>1. \A n \in Message : payload[n] \in {None, Refreshed}
    BY <1>0 DEF AttemptInv, Refreshed, Attempted
  <2>2. payload' = [payload EXCEPT ![m] = Refreshed]
    BY <1>3, <1>5
  <2>3. Stage[m] = "open"
    BY <1>1 DEF Stage, StageOf
  <2> QED BY <1>1, <1>2, <1>3, <1>5, <2>1, <2>2, <2>3 DEF Lifecycle!Try
<1> QED BY <1>4, <1>5

\* The provider delivers a message whose key it does not remember.
LEMMA DeliveringStep ==
  ASSUME IInv, NEW m \in Message, Accept(m), UNCHANGED <<state, payload>>,
         m \in late \/ UnderWay(m)
  PROVE  UNCHANGED Lifecycle!vars \/ Lifecycle!Deliver(m)
<1>0. TypeOK /\ AttemptInv /\ DeliverInv /\ HandInv
  BY DEF IInv
<1>1. CASE m \in known
  BY <1>1, LifecycleStutters DEF Accept
<1>2. CASE m \notin known
  <2>1. deliveries[m] = 0
    BY <1>0, <1>2 DEF DeliverInv, TypeOK
  <2>2. deliveries' = [deliveries EXCEPT ![m] = 1]
    BY <1>0, <1>2, <2>1 DEF Accept, TypeOK
  <2>3. payload[m] # None
    BY <1>0 DEF AttemptInv, HandInv, UnderWay, Attempted
  <2>4. Stage' = Stage
    BY DEF Stage
  <2> QED BY <2>1, <2>2, <2>3, <2>4 DEF Lifecycle!Deliver
<1> QED BY <1>1, <1>2

LEMMA RecordingStep ==
  ASSUME IInv, NEW s \in Sender, RecordSent(s)
  PROVE  hand[s] \in Message /\ Lifecycle!Record(hand[s])
<1>0. TypeOK /\ AttemptInv /\ DeliverInv /\ HandInv
  BY DEF IInv
<1>1. phase[s] = "accepted" /\ UNCHANGED <<payload, deliveries>>
  BY DEF RecordSent, providerVars
<1>2. hand[s] \in Message
  BY <1>0, <1>1 DEF HandInv, Calls, Attempted
<1>3. deliveries[hand[s]] = 1
  BY <1>0, <1>1, <1>2 DEF DeliverInv, TypeOK
<1>4. Stage' = [Stage EXCEPT ![hand[s]] = "sent"]
  <2>1. state' = [state EXCEPT ![hand[s]] = "sent"]
    BY DEF RecordSent
  <2> QED BY <1>0, <1>2, <2>1 DEF Stage, StageOf, TypeOK
<1> QED BY <1>1, <1>2, <1>3, <1>4 DEF Lifecycle!Record

\* A discard finds no message being sent, so it ends all that are open.
LEMMA DiscardingStep ==
  ASSUME IInv, DiscardEnquiry \/ SweepThread
  PROVE  Lifecycle!Discard
<1>1. ~Busy /\ state' = Becoming({"draft", "review_pending", "failed"}, "discarded", Message)
  BY DEF DiscardEnquiry, SweepThread, DropThread
<1>2. UNCHANGED <<payload, deliveries>>
  BY DEF DiscardEnquiry, SweepThread, attemptVars, providerVars
<1>3. \A m \in Message : state[m] \in MessageStates /\ state[m] # "sending"
  BY <1>1 DEF Busy, IInv, TypeOK
<1>4. Stage' = [m \in Message |-> IF Stage[m] = "open" THEN "discarded" ELSE Stage[m]]
  BY <1>1, <1>3 DEF Stage, StageOf, Becoming, MessageStates
<1> QED BY <1>2, <1>4 DEF Lifecycle!Discard

\* Every step of an enquiry is a step of MessageLifecycle, or leaves it alone.
LEMMA LifecycleStep ==
  ASSUME IInv, [Next]_vars
  PROVE  [Lifecycle!Next]_(Lifecycle!vars)
<1> USE ConstantsOK
<1>1. CASE UNCHANGED <<state, payload, deliveries>>
  BY <1>1, LifecycleStutters
<1>2. CASE UNCHANGED vars \/ Elsewhere
  BY <1>1, <1>2 DEF vars, Elsewhere, OpenWhatsApp, ChangeAddress, EndRun, SwitchProcurement,
     SwitchAutoReply, ListThreads, RejectVendor, AbandonSweep, RestoreVendor, OlderLeaves,
     OlderReviewed, OpenTransaction, attemptVars,
     providerVars
<1>3. ASSUME NEW s \in Sender, NEW m \in Message, Begin(s, m)
      PROVE  [Lifecycle!Next]_(Lifecycle!vars)
  BY <1>3, TryingStep DEF Lifecycle!Next
<1>4. ASSUME NEW s \in Sender, Prepares(s) \/ CallFails(s) \/ MarkThreadFailed(s) \/ Abandon(s)
      PROVE  UNCHANGED <<state, payload, deliveries>>
  BY <1>4 DEF Prepares, Shortlist, ApprovalRefused, DropPicked, List, SendOlder, CallFails,
     MarkThreadFailed, Abandon, attemptVars, providerVars
<1>5. ASSUME NEW s \in Sender, ProviderAccepts(s)
      PROVE  [Lifecycle!Next]_(Lifecycle!vars)
  <2>1. phase[s] = "calling" /\ hand[s] \in Message
    BY <1>5 DEF ProviderAccepts, IInv, HandInv, Calls, Attempted
  <2>2. UnderWay(hand[s])
    BY <2>1 DEF UnderWay, Calls
  <2>3. Accept(hand[s]) /\ UNCHANGED <<state, payload>>
    BY <1>5 DEF ProviderAccepts, attemptVars
  <2> QED BY <2>1, <2>2, <2>3, DeliveringStep DEF Lifecycle!Next
<1>6. ASSUME NEW s \in Sender, RecordSent(s) PROVE Lifecycle!Next
  BY <1>6, RecordingStep DEF Lifecycle!Next
<1>7. ASSUME NEW m \in Message, LateArrival(m) PROVE [Lifecycle!Next]_(Lifecycle!vars)
  <2>1. Accept(m) /\ m \in late /\ UNCHANGED <<state, payload>>
    BY <1>7 DEF LateArrival, attemptVars
  <2> QED BY <2>1, DeliveringStep DEF Lifecycle!Next
<1>8. ASSUME NEW m \in Message,
             LateLoss(m) \/ SendGrowsOld(m) \/ WindowCloses(m) \/ ProviderForgets(m)
      PROVE  UNCHANGED <<state, payload, deliveries>>
  BY <1>8 DEF LateLoss, SendGrowsOld, WindowCloses, ProviderForgets, attemptVars, providerVars
<1>9. ASSUME NEW o \in Operator, RecordingFails(o)
      PROVE  UNCHANGED <<state, payload, deliveries>>
  BY <1>9 DEF RecordingFails, attemptVars, providerVars
<1>10. ASSUME \/ CreateEnquiry
              \/ \E d \in Draft : DraftReply(d)
              \/ \E o \in Operator : Approve(o) \/ RecordRefusal(o)
              \/ \E s \in Sender : MarkMessageFailed(s)
              \/ \E r \in Reply : \/ Ingest(r)
                                  \/ \E person, complete \in BOOLEAN : Review(r, person, complete)
       PROVE  Lifecycle!Next
  BY <1>10, RevisingStep DEF Lifecycle!Next
<1>11. CASE DiscardEnquiry \/ SweepThread
  BY <1>11, DiscardingStep DEF Lifecycle!Next
<1>12. ASSUME NEW s \in Sender, Proceed(s) PROVE [Lifecycle!Next]_(Lifecycle!vars)
  BY <1>1, <1>4, <1>5, <1>6, <1>10, <1>12 DEF Proceed
<1> HIDE DEF Lifecycle!Next, Lifecycle!vars
<1> QED BY <1>1, <1>2, <1>3, <1>4, <1>7, <1>8, <1>9, <1>10, <1>11, <1>12, StepKinds DEF IInv, Starts

\* The enquiry implements MessageLifecycle: a message is delivered once at most,
\* after it was tried, all to one address; a superseded one was never tried, a
\* discard ends all that are open, and what is recorded as sent was delivered.
THEOREM Implements == Spec => ImplementsLifecycle
<1>1. Init => Lifecycle!Init
  BY DEF Init, Stage, StageOf, Lifecycle!Init
<1>2. IInv /\ [Next]_vars => [Lifecycle!Next]_(Lifecycle!vars)
  BY LifecycleStep
<1> QED BY <1>1, <1>2, Inductive, PTL DEF Spec, ImplementsLifecycle, Lifecycle!Spec
=============================================================================
