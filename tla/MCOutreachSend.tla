--------------------------- MODULE MCOutreachSend ---------------------------
(* Instances of OutreachSend for TLC: which messages and replies there may be. *)
EXTENDS OutreachSend, TLC

CONSTANTS d1, d2, q1, q2, r1, r2, o1, o2, a1, a2

Answers == [q \in Question |-> IF q = q1 THEN r1 ELSE r2]

OperatorSymmetry == Permutations(Operator)
PeerSymmetry == Permutations(Operator) \cup Permutations(Address)

(* Each instance explores two scenarios.                                     *)

\* The supplier does not answer: operators send, approve, retry and discard.
Unanswered == Reply \cap Begun = {} /\ enabled /\ auto

\* The transactions that have begun and not yet written their row.
Overlapping ==
  {x \in Begun : (x \in Message /\ state[x] = "absent") \/ (x \in Reply /\ reply[x] = "absent")}

\* The supplier answers within the day and one operator is at work, in good
\* time; of senders at work, requests that are late and transactions that wait,
\* there are two at a time.
Answered ==
  /\ approving = {} /\ closed = {} /\ sweep = "no" /\ ~rejected
  /\ Cardinality(late) <= 1
  /\ Cardinality({s \in Sender : phase[s] # "idle"}) + Cardinality(late \cup Overlapping) <= 2
  /\ recipient \in {None, address}
  /\ \E o \in Operator : phase[o] = "idle"
  /\ \A m \in Message : UnderWay(m) => m \in recent

Scenario == Unanswered \/ Answered

\* The second operator is there for the approvals only, and one transaction waits.
FollowedUp ==
  /\ Cardinality(Overlapping) <= 1
  /\ approving = {} /\ closed = {} /\ sweep = "no" /\ ~rejected
  /\ phase[o2] = "idle"

ApprovedOrFollowedUp == Unanswered \/ FollowedUp
=============================================================================
