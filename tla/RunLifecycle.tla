---------------------------- MODULE RunLifecycle ----------------------------
(***************************************************************************)
(* What the run queue promises to a caller that knows nothing of leases,    *)
(* attempts, supervisors or switches: a run is submitted at most once, is   *)
(* open until it has one outcome, and keeps that outcome; a conversation    *)
(* has one open run at a time; closing a conversation cancels its open run  *)
(* and admits no other.                                                     *)
(***************************************************************************)
CONSTANTS Run, Conversation, None, Conv

VARIABLES
  outcome,  \* of each run
  closed    \* the conversations that are archived

vars == <<outcome, closed>>

Outcomes == {"completed", "failed", "cancelled"}

Init ==
  /\ outcome = [r \in Run |-> "absent"]
  /\ closed = {}

\* A chat is submitted to a conversation that is not closed and not busy.
Submit(r) ==
  /\ outcome[r] = "absent"
  /\ Conv[r] \notin closed
  /\ \A s \in Run : Conv[s] = Conv[r] => outcome[s] # "open"
  /\ outcome' = [outcome EXCEPT ![r] = "open"]
  /\ UNCHANGED closed

Settles(r) == outcome[r] = "open" /\ outcome'[r] \in Outcomes

\* Background work carries no conversation.
Starts(r) == Conv[r] = None /\ outcome[r] = "absent" /\ outcome'[r] = "open"

\* Any open runs get their outcome, and background runs start.
Progress ==
  /\ outcome' \in [Run -> {"absent", "open"} \cup Outcomes]
  /\ \A r \in Run : outcome'[r] = outcome[r] \/ Settles(r) \/ Starts(r)
  /\ UNCHANGED closed

Close(c) ==
  /\ closed' = closed \cup {c}
  /\ outcome' = [r \in Run |-> IF Conv[r] = c /\ outcome[r] = "open" THEN "cancelled"
                               ELSE outcome[r]]

Next ==
  \/ \E r \in Run : Submit(r)
  \/ Progress
  \/ \E c \in Conversation : Close(c)

Spec == Init /\ [][Next]_vars
=============================================================================
