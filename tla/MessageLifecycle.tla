-------------------------- MODULE MessageLifecycle --------------------------
(***************************************************************************)
(* What an enquiry promises about the messages to its supplier, to a reader *)
(* of its thread that knows nothing of senders, retries, time limits,       *)
(* replies or switches: each is delivered once at most, and only when it    *)
(* was tried; all are tried to one address; what is superseded was never    *)
(* tried, a discard ends every message that is open, and what was recorded  *)
(* as sent was delivered and stays so.                                      *)
(***************************************************************************)
EXTENDS Naturals

CONSTANTS Message, Address, None

VARIABLES
  stage,      \* of each message
  to,         \* whom it was tried to reach at, None before that
  deliveries  \* how often the provider accepted it

vars == <<stage, to, deliveries>>

Stages == {"unwritten", "open", "sent", "superseded", "discarded"}

Init ==
  /\ stage = [m \in Message |-> "unwritten"]
  /\ to = [m \in Message |-> None]
  /\ deliveries = [m \in Message |-> 0]

Written(m) == stage[m] = "unwritten" /\ stage'[m] = "open"
Superseded(m) == stage[m] = "open" /\ to[m] = None /\ stage'[m] = "superseded"

\* Messages are written; others, that were not tried, are superseded.
Revise ==
  /\ stage' \in [Message -> Stages]
  /\ \A m \in Message : stage'[m] = stage[m] \/ Written(m) \/ Superseded(m)
  /\ UNCHANGED <<to, deliveries>>

\* The first attempt; a retry changes nothing here.
Try(m, a) ==
  /\ stage[m] = "open" /\ to[m] = None
  /\ \A n \in Message : to[n] \in {None, a}
  /\ to' = [to EXCEPT ![m] = a]
  /\ UNCHANGED <<stage, deliveries>>

\* Of a message that was tried, whatever has become of it since.
Deliver(m) ==
  /\ to[m] # None /\ deliveries[m] = 0
  /\ deliveries' = [deliveries EXCEPT ![m] = 1]
  /\ UNCHANGED <<stage, to>>

Record(m) ==
  /\ deliveries[m] = 1
  /\ stage' = [stage EXCEPT ![m] = "sent"]
  /\ UNCHANGED <<to, deliveries>>

\* The enquiry is dropped.
Discard ==
  /\ stage' = [m \in Message |-> IF stage[m] = "open" THEN "discarded" ELSE stage[m]]
  /\ UNCHANGED <<to, deliveries>>

Next ==
  \/ Revise \/ Discard
  \/ \E m \in Message : Deliver(m) \/ Record(m) \/ \E a \in Address : Try(m, a)

Spec == Init /\ [][Next]_vars
=============================================================================
