------------------------------- MODULE EventLog -------------------------------
(***************************************************************************)
(* What the events of a run promise to who follows them, without writers'   *)
(* transactions, pages, cursors or connections: a log that only grows at     *)
(* its end and has one outcome, of which each entry is delivered once, in    *)
(* the order of the log.                                                     *)
(***************************************************************************)
EXTENDS Naturals

CONSTANTS Id, None

VARIABLES
  log,      \* the kind of the entry by id, or None
  got,      \* the ids delivered
  latest    \* the one delivered last, or 0

vars == <<log, got, latest>>

Kind == {"progress", "completed", "cancelled", "discarded"}

Logged == {i \in Id : log[i] # None}
Says(kind) == \E i \in Id : log[i] = kind

Init ==
  /\ log = [i \in Id |-> None]
  /\ got = {}
  /\ latest = 0

\* A run works until it is completed or cancelled, is not both, and is discarded
\* after that.
MayFollow(kind) ==
  /\ kind \in {"progress", "completed"} => ~Says("completed") /\ ~Says("cancelled")
  /\ kind = "cancelled" => ~Says("completed")
  /\ kind = "discarded" => Says("completed") \/ Says("cancelled")

Append(i, kind) ==
  /\ \A j \in Logged : j < i
  /\ MayFollow(kind)
  /\ log' = [log EXCEPT ![i] = kind]
  /\ UNCHANGED <<got, latest>>

Deliver(i) ==
  /\ i \in Logged \ got
  /\ \A j \in Logged \ got : i <= j
  /\ got' = got \cup {i}
  /\ latest' = i
  /\ UNCHANGED log

Next == \E i \in Id : Deliver(i) \/ \E kind \in Kind : Append(i, kind)

Spec == Init /\ [][Next]_vars
=============================================================================
