---------------------------- MODULE MCEventStream ----------------------------
(* Instances of EventStream for TLC. *)
EXTENDS EventStream, TLC

CONSTANTS w1, w2
=============================================================================
