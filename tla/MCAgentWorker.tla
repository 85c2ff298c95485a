--------------------------- MODULE MCAgentWorker ---------------------------
(* An instance of AgentWorker for TLC.                                       *)
EXTENDS AgentWorker, TLC

CONSTANTS r1, r2

\* Bound: three claims in all, one of them a second.
ThreeClaims == claims[r1] + claims[r2] <= 3

RunSymmetry == Permutations(Run)
=============================================================================
