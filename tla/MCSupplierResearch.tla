-------------------------- MODULE MCSupplierResearch --------------------------
(* Instances of SupplierResearch for TLC.  The state space is the union of     *)
(* three scenarios, each of which leaves part of the system idle.              *)
EXTENDS SupplierResearch, TLC

CONSTANTS x1, x2, q1, q2, q3, lamb, rice, acme, best

Busy == {x \in Call : call[x] # None}
Phases == {call[x].phase : x \in Busy}
NoBatch(b) == run[b] = None
\* Evidence of the first business has a contact, of the second none.
Evidence == \A x \in Busy : At(x, "saving") => call[x].contact = (call[x].name = acme)

\* Calls search the web, in one batch and in its retry; nothing is saved yet.
Searching ==
  /\ Phases \subseteq {"waiting", "searching"}
  /\ Known = {}
  /\ NoBatch(3)
  /\ ~NoBatch(2) => run[2].key[1] = "retry"

\* The calls of one batch save and vet candidates of two categories and recommend
\* for the first, while the operator works on the same vendors.
Saving ==
  /\ Phases \cap {"waiting", "searching"} # {} => Known = {} /\ Len(search) = 0
  /\ Len(search) <= 1
  /\ NoBatch(2)
  /\ ~NoBatch(1) => run[1].input.plan = None /\ ~run[1].dismissed
  /\ \A x \in Busy : At(x, "saving") => (call[x].category = lamb) = (call[x].name = acme)
  /\ \A x \in Busy : At(x, "choosing") => call[x].category = lamb
  /\ \A v \in Known : vendor[v].managed \/ vendor[v].discarded => v = 1
  /\ renamed = {}

\* Batch after batch, one call at a time; an operator renames a vendor while
\* there are two.
Continuing ==
  /\ Cardinality(Busy) <= 1
  /\ \A b \in Batch : Cardinality(Used(b)) <= 1
  /\ \A n \in 1..Len(search) : search[n].query = q1
  /\ \A x \in Busy : At(x, "waiting") => call[x].query = q1
  /\ \A x \in Busy : call[x].phase \in {"saving", "choosing"} => call[x].category = lamb
  /\ \A v \in Known : ~vendor[v].managed /\ ~vendor[v].discarded /\ vendor[v].vetting # "checked"
  /\ ~NoBatch(1) /\ Len(search) > 0 => run[1].input.plan = {lamb, rice}
  /\ \A b \in Batch : ~NoBatch(b) =>
       ~run[b].dismissed /\ run[b].of = b - 1 /\ run[b].key[2] # rice
  /\ \A b \in 2..MaxBatches : ~NoBatch(b) => run[b - 1].status = "over"
  /\ renamed \subseteq {1}
  /\ renamed # {} => NoBatch(3)
  /\ ~NoBatch(3) => run[2].key[1] # run[3].key[1]

Scenario == Evidence /\ (Searching \/ Saving \/ Continuing)
=============================================================================
