----------------------------- MODULE MCRunQueue -----------------------------
(* Instances of RunQueue for TLC: which rows exist, and who claims them.     *)
EXTENDS RunQueue, TLC

CONSTANTS c1, c2, v1, v2, s1, i0, i1, k1, k2, w1, w2, t1, t2, t3, t4

\* By the first letter of the row: a chat, a search, a reply, a review.
KindOf(r) ==
  CASE r \in {c1, c2} -> "chat"
    [] r \in {v1, v2} -> "vendor_research"
    [] r = s1         -> "supplier_reply"
    [] r \in {i0, i1} -> "inventory_review"

RevOf(r) == IF r = i0 THEN 0 ELSE IF r = i1 THEN 1 ELSE -1

KindAll == [r \in Run |-> KindOf(r)]
RevAll == [r \in Run |-> RevOf(r)]
NoParent == [r \in Run |-> None]

\* Two chats of one conversation.
SameConv == [r \in Run |-> IF KindOf(r) = "chat" THEN k1 ELSE None]

\* v1 is dispatched by the chat c1.
ChatParent == [r \in Run |-> IF r = v1 THEN c1 ELSE None]
\* v1 is started by the operator; v2 continues it.
OperatorParent == [r \in Run |-> IF r = v2 THEN v1 ELSE None]

TwoChatLanes == [w \in Worker |-> "chat"]
TwoBackgroundLanes == [w \in Worker |-> "background"]
OneOfEach == [w \in Worker |-> IF w = w1 THEN "chat" ELSE "background"]
CombinedAndBackground == [w \in Worker |-> IF w = w1 THEN "all" ELSE "background"]

(* QueueBackground explores two scenarios: an operator's searches and a       *)
(* supplier's reply, or reviews beside a chat.                               *)
Searching ==
  /\ \A r \in {c1, i0, i1} : status[r] = "absent"
  /\ interrupted = [r \in Run |-> 0]
  /\ monitoring /\ checked = -1 /\ revision = 0
  /\ phase[w1] = "idle"

Reviewing ==
  /\ \A r \in {s1, v1, v2} : status[r] = "absent" /\ r \notin starting
  /\ enabled /\ ~pausing
  /\ interrupted[i1] = 0 /\ interrupted[c1] = 0

SearchesOrReviews == Searching \/ Reviewing

TokenSymmetry == Permutations(Token)
PeerSymmetry == Permutations(Token) \cup Permutations(Worker)
=============================================================================
