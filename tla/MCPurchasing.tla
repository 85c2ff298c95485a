---------------------------- MODULE MCPurchasing ----------------------------
(* Instances of Purchasing for TLC: the stock, the terms, the limits and the *)
(* stock movements that are asked for.                                       *)
EXTENDS Purchasing, TLC

CONSTANTS k1, k2, x1, x2, m1, m2, mail, phone

TwoBelow == <<1, 0>>
ParOfTwo == <<2, 1>>
FirstVendor == <<1, 1>>

PerPack == [pack |-> 2, price |-> 1, minimum |-> 1, target |-> None]
PerUnit == [pack |-> 1, price |-> 2, minimum |-> 2, target |-> 3]
Unpriced == [pack |-> 1, price |-> None, minimum |-> 1, target |-> None]
AllTerms == {PerPack, PerUnit, Unpriced}

Details == {{}, {mail}, {mail, phone}}

AutoSmall == [auto |-> 1, limit |-> 3]
Capped == [auto |-> 0, limit |-> 1]
AllPolicies == {AutoSmall, Capped}

\* One delivery; the same key on another item; a second delivery that expects
\* the balance before the first; an issue of more than there may be; a count.
Delivery == <<k1, [item |-> 1, kind |-> "receipt", quantity |-> 1, expected |-> None]>>
WrongItem == <<k1, [item |-> 2, kind |-> "receipt", quantity |-> 1, expected |-> None]>>
Expecting == <<k2, [item |-> 1, kind |-> "receipt", quantity |-> 2, expected |-> 1]>>
Use == <<k2, [item |-> 1, kind |-> "issue", quantity |-> 2, expected |-> None]>>
Recount == <<k2, [item |-> 1, kind |-> "count", quantity |-> 0, expected |-> None]>>
AllAsks == {Delivery, WrongItem, Expecting, Use, Recount}

\* Operators edit the first vendor, its rule and its rival's for the first item,
\* the limits and every order.
AllEdits ==
  {<<"vendor", 1>>, <<"judge", 1>>, <<"research", 1>>, <<"create", 3>>,
   <<"rule", <<1, 1>>>>, <<"rule", <<1, 2>>>>, <<"policy", None>>, <<"switch", None>>}
    \cup {<<"order", n>> : n \in Number}

\* Either operators edit and decide, beside one delivery that is made while no
\* dialog is open, or stock moves beside the checks alone.
Arrived == {x \in Call : call[x] # None}
OneOrTheOther ==
  \/ /\ Cardinality(Arrived) <= 1
     /\ \A x \in Arrived : /\ <<call[x].key, call[x].payload>> = Delivery
                           /\ call[x].phase \in {"arrived", "keyed", "locked"} => form = None
                           /\ call[x].phase # "refused"
     /\ vendor[3] # None => revision = 1
  \/ /\ form = None /\ enabled
     /\ revision = Len(movement)
     /\ \A n \in Number : orders[n].status \in {"none", "draft", "withdrawn"}

\* Calls and monitors are alike: take them in order.
InOrder ==
  /\ call[x2] # None => call[x1] # None
  /\ check[m2] # None => check[m1] # None
=============================================================================
