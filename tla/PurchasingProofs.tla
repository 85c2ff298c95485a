--------------------------- MODULE PurchasingProofs ---------------------------
(***************************************************************************)
(* Proofs about Purchasing, for any items, vendors, monitors and edits.     *)
(* Every purchasing step is a step of the stock ledger or leaves it alone,  *)
(* so what StockLedgerProofs shows of the ledger is so beside the checks    *)
(* and the edits; and a pause finds no check under way (PausedIsQuiet), so  *)
(* none commits before the agent is resumed.                                *)
(***************************************************************************)
EXTENDS Purchasing, StockLedgerProofs, FiniteSetTheorems, FunctionTheorems,
        WellFoundedInduction

\* A monitor that checks holds the role's row, so the switch waits for it.
PausedIsQuiet ==
  /\ DOMAIN check = Monitor
  /\ enabled \in BOOLEAN
  /\ ~enabled => \A m \in Monitor : check[m] = None

-----------------------------------------------------------------------------
LEMMA CatalogueSteps ==
  ASSUME CatalogueStep
  PROVE  UNCHANGED <<ledger, agent, orders>>
  BY DEF CatalogueStep, CreateVendor, UpdateVendor, JudgeVendor, ContactFound, Assign,
         Unassign, UpdatePolicy

\* A purchasing step is a step of the ledger or leaves it as it is.
LEMMA StepIsLedgerStep ==
  ASSUME [PurchasingNext]_vars
  PROVE  [LedgerNext]_ledger
  <1>1. CASE UNCHANGED vars
    BY <1>1 DEF vars
  <1>2. CASE \E m \in Monitor : CheckBegin(m) \/ CheckLock(m) \/ CheckCommit(m) \/ CheckFails(m)
    BY <1>2 DEF CheckBegin, CheckLock, CheckCommit, CheckFails
  <1>3. CASE (\E on \in BOOLEAN : Switch(on)) \/ OpenForm \/ CloseForm
    BY <1>3 DEF Switch, OpenForm, CloseForm
  <1>4. CASE CatalogueStep
    BY <1>4, CatalogueSteps
  <1>5. CASE \E x \in Call : StockMoves(x) \/ StockCall(x)
    BY <1>5 DEF StockMoves, StockCall, LedgerNext
  <1>6. CASE \E n \in Number : Approve(n) \/ Reject(n)
    BY <1>6 DEF Approve, Reject
  <1> QED
    BY <1>1, <1>2, <1>3, <1>4, <1>5, <1>6 DEF PurchasingNext

\* Whatever the monitors, the operators and their dialogs do beside it, the
\* stock ledger behaves as StockLedger says.
THEOREM PurchasingKeepsLedger == PurchasingSpec => LedgerSpec
  <1>1. PurchasingInit => LedgerInit
    BY DEF PurchasingInit
  <1>2. [PurchasingNext]_vars => [LedgerNext]_ledger
    BY StepIsLedgerStep
  <1> QED
    BY <1>1, <1>2, PTL DEF PurchasingSpec, LedgerSpec

\* So, beside checks, approvals and edits, the movements of an item still form a
\* chain from its opening balance to its balance, and never fall below nothing.
THEOREM StockAddsUp == PurchasingSpec => []LedgerAddsUp
  BY PurchasingKeepsLedger, MovementsAddUp, PTL

\* And a movement that is asked for again under its key is applied once.
THEOREM StockKeysApplyOnce == PurchasingSpec => []KeyAppliedOnce
  BY PurchasingKeepsLedger, KeysApplyOnce, PTL

-----------------------------------------------------------------------------
\* Once a pause has returned, no check commits before the agent is resumed,
\* whichever monitors of whichever processes were checking when it was asked for.
THEOREM NoCheckWhilePaused == PurchasingSpec => PausedMeansNoCheck
  <1>1. PurchasingInit => PausedIsQuiet
    BY DEF PurchasingInit, PausedIsQuiet
  <1>2. ASSUME PausedIsQuiet, [PurchasingNext]_vars
        PROVE  PausedIsQuiet' /\ (~enabled => checked' = checked)
    <2> USE <1>2
    <2>1. CASE UNCHANGED agent
      BY <2>1 DEF agent, PausedIsQuiet
    <2>2. ASSUME NEW m \in Monitor, CheckBegin(m) \/ CheckLock(m) \/ CheckCommit(m)
          PROVE  /\ enabled /\ enabled' = enabled
                 /\ DOMAIN check' = Monitor
      BY <2>2 DEF CheckBegin, CheckLock, CheckCommit, CheckAt, PausedIsQuiet
    <2>3. ASSUME NEW m \in Monitor, CheckFails(m)
          PROVE  /\ enabled /\ enabled' = enabled
                 /\ DOMAIN check' = Monitor
      BY <2>3 DEF CheckFails, PausedIsQuiet
    <2>4. ASSUME NEW on \in BOOLEAN, Switch(on)
          PROVE  PausedIsQuiet' /\ checked' = checked
      BY <2>4 DEF Switch, PausedIsQuiet
    <2>5. (CatalogueStep \/ OpenForm \/ CloseForm \/ (\E x \in Call : StockMoves(x) \/ StockCall(x))
             \/ \E n \in Number : Approve(n) \/ Reject(n)) => UNCHANGED agent
      BY CatalogueSteps DEF OpenForm, CloseForm, StockMoves, StockCall, Approve, Reject
    <2>6. UNCHANGED vars => UNCHANGED agent
      BY DEF vars
    <2> QED
      BY <2>1, <2>2, <2>3, <2>4, <2>5, <2>6 DEF PurchasingNext, PausedIsQuiet
  <1> QED
    BY <1>1, <1>2, PTL DEF PurchasingSpec, PausedMeansNoCheck

-----------------------------------------------------------------------------
(* A decided order is not written again.  The check that commits last knows   *)
(* the orders of its snapshot only; that it spares those decided since rests   *)
(* on the drafts it has locked (ChecksHold), and that it takes no number of    *)
(* another order rests on the orders being numbered without a gap (NoGap).     *)

LEMMA Bounds ==
  MaxOrders \in Nat /\ Vendor \subseteq Nat /\ IsFiniteSet(Vendor) /\ Known \subseteq Vendor
  BY PurchasingConstantsOK

\* The columns that a later step replaces.
Row(o) == {"status", "snapshot"} \subseteq DOMAIN o

\* A decided order has its copy of the vendor's details.
OrderRows ==
  /\ DOMAIN orders = Number
  /\ \A n \in Drafted : Row(orders[n])
  /\ \A n \in Number : orders[n].status \in {"approved", "rejected"} => orders[n].snapshot # <<>>

NoGap == \A n \in Drafted : n <= Cardinality(Drafted)

OneCheck ==
  /\ DOMAIN check = Monitor
  /\ \A m, o \in Monitor : check[m] # None /\ check[o] # None => m = o

ChecksHold ==
  \A m \in Monitor : check[m] # None =>
    /\ check[m] = [phase |-> check[m].phase, s |-> check[m].s, lines |-> check[m].lines]
    /\ check[m].phase = "locked" =>
         \A n \in InStatus(check[m].s.orders, "draft") : orders[n] = check[m].s.orders[n]

OrdersInv == OrderRows /\ NoGap /\ OneCheck /\ ChecksHold

\* The members of F are given the places after k, in order.
Placed(F, k, below, place, P) ==
  /\ below = [v \in F |-> {u \in F : u < v}]
  /\ place = [v \in F |-> k + 1 + Cardinality(below[v])]
  /\ P = {place[v] : v \in F}

LEMMA PartIsSmaller ==
  ASSUME NEW S, IsFiniteSet(S), NEW v \in S, NEW T, T \subseteq S, v \notin T
  PROVE  Cardinality(T) < Cardinality(S) /\ Cardinality(T) \in Nat /\ Cardinality(S) \in Nat
  <1>1. T \subseteq S \ {v} /\ IsFiniteSet(S \ {v})
        /\ Cardinality(S \ {v}) = Cardinality(S) - 1
    BY FS_RemoveElement
  <1>2. Cardinality(T) <= Cardinality(S \ {v})
    BY <1>1, FS_Subset
  <1>3. Cardinality(T) \in Nat /\ Cardinality(S) \in Nat
    BY <1>1, FS_Subset, FS_CardinalityType
  <1> QED
    BY <1>1, <1>2, <1>3

\* So the places are as many as the members, and the next ones after k.
LEMMA Places ==
  ASSUME NEW F, IsFiniteSet(F), F \subseteq Nat, NEW k \in Nat,
         NEW below, NEW place, NEW P, Placed(F, k, below, place, P)
  PROVE  /\ \A v \in F : place[v] \in Nat /\ k < place[v] /\ place[v] <= k + Cardinality(F)
         /\ \A v, w \in F : place[v] = place[w] => v = w
         /\ IsFiniteSet(P) /\ Cardinality(P) = Cardinality(F) /\ Cardinality(F) \in Nat
  <1>1. \A v \in F : v \in Nat
    OBVIOUS
  <1>2. \A v \in F : below[v] \subseteq F /\ \A u \in F : u \in below[v] <=> u < v
    BY DEF Placed
  <1>3. ASSUME NEW v \in F
        PROVE  place[v] = k + 1 + Cardinality(below[v])
    BY DEF Placed
  <1>4. ASSUME NEW v \in F
        PROVE  /\ Cardinality(below[v]) < Cardinality(F)
               /\ Cardinality(below[v]) \in Nat /\ Cardinality(F) \in Nat
               /\ IsFiniteSet(below[v])
    <2>1. below[v] \subseteq F /\ (v \in below[v] => v < v)
      BY <1>2
    <2>2. ~(v < v)
      BY <1>1
    <2> QED
      BY <2>1, <2>2, PartIsSmaller, FS_Subset
  <1>5. ASSUME NEW v \in F
        PROVE  place[v] \in Nat /\ k < place[v] /\ place[v] <= k + Cardinality(F)
    <2>1. \A a, b \in Nat : a < b => k + 1 + a \in Nat /\ k < k + 1 + a /\ k + 1 + a <= k + b
      OBVIOUS
    <2> QED
      BY <1>3, <1>4, <2>1
  <1>6. ASSUME NEW v \in F, NEW w \in F, v < w
        PROVE  place[v] < place[w]
    <2>1. below[v] \subseteq below[w]
      <3>1. \A u \in F : u < v => u < w
        BY <1>1, <1>6
      <3> QED
        BY <1>2, <3>1
    <2>2. v \in below[w] /\ v \notin below[v]
      BY <1>1, <1>2, <1>6
    <2>3. Cardinality(below[v]) < Cardinality(below[w])
      BY <1>4, <2>1, <2>2, PartIsSmaller
    <2>4. Cardinality(below[v]) \in Nat /\ Cardinality(below[w]) \in Nat
      BY <1>4
    <2> QED
      BY <1>3, <2>3, <2>4
  <1>7. ASSUME NEW v \in F, NEW w \in F, place[v] = place[w] PROVE v = w
    <2>1. v \in Nat /\ w \in Nat /\ place[v] \in Nat
      BY <1>1, <1>5
    <2>2. ~(v < w) /\ ~(w < v)
      BY <1>6, <1>7, <2>1
    <2> QED
      BY <2>1, <2>2
  <1>8. place \in Surjection(F, P)
    BY Fun_IsSurj DEF Placed
  <1>9. place \in Injection(F, P)
    BY <1>7, Fun_IsInj DEF Placed
  <1>10. IsFiniteSet(P) /\ Cardinality(P) = Cardinality(F)
    BY <1>8, <1>9, FS_Surjection
  <1> QED
    BY <1>5, <1>7, <1>10, FS_CardinalityType

\* An order that a check prepares, revises or withdraws.
LEMMA PreparedRow ==
  ASSUME NEW c, NEW v, NEW version
  PROVE  /\ Row(Prepared(c, v, version))
         /\ Prepared(c, v, version).status \in {"draft", "approved"}
         /\ Prepared(c, v, version).status = "approved" => Prepared(c, v, version).snapshot # <<>>
  BY DEF Prepared, Row

LEMMA RevisedRow ==
  ASSUME NEW c, NEW o
  PROVE  /\ Row(Revised(c, o))
         /\ Revised(c, o).status \in {"draft", "approved"}
         /\ Revised(c, o).status = "approved" => Revised(c, o).snapshot # <<>>
  BY DEF Revised, Prepared, Row

LEMMA WithdrawnRow ==
  ASSUME NEW c, NEW o, Row(o)
  PROVE  Row(Withdrawn(c, o)) /\ Withdrawn(c, o).status = "withdrawn"
  BY DEF Row, Withdrawn

\* What a check writes: its drafts again, and new orders after all there are.
LEMMA CommitWrites ==
  ASSUME OrdersInv, NEW m \in Monitor, CheckCommit(m)
  PROVE  /\ OrderRows'
         /\ NoGap'
         /\ \A n \in Number : orders[n].status \in {"approved", "rejected"} => orders'[n] = orders[n]
         /\ \A v \in Fresh(check[m]) : NumberFor(check[m], v) \in Number \ Drafted
         /\ \A v, w \in Fresh(check[m]) : NumberFor(check[m], v) = NumberFor(check[m], w) => v = w
  <1> USE Bounds
  <1> DEFINE c == check[m]
             k == Cardinality(Drafted)
             old == InStatus(c.s.orders, "draft")
             fresh == Fresh(c)
             number == [v \in fresh |-> NumberFor(c, v)]
             new == {number[v] : v \in fresh}
  <1>1. /\ check[m] # None /\ c.phase = "locked"
        /\ \A v \in fresh : NumberFor(c, v) <= MaxOrders
        /\ orders' = AfterCheck(c)
    BY DEF CheckCommit, CheckAt
  <1>2. old \subseteq Number /\ \A n \in old : orders[n] = c.s.orders[n] /\ orders[n].status = "draft"
    BY <1>1 DEF OrdersInv, ChecksHold, InStatus
  <1>3. IsFiniteSet(Drafted) /\ k \in Nat
    <2>1. IsFiniteSet(Number) /\ Drafted \subseteq Number
      BY FS_Interval DEF Number, Drafted
    <2> QED
      BY <2>1, FS_Subset, FS_CardinalityType
  <1>4. IsFiniteSet(fresh) /\ fresh \subseteq Nat /\ fresh \subseteq Vendor
    <2>1. fresh \subseteq Vendor
      BY DEF Fresh, Groups
    <2> QED
      BY <2>1, FS_Subset
  <1>5. /\ \A v \in fresh : number[v] \in Nat /\ k < number[v] /\ number[v] <= k + Cardinality(fresh)
        /\ \A v, w \in fresh : number[v] = number[w] => v = w
        /\ IsFiniteSet(new) /\ Cardinality(new) = Cardinality(fresh) /\ Cardinality(fresh) \in Nat
    <2> DEFINE below == [v \in fresh |-> {u \in fresh : u < v}]
    <2>1. Placed(fresh, k, below, number, new)
      BY DEF NumberFor, Placed
    <2> HIDE DEF number, k, fresh, below, new
    <2>2. IsFiniteSet(fresh) /\ fresh \subseteq Nat /\ k \in Nat
      BY <1>3, <1>4
    <2> QED
      BY <2>1, <2>2, Places
  <1>6. \A v \in fresh : number[v] \in Number
    BY <1>1, <1>3, <1>5 DEF Number
  <1>7. \A n \in Drafted : n <= k
    BY DEF OrdersInv, NoGap
  <1>new. \A n \in new : n \notin Drafted
    BY <1>3, <1>5, <1>7
  <1>8. ASSUME NEW n \in Number
        PROVE  /\ n \in old => /\ Row(orders'[n])
                               /\ orders'[n].status \in {"draft", "approved", "withdrawn"}
                               /\ orders'[n].status = "approved" => orders'[n].snapshot # <<>>
               /\ n \in new /\ n \notin old =>
                               /\ Row(orders'[n])
                               /\ orders'[n].status \in {"draft", "approved"}
                               /\ orders'[n].status = "approved" => orders'[n].snapshot # <<>>
               /\ n \notin old /\ n \notin new => orders'[n] = orders[n]
    <2> DEFINE s == c.s.orders[n]
               v == CHOOSE v \in fresh : n = number[v]
    <2>1. orders'[n] = IF n \in old
                       THEN IF s.vendor \in Groups(c) THEN Revised(c, s) ELSE Withdrawn(c, s)
                       ELSE IF n \in new THEN Prepared(c, v, 1) ELSE orders[n]
      BY <1>1 DEF AfterCheck
    <2>2. ASSUME n \in old
          PROVE  Row(Withdrawn(c, s)) /\ Withdrawn(c, s).status = "withdrawn"
      <3>1. Row(s)
        BY <1>2, <2>2 DEF OrdersInv, OrderRows, Drafted
      <3> QED
        BY <3>1, WithdrawnRow
    <2>3. /\ Row(Revised(c, s)) /\ Revised(c, s).status \in {"draft", "approved"}
          /\ Revised(c, s).status = "approved" => Revised(c, s).snapshot # <<>>
      BY RevisedRow
    <2> HIDE DEF c, old, new, v, s
    <2>4. CASE n \in old
      <3>1. CASE s.vendor \in Groups(c)
        BY <2>1, <2>3, <2>4, <3>1
      <3>2. CASE s.vendor \notin Groups(c)
        BY <2>1, <2>2, <2>4, <3>2
      <3> QED
        BY <3>1, <3>2
    <2>5. CASE n \notin old
      BY <2>1, <2>5, PreparedRow
    <2> QED
      BY <2>4, <2>5
  <1>free. /\ \A v \in fresh : NumberFor(c, v) \in Number \ Drafted
           /\ \A v, w \in fresh : NumberFor(c, v) = NumberFor(c, w) => v = w
    BY <1>5, <1>6, <1>new
  <1> HIDE DEF c, k, old, fresh, number, new
  <1>9. OrderRows'
    <2>1. DOMAIN orders' = Number
      BY <1>1 DEF AfterCheck
    <2>2. ASSUME NEW n \in Number, orders'[n].status # "none"
          PROVE  Row(orders'[n])
      BY <1>8, <2>2 DEF OrdersInv, OrderRows, Drafted
    <2>3. ASSUME NEW n \in Number, orders'[n].status \in {"approved", "rejected"}
          PROVE  orders'[n].snapshot # <<>>
      BY <1>8, <2>3 DEF OrdersInv, OrderRows
    <2> QED
      BY <2>1, <2>2, <2>3 DEF OrderRows, Drafted
  <1>10. NoGap'
    <2>1. Drafted' = Drafted \cup new
      <3>1. new \subseteq Number
        BY <1>6 DEF new
      <3>2. ASSUME NEW n \in Number
            PROVE  orders'[n].status # "none" <=> n \in Drafted \/ n \in new
        BY <1>2, <1>8, <3>2 DEF Drafted
      <3> QED
        BY <3>1, <3>2 DEF Drafted
    <2>2. Cardinality(Drafted') = k + Cardinality(fresh)
      <3>1. Drafted \cap new = {}
        BY <1>new
      <3>2. Cardinality(Drafted \cup new) = Cardinality(Drafted) + Cardinality(new)
        <4>1. Cardinality(Drafted \cup new) =
                Cardinality(Drafted) + Cardinality(new) - Cardinality(Drafted \cap new)
          BY <1>3, <1>5, FS_Union
        <4>2. Cardinality(Drafted \cap new) = 0
          BY <3>1, FS_EmptySet
        <4>3. Cardinality(Drafted) \in Nat /\ Cardinality(new) \in Nat
          BY <1>3, <1>5 DEF k
        <4> QED
          BY <4>1, <4>2, <4>3
      <3>3. Cardinality(new) = Cardinality(fresh)
        BY <1>5
      <3>4. k = Cardinality(Drafted)
        BY DEF k
      <3> QED
        BY <2>1, <3>2, <3>3, <3>4
    <2>3. ASSUME NEW n \in Drafted'
          PROVE  n <= k + Cardinality(fresh)
      <3>1. CASE n \in Drafted
        BY <1>3, <1>5, <1>7, <3>1 DEF Drafted, Number
      <3>2. CASE n \in new
        BY <1>5, <3>2 DEF new
      <3> QED
        BY <2>1, <2>3, <3>1, <3>2
    <2> QED
      BY <2>2, <2>3 DEF NoGap
  <1>11. ASSUME NEW n \in Number, orders[n].status \in {"approved", "rejected"}
         PROVE  orders'[n] = orders[n]
    BY <1>2, <1>8, <1>11, <1>new DEF Drafted
  <1> QED
    BY <1>9, <1>10, <1>11, <1>free DEF c, fresh

\* The orders that are decided stay as they are.
DecidedKept ==
  \A n \in Number : orders[n].status \in {"approved", "rejected"} => orders'[n] = orders[n]

\* A decision takes a draft that no check has locked.
LEMMA DecisionWrites ==
  ASSUME OrdersInv, NEW n \in InStatus(orders, "draft"), ~LockedByCheck(n),
         NEW st \in {"approved", "rejected"}, NEW kind,
         orders' = [orders EXCEPT ![n] = Decided(@, st, kind)], check' = check
  PROVE  OrdersInv' /\ DecidedKept
  <1>1. n \in Number /\ orders[n].status = "draft" /\ Row(orders[n]) /\ DOMAIN orders = Number
    BY DEF InStatus, OrdersInv, OrderRows, Drafted
  <1>2. /\ DOMAIN orders' = Number
        /\ \A o \in Number \ {n} : orders'[o] = orders[o]
        /\ Row(orders'[n]) /\ orders'[n].status = st /\ orders'[n].snapshot # <<>>
    BY <1>1 DEF Decided, Row
  <1>3. OrderRows'
    BY <1>2 DEF OrdersInv, OrderRows, Drafted
  <1>4. NoGap'
    <2>1. Drafted' = Drafted
      BY <1>1, <1>2 DEF Drafted
    <2> QED
      BY <2>1 DEF OrdersInv, NoGap
  <1>5. ChecksHold'
    <2>1. ASSUME NEW m \in Monitor, check[m] # None, check[m].phase = "locked",
                 NEW o \in InStatus(check[m].s.orders, "draft")
          PROVE  orders'[o] = check[m].s.orders[o]
      <3>1. o # n
        BY <2>1 DEF LockedByCheck, CheckAt
      <3>2. o \in Number
        BY DEF InStatus
      <3>3. orders[o] = check[m].s.orders[o]
        BY <2>1 DEF OrdersInv, ChecksHold
      <3> QED
        BY <1>2, <3>1, <3>2, <3>3
    <2> QED
      BY <2>1 DEF OrdersInv, ChecksHold
  <1>6. DecidedKept
    BY <1>1, <1>2 DEF DecidedKept
  <1> QED
    BY <1>3, <1>4, <1>5, <1>6 DEF OrdersInv, OneCheck

LEMMA OrdersStep ==
  ASSUME OrdersInv, [PurchasingNext]_vars
  PROVE  OrdersInv' /\ DecidedKept
  <1>1. ASSUME UNCHANGED <<orders, check>>
        PROVE  OrdersInv' /\ DecidedKept
    BY <1>1 DEF OrdersInv, OrderRows, Drafted, NoGap, OneCheck, ChecksHold, DecidedKept
  <1>2. ASSUME OrdersInv, UNCHANGED orders
        PROVE  OrderRows' /\ NoGap' /\ DecidedKept
    BY <1>2 DEF OrdersInv, OrderRows, Drafted, NoGap, DecidedKept
  <1>3. ASSUME NEW m \in Monitor, CheckBegin(m)
        PROVE  OrdersInv' /\ DecidedKept
    <2>1. \A o \in Monitor : check[o] = None
      BY <1>3 DEF CheckBegin
    <2>2. check' = [check EXCEPT ![m] = Started] /\ UNCHANGED orders
      BY <1>3 DEF CheckBegin
    <2>3. OneCheck' /\ ChecksHold'
      BY <2>1, <2>2 DEF OrdersInv, OneCheck, ChecksHold, Started
    <2> QED
      BY <1>2, <2>2, <2>3 DEF OrdersInv
  <1>4. ASSUME NEW m \in Monitor, CheckLock(m)
        PROVE  OrdersInv' /\ DecidedKept
    <2>1. /\ check[m] # None
          /\ \A n \in InStatus(check[m].s.orders, "draft") : orders[n] = check[m].s.orders[n]
          /\ check' = [check EXCEPT ![m].phase = "locked"] /\ UNCHANGED orders
      BY <1>4 DEF CheckLock, CheckAt
    <2>2. check'[m] = [phase |-> "locked", s |-> check[m].s, lines |-> check[m].lines]
      BY <2>1 DEF OrdersInv, OneCheck, ChecksHold
    <2>3. DOMAIN check' = Monitor /\ \A o \in Monitor : o # m => check'[o] = check[o]
      BY <2>1 DEF OrdersInv, OneCheck
    <2>4. OneCheck'
      BY <2>1, <2>3 DEF OrdersInv, OneCheck
    <2>5. ChecksHold'
      BY <2>1, <2>2, <2>3 DEF OrdersInv, ChecksHold
    <2> QED
      BY <1>2, <2>1, <2>4, <2>5 DEF OrdersInv
  <1>5. ASSUME NEW m \in Monitor, CheckCommit(m) \/ CheckFails(m)
        PROVE  OneCheck' /\ ChecksHold'
    <2>1. check[m] # None /\ check' = [check EXCEPT ![m] = None]
      BY <1>5 DEF CheckCommit, CheckFails, CheckAt
    <2>2. DOMAIN check' = Monitor /\ \A o \in Monitor : check'[o] = None
      BY <2>1 DEF OrdersInv, OneCheck
    <2> QED
      BY <2>2 DEF OneCheck, ChecksHold
  <1>6. ASSUME NEW m \in Monitor, CheckCommit(m)
        PROVE  OrdersInv' /\ DecidedKept
    BY <1>5, <1>6, CommitWrites DEF OrdersInv, DecidedKept
  <1>7. ASSUME NEW m \in Monitor, CheckFails(m)
        PROVE  OrdersInv' /\ DecidedKept
    BY <1>2, <1>5, <1>7 DEF OrdersInv, CheckFails
  <1>8. ASSUME NEW n \in Number, Approve(n)
        PROVE  OrdersInv' /\ DecidedKept
    <2>1. /\ n \in InStatus(orders, "draft") /\ ~LockedByCheck(n) /\ check' = check
          /\ orders' = [orders EXCEPT ![n] = Decided(@, "approved", "manual")]
      BY <1>8 DEF Approve, agent
    <2> QED
      BY <2>1, DecisionWrites
  <1>9. ASSUME NEW n \in Number, Reject(n)
        PROVE  OrdersInv' /\ DecidedKept
    <2>1. /\ n \in InStatus(orders, "draft") /\ ~LockedByCheck(n) /\ check' = check
          /\ orders' = [orders EXCEPT ![n] = Decided(@, "rejected", None)]
      BY <1>9 DEF Reject, agent
    <2> QED
      BY <2>1, DecisionWrites
  <1>10. CatalogueStep => UNCHANGED <<orders, check>>
    BY CatalogueSteps DEF agent
  <1>11. ASSUME \/ OpenForm \/ CloseForm
                \/ \E on \in BOOLEAN : Switch(on)
                \/ \E x \in Call : StockMoves(x) \/ StockCall(x)
                \/ UNCHANGED vars
         PROVE  UNCHANGED <<orders, check>>
    BY <1>11 DEF OpenForm, CloseForm, Switch, StockMoves, StockCall, agent, vars
  <1> QED
    BY <1>1, <1>3, <1>4, <1>6, <1>7, <1>8, <1>9, <1>10, <1>11 DEF PurchasingNext

\* An approved or rejected order reads, and prints, as it did when it was decided,
\* whatever is checked, decided or edited later.
THEOREM DecidedOrdersAreFinal == PurchasingSpec => DecidedIsFinal
  <1>1. PurchasingInit => OrdersInv
    <2> SUFFICES ASSUME PurchasingInit PROVE OrdersInv
      OBVIOUS
    <2>1. DOMAIN orders = Number /\ \A n \in Number : orders[n].status = "none"
      BY DEF PurchasingInit
    <2>2. DOMAIN check = Monitor /\ \A m \in Monitor : check[m] = None
      BY DEF PurchasingInit
    <2> QED
      BY <2>1, <2>2 DEF OrdersInv, OrderRows, Drafted, NoGap, OneCheck, ChecksHold
  <1>2. ASSUME OrdersInv, [PurchasingNext]_vars
        PROVE  \A n \in InStatus(orders, "approved") \cup InStatus(orders, "rejected") :
                 Pdf(n)' = Pdf(n)
    <2> SUFFICES ASSUME NEW n \in Number, orders[n].status \in {"approved", "rejected"}
                 PROVE  Pdf(n)' = Pdf(n)
      BY DEF InStatus
    <2>1. orders'[n] = orders[n]
      BY <1>2, OrdersStep DEF DecidedKept
    <2>2. orders[n].snapshot # <<>>
      BY <1>2 DEF OrdersInv, OrderRows
    <2> QED
      BY <2>1, <2>2 DEF Pdf
  <1>3. OrdersInv /\ [PurchasingNext]_vars => OrdersInv'
    BY OrdersStep
  <1> QED
    BY <1>1, <1>2, <1>3, PTL DEF PurchasingSpec, DecidedIsFinal
-----------------------------------------------------------------------------
(* No shortage is proposed twice.  A check that has locked the drafts sees     *)
(* every order as it is (Current); each vendor takes one order of it and each  *)
(* item has one preferred vendor, so what it writes stays apart; and an order  *)
(* approved meanwhile, by it or by an operator, was apart from the other       *)
(* drafts, which leaves the quantities they have counted right.                *)

OnePreferred(rules) ==
  \A i \in Item : \A u, v \in Vendor :
    /\ rules[i][u] # None /\ rules[i][u].preferred
    /\ rules[i][v] # None /\ rules[i][v].preferred
    => u = v

RulesInv ==
  /\ DOMAIN rule = Item
  /\ \A i \in Item : DOMAIN rule[i] = Vendor
  /\ \A i \in Item : \A v \in Vendor : rule[i][v] # None => "preferred" \in DOMAIN rule[i][v]
  /\ OnePreferred(rule)

\* What a check computes with is what it read; until it locks the drafts, only
\* they may have changed since, and then nothing has.
Current ==
  \A m \in Monitor : check[m] # None =>
    /\ check[m].lines = Asked(check[m].s)
    /\ OnePreferred(check[m].s.rule)
    /\ \A n \in Number : orders[n] # check[m].s.orders[n] =>
         check[m].phase # "locked" /\ check[m].s.orders[n].status = "draft"

Versions == \A n \in Drafted : orders[n].version \in Nat \ {0} /\ "version" \in DOMAIN orders[n]

DraftsInv ==
  OrdersInv /\ RulesInv /\ Current /\ Versions /\ OneDraft /\ OnOrderIsCounted /\ RejectedStaysHeld

LEMMA AssignedOne ==
  ASSUME RulesInv, NEW i \in Item, NEW v \in Vendor, NEW t,
         rule' = [rule EXCEPT ![i] = Assigned(@, v, t)]
  PROVE  RulesInv'
  <1>1. /\ DOMAIN rule' = Item
        /\ \A j \in Item \ {i} : rule'[j] = rule[j]
        /\ rule'[i] = Assigned(rule[i], v, t)
    BY DEF RulesInv
  <1>2. DOMAIN rule'[i] = Vendor
    BY <1>1 DEF Assigned
  <1>3. ASSUME NEW u \in Vendor, rule'[i][u] # None
        PROVE  "preferred" \in DOMAIN rule'[i][u] /\ (u # v => ~rule'[i][u].preferred)
    <2>1. rule[i][u] # None => "preferred" \in DOMAIN rule[i][u]
      BY DEF RulesInv
    <2>2. CASE u = v
      BY <1>1, <1>3, <2>1, <2>2 DEF Assigned
    <2>3. CASE u # v /\ rule[i][u] # None /\ rule[i][u].preferred
      BY <1>1, <1>3, <2>1, <2>3 DEF Assigned
    <2>4. CASE u # v /\ ~(rule[i][u] # None /\ rule[i][u].preferred)
      BY <1>1, <1>3, <2>1, <2>4 DEF Assigned
    <2> QED
      BY <2>2, <2>3, <2>4
  <1> QED
    BY <1>1, <1>2, <1>3 DEF RulesInv, OnePreferred

LEMMA RulesStep ==
  ASSUME RulesInv, [PurchasingNext]_vars
  PROVE  RulesInv'
  <1>1. ASSUME UNCHANGED rule PROVE RulesInv'
    BY <1>1 DEF RulesInv, OnePreferred
  <1>2. ASSUME NEW i \in Item, NEW v \in Vendor, NEW t \in Terms, Assign(i, v, t)
        PROVE  RulesInv'
    BY <1>2, AssignedOne DEF Assign
  <1>3. ASSUME NEW i \in Item, NEW v \in Vendor, Unassign(i, v)
        PROVE  RulesInv'
    <2>1. /\ DOMAIN rule' = Item /\ \A j \in Item : DOMAIN rule'[j] = Vendor
          /\ \A j \in Item : \A u \in Vendor : rule'[j][u] = rule[j][u] \/ rule'[j][u] = None
      BY <1>3 DEF Unassign, RulesInv
    <2> QED
      BY <2>1 DEF RulesInv, OnePreferred
  <1>4. ASSUME CatalogueStep PROVE RulesInv'
    <2>1. \/ UNCHANGED rule
          \/ \E i \in Item, v \in Vendor, t \in Terms : Assign(i, v, t)
          \/ \E i \in Item, v \in Vendor : Unassign(i, v)
      BY <1>4 DEF CatalogueStep, CreateVendor, UpdateVendor, JudgeVendor, ContactFound,
                  UpdatePolicy
    <2> QED
      BY <1>1, <1>2, <1>3, <2>1
  <1>5. CatalogueStep \/ UNCHANGED rule
    BY DEF PurchasingNext, CheckBegin, CheckLock, CheckCommit, CheckFails, Switch, OpenForm,
           CloseForm, StockMoves, StockCall, Approve, Reject, catalogue, vars
  <1> QED
    BY <1>1, <1>4, <1>5

\* The orders a check c writes for v: v's drafts again, or a new one.
Takes(c, n, v) ==
  /\ v \in Groups(c)
  /\ \/ n \in DraftsOf(c.s.orders, v)
     \/ v \in Fresh(c) /\ n = NumberFor(c, v)

\* What it writes into them.
BaseVersion(c, n, v) ==
  IF n \in DraftsOf(c.s.orders, v)
  THEN IF c.s.orders[n].lines = c.lines[v]
       THEN c.s.orders[n].version ELSE c.s.orders[n].version + 1
  ELSE 1

Written(c, n, v, o) ==
  /\ o.vendor = v /\ o.lines = c.lines[v]
  /\ o.reason = ApprovalReason(PolicyIn(c.s), Subtotal(c.lines[v]), c.s.vendor[v].contact)
  /\ o.status \in {"draft", "approved"} /\ "version" \in DOMAIN o
  /\ o.version = IF o.status = "draft" THEN BaseVersion(c, n, v) ELSE BaseVersion(c, n, v) + 1

LEMMA CommitByOrder ==
  ASSUME DraftsInv, NEW m \in Monitor, CheckCommit(m), NEW n \in Number
  PROVE  \/ \E v \in Groups(check[m]) : Takes(check[m], n, v) /\ Written(check[m], n, v, orders'[n])
         \/ orders'[n] = Withdrawn(check[m], orders[n]) /\ orders[n].status = "draft"
         \/ orders'[n] = orders[n] /\ orders[n].status # "draft"
  <1> DEFINE c == check[m]
             old == InStatus(c.s.orders, "draft")
             s == c.s.orders[n]
             number == [v \in Fresh(c) |-> NumberFor(c, v)]
             w == CHOOSE v \in Fresh(c) : n = number[v]
  <1>1. c # None /\ c.phase = "locked" /\ orders' = AfterCheck(c)
    BY DEF CheckCommit, CheckAt
  <1>2. orders[n] = s
    BY <1>1 DEF DraftsInv, Current
  <1>3. orders'[n] = IF n \in old
                     THEN IF s.vendor \in Groups(c) THEN Revised(c, s) ELSE Withdrawn(c, s)
                     ELSE IF \E v \in Fresh(c) : n = number[v] THEN Prepared(c, w, 1) ELSE orders[n]
    BY <1>1 DEF AfterCheck
  <1>4. n \in old <=> orders[n].status = "draft"
    BY <1>2 DEF InStatus
  <1>5. CASE n \in old /\ s.vendor \in Groups(c)
    <2>1. n \in DraftsOf(c.s.orders, s.vendor)
      BY <1>5 DEF DraftsOf
    <2>2. orders'[n] = Revised(c, s)
      BY <1>3, <1>5
    <2>3. Written(c, n, s.vendor, Revised(c, s))
      BY <2>1 DEF Written, BaseVersion, Revised, Prepared
    <2> QED
      BY <1>5, <2>1, <2>2, <2>3 DEF Takes
  <1>6. CASE n \in old /\ s.vendor \notin Groups(c)
    BY <1>2, <1>3, <1>4, <1>6
  <1>7. CASE n \notin old /\ \E v \in Fresh(c) : n = number[v]
    <2>1. w \in Fresh(c) /\ n = NumberFor(c, w)
      BY <1>7
    <2>2. w \in Groups(c) /\ DraftsOf(c.s.orders, w) = {}
      BY <2>1 DEF Fresh
    <2> HIDE DEF w
    <2>3. Written(c, n, w, Prepared(c, w, 1))
      BY <2>2 DEF Written, BaseVersion, Prepared
    <2> QED
      BY <1>3, <1>7, <2>1, <2>2, <2>3 DEF Takes
  <1>8. CASE n \notin old /\ ~\E v \in Fresh(c) : n = number[v]
    BY <1>3, <1>4, <1>8
  <1> QED
    BY <1>5, <1>6, <1>7, <1>8

\* Two orders that a check writes are of two vendors, and share no item.
LEMMA TakenApart ==
  ASSUME DraftsInv, NEW m \in Monitor, CheckCommit(m), NEW n \in Number, NEW p \in Number, n # p,
         NEW v \in Groups(check[m]), NEW w \in Groups(check[m]),
         Takes(check[m], n, v), Takes(check[m], p, w)
  PROVE  v # w /\ DOMAIN check[m].lines[v] \cap DOMAIN check[m].lines[w] = {}
  <1> DEFINE c == check[m]
  <1>1. c # None /\ c.phase = "locked"
    BY DEF CheckCommit, CheckAt
  <1>2. \A o \in Number : orders[o] = c.s.orders[o]
    BY <1>1 DEF DraftsInv, Current
  <1>3. v # w
    <2>1. CASE n \in DraftsOf(c.s.orders, v) /\ p \in DraftsOf(c.s.orders, w)
      <3>1. n \in InStatus(orders, "draft") /\ p \in InStatus(orders, "draft")
            /\ orders[n].vendor = v /\ orders[p].vendor = w
        BY <1>2, <2>1 DEF DraftsOf, InStatus
      <3> QED
        BY <3>1 DEF DraftsInv, OneDraft
    <2>2. CASE v = w /\ v \in Fresh(c)
      <3>1. DraftsOf(c.s.orders, v) = {}
        BY <2>2 DEF Fresh
      <3> QED
        BY <2>2, <3>1 DEF Takes
    <2>3. CASE v = w /\ v \notin Fresh(c)
      BY <2>1, <2>3 DEF Takes
    <2> QED
      BY <2>2, <2>3
  <1>4. v \in Vendor /\ w \in Vendor
    BY DEF Groups
  <1>5. ASSUME NEW u \in Vendor, NEW i \in DOMAIN c.lines[u]
        PROVE  i \in Item /\ c.s.rule[i][u] # None /\ c.s.rule[i][u].preferred
    <2>1. c.lines = Asked(c.s)
      BY <1>1 DEF DraftsInv, Current
    <2>2. i \in DOMAIN LinesFor(c.s, u, Examined(c.s))
      BY <1>5, <2>1 DEF Asked
    <2> QED
      BY <2>2 DEF LinesFor, Supplies, Examined, BelowPar
  <1> QED
    BY <1>1, <1>3, <1>4, <1>5 DEF DraftsInv, Current, OnePreferred

\* What is on order is a matter of the approved orders that have a line of the item.
LEMMA OnOrderSame ==
  ASSUME NEW f, NEW g, NEW i,
         \A n \in Number : n \in Counted(f, i) <=> n \in Counted(g, i),
         \A n \in Counted(f, i) : f[n].lines = g[n].lines
  PROVE  OnOrder(f, i) = OnOrder(g, i)
  <1>1. Counted(f, i) = Counted(g, i)
    BY DEF Counted, InStatus
  <1>2. [n \in Counted(f, i) |-> f[n].lines[i].packs * f[n].lines[i].pack]
          = [n \in Counted(g, i) |-> g[n].lines[i].packs * g[n].lines[i].pack]
    BY <1>1
  <1> QED
    BY <1>2 DEF OnOrder

\* A set of order numbers has a largest one.
LEMMA LatestIsOne ==
  ASSUME NEW R, R \subseteq Number, R # {}
  PROVE  AtLeast(R) \in R
  <1> USE Bounds
  <1>1. R \subseteq Nat /\ \A n \in R : n <= MaxOrders
    BY DEF Number
  <1> DEFINE T == {MaxOrders - n : n \in R}
  <1>2. T \subseteq Nat /\ T # {}
    <2>1. \A n \in R : MaxOrders - n \in Nat
      BY <1>1
    <2> QED
      BY <2>1
  <1>3. PICK t \in T : \A u \in T : <<u, t>> \notin OpToRel(<, Nat)
    BY <1>2, NatLessThanWellFounded, WFMin
  <1>4. \A u \in T : ~(u < t)
    BY <1>2, <1>3 DEF OpToRel
  <1>5. PICK n \in R : t = MaxOrders - n
    OBVIOUS
  <1>6. \A p \in R : n >= p
    <2>1. ASSUME NEW p \in R PROVE ~(MaxOrders - p < MaxOrders - n)
      BY <1>4, <1>5
    <2>2. n \in Nat /\ \A p \in R : p \in Nat
      BY <1>1
    <2> QED
      BY <2>1, <2>2
  <1> QED
    BY <1>6 DEF AtLeast

\* A vendor's last rejected order is a matter of its rejected orders.
LEMMA LastRejectedSame ==
  ASSUME NEW f, NEW g, NEW v,
         \A n \in Number : (f[n].status = "rejected" /\ f[n].vendor = v)
                              <=> (g[n].status = "rejected" /\ g[n].vendor = v)
  PROVE  /\ LastRejected(f, v) = LastRejected(g, v)
         /\ LastRejected(f, v) # None => LastRejected(f, v) \in InStatus(f, "rejected")
  <1> DEFINE R(os) == {n \in InStatus(os, "rejected") : os[n].vendor = v}
  <1>1. R(f) = R(g)
    BY DEF InStatus
  <1>2. \A os : LastRejected(os, v) = IF R(os) = {} THEN None ELSE AtLeast(R(os))
    BY DEF LastRejected
  <1>3. R(f) \subseteq Number /\ R(f) \subseteq InStatus(f, "rejected")
    BY DEF InStatus
  <1> HIDE DEF R
  <1>4. R(f) # {} => AtLeast(R(f)) \in R(f)
    BY <1>3, LatestIsOne
  <1> QED
    BY <1>1, <1>2, <1>3, <1>4

LEMMA CommitKeeps ==
  ASSUME DraftsInv, NEW m \in Monitor, CheckCommit(m), OrdersInv', RulesInv', DecidedKept
  PROVE  DraftsInv'
  <1> DEFINE c == check[m]
             Step(n) == \E v \in Groups(c) : Takes(c, n, v) /\ Written(c, n, v, orders'[n])
  <1>1. c # None /\ c.phase = "locked" /\ check' = [check EXCEPT ![m] = None]
    BY DEF CheckCommit, CheckAt
  <1>2. \A n \in Number : orders[n] = c.s.orders[n]
    BY <1>1 DEF DraftsInv, Current
  <1>3. ASSUME NEW n \in Number
        PROVE  \/ Step(n)
               \/ /\ orders[n].status = "draft" /\ orders'[n] = Withdrawn(c, orders[n])
                  /\ orders'[n].status = "withdrawn"
               \/ orders'[n] = orders[n] /\ orders[n].status # "draft"
    <2>1. orders[n].status = "draft" => Row(orders[n])
      BY DEF DraftsInv, OrdersInv, OrderRows, Drafted
    <2> QED
      BY <2>1, CommitByOrder, WithdrawnRow
  <1>4. Current'
    <2>1. DOMAIN check = Monitor /\ \A o \in Monitor : check'[o] = None
      BY <1>1 DEF DraftsInv, OrdersInv, OneCheck
    <2> QED
      BY <2>1 DEF Current
  <1>5. Versions'
    <2>1. ASSUME NEW n \in Number, orders'[n].status # "none"
          PROVE  orders'[n].version \in Nat \ {0} /\ "version" \in DOMAIN orders'[n]
      <3>1. CASE Step(n)
        <4>1. PICK v \in Groups(c) : Written(c, n, v, orders'[n])
          BY <3>1
        <4>2. BaseVersion(c, n, v) \in Nat \ {0}
          <5>1. n \in DraftsOf(c.s.orders, v) => c.s.orders[n].version \in Nat \ {0}
            BY <1>2 DEF DraftsInv, Versions, Drafted, DraftsOf, InStatus
          <5> QED
            BY <5>1 DEF BaseVersion
        <4> QED
          BY <4>1, <4>2 DEF Written
      <3>2. CASE orders[n].status = "draft" /\ orders'[n] = Withdrawn(c, orders[n])
        <4>1. orders[n].version \in Nat \ {0} /\ "version" \in DOMAIN orders[n]
          BY <3>2 DEF DraftsInv, Versions, Drafted
        <4> QED
          BY <3>2, <4>1 DEF Withdrawn
      <3>3. CASE orders'[n] = orders[n]
        BY <2>1, <3>3 DEF DraftsInv, Versions, Drafted
      <3> QED
        BY <1>3, <3>1, <3>2, <3>3
    <2> QED
      BY <2>1 DEF Versions, Drafted
  <1>6. ASSUME NEW n \in Number, orders'[n].status = "draft"
        PROVE  Step(n)
    BY <1>3, <1>6
  <1>7. ASSUME NEW n \in Number, NEW p \in Number, n # p, Step(n), Step(p)
        PROVE  /\ orders'[n].vendor # orders'[p].vendor
               /\ DOMAIN orders'[n].lines \cap DOMAIN orders'[p].lines = {}
    <2>1. PICK v \in Groups(c) : Takes(c, n, v) /\ Written(c, n, v, orders'[n])
      BY <1>7
    <2>2. PICK w \in Groups(c) : Takes(c, p, w) /\ Written(c, p, w, orders'[p])
      BY <1>7
    <2>3. v # w /\ DOMAIN c.lines[v] \cap DOMAIN c.lines[w] = {}
      BY <1>7, <2>1, <2>2, TakenApart
    <2> QED
      BY <2>1, <2>2, <2>3 DEF Written
  <1>8. OneDraft'
    BY <1>6, <1>7 DEF OneDraft, InStatus
  <1>9. OnOrderIsCounted'
    <2> SUFFICES ASSUME NEW n \in Number, orders'[n].status = "draft",
                        NEW i \in DOMAIN orders'[n].lines
                 PROVE  orders'[n].lines[i].onOrder = OnOrder(orders', i)
      BY DEF OnOrderIsCounted, InStatus
    <2>1. PICK v \in Groups(c) : Written(c, n, v, orders'[n])
      BY <1>6
    <2>2. orders'[n].lines[i].onOrder = OnOrder(c.s.orders, i)
      <3>1. c.lines = Asked(c.s) /\ v \in Vendor
        BY <1>1 DEF DraftsInv, Current, Groups
      <3>2. orders'[n].lines = LinesFor(c.s, v, Examined(c.s))
        BY <2>1, <3>1 DEF Asked, Written
      <3>3. orders'[n].lines[i] = NewLine(c.s, v, i)
        BY <3>2 DEF LinesFor
      <3> QED
        BY <3>3 DEF NewLine
    <2>3. ASSUME NEW p \in Number
          PROVE  /\ p \in Counted(c.s.orders, i) <=> p \in Counted(orders', i)
                 /\ p \in Counted(c.s.orders, i) => c.s.orders[p].lines = orders'[p].lines
      <3>1. orders[p].status = "approved" => orders'[p] = orders[p]
        BY DEF DecidedKept
      <3>2. ASSUME orders'[p].status = "approved", i \in DOMAIN orders'[p].lines
            PROVE  orders'[p] = orders[p]
        <4>1. n # p
          BY <3>2
        <4>2. ~Step(p)
          BY <1>6, <1>7, <3>2, <4>1
        <4> QED
          BY <1>3, <3>2, <4>2
      <3>3. c.s.orders[p] = orders[p]
        BY <1>2
      <3> QED
        BY <3>1, <3>2, <3>3 DEF Counted, InStatus
    <2>4. Counted(c.s.orders, i) \subseteq Number
      BY DEF Counted, InStatus
    <2> QED
      BY <2>2, <2>3, <2>4, OnOrderSame
  <1>10. RejectedStaysHeld'
    <2> SUFFICES ASSUME NEW n \in Number, orders'[n].status = "draft", orders'[n].version = 1,
                        LastRejected(orders', orders'[n].vendor) # None
                 PROVE  orders'[n].lines # orders'[LastRejected(orders', orders'[n].vendor)].lines
      BY DEF RejectedStaysHeld, InStatus
    <2>1. PICK v \in Groups(c) : Takes(c, n, v) /\ Written(c, n, v, orders'[n])
      BY <1>6
    <2>2. ASSUME NEW p \in Number
          PROVE  orders'[p].status = "rejected" \/ orders[p].status = "rejected"
                   => orders'[p] = orders[p]
      <3>1. ~(Step(p) /\ orders'[p].status = "rejected")
        BY DEF Written
      <3> QED
        BY <1>3, <3>1 DEF DecidedKept
    <2> DEFINE r == LastRejected(orders', v)
    <2>3. /\ r = LastRejected(orders, v) /\ r = LastRejected(c.s.orders, v)
          /\ r # None => r \in InStatus(orders', "rejected")
      <3>1. \A p \in Number : (orders'[p].status = "rejected" /\ orders'[p].vendor = v)
                                 <=> (orders[p].status = "rejected" /\ orders[p].vendor = v)
        BY <2>2
      <3>2. \A p \in Number : (orders'[p].status = "rejected" /\ orders'[p].vendor = v)
                                 <=> (c.s.orders[p].status = "rejected" /\ c.s.orders[p].vendor = v)
        BY <1>2, <3>1
      <3>3. r = LastRejected(orders, v) /\ (r # None => r \in InStatus(orders', "rejected"))
        BY <3>1, LastRejectedSame
      <3>4. r = LastRejected(c.s.orders, v)
        BY <3>2, LastRejectedSame
      <3> QED
        BY <3>3, <3>4
    <2>4. r # None /\ orders'[n].vendor = v /\ orders'[n].lines = c.lines[v]
      BY <2>1 DEF Written
    <2>5. orders'[r] = orders[r] /\ orders[r] = c.s.orders[r]
      BY <1>2, <2>2, <2>3, <2>4 DEF InStatus
    <2>6. CASE n \in DraftsOf(c.s.orders, v)
      <3>1. /\ orders[n].status = "draft" /\ orders[n].vendor = v
            /\ orders[n].version \in Nat \ {0}
        BY <1>2, <2>6 DEF DraftsOf, InStatus, DraftsInv, Versions, Drafted
      <3>2. orders[n].version = 1 /\ orders[n].lines = c.lines[v]
        BY <1>2, <2>1, <2>6, <3>1 DEF Written, BaseVersion
      <3> QED
        BY <2>3, <2>4, <2>5, <3>1, <3>2 DEF DraftsInv, RejectedStaysHeld, InStatus
    <2>7. CASE n \notin DraftsOf(c.s.orders, v)
      <3>1. ~Held(c, v) /\ DraftsOf(c.s.orders, v) = {}
        BY <2>1, <2>7 DEF Takes, Fresh
      <3>2. Held(c, v) <=> /\ DraftsOf(c.s.orders, v) = {}
                           /\ LastRejected(c.s.orders, v) # None
                           /\ c.s.orders[LastRejected(c.s.orders, v)].lines = c.lines[v]
        BY DEF Held
      <3>3. c.s.orders[r].lines # c.lines[v]
        BY <2>3, <2>4, <3>1, <3>2
      <3> QED
        BY <2>4, <2>5, <3>3
    <2> QED
      BY <2>6, <2>7
  <1> QED
    BY <1>4, <1>5, <1>8, <1>9, <1>10 DEF DraftsInv

Writes(n, st, kind) == orders' = [orders EXCEPT ![n] = Decided(@, st, kind)]

\* A decision leaves the other drafts alone, and what it orders was not theirs.
LEMMA DecisionKeeps ==
  ASSUME DraftsInv, NEW n \in InStatus(orders, "draft"), ~LockedByCheck(n),
         NEW st \in {"approved", "rejected"}, NEW kind,
         Writes(n, st, kind), check' = check, OrdersInv', RulesInv'
  PROVE  DraftsInv'
  <1>1. n \in Number /\ orders[n].status = "draft" /\ Row(orders[n]) /\ DOMAIN orders = Number
        /\ orders[n].version \in Nat \ {0} /\ "version" \in DOMAIN orders[n]
    BY DEF InStatus, DraftsInv, OrdersInv, OrderRows, Versions, Drafted
  <1>2. /\ \A o \in Number \ {n} : orders'[o] = orders[o]
        /\ orders'[n] = Decided(orders[n], st, kind)
    BY <1>1 DEF Writes
  <1>3. /\ orders'[n].status = st /\ orders'[n].lines = orders[n].lines
        /\ orders'[n].vendor = orders[n].vendor
        /\ orders'[n].version = orders[n].version + 1 /\ "version" \in DOMAIN orders'[n]
    BY <1>1, <1>2 DEF Decided, Row
  <1>4. Current'
    <2>1. ASSUME NEW m \in Monitor, check[m] # None
          PROVE  check[m].phase # "locked" /\ check[m].s.orders[n].status = "draft"
      <3>1. orders[n] # check[m].s.orders[n] =>
              check[m].phase # "locked" /\ check[m].s.orders[n].status = "draft"
        BY <1>1, <2>1 DEF DraftsInv, Current
      <3>2. check[m].s.orders[n].status = "draft"
        BY <1>1, <3>1
      <3>3. check[m].phase # "locked"
        BY <1>1, <2>1, <3>2 DEF LockedByCheck, CheckAt, InStatus
      <3> QED
        BY <3>2, <3>3
    <2> QED
      BY <1>2, <2>1 DEF DraftsInv, Current
  <1>5. Versions'
    BY <1>1, <1>2, <1>3 DEF DraftsInv, Versions, Drafted
  <1>6. OneDraft'
    BY <1>2, <1>3 DEF DraftsInv, OneDraft, InStatus
  <1>7. ASSUME NEW o \in Number, orders'[o].status = "draft"
        PROVE  /\ o # n /\ orders'[o] = orders[o] /\ orders[o].status = "draft"
               /\ orders[o].vendor # orders[n].vendor
               /\ DOMAIN orders[o].lines \cap DOMAIN orders[n].lines = {}
    BY <1>1, <1>2, <1>3, <1>7 DEF DraftsInv, OneDraft, InStatus
  <1>8. OnOrderIsCounted'
    <2>1. ASSUME NEW o \in Number, orders'[o].status = "draft", NEW i \in DOMAIN orders'[o].lines
          PROVE  orders'[o].lines[i].onOrder = OnOrder(orders', i)
      <3>1. \A p \in Number : p \in Counted(orders', i) <=> p \in Counted(orders, i)
        BY <1>1, <1>2, <1>3, <1>7, <2>1 DEF Counted, InStatus
      <3>2. \A p \in Counted(orders', i) : orders'[p].lines = orders[p].lines
        BY <1>2, <1>3 DEF Counted, InStatus
      <3>3. OnOrder(orders', i) = OnOrder(orders, i)
        BY <3>1, <3>2, OnOrderSame
      <3>4. orders[o].lines[i].onOrder = OnOrder(orders, i)
        BY <1>7, <2>1 DEF DraftsInv, OnOrderIsCounted, InStatus
      <3> QED
        BY <1>7, <2>1, <3>3, <3>4
    <2> QED
      BY <2>1 DEF OnOrderIsCounted, InStatus
  <1>9. RejectedStaysHeld'
    <2>1. ASSUME NEW o \in Number, orders'[o].status = "draft", orders'[o].version = 1,
                 LastRejected(orders', orders'[o].vendor) # None
          PROVE  orders'[o].lines # orders'[LastRejected(orders', orders'[o].vendor)].lines
      <3> DEFINE v == orders[o].vendor
                 r == LastRejected(orders, v)
      <3>1. \A p \in Number : (orders'[p].status = "rejected" /\ orders'[p].vendor = v)
                                 <=> (orders[p].status = "rejected" /\ orders[p].vendor = v)
        BY <1>1, <1>2, <1>3, <1>7, <2>1
      <3>2. /\ LastRejected(orders', v) = r
            /\ LastRejected(orders', v) # None => LastRejected(orders', v) \in InStatus(orders', "rejected")
        BY <3>1, LastRejectedSame
      <3>3. orders'[o] = orders[o] /\ orders[o].status = "draft" /\ r # None
        BY <1>7, <2>1, <3>2
      <3>4. r \in Number /\ orders'[r].lines = orders[r].lines
        BY <1>2, <1>3, <3>2, <3>3 DEF InStatus
      <3>5. orders[o].lines # orders[r].lines
        BY <2>1, <3>3 DEF DraftsInv, RejectedStaysHeld, InStatus
      <3> QED
        BY <3>2, <3>3, <3>4, <3>5
    <2> QED
      BY <2>1 DEF RejectedStaysHeld, InStatus
  <1> QED
    BY <1>4, <1>5, <1>6, <1>8, <1>9 DEF DraftsInv

LEMMA DraftsStep ==
  ASSUME DraftsInv, [PurchasingNext]_vars
  PROVE  DraftsInv'
  <1>1. OrdersInv' /\ DecidedKept /\ RulesInv'
    BY OrdersStep, RulesStep DEF DraftsInv
  <1>2. ASSUME UNCHANGED orders
        PROVE  Versions' /\ OneDraft' /\ OnOrderIsCounted' /\ RejectedStaysHeld'
    BY <1>2 DEF DraftsInv, Versions, Drafted, OneDraft, OnOrderIsCounted, RejectedStaysHeld
  <1>3. ASSUME UNCHANGED <<orders, check>> PROVE DraftsInv'
    <2>1. Current'
      BY <1>3 DEF DraftsInv, Current
    <2> QED
      BY <1>1, <1>2, <1>3, <2>1 DEF DraftsInv
  <1>4. ASSUME NEW m \in Monitor, CheckBegin(m) \/ CheckLock(m) \/ CheckFails(m)
        PROVE  DraftsInv'
    <2>1. UNCHANGED orders /\ DOMAIN check = Monitor
      BY <1>4 DEF CheckBegin, CheckLock, CheckFails, DraftsInv, OrdersInv, OneCheck
    <2>2. ASSUME CheckBegin(m) PROVE Current'
      <3>1. check' = [check EXCEPT ![m] = Started] /\ \A o \in Monitor : check[o] = None
        BY <2>2 DEF CheckBegin
      <3>2. OnePreferred(Snapshot.rule) /\ Snapshot.orders = orders
        BY DEF Snapshot, DraftsInv, RulesInv
      <3>3. Started.s = Snapshot /\ Started.lines = Asked(Snapshot)
        BY DEF Started
      <3> QED
        BY <2>1, <3>1, <3>2, <3>3 DEF Current
    <2>3. ASSUME CheckLock(m) PROVE Current'
      <3>1. /\ check[m] # None /\ check' = [check EXCEPT ![m].phase = "locked"]
            /\ \A n \in InStatus(check[m].s.orders, "draft") : orders[n] = check[m].s.orders[n]
        BY <2>3 DEF CheckLock, CheckAt
      <3>2. /\ check'[m].s = check[m].s /\ check'[m].lines = check[m].lines
            /\ \A o \in Monitor \ {m} : check'[o] = check[o]
        BY <2>1, <3>1
      <3>3. \A n \in Number : orders[n] = check[m].s.orders[n]
        BY <3>1 DEF DraftsInv, Current, InStatus
      <3> QED
        BY <2>1, <3>1, <3>2, <3>3 DEF DraftsInv, Current
    <2>4. ASSUME CheckFails(m) PROVE Current'
      <3>1. check' = [check EXCEPT ![m] = None]
        BY <2>4 DEF CheckFails
      <3>2. \A o \in Monitor : check'[o] = None \/ check'[o] = check[o]
        BY <2>1, <3>1
      <3> QED
        BY <2>1, <3>2 DEF DraftsInv, Current
    <2> QED
      BY <1>1, <1>2, <1>4, <2>1, <2>2, <2>3, <2>4 DEF DraftsInv
  <1>5. ASSUME NEW m \in Monitor, CheckCommit(m) PROVE DraftsInv'
    BY <1>1, <1>5, CommitKeeps
  <1>6. ASSUME NEW n \in Number, Approve(n) \/ Reject(n) PROVE DraftsInv'
    <2>1. n \in InStatus(orders, "draft") /\ ~LockedByCheck(n) /\ check' = check
      BY <1>6 DEF Approve, Reject, agent
    <2>2. Writes(n, "approved", "manual") \/ Writes(n, "rejected", None)
      BY <1>6 DEF Approve, Reject, Writes
    <2> QED
      BY <1>1, <2>1, <2>2, DecisionKeeps
  <1>7. CatalogueStep => UNCHANGED <<orders, check>>
    BY CatalogueSteps DEF agent
  <1>8. ASSUME \/ OpenForm \/ CloseForm
               \/ \E on \in BOOLEAN : Switch(on)
               \/ \E x \in Call : StockMoves(x) \/ StockCall(x)
               \/ UNCHANGED vars
         PROVE  UNCHANGED <<orders, check>>
    BY <1>8 DEF OpenForm, CloseForm, Switch, StockMoves, StockCall, agent, vars
  <1> QED
    BY <1>3, <1>4, <1>5, <1>6, <1>7, <1>8 DEF PurchasingNext

LEMMA DraftsInvStarts ==
  ASSUME PurchasingInit
  PROVE  DraftsInv
  <1>1. DOMAIN orders = Number /\ \A n \in Number : orders[n].status = "none"
    BY DEF PurchasingInit
  <1>2. DOMAIN check = Monitor /\ \A m \in Monitor : check[m] = None
    BY DEF PurchasingInit
  <1>3. OrdersInv /\ Current /\ Versions
    BY <1>1, <1>2 DEF OrdersInv, OrderRows, Drafted, NoGap, OneCheck, ChecksHold, Current, Versions
  <1>4. /\ DOMAIN rule = Item /\ \A i \in Item : DOMAIN rule[i] = Vendor
        /\ \A i \in Item, v \in Vendor : rule[i][v] # None =>
              Preset[i] = v /\ "preferred" \in DOMAIN rule[i][v]
    BY DEF PurchasingInit
  <1>5. RulesInv
    BY <1>4 DEF RulesInv, OnePreferred
  <1>6. OneDraft /\ OnOrderIsCounted /\ RejectedStaysHeld
    BY <1>1 DEF OneDraft, OnOrderIsCounted, RejectedStaysHeld, InStatus
  <1> QED
    BY <1>3, <1>5, <1>6 DEF DraftsInv

\* The drafts, and what the checks under way have read of the orders.
THEOREM DraftsInvHolds == PurchasingSpec => []DraftsInv
  <1>1. PurchasingInit => DraftsInv
    BY DraftsInvStarts
  <1>2. DraftsInv /\ [PurchasingNext]_vars => DraftsInv'
    BY DraftsStep
  <1> QED
    BY <1>1, <1>2, PTL DEF PurchasingSpec

\* No vendor has two drafts and no item is on two, whichever monitors check,
\* whatever is decided between a check's snapshot and its commit.
THEOREM NoShortageTwice == PurchasingSpec => []OneDraft
  BY DraftsInvHolds, PTL DEF DraftsInv

\* A draft has counted every approved order of its items, so approving it does
\* not order again what is on order.
THEOREM DraftsCountOnOrder == PurchasingSpec => []OnOrderIsCounted
  BY DraftsInvHolds, PTL DEF DraftsInv

\* A vendor's rejected proposal is not drafted again as it was.
THEOREM RejectedIsNotRepeated == PurchasingSpec => []RejectedStaysHeld
  BY DraftsInvHolds, PTL DEF DraftsInv
-----------------------------------------------------------------------------
(* A save from an open dialog replaces the row the dialog showed: a row's      *)
(* version never falls, and while it stays what it was so does the row, as far *)
(* as the dialog is concerned (FormInv).                                       *)

CatalogueOK ==
  /\ revision \in Nat
  /\ vendor \in [Vendor -> VendorRows \cup {None}]
  /\ \A v \in Known : vendor[v] # None
  /\ policy \in PolicyRows \cup {None}
  /\ rule \in [Item -> [Vendor -> RuleRows \cup {None}]]
  /\ \A i \in Item, v \in Vendor : rule[i][v] # None => rule[i][v].born <= revision

\* A dialog that shows "row", and the row as it is now.
VendorFits(row, now) ==
  /\ row \in VendorRows /\ now \in VendorRows
  /\ row.version <= now.version
  /\ row.version = now.version =>
       Supplemented(row, now)

PolicyFits(row, now) ==
  /\ row \in PolicyRows \cup {None} /\ now \in PolicyRows \cup {None}
  /\ VersionOf(row) <= VersionOf(now)
  /\ VersionOf(row) = VersionOf(now) => now = row

RuleFits(row, now) ==
  /\ row \in RuleRows \cup {None} /\ now \in RuleRows \cup {None}
  /\ row # None /\ now # None /\ now.born = row.born =>
       /\ row.version <= now.version
       /\ row.version = now.version => now = row

OrderFits(row, now) ==
  /\ row.version \in Nat \ {0} /\ now.version \in Nat \ {0}
  /\ row.version <= now.version
  /\ row.version = now.version => now.lines = row.lines

FormInv ==
  form # None =>
    /\ form.kind = "order" => form.key \in Drafted /\ OrderFits(form.row, orders[form.key])
    /\ form.kind = "vendor" => form.key \in Vendor /\ VendorFits(form.row, vendor[form.key])
    /\ form.kind = "policy" => PolicyFits(form.row, policy)
    /\ form.kind = "rule" =>
         /\ form.key \in Item \X Vendor
         /\ RuleFits(form.row, rule[form.key[1]][form.key[2]])
         /\ form.row # None => form.row.born <= revision

EditsInv == DraftsInv /\ CatalogueOK /\ FormInv

LEMMA RowsAreNotNone ==
  \A r \in VendorRows \cup RuleRows \cup PolicyRows : r # None
  BY NoneIsNoRow

\* What a step does to the rows an operator edits.
VendorMoves(old, new) ==
  \/ new = old
  \/ old = None /\ new \in VendorRows
  \/ /\ old \in VendorRows /\ new \in VendorRows
     /\ \/ new.version = old.version + 1
        \/ Supplemented(old, new)

PolicyMoves(old, new) ==
  new = old \/ (new \in PolicyRows /\ new.version = VersionOf(old) + 1)

RuleMoves(old, new, at) ==
  \/ new = old \/ new = None
  \/ old = None /\ new \in RuleRows /\ new.born = at + 1
  \/ /\ old \in RuleRows /\ new \in RuleRows
     /\ new.version = old.version + 1 /\ new.born = old.born

OrderMoves(old, new) ==
  \/ new = old
  \/ new.version = old.version /\ new.lines = old.lines
  \/ new.version = old.version + 1
  \/ new.version = old.version + 2

LEMMA VendorFitsOn ==
  ASSUME NEW row, NEW old, NEW new, VendorFits(row, old), VendorMoves(old, new)
  PROVE  VendorFits(row, new)
  <1>1. old # None
    BY RowsAreNotNone DEF VendorFits
  <1>2. CASE new = old
    BY <1>2
  <1>3. CASE new \in VendorRows /\ new.version = old.version + 1
    BY <1>3 DEF VendorFits, VendorRows
  <1>4. CASE new \in VendorRows /\ Supplemented(old, new)
    <2>1. row \in VendorRows /\ old \in VendorRows
      BY DEF VendorFits
    <2>2. new.version = old.version
      BY <1>4, <2>1 DEF Supplemented, VendorRows
    <2>3. Supplemented(row, old) => Supplemented(row, new)
      BY <1>4, <2>1 DEF Supplemented, VendorRows
    <2> QED
      BY <1>4, <2>2, <2>3 DEF VendorFits
  <1> QED
    BY <1>1, <1>2, <1>3, <1>4 DEF VendorMoves

LEMMA PolicyFitsOn ==
  ASSUME NEW row, NEW old, NEW new, PolicyFits(row, old), PolicyMoves(old, new)
  PROVE  PolicyFits(row, new)
  <1>1. CASE new = old
    BY <1>1
  <1>2. CASE new \in PolicyRows /\ new.version = VersionOf(old) + 1
    <2>1. VersionOf(row) \in Nat /\ VersionOf(old) \in Nat
      BY DEF PolicyFits, VersionOf, PolicyRows
    <2>2. VersionOf(new) = VersionOf(old) + 1
      BY <1>2, RowsAreNotNone DEF VersionOf
    <2> QED
      BY <1>2, <2>1, <2>2 DEF PolicyFits
  <1> QED
    BY <1>1, <1>2 DEF PolicyMoves

LEMMA RuleFitsOn ==
  ASSUME NEW row, NEW old, NEW new, NEW at \in Nat, RuleFits(row, old), RuleMoves(old, new, at),
         row # None => row.born <= at
  PROVE  RuleFits(row, new)
  <1>1. CASE new = old \/ new = None
    BY <1>1 DEF RuleFits
  <1>2. CASE old = None /\ new \in RuleRows /\ new.born = at + 1
    <2>1. row # None => row.born \in Nat
      BY DEF RuleFits, RuleRows
    <2> QED
      BY <1>2, <2>1 DEF RuleFits
  <1>3. CASE /\ old \in RuleRows /\ new \in RuleRows
             /\ new.version = old.version + 1 /\ new.born = old.born
    <2>1. old # None
      BY <1>3, RowsAreNotNone
    <2>2. row # None => row.version \in Nat
      BY DEF RuleFits, RuleRows
    <2>3. old.version \in Nat
      BY <1>3 DEF RuleRows
    <2> QED
      BY <1>3, <2>1, <2>2, <2>3 DEF RuleFits
  <1> QED
    BY <1>1, <1>2, <1>3 DEF RuleMoves

LEMMA OrderFitsOn ==
  ASSUME NEW row, NEW old, NEW new, OrderFits(row, old), OrderMoves(old, new)
  PROVE  OrderFits(row, new)
  <1>1. CASE new = old
    BY <1>1
  <1>2. CASE new.version = old.version /\ new.lines = old.lines
    BY <1>2 DEF OrderFits
  <1>3. CASE new.version = old.version + 1 \/ new.version = old.version + 2
    BY <1>3 DEF OrderFits
  <1> QED
    BY <1>1, <1>2, <1>3 DEF OrderMoves

CatalogueMoves ==
  /\ CatalogueOK'
  /\ revision <= revision'
  /\ \A v \in Vendor : VendorMoves(vendor[v], vendor'[v])
  /\ PolicyMoves(policy, policy')
  /\ \A i \in Item, v \in Vendor : RuleMoves(rule[i][v], rule'[i][v], revision)

LEMMA RestStays ==
  ASSUME CatalogueOK, revision' \in Nat, revision <= revision'
  PROVE  /\ UNCHANGED vendor =>
              /\ vendor' \in [Vendor -> VendorRows \cup {None}]
              /\ \A v \in Vendor : VendorMoves(vendor[v], vendor'[v])
         /\ UNCHANGED policy =>
              policy' \in PolicyRows \cup {None} /\ PolicyMoves(policy, policy')
         /\ UNCHANGED rule =>
              /\ rule' \in [Item -> [Vendor -> RuleRows \cup {None}]]
              /\ \A i \in Item, v \in Vendor : rule'[i][v] # None => rule'[i][v].born <= revision'
              /\ \A i \in Item, v \in Vendor : RuleMoves(rule[i][v], rule'[i][v], revision)
  <1>1. UNCHANGED rule =>
          \A i \in Item, v \in Vendor : rule'[i][v] # None => rule'[i][v].born <= revision'
    <2>1. ASSUME NEW i \in Item, NEW v \in Vendor, rule[i][v] # None
          PROVE  rule[i][v].born \in Nat /\ rule[i][v].born <= revision /\ revision \in Nat
      <3>1. rule[i][v] \in RuleRows
        BY <2>1 DEF CatalogueOK
      <3> QED
        BY <2>1, <3>1 DEF CatalogueOK, RuleRows
    <2> QED
      BY <2>1
  <1> QED
    BY <1>1 DEF CatalogueOK, VendorMoves, PolicyMoves, RuleMoves

LEMMA DataChangesUp ==
  ASSUME CatalogueOK, DataChanges
  PROVE  revision' \in Nat /\ revision' = revision + 1 /\ revision <= revision'
  BY DEF CatalogueOK, DataChanges

LEMMA VendorSteps ==
  ASSUME CatalogueOK, NEW v \in Vendor, NEW row \in VendorRows,
         vendor' = [vendor EXCEPT ![v] = row], VendorMoves(vendor[v], row)
  PROVE  /\ vendor' \in [Vendor -> VendorRows \cup {None}]
         /\ \A u \in Vendor : VendorMoves(vendor[u], vendor'[u])
  BY DEF CatalogueOK, VendorMoves

LEMMA VendorEdits ==
  ASSUME CatalogueOK, NEW v \in Vendor, NEW c \in Contact, NEW d \in BOOLEAN,
         \/ CreateVendor(v, c) \/ UpdateVendor(v, c) \/ ContactFound(v, c)
         \/ JudgeVendor(v, d)
  PROVE  CatalogueMoves
  <1>1. DataChanges /\ UNCHANGED <<rule, policy>>
    BY DEF CreateVendor, UpdateVendor, JudgeVendor, ContactFound
  <1>2. vendor \in [Vendor -> VendorRows \cup {None}]
    BY DEF CatalogueOK
  <1>3. \E row \in VendorRows : vendor' = [vendor EXCEPT ![v] = row] /\ VendorMoves(vendor[v], row)
    <2>1. CASE CreateVendor(v, c)
      <3> DEFINE row == [contact |-> c, discarded |-> FALSE, version |-> 1]
      <3>1. row \in VendorRows
        BY DEF VendorRows
      <3>2. vendor[v] = None /\ vendor' = [vendor EXCEPT ![v] = row]
        BY <2>1 DEF CreateVendor
      <3> HIDE DEF row
      <3> QED
        BY <3>1, <3>2 DEF VendorMoves
    <2>2. CASE UpdateVendor(v, c)
      <3> DEFINE edited == [vendor[v] EXCEPT !.contact = c]
                 row == [edited EXCEPT !.version = @ + 1]
      <3>1. vendor[v] \in VendorRows
        BY <1>2, <2>2 DEF UpdateVendor
      <3>3. vendor' = [vendor EXCEPT ![v] = row]
        BY <2>2 DEF UpdateVendor
      <3>2. row \in VendorRows /\ row.version = vendor[v].version + 1
        <4>1. edited \in VendorRows /\ edited.version = vendor[v].version
          BY <3>1 DEF VendorRows
        <4> HIDE DEF edited
        <4> QED
          BY <4>1 DEF VendorRows
      <3> HIDE DEF row
      <3> QED
        BY <3>1, <3>2, <3>3 DEF VendorMoves
    <2>3. CASE JudgeVendor(v, d)
      <3> DEFINE edited == [vendor[v] EXCEPT !.discarded = d]
                 row == [edited EXCEPT !.version = @ + 1]
      <3>1. vendor[v] \in VendorRows /\ vendor' = [vendor EXCEPT ![v] = row]
        BY <1>2, <2>3 DEF JudgeVendor
      <3>2. row \in VendorRows /\ row.version = vendor[v].version + 1
        <4>1. edited \in VendorRows /\ edited.version = vendor[v].version
          BY <3>1 DEF VendorRows
        <4> HIDE DEF edited
        <4> QED
          BY <4>1 DEF VendorRows
      <3> HIDE DEF row
      <3> QED
        BY <3>1, <3>2 DEF VendorMoves
    <2>4. CASE ContactFound(v, c)
      <3> DEFINE row == [vendor[v] EXCEPT !.contact = c]
      <3>1. vendor' = [vendor EXCEPT ![v] = row] /\ vendor[v].contact \subseteq c
        BY <2>4 DEF ContactFound
      <3>2. vendor[v] \in VendorRows
        BY <1>2, <2>4 DEF ContactFound, CatalogueOK
      <3>3. row \in VendorRows /\ row = [vendor[v] EXCEPT !.contact = row.contact] /\ row.contact = c
        BY <3>2 DEF VendorRows
      <3>4. Supplemented(vendor[v], row)
        BY <3>1, <3>3 DEF Supplemented
      <3> HIDE DEF row
      <3> QED
        BY <3>1, <3>2, <3>3, <3>4 DEF VendorMoves
    <2> QED
      BY <2>1, <2>2, <2>3, <2>4
  <1>4. PICK row \in VendorRows :
          vendor' = [vendor EXCEPT ![v] = row] /\ VendorMoves(vendor[v], row)
    BY <1>3
  <1>5. /\ vendor' \in [Vendor -> VendorRows \cup {None}]
        /\ \A u \in Vendor : VendorMoves(vendor[u], vendor'[u])
    BY <1>4, VendorSteps
  <1>6. \A u \in Known : vendor'[u] # None
    BY <1>2, <1>4, RowsAreNotNone, Bounds DEF CatalogueOK
  <1>7. revision' \in Nat /\ revision <= revision'
    BY <1>1, DataChangesUp
  <1> QED
    BY <1>1, <1>5, <1>6, <1>7, RestStays DEF CatalogueOK, CatalogueMoves

LEMMA AssignedRule ==
  ASSUME CatalogueOK, NEW i \in Item, NEW v \in Vendor, NEW t \in Terms, NEW u \in Vendor
  PROVE  LET new == Assigned(rule[i], v, t)[u]
         IN /\ RuleMoves(rule[i][u], new, revision)
            /\ new \in RuleRows \cup {None}
            /\ new # None => new.born <= revision + 1
  <1> DEFINE old == rule[i][u]
             new == Assigned(rule[i], v, t)[u]
  <1>1. /\ revision \in Nat
        /\ old \in RuleRows \cup {None}
        /\ old # None => old.born \in Nat /\ old.born <= revision
    BY DEF CatalogueOK, RuleRows
  <1>2. new = IF u = v
              THEN IF old = None
                   THEN [terms |-> t, preferred |-> TRUE, version |-> 1, born |-> revision + 1]
                   ELSE [old EXCEPT !.terms = t, !.preferred = TRUE, !.version = @ + 1]
              ELSE IF old # None /\ old.preferred
              THEN [old EXCEPT !.preferred = FALSE, !.version = @ + 1]
              ELSE old
    BY DEF Assigned
  <1> HIDE DEF old, new
  <1>3. ASSUME NEW r \in RuleRows
        PROVE  LET e == [r EXCEPT !.version = @ + 1]
               IN e \in RuleRows /\ e.version = r.version + 1 /\ e.born = r.born
    BY DEF RuleRows
  <1>4. ASSUME NEW r \in RuleRows
        PROVE  LET e == [r EXCEPT !.preferred = FALSE]
               IN e \in RuleRows /\ e.version = r.version /\ e.born = r.born
    BY DEF RuleRows
  <1>5. ASSUME NEW r \in RuleRows
        PROVE  LET e == [r EXCEPT !.preferred = TRUE]
               IN e \in RuleRows /\ e.version = r.version /\ e.born = r.born
    BY DEF RuleRows
  <1>6. ASSUME NEW r \in RuleRows
        PROVE  LET e == [r EXCEPT !.terms = t]
               IN e \in RuleRows /\ e.version = r.version /\ e.born = r.born
    BY DEF RuleRows
  <1>7. CASE u = v /\ old = None
    <2>1. new = [terms |-> t, preferred |-> TRUE, version |-> 1, born |-> revision + 1]
      BY <1>2, <1>7
    <2>2. new \in RuleRows /\ new.born = revision + 1
      BY <1>1, <2>1 DEF RuleRows
    <2> QED
      BY <1>1, <1>7, <2>2 DEF old, new, RuleMoves
  <1>8. CASE old # None /\ (u = v \/ old.preferred)
    <2>1. old \in RuleRows
      BY <1>1, <1>8
    <2>2. new \in RuleRows /\ new.version = old.version + 1 /\ new.born = old.born
      <3>1. CASE u = v
        <4> DEFINE terms == [old EXCEPT !.terms = t]
                   both == [terms EXCEPT !.preferred = TRUE]
        <4>1. new = [both EXCEPT !.version = @ + 1]
          BY <1>2, <1>8, <3>1
        <4>2. terms \in RuleRows /\ terms.version = old.version /\ terms.born = old.born
          BY <1>6, <2>1
        <4> HIDE DEF terms
        <4>3. both \in RuleRows /\ both.version = terms.version /\ both.born = terms.born
          BY <1>5, <4>2
        <4> HIDE DEF both
        <4> QED
          BY <1>3, <4>1, <4>2, <4>3
      <3>2. CASE u # v
        <4> DEFINE given == [old EXCEPT !.preferred = FALSE]
        <4>1. new = [given EXCEPT !.version = @ + 1]
          BY <1>2, <1>8, <3>2
        <4>2. given \in RuleRows /\ given.version = old.version /\ given.born = old.born
          BY <1>4, <2>1
        <4> HIDE DEF given
        <4> QED
          BY <1>3, <4>1, <4>2
      <3> QED
        BY <3>1, <3>2
    <2> QED
      BY <1>1, <1>8, <2>1, <2>2 DEF old, new, RuleMoves
  <1>9. CASE u # v /\ ~(old # None /\ old.preferred)
    <2>1. new = old
      BY <1>2, <1>9
    <2> QED
      BY <1>1, <2>1 DEF old, new, RuleMoves
  <1> QED
    BY <1>7, <1>8, <1>9

LEMMA RuleEdits ==
  ASSUME CatalogueOK, NEW i \in Item, NEW v \in Vendor,
         Unassign(i, v) \/ \E t \in Terms : Assign(i, v, t)
  PROVE  CatalogueMoves
  <1> DEFINE Moved ==
        /\ rule' \in [Item -> [Vendor -> RuleRows \cup {None}]]
        /\ \A j \in Item, u \in Vendor : rule'[j][u] # None => rule'[j][u].born <= revision + 1
        /\ \A j \in Item, u \in Vendor : RuleMoves(rule[j][u], rule'[j][u], revision)
  <1>1. DataChanges /\ UNCHANGED <<vendor, policy>>
    BY DEF Assign, Unassign
  <1>2. revision' \in Nat /\ revision' = revision + 1 /\ revision <= revision'
    BY <1>1, DataChangesUp
  <1>3. /\ rule \in [Item -> [Vendor -> RuleRows \cup {None}]]
        /\ \A j \in Item, u \in Vendor : rule[j][u] # None => rule[j][u].born \in Nat
        /\ \A j \in Item, u \in Vendor : rule[j][u] # None => rule[j][u].born <= revision
        /\ revision \in Nat
    BY DEF CatalogueOK, RuleRows
  <1>4. Moved
    <2>1. CASE Unassign(i, v)
      <3>1. rule' = [rule EXCEPT ![i][v] = None]
        BY <2>1 DEF Unassign
      <3>2. \A j \in Item, u \in Vendor : rule'[j][u] = rule[j][u] \/ rule'[j][u] = None
        BY <1>3, <3>1
      <3>3. rule' \in [Item -> [Vendor -> RuleRows \cup {None}]]
        BY <1>3, <3>1
      <3>4. ASSUME NEW j \in Item, NEW u \in Vendor
            PROVE  rule'[j][u] # None => rule'[j][u].born <= revision + 1
        BY <1>3, <3>2
      <3> QED
        BY <3>2, <3>3, <3>4 DEF RuleMoves
    <2>2. ASSUME NEW t \in Terms, Assign(i, v, t)
          PROVE  Moved
      <3> DEFINE new == Assigned(rule[i], v, t)
      <3>1. rule' = [rule EXCEPT ![i] = new]
        BY <1>3, <2>2 DEF Assign
      <3>2. \A u \in Vendor : /\ RuleMoves(rule[i][u], new[u], revision)
                              /\ new[u] \in RuleRows \cup {None}
                              /\ new[u] # None => new[u].born <= revision + 1
        BY AssignedRule
      <3>3. new = [u \in Vendor |-> new[u]]
        BY DEF Assigned
      <3> HIDE DEF new
      <3>4. new \in [Vendor -> RuleRows \cup {None}]
        BY <3>2, <3>3
      <3>5. rule'[i] = new /\ \A j \in Item \ {i} : rule'[j] = rule[j]
        BY <1>3, <3>1
      <3>6. rule' \in [Item -> [Vendor -> RuleRows \cup {None}]]
        BY <1>3, <3>1, <3>4
      <3>7. ASSUME NEW j \in Item, NEW u \in Vendor
            PROVE  /\ rule'[j][u] # None => rule'[j][u].born <= revision + 1
                   /\ RuleMoves(rule[j][u], rule'[j][u], revision)
        <4>1. CASE j = i
          BY <3>2, <3>5, <4>1
        <4>2. CASE j # i
          <5>1. rule'[j] = rule[j]
            BY <3>5, <4>2
          <5>2. rule[j][u] # None => rule[j][u].born <= revision + 1
            BY <1>3
          <5> QED
            BY <5>1, <5>2 DEF RuleMoves
        <4> QED
          BY <4>1, <4>2
      <3> QED
        BY <3>6, <3>7
    <2> QED
      BY <2>1, <2>2
  <1> QED
    BY <1>1, <1>2, <1>4, RestStays DEF CatalogueOK, CatalogueMoves

LEMMA PolicyEdits ==
  ASSUME CatalogueOK, NEW p \in Policies, UpdatePolicy(p)
  PROVE  CatalogueMoves
  <1>1. /\ DataChanges /\ UNCHANGED <<vendor, rule>>
        /\ policy' = [limits |-> p, version |-> VersionOf(policy) + 1]
    BY DEF UpdatePolicy
  <1>2. revision' \in Nat /\ revision <= revision'
    BY <1>1, DataChangesUp
  <1>3. VersionOf(policy) \in Nat
    BY DEF CatalogueOK, VersionOf, PolicyRows
  <1>4. policy' \in PolicyRows /\ policy'.version = VersionOf(policy) + 1
    BY <1>1, <1>3 DEF PolicyRows
  <1> QED
    BY <1>1, <1>2, <1>4, RestStays DEF CatalogueOK, CatalogueMoves, PolicyMoves

LEMMA CatalogueAfterStep ==
  ASSUME CatalogueOK, [PurchasingNext]_vars
  PROVE  CatalogueMoves
  <1>1. ASSUME UNCHANGED catalogue, revision' \in Nat, revision <= revision'
        PROVE  CatalogueMoves
    <2>1. UNCHANGED vendor /\ UNCHANGED policy /\ UNCHANGED rule
      BY <1>1 DEF catalogue
    <2> QED
      BY <1>1, <2>1, RestStays DEF CatalogueOK, CatalogueMoves
  <1>2. revision \in Nat
    BY DEF CatalogueOK
  <1>3. CASE CatalogueStep
    <2>1. CASE \E v \in Vendor, c \in Contact :
                 CreateVendor(v, c) \/ UpdateVendor(v, c) \/ ContactFound(v, c)
      BY <2>1, VendorEdits
    <2>2. CASE \E v \in Vendor, d \in BOOLEAN : JudgeVendor(v, d)
      <3>1. PICK c \in Contact : TRUE
        BY PurchasingConstantsOK
      <3> QED
        BY <2>2, <3>1, VendorEdits
    <2> QED
      BY <1>3, <2>1, <2>2, RuleEdits, PolicyEdits DEF CatalogueStep
  <1>4. CASE \E x \in Call : StockMoves(x)
    BY <1>1, <1>4, DataChangesUp DEF StockMoves
  <1>5. CASE \/ \E m \in Monitor : CheckBegin(m) \/ CheckLock(m) \/ CheckCommit(m) \/ CheckFails(m)
             \/ \E on \in BOOLEAN : Switch(on)
             \/ OpenForm \/ CloseForm
             \/ \E x \in Call : StockCall(x)
             \/ \E n \in Number : Approve(n) \/ Reject(n)
             \/ UNCHANGED vars
    <2>1. UNCHANGED <<catalogue, revision>>
      BY <1>5 DEF CheckBegin, CheckLock, CheckCommit, CheckFails, Switch, OpenForm, CloseForm,
                  StockCall, Approve, Reject, vars
    <2> QED
      BY <1>1, <1>2, <2>1
  <1> QED
    BY <1>3, <1>4, <1>5 DEF PurchasingNext

\* A check raises the version of what it revises, and takes no number in use.
LEMMA OrdersMove ==
  ASSUME DraftsInv, [PurchasingNext]_vars
  PROVE  \A n \in Drafted : n \in Drafted' /\ OrderMoves(orders[n], orders'[n])
  <1>1. ASSUME NEW m \in Monitor, CheckCommit(m), NEW n \in Drafted
        PROVE  n \in Drafted' /\ OrderMoves(orders[n], orders'[n])
    <2> DEFINE c == check[m]
    <2>1. /\ n \in Number /\ orders[n].status # "none" /\ Row(orders[n])
          /\ orders[n].version \in Nat \ {0}
      BY DEF Drafted, DraftsInv, OrdersInv, OrderRows, Versions
    <2>2. c.s.orders[n] = orders[n]
      BY <1>1, <2>1 DEF DraftsInv, Current, CheckCommit, CheckAt
    <2>3. ASSUME NEW v \in Groups(c), Takes(c, n, v), Written(c, n, v, orders'[n])
          PROVE  n \in Drafted' /\ OrderMoves(orders[n], orders'[n])
      <3>1. n \in DraftsOf(c.s.orders, v)
        BY <1>1, <2>3, CommitWrites DEF Takes, DraftsInv
      <3>2. BaseVersion(c, n, v) = IF orders[n].lines = c.lines[v]
                                   THEN orders[n].version ELSE orders[n].version + 1
        BY <2>2, <3>1 DEF BaseVersion
      <3>3. /\ orders'[n].status \in {"draft", "approved"} /\ orders'[n].lines = c.lines[v]
            /\ orders'[n].version = IF orders'[n].status = "draft" THEN BaseVersion(c, n, v)
                                    ELSE BaseVersion(c, n, v) + 1
        BY <2>3 DEF Written
      <3> QED
        BY <2>1, <3>2, <3>3 DEF Drafted, OrderMoves
    <2>4. ASSUME orders'[n] = Withdrawn(c, orders[n])
          PROVE  n \in Drafted' /\ OrderMoves(orders[n], orders'[n])
      <3>1. orders'[n].status = "withdrawn"
        BY <2>1, <2>4, WithdrawnRow
      <3>2. orders'[n].version = orders[n].version /\ orders'[n].lines = orders[n].lines
        BY <2>4 DEF Withdrawn
      <3> QED
        BY <2>1, <3>1, <3>2 DEF Drafted, OrderMoves
    <2>5. ASSUME orders'[n] = orders[n]
          PROVE  n \in Drafted' /\ OrderMoves(orders[n], orders'[n])
      BY <2>1, <2>5 DEF Drafted, OrderMoves
    <2> QED
      BY <1>1, <2>1, <2>3, <2>4, <2>5, CommitByOrder
  <1>2. ASSUME NEW n \in Number, Approve(n) \/ Reject(n), NEW o \in Drafted
        PROVE  o \in Drafted' /\ OrderMoves(orders[o], orders'[o])
    <2>1. PICK st \in {"approved", "rejected"}, kind \in {"manual", None} :
            orders' = [orders EXCEPT ![n] = Decided(@, st, kind)]
      BY <1>2 DEF Approve, Reject
    <2>2. o \in Number /\ DOMAIN orders = Number /\ orders[o].status # "none"
          /\ Row(orders[o]) /\ "version" \in DOMAIN orders[o]
      BY DEF Drafted, DraftsInv, OrdersInv, OrderRows, Versions
    <2>3. orders'[o] = orders[o] \/ orders'[o] = Decided(orders[o], st, kind)
      BY <2>1, <2>2
    <2>4. Decided(orders[o], st, kind).status = st
      BY <2>2 DEF Decided, Row
    <2>5. Decided(orders[o], st, kind).version = orders[o].version + 1
      BY <2>2 DEF Decided
    <2> QED
      BY <2>2, <2>3, <2>4, <2>5 DEF Drafted, OrderMoves
  <1>3. ASSUME UNCHANGED orders, NEW n \in Drafted
        PROVE  n \in Drafted' /\ OrderMoves(orders[n], orders'[n])
    BY <1>3 DEF Drafted, OrderMoves
  <1>4. CatalogueStep => UNCHANGED orders
    BY CatalogueSteps
  <1>5. \/ UNCHANGED orders
        \/ \E m \in Monitor : CheckCommit(m)
        \/ \E n \in Number : Approve(n) \/ Reject(n)
    BY <1>4 DEF PurchasingNext, CheckBegin, CheckLock, CheckFails, Switch, OpenForm, CloseForm,
                StockMoves, StockCall, vars
  <1> QED
    BY <1>1, <1>2, <1>3, <1>5

\* The dialog is kept, closed, or opened on rows that stay.
LEMMA FormSteps ==
  ASSUME [PurchasingNext]_vars
  PROVE  form' = form \/ form' = None \/ OpenForm
  BY DEF PurchasingNext, CatalogueStep, CheckBegin, CheckLock, CheckCommit, CheckFails, Switch,
         CloseForm, CreateVendor, UpdateVendor, JudgeVendor, ContactFound, Assign, Unassign,
         UpdatePolicy, Submit, StockMoves, StockCall, Approve, Reject, vars

LEMMA FormOpens ==
  ASSUME EditsInv, OpenForm
  PROVE  FormInv'
  <1>1. PICK d \in Edits : /\ Openable(d[1], d[2])
                           /\ form' = [kind |-> d[1], key |-> d[2], row |-> RowAt(d[1], d[2])]
    BY DEF OpenForm
  <1>2. form'.kind = d[1] /\ form'.key = d[2] /\ form'.row = RowAt(d[1], d[2])
    BY <1>1
  <1>3. UNCHANGED <<rule, vendor, policy, revision, orders>>
    BY DEF OpenForm, catalogue
  <1>4. ASSUME d[1] = "order"
        PROVE  d[2] \in Drafted' /\ OrderFits(RowAt(d[1], d[2]), orders'[d[2]])
    <2>1. d[2] \in InStatus(orders, "draft") /\ RowAt(d[1], d[2]) = orders[d[2]]
      BY <1>1, <1>4 DEF Openable, RowAt
    <2>2. d[2] \in Drafted
      BY <2>1 DEF InStatus, Drafted
    <2> QED
      BY <1>3, <2>1, <2>2 DEF EditsInv, DraftsInv, Versions, Drafted, OrderFits
  <1>5. ASSUME d[1] = "vendor"
        PROVE  d[2] \in Vendor /\ VendorFits(RowAt(d[1], d[2]), vendor'[d[2]])
    <2>1. d[2] \in Vendor /\ vendor[d[2]] # None /\ RowAt(d[1], d[2]) = vendor[d[2]]
      BY <1>1, <1>5, EditsOK DEF Openable, RowAt
    <2>2. vendor[d[2]] \in VendorRows
      BY <2>1 DEF EditsInv, CatalogueOK
    <2>3. Supplemented(vendor[d[2]], vendor[d[2]])
      BY <2>2 DEF Supplemented, VendorRows
    <2> QED
      BY <1>3, <2>1, <2>2, <2>3 DEF VendorFits, VendorRows
  <1>6. ASSUME d[1] = "policy"
        PROVE  PolicyFits(RowAt(d[1], d[2]), policy')
    <2>1. RowAt(d[1], d[2]) = policy
      BY <1>6 DEF RowAt
    <2>2. policy \in PolicyRows \cup {None}
      BY DEF EditsInv, CatalogueOK
    <2> QED
      BY <1>3, <2>1, <2>2 DEF PolicyFits, VersionOf, PolicyRows
  <1>7. ASSUME d[1] = "rule"
        PROVE  /\ d[2] \in Item \X Vendor
               /\ RuleFits(RowAt(d[1], d[2]), rule'[d[2][1]][d[2][2]])
               /\ RowAt(d[1], d[2]) # None => RowAt(d[1], d[2]).born <= revision'
    <2>1. /\ d[2] \in Item \X Vendor /\ d[2][1] \in Item /\ d[2][2] \in Vendor
          /\ RowAt(d[1], d[2]) = rule[d[2][1]][d[2][2]]
      BY <1>7, EditsOK DEF RowAt
    <2>2. /\ rule[d[2][1]][d[2][2]] \in RuleRows \cup {None}
          /\ rule[d[2][1]][d[2][2]] # None => rule[d[2][1]][d[2][2]].born <= revision
      BY <2>1 DEF EditsInv, CatalogueOK
    <2>3. \A r \in RuleRows : r.version <= r.version
      BY DEF RuleRows
    <2> QED
      BY <1>3, <2>1, <2>2, <2>3 DEF RuleFits
  <1> QED
    BY <1>2, <1>4, <1>5, <1>6, <1>7 DEF FormInv

LEMMA EditsStep ==
  ASSUME EditsInv, [PurchasingNext]_vars
  PROVE  EditsInv'
  <1>1. DraftsInv'
    BY DraftsStep DEF EditsInv
  <1>2. CatalogueMoves
    BY CatalogueAfterStep DEF EditsInv
  <1>3. \A n \in Drafted : n \in Drafted' /\ OrderMoves(orders[n], orders'[n])
    BY OrdersMove DEF EditsInv
  <1>4. ASSUME form' = form, form # None
        PROVE  FormInv'
    <2>1. ASSUME form.kind = "order"
          PROVE  form.key \in Drafted' /\ OrderFits(form.row, orders'[form.key])
      BY <1>3, <1>4, <2>1, OrderFitsOn DEF EditsInv, FormInv
    <2>2. ASSUME form.kind = "vendor"
          PROVE  form.key \in Vendor /\ VendorFits(form.row, vendor'[form.key])
      BY <1>2, <1>4, <2>2, VendorFitsOn DEF EditsInv, FormInv, CatalogueMoves
    <2>3. ASSUME form.kind = "policy"
          PROVE  PolicyFits(form.row, policy')
      BY <1>2, <1>4, <2>3, PolicyFitsOn DEF EditsInv, FormInv, CatalogueMoves
    <2>4. ASSUME form.kind = "rule"
          PROVE  /\ form.key \in Item \X Vendor
                 /\ RuleFits(form.row, rule'[form.key[1]][form.key[2]])
                 /\ form.row # None => form.row.born <= revision'
      <3>1. /\ form.key \in Item \X Vendor
            /\ RuleFits(form.row, rule[form.key[1]][form.key[2]])
            /\ form.row # None => form.row.born <= revision
        BY <1>4, <2>4 DEF EditsInv, FormInv
      <3>2. /\ RuleMoves(rule[form.key[1]][form.key[2]], rule'[form.key[1]][form.key[2]], revision)
            /\ revision \in Nat /\ revision' \in Nat /\ revision <= revision'
        BY <1>2, <3>1 DEF CatalogueMoves, EditsInv, CatalogueOK
      <3>3. RuleFits(form.row, rule'[form.key[1]][form.key[2]])
        BY <3>1, <3>2, RuleFitsOn
      <3>4. form.row # None => form.row.born \in Nat
        BY <3>1 DEF RuleFits, RuleRows
      <3> QED
        BY <3>1, <3>2, <3>3, <3>4
    <2> QED
      BY <1>4, <2>1, <2>2, <2>3, <2>4 DEF FormInv
  <1>5. CASE form' = None
    BY <1>1, <1>2, <1>5 DEF EditsInv, FormInv, CatalogueMoves
  <1> QED
    BY <1>1, <1>2, <1>4, <1>5, FormSteps, FormOpens DEF EditsInv, CatalogueMoves

\* What the edit of an open dialog finds where it saves.
LEMMA SubmitFinds ==
  ASSUME EditsInv, NEW kind, NEW key, Submit(kind, key), form # None, form' = None
  PROVE  /\ form.kind = kind /\ form.key = key
         /\ kind = "order" => orders[key].lines = form.row.lines
         /\ kind = "vendor" =>
              Supplemented(form.row, vendor[key])
         /\ kind = "policy" => policy = form.row
         /\ kind = "rule" =>
              \/ rule[key[1]][key[2]] = form.row
              \/ rule[key[1]][key[2]].born # form.row.born
  <1>1. form.kind = kind /\ form.key = key /\ VersionOf(form.row) = VersionOf(RowAt(kind, key))
    BY DEF Submit
  <1>2. ASSUME kind = "order" PROVE orders[key].lines = form.row.lines
    <2>1. OrderFits(form.row, orders[key]) /\ VersionOf(form.row) = VersionOf(orders[key])
      BY <1>1, <1>2 DEF RowAt, EditsInv, FormInv
    <2> QED
      BY <2>1 DEF OrderFits, VersionOf
  <1>3. ASSUME kind = "vendor"
        PROVE  Supplemented(form.row, vendor[key])
    <2>1. VendorFits(form.row, vendor[key]) /\ VersionOf(form.row) = VersionOf(vendor[key])
      BY <1>1, <1>3 DEF RowAt, EditsInv, FormInv
    <2>2. form.row # None /\ vendor[key] # None
      BY <2>1, RowsAreNotNone DEF VendorFits
    <2> QED
      BY <2>1, <2>2 DEF VendorFits, VersionOf
  <1>4. ASSUME kind = "policy" PROVE policy = form.row
    <2>1. PolicyFits(form.row, policy) /\ VersionOf(form.row) = VersionOf(policy)
      BY <1>1, <1>4 DEF RowAt, EditsInv, FormInv
    <2> QED
      BY <2>1 DEF PolicyFits
  <1>5. ASSUME kind = "rule"
        PROVE  \/ rule[key[1]][key[2]] = form.row
               \/ rule[key[1]][key[2]].born # form.row.born
    <2>1. /\ RuleFits(form.row, rule[key[1]][key[2]])
          /\ VersionOf(form.row) = VersionOf(rule[key[1]][key[2]])
      BY <1>1, <1>5 DEF RowAt, EditsInv, FormInv
    <2>2. \A r \in RuleRows : r # None /\ VersionOf(r) = r.version /\ r.version # 0
      BY RowsAreNotNone DEF VersionOf, RuleRows
    <2>3. VersionOf(None) = 0
      BY DEF VersionOf
    <2> QED
      BY <2>1, <2>2, <2>3 DEF RuleFits
  <1> QED
    BY <1>1, <1>2, <1>3, <1>4, <1>5

\* And the catalogue's rows, and the dialog that is open on one.
THEOREM EditsInvHolds == PurchasingSpec => []EditsInv
  <1>1. PurchasingInit => EditsInv
    <2> SUFFICES ASSUME PurchasingInit PROVE EditsInv
      OBVIOUS
    <2>1. FormInv
      BY DEF PurchasingInit, FormInv
    <2>2. Contact \ {{}} # {} /\ Known \subseteq Vendor /\ PresetTerms \in Terms
      BY PurchasingConstantsOK
    <2>3. vendor \in [Vendor -> VendorRows \cup {None}] /\ \A v \in Known : vendor[v] # None
      <3> DEFINE row == [contact |-> CHOOSE c \in Contact \ {{}} : TRUE, discarded |-> FALSE, version |-> 1]
      <3>1. row \in VendorRows
        BY <2>2 DEF VendorRows
      <3>2. vendor = [v \in Vendor |-> IF v \in Known THEN row ELSE None]
        BY DEF PurchasingInit
      <3> HIDE DEF row
      <3> QED
        BY <2>2, <3>1, <3>2, RowsAreNotNone
    <2>4. /\ rule \in [Item -> [Vendor -> RuleRows \cup {None}]]
          /\ \A i \in Item, v \in Vendor : rule[i][v] # None => rule[i][v].born <= 0
      <3> DEFINE row == [terms |-> PresetTerms, preferred |-> TRUE, version |-> 1, born |-> 0]
      <3>1. row \in RuleRows /\ row.born <= 0
        BY <2>2 DEF RuleRows
      <3>2. rule = [i \in Item |-> [v \in Vendor |-> IF Preset[i] = v THEN row ELSE None]]
        BY DEF PurchasingInit
      <3> HIDE DEF row
      <3> QED
        BY <3>1, <3>2
    <2>5. policy = None /\ revision = 0
      BY DEF PurchasingInit
    <2>6. DraftsInv
      BY DraftsInvStarts
    <2> QED
      BY <2>1, <2>3, <2>4, <2>5, <2>6 DEF EditsInv, CatalogueOK
  <1>2. EditsInv /\ [PurchasingNext]_vars => EditsInv'
    BY EditsStep
  <1> QED
    BY <1>1, <1>2, PTL DEF PurchasingSpec

\* What operators save from a dialog replaces what the dialog showed them,
\* whatever was checked, edited or decided while it was open.
THEOREM SavesReplaceWhatWasShown == PurchasingSpec => EditsAreCurrent
  <1>1. ASSUME EditsInv, [PurchasingNext]_vars, form # None, form' = None
        PROVE  /\ form.kind = "order" => \A n \in {form.key} : orders'[n] # orders[n] =>
                    orders[n].lines = form.row.lines
               /\ form.kind = "vendor" => \A v \in {form.key} : vendor'[v] # vendor[v] =>
                    Supplemented(form.row, vendor[v])
               /\ form.kind = "policy" => (policy' # policy => policy = form.row)
               /\ form.kind = "rule" => \A k \in {form.key} :
                    LET now == rule[k[1]][k[2]] IN
                    rule'[k[1]][k[2]] # now => now = form.row \/ now.born # form.row.born
    <2>1. CASE UNCHANGED <<catalogue, orders>>
      BY <2>1 DEF catalogue
    <2>2. CASE \E kind \in {"order", "vendor", "policy", "rule"} : \E key : Submit(kind, key)
      <3>1. PICK kind \in {"order", "vendor", "policy", "rule"} : \E key : Submit(kind, key)
        BY <2>2
      <3>2. PICK key : Submit(kind, key)
        BY <3>1
      <3>3. /\ form.kind = kind /\ form.key = key
            /\ kind = "order" => orders[key].lines = form.row.lines
            /\ kind = "vendor" =>
                 Supplemented(form.row, vendor[key])
            /\ kind = "policy" => policy = form.row
            /\ kind = "rule" =>
                 \/ rule[key[1]][key[2]] = form.row
                 \/ rule[key[1]][key[2]].born # form.row.born
        BY <1>1, <3>2, SubmitFinds
      <3> QED
        BY <3>3
    <2>3. \/ UNCHANGED <<catalogue, orders>>
          \/ form' = form
          \/ \E kind \in {"order", "vendor", "policy", "rule"} : \E key : Submit(kind, key)
      <3>1. ASSUME CatalogueStep
            PROVE  form' = form \/ \E kind \in {"vendor", "policy", "rule"} : \E key : Submit(kind, key)
        BY <3>1 DEF CatalogueStep, CreateVendor, UpdateVendor, JudgeVendor, ContactFound, Assign,
                    Unassign, UpdatePolicy
      <3>2. ASSUME NEW n \in Number, Approve(n) \/ Reject(n)
            PROVE  Submit("order", n)
        BY <3>2 DEF Approve, Reject
      <3>3. ASSUME \/ \E m \in Monitor : CheckBegin(m) \/ CheckLock(m) \/ CheckCommit(m) \/ CheckFails(m)
                   \/ \E on \in BOOLEAN : Switch(on)
                   \/ \E x \in Call : StockMoves(x) \/ StockCall(x)
                   \/ UNCHANGED vars
            PROVE  form' = form
        BY <3>3 DEF CheckBegin, CheckLock, CheckCommit, CheckFails, Switch, StockMoves, StockCall, vars
      <3>4. OpenForm \/ CloseForm => UNCHANGED <<catalogue, orders>>
        BY DEF OpenForm, CloseForm
      <3> QED
        BY <1>1, <3>1, <3>2, <3>3, <3>4 DEF PurchasingNext
    <2> QED
      BY <1>1, <2>1, <2>2, <2>3
  <1> QED
    BY <1>1, EditsInvHolds, PTL DEF PurchasingSpec, EditsAreCurrent
=============================================================================
