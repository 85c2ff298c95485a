-------------------------- MODULE StockLedgerProofs --------------------------
(***************************************************************************)
(* Proofs about StockLedger, for any items, keys, calls, quantities and     *)
(* opening balances.  What a call read under its locks is still so when it  *)
(* writes (LocksHeld), because no other call holds the same lock (OneHolder);    *)
(* so a movement continues the item's chain (Chain) and a key without a     *)
(* request has no movement (Used).                                          *)
(***************************************************************************)
EXTENDS StockLedger, TLAPS

OneHolder ==
  /\ \A x, y \in Call : HoldsKey(x, call[x].key) /\ HoldsKey(y, call[x].key) => x = y
  /\ \A x, y \in Call :
       HoldsItem(x, call[x].payload.item) /\ HoldsItem(y, call[x].payload.item) => x = y

LocksHeld ==
  \A x \in Call : At(x, "locked") =>
    /\ call[x].seen = balance[call[x].payload.item]
    /\ call[x].found = request[call[x].key]

\* The movement e is recorded, and is what was asked for by p under k.
Fits(e, k, p) ==
  /\ \E n \in 1..Len(movement) : movement[n] = e
  /\ e.key = k
  /\ e.item = p.item
  /\ p.kind = "count" => e.after = p.quantity
  /\ p.expected # None => e.after - e.delta = p.expected

Stored ==
  \A k \in Key : request[k] # None => Fits(request[k].response, k, request[k].payload)

Told ==
  \A x \in Call : At(x, "answered") => Fits(call[x].response, call[x].key, call[x].payload)

Used ==
  /\ \A n \in 1..Len(movement) : request[movement[n].key] # None
  /\ \A m, n \in 1..Len(movement) : movement[m].key = movement[n].key => m = n

\* b is what the first n movements left of i.
Leave(i, n, b) ==
  \/ Entries(i, n) = {} /\ b = Opening[i]
  \/ \E m \in Entries(i, n) : (\A l \in Entries(i, n) : l <= m) /\ movement[m].after = b

Chain ==
  /\ \A n \in 1..Len(movement) :
       /\ Leave(movement[n].item, n - 1, movement[n].after - movement[n].delta)
       /\ movement[n].after >= 0
  /\ \A i \in Item : Leave(i, Len(movement), balance[i])

LedgerInv == LedgerTypeOK /\ OneHolder /\ LocksHeld /\ Stored /\ Told /\ Used /\ Chain

-----------------------------------------------------------------------------
\* The kinds of step: a call arrives, takes a lock, ends, or commits a movement.
LEMMA StepKinds ==
  ASSUME [LedgerNext]_ledger
  PROVE  \/ UNCHANGED ledger
         \/ \E x \in Call, k \in Key, p \in Payload : Arrive(x, k, p)
         \/ \E x \in Call : LockKey(x)
         \/ \E x \in Call : LockItem(x)
         \/ \E x \in Call : Reuse(x)
         \/ \E x \in Call : Refuse(x) \/ Abandon(x)
         \/ \E x \in Call : Apply(x)
  BY DEF LedgerNext, CallStep

LEMMA DeltaInt ==
  ASSUME NEW p \in Payload, NEW b \in Int
  PROVE  Delta(p, b) \in Int
  BY LedgerConstantsOK DEF Delta, Payload, MovementKind

LEMMA InitLedgerInv == LedgerInit => LedgerInv
  <1> SUFFICES ASSUME LedgerInit PROVE LedgerInv
    OBVIOUS
  <1> USE LedgerConstantsOK
  <1>1. Len(movement) = 0
    BY DEF LedgerInit
  <1>2. LedgerTypeOK
    BY DEF LedgerInit, LedgerTypeOK
  <1>3. \A x \in Call : call[x] = None
    BY DEF LedgerInit
  <1>4. OneHolder /\ LocksHeld /\ Told
    BY <1>3 DEF OneHolder, LocksHeld, Told, HoldsKey, HoldsItem, At
  <1>5. Stored /\ Used
    BY <1>1 DEF LedgerInit, Stored, Used
  <1>6. \A i \in Item : Entries(i, 0) = {}
    BY DEF Entries
  <1>7. Chain
    BY <1>1, <1>6 DEF LedgerInit, Chain, Leave
  <1> QED
    BY <1>2, <1>4, <1>5, <1>7 DEF LedgerInv

\* What a call writes when it commits.
LEMMA Entry ==
  ASSUME LedgerTypeOK, LocksHeld, NEW x \in Call, Apply(x)
  PROVE  \E e \in Movements :
           LET p == call[x].payload
               k == call[x].key
           IN /\ p \in Payload /\ k \in Key
              /\ At(x, "locked") /\ call[x].found = None
              /\ balance' = [balance EXCEPT ![p.item] = e.after]
              /\ movement' = Append(movement, e)
              /\ request' = [request EXCEPT ![k] = [payload |-> p, response |-> e]]
              /\ call' = [call EXCEPT ![x].phase = "answered", ![x].response = e]
              /\ e.item = p.item /\ e.key = k /\ e.after >= 0
              /\ e.after - e.delta = balance[p.item]
              /\ p.kind = "count" => e.after = p.quantity
              /\ p.expected # None => e.after - e.delta = p.expected
  <1> DEFINE p == call[x].payload
             k == call[x].key
             b == call[x].seen
             d == Delta(p, b)
             e == [item |-> p.item, key |-> k, delta |-> d, after |-> b + d]
  <1> USE LedgerConstantsOK
  <1>1. At(x, "locked") /\ call[x].found = None /\ ~MustRefuse(x)
    BY DEF Apply
  <1>2. call[x] \in Calls
    BY <1>1 DEF At, LedgerTypeOK
  <1>3. p \in Payload /\ k \in Key
    BY <1>2 DEF Calls
  <1>4. p.item \in Item /\ b = balance[p.item]
    BY <1>1, <1>3 DEF LocksHeld, Payload
  <1>5. b \in Int
    BY <1>4 DEF LedgerTypeOK
  <1>6. d \in Int
    BY <1>3, <1>5, DeltaInt
  <1>7. e \in Movements
    BY <1>3, <1>4, <1>5, <1>6 DEF Movements
  <1>8. b + d >= 0 /\ (p.expected # None => p.expected = b)
    BY <1>1, <1>5, <1>6 DEF MustRefuse
  <1>9. p.kind = "count" => b + d = p.quantity
    BY <1>3, <1>5 DEF Delta, Payload
  <1>10. /\ balance' = [balance EXCEPT ![p.item] = e.after]
         /\ movement' = Append(movement, e)
         /\ request' = [request EXCEPT ![k] = [payload |-> p, response |-> e]]
         /\ call' = [call EXCEPT ![x].phase = "answered", ![x].response = e]
    BY DEF Apply
  <1>11. e.item = p.item /\ e.key = k /\ e.after = b + d /\ e.after - e.delta = b
    BY <1>5, <1>6
  <1> HIDE DEF p, k, b, d, e
  <1> QED
    BY <1>1, <1>3, <1>4, <1>7, <1>8, <1>9, <1>10, <1>11 DEF p, k

LEMMA StepTypeOK ==
  ASSUME LedgerTypeOK, LocksHeld, [LedgerNext]_ledger
  PROVE  LedgerTypeOK'
  <1> USE LedgerConstantsOK
  <1>1. CASE UNCHANGED ledger
    BY <1>1 DEF ledger, LedgerTypeOK
  <1>2. ASSUME NEW x \in Call, NEW k \in Key, NEW p \in Payload, Arrive(x, k, p)
        PROVE  LedgerTypeOK'
    <2>1. [phase |-> "arrived", key |-> k, payload |-> p,
           seen |-> None, found |-> None, response |-> None] \in Calls
      BY DEF Calls
    <2> QED
      BY <1>2, <2>1 DEF Arrive, LedgerTypeOK
  <1>3. ASSUME NEW x \in Call, LockKey(x) PROVE LedgerTypeOK'
    BY <1>3 DEF LockKey, At, LedgerTypeOK, Calls
  <1>4. ASSUME NEW x \in Call, LockItem(x) PROVE LedgerTypeOK'
    <2>1. call[x] \in Calls
      BY <1>4 DEF LockItem, At, LedgerTypeOK
    <2>2. balance[call[x].payload.item] \in Int /\ request[call[x].key] \in Requests \cup {None}
      BY <2>1 DEF Calls, Payload, LedgerTypeOK
    <2> QED
      BY <1>4, <2>1, <2>2 DEF LockItem, LedgerTypeOK, Calls
  <1>5. ASSUME NEW x \in Call, Reuse(x) PROVE LedgerTypeOK'
    <2>1. call[x] \in Calls
      BY <1>5 DEF Reuse, At, LedgerTypeOK
    <2>2. call[x].found.response \in Movements
      BY <1>5, <2>1 DEF Reuse, Calls, Requests
    <2> QED
      BY <1>5, <2>1, <2>2 DEF Reuse, LedgerTypeOK, Calls
  <1>6. ASSUME NEW x \in Call, Refuse(x) \/ Abandon(x) PROVE LedgerTypeOK'
    <2>1. call[x] \in Calls
      BY <1>6 DEF Refuse, Abandon, At, LedgerTypeOK
    <2>2. call' = [call EXCEPT ![x].phase = "refused"]
      BY <1>6 DEF Refuse, Abandon
    <2>3. call' \in [Call -> Calls \cup {None}]
      BY <2>1, <2>2 DEF LedgerTypeOK, Calls
    <2> QED
      BY <1>6, <2>3 DEF Refuse, Abandon, LedgerTypeOK
  <1>7. ASSUME NEW x \in Call, Apply(x) PROVE LedgerTypeOK'
    <2>1. PICK e \in Movements :
            /\ call[x].payload \in Payload /\ call[x].key \in Key /\ At(x, "locked")
            /\ balance' = [balance EXCEPT ![call[x].payload.item] = e.after]
            /\ movement' = Append(movement, e)
            /\ request' = [request EXCEPT ![call[x].key] =
                            [payload |-> call[x].payload, response |-> e]]
            /\ call' = [call EXCEPT ![x].phase = "answered", ![x].response = e]
      BY <1>7, Entry
    <2>2. [payload |-> call[x].payload, response |-> e] \in Requests /\ e.after \in Int
      BY <2>1 DEF Requests, Movements
    <2>3. call[x] \in Calls
      BY <2>1 DEF At, LedgerTypeOK
    <2>4. call' \in [Call -> Calls \cup {None}]
      BY <2>1, <2>3 DEF LedgerTypeOK, Calls
    <2>5. balance' \in [Item -> Int] /\ request' \in [Key -> Requests \cup {None}]
      BY <2>1, <2>2 DEF LedgerTypeOK
    <2>6. movement' \in Seq(Movements)
      BY <2>1 DEF LedgerTypeOK
    <2> QED
      BY <2>4, <2>5, <2>6 DEF LedgerTypeOK
  <1> QED
    BY <1>1, <1>2, <1>3, <1>4, <1>5, <1>6, <1>7, StepKinds

LEMMA StepOneHolder ==
  ASSUME LedgerTypeOK, LocksHeld, OneHolder, [LedgerNext]_ledger
  PROVE  OneHolder'
  <1> USE LedgerConstantsOK DEF OneHolder, HoldsKey, HoldsItem, At
  <1>1. CASE UNCHANGED ledger
    BY <1>1 DEF ledger
  <1>2. ASSUME NEW x \in Call, NEW k \in Key, NEW p \in Payload, Arrive(x, k, p)
        PROVE  OneHolder'
    BY <1>2 DEF Arrive, LedgerTypeOK
  <1>3. ASSUME NEW x \in Call, LockKey(x) PROVE OneHolder'
    <2>1. call[x] \in Calls
      BY <1>3 DEF LockKey, LedgerTypeOK
    <2> QED
      BY <1>3, <2>1 DEF LockKey, LedgerTypeOK, Calls
  <1>4. ASSUME NEW x \in Call, LockItem(x) PROVE OneHolder'
    <2>1. call[x] \in Calls
      BY <1>4 DEF LockItem, LedgerTypeOK
    <2> QED
      BY <1>4, <2>1 DEF LockItem, LedgerTypeOK, Calls
  <1>5. ASSUME NEW x \in Call, Reuse(x) PROVE OneHolder'
    BY <1>5 DEF Reuse, LedgerTypeOK, Calls
  <1>6. ASSUME NEW x \in Call, Refuse(x) \/ Abandon(x) PROVE OneHolder'
    <2>1. call[x] \in Calls
      BY <1>6 DEF Refuse, Abandon, LedgerTypeOK
    <2>2. call' = [call EXCEPT ![x].phase = "refused"]
      BY <1>6 DEF Refuse, Abandon
    <2> QED
      BY <2>1, <2>2 DEF LedgerTypeOK, Calls
  <1>7. ASSUME NEW x \in Call, Apply(x) PROVE OneHolder'
    <2>1. PICK e :
            call' = [call EXCEPT ![x].phase = "answered", ![x].response = e]
      BY <1>7 DEF Apply
    <2>2. call[x] \in Calls
      BY <1>7 DEF Apply, LedgerTypeOK
    <2> QED
      BY <2>1, <2>2 DEF LedgerTypeOK, Calls
  <1> HIDE DEF OneHolder
  <1> QED
    BY <1>1, <1>2, <1>3, <1>4, <1>5, <1>6, <1>7, StepKinds

LEMMA StepHeld ==
  ASSUME LedgerTypeOK, LocksHeld, OneHolder, [LedgerNext]_ledger
  PROVE  LocksHeld'
  <1> USE LedgerConstantsOK
  <1>1. CASE UNCHANGED ledger
    BY <1>1 DEF ledger, LocksHeld, At
  <1>2. ASSUME NEW x \in Call, NEW k \in Key, NEW p \in Payload, Arrive(x, k, p)
        PROVE  LocksHeld'
    BY <1>2 DEF Arrive, LedgerTypeOK, LocksHeld, At
  <1>3. ASSUME NEW x \in Call, LockKey(x) PROVE LocksHeld'
    BY <1>3 DEF LockKey, LedgerTypeOK, Calls, LocksHeld, At
  <1>4. ASSUME NEW x \in Call, LockItem(x) PROVE LocksHeld'
    BY <1>4 DEF LockItem, LedgerTypeOK, Calls, LocksHeld, At
  <1>5. ASSUME NEW x \in Call, Reuse(x) PROVE LocksHeld'
    BY <1>5 DEF Reuse, LedgerTypeOK, Calls, LocksHeld, At
  <1>6. ASSUME NEW x \in Call, Refuse(x) \/ Abandon(x) PROVE LocksHeld'
    <2>1. call[x] \in Calls
      BY <1>6 DEF Refuse, Abandon, At, LedgerTypeOK
    <2>2. call' = [call EXCEPT ![x].phase = "refused"] /\ UNCHANGED <<balance, request>>
      BY <1>6 DEF Refuse, Abandon
    <2> QED
      BY <2>1, <2>2 DEF LedgerTypeOK, Calls, LocksHeld, At
  <1>7. ASSUME NEW x \in Call, Apply(x) PROVE LocksHeld'
    <2>1. PICK e \in Movements :
            /\ call[x].payload \in Payload /\ call[x].key \in Key /\ At(x, "locked")
            /\ balance' = [balance EXCEPT ![call[x].payload.item] = e.after]
            /\ request' = [request EXCEPT ![call[x].key] =
                            [payload |-> call[x].payload, response |-> e]]
            /\ call' = [call EXCEPT ![x].phase = "answered", ![x].response = e]
      BY <1>7, Entry
    <2>2. ASSUME NEW y \in Call, At(y, "locked")'
          PROVE  /\ call'[y] = call[y] /\ At(y, "locked") /\ y # x
      BY <2>1, <2>2 DEF At, LedgerTypeOK, Calls
    <2>3. ASSUME NEW y \in Call, y # x, At(y, "locked")
          PROVE  call[y].payload.item # call[x].payload.item /\ call[y].key # call[x].key
      BY <2>1, <2>3 DEF OneHolder, HoldsKey, HoldsItem
    <2>4. ASSUME NEW y \in Call, y # x, At(y, "locked")
          PROVE  /\ balance'[call[y].payload.item] = balance[call[y].payload.item]
                 /\ request'[call[y].key] = request[call[y].key]
      <3>1. call[y] \in Calls
        BY <2>4 DEF At, LedgerTypeOK
      <3>2. call[y].payload.item \in Item /\ call[y].key \in Key
        BY <3>1 DEF Calls, Payload
      <3> QED
        BY <2>1, <2>3, <2>4, <3>2 DEF LedgerTypeOK
    <2> QED
      BY <2>2, <2>4 DEF LocksHeld
  <1> QED
    BY <1>1, <1>2, <1>3, <1>4, <1>5, <1>6, <1>7, StepKinds

-----------------------------------------------------------------------------
(* What a commit leaves alone: the movements there are, and what was said of *)
(* them.                                                                     *)

LEMMA StepFits ==
  ASSUME LedgerTypeOK, LocksHeld, Stored, Told, [LedgerNext]_ledger
  PROVE  Stored' /\ Told'
  <1> USE LedgerConstantsOK, NoneIsNoRequest
  <1>1. CASE UNCHANGED ledger
    BY <1>1 DEF ledger, Stored, Told, Fits, At
  <1>2. ASSUME UNCHANGED <<movement, request>>, NEW x \in Call,
               \A y \in Call : y # x => call'[y] = call[y],
               ~At(x, "answered")'
        PROVE  Stored' /\ Told'
    BY <1>2 DEF Stored, Told, Fits, At
  <1>3. ASSUME NEW x \in Call, NEW k \in Key, NEW p \in Payload, Arrive(x, k, p)
        PROVE  Stored' /\ Told'
    BY <1>2, <1>3 DEF Arrive, LedgerTypeOK, At
  <1>4. ASSUME NEW x \in Call, LockKey(x) PROVE Stored' /\ Told'
    BY <1>2, <1>4 DEF LockKey, LedgerTypeOK, Calls, At
  <1>5. ASSUME NEW x \in Call, LockItem(x) PROVE Stored' /\ Told'
    BY <1>2, <1>5 DEF LockItem, LedgerTypeOK, Calls, At
  <1>6. ASSUME NEW x \in Call, Refuse(x) \/ Abandon(x) PROVE Stored' /\ Told'
    <2>1. call[x] \in Calls
      BY <1>6 DEF Refuse, Abandon, At, LedgerTypeOK
    <2>2. call' = [call EXCEPT ![x].phase = "refused"] /\ UNCHANGED <<movement, request>>
      BY <1>6 DEF Refuse, Abandon
    <2> QED
      BY <1>2, <2>1, <2>2 DEF LedgerTypeOK, Calls, At
  <1>7. ASSUME NEW x \in Call, Reuse(x) PROVE Stored' /\ Told'
    <2>1. call[x] \in Calls /\ At(x, "locked")
      BY <1>7 DEF Reuse, At, LedgerTypeOK
    <2>2. call[x].key \in Key /\ request[call[x].key] = call[x].found
      BY <2>1 DEF LocksHeld, Calls
    <2>3. Fits(call[x].found.response, call[x].key, call[x].payload)
      BY <1>7, <2>2 DEF Stored, Reuse
    <2>4. /\ call'[x].response = call[x].found.response
          /\ call'[x].key = call[x].key
          /\ call'[x].payload = call[x].payload
          /\ \A y \in Call : y # x => call'[y] = call[y]
      BY <1>7, <2>1 DEF Reuse, LedgerTypeOK, Calls
    <2>5. UNCHANGED <<movement, request>>
      BY <1>7 DEF Reuse
    <2> QED
      BY <2>3, <2>4, <2>5 DEF Stored, Told, Fits, At
  <1>8. ASSUME NEW x \in Call, Apply(x) PROVE Stored' /\ Told'
    <2> DEFINE p == call[x].payload
               k == call[x].key
    <2>1. PICK e \in Movements :
            /\ p \in Payload /\ k \in Key /\ At(x, "locked")
            /\ movement' = Append(movement, e)
            /\ request' = [request EXCEPT ![k] = [payload |-> p, response |-> e]]
            /\ call' = [call EXCEPT ![x].phase = "answered", ![x].response = e]
            /\ e.item = p.item /\ e.key = k
            /\ p.kind = "count" => e.after = p.quantity
            /\ p.expected # None => e.after - e.delta = p.expected
      BY <1>8, Entry
    <2>2. call[x] \in Calls
      BY <2>1 DEF At, LedgerTypeOK
    <2>3. /\ call'[x].response = e /\ call'[x].key = k /\ call'[x].payload = p
          /\ \A y \in Call : y # x => call'[y] = call[y]
      BY <2>1, <2>2 DEF LedgerTypeOK, Calls
    <2>4. request'[k].payload = p /\ request'[k].response = e
      BY <2>1 DEF LedgerTypeOK
    <2>5. \A l \in Key : l # k => request'[l] = request[l]
      BY <2>1 DEF LedgerTypeOK
    <2>6. movement \in Seq(Movements)
      BY DEF LedgerTypeOK
    <2>7. \E n \in 1..Len(movement') : movement'[n] = e
      <3>1. movement'[Len(movement) + 1] = e /\ Len(movement) + 1 \in 1..Len(movement')
        BY <2>1, <2>6
      <3> QED
        BY <3>1
    <2> HIDE DEF p, k
    <2>8. \A q : (\E n \in 1..Len(movement) : movement[n] = q) =>
                 \E n \in 1..Len(movement') : movement'[n] = q
      BY <2>1, <2>6
    <2>9. Stored'
      BY <2>1, <2>4, <2>5, <2>7, <2>8 DEF Stored, Fits
    <2>10. ASSUME NEW y \in Call, At(y, "answered")'
           PROVE  Fits(call[y].response, call[y].key, call[y].payload)'
      <3>1. CASE y = x
        BY <2>1, <2>3, <2>7, <3>1 DEF Fits
      <3>2. CASE y # x
        <4>1. call'[y] = call[y] /\ At(y, "answered")
          BY <2>3, <2>10, <3>2 DEF At
        <4>2. Fits(call[y].response, call[y].key, call[y].payload)
          BY <4>1 DEF Told
        <4> QED
          BY <2>8, <4>1, <4>2 DEF Fits
      <3> QED
        BY <3>1, <3>2
    <2>11. Told'
      BY <2>10 DEF Told
    <2> QED
      BY <2>9, <2>11
  <1> QED
    BY <1>1, <1>3, <1>4, <1>5, <1>6, <1>7, <1>8, StepKinds
-----------------------------------------------------------------------------
LEMMA StepUsed ==
  ASSUME LedgerTypeOK, LocksHeld, Used, [LedgerNext]_ledger
  PROVE  Used'
  <1> USE LedgerConstantsOK, NoneIsNoRequest
  <1>1. CASE UNCHANGED <<movement, request>>
    BY <1>1 DEF Used
  <1>2. ASSUME NEW x \in Call, Apply(x) PROVE Used'
    <2> DEFINE p == call[x].payload
               k == call[x].key
    <2>1. PICK e \in Movements :
            /\ p \in Payload /\ k \in Key /\ At(x, "locked") /\ call[x].found = None
            /\ movement' = Append(movement, e)
            /\ request' = [request EXCEPT ![k] = [payload |-> p, response |-> e]]
            /\ e.key = k
      BY <1>2, Entry
    <2>2. request[k] = None
      BY <2>1 DEF LocksHeld
    <2>3. [payload |-> p, response |-> e] \in Requests
      BY <2>1 DEF Requests
    <2> HIDE DEF p, k
    <2>4. /\ request'[k] # None
          /\ \A l \in Key : l # k => request'[l] = request[l]
      BY <2>1, <2>3 DEF LedgerTypeOK
    <2>5. movement \in Seq(Movements)
      BY DEF LedgerTypeOK
    <2>6. /\ Len(movement') = Len(movement) + 1 /\ Len(movement) \in Nat
          /\ movement'[Len(movement) + 1] = e
          /\ \A n \in 1..Len(movement) : movement'[n] = movement[n]
      BY <2>1, <2>5
    <2>7. ASSUME NEW n \in 1..Len(movement)
          PROVE  movement[n].key \in Key /\ movement[n].key # k
      <3>1. movement[n] \in Movements
        BY <2>5
      <3> QED
        BY <2>2, <3>1 DEF Used, Movements
    <2>8. \A n \in 1..Len(movement') : n \in 1..Len(movement) \/ n = Len(movement) + 1
      BY <2>6
    <2>9. \A n \in 1..Len(movement') : request'[movement'[n].key] # None
      BY <2>1, <2>4, <2>6, <2>7, <2>8 DEF Used
    <2>10. \A m, n \in 1..Len(movement') : movement'[m].key = movement'[n].key => m = n
      BY <2>1, <2>6, <2>7, <2>8 DEF Used
    <2> QED
      BY <2>9, <2>10 DEF Used
  <1>3. ASSUME NEW x \in Call, Refuse(x) \/ Abandon(x) PROVE UNCHANGED <<movement, request>>
    BY <1>3 DEF Refuse, Abandon
  <1> QED
    BY <1>1, <1>2, <1>3, StepKinds DEF ledger, Arrive, LockKey, LockItem, Reuse

\* The first n entries of a longer list leave what they left.
LEMMA LeavePrefix ==
  ASSUME NEW e \in Movements, movement \in Seq(Movements), movement' = Append(movement, e),
         NEW i \in Item, NEW n \in 0..Len(movement), NEW b, Leave(i, n, b)
  PROVE  /\ Entries(i, n)' = Entries(i, n)
         /\ Leave(i, n, b)'
  <1>1. \A m \in 1..n : movement'[m] = movement[m]
    OBVIOUS
  <1>2. Entries(i, n)' = Entries(i, n)
    BY <1>1 DEF Entries
  <1>3. \A m \in Entries(i, n) : movement'[m] = movement[m]
    BY <1>1 DEF Entries
  <1> QED
    BY <1>2, <1>3 DEF Leave

LEMMA StepChain ==
  ASSUME LedgerTypeOK, LocksHeld, Chain, [LedgerNext]_ledger
  PROVE  Chain'
  <1> USE LedgerConstantsOK
  <1>1. CASE UNCHANGED <<movement, balance>>
    BY <1>1 DEF Chain, Leave, Entries
  <1>2. ASSUME NEW x \in Call, Apply(x) PROVE Chain'
    <2>1. PICK e \in Movements :
            /\ call[x].payload \in Payload
            /\ balance' = [balance EXCEPT ![call[x].payload.item] = e.after]
            /\ movement' = Append(movement, e)
            /\ e.item = call[x].payload.item /\ e.after >= 0
            /\ e.after - e.delta = balance[call[x].payload.item]
      BY <1>2, Entry
    <2>2. PICK i \in Item : i = call[x].payload.item
      BY <2>1 DEF Payload
    <2>3. /\ balance' = [balance EXCEPT ![i] = e.after]
          /\ e.item = i /\ e.after - e.delta = balance[i]
      BY <2>1, <2>2
    <2>4. movement \in Seq(Movements) /\ balance \in [Item -> Int]
      BY DEF LedgerTypeOK
    <2>5. PICK N \in Nat : N = Len(movement)
      BY <2>4
    <2>6. /\ Len(movement') = N + 1
          /\ movement'[N + 1] = e
          /\ \A n \in 1..N : movement'[n] = movement[n] /\ movement[n] \in Movements
      BY <2>1, <2>4, <2>5
    <2>7. ASSUME NEW j \in Item, NEW n \in 0..N, NEW b, Leave(j, n, b)
          PROVE  Entries(j, n)' = Entries(j, n) /\ Leave(j, n, b)'
      BY <2>1, <2>4, <2>5, <2>7, LeavePrefix
    <2>8. ASSUME NEW n \in 1..N
          PROVE  /\ Leave(movement[n].item, n - 1, movement[n].after - movement[n].delta)'
                 /\ movement'[n].after >= 0
      <3>1. movement[n].item \in Item /\ n - 1 \in 0..N
        BY <2>6 DEF Movements
      <3>2. /\ Leave(movement[n].item, n - 1, movement[n].after - movement[n].delta)
            /\ movement[n].after >= 0
        BY <2>5 DEF Chain
      <3> QED
        BY <2>6, <2>7, <3>1, <3>2
    <2>9. \A j \in Item : Leave(j, N, balance[j])
      BY <2>5 DEF Chain
    <2>10. \A b : b = balance[i] => Leave(i, N, b)'
      BY <2>7, <2>9
    <2>11. /\ Leave(movement[N + 1].item, (N + 1) - 1,
                    movement[N + 1].after - movement[N + 1].delta)'
           /\ movement'[N + 1].after >= 0
      BY <2>1, <2>3, <2>6, <2>10
    <2>12. ASSUME NEW j \in Item PROVE Leave(j, N + 1, balance[j])'
      <3>1. CASE j = i
        <4>1. N + 1 \in Entries(j, N + 1)'
          BY <2>3, <2>6, <3>1 DEF Entries
        <4>2. \A l \in Entries(j, N + 1)' : l <= N + 1
          BY DEF Entries
        <4>3. movement'[N + 1].after = balance'[j]
          BY <2>3, <2>4, <2>6, <3>1
        <4> QED
          BY <4>1, <4>2, <4>3 DEF Leave
      <3>2. CASE j # i
        <4>1. \A b : b = balance[j] => Leave(j, N, b)'
          BY <2>7, <2>9
        <4>2. Entries(j, N + 1)' = Entries(j, N)'
          BY <2>3, <2>6, <3>2 DEF Entries
        <4>3. balance'[j] = balance[j]
          BY <2>3, <2>4, <3>2
        <4> QED
          BY <4>1, <4>2, <4>3 DEF Leave
      <3> QED
        BY <3>1, <3>2
    <2>13. \A n \in 1..Len(movement') : n \in 1..N \/ n = N + 1
      BY <2>6
    <2>14. \A n \in 1..Len(movement') :
             /\ Leave(movement[n].item, n - 1, movement[n].after - movement[n].delta)'
             /\ movement'[n].after >= 0
      BY <2>8, <2>11, <2>13
    <2> QED
      BY <2>6, <2>12, <2>14 DEF Chain
  <1>3. ASSUME NEW x \in Call, Refuse(x) \/ Abandon(x) PROVE UNCHANGED <<movement, balance>>
    BY <1>3 DEF Refuse, Abandon
  <1> QED
    BY <1>1, <1>2, <1>3, StepKinds DEF ledger, Arrive, LockKey, LockItem, Reuse
-----------------------------------------------------------------------------
THEOREM LedgerInvHolds == LedgerSpec => []LedgerInv
  <1>1. LedgerInit => LedgerInv
    BY InitLedgerInv
  <1>2. LedgerInv /\ [LedgerNext]_ledger => LedgerInv'
    BY StepTypeOK, StepOneHolder, StepHeld, StepFits, StepUsed, StepChain DEF LedgerInv
  <1> QED
    BY <1>1, <1>2, PTL DEF LedgerSpec

\* What a list leaves of an item is one number: its last entry's, if it has one.
LEMMA LeaveIsLeft ==
  ASSUME NEW i, NEW n \in Nat, NEW b, Leave(i, n, b)
  PROVE  b = Left(i, n)
  <1>1. CASE Entries(i, n) = {}
    BY <1>1 DEF Leave, Left
  <1>2. CASE Entries(i, n) # {}
    <2>1. PICK m \in Entries(i, n) : (\A l \in Entries(i, n) : l <= m) /\ movement[m].after = b
      BY <1>2 DEF Leave
    <2> DEFINE c == CHOOSE k \in Entries(i, n) : \A l \in Entries(i, n) : l <= k
    <2>2. Left(i, n) = movement[c].after
      BY <1>2 DEF Left
    <2>3. c \in Entries(i, n) /\ \A l \in Entries(i, n) : l <= c
      BY <2>1
    <2> HIDE DEF c
    <2>4. c = m
      BY <2>1, <2>3 DEF Entries
    <2> QED
      BY <2>1, <2>2, <2>4
  <1> QED
    BY <1>1, <1>2

\* Whatever the calls, their keys and their order, every movement of an item
\* starts from what the one before it left, none leaves less than nothing, and
\* the balance is what the last one left.
THEOREM MovementsAddUp == LedgerSpec => []LedgerAddsUp
  <1>1. ASSUME LedgerInv PROVE LedgerAddsUp
    <2> USE <1>1
    <2>1. movement \in Seq(Movements) /\ Len(movement) \in Nat
      BY DEF LedgerInv, LedgerTypeOK
    <2>2. ASSUME NEW n \in 1..Len(movement)
          PROVE  /\ movement[n].after = Left(movement[n].item, n - 1) + movement[n].delta
                 /\ movement[n].after >= 0
      <3>1. /\ Leave(movement[n].item, n - 1, movement[n].after - movement[n].delta)
            /\ movement[n].after >= 0
        BY DEF LedgerInv, Chain
      <3>2. movement[n].after - movement[n].delta = Left(movement[n].item, n - 1)
        BY <2>1, <3>1, LeaveIsLeft
      <3>3. movement[n] \in Movements
        BY <2>1
      <3>4. movement[n].after \in Int /\ movement[n].delta \in Int
        BY <3>3 DEF Movements
      <3> QED
        BY <3>1, <3>2, <3>4
    <2>3. \A i \in Item : balance[i] = Left(i, Len(movement))
      BY <2>1, LeaveIsLeft DEF LedgerInv, Chain
    <2> QED
      BY <2>2, <2>3 DEF LedgerAddsUp
  <1> QED
    BY <1>1, LedgerInvHolds, PTL

\* However often a key is sent and however the calls interleave, one movement at
\* most carries it, and every answer given for it is that movement.
THEOREM KeysApplyOnce == LedgerSpec => []KeyAppliedOnce
  <1>1. LedgerInv => KeyAppliedOnce
    BY DEF LedgerInv, Used, Told, Fits, KeyAppliedOnce
  <1> QED
    BY <1>1, LedgerInvHolds, PTL
=============================================================================
