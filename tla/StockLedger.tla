----------------------------- MODULE StockLedger -----------------------------
(***************************************************************************)
(* Stock movements recorded through the dashboard (inventory::record): a    *)
(* movement and the item's new balance are written in one transaction, and  *)
(* a request carries an idempotency key so that a caller who lost the       *)
(* answer may ask again.                                                    *)
(*                                                                          *)
(* One element of Call is one HTTP request.  A caller that repeats a        *)
(* request is two calls with one payload; they may be under way together.   *)
(* A lost answer is an answer nobody reads, so it needs no step.            *)
(***************************************************************************)
EXTENDS Integers, Sequences

CONSTANTS
  Item,      \* inventory items, numbered in the order of their names
  Key,       \* idempotency keys
  Call,      \* bound: the number of requests that arrive
  Quantity,  \* the quantities requests give
  Shown,     \* bound: the balances an operator may have seen
  Asks,      \* bound: the keys and payloads that are asked for together
  Opening,   \* Opening[i]: the balance of i before the first movement
  None

ASSUME LedgerConstantsOK ==
  /\ Item \subseteq Nat
  /\ Quantity \cup Shown \subseteq Nat
  /\ Opening \in [Item -> Nat]
  /\ None \notin Key \cup Call \cup Int

MovementKind == {"issue", "receipt", "count"}

\* What request_hash covers; expected is the balance the operator saw, if sent.
Payload == [item : Item, kind : MovementKind, quantity : Quantity,
            expected : Shown \cup {None}]

\* A count may be zero; an issue or a receipt may not.
Valid(p) == p.kind = "count" \/ p.quantity > 0

ASSUME AsksOK == Asks \subseteq Key \X Payload

VARIABLES
  balance,   \* inventory_items.current_balance
  movement,  \* inventory_movements, oldest first
  request,   \* inventory_movement_requests: by key, the payload and the response, or None
  call       \* the calls: None before they arrive, then what the handler holds

ledger == <<balance, movement, request, call>>

Movements == [item : Item, key : Key, delta : Int, after : Int]
Requests == [payload : Payload, response : Movements]
Calls == [phase : {"arrived", "keyed", "locked", "answered", "refused"},
          key : Key, payload : Payload,
          seen : Int \cup {None}, found : Requests \cup {None},
          response : Movements \cup {None}]

ASSUME NoneIsNoRequest == None \notin Requests

LedgerTypeOK ==
  /\ balance \in [Item -> Int]
  /\ movement \in Seq(Movements)
  /\ request \in [Key -> Requests \cup {None}]
  /\ call \in [Call -> Calls \cup {None}]

LedgerInit ==
  /\ balance = Opening
  /\ movement = <<>>
  /\ request = [k \in Key |-> None]
  /\ call = [x \in Call |-> None]

-----------------------------------------------------------------------------
At(x, phase) == call[x] # None /\ call[x].phase = phase

\* The advisory lock on the key, held until the transaction ends.
HoldsKey(x, k) == (At(x, "keyed") \/ At(x, "locked")) /\ call[x].key = k
\* The lock on the item's row.
HoldsItem(x, i) == At(x, "locked") /\ call[x].payload.item = i

\* The signed change the request asks for, given the balance that was read.
Delta(p, current) ==
  CASE p.kind = "issue"   -> -p.quantity
    [] p.kind = "receipt" -> p.quantity
    [] p.kind = "count"   -> p.quantity - current

Arrive(x, k, p) ==
  /\ call[x] = None
  /\ <<k, p>> \in Asks
  /\ Valid(p)
  /\ call' = [call EXCEPT ![x] = [phase |-> "arrived", key |-> k, payload |-> p,
                                  seen |-> None, found |-> None, response |-> None]]
  /\ UNCHANGED <<balance, movement, request>>

\* Mutant: no lock on the key.
LockKeyNoWait(x) ==
  /\ At(x, "arrived")
  /\ call' = [call EXCEPT ![x].phase = "keyed"]
  /\ UNCHANGED <<balance, movement, request>>

LockKey(x) ==
  /\ At(x, "arrived")
  /\ \A y \in Call : ~HoldsKey(y, call[x].key)
  /\ call' = [call EXCEPT ![x].phase = "keyed"]
  /\ UNCHANGED <<balance, movement, request>>

\* Mutant: the item is read without its lock.
LockItemNoWait(x) ==
  /\ At(x, "keyed")
  /\ call' = [call EXCEPT ![x].phase = "locked",
                          ![x].seen = balance[call[x].payload.item],
                          ![x].found = request[call[x].key]]
  /\ UNCHANGED <<balance, movement, request>>

\* SELECT ... FOR UPDATE: waits for the row and reads the balance; then the
\* request of the key is looked up.
LockItem(x) ==
  /\ At(x, "keyed")
  /\ \A y \in Call : ~HoldsItem(y, call[x].payload.item)
  /\ call' = [call EXCEPT ![x].phase = "locked",
                          ![x].seen = balance[call[x].payload.item],
                          ![x].found = request[call[x].key]]
  /\ UNCHANGED <<balance, movement, request>>

\* The key has been used: the same payload gets the stored response again.
Reuse(x) ==
  /\ At(x, "locked")
  /\ call[x].found # None
  /\ call[x].found.payload = call[x].payload
  /\ call' = [call EXCEPT ![x].phase = "answered", ![x].response = call[x].found.response]
  /\ UNCHANGED <<balance, movement, request>>

\* Another payload under the key, another balance than expected, or too little stock.
MustRefuse(x) ==
  LET p == call[x].payload
      stored == call[x].found
  IN \/ stored # None /\ stored.payload # p
     \/ stored = None /\ p.expected # None /\ p.expected # call[x].seen
     \/ stored = None /\ call[x].seen + Delta(p, call[x].seen) < 0

Refuse(x) ==
  /\ At(x, "locked")
  /\ MustRefuse(x)
  /\ call' = [call EXCEPT ![x].phase = "refused"]
  /\ UNCHANGED <<balance, movement, request>>

Apply(x) ==
  LET p == call[x].payload
      k == call[x].key
      delta == Delta(p, call[x].seen)
      entry == [item |-> p.item, key |-> k, delta |-> delta,
                after |-> call[x].seen + delta]
  IN /\ At(x, "locked")
     /\ call[x].found = None
     /\ ~MustRefuse(x)
     /\ balance' = [balance EXCEPT ![p.item] = entry.after]
     /\ movement' = Append(movement, entry)
     /\ request' = [request EXCEPT ![k] = [payload |-> p, response |-> entry]]
     /\ call' = [call EXCEPT ![x].phase = "answered", ![x].response = entry]

\* The connection or the process goes away before the commit.
Abandon(x) ==
  /\ At(x, "arrived") \/ At(x, "keyed") \/ At(x, "locked")
  /\ call' = [call EXCEPT ![x].phase = "refused"]
  /\ UNCHANGED <<balance, movement, request>>

CallStep(x) == LockKey(x) \/ LockItem(x) \/ Reuse(x) \/ Refuse(x) \/ Abandon(x)

LedgerNext ==
  \E x \in Call :
    \/ \E k \in Key, p \in Payload : Arrive(x, k, p)
    \/ CallStep(x)
    \/ Apply(x)

LedgerSpec == LedgerInit /\ [][LedgerNext]_ledger

-----------------------------------------------------------------------------
\* The movements of i among the first n, and the balance the last of them left.
Entries(i, n) == {m \in 1..n : movement[m].item = i}
Left(i, n) ==
  IF Entries(i, n) = {} THEN Opening[i]
  ELSE movement[CHOOSE m \in Entries(i, n) : \A l \in Entries(i, n) : l <= m].after

\* The movements of an item are a chain from its opening balance to its balance:
\* each starts from what the one before it left, and none leaves less than
\* nothing (the lock on the item's row, read and written in one transaction).
LedgerAddsUp ==
  /\ \A n \in 1..Len(movement) :
       /\ movement[n].after = Left(movement[n].item, n - 1) + movement[n].delta
       /\ movement[n].after >= 0
  /\ \A i \in Item : balance[i] = Left(i, Len(movement))

\* However often and however concurrently a key is used, at most one movement
\* carries it, every call that was answered with success was answered with that
\* movement, and it is what that caller asked for.
KeyAppliedOnce ==
  /\ \A m, n \in 1..Len(movement) : movement[m].key = movement[n].key => m = n
  /\ \A x \in Call : At(x, "answered") =>
       /\ \E n \in 1..Len(movement) : movement[n] = call[x].response
       /\ call[x].response.key = call[x].key
       /\ call[x].response.item = call[x].payload.item
       /\ call[x].payload.kind = "count" =>
            call[x].response.after = call[x].payload.quantity
       /\ call[x].payload.expected # None =>
            call[x].response.after - call[x].response.delta = call[x].payload.expected
=============================================================================
