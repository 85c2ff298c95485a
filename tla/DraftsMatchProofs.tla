--------------------------- MODULE DraftsMatchProofs ---------------------------
(***************************************************************************)
(* That the drafts are what the stock calls for (Purchasing's               *)
(* DraftsMatchStock), in four parts: what SumFunction adds up, since the    *)
(* units on order are a sum over the approved orders; that the packs of a   *)
(* line cover its shortage; that what one order is approved with leaves its *)
(* vendor nothing to be asked for, and the other vendors what they were;    *)
(* and the inductive invariant (MatchInv), by a check that commits on the   *)
(* revision it has read, by a decision, and by a change of the data, which   *)
(* puts the revision ahead of the checkpoint.                                *)
(***************************************************************************)
EXTENDS PurchasingProofs

-----------------------------------------------------------------------------
(* Sums.  SumFunction folds over the set of arguments by a recursive function *)
(* on its subsets.  That there is one such function is shown by the smallest  *)
(* subset for which there would be none (Smallest), and so is that the sum    *)
(* does not depend on the order in which the fold takes the arguments out.    *)

Pick(s) == CHOOSE x \in s : TRUE

\* g gives the sum of f over each subset of D.
Sums(g, D, f) ==
  g = [s \in SUBSET D |->
         IF s = {} THEN 0 ELSE f[Pick(s)] + g[s \ {Pick(s)}]]

-----------------------------------------------------------------------------
LEMMA Smallest ==
  ASSUME NEW D, IsFiniteSet(D), NEW B, B \subseteq SUBSET D, B # {}
  PROVE  \E T \in B : \A U \in B : U \subseteq T => U = T
  <1> DEFINE R == StrictSubsetOrdering(D)
             S == FiniteSubsetsOf(D)
  <1>1. IsWellFoundedOn(R, S)
    BY FS_StrictSubsetOrderingWellFounded
  <1>2. S = SUBSET D
    BY FS_FiniteSubsetsOfFinite
  <1> HIDE DEF R, S
  <1>3. PICK T \in B : \A U \in B : ~(<<U, T>> \in R)
    BY <1>1, <1>2, WFMin
  <1>4. \A U \in B : U \subseteq T /\ U # T => <<U, T>> \in R
    BY <1>2 DEF R, StrictSubsetOrdering
  <1>5. ASSUME NEW U \in B, U \subseteq T PROVE U = T
    <2>1. ~(<<U, T>> \in R)
      BY <1>3
    <2>2. U # T => <<U, T>> \in R
      BY <1>4, <1>5
    <2> QED
      BY <2>1, <2>2
  <1> QED
    BY <1>5

LEMMA PickIsIn ==
  ASSUME NEW s, s # {}
  PROVE  Pick(s) \in s
  BY DEF Pick

\* Two such functions agree where they add up the same.
LEMMA SumsAgree ==
  ASSUME NEW D, IsFiniteSet(D), NEW f, NEW g, Sums(g, D, f),
         NEW E, NEW k, NEW h, Sums(h, E, k),
         \A x \in D \cap E : f[x] = k[x]
  PROVE  \A T : T \subseteq D /\ T \subseteq E => g[T] = h[T]
  <1> DEFINE B == {T \in SUBSET D : T \subseteq E /\ g[T] # h[T]}
  <1>1. CASE B = {}
    BY <1>1
  <1>2. CASE B # {}
    <2>1. PICK T \in B : \A U \in B : U \subseteq T => U = T
      <3>1. B \subseteq SUBSET D
        OBVIOUS
      <3> HIDE DEF B
      <3> QED
        BY <1>2, <3>1, Smallest
    <2>2. T \in SUBSET D /\ T \in SUBSET E
      BY <2>1
    <2>3. /\ g[T] = IF T = {} THEN 0 ELSE f[Pick(T)] + g[T \ {Pick(T)}]
          /\ h[T] = IF T = {} THEN 0 ELSE k[Pick(T)] + h[T \ {Pick(T)}]
      BY <2>2 DEF Sums
    <2>4. T # {}
      BY <2>1, <2>3
    <2>5. Pick(T) \in T
      BY <2>4, PickIsIn
    <2>6. g[T \ {Pick(T)}] = h[T \ {Pick(T)}]
      BY <2>1, <2>2, <2>5
    <2>7. f[Pick(T)] = k[Pick(T)]
      BY <2>2, <2>5
    <2>8. g[T] = h[T]
      BY <2>3, <2>4, <2>6, <2>7
    <2> QED
      BY <2>1, <2>8
  <1> QED
    BY <1>1, <1>2

LEMMA SumsExist ==
  ASSUME NEW D, IsFiniteSet(D), NEW f
  PROVE  \E g : Sums(g, D, f)
  <1> DEFINE B == {T \in SUBSET D : ~\E g : Sums(g, T, f)}
  <1>1. CASE B = {}
    BY <1>1
  <1>2. CASE B # {}
    <2>1. PICK T \in B : \A U \in B : U \subseteq T => U = T
      <3>1. B \subseteq SUBSET D
        OBVIOUS
      <3> HIDE DEF B
      <3> QED
        BY <1>2, <3>1, Smallest
    <2>2. T \subseteq D /\ ~\E g : Sums(g, T, f)
      BY <2>1
    <2> DEFINE fn(U) == CHOOSE g : Sums(g, U, f)
               val(U) == fn(U)[U]
               p == Pick(T)
    <2>3. ASSUME NEW U, U \subseteq T, U # T
          PROVE  IsFiniteSet(U) /\ Sums(fn(U), U, f)
      <3>1. \E g : Sums(g, U, f)
        BY <2>1, <2>2, <2>3
      <3>2. IsFiniteSet(U)
        BY <2>2, <2>3, FS_Subset
      <3> QED
        BY <3>1, <3>2
    <2>4. ASSUME NEW U, U \subseteq T, U # T
          PROVE  val(U) = IF U = {} THEN 0 ELSE f[Pick(U)] + val(U \ {Pick(U)})
      <3> DEFINE V == U \ {Pick(U)}
      <3>1. Sums(fn(U), U, f) /\ IsFiniteSet(U)
        BY <2>3, <2>4
      <3>2. fn(U)[U] = IF U = {} THEN 0 ELSE f[Pick(U)] + fn(U)[V]
        BY <3>1 DEF Sums
      <3>3. V \subseteq T /\ V # T /\ V \subseteq U
        BY <2>4
      <3>4. Sums(fn(V), V, f)
        BY <2>3, <3>3
      <3>5. fn(U)[V] = fn(V)[V]
        BY <3>1, <3>3, <3>4, SumsAgree
      <3> QED
        BY <3>2, <3>5
    <2> HIDE DEF val, fn
    <2> DEFINE g == [U \in SUBSET T |->
                       IF U # T THEN val(U)
                       ELSE IF T = {} THEN 0 ELSE f[p] + val(T \ {p})]
    <2>5. ASSUME NEW U \in SUBSET T
          PROVE  g[U] = IF U = {} THEN 0 ELSE f[Pick(U)] + g[U \ {Pick(U)}]
      <3>1. CASE U = {}
        BY <2>4, <3>1
      <3>2. CASE U # {}
        <4> DEFINE V == U \ {Pick(U)}
        <4>1. V \in SUBSET T /\ V # T /\ T # {}
          BY <3>2, PickIsIn
        <4>2. g[V] = val(V)
          BY <4>1
        <4>3. g[U] = f[Pick(U)] + val(V)
          BY <2>4, <3>2, <4>1
        <4> QED
          BY <3>2, <4>2, <4>3
      <3> QED
        BY <3>1, <3>2
    <2>6. g = [U \in SUBSET T |-> g[U]]
      OBVIOUS
    <2> HIDE DEF g
    <2>7. Sums(g, T, f)
      BY <2>5, <2>6 DEF Sums
    <2> QED
      BY <2>2, <2>7
  <1> QED
    BY <1>1, <1>2

LEMMA SumIsOne ==
  ASSUME NEW f, IsFiniteSet(DOMAIN f)
  PROVE  \E g : Sums(g, DOMAIN f, f) /\ SumFunction(f) = g[DOMAIN f]
  <1> DEFINE g == CHOOSE iter : Sums(iter, DOMAIN f, f)
  <1>1. SumFunction(f) = g[DOMAIN f]
    BY DEF SumFunction, SumFunctionOnSet, FoldFunctionOnSet, MapThenFoldSet, Sums, Pick
  <1>2. Sums(g, DOMAIN f, f)
    BY SumsExist
  <1> QED
    BY <1>1, <1>2

-----------------------------------------------------------------------------
\* A sum of integers, with any of them taken out.
LEMMA SumTakesOut ==
  ASSUME NEW D, IsFiniteSet(D), NEW f, \A x \in D : f[x] \in Int, NEW g, Sums(g, D, f)
  PROVE  \A T \in SUBSET D : g[T] \in Int /\ \A x \in T : g[T] = f[x] + g[T \ {x}]
  <1> DEFINE Good(T) == g[T] \in Int /\ \A x \in T : g[T] = f[x] + g[T \ {x}]
             B == {T \in SUBSET D : ~Good(T)}
  <1>1. CASE B = {}
    BY <1>1
  <1>2. CASE B # {}
    <2>1. PICK T \in B : \A U \in B : U \subseteq T => U = T
      <3>1. B \subseteq SUBSET D
        OBVIOUS
      <3> HIDE DEF B
      <3> QED
        BY <1>2, <3>1, Smallest
    <2>2. T \in SUBSET D /\ ~Good(T)
      BY <2>1
    <2>3. \A U \in SUBSET T : U # T => Good(U)
      BY <2>1, <2>2
    <2> DEFINE p == Pick(T)
    <2>4. g[T] = IF T = {} THEN 0 ELSE f[p] + g[T \ {p}]
      BY <2>2 DEF Sums
    <2>5. T # {} => p \in T
      BY PickIsIn
    <2> HIDE DEF p, Good, B
    <2>6. CASE T = {}
      BY <2>2, <2>4, <2>6 DEF Good
    <2>7. CASE T # {}
      <3>1. Good(T \ {p}) /\ f[p] \in Int
        BY <2>2, <2>3, <2>5, <2>7
      <3>2. g[T] = f[p] + g[T \ {p}] /\ g[T \ {p}] \in Int /\ g[T] \in Int
        BY <2>4, <2>7, <3>1 DEF Good
      <3>3. ASSUME NEW x \in T, x # p
            PROVE  g[T] = f[x] + g[T \ {x}]
        <4> DEFINE U == T \ {p}
                   V == T \ {x}
        <4>1. U \ {x} = V \ {p} /\ x \in U /\ p \in V /\ V \subseteq T /\ V # T
          BY <2>5, <2>7, <3>3
        <4>2. g[U] = f[x] + g[U \ {x}]
          BY <3>1, <4>1 DEF Good
        <4>3. Good(V)
          BY <2>3, <4>1
        <4>4. g[V] = f[p] + g[V \ {p}] /\ g[V] \in Int
          BY <4>1, <4>3 DEF Good
        <4>5. Good(V \ {p})
          BY <2>3, <4>1
        <4>6. f[x] \in Int /\ f[p] \in Int /\ g[V \ {p}] \in Int
          BY <2>2, <3>1, <3>3, <4>5 DEF Good
        <4>7. g[T] = f[p] + g[U] /\ g[U] = f[x] + g[V \ {p}] /\ g[V] = f[p] + g[V \ {p}]
          BY <3>2, <4>1, <4>2, <4>4
        <4>8. g[T] = f[x] + g[V]
          <5> HIDE DEF U, V
          <5> QED
            BY <4>6, <4>7
        <4> QED
          BY <4>8
      <3> QED
        BY <2>2, <3>2, <3>3 DEF Good
    <2> QED
      BY <2>6, <2>7
  <1> QED
    BY <1>1, <1>2

LEMMA WholeTakesOut ==
  ASSUME NEW D, IsFiniteSet(D), NEW f, \A x \in D : f[x] \in Int, NEW g, Sums(g, D, f),
         NEW m \in D
  PROVE  g[D] = f[m] + g[D \ {m}]
  <1>1. \A T \in SUBSET D : g[T] \in Int /\ \A x \in T : g[T] = f[x] + g[T \ {x}]
    BY SumTakesOut
  <1>2. D \in SUBSET D
    OBVIOUS
  <1> QED
    BY <1>1, <1>2

LEMMA SumIsInt ==
  ASSUME NEW f, IsFiniteSet(DOMAIN f), \A x \in DOMAIN f : f[x] \in Int
  PROVE  SumFunction(f) \in Int
  <1>1. PICK g : Sums(g, DOMAIN f, f) /\ SumFunction(f) = g[DOMAIN f]
    BY SumIsOne
  <1>2. \A T \in SUBSET DOMAIN f : g[T] \in Int
    BY <1>1, SumTakesOut
  <1> QED
    BY <1>1, <1>2

LEMMA SumWithOneMore ==
  ASSUME NEW D, IsFiniteSet(D), NEW f, DOMAIN f = D, \A x \in D : f[x] \in Int,
         NEW m, m \notin D,
         NEW E, E = D \cup {m}, NEW k, DOMAIN k = E, k[m] \in Int,
         \A x \in D : k[x] = f[x]
  PROVE  SumFunction(k) = SumFunction(f) + k[m]
  <1>1. IsFiniteSet(E)
    BY FS_AddElement
  <1>2. PICK g : Sums(g, D, f) /\ SumFunction(f) = g[D]
    BY SumIsOne
  <1>3. PICK h : Sums(h, E, k) /\ SumFunction(k) = h[E]
    BY <1>1, SumIsOne
  <1>4. g[D] = h[D]
    BY <1>1, <1>2, <1>3, SumsAgree
  <1>5. \A x \in E : k[x] \in Int
    OBVIOUS
  <1>6. m \in E /\ E \ {m} = D
    OBVIOUS
  <1>7. h[E] = k[m] + h[D]
    BY <1>1, <1>3, <1>5, <1>6, WholeTakesOut
  <1>8. SumFunction(f) \in Int
    BY SumIsInt
  <1> QED
    BY <1>2, <1>3, <1>4, <1>7, <1>8

\* A function with one more argument adds up to what it did and what that brings
\* (Purchasing's OnOrder, when an order is approved).
LEMMA SumAddsOne ==
  ASSUME NEW f, IsFiniteSet(DOMAIN f), \A x \in DOMAIN f : f[x] \in Int,
         NEW m, m \notin DOMAIN f,
         NEW k, DOMAIN k = DOMAIN f \cup {m}, k[m] \in Int,
         \A x \in DOMAIN f : k[x] = f[x]
  PROVE  SumFunction(k) = SumFunction(f) + k[m]
  BY SumWithOneMore

-----------------------------------------------------------------------------
(* Packs.                                                                     *)

\* What the constants say of an ordering rule.
LEMMA TermsBounds ==
  /\ \A i \in Item : Par[i] \in Nat
  /\ \A t \in Terms : /\ t.pack \in Nat \ {0} /\ t.minimum \in Nat \ {0}
                      /\ t.target = None \/ t.target \in Nat
  BY PurchasingConstantsOK

LEMMA CeilDivCovers ==
  ASSUME NEW a \in Int, NEW b \in Nat \ {0}
  PROVE  /\ CeilDiv(a, b) \in Int
         /\ a <= CeilDiv(a, b) * b
         /\ (CeilDiv(a, b) - 1) * b < a
  <1> DEFINE x == a + b - 1
             q == x \div b
             r == x % b
  <1>1. x \in Int /\ q \in Int /\ r \in 0..(b - 1) /\ x = b * q + r
    OBVIOUS
  <1> HIDE DEF q, r
  <1>2. ASSUME NEW y \in Int, NEW rest \in 0..(b - 1), x = b * y + rest
        PROVE  a <= y * b /\ (y - 1) * b < a
    <2>1. b * y = y * b /\ (y - 1) * b = y * b - b /\ y * b \in Int
      OBVIOUS
    <2> DEFINE z == y * b
    <2>2. (y - 1) * b = z - b /\ x = z + rest /\ z \in Int
      BY <1>2, <2>1
    <2> HIDE DEF z
    <2>3. a <= z /\ z - b < a
      BY <1>2, <2>2
    <2> QED
      BY <2>2, <2>3 DEF z
  <1>3. q = CeilDiv(a, b)
    BY DEF CeilDiv, q
  <1> QED
    BY <1>1, <1>2, <1>3

\* The packs ordered cover what is missing, and no pack fewer would unless the
\* supplier's minimum asks for it.
THEOREM PacksCover ==
  ASSUME NEW current \in Int, NEW target \in Int, NEW onOrder \in Int, NEW t,
         t.pack \in Nat \ {0}, t.minimum \in Nat \ {0}
  PROVE  LET packs == PacksToOrder(current, target, onOrder, t)
         IN /\ packs \in Nat /\ packs >= t.minimum
            /\ target - current <= onOrder + packs * t.pack
            /\ packs > t.minimum => onOrder + (packs - 1) * t.pack < target - current
  <1> DEFINE need == target - current - onOrder
             q == CeilDiv(need, t.pack)
             packs == PacksToOrder(current, target, onOrder, t)
  <1>1. q \in Int /\ need \in Int /\ need <= q * t.pack /\ (q - 1) * t.pack < need
    <2>1. need \in Int
      OBVIOUS
    <2> HIDE DEF need
    <2> QED
      BY <2>1, CeilDivCovers
  <1>2. packs = AtLeast({q, t.minimum, 1})
    BY DEF PacksToOrder
  <1> HIDE DEF q, packs
  <1>3. /\ packs \in {q, t.minimum, 1}
        /\ packs >= q /\ packs >= t.minimum /\ packs >= 1
    <2>1. \E x \in {q, t.minimum, 1} : \A y \in {q, t.minimum, 1} : x >= y
      BY <1>1
    <2> QED
      BY <1>2, <2>1 DEF AtLeast
  <1>4. packs \in Nat
    BY <1>1, <1>3
  <1>5. q * t.pack <= packs * t.pack
    <2>1. packs - q \in Nat /\ packs = q + (packs - q)
      BY <1>1, <1>3, <1>4
    <2>2. \A d \in Nat : (q + d) * t.pack = q * t.pack + d * t.pack /\ d * t.pack >= 0
      BY <1>1
    <2>3. q * t.pack \in Int /\ (packs - q) * t.pack \in Int
      BY <1>1, <2>1
    <2> QED
      BY <2>1, <2>2, <2>3
  <1>6. packs * t.pack \in Int /\ q * t.pack \in Int /\ (packs - 1) * t.pack \in Int
    BY <1>1, <1>4
  <1>7. packs > t.minimum => packs = q
    BY <1>1, <1>3
  <1>8. target - current <= onOrder + packs * t.pack
    <2> DEFINE z == packs * t.pack
    <2>1. need <= z /\ z \in Int
      BY <1>1, <1>5, <1>6
    <2> HIDE DEF z
    <2>2. target - current <= onOrder + z
      BY <2>1
    <2> QED
      BY <2>2 DEF z
  <1>9. packs > t.minimum => onOrder + (packs - 1) * t.pack < target - current
    <2> DEFINE z == (packs - 1) * t.pack
    <2>1. packs > t.minimum => z < need
      BY <1>1, <1>7
    <2>2. z \in Int
      BY <1>6
    <2> HIDE DEF z
    <2>3. packs > t.minimum => onOrder + z < target - current
      BY <2>1, <2>2
    <2> QED
      BY <2>3 DEF z
  <1> QED
    BY <1>3, <1>4, <1>8, <1>9 DEF packs

-----------------------------------------------------------------------------
\* A vendor's order, whose lines bring whole units.
OrderTypes(os) ==
  \A n \in Number : os[n].status \in {"draft", "approved"} =>
    /\ os[n].vendor \in Vendor
    /\ \A i \in DOMAIN os[n].lines :
         i \in Item /\ os[n].lines[i].packs \in Int /\ os[n].lines[i].pack \in Int

Brings(os, i) == [n \in Counted(os, i) |-> os[n].lines[i].packs * os[n].lines[i].pack]

LEMMA CountedIsFinite ==
  ASSUME NEW os, NEW i
  PROVE  IsFiniteSet(Counted(os, i)) /\ Counted(os, i) \subseteq Number
  <1>1. IsFiniteSet(Number)
    BY Bounds, FS_Interval DEF Number
  <1> QED
    BY <1>1, FS_Subset DEF Counted, InStatus

LEMMA BringsUnits ==
  ASSUME NEW os, NEW i, OrderTypes(os)
  PROVE  /\ DOMAIN Brings(os, i) = Counted(os, i)
         /\ \A n \in Counted(os, i) : Brings(os, i)[n] \in Int
         /\ OnOrder(os, i) = SumFunction(Brings(os, i))
         /\ OnOrder(os, i) \in Int
  <1>1. \A n \in Counted(os, i) : Brings(os, i)[n] \in Int
    BY DEF Brings, OrderTypes, Counted, InStatus
  <1>2. OnOrder(os, i) = SumFunction(Brings(os, i)) /\ DOMAIN Brings(os, i) = Counted(os, i)
    BY DEF OnOrder, Brings
  <1>3. SumFunction(Brings(os, i)) \in Int
    BY <1>1, <1>2, CountedIsFinite, SumIsInt
  <1> QED
    BY <1>1, <1>2, <1>3

\* The one order of S that is approved with a line of i.
LEMMA ApprovedAdds ==
  ASSUME NEW f, NEW g, OrderTypes(f), NEW n \in Number, f[n].status # "approved",
         g[n].status = "approved", NEW i, i \in DOMAIN g[n].lines,
         g[n].lines[i].packs \in Int, g[n].lines[i].pack \in Int,
         \A p \in Number \ {n} : /\ p \in Counted(f, i) <=> p \in Counted(g, i)
                                 /\ p \in Counted(f, i) => f[p].lines = g[p].lines
  PROVE  OnOrder(g, i) = OnOrder(f, i) + g[n].lines[i].packs * g[n].lines[i].pack
  <1> DEFINE units == g[n].lines[i].packs * g[n].lines[i].pack
  <1>1. /\ DOMAIN Brings(f, i) = Counted(f, i) /\ IsFiniteSet(Counted(f, i))
        /\ \A p \in Counted(f, i) : Brings(f, i)[p] \in Int
        /\ OnOrder(f, i) = SumFunction(Brings(f, i))
    BY BringsUnits, CountedIsFinite
  <1>2. OnOrder(g, i) = SumFunction(Brings(g, i)) /\ DOMAIN Brings(g, i) = Counted(g, i)
    BY DEF OnOrder, Brings
  <1>3. n \notin Counted(f, i) /\ n \in Counted(g, i)
    BY DEF Counted, InStatus
  <1>4. Counted(g, i) = Counted(f, i) \cup {n}
    <2>1. Counted(f, i) \subseteq Number /\ Counted(g, i) \subseteq Number
      BY CountedIsFinite
    <2> QED
      BY <1>3, <2>1
  <1>5. Brings(g, i)[n] = units /\ units \in Int
    BY <1>3 DEF Brings
  <1>6. \A p \in Counted(f, i) : Brings(g, i)[p] = Brings(f, i)[p]
    <2>1. ASSUME NEW p \in Counted(f, i)
          PROVE  f[p].lines = g[p].lines /\ p \in Counted(g, i)
      BY <1>3, <1>4, CountedIsFinite
    <2> QED
      BY <2>1 DEF Brings
  <1> HIDE DEF units
  <1>7. ASSUME NEW F, F = Brings(f, i), NEW G, G = Brings(g, i)
        PROVE  SumFunction(G) = SumFunction(F) + G[n]
    <2>1. /\ IsFiniteSet(DOMAIN F) /\ \A p \in DOMAIN F : F[p] \in Int
          /\ n \notin DOMAIN F /\ DOMAIN G = DOMAIN F \cup {n} /\ G[n] \in Int
          /\ \A p \in DOMAIN F : G[p] = F[p]
      BY <1>1, <1>2, <1>3, <1>4, <1>5, <1>6, <1>7
    <2> QED
      BY <2>1, SumAddsOne
  <1> QED
    BY <1>1, <1>2, <1>5, <1>7 DEF units

-----------------------------------------------------------------------------
\* Two snapshots with the same stock and catalogue.
Alike(s, t) ==
  t.balance = s.balance /\ t.rule = s.rule /\ t.vendor = s.vendor /\ t.policy = s.policy

TypedSnapshot(s) ==
  /\ s.balance \in [Item -> Int]
  /\ s.rule \in [Item -> [Vendor -> RuleRows \cup {None}]]
  /\ OrderTypes(s.orders)

LEMMA AlikeExamined ==
  ASSUME NEW s, NEW t, Alike(s, t)
  PROVE  /\ Examined(t) = Examined(s) /\ Examined(s) \subseteq Item
         /\ \A v, i : Supplies(t, v, i) <=> Supplies(s, v, i)
  BY DEF Alike, Examined, BelowPar, Supplies

\* Where nothing more of what a vendor supplies is on order, the same is asked for.
LEMMA AskedSame ==
  ASSUME NEW s, NEW t, Alike(s, t), NEW v \in Vendor,
         \A i \in Item : Supplies(s, v, i) => OnOrder(t.orders, i) = OnOrder(s.orders, i)
  PROVE  LinesFor(t, v, Examined(t)) = LinesFor(s, v, Examined(s))
  <1>1. /\ Examined(t) = Examined(s) /\ Examined(s) \subseteq Item
        /\ \A i : Supplies(t, v, i) <=> Supplies(s, v, i)
    BY AlikeExamined
  <1> DEFINE A(x) == {j \in Examined(s) : Supplies(x, v, j) /\ Short(x, j, x.rule[j][v].terms)}
  <1>2. ASSUME NEW i \in Item, Supplies(s, v, i)
        PROVE  /\ Short(t, i, t.rule[i][v].terms) <=> Short(s, i, s.rule[i][v].terms)
               /\ NewLine(t, v, i) = NewLine(s, v, i)
    BY <1>2 DEF Short, NewLine, Alike
  <1>3. A(t) = A(s) /\ \A i \in A(s) : NewLine(t, v, i) = NewLine(s, v, i)
    BY <1>1, <1>2
  <1>4. /\ LinesFor(t, v, Examined(t)) = [i \in A(t) |-> NewLine(t, v, i)]
        /\ LinesFor(s, v, Examined(s)) = [i \in A(s) |-> NewLine(s, v, i)]
    BY <1>1 DEF LinesFor
  <1> HIDE DEF A
  <1> QED
    BY <1>3, <1>4

\* What a line asks for.
LEMMA LineCovers ==
  ASSUME NEW s, TypedSnapshot(s), NEW v \in Vendor, NEW i \in Item, Supplies(s, v, i)
  PROVE  LET t == s.rule[i][v].terms
             line == NewLine(s, v, i)
         IN /\ line.packs \in Int /\ line.pack \in Int
            /\ s.balance[i] \in Int /\ Target(i, t) \in Int /\ OnOrder(s.orders, i) \in Int
            /\ Target(i, t) - s.balance[i] <= OnOrder(s.orders, i) + line.packs * line.pack
  <1> DEFINE t == s.rule[i][v].terms
             line == NewLine(s, v, i)
  <1>1. t \in Terms
    <2>1. s.rule[i][v] \in RuleRows
      BY DEF TypedSnapshot, Supplies
    <2> QED
      BY <2>1 DEF RuleRows
  <1>2. s.balance[i] \in Int /\ OnOrder(s.orders, i) \in Int
    BY BringsUnits DEF TypedSnapshot
  <1>3. t.pack \in Nat \ {0} /\ t.minimum \in Nat \ {0} /\ (t.target = None \/ t.target \in Nat)
        /\ Par[i] \in Nat
    BY <1>1, TermsBounds
  <1>4. line.packs = PacksToOrder(s.balance[i], Target(i, t), OnOrder(s.orders, i), t)
        /\ line.pack = t.pack
    BY DEF NewLine
  <1> HIDE DEF t, line
  <1>5. Target(i, t) \in Int
    <2>1. \A x \in Nat, y \in Nat : AtLeast({x, y}) \in Nat
      <3>1. ASSUME NEW x \in Nat, NEW y \in Nat
            PROVE  AtLeast({x, y}) \in Nat
        <4>1. \E z \in {x, y} : \A w \in {x, y} : z >= w
          OBVIOUS
        <4> QED
          BY <4>1 DEF AtLeast
      <3> QED
        BY <3>1
    <2> QED
      BY <1>3, <2>1 DEF Target
  <1>6. /\ line.packs \in Nat
        /\ Target(i, t) - s.balance[i] <= OnOrder(s.orders, i) + line.packs * t.pack
    BY <1>2, <1>3, <1>4, <1>5, PacksCover
  <1> QED
    BY <1>2, <1>3, <1>4, <1>5, <1>6 DEF t, line

\* Once what a vendor was asked for is on order, nothing more is.
LEMMA CoveredByLines ==
  ASSUME NEW s, NEW t, Alike(s, t), TypedSnapshot(s), NEW v \in Vendor,
         NEW L, L = LinesFor(s, v, Examined(s)),
         \A i \in Item : Supplies(s, v, i) =>
           OnOrder(t.orders, i) = IF i \in DOMAIN L
                                  THEN OnOrder(s.orders, i) + L[i].packs * L[i].pack
                                  ELSE OnOrder(s.orders, i)
  PROVE  DOMAIN LinesFor(t, v, Examined(t)) = {}
  <1>1. /\ Examined(t) = Examined(s) /\ Examined(s) \subseteq Item
        /\ \A i : Supplies(t, v, i) <=> Supplies(s, v, i)
    BY AlikeExamined
  <1>2. ASSUME NEW i \in Examined(s), Supplies(s, v, i)
        PROVE  ~Short(t, i, t.rule[i][v].terms)
    <2> DEFINE terms == s.rule[i][v].terms
               line == NewLine(s, v, i)
               was == OnOrder(s.orders, i)
               target == Target(i, terms)
    <2>1. i \in Item
      BY <1>1, <1>2
    <2>2. /\ s.balance[i] \in Int /\ target \in Int /\ was \in Int
          /\ line.packs \in Int /\ line.pack \in Int
          /\ target - s.balance[i] <= was + line.packs * line.pack
      BY <1>2, <2>1, LineCovers
    <2>3. i \in DOMAIN L <=> Short(s, i, terms)
      BY <1>2 DEF LinesFor
    <2>4. i \in DOMAIN L => L[i] = line
      BY DEF LinesFor
    <2>5. Short(t, i, terms) <=> target - s.balance[i] - OnOrder(t.orders, i) > 0
      BY DEF Short, Alike
    <2>6. Short(s, i, terms) <=> target - s.balance[i] - was > 0
      BY DEF Short
    <2>7. t.rule[i][v].terms = terms
      BY DEF Alike
    <2> DEFINE units == line.packs * line.pack
    <2>8. units \in Int /\ target - s.balance[i] <= was + units
      BY <2>2
    <2>9. OnOrder(t.orders, i) = IF i \in DOMAIN L THEN was + units ELSE was
      BY <1>2, <2>1, <2>4
    <2> HIDE DEF units, was, target, terms, line
    <2>10. ~Short(t, i, terms)
      BY <2>2, <2>3, <2>5, <2>6, <2>8, <2>9
    <2> QED
      BY <2>7, <2>10
  <1>3. DOMAIN LinesFor(t, v, Examined(t))
          = {j \in Examined(t) : Supplies(t, v, j) /\ Short(t, j, t.rule[j][v].terms)}
    BY DEF LinesFor
  <1> QED
    BY <1>1, <1>2, <1>3

-----------------------------------------------------------------------------
(* What a commit leaves on order, and as drafts.                              *)

\* v is asked for what its shortages call for, was asked for it and rejected it,
\* or is asked for nothing and needs nothing.
Settled(v) ==
  LET lines == LinesFor(Snapshot, v, Examined(Snapshot))
      mine == DraftsOf(orders, v)
      r == LastRejected(orders, v)
  IN IF DOMAIN lines = {} THEN mine = {}
     ELSE \/ \E n \in mine :
               /\ orders[n].lines = lines
               /\ orders[n].reason =
                    ApprovalReason(PolicyIn(Snapshot), Subtotal(lines), vendor[v].contact)
          \/ mine = {} /\ r # None /\ orders[r].lines = lines

\* DraftsMatchStock, for the items a check examines.
DraftsMatchExamined == checked = revision => \A v \in Vendor : Settled(v)

\* A vendor's draft is the last of its orders.
Newest ==
  \A n, p \in Number :
    /\ orders[n].status = "draft"
    /\ orders[p].status # "none"
    /\ orders[p].vendor = orders[n].vendor
    => p <= n

\* A check read the stock and the catalogue as they are, or as they were at an
\* earlier revision; the checkpoint is a revision some check has read.
Reads ==
  /\ checked \in Int /\ checked <= revision
  /\ \A m \in Monitor : check[m] # None =>
       LET s == check[m].s IN
       /\ s.revision \in Int /\ s.revision <= revision
       /\ s.balance \in [Item -> Int]
       /\ s.rule \in [Item -> [Vendor -> RuleRows \cup {None}]]
       /\ s.revision = revision => Alike(Snapshot, s)

MatchInv == OrderTypes(orders) /\ Newest /\ Reads /\ DraftsMatchExamined

\* The order that makes what v was asked for good: its lines are what was asked.
LEMMA ApprovedCovers ==
  ASSUME DraftsInv, OrderTypes(orders), TypedSnapshot(Snapshot), Alike(Snapshot, Snapshot'),
         NEW v \in Vendor, NEW n \in Number,
         orders[n].status # "approved", orders'[n].status = "approved",
         orders'[n].lines = LinesFor(Snapshot, v, Examined(Snapshot)),
         \A p \in Number \ {n} : \A i \in Item : Supplies(Snapshot, v, i) =>
           /\ p \in Counted(orders, i) <=> p \in Counted(orders', i)
           /\ p \in Counted(orders, i) => orders[p].lines = orders'[p].lines
  PROVE  DOMAIN LinesFor(Snapshot, v, Examined(Snapshot))' = {}
  <1> DEFINE s == Snapshot
             t == Snapshot'
             L == LinesFor(s, v, Examined(s))
  <1>1. s.orders = orders /\ t.orders = orders'
    BY DEF Snapshot
  <1>2. ASSUME NEW i \in Item, Supplies(s, v, i)
        PROVE  OnOrder(t.orders, i) = IF i \in DOMAIN L
                                      THEN OnOrder(s.orders, i) + L[i].packs * L[i].pack
                                      ELSE OnOrder(s.orders, i)
    <2>1. CASE i \in DOMAIN L
      <3>1. L[i] = NewLine(s, v, i)
        BY <2>1 DEF LinesFor
      <3>2. L[i].packs \in Int /\ L[i].pack \in Int
        BY <1>2, <3>1, LineCovers
      <3>3. i \in DOMAIN orders'[n].lines /\ orders'[n].lines[i] = L[i]
        BY <2>1
      <3> HIDE DEF L
      <3>4. OnOrder(orders', i) = OnOrder(orders, i) + orders'[n].lines[i].packs * orders'[n].lines[i].pack
        BY <1>2, <3>2, <3>3, ApprovedAdds
      <3> QED
        BY <1>1, <2>1, <3>3, <3>4
    <2>2. CASE i \notin DOMAIN L
      <3>1. n \notin Counted(orders', i) /\ n \notin Counted(orders, i)
        BY <2>2 DEF Counted, InStatus
      <3>2. \A p \in Number : /\ p \in Counted(orders, i) <=> p \in Counted(orders', i)
                              /\ p \in Counted(orders, i) => orders[p].lines = orders'[p].lines
        BY <1>2, <3>1
      <3>3. OnOrder(orders', i) = OnOrder(orders, i)
        BY <3>2, CountedIsFinite, OnOrderSame
      <3> QED
        BY <1>1, <2>2, <3>3
    <2> QED
      BY <2>1, <2>2
  <1> HIDE DEF s, t, L
  <1>3. DOMAIN LinesFor(t, v, Examined(t)) = {}
    BY <1>2, CoveredByLines DEF s, t, L
  <1> QED
    BY <1>3 DEF t

\* An item has one preferred supplier.
LEMMA OneSupplies ==
  ASSUME RulesInv, NEW v \in Vendor, NEW w \in Vendor, NEW i \in Item,
         Supplies(Snapshot, v, i), Supplies(Snapshot, w, i)
  PROVE  v = w
  BY DEF RulesInv, OnePreferred, Supplies, Snapshot

LEMMA LinesAreSupplied ==
  ASSUME NEW s, NEW v \in Vendor
  PROVE  DOMAIN LinesFor(s, v, Examined(s)) \subseteq {i \in Item : Supplies(s, v, i)}
  BY DEF LinesFor, Examined, BelowPar

LEMMA SnapshotIsTyped ==
  ASSUME CatalogueOK, LedgerTypeOK, OrderTypes(orders)
  PROVE  TypedSnapshot(Snapshot)
  BY DEF CatalogueOK, LedgerTypeOK, TypedSnapshot, Snapshot

\* What a check takes, it writes.
LEMMA TakesIsWritten ==
  ASSUME DraftsInv, NEW m \in Monitor, CheckCommit(m), NEW v, NEW n, Takes(check[m], n, v)
  PROVE  n \in Number /\ Written(check[m], n, v, orders'[n])
  <1> DEFINE c == check[m]
             old == InStatus(c.s.orders, "draft")
             s == c.s.orders[n]
             number == [u \in Fresh(c) |-> NumberFor(c, u)]
             w == CHOOSE u \in Fresh(c) : n = number[u]
  <1>1. c # None /\ c.phase = "locked" /\ orders' = AfterCheck(c)
    BY DEF CheckCommit, CheckAt
  <1>2. n \in Number =>
          orders'[n] = IF n \in old
                       THEN IF s.vendor \in Groups(c) THEN Revised(c, s) ELSE Withdrawn(c, s)
                       ELSE IF \E u \in Fresh(c) : n = number[u] THEN Prepared(c, w, 1) ELSE orders[n]
    BY <1>1 DEF AfterCheck
  <1>3. CASE n \in DraftsOf(c.s.orders, v)
    <2>1. n \in old /\ s.vendor = v /\ v \in Groups(c) /\ n \in Number
      BY <1>3 DEF DraftsOf, InStatus, Takes
    <2>2. Written(c, n, v, Revised(c, s))
      BY <1>3, <2>1 DEF Written, BaseVersion, Revised, Prepared
    <2> QED
      BY <1>2, <2>1, <2>2
  <1>4. CASE v \in Fresh(c) /\ n = NumberFor(c, v) /\ n \notin DraftsOf(c.s.orders, v)
    <2>1. n \in Number \ Drafted
      BY <1>4, CommitWrites DEF DraftsInv
    <2>2. n \notin old
      BY <1>1, <2>1 DEF DraftsInv, Current, InStatus, Drafted
    <2>3. w \in Fresh(c) /\ n = NumberFor(c, w)
      BY <1>4
    <2>4. w = v
      BY <1>4, <2>3, CommitWrites DEF DraftsInv
    <2>5. orders'[n] = Prepared(c, v, 1)
      BY <1>2, <1>4, <2>1, <2>2, <2>4
    <2>6. Written(c, n, v, Prepared(c, v, 1))
      BY <1>4 DEF Written, BaseVersion, Prepared
    <2> QED
      BY <2>1, <2>5, <2>6
  <1> QED
    BY <1>3, <1>4 DEF Takes

LEMMA CommitSettles ==
  ASSUME DraftsInv, Reads, OrderTypes(orders), CatalogueOK, LedgerTypeOK, DecidedKept,
         NEW m \in Monitor, CheckCommit(m), check[m].s.revision = revision, NEW v \in Vendor
  PROVE  Settled(v)'
  <1> DEFINE c == check[m]
             s == Snapshot
             t == Snapshot'
             L == LinesFor(s, v, Examined(s))
             Step(n, w) == Takes(c, n, w) /\ Written(c, n, w, orders'[n])
  <1>1. /\ c # None /\ c.phase = "locked"
        /\ UNCHANGED <<balance, rule, vendor, policy>>
    BY DEF CheckCommit, CheckAt, ledger, catalogue
  <1>2. /\ s.orders = orders /\ t.orders = orders' /\ Alike(s, t) /\ Alike(s, c.s)
        /\ TypedSnapshot(s) /\ PolicyIn(c.s) = PolicyIn(t) /\ c.s.vendor = vendor'
    <2>1. Alike(s, c.s)
      BY <1>1 DEF Reads
    <2>2. TypedSnapshot(s)
      BY SnapshotIsTyped
    <2> QED
      BY <1>1, <2>1, <2>2 DEF Alike, Snapshot, PolicyIn
  <1>3. \A n \in Number : orders[n] = c.s.orders[n]
    BY <1>1 DEF DraftsInv, Current
  <1>4. \A w \in Vendor : c.lines[w] = LinesFor(s, w, Examined(s))
    <2>1. ASSUME NEW w \in Vendor
          PROVE  c.lines[w] = LinesFor(s, w, Examined(s))
      <3>1. c.lines[w] = LinesFor(c.s, w, Examined(c.s))
        BY <1>1 DEF DraftsInv, Current, Asked
      <3>2. ASSUME NEW i \in Item
            PROVE  OnOrder(c.s.orders, i) = OnOrder(s.orders, i)
        BY <1>2, <1>3, CountedIsFinite, OnOrderSame DEF Counted, InStatus
      <3>3. LinesFor(c.s, w, Examined(c.s)) = LinesFor(s, w, Examined(s))
        BY <1>2, <3>2, AskedSame
      <3> QED
        BY <3>1, <3>3
    <2> QED
      BY <2>1
  <1>5. ASSUME NEW n \in Number
        PROVE  \/ \E w \in Groups(c) : Step(n, w)
               \/ /\ orders[n].status = "draft" /\ orders'[n].status = "withdrawn"
               \/ orders'[n] = orders[n] /\ orders[n].status # "draft"
    <2>1. orders[n].status = "draft" => Row(orders[n])
      BY DEF DraftsInv, OrdersInv, OrderRows, Drafted
    <2> QED
      BY <2>1, CommitByOrder, WithdrawnRow
  <1>6. ASSUME NEW n \in Number, NEW w \in Groups(c), Step(n, w)
        PROVE  /\ orders[n].status \notin {"approved", "rejected"} /\ w \in Vendor
               /\ orders'[n].vendor = w /\ orders'[n].lines = LinesFor(s, w, Examined(s))
               /\ orders'[n].status \in {"draft", "approved"}
               /\ orders'[n].reason = ApprovalReason(PolicyIn(t),
                                        Subtotal(LinesFor(s, w, Examined(s))), vendor'[w].contact)
    <2>1. w \in Vendor
      BY DEF Groups
    <2>2. orders[n].status \in {"draft", "none"}
      <3>1. CASE n \in DraftsOf(c.s.orders, w)
        BY <1>3, <3>1 DEF DraftsOf, InStatus
      <3>2. CASE n \notin DraftsOf(c.s.orders, w)
        <4>1. n \notin Drafted
          BY <1>6, <3>2, CommitWrites DEF DraftsInv, Takes
        <4> QED
          BY <4>1 DEF Drafted
      <3> QED
        BY <3>1, <3>2
    <2> QED
      BY <1>2, <1>4, <1>6, <2>1, <2>2 DEF Written
  <1>7. ASSUME NEW n \in Number, NEW w \in Groups(c), Step(n, w),
               NEW p \in Number, NEW x \in Groups(c), Step(p, x), w = x
        PROVE  n = p
    BY <1>7, TakenApart
  <1>8. ASSUME NEW n \in Number, orders'[n].status = "draft"
        PROVE  \E w \in Groups(c) : Step(n, w)
    BY <1>5, <1>8
  <1>9. ASSUME NEW i \in Item, Supplies(s, v, i), NEW p \in Number,
               ~\E w \in Groups(c) : w = v /\ Step(p, w)
        PROVE  /\ p \in Counted(orders, i) <=> p \in Counted(orders', i)
               /\ p \in Counted(orders, i) => orders[p].lines = orders'[p].lines
    <2>1. CASE orders[p].status = "approved"
      BY <2>1 DEF Counted, InStatus, DecidedKept
    <2>2. CASE orders[p].status # "approved"
      <3>1. ASSUME orders'[p].status = "approved", i \in DOMAIN orders'[p].lines
            PROVE  FALSE
        <4>1. PICK w \in Groups(c) : Step(p, w)
          BY <1>5, <2>2, <3>1
        <4>2. w \in Vendor /\ i \in DOMAIN LinesFor(s, w, Examined(s))
          BY <1>6, <3>1, <4>1
        <4>3. Supplies(s, w, i)
          BY <4>2, LinesAreSupplied
        <4>4. w = v
          BY <1>9, <4>2, <4>3, OneSupplies DEF DraftsInv
        <4> QED
          BY <1>9, <4>1, <4>4
      <3> QED
        BY <2>2, <3>1 DEF Counted, InStatus
    <2> QED
      BY <2>1, <2>2
  <1> DEFINE M == DraftsOf(orders', v)
             K == LinesFor(t, v, Examined(t))
             r == LastRejected(orders', v)
  <1>10. Settled(v)' <=>
           IF DOMAIN K = {} THEN M = {}
           ELSE \/ \E n \in M : /\ orders'[n].lines = K
                                /\ orders'[n].reason =
                                     ApprovalReason(PolicyIn(t), Subtotal(K), vendor'[v].contact)
                \/ M = {} /\ r # None /\ orders'[r].lines = K
    BY DEF Settled
  <1>11. \A n \in Number : n \in M <=> orders'[n].status = "draft" /\ orders'[n].vendor = v
    BY DEF DraftsOf, InStatus
  <1>12. M \subseteq Number
    BY DEF DraftsOf, InStatus
  <1>13. ASSUME NEW n \in M
         PROVE  v \in Groups(c) /\ Step(n, v)
    <2>1. n \in Number /\ orders'[n].status = "draft" /\ orders'[n].vendor = v
      BY <1>11, <1>12
    <2>2. PICK w \in Groups(c) : Step(n, w)
      BY <1>8, <2>1
    <2>3. w = v
      BY <1>6, <2>1, <2>2
    <2> QED
      BY <2>2, <2>3
  <1>14. ASSUME \A n \in Number, w \in Groups(c) : w = v /\ Step(n, w) => orders'[n].status # "approved"
         PROVE  K = L
    <2>1. ASSUME NEW i \in Item, Supplies(s, v, i)
          PROVE  OnOrder(t.orders, i) = OnOrder(s.orders, i)
      <3>1. ASSUME NEW p \in Number
            PROVE  /\ p \in Counted(orders, i) <=> p \in Counted(orders', i)
                   /\ p \in Counted(orders, i) => orders[p].lines = orders'[p].lines
        <4>1. CASE \E w \in Groups(c) : w = v /\ Step(p, w)
          BY <1>6, <1>14, <4>1 DEF Counted, InStatus
        <4>2. CASE ~\E w \in Groups(c) : w = v /\ Step(p, w)
          BY <1>9, <2>1, <4>2
        <4> QED
          BY <4>1, <4>2
      <3> QED
        BY <1>2, <3>1, CountedIsFinite, OnOrderSame
    <2> QED
      BY <1>2, <2>1, AskedSame
  <1> HIDE DEF c, s, t, M, K, r
  <1>15. CASE v \notin Groups(c)
    <2>1. M = {}
      BY <1>13, <1>15
    <2>2. K = L
      BY <1>14, <1>15
    <2>3. DOMAIN L = {}
      BY <1>4, <1>15 DEF Groups
    <2> QED
      BY <1>10, <2>1, <2>2, <2>3
  <1>16. ASSUME v \in Groups(c), NEW n \in Number, Step(n, v)
         PROVE  Settled(v)'
    <2>1. DOMAIN L # {}
      BY <1>4, <1>16 DEF Groups
    <2>2. CASE orders'[n].status = "draft"
      <3>1. K = L
        BY <1>7, <1>14, <1>16, <2>2
      <3>2. n \in M
        BY <1>6, <1>11, <1>16, <2>2
      <3> QED
        BY <1>6, <1>10, <1>16, <2>1, <3>1, <3>2
    <2>3. CASE orders'[n].status # "draft"
      <3>1. orders'[n].status = "approved" /\ orders[n].status # "approved" /\ orders'[n].lines = L
        BY <1>6, <1>16, <2>3
      <3>2. M = {}
        BY <1>7, <1>11, <1>12, <1>13, <1>16, <2>3
      <3>3. \A p \in Number \ {n} : ~\E w \in Groups(c) : w = v /\ Step(p, w)
        BY <1>7, <1>16
      <3>4. DOMAIN K = {}
        BY <1>2, <1>9, <3>1, <3>3, ApprovedCovers DEF s, t, K
      <3> QED
        BY <1>10, <3>2, <3>4
    <2> QED
      BY <2>2, <2>3
  <1>17. ASSUME v \in Groups(c), \A n \in Number : ~Step(n, v)
         PROVE  Settled(v)'
    <2>1. M = {} /\ K = L /\ DOMAIN L # {}
      <3>1. M = {}
        BY <1>12, <1>13, <1>17
      <3>2. K = L
        BY <1>14, <1>17
      <3> QED
        BY <1>4, <1>17, <3>1, <3>2 DEF Groups
    <2>2. /\ DraftsOf(c.s.orders, v) = {} /\ v \notin Fresh(c)
      <3>1. ASSUME NEW n, Takes(c, n, v)
            PROVE  FALSE
        BY <1>17, <3>1, TakesIsWritten DEF c
      <3> QED
        BY <1>17, <3>1 DEF Takes
    <2>3. Held(c, v)
      BY <1>17, <2>2 DEF Fresh
    <2> DEFINE h == LastRejected(c.s.orders, v)
    <2>4. h # None /\ c.s.orders[h].lines = L
      <3>1. c.lines[v] = L
        BY <1>4
      <3> QED
        BY <2>3, <3>1 DEF Held
    <2>5. ASSUME NEW p \in Number
          PROVE  (c.s.orders[p].status = "rejected" /\ c.s.orders[p].vendor = v)
                    <=> (orders'[p].status = "rejected" /\ orders'[p].vendor = v)
      <3>1. orders'[p].status = "rejected" => orders'[p] = orders[p]
        BY <1>5, <1>6
      <3> QED
        BY <1>3, <3>1 DEF DecidedKept
    <2>6. h = r /\ h \in InStatus(c.s.orders, "rejected")
      BY <2>4, <2>5, LastRejectedSame DEF r
    <2>7. h \in Number /\ orders'[h] = c.s.orders[h]
      BY <1>3, <2>6 DEF InStatus, DecidedKept
    <2> HIDE DEF h
    <2> QED
      BY <1>10, <2>1, <2>4, <2>6, <2>7
  <1> QED
    BY <1>15, <1>16, <1>17

\* A decision takes the vendor's draft away: what it approved is on order, and
\* what it rejected is the vendor's last rejected order.
LEMMA DecisionSettles ==
  ASSUME DraftsInv, Newest, OrderTypes(orders), CatalogueOK, LedgerTypeOK,
         UNCHANGED <<balance, rule, vendor, policy>>,
         NEW n \in InStatus(orders, "draft"), NEW st \in {"approved", "rejected"}, NEW kind,
         Writes(n, st, kind), NEW v \in Vendor, Settled(v), orders[n].vendor \in Vendor,
         Settled(orders[n].vendor)
  PROVE  Settled(v)'
  <1> DEFINE s == Snapshot
             t == Snapshot'
             u == orders[n].vendor
             A(x) == LinesFor(s, x, Examined(s))
  <1>1. n \in Number /\ orders[n].status = "draft" /\ Row(orders[n]) /\ DOMAIN orders = Number
    BY DEF InStatus, DraftsInv, OrdersInv, OrderRows, Drafted
  <1>2. /\ \A o \in Number \ {n} : orders'[o] = orders[o]
        /\ orders'[n].status = st /\ orders'[n].lines = orders[n].lines /\ orders'[n].vendor = u
    BY <1>1 DEF Writes, Decided, Row
  <1>3. /\ s.orders = orders /\ t.orders = orders' /\ Alike(s, t) /\ TypedSnapshot(s)
        /\ PolicyIn(t) = PolicyIn(s)
    BY SnapshotIsTyped DEF Alike, Snapshot, PolicyIn
  <1>4. /\ orders[n].lines = A(u) /\ DOMAIN A(u) # {}
        /\ \A p \in DraftsOf(orders, u) : p = n
    <2>1. n \in DraftsOf(orders, u)
      BY <1>1 DEF DraftsOf, InStatus
    <2>2. \A p \in DraftsOf(orders, u) : p = n
      BY <1>1 DEF DraftsOf, InStatus, DraftsInv, OneDraft
    <2> QED
      BY <2>1, <2>2 DEF Settled
  <1> DEFINE M == DraftsOf(orders', v)
             K == LinesFor(t, v, Examined(t))
             r == LastRejected(orders', v)
  <1>5. Settled(v)' <=>
           IF DOMAIN K = {} THEN M = {}
           ELSE \/ \E p \in M : /\ orders'[p].lines = K
                                /\ orders'[p].reason =
                                     ApprovalReason(PolicyIn(t), Subtotal(K), vendor'[v].contact)
                \/ M = {} /\ r # None /\ orders'[r].lines = K
    BY DEF Settled
  <1>6. v = u => M = {}
    <2>1. ASSUME NEW p \in Number, orders'[p].status = "draft", orders'[p].vendor = u
          PROVE  FALSE
      <3>1. p # n
        BY <1>2, <2>1
      <3>2. p \in DraftsOf(orders, u)
        BY <1>2, <2>1, <3>1 DEF DraftsOf, InStatus
      <3> QED
        BY <1>4, <3>1, <3>2
    <2> QED
      BY <2>1 DEF DraftsOf, InStatus
  <1>7. ASSUME NEW i \in Item, Supplies(s, v, i), v # u \/ st = "rejected", NEW p \in Number
        PROVE  /\ p \in Counted(orders, i) <=> p \in Counted(orders', i)
               /\ p \in Counted(orders, i) => orders[p].lines = orders'[p].lines
    <2>1. CASE p # n
      BY <1>2, <2>1 DEF Counted, InStatus
    <2>2. CASE p = n /\ st = "rejected"
      BY <1>1, <1>2, <2>2 DEF Counted, InStatus
    <2>3. CASE p = n /\ v # u
      <3>1. i \in DOMAIN orders[n].lines => Supplies(s, u, i)
        BY <1>4, LinesAreSupplied
      <3>2. i \notin DOMAIN orders[n].lines
        BY <1>7, <2>3, <3>1, OneSupplies DEF DraftsInv
      <3> QED
        BY <1>1, <1>2, <2>3, <3>2 DEF Counted, InStatus
    <2> QED
      BY <1>7, <2>1, <2>2, <2>3
  <1>8. v # u \/ st = "rejected" => K = A(v)
    <2>1. ASSUME NEW i \in Item, Supplies(s, v, i), v # u \/ st = "rejected"
          PROVE  OnOrder(t.orders, i) = OnOrder(s.orders, i)
      BY <1>3, <1>7, <2>1, CountedIsFinite, OnOrderSame
    <2> QED
      BY <1>3, <2>1, AskedSame
  <1>9. CASE v = u /\ st = "approved"
    <2>1. \A p \in Number \ {n} : \A i \in Item : Supplies(s, v, i) =>
            /\ p \in Counted(orders, i) <=> p \in Counted(orders', i)
            /\ p \in Counted(orders, i) => orders[p].lines = orders'[p].lines
      BY <1>2 DEF Counted, InStatus
    <2>2. /\ orders[n].status # "approved" /\ orders'[n].status = "approved"
          /\ orders'[n].lines = A(v)
      BY <1>1, <1>2, <1>4, <1>9
    <2> HIDE DEF u
    <2>3. DOMAIN K = {}
      BY <1>1, <1>3, <2>1, <2>2, ApprovedCovers
    <2> QED
      BY <1>5, <1>6, <1>9, <2>3
  <1>10. CASE v = u /\ st = "rejected"
    <2> DEFINE R == {p \in InStatus(orders', "rejected") : orders'[p].vendor = v}
    <2>1. n \in R /\ R \subseteq Number
      BY <1>1, <1>2, <1>10 DEF InStatus
    <2>2. r = AtLeast(R) /\ AtLeast(R) \in R
      BY <2>1, LatestIsOne DEF LastRejected
    <2>3. \A p \in R : p <= n
      <3>1. ASSUME NEW p \in R, p # n
            PROVE  p \in Number /\ orders[p].status # "none" /\ orders[p].vendor = u
        BY <1>2, <1>10, <3>1 DEF InStatus
      <3>2. n <= n
        BY <1>1, Bounds DEF Number
      <3> QED
        BY <1>1, <3>1, <3>2 DEF Newest
    <2>4. AtLeast(R) = n
      <3>1. \E x \in R : \A y \in R : x >= y
        BY <2>1, <2>3
      <3>2. AtLeast(R) >= n
        BY <2>1, <3>1 DEF AtLeast
      <3>3. AtLeast(R) \in Nat /\ n \in Nat
        BY <1>1, <2>1, <2>2, Bounds DEF Number
      <3>4. AtLeast(R) <= n
        BY <2>2, <2>3
      <3> QED
        BY <3>2, <3>3, <3>4
    <2>5. r = n /\ n # None
      <3>1. n \in Int /\ None \notin Int
        BY <1>1, Bounds, LedgerConstantsOK DEF Number
      <3> QED
        BY <2>2, <2>4, <3>1
    <2>6. orders'[n].lines = K /\ DOMAIN K # {}
      BY <1>2, <1>4, <1>8, <1>10
    <2> HIDE DEF M, K, r
    <2> QED
      BY <1>5, <1>6, <1>10, <2>5, <2>6
  <1>11. CASE v # u
    <2>1. M = DraftsOf(orders, v)
      BY <1>1, <1>2, <1>11 DEF DraftsOf, InStatus
    <2>2. \A p \in M : orders'[p] = orders[p]
      BY <1>2, <1>11, <2>1 DEF DraftsOf, InStatus
    <2>3. /\ r = LastRejected(orders, v)
          /\ r # None => r \in Number /\ orders'[r].lines = orders[r].lines
      <3>1. \A p \in Number : (orders[p].status = "rejected" /\ orders[p].vendor = v)
                                 <=> (orders'[p].status = "rejected" /\ orders'[p].vendor = v)
        BY <1>1, <1>2, <1>11
      <3>2. /\ LastRejected(orders, v) = r
            /\ LastRejected(orders, v) # None => LastRejected(orders, v) \in InStatus(orders, "rejected")
        BY <3>1, LastRejectedSame
      <3> QED
        BY <1>2, <3>2 DEF InStatus
    <2>4. K = A(v)
      BY <1>8, <1>11
    <2>5. /\ DOMAIN A(v) = {} => DraftsOf(orders, v) = {}
          /\ DOMAIN A(v) # {} =>
               \/ \E p \in DraftsOf(orders, v) :
                     /\ orders[p].lines = A(v)
                     /\ orders[p].reason = ApprovalReason(PolicyIn(s), Subtotal(A(v)), vendor[v].contact)
               \/ /\ DraftsOf(orders, v) = {} /\ LastRejected(orders, v) # None
                  /\ orders[LastRejected(orders, v)].lines = A(v)
      BY DEF Settled
    <2>6. vendor' = vendor /\ PolicyIn(t) = PolicyIn(s)
      BY <1>3
    <2> HIDE DEF M, K, r, s, t, A
    <2> QED
      BY <1>5, <2>1, <2>2, <2>3, <2>4, <2>5, <2>6
  <1> QED
    BY <1>9, <1>10, <1>11

-----------------------------------------------------------------------------
(* The steps.                                                                 *)

LEMMA CommitMatches ==
  ASSUME DraftsInv, MatchInv, CatalogueOK, LedgerTypeOK, DecidedKept,
         NEW m \in Monitor, CheckCommit(m)
  PROVE  MatchInv'
  <1> DEFINE c == check[m]
             Step(n, v) == Takes(c, n, v) /\ Written(c, n, v, orders'[n])
  <1>1. /\ c # None /\ c.phase = "locked" /\ checked' = c.s.revision
        /\ check' = [check EXCEPT ![m] = None]
        /\ UNCHANGED <<balance, rule, vendor, policy, revision>>
    BY DEF CheckCommit, CheckAt, ledger, catalogue
  <1>2. ASSUME NEW n \in Number
        PROVE  \/ \E v \in Groups(c) : Step(n, v)
               \/ /\ orders[n].status = "draft" /\ orders'[n].status = "withdrawn"
                  /\ orders'[n].vendor = orders[n].vendor
               \/ orders'[n] = orders[n] /\ orders[n].status # "draft"
    <2>1. orders[n].status = "draft" => Row(orders[n])
      BY DEF DraftsInv, OrdersInv, OrderRows, Drafted
    <2>2. Withdrawn(c, orders[n]).vendor = orders[n].vendor
      BY DEF Withdrawn
    <2> QED
      BY <2>1, <2>2, CommitByOrder, WithdrawnRow
  <1>3. \A n \in Number : orders[n] = c.s.orders[n]
    BY <1>1 DEF DraftsInv, Current
  <1>4. TypedSnapshot(c.s)
    <2>1. OrderTypes(c.s.orders)
      BY <1>3 DEF MatchInv, OrderTypes
    <2> QED
      BY <1>1, <2>1 DEF MatchInv, Reads, TypedSnapshot
  <1>5. ASSUME NEW n \in Number, NEW v \in Groups(c), Step(n, v)
        PROVE  /\ orders'[n].vendor = v /\ v \in Vendor
               /\ \A i \in DOMAIN orders'[n].lines :
                    i \in Item /\ orders'[n].lines[i].packs \in Int /\ orders'[n].lines[i].pack \in Int
    <2>1. v \in Vendor /\ orders'[n].vendor = v
      BY <1>5 DEF Groups, Written
    <2>2. orders'[n].lines = LinesFor(c.s, v, Examined(c.s))
      BY <1>1, <1>5, <2>1 DEF Written, DraftsInv, Current, Asked
    <2>3. ASSUME NEW i \in DOMAIN orders'[n].lines
          PROVE  i \in Item /\ orders'[n].lines[i].packs \in Int /\ orders'[n].lines[i].pack \in Int
      <3>1. i \in Item /\ Supplies(c.s, v, i)
        BY <2>1, <2>2, LinesAreSupplied
      <3>2. orders'[n].lines[i] = NewLine(c.s, v, i)
        BY <2>2 DEF LinesFor
      <3> QED
        BY <1>4, <2>1, <3>1, <3>2, LineCovers
    <2> QED
      BY <2>1, <2>3
  <1>6. OrderTypes(orders')
    <2>1. ASSUME NEW n \in Number, orders'[n].status \in {"draft", "approved"}
          PROVE  /\ orders'[n].vendor \in Vendor
                 /\ \A i \in DOMAIN orders'[n].lines :
                      i \in Item /\ orders'[n].lines[i].packs \in Int /\ orders'[n].lines[i].pack \in Int
      <3>1. CASE \E v \in Groups(c) : Step(n, v)
        BY <1>5, <3>1
      <3>2. CASE orders'[n] = orders[n]
        BY <2>1, <3>2 DEF MatchInv, OrderTypes
      <3> QED
        BY <1>2, <2>1, <3>1, <3>2
    <2> QED
      BY <2>1 DEF OrderTypes
  <1>7. Newest'
    <2> SUFFICES ASSUME NEW n \in Number, NEW p \in Number, orders'[n].status = "draft",
                        orders'[p].status # "none", orders'[p].vendor = orders'[n].vendor
                 PROVE  p <= n
      BY DEF Newest
    <2>1. PICK v \in Groups(c) : Step(n, v)
      BY <1>2
    <2>2. orders'[n].vendor = v
      BY <1>5, <2>1
    <2>3. n \in Nat /\ p \in Nat
      BY Bounds DEF Number
    <2>4. CASE \E w \in Groups(c) : Step(p, w)
      <3>1. PICK w \in Groups(c) : Step(p, w)
        BY <2>4
      <3>2. w = v
        BY <1>5, <2>2, <3>1
      <3>3. n = p
        BY <2>1, <3>1, <3>2, TakenApart
      <3> QED
        BY <2>3, <3>3
    <2>5. CASE ~\E w \in Groups(c) : Step(p, w)
      <3>1. orders[p].status # "none" /\ orders[p].vendor = v
        BY <1>2, <2>2, <2>5
      <3>2. CASE n \in DraftsOf(c.s.orders, v)
        <4>1. orders[n].status = "draft" /\ orders[n].vendor = v
          BY <1>3, <3>2 DEF DraftsOf, InStatus
        <4> QED
          BY <3>1, <4>1 DEF MatchInv, Newest
      <3>3. CASE v \in Fresh(c) /\ n = NumberFor(c, v)
        <4> DEFINE k == Cardinality(Drafted)
                   b == Cardinality({u \in Fresh(c) : u < v})
        <4>1. p \in Drafted /\ p <= k
          BY <3>1 DEF Drafted, DraftsInv, OrdersInv, NoGap
        <4>2. k \in Nat
          <5>1. IsFiniteSet(Number)
            BY Bounds, FS_Interval DEF Number
          <5>2. Drafted \subseteq Number
            BY DEF Drafted
          <5> QED
            BY <5>1, <5>2, FS_Subset, FS_CardinalityType
        <4>3. b \in Nat
          <5>1. {u \in Fresh(c) : u < v} \subseteq Vendor
            BY DEF Fresh, Groups
          <5> QED
            BY <5>1, Bounds, FS_Subset, FS_CardinalityType
        <4>4. n = k + 1 + b
          BY <3>3 DEF NumberFor
        <4> HIDE DEF k, b
        <4> QED
          BY <2>3, <4>1, <4>2, <4>3, <4>4
      <3> QED
        BY <2>1, <3>2, <3>3 DEF Takes
    <2> QED
      BY <2>4, <2>5
  <1>8. Reads'
    <2>1. DOMAIN check = Monitor /\ \A o \in Monitor : check'[o] = None
      BY <1>1 DEF DraftsInv, OrdersInv, OneCheck
    <2> QED
      BY <1>1, <2>1 DEF MatchInv, Reads
  <1>9. DraftsMatchExamined'
    <2>1. ASSUME c.s.revision = revision, NEW v \in Vendor
          PROVE  Settled(v)'
      BY <2>1, CommitSettles DEF MatchInv
    <2> QED
      BY <1>1, <2>1 DEF DraftsMatchExamined
  <1> QED
    BY <1>6, <1>7, <1>8, <1>9 DEF MatchInv

LEMMA DecisionMatches ==
  ASSUME DraftsInv, MatchInv, CatalogueOK, LedgerTypeOK,
         UNCHANGED <<balance, rule, vendor, policy, revision, checked, check>>,
         NEW n \in InStatus(orders, "draft"), NEW st \in {"approved", "rejected"}, NEW kind,
         Writes(n, st, kind)
  PROVE  MatchInv'
  <1>1. n \in Number /\ orders[n].status = "draft" /\ Row(orders[n]) /\ DOMAIN orders = Number
    BY DEF InStatus, DraftsInv, OrdersInv, OrderRows, Drafted
  <1>2. /\ \A o \in Number \ {n} : orders'[o] = orders[o]
        /\ orders'[n].status = st /\ orders'[n].lines = orders[n].lines
        /\ orders'[n].vendor = orders[n].vendor
    BY <1>1 DEF Writes, Decided, Row
  <1>3. \A o \in Number : /\ orders'[o].status \in {"draft", "approved"} =>
                              orders[o].status \in {"draft", "approved"}
                          /\ orders'[o].lines = orders[o].lines
                          /\ orders'[o].vendor = orders[o].vendor
                          /\ orders'[o].status = "draft" => orders[o].status = "draft"
                          /\ orders'[o].status # "none" => orders[o].status # "none"
    BY <1>1, <1>2
  <1>4. OrderTypes(orders')
    BY <1>3 DEF MatchInv, OrderTypes
  <1>5. Newest'
    BY <1>3 DEF MatchInv, Newest
  <1>6. Reads'
    BY DEF MatchInv, Reads, Alike, Snapshot
  <1>7. DraftsMatchExamined'
    <2>1. orders[n].vendor \in Vendor
      BY <1>1 DEF MatchInv, OrderTypes
    <2>2. ASSUME checked = revision, NEW v \in Vendor
          PROVE  Settled(v)'
      <3>1. Settled(v) /\ Settled(orders[n].vendor)
        BY <2>1, <2>2 DEF MatchInv, DraftsMatchExamined
      <3> QED
        BY <2>1, <3>1, DecisionSettles DEF MatchInv
    <2> QED
      BY <2>2 DEF DraftsMatchExamined
  <1> QED
    BY <1>4, <1>5, <1>6, <1>7 DEF MatchInv

\* A change of the stock or the catalogue puts the data ahead of the checkpoint.
LEMMA ChangeMatches ==
  ASSUME MatchInv, CatalogueOK, revision' = revision + 1, UNCHANGED <<orders, checked, check>>
  PROVE  MatchInv'
  <1>1. revision \in Nat
    BY DEF CatalogueOK
  <1>2. Reads' /\ checked' # revision'
    <2>1. checked \in Int /\ checked <= revision
      BY DEF MatchInv, Reads
    <2>2. ASSUME NEW m \in Monitor, check[m] # None
          PROVE  LET s == check[m].s IN
                 /\ s.revision \in Int /\ s.revision <= revision' /\ s.revision # revision'
                 /\ s.balance \in [Item -> Int]
                 /\ s.rule \in [Item -> [Vendor -> RuleRows \cup {None}]]
      BY <1>1, <2>2 DEF MatchInv, Reads
    <2> QED
      BY <1>1, <2>1, <2>2 DEF Reads
  <1>3. OrderTypes(orders') /\ Newest'
    BY DEF MatchInv, OrderTypes, Newest
  <1> QED
    BY <1>2, <1>3 DEF MatchInv, DraftsMatchExamined

\* A step that leaves the data and the orders alone.
LEMMA QuietMatches ==
  ASSUME MatchInv, UNCHANGED <<balance, rule, vendor, policy, revision, orders, checked>>,
         \A m \in Monitor :
           \/ check'[m] = None
           \/ check[m] # None /\ check'[m].s = check[m].s
           \/ check'[m].s = Snapshot,
         CatalogueOK, LedgerTypeOK
  PROVE  MatchInv'
  <1>1. Snapshot' = Snapshot
    BY DEF Snapshot
  <1>2. Reads'
    <2>1. /\ Snapshot.revision = revision /\ revision \in Int /\ revision <= revision
          /\ Snapshot.balance \in [Item -> Int]
          /\ Snapshot.rule \in [Item -> [Vendor -> RuleRows \cup {None}]]
      BY DEF Snapshot, CatalogueOK, LedgerTypeOK
    <2>2. Alike(Snapshot, Snapshot)
      BY DEF Alike
    <2>3. ASSUME NEW m \in Monitor, check'[m] # None
          PROVE  LET s == check'[m].s IN
                 /\ s.revision \in Int /\ s.revision <= revision
                 /\ s.balance \in [Item -> Int]
                 /\ s.rule \in [Item -> [Vendor -> RuleRows \cup {None}]]
                 /\ s.revision = revision => Alike(Snapshot, s)
      <3>1. CASE check[m] # None /\ check'[m].s = check[m].s
        BY <3>1 DEF MatchInv, Reads
      <3>2. CASE check'[m].s = Snapshot
        BY <2>1, <2>2, <3>2
      <3> QED
        BY <2>3, <3>1, <3>2
    <2> QED
      BY <1>1, <2>3 DEF MatchInv, Reads
  <1>3. OrderTypes(orders') /\ Newest'
    BY DEF MatchInv, OrderTypes, Newest
  <1>4. DraftsMatchExamined'
    <2>1. ASSUME NEW v \in Vendor, Settled(v)
          PROVE  Settled(v)'
      BY <1>1, <2>1 DEF Settled
    <2> QED
      BY <2>1 DEF MatchInv, DraftsMatchExamined
  <1> QED
    BY <1>2, <1>3, <1>4 DEF MatchInv

LEMMA MatchStep ==
  ASSUME EditsInv, LedgerTypeOK, LedgerTypeOK', MatchInv, [PurchasingNext]_vars
  PROVE  MatchInv'
  <1>1. DraftsInv /\ CatalogueOK /\ DOMAIN check = Monitor
    BY DEF EditsInv, DraftsInv, OrdersInv, OneCheck
  <1>2. ASSUME NEW m \in Monitor, CheckCommit(m)
        PROVE  MatchInv'
    <2>1. DecidedKept
      BY <1>1, OrdersStep DEF DraftsInv
    <2> QED
      BY <1>1, <1>2, <2>1, CommitMatches
  <1>3. ASSUME NEW m \in Monitor, CheckBegin(m) \/ CheckLock(m) \/ CheckFails(m)
        PROVE  MatchInv'
    <2>1. UNCHANGED <<balance, rule, vendor, policy, revision, orders, checked>>
      BY <1>3 DEF CheckBegin, CheckLock, CheckFails, ledger, catalogue
    <2>2. ASSUME NEW o \in Monitor
          PROVE  \/ check'[o] = None
                 \/ check[o] # None /\ check'[o].s = check[o].s
                 \/ check'[o].s = Snapshot
      <3>1. CASE CheckBegin(m)
        <4>1. check[o] = None /\ check' = [check EXCEPT ![m] = Started]
          BY <3>1 DEF CheckBegin
        <4>2. Started.s = Snapshot
          BY DEF Started
        <4> QED
          BY <1>1, <4>1, <4>2
      <3>2. CASE CheckLock(m)
        <4>1. check[m] # None /\ check' = [check EXCEPT ![m].phase = "locked"]
          BY <3>2 DEF CheckLock, CheckAt
        <4>2. o # m => check'[o] = check[o]
          BY <1>1, <4>1
        <4>3. check'[m].s = check[m].s
          BY <1>1, <4>1
        <4> QED
          BY <4>1, <4>2, <4>3
      <3>3. CASE CheckFails(m)
        <4>1. check' = [check EXCEPT ![m] = None]
          BY <3>3 DEF CheckFails
        <4> QED
          BY <1>1, <4>1
      <3> QED
        BY <1>3, <3>1, <3>2, <3>3
    <2> QED
      BY <1>1, <2>1, <2>2, QuietMatches
  <1>4. ASSUME UNCHANGED <<balance, rule, vendor, policy, revision, orders, checked, check>>
        PROVE  MatchInv'
    BY <1>1, <1>4, QuietMatches
  <1>5. ASSUME UNCHANGED <<orders, checked, check>>, DataChanges
        PROVE  MatchInv'
    BY <1>1, <1>5, ChangeMatches DEF DataChanges
  <1>6. ASSUME CatalogueStep
        PROVE  MatchInv'
    <2>1. DataChanges
      BY <1>6 DEF CatalogueStep, CreateVendor, UpdateVendor, JudgeVendor, ContactFound, Assign,
                  Unassign, UpdatePolicy
    <2> QED
      BY <1>5, <1>6, <2>1, CatalogueSteps DEF agent
  <1>7. ASSUME NEW x \in Call, StockMoves(x)
        PROVE  MatchInv'
    BY <1>5, <1>7 DEF StockMoves, agent
  <1>8. ASSUME NEW x \in Call, StockCall(x)
        PROVE  MatchInv'
    <2>1. UNCHANGED balance
      BY <1>8 DEF StockCall, CallStep, Arrive, LockKey, LockItem, Reuse, Refuse, Abandon
    <2> QED
      BY <1>4, <1>8, <2>1 DEF StockCall, catalogue, agent
  <1>9. ASSUME NEW n \in Number, Approve(n) \/ Reject(n)
        PROVE  MatchInv'
    <2>1. /\ n \in InStatus(orders, "draft")
          /\ UNCHANGED <<balance, rule, vendor, policy, revision, checked, check>>
      BY <1>9 DEF Approve, Reject, ledger, catalogue, agent
    <2>2. Writes(n, "approved", "manual") \/ Writes(n, "rejected", None)
      BY <1>9 DEF Approve, Reject, Writes
    <2> QED
      BY <1>1, <2>1, <2>2, DecisionMatches
  <1>10. ASSUME \/ \E on \in BOOLEAN : Switch(on)
                \/ OpenForm \/ CloseForm \/ UNCHANGED vars
         PROVE  MatchInv'
    BY <1>4, <1>10 DEF Switch, OpenForm, CloseForm, vars, ledger, catalogue, agent
  <1> QED
    BY <1>2, <1>3, <1>6, <1>7, <1>8, <1>9, <1>10 DEF PurchasingNext

\* Orders keep their types, a vendor's draft is its newest order, checks have read
\* the data of a revision, and the drafts match what is examined.
THEOREM MatchInvHolds == PurchasingSpec => []MatchInv
  <1>1. PurchasingInit => MatchInv
    <2> SUFFICES ASSUME PurchasingInit PROVE MatchInv
      OBVIOUS
    <2>1. /\ \A n \in Number : orders[n].status = "none"
          /\ \A m \in Monitor : check[m] = None
          /\ checked = -1 /\ revision = 0
      BY DEF PurchasingInit
    <2> QED
      BY <2>1 DEF MatchInv, OrderTypes, Newest, Reads, DraftsMatchExamined
  <1>2. EditsInv /\ LedgerTypeOK /\ LedgerTypeOK' /\ MatchInv /\ [PurchasingNext]_vars => MatchInv'
    BY MatchStep
  <1>3. LedgerSpec => []LedgerTypeOK
    BY LedgerInvHolds, PTL DEF LedgerInv
  <1> QED
    BY <1>1, <1>2, <1>3, EditsInvHolds, PurchasingKeepsLedger, PTL DEF PurchasingSpec

\* However many items are below par: when the checkpoint has caught up, the drafts
\* are what today's stock, rules, limits and contacts call for among the items a
\* check examines, or the vendor's last rejected order was.
THEOREM DraftsMatchWhatIsExamined == PurchasingSpec => []DraftsMatchExamined
  BY MatchInvHolds, PTL DEF MatchInv

\* And where no more items are kept than a check examines, no shortage is missed.
\* (With more of them, the check leaves out those after the first MaxCheckItems
\* below par, and marks the revision as checked.)
THEOREM DraftsMatchTheStock ==
  ASSUME IsFiniteSet(Item), Cardinality(Item) <= MaxCheckItems
  PROVE  PurchasingSpec => []DraftsMatchStock
  <1>1. Examined(Snapshot) = BelowPar(Snapshot)
    <2>1. ASSUME NEW i \in BelowPar(Snapshot)
          PROVE  Cardinality({j \in BelowPar(Snapshot) : j < i}) < MaxCheckItems
      <3> DEFINE T == {j \in BelowPar(Snapshot) : j < i}
      <3>1. i \in Item /\ T \subseteq Item /\ i \notin T
        <4>1. i \in Item /\ T \subseteq Item
          BY DEF BelowPar
        <4>2. Item \subseteq Nat
          BY LedgerConstantsOK
        <4>3. ~(i < i)
          BY <4>1, <4>2
        <4> QED
          BY <4>1, <4>3
      <3> HIDE DEF T
      <3>2. Cardinality(T) < Cardinality(Item) /\ Cardinality(T) \in Nat /\ Cardinality(Item) \in Nat
        BY <3>1, PartIsSmaller
      <3>3. MaxCheckItems \in Nat
        BY PurchasingConstantsOK
      <3>4. Cardinality(T) < MaxCheckItems
        BY <3>2, <3>3
      <3> QED
        BY <3>4 DEF T
    <2> QED
      BY <2>1 DEF Examined
  <1>2. DraftsMatchExamined => DraftsMatchStock
    BY <1>1 DEF DraftsMatchExamined, DraftsMatchStock, Settled
  <1> QED
    BY <1>2, DraftsMatchWhatIsExamined, PTL
=============================================================================
