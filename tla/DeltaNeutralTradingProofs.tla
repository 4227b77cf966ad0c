---------------------- MODULE DeltaNeutralTradingProofs ----------------------
(***************************************************************************)
(* Proofs about DeltaNeutralTrading for every size of pools, positions and *)
(* decimals: what the binary searches find, that no subtraction of the     *)
(* many that a transaction makes goes below zero, and that the position    *)
(* trades to the neutral state or beyond it, never short of it.            *)
(***************************************************************************)
EXTENDS DeltaNeutralTrading, WellFoundedInduction, TLAPS

-----------------------------------------------------------------------------
(* Functions defined by recursion on a number.                             *)

LEMMA LeastNumber ==
  ASSUME NEW B \in SUBSET Nat, B # {}
  PROVE  \E n \in B : \A m \in 0 .. n - 1 : m \notin B
<1> DEFINE R == OpToRel(<, Nat)
<1>1. IsWellFoundedOn(R, Nat)
  BY NatLessThanWellFounded
<1>2. PICK n \in B : \A m \in B : ~(<<m, n>> \in R)
  <2> HIDE DEF R
  <2> QED BY <1>1, WFMin
<1>3. ASSUME NEW m \in 0 .. n - 1, m \in B
      PROVE  FALSE
  <2>1. <<m, n>> \in R
    BY <1>3 DEF OpToRel
  <2> QED BY <2>1, <1>2, <1>3
<1> QED BY <1>3

(* A value of f at n is determined by those at smaller numbers.            *)
Local(H, V) ==
  \A n \in Nat : \A f, g \in [Nat -> V] :
    (\A m \in 0 .. n - 1 : f[m] = g[m]) => H[n][f] = H[n][g]

Solves(f, H, V, n) == f \in [Nat -> V] /\ \A m \in 0 .. n - 1 : f[m] = H[m][f]

LEMMA SolutionExtends ==
  ASSUME NEW V, NEW H \in [Nat -> [[Nat -> V] -> V]], Local(H, V),
         NEW n \in Nat, NEW f, Solves(f, H, V, n)
  PROVE  \E g : Solves(g, H, V, n + 1)
<1> DEFINE g == [f EXCEPT ![n] = H[n][f]]
<1>1. f \in [Nat -> V] /\ H[n][f] \in V
  BY DEF Solves
<1>2. g \in [Nat -> V] /\ g[n] = H[n][f] /\ \A m \in Nat \ {n} : g[m] = f[m]
  BY <1>1
<1> HIDE DEF g
<1>3. ASSUME NEW m \in 0 .. n
      PROVE  H[m][g] = H[m][f]
  <2>1. m \in Nat /\ \A k \in 0 .. m - 1 : f[k] = g[k]
    BY <1>2
  <2> QED BY <2>1, <1>1, <1>2 DEF Local
<1>4. ASSUME NEW m \in 0 .. n
      PROVE  g[m] = H[m][g]
  <2>1. CASE m = n
    BY <2>1, <1>2, <1>3
  <2>2. CASE m # n
    <3>1. m \in 0 .. n - 1 /\ m \in Nat \ {n}
      BY <2>2
    <3> QED BY <3>1, <1>2, <1>3 DEF Solves
  <2> QED BY <2>1, <2>2
<1>5. 0 .. (n + 1) - 1 = 0 .. n
  OBVIOUS
<1> QED BY <1>2, <1>4, <1>5 DEF Solves

LEMMA SolutionsAgree ==
  ASSUME NEW V, NEW H, Local(H, V), NEW n \in Nat, NEW k \in Nat,
         NEW f, Solves(f, H, V, n), NEW g, Solves(g, H, V, k), NEW m \in 0 .. n - 1, m < k
  PROVE  f[m] = g[m]
<1> DEFINE B == {i \in 0 .. m : f[i] # g[i]}
<1>1. CASE B = {}
  BY <1>1
<1>2. CASE B # {}
  <2>1. B \in SUBSET Nat
    OBVIOUS
  <2>2. PICK i \in B : \A j \in 0 .. i - 1 : j \notin B
    <3> HIDE DEF B
    <3> QED BY <2>1, <1>2, LeastNumber
  <2>3. i \in Nat /\ \A j \in 0 .. i - 1 : f[j] = g[j]
    BY <2>2
  <2>4. f[i] = H[i][f] /\ g[i] = H[i][g] /\ f \in [Nat -> V] /\ g \in [Nat -> V]
    BY <2>2 DEF Solves
  <2>5. H[i][f] = H[i][g]
    BY <2>3, <2>4 DEF Local
  <2> QED BY <2>2, <2>4, <2>5
<1> QED BY <1>1, <1>2

LEMMA SolutionExists ==
  ASSUME NEW V, NEW v \in V, NEW H \in [Nat -> [[Nat -> V] -> V]], Local(H, V), NEW n \in Nat
  PROVE  \E f : Solves(f, H, V, n)
<1> DEFINE B == {i \in Nat : ~ \E f : Solves(f, H, V, i)}
<1>1. CASE B = {}
  BY <1>1
<1>2. CASE B # {}
  <2>1. PICK i \in B : \A j \in 0 .. i - 1 : j \notin B
    <3>1. B \in SUBSET Nat
      OBVIOUS
    <3> HIDE DEF B
    <3> QED BY <3>1, <1>2, LeastNumber
  <2>2. CASE i = 0
    <3>1. Solves([k \in Nat |-> v], H, V, i)
      BY <2>2 DEF Solves
    <3> QED BY <2>1, <3>1
  <2>3. CASE i # 0
    <3>1. i - 1 \in Nat /\ i - 1 \in 0 .. i - 1 /\ (i - 1) + 1 = i
      BY <2>1, <2>3
    <3>2. i - 1 \notin B
      BY <2>1, <3>1
    <3>3. PICK f : Solves(f, H, V, i - 1)
      BY <3>1, <3>2
    <3>4. \E g : Solves(g, H, V, (i - 1) + 1)
      BY <3>1, <3>3, SolutionExtends
    <3>5. \E g : Solves(g, H, V, i)
      BY <3>1, <3>4
    <3> QED BY <2>1, <3>5
  <2> QED BY <2>2, <2>3
<1> QED BY <1>1, <1>2

Recursive(f, H, V) == f \in [Nat -> V] /\ \A n \in Nat : f[n] = H[n][f]

LEMMA Recursion ==
  ASSUME NEW V, NEW v \in V, NEW H \in [Nat -> [[Nat -> V] -> V]], Local(H, V)
  PROVE  \E f : Recursive(f, H, V)
<1> DEFINE F(n) == CHOOSE f : Solves(f, H, V, n + 1)
           h    == [n \in Nat |-> F(n)[n]]
<1>1. ASSUME NEW n \in Nat
      PROVE  Solves(F(n), H, V, n + 1)
  <2>1. \E f : Solves(f, H, V, n + 1)
    BY SolutionExists, n + 1 \in Nat
  <2> QED BY <2>1
<1>2. \A n \in Nat : h[n] = F(n)[n]
  OBVIOUS
<1> HIDE DEF F
<1>3. h \in [Nat -> V]
  BY <1>1 DEF Solves
<1> HIDE DEF h
<1>4. ASSUME NEW n \in Nat
      PROVE  h[n] = H[n][h]
  <2>1. ASSUME NEW m \in 0 .. n - 1
        PROVE  F(n)[m] = h[m]
    <3>1. m \in Nat /\ m + 1 \in Nat /\ n + 1 \in Nat /\ m \in 0 .. (n + 1) - 1 /\ m < m + 1
      OBVIOUS
    <3>2. Solves(F(n), H, V, n + 1) /\ Solves(F(m), H, V, m + 1)
      BY <1>1, <3>1
    <3>3. F(n)[m] = F(m)[m]
      BY <3>1, <3>2, SolutionsAgree
    <3> QED BY <3>1, <3>3, <1>2
  <2>2. F(n) \in [Nat -> V] /\ F(n)[n] = H[n][F(n)]
    BY <1>1 DEF Solves
  <2>3. H[n][F(n)] = H[n][h]
    BY <2>1, <2>2, <1>3 DEF Local
  <2> QED BY <2>2, <2>3, <1>2
<1> QED BY <1>3, <1>4 DEF Recursive

-----------------------------------------------------------------------------
(* The binary search.                                                      *)

Halving(S, n, f) ==
  [a \in Nat |->
     IF n = 0 THEN a
     ELSE IF a + (n \div 2) \in S THEN f[n \div 2][a]
     ELSE f[n - (n \div 2) - 1][a + (n \div 2) + 1]]

LEMMA Half ==
  ASSUME NEW n \in Nat, n # 0
  PROVE  n \div 2 \in 0 .. n - 1 /\ n - (n \div 2) - 1 \in 0 .. n - 1
OBVIOUS

LEMMA HalvingType ==
  ASSUME NEW S, NEW n \in Nat, NEW f \in [Nat -> [Nat -> Nat]]
  PROVE  Halving(S, n, f) \in [Nat -> Nat]
<1>1. ASSUME NEW a \in Nat
      PROVE  Halving(S, n, f)[a] \in Nat
  <2>1. CASE n = 0
    BY <2>1 DEF Halving
  <2>2. CASE n # 0
    <3> DEFINE h == n \div 2
    <3>1. h \in 0 .. n - 1 /\ n - h - 1 \in 0 .. n - 1
      BY <2>2, Half
    <3>2. Halving(S, n, f)[a] = IF a + h \in S THEN f[h][a] ELSE f[n - h - 1][a + h + 1]
      BY <2>2 DEF Halving
    <3> HIDE DEF h
    <3>3. h \in Nat /\ n - h - 1 \in Nat /\ a + h + 1 \in Nat
      BY <3>1
    <3>4. f[h][a] \in Nat /\ f[n - h - 1][a + h + 1] \in Nat
      BY <3>3
    <3> QED BY <3>2, <3>4
  <2> QED BY <2>1, <2>2
<1> QED BY <1>1 DEF Halving

LEMMA HalvingLocal ==
  ASSUME NEW S, NEW n \in Nat, NEW f, NEW g, \A m \in 0 .. n - 1 : f[m] = g[m]
  PROVE  Halving(S, n, f) = Halving(S, n, g)
<1>1. CASE n = 0
  BY <1>1 DEF Halving
<1>2. CASE n # 0
  <2>1. f[n \div 2] = g[n \div 2] /\ f[n - (n \div 2) - 1] = g[n - (n \div 2) - 1]
    BY <1>2, Half
  <2> QED BY <2>1 DEF Halving
<1> QED BY <1>1, <1>2

(* The search is a function, as its definition intends.                    *)
IsSearch(f, S) == f = [n \in Nat |-> Halving(S, n, f)]

LEMMA LeftmostIsSearch ==
  ASSUME NEW S, NEW first, NEW end
  PROVE  LET f == CHOOSE f : IsSearch(f, S) IN Leftmost(S, first, end) = f[end - first][first]
BY DEF Leftmost, IsSearch, Halving

LEMMA SearchExists ==
  ASSUME NEW S
  PROVE  \E f : IsSearch(f, S) /\ f \in [Nat -> [Nat -> Nat]]
<1> DEFINE V == [Nat -> Nat]
           H == [n \in Nat |-> [f \in [Nat -> V] |-> Halving(S, n, f)]]
<1> DEFINE v == [a \in Nat |-> a]
<1>1. H \in [Nat -> [[Nat -> V] -> V]] /\ v \in V
  BY HalvingType
<1>2. \A n \in Nat : \A f \in [Nat -> V] : H[n][f] = Halving(S, n, f)
  OBVIOUS
<1> HIDE DEF H, V, v
<1>3. Local(H, V)
  BY <1>2, HalvingLocal DEF Local
<1>4. PICK f : Recursive(f, H, V)
  BY <1>1, <1>3, Recursion
<1>5. f \in [Nat -> V] /\ f = [n \in Nat |-> Halving(S, n, f)]
  BY <1>2, <1>4 DEF Recursive
<1> QED BY <1>5 DEF IsSearch, V

(* r is where S begins, among the n amounts from a on.                     *)
Boundary(S, a, n, r) ==
  /\ r \in a .. a + n
  /\ r < a + n => r \in S
  /\ r > a => r - 1 \notin S

LEMMA BoundaryBelow ==
  ASSUME NEW S, NEW a \in Nat, NEW n \in Nat, NEW h \in 0 .. n - 1, a + h \in S,
         NEW r, Boundary(S, a, h, r)
  PROVE  Boundary(S, a, n, r)
<1>1. r \in a .. a + h /\ (r < a + h => r \in S) /\ (r > a => r - 1 \notin S)
  BY DEF Boundary
<1>2. r \in S
  <2>1. r < a + h \/ r = a + h
    BY <1>1
  <2> QED BY <1>1, <2>1
<1>3. r \in a .. a + n
  BY <1>1
<1> QED BY <1>1, <1>2, <1>3 DEF Boundary

LEMMA BoundaryAbove ==
  ASSUME NEW S, NEW a \in Nat, NEW n \in Nat, NEW h \in 0 .. n - 1, a + h \notin S,
         NEW r, Boundary(S, a + h + 1, n - h - 1, r)
  PROVE  Boundary(S, a, n, r)
<1>1. a + h + 1 + (n - h - 1) = a + n
  OBVIOUS
<1>2. /\ r \in a + h + 1 .. a + n /\ (r < a + n => r \in S)
      /\ (r > a + h + 1 => r - 1 \notin S)
  BY <1>1 DEF Boundary
<1>3. r - 1 \notin S
  <2>1. r > a + h + 1 \/ r - 1 = a + h
    BY <1>2
  <2> QED BY <1>2, <2>1
<1>4. r \in a .. a + n
  BY <1>2
<1> QED BY <1>2, <1>3, <1>4 DEF Boundary

LEMMA SearchStep ==
  ASSUME NEW S, NEW f, IsSearch(f, S), NEW n \in Nat,
         \A m \in 0 .. n - 1 : \A a \in Nat : Boundary(S, a, m, f[m][a]),
         NEW a \in Nat
  PROVE  Boundary(S, a, n, f[n][a])
<1>1. f[n] = Halving(S, n, f)
  BY DEF IsSearch
<1>2. CASE n = 0
  <2>1. f[n][a] = a
    BY <1>1, <1>2 DEF Halving
  <2> QED BY <1>2, <2>1 DEF Boundary
<1>3. CASE n # 0
  <2> DEFINE h == n \div 2
  <2>1. h \in 0 .. n - 1 /\ n - h - 1 \in 0 .. n - 1
    BY <1>3, Half
  <2>2. f[n][a] = IF a + h \in S THEN f[h][a] ELSE f[n - h - 1][a + h + 1]
    BY <1>1, <1>3 DEF Halving
  <2> HIDE DEF h
  <2>3. CASE a + h \in S
    BY <2>1, <2>2, <2>3, BoundaryBelow
  <2>4. CASE a + h \notin S
    <3>1. Boundary(S, a + h + 1, n - h - 1, f[n - h - 1][a + h + 1])
      BY <2>1
    <3> QED BY <2>1, <2>2, <2>4, <3>1, BoundaryAbove
  <2> QED BY <2>3, <2>4
<1> QED BY <1>2, <1>3

(* The binary search that five computations share, whatever it searches:   *)
(* the amount found is in S unless it is the end, and the one before is    *)
(* not, although S may have several such boundaries.                       *)
THEOREM LeftmostBoundary ==
  ASSUME NEW S, NEW first \in Nat, NEW end \in Nat, first <= end
  PROVE  /\ Leftmost(S, first, end) \in first .. end
         /\ Leftmost(S, first, end) < end => Leftmost(S, first, end) \in S
         /\ Leftmost(S, first, end) > first => Leftmost(S, first, end) - 1 \notin S
<1> DEFINE f == CHOOSE f : IsSearch(f, S)
           B == {n \in Nat : \E a \in Nat : ~Boundary(S, a, n, f[n][a])}
<1>1. IsSearch(f, S)
  BY SearchExists
<1>3. Leftmost(S, first, end) = f[end - first][first]
  BY LeftmostIsSearch
<1> HIDE DEF f
<1>4. CASE B = {}
  <2>1. end - first \in Nat
    OBVIOUS
  <2>2. Boundary(S, first, end - first, f[end - first][first])
    BY <1>4, <2>1
  <2>3. first + (end - first) = end
    OBVIOUS
  <2> QED BY <1>3, <2>2, <2>3 DEF Boundary
<1>5. CASE B # {}
  <2>1. PICK n \in B : \A m \in 0 .. n - 1 : m \notin B
    <3>1. B \in SUBSET Nat
      OBVIOUS
    <3> HIDE DEF B
    <3> QED BY <3>1, <1>5, LeastNumber
  <2>2. \A m \in 0 .. n - 1 : \A a \in Nat : Boundary(S, a, m, f[m][a])
    BY <2>1
  <2> QED BY <1>1, <2>1, <2>2, SearchStep
<1> QED BY <1>4, <1>5

(* If S holds whatever is above one of its members, the search finds the   *)
(* least of them.                                                          *)
THEOREM LeftmostLeast ==
  ASSUME NEW S, NEW first \in Nat, NEW end \in Nat, first <= end,
         \A x, y \in first .. end : x \in S /\ x <= y => y \in S,
         NEW x \in first .. end - 1
  PROVE  x \in S <=> Leftmost(S, first, end) <= x
<1> DEFINE r == Leftmost(S, first, end)
<1>1. r \in first .. end /\ (r < end => r \in S) /\ (r > first => r - 1 \notin S)
  BY LeftmostBoundary
<1> HIDE DEF r
<1>2. CASE r <= x
  <2>1. r \in S /\ r \in first .. end /\ x \in first .. end
    BY <1>1, <1>2
  <2> QED BY <2>1, <1>2 DEF r
<1>3. CASE x < r
  <2>1. r - 1 \in first .. end /\ x \in first .. end /\ x <= r - 1 /\ r - 1 \notin S
    BY <1>1, <1>3
  <2>2. x \notin S
    BY <2>1
  <2> QED BY <2>2, <1>1, <1>3 DEF r
<1> QED BY <1>1, <1>2, <1>3

-----------------------------------------------------------------------------
(* The search for the collateral.                                          *)

Collaterals == [collateral : Nat, overflow : BOOLEAN]

Narrowing(c, budget, n, f) ==
  [a \in Nat |->
     IF n <= 1 THEN [collateral |-> a, overflow |-> FALSE]
     ELSE IF Overflows(c, a + (n \div 2)) THEN [collateral |-> a, overflow |-> TRUE]
     ELSE IF Feasible(c, budget, a + (n \div 2)) THEN f[n - (n \div 2)][a + (n \div 2)]
     ELSE f[n \div 2][a]]

LEMMA Narrower ==
  ASSUME NEW n \in Nat, ~(n <= 1)
  PROVE  n \div 2 \in 1 .. n - 1 /\ n - (n \div 2) \in 0 .. n - 1
OBVIOUS

LEMMA NarrowingType ==
  ASSUME NEW c, NEW budget, NEW n \in Nat, NEW f \in [Nat -> [Nat -> Collaterals]]
  PROVE  Narrowing(c, budget, n, f) \in [Nat -> Collaterals]
<1>1. ASSUME NEW a \in Nat
      PROVE  Narrowing(c, budget, n, f)[a] \in Collaterals
  <2>1. CASE n <= 1
    BY <2>1 DEF Narrowing, Collaterals
  <2>2. CASE ~(n <= 1)
    <3> DEFINE h == n \div 2
    <3>1. h \in 1 .. n - 1 /\ n - h \in 0 .. n - 1
      BY <2>2, Narrower
    <3>2. Narrowing(c, budget, n, f)[a] =
            IF Overflows(c, a + h) THEN [collateral |-> a, overflow |-> TRUE]
            ELSE IF Feasible(c, budget, a + h) THEN f[n - h][a + h] ELSE f[h][a]
      BY <2>2 DEF Narrowing
    <3> HIDE DEF h
    <3>3. h \in Nat /\ n - h \in Nat /\ a + h \in Nat
      BY <3>1
    <3>4. f[h][a] \in Collaterals /\ f[n - h][a + h] \in Collaterals
      BY <3>3
    <3>5. [collateral |-> a, overflow |-> TRUE] \in Collaterals
      BY DEF Collaterals
    <3> QED BY <3>2, <3>4, <3>5
  <2> QED BY <2>1, <2>2
<1> QED BY <1>1 DEF Narrowing

LEMMA NarrowingLocal ==
  ASSUME NEW c, NEW budget, NEW n \in Nat, NEW f, NEW g, \A m \in 0 .. n - 1 : f[m] = g[m]
  PROVE  Narrowing(c, budget, n, f) = Narrowing(c, budget, n, g)
<1>1. CASE n <= 1
  BY <1>1 DEF Narrowing
<1>2. CASE ~(n <= 1)
  <2>1. f[n \div 2] = g[n \div 2] /\ f[n - (n \div 2)] = g[n - (n \div 2)]
    BY <1>2, Narrower
  <2> QED BY <2>1 DEF Narrowing
<1> QED BY <1>1, <1>2

IsNarrowing(f, c, budget) == f = [n \in Nat |-> Narrowing(c, budget, n, f)]

LEMMA NarrowingExists ==
  ASSUME NEW c, NEW budget
  PROVE  \E f : IsNarrowing(f, c, budget)
<1> DEFINE V == [Nat -> Collaterals]
           H == [n \in Nat |-> [f \in [Nat -> V] |-> Narrowing(c, budget, n, f)]]
           v == [a \in Nat |-> [collateral |-> a, overflow |-> FALSE]]
<1>1. H \in [Nat -> [[Nat -> V] -> V]]
  BY NarrowingType
<1>2. v \in V
  BY DEF Collaterals
<1>3. \A n \in Nat : \A f \in [Nat -> V] : H[n][f] = Narrowing(c, budget, n, f)
  OBVIOUS
<1> HIDE DEF H, V, v
<1>4. Local(H, V)
  BY <1>3, NarrowingLocal DEF Local
<1>5. PICK f : Recursive(f, H, V)
  BY <1>1, <1>2, <1>4, Recursion
<1>6. f = [n \in Nat |-> Narrowing(c, budget, n, f)]
  BY <1>3, <1>5 DEF Recursive
<1> QED BY <1>6 DEF IsNarrowing

Enough(c, budget) == {u \in Nat : Feasible(c, budget, u)}

(* What the search of the n amounts from a on may give.                    *)
Found(enough, a, n, r) ==
  /\ r.collateral \in a .. a + n
  /\ r.collateral > a => r.collateral \in enough
  /\ ~r.overflow /\ r.collateral + 1 < a + n => r.collateral + 1 \notin enough

LEMMA FoundAbove ==
  ASSUME NEW enough, NEW a \in Nat, NEW n \in Nat, NEW h \in 1 .. n - 1,
         a + h \in enough, NEW r, Found(enough, a + h, n - h, r)
  PROVE  Found(enough, a, n, r)
<1>1. (a + h) + (n - h) = a + n
  OBVIOUS
<1>2. /\ r.collateral \in a + h .. a + n
      /\ r.collateral > a + h => r.collateral \in enough
      /\ ~r.overflow /\ r.collateral + 1 < a + n => r.collateral + 1 \notin enough
  BY <1>1 DEF Found
<1>3. r.collateral \in enough
  <2>1. r.collateral > a + h \/ r.collateral = a + h
    BY <1>2
  <2> QED BY <1>2, <2>1
<1>4. r.collateral \in a .. a + n
  BY <1>2
<1> QED BY <1>2, <1>3, <1>4 DEF Found

LEMMA FoundBelow ==
  ASSUME NEW enough, NEW a \in Nat, NEW n \in Nat, NEW h \in 1 .. n - 1,
         a + h \notin enough, NEW r, Found(enough, a, h, r)
  PROVE  Found(enough, a, n, r)
<1>1. /\ r.collateral \in a .. a + h
      /\ r.collateral > a => r.collateral \in enough
      /\ ~r.overflow /\ r.collateral + 1 < a + h => r.collateral + 1 \notin enough
  BY DEF Found
<1>2. r.collateral # a + h
  <2>1. CASE r.collateral > a
    BY <2>1, <1>1
  <2>2. CASE ~(r.collateral > a)
    BY <2>2, <1>1
  <2> QED BY <2>1, <2>2
<1>3. ~r.overflow => r.collateral + 1 \notin enough
  <2>1. r.collateral + 1 < a + h \/ r.collateral + 1 = a + h
    BY <1>1, <1>2
  <2> QED BY <1>1, <2>1
<1>4. r.collateral \in a .. a + n
  BY <1>1
<1> QED BY <1>1, <1>3, <1>4 DEF Found

LEMMA NarrowingStep ==
  ASSUME NEW c, NEW budget, NEW f, IsNarrowing(f, c, budget), NEW n \in Nat,
         \A m \in 0 .. n - 1 : \A a \in Nat : Found(Enough(c, budget), a, m, f[m][a]),
         NEW a \in Nat
  PROVE  Found(Enough(c, budget), a, n, f[n][a])
<1> DEFINE enough == Enough(c, budget)
<1>1. \A u \in Nat : u \in enough <=> Feasible(c, budget, u)
  BY DEF Enough
<1> HIDE DEF enough
<1>2. \A m \in 0 .. n - 1 : \A b \in Nat : Found(enough, b, m, f[m][b])
  BY DEF enough
<1> SUFFICES Found(enough, a, n, f[n][a])
  BY DEF enough
<1>3. f[n] = Narrowing(c, budget, n, f)
  BY DEF IsNarrowing
<1>4. CASE n <= 1
  <2>1. f[n][a] = [collateral |-> a, overflow |-> FALSE]
    BY <1>3, <1>4 DEF Narrowing
  <2>2. f[n][a].collateral = a
    BY <2>1
  <2>3. ~(a > a) /\ ~(a + 1 < a + n) /\ a \in a .. a + n
    BY <1>4
  <2> QED BY <2>2, <2>3 DEF Found
<1>5. CASE ~(n <= 1)
  <2> DEFINE h == n \div 2
  <2>1. h \in 1 .. n - 1 /\ n - h \in 0 .. n - 1
    BY <1>5, Narrower
  <2>2. f[n][a] = IF Overflows(c, a + h) THEN [collateral |-> a, overflow |-> TRUE]
                  ELSE IF Feasible(c, budget, a + h) THEN f[n - h][a + h] ELSE f[h][a]
    BY <1>3, <1>5 DEF Narrowing
  <2> HIDE DEF h
  <2>6. a + h \in Nat
    BY <2>1
  <2>7. a + h \in enough <=> Feasible(c, budget, a + h)
    BY <2>6, <1>1
  <2>3. CASE Overflows(c, a + h)
    <3>1. f[n][a] = [collateral |-> a, overflow |-> TRUE]
      BY <2>2, <2>3
    <3>2. f[n][a].collateral = a /\ f[n][a].overflow
      BY <3>1
    <3>3. ~(a > a) /\ a \in a .. a + n
      OBVIOUS
    <3> QED BY <3>2, <3>3 DEF Found
  <2>4. CASE ~Overflows(c, a + h) /\ a + h \in enough
    <3>1. a + h \in Nat
      BY <2>1
    <3>2. Found(enough, a + h, n - h, f[n - h][a + h])
      BY <2>1, <3>1, <1>2
    <3>3. f[n][a] = f[n - h][a + h]
      BY <2>2, <2>7, <2>4
    <3> QED BY <2>1, <2>4, <3>2, <3>3, FoundAbove
  <2>5. CASE ~Overflows(c, a + h) /\ a + h \notin enough
    <3>1. h \in 0 .. n - 1
      BY <2>1
    <3>2. Found(enough, a, h, f[h][a])
      BY <3>1, <1>2
    <3>3. f[n][a] = f[h][a]
      BY <2>2, <2>7, <2>5
    <3> QED BY <2>1, <2>5, <3>2, <3>3, FoundBelow
  <2> QED BY <2>3, <2>4, <2>5
<1> QED BY <1>4, <1>5

LEMMA CollateralSearchIs ==
  ASSUME NEW c, NEW budget
  PROVE  LET f == CHOOSE f : IsNarrowing(f, c, budget)
         IN CollateralSearch(c, budget) = f[budget][0]
BY DEF CollateralSearch, IsNarrowing, Narrowing

(* The collateral found is nothing or feasible, and if the search did not  *)
(* stop at an overflow one unit more is infeasible or the whole budget     *)
(* (open.rs:88-137), for every budget and every state of the pools.        *)
THEOREM CollateralBoundary ==
  ASSUME NEW c, NEW budget \in Nat
  PROVE  LET r == CollateralSearch(c, budget)
         IN /\ r.collateral \in 0 .. budget
            /\ r.collateral > 0 => Feasible(c, budget, r.collateral)
            /\ ~r.overflow /\ r.collateral + 1 < budget =>
                 ~Feasible(c, budget, r.collateral + 1)
<1> DEFINE f == CHOOSE f : IsNarrowing(f, c, budget)
           enough == Enough(c, budget)
           B == {n \in Nat : \E a \in Nat : ~Found(enough, a, n, f[n][a])}
<1>1. IsNarrowing(f, c, budget)
  BY NarrowingExists
<1>2. CollateralSearch(c, budget) = f[budget][0]
  BY CollateralSearchIs
<1> HIDE DEF f
<1>3. CASE B = {}
  <2> DEFINE r == CollateralSearch(c, budget)
  <2>1. Found(enough, 0, budget, f[budget][0])
    BY <1>3
  <2>2. Found(enough, 0, budget, r)
    BY <2>1, <1>2
  <2>3. 0 + budget = budget
    OBVIOUS
  <2> HIDE DEF r
  <2>4. /\ r.collateral \in 0 .. budget
        /\ r.collateral > 0 => r.collateral \in enough
        /\ ~r.overflow /\ r.collateral + 1 < budget => r.collateral + 1 \notin enough
    BY <2>2, <2>3 DEF Found
  <2>5. r.collateral + 1 \in Nat
    BY <2>4
  <2> QED BY <2>4, <2>5 DEF Enough, r
<1>4. CASE B # {}
  <2>1. PICK n \in B : \A m \in 0 .. n - 1 : m \notin B
    <3>1. B \in SUBSET Nat
      OBVIOUS
    <3> HIDE DEF B
    <3> QED BY <3>1, <1>4, LeastNumber
  <2>2. \A m \in 0 .. n - 1 : \A a \in Nat : Found(enough, a, m, f[m][a])
    BY <2>1
  <2> QED BY <1>1, <2>1, <2>2, NarrowingStep
<1> QED BY <1>3, <1>4

(* It is the largest possible (open.rs:36) if no amount is infeasible that *)
(* is below a feasible one, as roundings may make it; all of the budget,   *)
(* which would leave nothing to buy the asset back with, is left aside.    *)
THEOREM LargestCollateral ==
  ASSUME NEW c, NEW budget \in Nat,
         ~CollateralSearch(c, budget).overflow,
         \A u, w \in 0 .. budget - 1 : u <= w /\ Feasible(c, budget, w) => Feasible(c, budget, u),
         NEW u \in 0 .. budget - 1, Feasible(c, budget, u)
  PROVE  u <= CollateralSearch(c, budget).collateral
<1> DEFINE found == CollateralSearch(c, budget).collateral
<1>1. found \in 0 .. budget /\ (found + 1 < budget => ~Feasible(c, budget, found + 1))
  BY CollateralBoundary
<1> HIDE DEF found
<1> SUFFICES ASSUME found < u
             PROVE  FALSE
  BY <1>1 DEF found
<1>2. found + 1 \in 0 .. budget - 1 /\ found + 1 <= u
  BY <1>1
<1>3. Feasible(c, budget, found + 1)
  BY <1>2
<1> QED BY <1>1, <1>2, <1>3

-----------------------------------------------------------------------------
(* Integer division.                                                       *)

LEMMA DivBounds ==
  ASSUME NEW x \in Nat, NEW u \in Nat \ {0}
  PROVE  x \div u \in Nat /\ u * (x \div u) <= x /\ x < u * (x \div u) + u
OBVIOUS

LEMMA Cancel ==
  ASSUME NEW u \in Nat \ {0}, NEW a \in Int, NEW b \in Int, u * a < u * b
  PROVE  a < b
OBVIOUS

LEMMA DivAtMost ==
  ASSUME NEW x \in Nat, NEW u \in Nat \ {0}, NEW k \in Nat, x <= u * k
  PROVE  x \div u <= k
<1>1. x \div u \in Nat /\ u * (x \div u) <= x
  BY DivBounds
<1>2. u * (x \div u) < u * (k + 1)
  BY <1>1
<1> QED BY <1>1, <1>2, Cancel

LEMMA DivBelow ==
  ASSUME NEW x \in Nat, NEW u \in Nat \ {0}, NEW k \in Nat, x < u * k
  PROVE  x \div u < k
<1>1. x \div u \in Nat /\ u * (x \div u) <= x
  BY DivBounds
<1>2. u * (x \div u) < u * k
  BY <1>1
<1> QED BY <1>1, <1>2, Cancel

LEMMA DivAtLeast ==
  ASSUME NEW x \in Nat, NEW u \in Nat \ {0}, NEW k \in Nat, u * k <= x
  PROVE  k <= x \div u
<1>1. x \div u \in Nat /\ x < u * (x \div u) + u
  BY DivBounds
<1>2. u * k < u * ((x \div u) + 1)
  BY <1>1
<1> QED BY <1>1, <1>2, Cancel

LEMMA DivMonotone ==
  ASSUME NEW x \in Nat, NEW y \in Nat, NEW u \in Nat \ {0}, x <= y
  PROVE  x \div u <= y \div u
<1>1. x \div u \in Nat /\ u * (x \div u) <= x
  BY DivBounds
<1> QED BY <1>1, DivAtLeast

LEMMA DivAntitone ==
  ASSUME NEW x \in Nat, NEW u \in Nat \ {0}, NEW w \in Nat \ {0}, u <= w
  PROVE  x \div w <= x \div u
<1> DEFINE k == x \div w
<1>1. k \in Nat /\ w * k <= x
  BY DivBounds
<1> HIDE DEF k
<1>2. u * k <= w * k
  BY <1>1
<1>3. k <= x \div u
  BY <1>1, <1>2, DivAtLeast
<1> QED BY <1>3 DEF k

(* What is left when a part c of d is taken, rounded down.                 *)
LEMMA LessPart ==
  ASSUME NEW x \in Nat, NEW d \in Nat \ {0}, NEW c \in 0 .. d
  PROVE  x - ((x * c) \div d) \in 0 .. x
<1>1. x * c \in Nat /\ x * c <= d * x
  OBVIOUS
<1>2. (x * c) \div d \in Nat /\ (x * c) \div d <= x
  BY <1>1, DivBounds, DivAtMost
<1> QED BY <1>2

LEMMA LessPartMonotone ==
  ASSUME NEW x \in Nat, NEW y \in Nat, x <= y, NEW d \in Nat \ {0}, NEW c \in 0 .. d
  PROVE  x - ((x * c) \div d) <= y - ((y * c) \div d)
<1> DEFINE p == (x * c) \div d  q == (y * c) \div d
<1>1. x * c \in Nat /\ y * c \in Nat
  OBVIOUS
<1>2. p \in Nat /\ x * c < d * p + d /\ q \in Nat /\ d * q <= y * c
  BY <1>1, DivBounds
<1> HIDE DEF p, q
<1>3. (y - x) * c <= d * (y - x) /\ y * c = x * c + (y - x) * c
  OBVIOUS
<1>4. d * (p + 1 + (y - x)) = d * p + d + d * (y - x)
  BY <1>2
<1>5. d * q < d * (p + 1 + (y - x))
  BY <1>1, <1>2, <1>3, <1>4
<1>6. q < p + 1 + (y - x)
  BY <1>2, <1>5, Cancel
<1> QED BY <1>2, <1>6 DEF p, q

-----------------------------------------------------------------------------
(* Terraswap.                                                              *)

(* The part of the pool that a swap leaves, with 18 decimals.              *)
Left(offerPool, askPool, offer) ==
  (offerPool * askPool * DECIMAL_FRACTIONAL) \div (offerPool + offer)
Gross(offerPool, askPool, offer) ==
  (askPool * DECIMAL_FRACTIONAL - Left(offerPool, askPool, offer)) \div DECIMAL_FRACTIONAL

LEMMA SwapReturnIs ==
  ASSUME NEW o \in Nat, NEW a \in Nat, NEW x \in Nat
  PROVE  SwapReturn(o, a, x) =
           Gross(o, a, x) - ((Gross(o, a, x) * Commission) \div DECIMAL_FRACTIONAL)
<1>1. (a * DECIMAL_FRACTIONAL) \div 1 = a * DECIMAL_FRACTIONAL
  BY DecimalAssumption
<1> QED BY <1>1 DEF SwapReturn, Decimal, Times, Gross, Left

LEMMA LeftBounds ==
  ASSUME NEW o \in Nat \ {0}, NEW a \in Nat, NEW x \in Nat
  PROVE  /\ o * a * DECIMAL_FRACTIONAL \in Nat
         /\ Left(o, a, x) \in 0 .. a * DECIMAL_FRACTIONAL
<1> DEFINE D == DECIMAL_FRACTIONAL
<1>1. D \in Nat \ {0}
  BY DecimalAssumption
<1> HIDE DEF D
<1>2. a * D \in Nat
  BY <1>1
<1>3. o * (a * D) \in Nat /\ o * (a * D) <= (o + x) * (a * D) /\ o * a * D = o * (a * D)
  BY <1>1, <1>2
<1>4. (o * a * D) \div (o + x) \in Nat /\ (o * a * D) \div (o + x) <= a * D
  BY <1>2, <1>3, DivBounds, DivAtMost, o + x \in Nat \ {0}
<1> QED BY <1>2, <1>3, <1>4 DEF Left, D

LEMMA GrossBounds ==
  ASSUME NEW o \in Nat \ {0}, NEW a \in Nat, NEW x \in Nat
  PROVE  Gross(o, a, x) \in 0 .. a
<1> DEFINE l == Left(o, a, x)
<1>1. l \in 0 .. a * DECIMAL_FRACTIONAL
  BY LeftBounds
<1> HIDE DEF l
<1>2. /\ a * DECIMAL_FRACTIONAL - l \in Nat
      /\ a * DECIMAL_FRACTIONAL - l <= DECIMAL_FRACTIONAL * a
  BY <1>1, DecimalAssumption
<1>3. (a * DECIMAL_FRACTIONAL - l) \div DECIMAL_FRACTIONAL \in 0 .. a
  BY <1>2, DecimalAssumption, DivBounds, DivAtMost
<1> QED BY <1>3 DEF Gross, l

(* A swap never returns more than the pool has.                            *)
LEMMA SwapReturnBounds ==
  ASSUME NEW o \in Nat \ {0}, NEW a \in Nat, NEW x \in Nat
  PROVE  SwapReturn(o, a, x) \in 0 .. a
<1>1. Gross(o, a, x) \in 0 .. a
  BY GrossBounds
<1>2. SwapReturn(o, a, x) \in 0 .. Gross(o, a, x)
  BY <1>1, SwapReturnIs, LessPart, DecimalAssumption, CommissionAssumption
<1> QED BY <1>1, <1>2

(* It returns all of it only if more is offered than a Decimal has parts.  *)
LEMMA SwapLeavesSome ==
  ASSUME NEW o \in Nat \ {0}, NEW a \in Nat \ {0}, NEW x \in Nat, o + x <= DECIMAL_FRACTIONAL
  PROVE  SwapReturn(o, a, x) \in 0 .. a - 1
<1> DEFINE D == DECIMAL_FRACTIONAL
           l == Left(o, a, x)
<1>1. D \in Nat \ {0}
  BY DecimalAssumption
<1>2. l \in 0 .. a * D /\ o * a * D \in Nat
  BY LeftBounds
<1>3. l >= 1
  <2>1. o * a >= 1
    OBVIOUS
  <2>2. o * a * D >= D
    BY <2>1, <1>1
  <2>3. (o + x) * 1 <= o * a * D
    BY <2>2, <1>1, <1>2
  <2> QED BY <2>3, <1>2, DivAtLeast, o + x \in Nat \ {0} DEF Left
<1> HIDE DEF D, l
<1>4. a * D - l \in Nat /\ a * D - l < D * a
  BY <1>1, <1>2, <1>3
<1>5. (a * D - l) \div D < a
  BY <1>1, <1>4, DivBelow
<1>6. Gross(o, a, x) \in 0 .. a - 1
  BY <1>5, GrossBounds DEF Gross, D, l
<1>7. SwapReturn(o, a, x) \in 0 .. Gross(o, a, x)
  BY <1>6, SwapReturnIs, LessPart, DecimalAssumption, CommissionAssumption
<1> QED BY <1>6, <1>7

(* Who offers more gets no less, whatever rounding and commission take.    *)
LEMMA SwapReturnMonotone ==
  ASSUME NEW o \in Nat \ {0}, NEW a \in Nat, NEW x \in Nat, NEW y \in Nat, x <= y
  PROVE  SwapReturn(o, a, x) <= SwapReturn(o, a, y)
<1> DEFINE D == DECIMAL_FRACTIONAL
           k == Left(o, a, x)
           l == Left(o, a, y)
<1>1. D \in Nat \ {0} /\ k \in 0 .. a * D /\ l \in 0 .. a * D /\ o * a * D \in Nat
  BY DecimalAssumption, LeftBounds
<1>2. l <= k
  <2>1. o + x \in Nat \ {0} /\ o + y \in Nat \ {0} /\ o + x <= o + y
    OBVIOUS
  <2> DEFINE n == o * a * DECIMAL_FRACTIONAL
  <2>2. n \in Nat
    BY <1>1
  <2> HIDE DEF n
  <2>3. n \div (o + y) <= n \div (o + x)
    BY <2>1, <2>2, DivAntitone
  <2> QED BY <2>3 DEF Left, n
<1> HIDE DEF D, k, l
<1>3. a * D - k \in Nat /\ a * D - l \in Nat /\ a * D - k <= a * D - l
  BY <1>1, <1>2
<1>4. (a * D - k) \div D <= (a * D - l) \div D
  BY <1>1, <1>3, DivMonotone
<1>5. Gross(o, a, x) <= Gross(o, a, y) /\ Gross(o, a, x) \in Nat /\ Gross(o, a, y) \in Nat
  BY <1>4, GrossBounds DEF Gross, D, k, l
<1> QED BY <1>5, SwapReturnIs, LessPartMonotone, DecimalAssumption, CommissionAssumption

(* In a pool of at least as much uusd as asset, one uusd more buys one     *)
(* unit of the asset more at most.                                         *)
LEMMA LeftNext ==
  ASSUME NEW o \in Nat \ {0}, NEW a \in Nat, a <= o, NEW x \in Nat
  PROVE  Left(o, a, x) <= Left(o, a, x + 1) + DECIMAL_FRACTIONAL
<1> DEFINE D == DECIMAL_FRACTIONAL
           n == o * a * DECIMAL_FRACTIONAL
           k == Left(o, a, x)
           l == Left(o, a, x + 1)
           u == o + x
<1>1. D \in Nat \ {0} /\ n \in Nat /\ u \in Nat \ {0} /\ o <= u
  BY DecimalAssumption, LeftBounds
<1>2. k \in Nat /\ u * k <= n
  BY <1>1, DivBounds DEF Left
<1>3. l \in Nat /\ (u + 1) * l <= n /\ n < (u + 1) * l + (u + 1)
  <2>1. u + 1 \in Nat \ {0} /\ o + (x + 1) = u + 1
    BY <1>1
  <2> HIDE DEF u
  <2> QED BY <1>1, <2>1, DivBounds DEF Left
<1>4. n <= (o * o) * D
  <2>1. o * a \in Nat /\ o * o \in Nat /\ o * a <= o * o
    OBVIOUS
  <2> HIDE DEF D
  <2>2. (o * a) * D <= (o * o) * D
    BY <1>1, <2>1
  <2> QED BY <2>2 DEF n, D
<1> HIDE DEF D, n, k, l, u
<1> SUFFICES ASSUME k >= l + D + 1
             PROVE  FALSE
  BY <1>1, <1>2, <1>3 DEF D, k, l
<1>5. u * (l + D + 1) <= n
  <2>1. u * (l + D + 1) <= u * k
    BY <1>1, <1>2, <1>3
  <2> QED BY <1>1, <1>2, <1>3, <2>1
<1>6. u * D <= l
  <2>1. u * (l + D + 1) = u * l + u * D + u
    BY <1>1, <1>3
  <2>2. (u + 1) * l + (u + 1) = u * l + l + u + 1
    BY <1>1, <1>3
  <2>3. u * l \in Nat /\ u * D \in Nat
    BY <1>1, <1>3
  <2> QED BY <1>1, <1>3, <1>5, <2>1, <2>2, <2>3
<1>7. (u + 1) * (u * D) <= n
  <2>1. u * D \in Nat
    BY <1>1
  <2>2. (u + 1) * (u * D) <= (u + 1) * l
    BY <1>1, <1>3, <1>6, <2>1
  <2>3. (u + 1) * (u * D) \in Nat /\ (u + 1) * l \in Nat
    BY <1>1, <1>3, <2>1
  <2> QED BY <1>1, <1>3, <2>2, <2>3
<1>8. (o * o) * D < (u + 1) * (u * D)
  <2>1. o * o <= u * u /\ u * u \in Nat /\ o * o \in Nat
    BY <1>1
  <2>2. (o * o) * D <= (u * u) * D
    BY <1>1, <2>1
  <2>3. (u + 1) * (u * D) = (u * u) * D + u * D /\ u * D > 0 /\ (u * u) * D \in Nat /\ u * D \in Nat
    BY <1>1
  <2>4. (o * o) * D \in Nat
    BY <1>1, <2>1
  <2> QED BY <2>2, <2>3, <2>4
<1>9. (o * o) * D \in Nat /\ (u + 1) * (u * D) \in Nat
  BY <1>1
<1> QED BY <1>1, <1>4, <1>7, <1>8, <1>9

LEMMA GrossNext ==
  ASSUME NEW o \in Nat \ {0}, NEW a \in Nat, a <= o, NEW x \in Nat
  PROVE  Gross(o, a, x + 1) <= Gross(o, a, x) + 1
<1> DEFINE D == DECIMAL_FRACTIONAL
           k == a * D - Left(o, a, x)
           l == a * D - Left(o, a, x + 1)
<1>1. D \in Nat \ {0} /\ Left(o, a, x) \in 0 .. a * D /\ Left(o, a, x + 1) \in 0 .. a * D
  BY DecimalAssumption, LeftBounds, x + 1 \in Nat
<1>2. a * D \in Nat
  BY <1>1
<1>3. k \in Nat /\ l \in Nat /\ l <= k + D
  BY <1>1, <1>2, LeftNext
<1> HIDE DEF D, k, l
<1>4. k \div D \in Nat /\ k < D * (k \div D) + D
  BY <1>1, <1>3, DivBounds
<1>5. l < D * (k \div D + 2)
  <2>1. D * (k \div D + 2) = D * (k \div D) + D + D /\ D * (k \div D) \in Nat
    BY <1>1, <1>4
  <2> QED BY <1>1, <1>3, <1>4, <2>1
<1>6. k \div D + 2 \in Nat
  BY <1>4
<1>7. l \div D < k \div D + 2
  BY <1>1, <1>3, <1>5, <1>6, DivBelow
<1>8. l \div D \in Nat
  BY <1>1, <1>3, DivBounds
<1>9. l \div D <= k \div D + 1
  BY <1>4, <1>7, <1>8
<1> QED BY <1>9 DEF Gross, D, k, l

LEMMA SwapReturnNext ==
  ASSUME NEW o \in Nat \ {0}, NEW a \in Nat, a <= o, NEW x \in Nat
  PROVE  SwapReturn(o, a, x + 1) <= SwapReturn(o, a, x) + 1
<1> DEFINE D == DECIMAL_FRACTIONAL
           C == Commission
           g == Gross(o, a, x)
           h == Gross(o, a, x + 1)
<1>1. D \in Nat \ {0} /\ C \in 0 .. D /\ g \in Nat /\ h \in Nat /\ h <= g + 1
  BY DecimalAssumption, CommissionAssumption, GrossBounds, GrossNext, x + 1 \in Nat
<1>2. SwapReturn(o, a, x) = g - ((g * C) \div D) /\ SwapReturn(o, a, x + 1) = h - ((h * C) \div D)
  BY SwapReturnIs, x + 1 \in Nat
<1> HIDE DEF D, C, g, h
<1>3. g + 1 \in Nat /\ g * C \in Nat /\ (g + 1) * C \in Nat /\ g * C <= (g + 1) * C
  BY <1>1
<1>4. h - ((h * C) \div D) <= (g + 1) - (((g + 1) * C) \div D)
  BY <1>1, <1>3, LessPartMonotone
<1>5. (g * C) \div D <= ((g + 1) * C) \div D
  BY <1>1, <1>3, DivMonotone
<1>6. h * C \in Nat
  BY <1>1
<1>7. (g * C) \div D \in Nat /\ ((g + 1) * C) \div D \in Nat /\ (h * C) \div D \in Nat
  BY <1>1, <1>3, <1>6, DivBounds
<1> QED BY <1>1, <1>2, <1>4, <1>5, <1>7

(* compute_terraswap_offer_amount finds the least offer that returns what  *)
(* is asked for, or u128::MAX if no smaller one does: the simulation it    *)
(* searches is monotone despite its two roundings and the commission.      *)
THEOREM OfferLeast ==
  ASSUME NEW a \in Nat, NEW o \in Nat \ {0}, NEW ask \in Nat
  PROVE  LET offer == compute_terraswap_offer_amount(a, o, ask)
         IN /\ offer \in 0 .. Uint128Max
            /\ \A x \in 0 .. Uint128Max - 1 : SwapReturn(o, a, x) >= ask <=> offer <= x
<1> DEFINE S == {x \in Nat : SwapReturn(o, a, x) >= ask}
           offer == compute_terraswap_offer_amount(a, o, ask)
<1>1. offer = Leftmost(S, 0, Uint128Max)
  BY DEF compute_terraswap_offer_amount
<1>2. \A x \in Nat : SwapReturn(o, a, x) \in Nat
  BY SwapReturnBounds
<1>3. \A x, y \in 0 .. Uint128Max : x \in S /\ x <= y => y \in S
  <2>1. ASSUME NEW x \in Nat, NEW y \in Nat, x <= y, SwapReturn(o, a, x) >= ask
        PROVE  SwapReturn(o, a, y) >= ask
    BY <2>1, <1>2, SwapReturnMonotone
  <2> QED BY <2>1
<1>4. \A x \in 0 .. Uint128Max - 1 : x \in S <=> SwapReturn(o, a, x) >= ask
  OBVIOUS
<1> HIDE DEF S, offer
<1>5. Uint128Max \in Nat /\ 0 <= Uint128Max /\ 0 \in Nat
  BY BoundsAssumption
<1>6. offer \in 0 .. Uint128Max
  BY <1>1, <1>5, LeftmostBoundary
<1>7. \A x \in 0 .. Uint128Max - 1 : x \in S <=> offer <= x
  BY <1>1, <1>3, <1>5, LeftmostLeast
<1> QED BY <1>4, <1>6, <1>7 DEF offer

--------------------------------
(* The messages.                                                           *)

Chains == [terraswap : TerraswapPools, astroport : AstroportPools,
           spectrum : Farms, position : Positions]

Sound(c) ==
  /\ c \in Chains
  /\ c.position.shares <= c.spectrum.shares
  /\ c.spectrum.staked <= c.spectrum.lp
  /\ c.spectrum.lp + c.position.loose < c.terraswap.supply

(* No pool can be offered more than a Decimal has parts.                   *)
Fits(c) == Uusd(c) <= DECIMAL_FRACTIONAL /\ Assets(c) <= DECIMAL_FRACTIONAL

(* A message moves tokens, and makes none.                                 *)
NoMore(c, d) == Uusd(d) <= Uusd(c) /\ Assets(d) <= Assets(c)

LEMMA SoundNumbers ==
  ASSUME NEW c, Sound(c)
  PROVE  /\ c.terraswap.asset \in Nat \ {0} /\ c.terraswap.uusd \in Nat \ {0}
         /\ c.terraswap.supply \in Nat
         /\ c.astroport.asset \in Nat \ {0} /\ c.astroport.uusd \in Nat \ {0}
         /\ c.spectrum.lp \in Nat /\ c.spectrum.shares \in Nat /\ c.spectrum.staked \in Nat
         /\ c.position.uusd \in Nat /\ c.position.asset \in Nat /\ c.position.loose \in Nat
         /\ c.position.shares \in Nat /\ c.position.short \in Nat
         /\ c.position.collateral \in Nat /\ c.position.locked \in Nat
BY DEF Sound, Chains, TerraswapPools, AstroportPools, Farms, Positions


LEMMA SimulateIs ==
  ASSUME NEW o, NEW a, NEW x
  PROVE  /\ simulate_terraswap_swap(o, a, x).offerPool = o + x
         /\ simulate_terraswap_swap(o, a, x).askPool = a - SwapReturn(o, a, x)
         /\ simulate_terraswap_swap(o, a, x).return = SwapReturn(o, a, x)
BY DEF simulate_terraswap_swap

(* A chain of the parts given.                                             *)
Chain(t, a, s, p) == [terraswap |-> t, astroport |-> a, spectrum |-> s, position |-> p]


(* A sound chain made of new parts.                                        *)
LEMMA ChainSound ==
  ASSUME NEW t \in TerraswapPools, NEW a \in AstroportPools, NEW s \in Farms, NEW p \in Positions,
         p.shares <= s.shares, s.staked <= s.lp, s.lp + p.loose < t.supply,
         NEW d, d = Chain(t, a, s, p)
  PROVE  /\ Sound(d)
         /\ d.terraswap = t /\ d.astroport = a /\ d.spectrum = s /\ d.position = p
<1>1. d.terraswap = t /\ d.astroport = a /\ d.spectrum = s /\ d.position = p
  BY DEF Chain
<1>2. d \in Chains
  BY DEF Chain, Chains
<1> QED BY <1>1, <1>2 DEF Sound

LEMMA SellKeeps ==
  ASSUME NEW c, Sound(c), Fits(c), NEW offer \in Nat, NEW d \in SellAsset(c, offer)
  PROVE  Sound(d) /\ NoMore(c, d)
<1> DEFINE sim == simulate_terraswap_swap(c.terraswap.asset, c.terraswap.uusd, offer)
           r  == SwapReturn(c.terraswap.asset, c.terraswap.uusd, offer)
           ta == c.terraswap.asset + offer
           tu == c.terraswap.uusd - r
           pa == c.position.asset - offer
           pu == c.position.uusd + r
           t == [c.terraswap EXCEPT !.asset = ta, !.uusd = tu]
           p == [c.position EXCEPT !.asset = pa, !.uusd = pu]
<1>1. offer <= c.position.asset
  BY SoundNumbers DEF SellAsset
<1>2. d = [c EXCEPT !.terraswap.asset = sim.offerPool, !.terraswap.uusd = sim.askPool,
                    !.position.asset = @ - offer, !.position.uusd = @ + sim.return]
  BY DEF SellAsset
<1>3. sim.offerPool = ta /\ sim.askPool = tu /\ sim.return = r
  BY SimulateIs
<1> HIDE DEF sim
<1>4. c.terraswap.asset + offer <= DECIMAL_FRACTIONAL
  BY <1>1, SoundNumbers, DecimalAssumption DEF Fits, Assets
<1>5. r \in 0 .. c.terraswap.uusd - 1
  BY <1>4, SoundNumbers, SwapLeavesSome
<1>6. d = [c EXCEPT !.terraswap.asset = ta, !.terraswap.uusd = tu,
                    !.position.asset = pa, !.position.uusd = pu]
  BY <1>2, <1>3
<1> HIDE DEF r
<1>7. ta \in Nat \ {0} /\ tu \in Nat \ {0} /\ pa \in Nat /\ pu \in Nat
  BY <1>1, <1>5, SoundNumbers
<1>8. /\ ta + c.astroport.asset + pa = Assets(c)
      /\ tu + c.astroport.uusd + pu + c.position.collateral + c.position.locked = Uusd(c)
  BY <1>1, <1>5, SoundNumbers DEF Assets, Uusd
<1> HIDE DEF ta, tu, pa, pu
<1>9. d = Chain(t, c.astroport, c.spectrum, p)
  BY <1>6 DEF Sound, Chains, TerraswapPools, Positions, Chain
<1>10. t \in TerraswapPools /\ p \in Positions
  BY <1>7 DEF Sound, Chains, TerraswapPools, Positions
<1>11. /\ t.asset = ta /\ t.uusd = tu /\ t.supply = c.terraswap.supply
       /\ p.asset = pa /\ p.uusd = pu /\ p.shares = c.position.shares
       /\ p.loose = c.position.loose /\ p.collateral = c.position.collateral
       /\ p.locked = c.position.locked
  BY DEF Sound, Chains, TerraswapPools, Positions
<1> HIDE DEF t, p
<1>12. /\ Sound(d) /\ d.terraswap = t /\ d.astroport = c.astroport /\ d.position = p
  BY <1>9, <1>10, <1>11, ChainSound DEF Sound, Chains
<1>13. Assets(d) = Assets(c) /\ Uusd(d) = Uusd(c)
  BY <1>8, <1>11, <1>12, SoundNumbers DEF Assets, Uusd
<1>14. Assets(c) \in Nat /\ Uusd(c) \in Nat
  BY SoundNumbers DEF Assets, Uusd
<1> QED BY <1>12, <1>13, <1>14 DEF NoMore

LEMMA BuyKeeps ==
  ASSUME NEW c, Sound(c), Fits(c), NEW offer \in Nat, NEW d \in BuyAsset(c, offer)
  PROVE  Sound(d) /\ NoMore(c, d)
<1> DEFINE sim == simulate_terraswap_swap(c.terraswap.uusd, c.terraswap.asset, offer)
           r  == SwapReturn(c.terraswap.uusd, c.terraswap.asset, offer)
           tu == c.terraswap.uusd + offer
           ta == c.terraswap.asset - r
           pu == c.position.uusd - offer
           pa == c.position.asset + r
           t == [c.terraswap EXCEPT !.uusd = tu, !.asset = ta]
           p == [c.position EXCEPT !.uusd = pu, !.asset = pa]
<1>1. offer <= c.position.uusd
  BY SoundNumbers DEF BuyAsset
<1>2. d = [c EXCEPT !.terraswap.uusd = sim.offerPool, !.terraswap.asset = sim.askPool,
                    !.position.uusd = @ - offer, !.position.asset = @ + sim.return]
  BY DEF BuyAsset
<1>3. sim.offerPool = tu /\ sim.askPool = ta /\ sim.return = r
  BY SimulateIs
<1> HIDE DEF sim
<1>4. c.terraswap.uusd + offer <= DECIMAL_FRACTIONAL
  BY <1>1, SoundNumbers, DecimalAssumption DEF Fits, Uusd
<1>5. r \in 0 .. c.terraswap.asset - 1
  BY <1>4, SoundNumbers, SwapLeavesSome
<1>6. d = [c EXCEPT !.terraswap.uusd = tu, !.terraswap.asset = ta,
                    !.position.uusd = pu, !.position.asset = pa]
  BY <1>2, <1>3
<1> HIDE DEF r
<1>7. ta \in Nat \ {0} /\ tu \in Nat \ {0} /\ pa \in Nat /\ pu \in Nat
  BY <1>1, <1>5, SoundNumbers
<1>8. /\ ta + c.astroport.asset + pa = Assets(c)
      /\ tu + c.astroport.uusd + pu + c.position.collateral + c.position.locked = Uusd(c)
  BY <1>1, <1>5, SoundNumbers DEF Assets, Uusd
<1> HIDE DEF ta, tu, pa, pu
<1>9. d = Chain(t, c.astroport, c.spectrum, p)
  BY <1>6 DEF Sound, Chains, TerraswapPools, Positions, Chain
<1>10. t \in TerraswapPools /\ p \in Positions
  BY <1>7 DEF Sound, Chains, TerraswapPools, Positions
<1>11. /\ t.asset = ta /\ t.uusd = tu /\ t.supply = c.terraswap.supply
       /\ p.asset = pa /\ p.uusd = pu /\ p.shares = c.position.shares
       /\ p.loose = c.position.loose /\ p.collateral = c.position.collateral
       /\ p.locked = c.position.locked
  BY DEF Sound, Chains, TerraswapPools, Positions
<1> HIDE DEF t, p
<1>12. /\ Sound(d) /\ d.terraswap = t /\ d.astroport = c.astroport /\ d.position = p
  BY <1>9, <1>10, <1>11, ChainSound DEF Sound, Chains
<1>13. Assets(d) = Assets(c) /\ Uusd(d) = Uusd(c)
  BY <1>8, <1>11, <1>12, SoundNumbers DEF Assets, Uusd
<1>14. Assets(c) \in Nat /\ Uusd(c) \in Nat
  BY SoundNumbers DEF Assets, Uusd
<1> QED BY <1>12, <1>13, <1>14 DEF NoMore

LEMMA SellOnAstroportKeeps ==
  ASSUME NEW c, Sound(c), Fits(c), NEW offer \in Nat, NEW d \in SellOnAstroport(c, offer)
  PROVE  Sound(d) /\ NoMore(c, d)
<1> DEFINE sim == simulate_terraswap_swap(c.astroport.asset, c.astroport.uusd, offer)
           r  == SwapReturn(c.astroport.asset, c.astroport.uusd, offer)
           ta == c.astroport.asset + offer
           tu == c.astroport.uusd - r
           pa == c.position.asset - offer
           pu == c.position.uusd + r
           t == [c.astroport EXCEPT !.asset = ta, !.uusd = tu]
           p == [c.position EXCEPT !.asset = pa, !.uusd = pu]
<1>1. offer <= c.position.asset
  BY SoundNumbers DEF SellOnAstroport
<1>2. d = [c EXCEPT !.astroport.asset = sim.offerPool, !.astroport.uusd = sim.askPool,
                    !.position.asset = @ - offer, !.position.uusd = @ + sim.return]
  BY DEF SellOnAstroport
<1>3. sim.offerPool = ta /\ sim.askPool = tu /\ sim.return = r
  BY SimulateIs
<1> HIDE DEF sim
<1>4. c.astroport.asset + offer <= DECIMAL_FRACTIONAL
  BY <1>1, SoundNumbers, DecimalAssumption DEF Fits, Assets
<1>5. r \in 0 .. c.astroport.uusd - 1
  BY <1>4, SoundNumbers, SwapLeavesSome
<1>6. d = [c EXCEPT !.astroport.asset = ta, !.astroport.uusd = tu,
                    !.position.asset = pa, !.position.uusd = pu]
  BY <1>2, <1>3
<1> HIDE DEF r
<1>7. ta \in Nat \ {0} /\ tu \in Nat \ {0} /\ pa \in Nat /\ pu \in Nat
  BY <1>1, <1>5, SoundNumbers
<1>8. /\ ta + c.terraswap.asset + pa = Assets(c)
      /\ tu + c.terraswap.uusd + pu + c.position.collateral + c.position.locked = Uusd(c)
  BY <1>1, <1>5, SoundNumbers DEF Assets, Uusd
<1> HIDE DEF ta, tu, pa, pu
<1>9. d = Chain(c.terraswap, t, c.spectrum, p)
  BY <1>6 DEF Sound, Chains, AstroportPools, Positions, Chain
<1>10. t \in AstroportPools /\ p \in Positions
  BY <1>7 DEF Sound, Chains, AstroportPools, Positions
<1>11. /\ t.asset = ta /\ t.uusd = tu
       /\ p.asset = pa /\ p.uusd = pu /\ p.shares = c.position.shares
       /\ p.loose = c.position.loose /\ p.collateral = c.position.collateral
       /\ p.locked = c.position.locked
  BY DEF Sound, Chains, AstroportPools, Positions
<1> HIDE DEF t, p
<1>12. /\ Sound(d) /\ d.astroport = t /\ d.terraswap = c.terraswap /\ d.position = p
  BY <1>9, <1>10, <1>11, ChainSound DEF Sound, Chains
<1>13. Assets(d) = Assets(c) /\ Uusd(d) = Uusd(c)
  BY <1>8, <1>11, <1>12, SoundNumbers DEF Assets, Uusd
<1>14. Assets(c) \in Nat /\ Uusd(c) \in Nat
  BY SoundNumbers DEF Assets, Uusd
<1> QED BY <1>12, <1>13, <1>14 DEF NoMore

-----------------------------------------------------------------------------
(* The farm.                                                               *)

LEMMA QuotientNat ==
  ASSUME NEW x \in Nat, NEW u \in Nat, u > 0
  PROVE  x \div u \in Nat
OBVIOUS

LEMMA TimesNat ==
  ASSUME NEW x \in Nat, NEW y \in Nat
  PROVE  Times(x, y) \in Nat
BY DecimalAssumption, QuotientNat, x * y \in Nat DEF Times

LEMMA DecimalNat ==
  ASSUME NEW x \in Nat, NEW y \in Nat, y > 0
  PROVE  Decimal(x, y) \in Nat
BY DecimalAssumption, QuotientNat, x * DECIMAL_FRACTIONAL \in Nat DEF Decimal

(* Redeeming some of the LP tokens leaves something in the pool.           *)
LEMMA RedeemBounds ==
  ASSUME NEW a \in Nat \ {0}, NEW supply \in Nat \ {0}, NEW lp \in Nat
  PROVE  /\ Times(a, Decimal(lp, supply)) \in Nat
         /\ lp < supply => Times(a, Decimal(lp, supply)) < a
<1> DEFINE D == DECIMAL_FRACTIONAL
           q == Decimal(lp, supply)
<1>1. D \in Nat \ {0} /\ q \in Nat
  BY DecimalAssumption, DecimalNat
<1>2. Times(a, q) \in Nat
  BY <1>1, TimesNat
<1>3. ASSUME lp < supply
      PROVE  Times(a, q) < a
  <2> HIDE DEF D
  <2>1. lp * D \in Nat /\ lp * D < supply * D
    BY <1>1, <1>3
  <2>2. (lp * D) \div supply < D
    BY <1>1, <2>1, DivBelow
  <2>3. q < D
    BY <2>2 DEF Decimal, D
  <2> HIDE DEF q
  <2>4. a * q \in Nat /\ a * q < D * a
    BY <1>1, <2>3
  <2>5. (a * q) \div D < a
    BY <1>1, <2>4, DivBelow
  <2> QED BY <2>5 DEF Times, D
<1> QED BY <1>2, <1>3

LEMMA ShareNat ==
  ASSUME NEW f \in Farms, f.staked <= f.lp, NEW amount \in Nat
  PROVE  /\ calc_auto_bond_share(f, amount) \in Nat
         /\ UnbondedShare(f, amount) \in Nat
<1>1. f.lp \in Nat /\ f.shares \in Nat /\ f.staked \in Nat
  BY DEF Farms
<1>2. calc_auto_bond_share(f, amount) \in Nat
  <2>1. CASE f.shares = 0 \/ f.lp = f.staked
    BY <2>1 DEF calc_auto_bond_share
  <2>2. CASE ~(f.shares = 0 \/ f.lp = f.staked)
    <3>1. f.lp - f.staked \in Nat /\ f.lp - f.staked > 0 /\ amount * f.shares \in Nat
      BY <1>1, <2>2
    <3>2. (amount * f.shares) \div (f.lp - f.staked) \in Nat
      BY <3>1, QuotientNat
    <3> QED BY <2>2, <3>2 DEF calc_auto_bond_share, MultiplyRatio
  <2> QED BY <2>1, <2>2
<1> QED BY <1>2 DEF UnbondedShare

LEMMA FarmNumbers ==
  ASSUME NEW c, Sound(c)
  PROVE  /\ LpTokens(c) \in 0 .. c.spectrum.lp - c.spectrum.staked
         /\ LongFarm(c) \in Nat /\ Long(c) \in Nat /\ Short(c) \in Nat
<1> DEFINE n == c.spectrum.lp - c.spectrum.staked
           m == c.position.shares
           k == c.spectrum.shares
<1>1. n \in Nat /\ m \in Nat /\ k \in Nat /\ m <= k
  BY SoundNumbers DEF Sound
<1>2. LpTokens(c) = IF k = 0 THEN 0 ELSE (n * m) \div k
  BY DEF LpTokens, calc_user_auto_balance, MultiplyRatio
<1> HIDE DEF n, m, k
<1>3. LpTokens(c) \in 0 .. n
  <2>1. CASE k # 0
    <3>1. n * m \in Nat /\ n * m <= k * n
      BY <1>1
    <3>2. (n * m) \div k \in Nat /\ (n * m) \div k <= n
      BY <1>1, <2>1, <3>1, DivBounds, DivAtMost
    <3> QED BY <1>1, <1>2, <2>1, <3>2
  <2>2. CASE k = 0
    BY <1>1, <1>2, <2>2
  <2> QED BY <2>1, <2>2
<1>4. LongFarm(c) \in Nat
  <2>1. c.terraswap.supply > 0
    BY SoundNumbers DEF Sound
  <2>2. LpTokens(c) * c.terraswap.asset \in Nat
    BY <1>1, <1>3, SoundNumbers
  <2> QED BY <2>1, <2>2, QuotientNat, SoundNumbers DEF LongFarm, MultiplyRatio
<1> QED BY <1>3, <1>4, SoundNumbers DEF Long, Short, n

(* What a message keeps.                                                   *)
Keeps(c, d) == Sound(d) /\ NoMore(c, d)

LEMMA KeepsFits ==
  ASSUME NEW c, NEW d, Sound(c), Fits(c), Keeps(c, d)
  PROVE  Fits(d)
<1>1. Uusd(c) \in Nat /\ Assets(c) \in Nat /\ Uusd(d) \in Nat /\ Assets(d) \in Nat
  BY SoundNumbers DEF Uusd, Assets, Keeps
<1> QED BY <1>1, DecimalAssumption DEF Keeps, NoMore, Fits

LEMMA KeepsTransitive ==
  ASSUME NEW c, NEW d, NEW e, Sound(c), Keeps(c, d), Keeps(d, e)
  PROVE  Keeps(c, e)
<1>1. /\ Uusd(c) \in Nat /\ Assets(c) \in Nat /\ Uusd(d) \in Nat /\ Assets(d) \in Nat
      /\ Uusd(e) \in Nat /\ Assets(e) \in Nat
  BY SoundNumbers DEF Uusd, Assets, Keeps
<1> QED BY <1>1 DEF Keeps, NoMore

LEMMA KeepsItself ==
  ASSUME NEW c, Sound(c)
  PROVE  Keeps(c, c)
<1>1. Uusd(c) \in Nat /\ Assets(c) \in Nat
  BY SoundNumbers DEF Uusd, Assets
<1> QED BY <1>1 DEF Keeps, NoMore

LEMMA UnbondKeeps ==
  ASSUME NEW c, Sound(c), NEW amount \in Nat, NEW d \in Unbond(c, amount)
  PROVE  /\ Keeps(c, d) /\ d.terraswap = c.terraswap
         /\ d.position.loose = c.position.loose + amount
<1> DEFINE share == UnbondedShare(c.spectrum, amount)
           sl == c.spectrum.lp - amount
           ss == c.spectrum.shares - share
           ps == c.position.shares - share
           pl == c.position.loose + amount
           s == [c.spectrum EXCEPT !.lp = sl, !.shares = ss]
           p == [c.position EXCEPT !.shares = ps, !.loose = pl]
<1>1. share \in Nat
  BY ShareNat DEF Sound, Chains
<1>2. amount <= LpTokens(c) /\ share <= c.position.shares
  BY <1>1, FarmNumbers, SoundNumbers DEF Unbond
<1>3. d = [c EXCEPT !.spectrum.lp = sl, !.spectrum.shares = ss,
                    !.position.shares = ps, !.position.loose = pl]
  BY <1>2 DEF Unbond
<1> HIDE DEF share
<1>4. /\ sl \in Nat /\ ss \in Nat /\ ps \in Nat /\ pl \in Nat
      /\ ps <= ss /\ c.spectrum.staked <= sl /\ sl + pl < c.terraswap.supply
  BY <1>1, <1>2, FarmNumbers, SoundNumbers DEF Sound
<1> HIDE DEF sl, ss, ps, pl
<1>5. d = Chain(c.terraswap, c.astroport, s, p)
  BY <1>3 DEF Sound, Chains, Farms, Positions, Chain
<1>6. s \in Farms /\ p \in Positions
  BY <1>4 DEF Sound, Chains, Farms, Positions
<1>7. /\ s.lp = sl /\ s.shares = ss /\ s.staked = c.spectrum.staked
      /\ p.shares = ps /\ p.loose = pl /\ p.uusd = c.position.uusd /\ p.asset = c.position.asset
      /\ p.collateral = c.position.collateral /\ p.locked = c.position.locked
  BY DEF Sound, Chains, Farms, Positions
<1> HIDE DEF s, p
<1>8. /\ Sound(d) /\ d.terraswap = c.terraswap /\ d.astroport = c.astroport /\ d.position = p
  BY <1>4, <1>5, <1>6, <1>7, ChainSound DEF Sound, Chains
<1>9. NoMore(c, d)
  BY <1>7, <1>8, SoundNumbers DEF NoMore, Assets, Uusd
<1> QED BY <1>7, <1>8, <1>9 DEF Keeps, pl

LEMMA BondKeeps ==
  ASSUME NEW c, Sound(c), NEW amount \in Nat, amount <= c.position.loose, NEW d \in Bond(c, amount)
  PROVE  Keeps(c, d)
<1> DEFINE share == calc_auto_bond_share(c.spectrum, amount)
           sl == c.spectrum.lp + amount
           ss == c.spectrum.shares + share
           ps == c.position.shares + share
           pl == c.position.loose - amount
           s == [c.spectrum EXCEPT !.lp = sl, !.shares = ss]
           p == [c.position EXCEPT !.shares = ps, !.loose = pl]
<1>1. share \in Nat
  BY ShareNat DEF Sound, Chains
<1>2. d = [c EXCEPT !.spectrum.lp = sl, !.spectrum.shares = ss,
                    !.position.shares = ps, !.position.loose = pl]
  BY DEF Bond
<1> HIDE DEF share
<1>3. /\ sl \in Nat /\ ss \in Nat /\ ps \in Nat /\ pl \in Nat
      /\ ps <= ss /\ c.spectrum.staked <= sl /\ sl + pl < c.terraswap.supply
  BY <1>1, SoundNumbers DEF Sound
<1> HIDE DEF sl, ss, ps, pl
<1>4. d = Chain(c.terraswap, c.astroport, s, p)
  BY <1>2 DEF Sound, Chains, Farms, Positions, Chain
<1>5. s \in Farms /\ p \in Positions
  BY <1>3 DEF Sound, Chains, Farms, Positions
<1>6. /\ s.lp = sl /\ s.shares = ss /\ s.staked = c.spectrum.staked
      /\ p.shares = ps /\ p.loose = pl /\ p.uusd = c.position.uusd /\ p.asset = c.position.asset
      /\ p.collateral = c.position.collateral /\ p.locked = c.position.locked
  BY DEF Sound, Chains, Farms, Positions
<1> HIDE DEF s, p
<1>7. /\ Sound(d) /\ d.terraswap = c.terraswap /\ d.astroport = c.astroport /\ d.position = p
  BY <1>3, <1>4, <1>5, <1>6, ChainSound DEF Sound, Chains
<1> QED BY <1>6, <1>7, SoundNumbers DEF Keeps, NoMore, Assets, Uusd

LEMMA RedeemKeeps ==
  ASSUME NEW c, Sound(c), NEW lp \in Nat, lp <= c.position.loose, NEW d \in WithdrawLiquidity(c, lp)
  PROVE  Keeps(c, d)
<1> DEFINE a == AssetFor(c, lp)
           u == UusdFor(c, lp)
           ta == c.terraswap.asset - a
           tu == c.terraswap.uusd - u
           ts == c.terraswap.supply - lp
           pa == c.position.asset + a
           pu == c.position.uusd + u
           pl == c.position.loose - lp
           t == [c.terraswap EXCEPT !.asset = ta, !.uusd = tu, !.supply = ts]
           p == [c.position EXCEPT !.asset = pa, !.uusd = pu, !.loose = pl]
<1>1. lp < c.terraswap.supply /\ c.terraswap.supply \in Nat \ {0}
  BY SoundNumbers DEF Sound
<1>2. a \in 0 .. c.terraswap.asset - 1
  <2>1. c.terraswap.asset \in Nat \ {0}
    BY SoundNumbers
  <2>2. a = Times(c.terraswap.asset, Decimal(lp, c.terraswap.supply))
    BY DEF AssetFor
  <2>3. a \in Nat /\ a < c.terraswap.asset
    BY <1>1, <2>1, <2>2, RedeemBounds
  <2> QED BY <2>1, <2>3
<1>3. u \in 0 .. c.terraswap.uusd - 1
  <2>1. c.terraswap.uusd \in Nat \ {0}
    BY SoundNumbers
  <2>2. u = Times(c.terraswap.uusd, Decimal(lp, c.terraswap.supply))
    BY DEF UusdFor
  <2>3. u \in Nat /\ u < c.terraswap.uusd
    BY <1>1, <2>1, <2>2, RedeemBounds
  <2> QED BY <2>1, <2>3
<1>4. d = [c EXCEPT !.terraswap.asset = ta, !.terraswap.uusd = tu, !.terraswap.supply = ts,
                    !.position.asset = pa, !.position.uusd = pu, !.position.loose = pl]
  BY DEF WithdrawLiquidity
<1> HIDE DEF a, u
<1>5. /\ ta \in Nat \ {0} /\ tu \in Nat \ {0} /\ ts \in Nat /\ pa \in Nat /\ pu \in Nat /\ pl \in Nat
      /\ c.spectrum.lp + pl < ts
  BY <1>1, <1>2, <1>3, SoundNumbers DEF Sound
<1>6. /\ ta + c.astroport.asset + pa = Assets(c)
      /\ tu + c.astroport.uusd + pu + c.position.collateral + c.position.locked = Uusd(c)
  BY <1>2, <1>3, SoundNumbers DEF Assets, Uusd
<1> HIDE DEF ta, tu, ts, pa, pu, pl
<1>7. d = Chain(t, c.astroport, c.spectrum, p)
  BY <1>4 DEF Sound, Chains, TerraswapPools, Positions, Chain
<1>8. t \in TerraswapPools /\ p \in Positions
  BY <1>5 DEF Sound, Chains, TerraswapPools, Positions
<1>9. /\ t.asset = ta /\ t.uusd = tu /\ t.supply = ts
      /\ p.asset = pa /\ p.uusd = pu /\ p.loose = pl /\ p.shares = c.position.shares
      /\ p.collateral = c.position.collateral /\ p.locked = c.position.locked
  BY DEF Sound, Chains, TerraswapPools, Positions
<1> HIDE DEF t, p
<1>10. /\ Sound(d) /\ d.terraswap = t /\ d.astroport = c.astroport /\ d.position = p
  BY <1>5, <1>7, <1>8, <1>9, ChainSound DEF Sound, Chains
<1>11. Assets(d) = Assets(c) /\ Uusd(d) = Uusd(c)
  BY <1>6, <1>9, <1>10 DEF Assets, Uusd
<1>12. Assets(c) \in Nat /\ Uusd(c) \in Nat
  BY SoundNumbers DEF Assets, Uusd
<1> QED BY <1>10, <1>11, <1>12 DEF Keeps, NoMore

LEMMA UnstakeKeeps ==
  ASSUME NEW c, Sound(c), NEW lp \in Nat,
         NEW d \in unstake_lp_from_spectrum_and_withdraw_liquidity(c, lp)
  PROVE  Keeps(c, d)
<1>1. PICK e \in Unbond(c, lp) : d \in WithdrawLiquidity(e, lp)
  BY DEF unstake_lp_from_spectrum_and_withdraw_liquidity, Then
<1>2. Keeps(c, e) /\ e.position.loose = c.position.loose + lp
  BY UnbondKeeps
<1>3. Sound(e) /\ lp <= e.position.loose
  BY <1>2, SoundNumbers DEF Keeps
<1>4. Keeps(e, d)
  BY <1>1, <1>3, RedeemKeeps
<1> QED BY <1>2, <1>4, KeepsTransitive

(* A non-empty set of numbers has a least one.                             *)
LEMMA MinIn ==
  ASSUME NEW S \in SUBSET Nat, S # {}
  PROVE  Min(S) \in S
<1>1. PICK n \in S : \A m \in 0 .. n - 1 : m \notin S
  BY LeastNumber
<1>2. \A m \in S : n <= m
  BY <1>1
<1> QED BY <1>1, <1>2 DEF Min

LEMMA IncreaseKeeps ==
  ASSUME NEW c, Sound(c), NEW target \in Int,
         NEW d \in increase_mirror_asset_balance_from_long_farm(c, target)
  PROVE  Keeps(c, d)
<1> DEFINE wanted == target - c.position.asset
           W == WithdrawalsFor(c, wanted)
<1>1. CASE target <= c.position.asset
  BY <1>1, KeepsItself DEF increase_mirror_asset_balance_from_long_farm
<1>2. CASE ~(target <= c.position.asset)
  <2>1. /\ LongFarm(c) # 0 /\ W # {}
        /\ d \in unstake_lp_from_spectrum_and_withdraw_liquidity(c, Min(W))
    BY <1>2 DEF increase_mirror_asset_balance_from_long_farm
  <2>2. wanted \in Nat
    BY <1>2, SoundNumbers
  <2> HIDE DEF wanted
  <2>3. LpTokens(c) * wanted \in Nat /\ LongFarm(c) \in Nat /\ LongFarm(c) > 0
    BY <2>1, <2>2, FarmNumbers, SoundNumbers
  <2>4. WithdrawalEstimate(c, wanted) \in Nat
    BY <2>3, QuotientNat DEF WithdrawalEstimate, MultiplyRatio
  <2>5. W \in SUBSET Nat
    BY <2>4, FarmNumbers, SoundNumbers DEF WithdrawalsFor
  <2> HIDE DEF W
  <2>6. Min(W) \in Nat
    BY <2>1, <2>5, MinIn
  <2> QED BY <2>1, <2>6, UnstakeKeeps
<1> QED BY <1>1, <1>2

-----------------------------------------------------------------------------
(* achieve_delta_neutral_from_state.                                       *)

LEMMA AfterWithdrawalNat ==
  ASSUME NEW c, Sound(c), NEW lp \in Nat
  PROVE  /\ AfterWithdrawal(c, lp).asset \in Nat
         /\ AfterWithdrawal(c, lp).uusd \in Nat
<1>1. c.terraswap.supply \in Nat \ {0} /\ c.terraswap.asset \in Nat \ {0} /\ c.terraswap.uusd \in Nat \ {0}
  BY SoundNumbers DEF Sound
<1>2. AssetFor(c, lp) \in Nat /\ UusdFor(c, lp) \in Nat
  BY <1>1, RedeemBounds DEF AssetFor, UusdFor
<1>3. /\ AfterWithdrawal(c, lp).asset = c.position.asset + AssetFor(c, lp)
      /\ AfterWithdrawal(c, lp).uusd = c.position.uusd + UusdFor(c, lp)
  BY DEF AfterWithdrawal
<1> QED BY <1>2, <1>3, SoundNumbers

LEMMA WithdrawWhenLongKeeps ==
  ASSUME NEW c, Sound(c), NEW lp \in Nat, NEW d \in WithdrawWhenLong(c, lp)
  PROVE  Keeps(c, d)
<1>1. CASE d \in Unbond(c, lp)
  BY <1>1, UnbondKeeps
<1>2. CASE d \in unstake_lp_from_spectrum_and_withdraw_liquidity(c, lp)
  BY <1>2, UnstakeKeeps
<1>3. CASE d = c
  BY <1>3, KeepsItself
<1> QED BY <1>1, <1>2, <1>3 DEF WithdrawWhenLong

LEMMA NeutralFromLongKeeps ==
  ASSUME NEW c, Sound(c), Fits(c), NEW d \in NeutralFromLong(c)
  PROVE  Keeps(c, d)
<1> DEFINE lp == WithdrawalWhenLong(c)
           s  == AfterWithdrawal(c, lp)
           offer == OfferWhenLong(c, s)
<1>1. lp \in Nat
  <2>1. LpTokens(c) + 1 \in Nat /\ 0 \in Nat /\ 0 <= LpTokens(c) + 1
    BY FarmNumbers, SoundNumbers
  <2>2. lp \in 0 .. LpTokens(c) + 1
    BY <2>1, LeftmostBoundary DEF WithdrawalWhenLong
  <2> QED BY <2>1, <2>2
<1>2. PICK e \in WithdrawWhenLong(c, lp) :
        d \in IF offer > 0 THEN swap_cw20_token_for_uusd(c, e, offer) ELSE {e}
  BY DEF NeutralFromLong, Then
<1> HIDE DEF lp
<1>3. offer \in Int
  <2>1. s.asset + 1 \in Nat /\ 0 \in Nat /\ 0 <= s.asset + 1
    BY <1>1, AfterWithdrawalNat
  <2> HIDE DEF s
  <2>2. Leftmost(TurnShort(c, s), 0, s.asset + 1) \in 0 .. s.asset + 1
    BY <2>1, LeftmostBoundary
  <2> QED BY <2>1, <2>2 DEF OfferWhenLong
<1> HIDE DEF offer
<1>4. Keeps(c, e)
  BY <1>1, <1>2, WithdrawWhenLongKeeps
<1>5. Sound(e) /\ Fits(e)
  BY <1>4, KeepsFits DEF Keeps
<1>6. CASE ~(offer > 0)
  BY <1>2, <1>4, <1>6
<1>7. CASE offer > 0
  <2>1. offer \in Nat /\ d \in swap_cw20_token_for_uusd(c, e, offer)
    BY <1>2, <1>3, <1>7
  <2>2. CASE d \in SellOnAstroport(e, offer)
    BY <1>4, <1>5, <2>1, <2>2, SellOnAstroportKeeps, KeepsTransitive DEF Keeps
  <2>3. CASE d \in SellAsset(e, offer)
    BY <1>4, <1>5, <2>1, <2>3, SellKeeps, KeepsTransitive DEF Keeps
  <2> QED BY <2>1, <2>2, <2>3 DEF swap_cw20_token_for_uusd
<1> QED BY <1>6, <1>7

LEMMA NeutralFromShortKeeps ==
  ASSUME NEW c, Sound(c), Fits(c), NEW d \in NeutralFromShort(c)
  PROVE  Keeps(c, d)
<1> DEFINE lp == WithdrawalWhenShort(c)
           s  == AfterWithdrawal(c, lp)
           offer == OfferWhenShort(c, s)
<1>1. lp \in Nat
  <2>1. LpTokens(c) + 1 \in Nat /\ 0 \in Nat /\ 0 <= LpTokens(c) + 1
    BY FarmNumbers, SoundNumbers
  <2>2. lp \in 0 .. LpTokens(c) + 1
    BY <2>1, LeftmostBoundary DEF WithdrawalWhenShort
  <2> QED BY <2>1, <2>2
<1>2. \/ d \in BuyAsset(c, offer)
      \/ \E e \in unstake_lp_from_spectrum_and_withdraw_liquidity(c, lp) : d \in BuyAsset(e, offer)
  BY DEF NeutralFromShort, Then
<1> HIDE DEF lp
<1>3. offer \in Nat
  <2>1. s.uusd + 1 \in Nat /\ 0 \in Nat /\ 0 <= s.uusd + 1
    BY <1>1, AfterWithdrawalNat
  <2> HIDE DEF s
  <2>2. offer \in 0 .. s.uusd + 1
    BY <2>1, LeftmostBoundary DEF OfferWhenShort
  <2> QED BY <2>1, <2>2
<1> HIDE DEF offer
<1>4. CASE d \in BuyAsset(c, offer)
  BY <1>3, <1>4, BuyKeeps DEF Keeps
<1>5. CASE \E e \in unstake_lp_from_spectrum_and_withdraw_liquidity(c, lp) : d \in BuyAsset(e, offer)
  <2>1. PICK e \in unstake_lp_from_spectrum_and_withdraw_liquidity(c, lp) : d \in BuyAsset(e, offer)
    BY <1>5
  <2>2. Keeps(c, e)
    BY <1>1, <2>1, UnstakeKeeps
  <2>3. Sound(e) /\ Fits(e)
    BY <2>2, KeepsFits DEF Keeps
  <2>4. Keeps(e, d)
    BY <1>3, <2>1, <2>3, BuyKeeps DEF Keeps
  <2> QED BY <2>2, <2>4, KeepsTransitive
<1> QED BY <1>2, <1>4, <1>5

LEMMA AchieveKeeps ==
  ASSUME NEW c, Sound(c), Fits(c), NEW d \in achieve_delta_neutral_from_state(c)
  PROVE  Keeps(c, d)
<1>1. Long(c) \in Nat /\ Short(c) \in Nat
  BY FarmNumbers
<1>2. CASE Long(c) > Short(c)
  BY <1>1, <1>2, NeutralFromLongKeeps DEF achieve_delta_neutral_from_state
<1>3. CASE Long(c) < Short(c)
  BY <1>1, <1>3, NeutralFromShortKeeps DEF achieve_delta_neutral_from_state
<1>4. CASE Long(c) = Short(c)
  BY <1>1, <1>4, KeepsItself DEF achieve_delta_neutral_from_state
<1> QED BY <1>1, <1>2, <1>3, <1>4

(* Claiming adds the rewards, and the proceeds if they are unlocked.       *)
LEMMA ClaimSound ==
  ASSUME NEW c, Sound(c), NEW rewards \in Nat
  PROVE  LET d == claim_and_increase_uusd_balance(c, rewards)
         IN Sound(d) /\ Uusd(d) = Uusd(c) + rewards /\ Assets(d) = Assets(c)
<1> DEFINE d  == claim_and_increase_uusd_balance(c, rewards)
           pu == c.position.uusd + rewards + (IF unlocked THEN c.position.locked ELSE 0)
           pl == IF unlocked THEN 0 ELSE c.position.locked
           p  == [c.position EXCEPT !.uusd = pu, !.locked = pl]
<1>1. d = [c EXCEPT !.position.uusd = pu, !.position.locked = pl]
  BY DEF claim_and_increase_uusd_balance
<1>2. pu \in Nat /\ pl \in Nat /\ pu + pl = c.position.uusd + c.position.locked + rewards
  BY SoundNumbers
<1> HIDE DEF d, pu, pl
<1>3. d = Chain(c.terraswap, c.astroport, c.spectrum, p)
  BY <1>1 DEF Sound, Chains, Positions, Chain
<1>4. p \in Positions
  BY <1>2 DEF Sound, Chains, Positions
<1>5. /\ p.uusd = pu /\ p.locked = pl /\ p.asset = c.position.asset /\ p.loose = c.position.loose
      /\ p.shares = c.position.shares /\ p.collateral = c.position.collateral
  BY DEF Sound, Chains, Positions
<1> HIDE DEF p
<1>6. /\ Sound(d) /\ d.terraswap = c.terraswap /\ d.astroport = c.astroport /\ d.position = p
  BY <1>3, <1>4, <1>5, ChainSound DEF Sound, Chains
<1> QED BY <1>2, <1>5, <1>6, SoundNumbers DEF Uusd, Assets, d

-----------------------------------------------------------------------------
(* Prices, ratios and what is minted for collateral.                       *)

LEMMA TimesMonotone ==
  ASSUME NEW x \in Nat, NEW y \in Nat, x <= y, NEW d \in Nat
  PROVE  Times(x, d) <= Times(y, d)
<1>1. x * d \in Nat /\ y * d \in Nat /\ x * d <= y * d
  OBVIOUS
<1> QED BY <1>1, DecimalAssumption, DivMonotone DEF Times

LEMMA ReverseNat ==
  ASSUME NEW d \in Nat, Times(MIRROR_FRACTIONAL, d) > 0
  PROVE  reverse_decimal(d) \in Nat
<1>1. Times(MIRROR_FRACTIONAL, d) \in Nat /\ MIRROR_FRACTIONAL \in Nat
  BY DecimalAssumption, TimesNat
<1> QED BY <1>1, DecimalNat DEF reverse_decimal

LEMMA DivisionNat ==
  ASSUME NEW a \in Nat, NEW b \in Nat, Times(MIRROR_FRACTIONAL, b) > 0
  PROVE  decimal_division(a, b) \in Nat
<1>1. Times(MIRROR_FRACTIONAL, a) \in Nat /\ Times(MIRROR_FRACTIONAL, b) \in Nat
  BY DecimalAssumption, TimesNat
<1> QED BY <1>1, DecimalNat DEF decimal_division

LEMMA MultiplicationNat ==
  ASSUME NEW a \in Nat, NEW b \in Nat
  PROVE  decimal_multiplication(a, b) \in Nat
<1>1. MIRROR_FRACTIONAL \in Nat /\ MIRROR_FRACTIONAL > 0
  BY DecimalAssumption
<1>2. Times(MIRROR_FRACTIONAL, a) \in Nat
  BY <1>1, TimesNat
<1>3. Times(Times(MIRROR_FRACTIONAL, a), b) \in Nat
  BY <1>2, TimesNat
<1> QED BY <1>1, <1>3, DecimalNat DEF decimal_multiplication

LEMMA MidpointNat ==
  /\ midpoint \in Nat
  /\ reverse_decimal(midpoint) \in Nat
  /\ decimal_division(midpoint, DECIMAL_FRACTIONAL) \in Nat
<1>1. midpoint \in Nat
  BY RatioAssumption DEF midpoint
<1>2. reverse_decimal(midpoint) \in Nat
  BY <1>1, RatioAssumption, ReverseNat
<1>3. Times(MIRROR_FRACTIONAL, DECIMAL_FRACTIONAL) > 0
  <2> DEFINE D == DECIMAL_FRACTIONAL
             M == MIRROR_FRACTIONAL
  <2>1. D \in Nat \ {0} /\ M \in Nat \ {0}
    BY DecimalAssumption
  <2> HIDE DEF D, M
  <2>2. M * D \in Nat /\ D * M <= M * D
    BY <2>1
  <2>3. M <= (M * D) \div D
    BY <2>1, <2>2, DivAtLeast
  <2>4. (M * D) \div D \in Nat
    BY <2>1, <2>2, QuotientNat
  <2>5. (M * D) \div D > 0
    BY <2>1, <2>3, <2>4
  <2> QED BY <2>5 DEF Times, D, M
<1>4. decimal_division(midpoint, DECIMAL_FRACTIONAL) \in Nat
  BY <1>1, <1>3, DecimalAssumption, DivisionNat
<1> QED BY <1>1, <1>2, <1>4

(* MintAmount at the price p.                                              *)
MintAt(collateral, p) ==
  Times(Times(collateral, decimal_division(DECIMAL_FRACTIONAL, p)), reverse_decimal(midpoint))

LEMMA MintAtNat ==
  ASSUME NEW p \in Prices, NEW x \in Nat
  PROVE  MintAt(x, p) \in Nat
<1>1. decimal_division(DECIMAL_FRACTIONAL, p) \in Nat
  BY DecimalAssumption, PricesAssumption, DivisionNat
<1>2. Times(x, decimal_division(DECIMAL_FRACTIONAL, p)) \in Nat
  BY <1>1, TimesNat
<1> QED BY <1>2, MidpointNat, TimesNat DEF MintAt

LEMMA MintAtMonotone ==
  ASSUME NEW p \in Prices, NEW x \in Nat, NEW y \in Nat, x <= y
  PROVE  MintAt(x, p) <= MintAt(y, p)
<1> DEFINE q == decimal_division(DECIMAL_FRACTIONAL, p)
<1>1. q \in Nat
  BY DecimalAssumption, PricesAssumption, DivisionNat
<1> HIDE DEF q
<1>2. Times(x, q) \in Nat /\ Times(y, q) \in Nat /\ Times(x, q) <= Times(y, q)
  BY <1>1, TimesNat, TimesMonotone
<1>3. Times(Times(x, q), reverse_decimal(midpoint)) <= Times(Times(y, q), reverse_decimal(midpoint))
  BY <1>2, MidpointNat, TimesMonotone
<1> QED BY <1>3 DEF MintAt, q

LEMMA MintAmountIs ==
  ASSUME NEW x
  PROVE  MintAmount(x) = MintAt(x, price)
BY DEF MintAmount, MintAt

(* The tokens still fit when all uusd has been put down as collateral.     *)
MintFits(c) == Uusd(c) <= DECIMAL_FRACTIONAL
               /\ Assets(c) + MintAmount(Uusd(c)) <= DECIMAL_FRACTIONAL

LEMMA TotalsNat ==
  ASSUME NEW c, Sound(c)
  PROVE  Uusd(c) \in Nat /\ Assets(c) \in Nat
BY SoundNumbers DEF Uusd, Assets

LEMMA MintFitsFits ==
  ASSUME NEW c, Sound(c), price \in Prices, MintFits(c)
  PROVE  Fits(c)
<1>1. Uusd(c) \in Nat /\ Assets(c) \in Nat
  BY TotalsNat
<1>2. MintAmount(Uusd(c)) \in Nat
  BY <1>1, MintAtNat, MintAmountIs
<1> QED BY <1>1, <1>2, DecimalAssumption DEF MintFits, Fits

LEMMA FewerMintFits ==
  ASSUME NEW c, NEW u \in Nat, NEW a \in Nat, Sound(c), price \in Prices,
         Uusd(c) <= u, Assets(c) <= a, u <= DECIMAL_FRACTIONAL, a + MintAmount(u) <= DECIMAL_FRACTIONAL
  PROVE  MintFits(c)
<1>1. Uusd(c) \in Nat /\ Assets(c) \in Nat
  BY TotalsNat
<1>2. MintAmount(Uusd(c)) \in Nat /\ MintAmount(u) \in Nat
  BY <1>1, MintAtNat, MintAmountIs
<1>3. MintAmount(Uusd(c)) <= MintAmount(u)
  BY <1>1, MintAtMonotone, MintAmountIs
<1> QED BY <1>1, <1>2, <1>3, DecimalAssumption DEF MintFits

LEMMA KeepsMintFits ==
  ASSUME NEW c, NEW d, Sound(c), price \in Prices, MintFits(c), Keeps(c, d)
  PROVE  MintFits(d)
<1>1. Uusd(c) \in Nat /\ Assets(c) \in Nat /\ Sound(d)
  BY TotalsNat DEF Keeps
<1> QED BY <1>1, FewerMintFits DEF Keeps, NoMore, MintFits

-----------------------------------------------------------------------------
(* The collateral ratio.                                                   *)

(* Some messages change only what the position has, and neither its shares *)
(* nor its LP tokens.                                                      *)
LEMMA PositionSound ==
  ASSUME NEW c, Sound(c), NEW p \in Positions,
         p.shares = c.position.shares, p.loose = c.position.loose,
         NEW d, d = Chain(c.terraswap, c.astroport, c.spectrum, p)
  PROVE  /\ Sound(d) /\ d.terraswap = c.terraswap /\ d.astroport = c.astroport
         /\ d.spectrum = c.spectrum /\ d.position = p
BY ChainSound DEF Sound, Chains

LEMMA BurnKeeps ==
  ASSUME NEW c, Sound(c), NEW amount \in Int, NEW d \in Burn(c, amount)
  PROVE  Keeps(c, d)
<1> DEFINE pa == c.position.asset - amount
           ps == c.position.short - amount
<1>1. amount > 0 /\ amount <= c.position.asset /\ amount <= c.position.short
  BY SoundNumbers DEF Burn, Short
<1>2. d = [c EXCEPT !.position.asset = pa, !.position.short = ps]
  BY DEF Burn
<1>3. pa \in Nat /\ ps \in Nat /\ pa <= c.position.asset
  BY <1>1, SoundNumbers
<1> HIDE DEF pa, ps
<1> DEFINE p == [c.position EXCEPT !.asset = pa, !.short = ps]
<1>4. d = Chain(c.terraswap, c.astroport, c.spectrum, p)
  BY <1>2 DEF Sound, Chains, Positions, Chain
<1>5. p \in Positions
  BY <1>3 DEF Sound, Chains, Positions
<1>6. /\ p.uusd = c.position.uusd /\ p.asset = pa /\ p.collateral = c.position.collateral
      /\ p.locked = c.position.locked
      /\ p.shares = c.position.shares /\ p.loose = c.position.loose
  BY DEF Sound, Chains, Positions
<1> HIDE DEF p
<1>7. Sound(d) /\ d.terraswap = c.terraswap /\ d.astroport = c.astroport /\ d.position = p
  BY <1>4, <1>5, <1>6, PositionSound
<1> QED BY <1>3, <1>6, <1>7, SoundNumbers DEF Keeps, NoMore, Uusd, Assets

LEMMA BurnToTargetKeeps ==
  ASSUME NEW c, Sound(c), price \in Prices, NEW d \in BurnToTarget(c)
  PROVE  Keeps(c, d)
<1> DEFINE r == reverse_decimal(decimal_multiplication(midpoint, price))
           target == Times(c.position.collateral, r)
           burn   == Short(c) - target
<1>1. r \in Nat
  <2>1. decimal_multiplication(midpoint, price) \in Nat
    BY MidpointNat, PricesAssumption, MultiplicationNat
  <2> QED BY <2>1, PricesAssumption, ReverseNat
<1>2. burn \in Int
  <2> HIDE DEF r
  <2>1. target \in Nat
    BY <1>1, SoundNumbers, TimesNat
  <2> QED BY <2>1, FarmNumbers
<1>3. PICK e \in increase_mirror_asset_balance_from_long_farm(c, burn) : d \in Burn(e, burn)
  BY DEF BurnToTarget, Then
<1> HIDE DEF burn
<1>4. Keeps(c, e)
  BY <1>2, <1>3, IncreaseKeeps
<1>5. Keeps(e, d)
  BY <1>2, <1>3, <1>4, BurnKeeps DEF Keeps
<1> QED BY <1>4, <1>5, KeepsTransitive

LEMMA WithdrawToTargetKeeps ==
  ASSUME NEW c, Sound(c), price \in Prices, NEW d \in WithdrawToTarget(c)
  PROVE  Keeps(c, d)
<1> DEFINE owed == Times(Times(Short(c), price), decimal_division(midpoint, DECIMAL_FRACTIONAL))
           excess == c.position.collateral - owed
           pc == c.position.collateral - excess
           pu == c.position.uusd + excess
<1>1. owed \in Nat
  <2>1. Times(Short(c), price) \in Nat
    BY FarmNumbers, PricesAssumption, TimesNat
  <2> QED BY <2>1, MidpointNat, TimesNat
<1> HIDE DEF owed
<1>2. ~(excess <= 0) /\ d = [c EXCEPT !.position.collateral = pc, !.position.uusd = pu]
  BY DEF WithdrawToTarget, owed
<1>3. pc \in Nat /\ pu \in Nat /\ pc + pu = c.position.collateral + c.position.uusd
  BY <1>1, <1>2, SoundNumbers
<1> HIDE DEF pc, pu, excess
<1> DEFINE p == [c.position EXCEPT !.collateral = pc, !.uusd = pu]
<1>4. d = Chain(c.terraswap, c.astroport, c.spectrum, p)
  BY <1>2 DEF Sound, Chains, Positions, Chain
<1>5. p \in Positions
  BY <1>3 DEF Sound, Chains, Positions
<1>6. /\ p.uusd = pu /\ p.asset = c.position.asset /\ p.collateral = pc
      /\ p.locked = c.position.locked
      /\ p.shares = c.position.shares /\ p.loose = c.position.loose
  BY DEF Sound, Chains, Positions
<1> HIDE DEF p
<1>7. Sound(d) /\ d.terraswap = c.terraswap /\ d.astroport = c.astroport /\ d.position = p
  BY <1>4, <1>5, <1>6, PositionSound
<1> QED BY <1>3, <1>6, <1>7, SoundNumbers DEF Keeps, NoMore, Uusd, Assets

LEMMA SafeRatiosKeep ==
  ASSUME NEW c, Sound(c), price \in Prices, NEW d \in achieve_safe_collateral_ratios(c)
  PROVE  Keeps(c, d)
<1>1. CASE d \in BurnToTarget(c)
  BY <1>1, BurnToTargetKeeps
<1>2. CASE d \in WithdrawToTarget(c)
  BY <1>2, WithdrawToTargetKeeps
<1>3. CASE d = c
  BY <1>3, KeepsItself
<1> QED BY <1>1, <1>2, <1>3 DEF achieve_safe_collateral_ratios

-----------------------------------------------------------------------------
(* Providing liquidity.                                                    *)

LEMMA MinLeast ==
  ASSUME NEW S \in SUBSET Nat, NEW n \in S
  PROVE  Min(S) \in S /\ Min(S) <= n
<1>1. PICK k \in S : \A m \in 0 .. k - 1 : m \notin S
  BY LeastNumber
<1>2. \A m \in S : k <= m
  BY <1>1
<1> QED BY <1>1, <1>2 DEF Min

(* The part of the pool that matches what the position has is no more.     *)
LEMMA PairsAtMost ==
  ASSUME NEW have \in Nat, NEW pool \in Nat \ {0}, NEW r \in Nat, r <= Decimal(have, pool)
  PROVE  Times(pool, r) \in 0 .. have
<1> DEFINE D == DECIMAL_FRACTIONAL
           q == (have * D) \div pool
<1>1. D \in Nat \ {0} /\ have * D \in Nat
  BY DecimalAssumption
<1>2. r <= q
  BY DEF Decimal
<1> HIDE DEF D
<1>3. q \in Nat /\ pool * q <= have * D
  BY <1>1, DivBounds
<1> HIDE DEF q
<1>4. pool * r \in Nat /\ pool * r <= pool * q
  BY <1>2, <1>3
<1>5. pool * r <= D * have
  BY <1>1, <1>3, <1>4
<1>6. (pool * r) \div D <= have
  BY <1>1, <1>4, <1>5, DivAtMost
<1>7. (pool * r) \div D \in Nat
  BY <1>1, <1>4, QuotientNat
<1> QED BY <1>6, <1>7 DEF Times, D

LEMMA MintedLiquidityNat ==
  ASSUME NEW a \in Nat, NEW b \in Nat, NEW poolA \in Nat \ {0}, NEW poolB \in Nat \ {0},
         NEW supply \in Nat
  PROVE  compute_terraswap_liquidity_token_mint_amount(a, b, poolA, poolB, supply) \in Nat
<1> DEFINE m == MultiplyRatio(a, supply, poolA)
           n == MultiplyRatio(b, supply, poolB)
<1>1. a * supply \in Nat /\ b * supply \in Nat
  OBVIOUS
<1>2. m \in Nat /\ n \in Nat
  BY <1>1, QuotientNat DEF MultiplyRatio
<1> HIDE DEF m, n
<1>3. Min({m, n}) \in {m, n}
  BY <1>2, MinIn
<1>4. compute_terraswap_liquidity_token_mint_amount(a, b, poolA, poolB, supply) = Min({m, n})
  BY DEF compute_terraswap_liquidity_token_mint_amount, m, n
<1> QED BY <1>2, <1>3, <1>4

(* What providing liquidity makes of the tokens, before they are bonded.   *)
Provided(c, asset, uusd, lp) ==
  [c EXCEPT !.terraswap = [asset |-> c.terraswap.asset + asset, uusd |-> c.terraswap.uusd + uusd,
                           supply |-> c.terraswap.supply + lp],
            !.position.asset = @ - asset, !.position.uusd = @ - uusd,
            !.position.loose = @ + lp]

LEMMA ProvidedKeeps ==
  ASSUME NEW c, Sound(c), NEW a \in 0 .. c.position.asset, NEW u \in 0 .. c.position.uusd,
         NEW lp \in Nat, NEW d, d = Provided(c, a, u, lp)
  PROVE  Keeps(c, d) /\ lp <= d.position.loose
<1> DEFINE ta == c.terraswap.asset + a
           tu == c.terraswap.uusd + u
           ts == c.terraswap.supply + lp
           pa == c.position.asset - a
           pu == c.position.uusd - u
           pl == c.position.loose + lp
           t == [asset |-> ta, uusd |-> tu, supply |-> ts]
           p == [c.position EXCEPT !.asset = pa, !.uusd = pu, !.loose = pl]
<1>1. d = [c EXCEPT !.terraswap = [asset |-> ta, uusd |-> tu, supply |-> ts],
                    !.position.asset = pa, !.position.uusd = pu, !.position.loose = pl]
  BY DEF Provided
<1>2. /\ ta \in Nat \ {0} /\ tu \in Nat \ {0} /\ ts \in Nat /\ pa \in Nat /\ pu \in Nat /\ pl \in Nat
      /\ c.spectrum.lp + pl < ts /\ lp <= pl
  BY SoundNumbers DEF Sound
<1>3. /\ ta + c.astroport.asset + pa = Assets(c)
      /\ tu + c.astroport.uusd + pu + c.position.collateral + c.position.locked = Uusd(c)
  BY SoundNumbers DEF Assets, Uusd
<1> HIDE DEF ta, tu, ts, pa, pu, pl
<1>4. d = Chain(t, c.astroport, c.spectrum, p)
  BY <1>1 DEF Sound, Chains, Positions, Chain
<1>5. t \in TerraswapPools /\ p \in Positions
  BY <1>2 DEF Sound, Chains, TerraswapPools, Positions
<1>6. /\ t.asset = ta /\ t.uusd = tu /\ t.supply = ts
      /\ p.asset = pa /\ p.uusd = pu /\ p.loose = pl /\ p.shares = c.position.shares
      /\ p.collateral = c.position.collateral /\ p.locked = c.position.locked
  BY DEF Sound, Chains, Positions
<1> HIDE DEF t, p
<1>7. /\ Sound(d) /\ d.terraswap = t /\ d.astroport = c.astroport /\ d.position = p
  BY <1>2, <1>4, <1>5, <1>6, ChainSound DEF Sound, Chains
<1>8. Assets(d) = Assets(c) /\ Uusd(d) = Uusd(c)
  BY <1>3, <1>6, <1>7 DEF Assets, Uusd
<1>9. Assets(c) \in Nat /\ Uusd(c) \in Nat
  BY TotalsNat
<1> QED BY <1>2, <1>6, <1>7, <1>8, <1>9 DEF Keeps, NoMore

LEMMA PairKeeps ==
  ASSUME NEW c, Sound(c),
         NEW d \in pair_uusd_with_mirror_asset_to_provide_liquidity_and_stake(c)
  PROVE  Keeps(c, d)
<1> DEFINE pool == c.terraswap
           have == {Decimal(c.position.uusd, pool.uusd), Decimal(c.position.asset, pool.asset)}
           r    == PairingRatio(c)
           u    == Times(pool.uusd, r)
           a    == Times(pool.asset, r)
           lp   == compute_terraswap_liquidity_token_mint_amount(u, a, pool.uusd, pool.asset,
                                                                 pool.supply)
           e    == Provided(c, a, u, lp)
<1>1. /\ pool.asset \in Nat \ {0} /\ pool.uusd \in Nat \ {0} /\ pool.supply \in Nat
      /\ c.position.uusd \in Nat /\ c.position.asset \in Nat
  BY SoundNumbers
<1>2. have \in SUBSET Nat
  BY <1>1, DecimalNat
<1>3. /\ r \in Nat /\ r <= Decimal(c.position.uusd, pool.uusd)
      /\ r <= Decimal(c.position.asset, pool.asset)
  <2>1. r = Min(have)
    BY DEF PairingRatio
  <2>2. Decimal(c.position.uusd, pool.uusd) \in have /\ Decimal(c.position.asset, pool.asset) \in have
    OBVIOUS
  <2> HIDE DEF have, r
  <2>3. /\ Min(have) \in have /\ Min(have) <= Decimal(c.position.uusd, pool.uusd)
        /\ Min(have) <= Decimal(c.position.asset, pool.asset)
    BY <1>2, <2>2, MinLeast
  <2> QED BY <1>2, <2>1, <2>3
<1> HIDE DEF r
<1>4. u \in 0 .. c.position.uusd /\ a \in 0 .. c.position.asset
  BY <1>1, <1>3, PairsAtMost
<1> HIDE DEF u, a
<1>5. lp \in Nat
  <2>1. u \in Nat /\ a \in Nat
    BY <1>1, <1>4
  <2> QED BY <1>1, <2>1, MintedLiquidityNat
<1>6. d = c \/ d \in Bond(e, lp)
  BY DEF pair_uusd_with_mirror_asset_to_provide_liquidity_and_stake, Provided, r, u, a
<1> HIDE DEF lp, e
<1>7. Keeps(c, e) /\ lp <= e.position.loose
  BY <1>4, <1>5, ProvidedKeeps DEF e
<1>8. CASE d = c
  BY <1>8, KeepsItself
<1>9. CASE d \in Bond(e, lp)
  BY <1>5, <1>7, <1>9, BondKeeps, KeepsTransitive DEF Keeps
<1> QED BY <1>6, <1>8, <1>9

-----------------------------------------------------------------------------
(* delta_neutral_invest.                                                   *)

LEMMA MintAndSellSound ==
  ASSUME NEW c, Sound(c), price \in Prices, MintFits(c), NEW collateral \in 0 .. c.position.uusd,
         NEW d \in MintAndSellShort(c, collateral, MintAmount(collateral))
  PROVE  Sound(d) /\ Fits(d)
<1> DEFINE mint == MintAmount(collateral)
           sim == simulate_terraswap_swap(c.terraswap.asset, c.terraswap.uusd, mint)
           r  == SwapReturn(c.terraswap.asset, c.terraswap.uusd, mint)
           ta == c.terraswap.asset + mint
           tu == c.terraswap.uusd - r
           pu == c.position.uusd - collateral
           pc == c.position.collateral + collateral
           ps == c.position.short + mint
           pl == c.position.locked + r
           t == [c.terraswap EXCEPT !.asset = ta, !.uusd = tu]
           p == [c.position EXCEPT !.uusd = pu, !.collateral = pc, !.short = ps, !.locked = pl]
<1>1. d = [c EXCEPT !.terraswap.asset = sim.offerPool, !.terraswap.uusd = sim.askPool,
                    !.position.uusd = @ - collateral,
                    !.position.collateral = @ + collateral,
                    !.position.short = @ + mint,
                    !.position.locked = @ + sim.return]
  BY DEF MintAndSellShort, AfterShortSale
<1>2. sim.offerPool = ta /\ sim.askPool = tu /\ sim.return = r
  BY SimulateIs
<1> HIDE DEF sim
<1>3. mint \in Nat /\ MintAmount(Uusd(c)) \in Nat /\ mint <= MintAmount(Uusd(c))
  <2>1. Uusd(c) \in Nat /\ collateral \in Nat /\ collateral <= Uusd(c)
    BY SoundNumbers DEF Uusd
  <2> QED BY <2>1, MintAtNat, MintAtMonotone, MintAmountIs
<1>4. Uusd(c) <= DECIMAL_FRACTIONAL /\ Assets(c) + mint <= DECIMAL_FRACTIONAL
  BY <1>3, TotalsNat, DecimalAssumption DEF MintFits
<1>5. c.terraswap.asset + mint <= DECIMAL_FRACTIONAL
  <2> HIDE DEF mint
  <2> QED BY <1>3, <1>4, SoundNumbers, DecimalAssumption DEF Assets
<1> HIDE DEF mint
<1>6. r \in 0 .. c.terraswap.uusd - 1
  BY <1>3, <1>5, SoundNumbers, SwapLeavesSome
<1>7. d = [c EXCEPT !.terraswap.asset = ta, !.terraswap.uusd = tu,
                    !.position.uusd = pu, !.position.collateral = pc,
                    !.position.short = ps, !.position.locked = pl]
  BY <1>1, <1>2
<1> HIDE DEF r
<1>8. /\ ta \in Nat \ {0} /\ tu \in Nat \ {0} /\ pu \in Nat /\ pc \in Nat /\ ps \in Nat /\ pl \in Nat
  BY <1>3, <1>6, SoundNumbers
<1>9. /\ ta + c.astroport.asset + c.position.asset = Assets(c) + mint
      /\ tu + c.astroport.uusd + pu + pc + pl = Uusd(c)
  BY <1>3, <1>6, SoundNumbers DEF Assets, Uusd
<1> HIDE DEF ta, tu, pu, pc, ps, pl
<1>10. d = Chain(t, c.astroport, c.spectrum, p)
  BY <1>7 DEF Sound, Chains, TerraswapPools, Positions, Chain
<1>11. t \in TerraswapPools /\ p \in Positions
  BY <1>8 DEF Sound, Chains, TerraswapPools, Positions
<1>12. /\ t.asset = ta /\ t.uusd = tu /\ t.supply = c.terraswap.supply
       /\ p.asset = c.position.asset /\ p.uusd = pu /\ p.shares = c.position.shares
       /\ p.loose = c.position.loose /\ p.collateral = pc /\ p.locked = pl
  BY DEF Sound, Chains, TerraswapPools, Positions
<1> HIDE DEF t, p
<1>13. /\ Sound(d) /\ d.terraswap = t /\ d.astroport = c.astroport /\ d.position = p
  BY <1>10, <1>11, <1>12, ChainSound DEF Sound, Chains
<1>14. Assets(d) = Assets(c) + mint /\ Uusd(d) = Uusd(c)
  BY <1>9, <1>12, <1>13 DEF Assets, Uusd
<1> QED BY <1>4, <1>13, <1>14 DEF Fits

LEMMA LongSwapNat ==
  ASSUME NEW c, NEW mint
  PROVE  LongSwap(c, mint) \in Nat
<1>1. Uint128Max \in Nat /\ 0 \in Nat /\ 0 <= Uint128Max
  BY BoundsAssumption
<1>2. LongSwap(c, mint) \in 0 .. Uint128Max
  BY <1>1, LeftmostBoundary DEF LongSwap, compute_terraswap_offer_amount
<1> QED BY <1>1, <1>2

LEMMA InvestSound ==
  ASSUME NEW c, Sound(c), price \in Prices, MintFits(c), NEW budget \in 0 .. c.position.uusd,
         NEW d \in delta_neutral_invest(c, budget)
  PROVE  Sound(d)
<1> DEFINE found == CollateralSearch(c, budget)
           mint  == MintAmount(found.collateral)
<1>1. PICK e \in MintAndSellShort(c, found.collateral, mint) : d \in BuyAsset(e, LongSwap(c, mint))
  BY DEF delta_neutral_invest, Then
<1>2. found.collateral \in 0 .. c.position.uusd
  <2>1. budget \in Nat
    BY SoundNumbers
  <2>2. found.collateral \in 0 .. budget
    BY <2>1, CollateralBoundary
  <2> QED BY <2>1, <2>2, SoundNumbers
<1> HIDE DEF found
<1>3. Sound(e) /\ Fits(e)
  BY <1>1, <1>2, MintAndSellSound
<1>4. LongSwap(c, mint) \in Nat
  BY LongSwapNat
<1> QED BY <1>1, <1>3, <1>4, BuyKeeps

-----------------------------------------------------------------------------
(* The transactions.                                                       *)

LEMMA ReinvestSound ==
  ASSUME NEW c, Sound(c), price \in Prices, MintFits(c), NEW d \in DeltaNeutralReinvest(c)
  PROVE  Sound(d)
<1>1. c.position.uusd \in 0 .. c.position.uusd
  BY SoundNumbers
<1>2. CASE d \in delta_neutral_invest(c, c.position.uusd)
  BY <1>1, <1>2, InvestSound
<1>3. CASE d = c
  BY <1>3
<1> QED BY <1>2, <1>3 DEF DeltaNeutralReinvest

LEMMA ReinvestMessagesSound ==
  ASSUME NEW asked, NEW outcomes, price \in Prices,
         \A c \in outcomes : Sound(c) /\ MintFits(c),
         NEW d \in get_reinvest_internal_messages(asked, outcomes)
  PROVE  Sound(d)
<1>1. CASE d \in outcomes
  BY <1>1
<1>2. CASE d \notin outcomes
  <2>1. PICK e \in Then(outcomes, pair_uusd_with_mirror_asset_to_provide_liquidity_and_stake) :
          d \in DeltaNeutralReinvest(e)
    BY <1>2 DEF get_reinvest_internal_messages, Then
  <2>2. PICK c \in outcomes : e \in pair_uusd_with_mirror_asset_to_provide_liquidity_and_stake(c)
    BY <2>1 DEF Then
  <2>3. Keeps(c, e)
    BY <2>2, PairKeeps
  <2>4. Sound(e) /\ MintFits(e)
    BY <2>2, <2>3, KeepsMintFits DEF Keeps
  <2> QED BY <2>1, <2>4, ReinvestSound
<1> QED BY <1>1, <1>2

(* After claiming the tokens still fit, if there was room for the rewards. *)
Room(c, more) ==
  /\ Uusd(c) + more <= DECIMAL_FRACTIONAL
  /\ Assets(c) + MintAmount(Uusd(c) + more) <= DECIMAL_FRACTIONAL

LEMMA AchieveSound ==
  ASSUME NEW c, Sound(c), price \in Prices, NEW rewards \in Nat, Room(c, rewards),
         NEW d \in achieve_delta_neutral(c, rewards)
  PROVE  Sound(d) /\ MintFits(d)
<1> DEFINE e == claim_and_increase_uusd_balance(c, rewards)
<1>1. Sound(e) /\ Uusd(e) = Uusd(c) + rewards /\ Assets(e) = Assets(c)
  BY ClaimSound
<1>2. d \in achieve_delta_neutral_from_state(e)
  BY DEF achieve_delta_neutral
<1> HIDE DEF e
<1>3. MintFits(e)
  BY <1>1 DEF MintFits, Room
<1>4. Fits(e)
  BY <1>1, <1>3, MintFitsFits
<1>5. Keeps(e, d)
  BY <1>1, <1>2, <1>4, AchieveKeeps
<1> QED BY <1>1, <1>3, <1>5, KeepsMintFits DEF Keeps

LEMMA RebalanceSound ==
  ASSUME NEW c, Sound(c), price \in Prices, NEW rewards \in Nat, Room(c, rewards),
         NEW d \in RebalanceOutcomes(c, rewards)
  PROVE  Sound(d)
<1> DEFINE outcomes == Then(achieve_delta_neutral(c, rewards), achieve_safe_collateral_ratios)
<1>1. ASSUME NEW e \in outcomes
      PROVE  Sound(e) /\ MintFits(e)
  <2>1. PICK b \in achieve_delta_neutral(c, rewards) : e \in achieve_safe_collateral_ratios(b)
    BY DEF Then
  <2>2. Sound(b) /\ MintFits(b)
    BY AchieveSound
  <2>3. Keeps(b, e)
    BY <2>1, <2>2, SafeRatiosKeep
  <2> QED BY <2>2, <2>3, KeepsMintFits DEF Keeps
<1>2. d \in get_reinvest_internal_messages(c, outcomes)
  BY DEF RebalanceOutcomes
<1> HIDE DEF outcomes
<1> QED BY <1>1, <1>2, ReinvestMessagesSound

(* All collateral is redeemed.                                             *)
Redeemed(d) == [d EXCEPT !.position.uusd = @ + d.position.collateral, !.position.collateral = 0]

LEMMA RedeemedSound ==
  ASSUME NEW c, Sound(c), NEW d, d = Redeemed(c)
  PROVE  Sound(d)
<1> DEFINE pu == c.position.uusd + c.position.collateral
           p  == [c.position EXCEPT !.uusd = pu, !.collateral = 0]
<1>1. d = [c EXCEPT !.position.uusd = pu, !.position.collateral = 0]
  BY DEF Redeemed
<1>2. pu \in Nat
  BY SoundNumbers
<1> HIDE DEF pu
<1>3. d = Chain(c.terraswap, c.astroport, c.spectrum, p)
  BY <1>1 DEF Sound, Chains, Positions, Chain
<1>4. p \in Positions /\ p.shares = c.position.shares /\ p.loose = c.position.loose
  BY <1>2 DEF Sound, Chains, Positions
<1> HIDE DEF p
<1> QED BY <1>3, <1>4, PositionSound

LEMMA CloseSound ==
  ASSUME NEW c, Sound(c), price \in Prices, NEW rewards \in Nat, Room(c, rewards),
         NEW d \in CloseOutcomes(c, rewards)
  PROVE  Sound(d)
<1>1. PICK b \in achieve_delta_neutral(c, rewards) : d \in close_cdp_and_collect_fees(b)
  BY DEF CloseOutcomes, Then
<1>2. Sound(b)
  BY AchieveSound
<1>3. CASE d = b
  BY <1>2, <1>3
<1>4. CASE d # b
  <2>1. PICK e \in increase_mirror_asset_balance_from_long_farm(b, Short(b)) :
          \E f \in Burn(e, Short(e)) : d = Redeemed(f)
    BY <1>1, <1>4 DEF close_cdp_and_collect_fees, Then, Redeemed
  <2>2. PICK f \in Burn(e, Short(e)) : d = Redeemed(f)
    BY <2>1
  <2>3. Short(b) \in Int
    BY <1>2, FarmNumbers
  <2>4. Sound(e)
    BY <1>2, <2>1, <2>3, IncreaseKeeps DEF Keeps
  <2>5. Short(e) \in Int
    BY <2>4, FarmNumbers
  <2>6. Sound(f)
    BY <2>2, <2>4, <2>5, BurnKeeps DEF Keeps
  <2> QED BY <2>2, <2>6, RedeemedSound
<1> QED BY <1>3, <1>4

(* The position's uusd become another amount.                              *)
WithUusd(c, uusd) == [c EXCEPT !.position.uusd = uusd]

LEMMA WithUusdSound ==
  ASSUME NEW c, Sound(c), NEW uusd \in Nat, NEW d, d = WithUusd(c, uusd)
  PROVE  /\ Sound(d) /\ d.position.uusd = uusd
         /\ Uusd(d) <= Uusd(c) + uusd /\ Assets(d) = Assets(c)
<1> DEFINE p == [c.position EXCEPT !.uusd = uusd]
<1>1. d = Chain(c.terraswap, c.astroport, c.spectrum, p)
  BY DEF Sound, Chains, Positions, Chain, WithUusd
<1>2. p \in Positions
  BY DEF Sound, Chains, Positions
<1>3. /\ p.uusd = uusd /\ p.asset = c.position.asset /\ p.collateral = c.position.collateral
      /\ p.locked = c.position.locked
      /\ p.shares = c.position.shares /\ p.loose = c.position.loose
  BY DEF Sound, Chains, Positions
<1> HIDE DEF p
<1>4. Sound(d) /\ d.terraswap = c.terraswap /\ d.astroport = c.astroport /\ d.position = p
  BY <1>1, <1>2, <1>3, PositionSound
<1> QED BY <1>3, <1>4, SoundNumbers DEF Uusd, Assets

-----------------------------------------------------------------------------
(* The type invariant.                                                     *)

LEMMA TypeIsSound ==
  TypeOK <=> /\ Sound(chain)
             /\ price \in Prices /\ unlocked \in BOOLEAN
             /\ phase \in {"none", "open", "closed", "left"} /\ moves \in 0 .. MaxMoves
BY DEF TypeOK, Sound, Chains

LEMMA InitTypeOK == Init => TypeOK
<1> SUFFICES ASSUME Init PROVE TypeOK
  OBVIOUS
<1>1. PICK m \in InitialMarkets :
        chain = [terraswap |-> m.terraswap, astroport |-> m.astroport,
                 spectrum |-> m.spectrum, position |-> NoPosition]
  BY DEF Init
<1>2. /\ m.terraswap \in TerraswapPools /\ m.astroport \in AstroportPools /\ m.spectrum \in Farms
      /\ m.spectrum.staked <= m.spectrum.lp /\ m.spectrum.lp < m.terraswap.supply
  BY MarketsAssumption
<1>3. m.spectrum.shares \in Nat /\ m.spectrum.lp \in Nat
  BY <1>2 DEF Farms
<1>4. NoPosition \in Positions /\ NoPosition.shares = 0 /\ NoPosition.loose = 0
  BY DEF NoPosition, Positions
<1>5. chain = Chain(m.terraswap, m.astroport, m.spectrum, NoPosition)
  BY <1>1 DEF Chain
<1>6. /\ NoPosition.shares <= m.spectrum.shares
      /\ m.spectrum.lp + NoPosition.loose < m.terraswap.supply
  BY <1>2, <1>3, <1>4
<1>7. Sound(chain)
  BY <1>2, <1>4, <1>5, <1>6, ChainSound
<1>8. /\ price \in Prices /\ unlocked \in BOOLEAN
      /\ phase \in {"none", "open", "closed", "left"} /\ moves \in 0 .. MaxMoves
  <2>1. price \in Prices /\ phase \in {"none", "open", "closed", "left"} /\ moves = 0
    BY DEF Init
  <2>2. unlocked \in BOOLEAN
    BY Zenon DEF Init
  <2>3. moves \in 0 .. MaxMoves
    BY <2>1, BoundsAssumption
  <2> QED BY <2>1, <2>2, <2>3
<1> QED BY <1>7, <1>8, TypeIsSound

(* The variables other than chain are disturbed by a few assignments only. *)
OthersOK == /\ price \in Prices /\ unlocked \in BOOLEAN
            /\ phase \in {"none", "open", "closed", "left"} /\ moves \in 0 .. MaxMoves

LEMMA TypeOKNext ==
  ASSUME Sound(chain)', OthersOK'
  PROVE  TypeOK'
BY DEF TypeOK, Sound, Chains, OthersOK

LEMMA HasRoom ==
  ASSUME FitsDecimal, NEW more \in Rewards \cup Deposits \cup {0}
  PROVE  Room(chain, more)
BY DEF FitsDecimal, Room

LEMMA Counted ==
  ASSUME TypeOK, NEW n \in {0, 1}, CountMoves(n)
  PROVE  moves' \in 0 .. MaxMoves
BY BoundsAssumption DEF TypeOK, CountMoves

LEMMA RewardsCounted ==
  ASSUME TypeOK, NEW rewards \in Rewards, CountRewards(rewards)
  PROVE  moves' \in 0 .. MaxMoves
<1>1. (IF rewards > 0 THEN 1 ELSE 0) \in {0, 1}
  OBVIOUS
<1> QED BY <1>1, Counted DEF CountRewards

LEMMA OpenTypeOK ==
  ASSUME TypeOK, FitsDecimal, NEW budget \in Deposits, open_position(budget)
  PROVE  TypeOK'
<1> DEFINE c == WithUusd(chain, budget)
<1>1. Sound(chain) /\ price \in Prices /\ budget \in Nat /\ Room(chain, budget)
  BY TypeIsSound, TradesAssumption, HasRoom
<1>2. chain' \in delta_neutral_invest(c, budget)
  BY DEF open_position, WithUusd
<1>3. /\ Sound(c) /\ c.position.uusd = budget
      /\ Uusd(c) <= Uusd(chain) + budget /\ Assets(c) = Assets(chain)
  BY <1>1, WithUusdSound
<1> HIDE DEF c
<1>4. MintFits(c)
  <2>1. Uusd(chain) + budget \in Nat /\ Assets(chain) \in Nat /\ Assets(c) <= Assets(chain)
    BY <1>1, <1>3, TotalsNat
  <2> QED BY <1>1, <1>3, <2>1, FewerMintFits DEF Room
<1>5. budget \in 0 .. c.position.uusd
  BY <1>1, <1>3
<1>6. Sound(chain')
  BY <1>1, <1>2, <1>3, <1>4, <1>5, InvestSound
<1>7. OthersOK'
  BY DEF TypeOK, open_position, OthersOK
<1> QED BY <1>6, <1>7, TypeOKNext

LEMMA RebalanceTypeOK ==
  ASSUME TypeOK, FitsDecimal, NEW rewards \in Rewards, NEW fresh \in BOOLEAN,
         rebalance_and_reinvest(rewards, fresh)
  PROVE  TypeOK'
<1>1. Sound(chain) /\ price \in Prices /\ rewards \in Nat /\ Room(chain, rewards)
  BY TypeIsSound, TradesAssumption, HasRoom
<1>2. CASE chain' \in RebalanceOutcomes(chain, rewards)
  <2>1. Sound(chain')
    BY <1>1, <1>2, RebalanceSound
  <2> QED BY <2>1, RewardsCounted, TypeOKNext DEF TypeOK, rebalance_and_reinvest, OthersOK
<1>3. CASE chain' \in achieve_delta_neutral(chain, rewards)
  <2>1. Sound(chain')
    BY <1>1, <1>3, AchieveSound
  <2> QED BY <2>1, RewardsCounted, TypeOKNext DEF TypeOK, rebalance_and_reinvest, OthersOK
<1> QED BY <1>2, <1>3 DEF rebalance_and_reinvest

LEMMA LiquidatedTypeOK ==
  ASSUME TypeOK, FitsDecimal, NEW rewards \in Rewards, rebalance_liquidated(rewards)
  PROVE  TypeOK'
<1>1. Sound(chain) /\ price \in Prices /\ rewards \in Nat /\ Room(chain, rewards)
  BY TypeIsSound, TradesAssumption, HasRoom
<1>2. PICK c \in achieve_delta_neutral(chain, rewards) : chain' = WithUusd(c, 0)
  BY DEF rebalance_liquidated, WithUusd
<1>3. Sound(c)
  BY <1>1, AchieveSound
<1>4. Sound(chain')
  BY <1>2, <1>3, WithUusdSound
<1> QED BY <1>4, RewardsCounted, TypeOKNext DEF TypeOK, rebalance_liquidated, OthersOK

LEMMA CloseTypeOK ==
  ASSUME TypeOK, FitsDecimal, NEW rewards \in Rewards, close_position(rewards)
  PROVE  TypeOK'
<1>1. Sound(chain) /\ price \in Prices /\ rewards \in Nat /\ Room(chain, rewards)
  BY TypeIsSound, TradesAssumption, HasRoom
<1>2. PICK c \in CloseOutcomes(chain, rewards) : chain' = WithUusd(c, 0)
  BY DEF close_position, WithUusd
<1>3. Sound(c)
  BY <1>1, CloseSound
<1>4. Sound(chain')
  BY <1>2, <1>3, WithUusdSound
<1> QED BY <1>4, RewardsCounted, TypeOKNext DEF TypeOK, close_position, OthersOK

-----------------------------------------------------------------------------
(* The moves of the others.                                                *)

LEMMA NextFits ==
  ASSUME FitsDecimal', price \in Prices, price' = price,
         Uusd(chain') \in Nat, Assets(chain') \in Nat
  PROVE  Uusd(chain') <= DECIMAL_FRACTIONAL /\ Assets(chain') <= DECIMAL_FRACTIONAL
<1>1. /\ Uusd(chain') + 0 <= DECIMAL_FRACTIONAL
      /\ Assets(chain') + MintAt(Uusd(chain') + 0, price) <= DECIMAL_FRACTIONAL
  BY DEF FitsDecimal, MintAmount, MintAt
<1>2. Uusd(chain') + 0 \in Nat
  OBVIOUS
<1>3. MintAt(Uusd(chain') + 0, price) \in Nat
  BY <1>2, MintAtNat
<1> QED BY <1>1, <1>2, <1>3, DecimalAssumption

LEMMA AssetSoldOnTerraswap ==
  ASSUME Sound(chain), price \in Prices, FitsDecimal', NEW offer \in Nat,
         OthersTrade("terraswap", "asset", "uusd", offer)
  PROVE  Sound(chain')
<1> DEFINE sim == simulate_terraswap_swap(chain.terraswap.asset, chain.terraswap.uusd, offer)
           r  == SwapReturn(chain.terraswap.asset, chain.terraswap.uusd, offer)
           ta == chain.terraswap.asset + offer
           tu == chain.terraswap.uusd - r
           t  == [chain.terraswap EXCEPT !.asset = ta, !.uusd = tu]
<1>1. chain' = [chain EXCEPT !.terraswap.asset = sim.offerPool, !.terraswap.uusd = sim.askPool]
  BY DEF OthersTrade
<1>2. sim.offerPool = ta /\ sim.askPool = tu
  BY SimulateIs
<1> HIDE DEF sim
<1>3. chain' = [chain EXCEPT !.terraswap.asset = ta, !.terraswap.uusd = tu]
  BY <1>1, <1>2
<1>4. r \in 0 .. chain.terraswap.uusd
  BY SoundNumbers, SwapReturnBounds
<1> HIDE DEF r
<1>5. ta \in Nat \ {0} /\ tu \in Nat
  BY <1>4, SoundNumbers
<1>6. ta <= DECIMAL_FRACTIONAL
  <2> HIDE DEF ta, tu
  <2>1. chain' = Chain(t, chain.astroport, chain.spectrum, chain.position)
    BY <1>3 DEF Sound, Chains, TerraswapPools, Chain
  <2>2. t.asset = ta /\ t.uusd = tu
    BY DEF Sound, Chains, TerraswapPools
  <2> HIDE DEF t
  <2>3. /\ chain'.terraswap = t /\ chain'.astroport = chain.astroport /\ chain'.position = chain.position
    BY <2>1 DEF Chain
  <2>4. /\ Assets(chain') \in Nat /\ Uusd(chain') \in Nat /\ ta <= Assets(chain')
    BY <1>5, <2>2, <2>3, SoundNumbers DEF Assets, Uusd
  <2>5. Assets(chain') <= DECIMAL_FRACTIONAL
    BY <2>4, NextFits DEF OthersTrade
  <2> QED BY <1>5, <2>4, <2>5, DecimalAssumption
<1>7. r \in 0 .. chain.terraswap.uusd - 1
  BY <1>6, SoundNumbers, SwapLeavesSome DEF r
<1>8. tu \in Nat \ {0}
  BY <1>7, SoundNumbers
<1> HIDE DEF ta, tu
<1>9. chain' = Chain(t, chain.astroport, chain.spectrum, chain.position)
  BY <1>3 DEF Sound, Chains, TerraswapPools, Chain
<1>10. t \in TerraswapPools /\ t.supply = chain.terraswap.supply
  BY <1>5, <1>8 DEF Sound, Chains, TerraswapPools
<1> HIDE DEF t
<1> QED BY <1>9, <1>10, ChainSound DEF Sound, Chains

LEMMA UusdSoldOnTerraswap ==
  ASSUME Sound(chain), price \in Prices, FitsDecimal', NEW offer \in Nat,
         OthersTrade("terraswap", "uusd", "asset", offer)
  PROVE  Sound(chain')
<1> DEFINE sim == simulate_terraswap_swap(chain.terraswap.uusd, chain.terraswap.asset, offer)
           r  == SwapReturn(chain.terraswap.uusd, chain.terraswap.asset, offer)
           tu == chain.terraswap.uusd + offer
           ta == chain.terraswap.asset - r
           t  == [chain.terraswap EXCEPT !.uusd = tu, !.asset = ta]
<1>1. chain' = [chain EXCEPT !.terraswap.uusd = sim.offerPool, !.terraswap.asset = sim.askPool]
  BY DEF OthersTrade
<1>2. sim.offerPool = tu /\ sim.askPool = ta
  BY SimulateIs
<1> HIDE DEF sim
<1>3. chain' = [chain EXCEPT !.terraswap.uusd = tu, !.terraswap.asset = ta]
  BY <1>1, <1>2
<1>4. r \in 0 .. chain.terraswap.asset
  BY SoundNumbers, SwapReturnBounds
<1> HIDE DEF r
<1>5. tu \in Nat \ {0} /\ ta \in Nat
  BY <1>4, SoundNumbers
<1>6. tu <= DECIMAL_FRACTIONAL
  <2> HIDE DEF ta, tu
  <2>1. chain' = Chain(t, chain.astroport, chain.spectrum, chain.position)
    BY <1>3 DEF Sound, Chains, TerraswapPools, Chain
  <2>2. t.asset = ta /\ t.uusd = tu
    BY DEF Sound, Chains, TerraswapPools
  <2> HIDE DEF t
  <2>3. /\ chain'.terraswap = t /\ chain'.astroport = chain.astroport /\ chain'.position = chain.position
    BY <2>1 DEF Chain
  <2>4. /\ Assets(chain') \in Nat /\ Uusd(chain') \in Nat /\ tu <= Uusd(chain')
    BY <1>5, <2>2, <2>3, SoundNumbers DEF Assets, Uusd
  <2>5. Uusd(chain') <= DECIMAL_FRACTIONAL
    BY <2>4, NextFits DEF OthersTrade
  <2> QED BY <1>5, <2>4, <2>5, DecimalAssumption
<1>7. r \in 0 .. chain.terraswap.asset - 1
  BY <1>6, SoundNumbers, SwapLeavesSome DEF r
<1>8. ta \in Nat \ {0}
  BY <1>7, SoundNumbers
<1> HIDE DEF ta, tu
<1>9. chain' = Chain(t, chain.astroport, chain.spectrum, chain.position)
  BY <1>3 DEF Sound, Chains, TerraswapPools, Chain
<1>10. t \in TerraswapPools /\ t.supply = chain.terraswap.supply
  BY <1>5, <1>8 DEF Sound, Chains, TerraswapPools
<1> HIDE DEF t
<1> QED BY <1>9, <1>10, ChainSound DEF Sound, Chains

LEMMA AssetSoldOnAstroport ==
  ASSUME Sound(chain), price \in Prices, FitsDecimal', NEW offer \in Nat,
         OthersTrade("astroport", "asset", "uusd", offer)
  PROVE  Sound(chain')
<1> DEFINE sim == simulate_terraswap_swap(chain.astroport.asset, chain.astroport.uusd, offer)
           r  == SwapReturn(chain.astroport.asset, chain.astroport.uusd, offer)
           ta == chain.astroport.asset + offer
           tu == chain.astroport.uusd - r
           t  == [chain.astroport EXCEPT !.asset = ta, !.uusd = tu]
<1>1. chain' = [chain EXCEPT !.astroport.asset = sim.offerPool, !.astroport.uusd = sim.askPool]
  BY DEF OthersTrade
<1>2. sim.offerPool = ta /\ sim.askPool = tu
  BY SimulateIs
<1> HIDE DEF sim
<1>3. chain' = [chain EXCEPT !.astroport.asset = ta, !.astroport.uusd = tu]
  BY <1>1, <1>2
<1>4. r \in 0 .. chain.astroport.uusd
  BY SoundNumbers, SwapReturnBounds
<1> HIDE DEF r
<1>5. ta \in Nat \ {0} /\ tu \in Nat
  BY <1>4, SoundNumbers
<1>6. ta <= DECIMAL_FRACTIONAL
  <2> HIDE DEF ta, tu
  <2>1. chain' = Chain(chain.terraswap, t, chain.spectrum, chain.position)
    BY <1>3 DEF Sound, Chains, AstroportPools, Chain
  <2>2. t.asset = ta /\ t.uusd = tu
    BY DEF Sound, Chains, AstroportPools
  <2> HIDE DEF t
  <2>3. /\ chain'.astroport = t /\ chain'.terraswap = chain.terraswap /\ chain'.position = chain.position
    BY <2>1 DEF Chain
  <2>4. /\ Assets(chain') \in Nat /\ Uusd(chain') \in Nat /\ ta <= Assets(chain')
    BY <1>5, <2>2, <2>3, SoundNumbers DEF Assets, Uusd
  <2>5. Assets(chain') <= DECIMAL_FRACTIONAL
    BY <2>4, NextFits DEF OthersTrade
  <2> QED BY <1>5, <2>4, <2>5, DecimalAssumption
<1>7. r \in 0 .. chain.astroport.uusd - 1
  BY <1>6, SoundNumbers, SwapLeavesSome DEF r
<1>8. tu \in Nat \ {0}
  BY <1>7, SoundNumbers
<1> HIDE DEF ta, tu
<1>9. chain' = Chain(chain.terraswap, t, chain.spectrum, chain.position)
  BY <1>3 DEF Sound, Chains, AstroportPools, Chain
<1>10. t \in AstroportPools
  BY <1>5, <1>8 DEF Sound, Chains, AstroportPools
<1> HIDE DEF t
<1> QED BY <1>9, <1>10, ChainSound DEF Sound, Chains

LEMMA UusdSoldOnAstroport ==
  ASSUME Sound(chain), price \in Prices, FitsDecimal', NEW offer \in Nat,
         OthersTrade("astroport", "uusd", "asset", offer)
  PROVE  Sound(chain')
<1> DEFINE sim == simulate_terraswap_swap(chain.astroport.uusd, chain.astroport.asset, offer)
           r  == SwapReturn(chain.astroport.uusd, chain.astroport.asset, offer)
           tu == chain.astroport.uusd + offer
           ta == chain.astroport.asset - r
           t  == [chain.astroport EXCEPT !.uusd = tu, !.asset = ta]
<1>1. chain' = [chain EXCEPT !.astroport.uusd = sim.offerPool, !.astroport.asset = sim.askPool]
  BY DEF OthersTrade
<1>2. sim.offerPool = tu /\ sim.askPool = ta
  BY SimulateIs
<1> HIDE DEF sim
<1>3. chain' = [chain EXCEPT !.astroport.uusd = tu, !.astroport.asset = ta]
  BY <1>1, <1>2
<1>4. r \in 0 .. chain.astroport.asset
  BY SoundNumbers, SwapReturnBounds
<1> HIDE DEF r
<1>5. tu \in Nat \ {0} /\ ta \in Nat
  BY <1>4, SoundNumbers
<1>6. tu <= DECIMAL_FRACTIONAL
  <2> HIDE DEF ta, tu
  <2>1. chain' = Chain(chain.terraswap, t, chain.spectrum, chain.position)
    BY <1>3 DEF Sound, Chains, AstroportPools, Chain
  <2>2. t.asset = ta /\ t.uusd = tu
    BY DEF Sound, Chains, AstroportPools
  <2> HIDE DEF t
  <2>3. /\ chain'.astroport = t /\ chain'.terraswap = chain.terraswap /\ chain'.position = chain.position
    BY <2>1 DEF Chain
  <2>4. /\ Assets(chain') \in Nat /\ Uusd(chain') \in Nat /\ tu <= Uusd(chain')
    BY <1>5, <2>2, <2>3, SoundNumbers DEF Assets, Uusd
  <2>5. Uusd(chain') <= DECIMAL_FRACTIONAL
    BY <2>4, NextFits DEF OthersTrade
  <2> QED BY <1>5, <2>4, <2>5, DecimalAssumption
<1>7. r \in 0 .. chain.astroport.asset - 1
  BY <1>6, SoundNumbers, SwapLeavesSome DEF r
<1>8. ta \in Nat \ {0}
  BY <1>7, SoundNumbers
<1> HIDE DEF ta, tu
<1>9. chain' = Chain(chain.terraswap, t, chain.spectrum, chain.position)
  BY <1>3 DEF Sound, Chains, AstroportPools, Chain
<1>10. t \in AstroportPools
  BY <1>5, <1>8 DEF Sound, Chains, AstroportPools
<1> HIDE DEF t
<1> QED BY <1>9, <1>10, ChainSound DEF Sound, Chains

LEMMA FarmCompoundsSound ==
  ASSUME Sound(chain), NEW amount \in Nat, FarmCompounds(amount)
  PROVE  Sound(chain')
<1> DEFINE sl == chain.spectrum.lp + amount
           s  == [chain.spectrum EXCEPT !.lp = sl]
<1>1. /\ chain' = [chain EXCEPT !.spectrum.lp = sl]
      /\ sl < chain.terraswap.supply - chain.position.loose
  BY DEF FarmCompounds
<1>2. sl \in Nat /\ chain.spectrum.staked <= sl
      /\ sl + chain.position.loose < chain.terraswap.supply
  BY <1>1, SoundNumbers DEF Sound
<1> HIDE DEF sl
<1>3. chain' = Chain(chain.terraswap, chain.astroport, s, chain.position)
  BY <1>1 DEF Sound, Chains, Farms, Chain
<1>4. s \in Farms /\ s.lp = sl /\ s.shares = chain.spectrum.shares /\ s.staked = chain.spectrum.staked
  BY <1>2 DEF Sound, Chains, Farms
<1> HIDE DEF s
<1> QED BY <1>2, <1>3, <1>4, ChainSound DEF Sound, Chains

LEMMA AuctionSound ==
  ASSUME Sound(chain), price \in Prices, NEW amount \in Nat, amount <= Short(chain), Auction(amount)
  PROVE  Sound(chain')
<1> DEFINE p == chain.position
           taken == Min({p.collateral, Times(amount, price)})
           all  == [p EXCEPT !.short = 0, !.collateral = 0, !.locked = 0, !.uusd = @ + p.locked]
           part == [p EXCEPT !.short = @ - amount, !.collateral = @ - taken]
           q == IF amount = p.short THEN all ELSE part
<1>1. chain' = [chain EXCEPT !.position = q]
  BY DEF Auction
<1>2. taken \in 0 .. p.collateral
  <2> DEFINE owed == Times(amount, price)
  <2>1. owed \in Nat /\ p.collateral \in Nat
    BY PricesAssumption, TimesNat, SoundNumbers
  <2> HIDE DEF owed
  <2>2. {p.collateral, owed} \in SUBSET Nat /\ p.collateral \in {p.collateral, owed}
    BY <2>1
  <2>3. Min({p.collateral, owed}) \in {p.collateral, owed}
        /\ Min({p.collateral, owed}) <= p.collateral
    BY <2>2, MinLeast
  <2>4. taken = Min({p.collateral, owed})
    BY DEF owed
  <2> HIDE DEF taken
  <2> QED BY <2>1, <2>3, <2>4
<1>3. amount <= p.short
  BY DEF Short
<1> HIDE DEF taken
<1>4. all \in Positions /\ all.shares = p.shares /\ all.loose = p.loose
  <2> DEFINE pu == p.uusd + p.locked
  <2>1. pu \in Nat
    BY SoundNumbers
  <2>2. all = [p EXCEPT !.short = 0, !.collateral = 0, !.locked = 0, !.uusd = pu]
    OBVIOUS
  <2> HIDE DEF pu, all
  <2> QED BY <2>1, <2>2 DEF Sound, Chains, Positions
<1>5. part \in Positions /\ part.shares = p.shares /\ part.loose = p.loose
  <2> DEFINE ps == p.short - amount
             pc == p.collateral - taken
  <2>1. ps \in Nat /\ pc \in Nat
    BY <1>2, <1>3, SoundNumbers
  <2>2. part = [p EXCEPT !.short = ps, !.collateral = pc]
    BY DEF Sound, Chains, Positions
  <2> HIDE DEF ps, pc, part
  <2> QED BY <2>1, <2>2 DEF Sound, Chains, Positions
<1>6. q \in Positions /\ q.shares = p.shares /\ q.loose = p.loose
  BY <1>4, <1>5
<1> HIDE DEF q
<1>7. chain' = Chain(chain.terraswap, chain.astroport, chain.spectrum, q)
  BY <1>1 DEF Sound, Chains, Chain
<1> QED BY <1>6, <1>7, PositionSound

LEMMA TradeSound ==
  ASSUME Sound(chain), price \in Prices, FitsDecimal', NEW offer \in Nat,
         NEW pool \in {"terraswap", "astroport"},
         OthersTrade(pool, "asset", "uusd", offer) \/ OthersTrade(pool, "uusd", "asset", offer)
  PROVE  Sound(chain')
<1>1. CASE OthersTrade("terraswap", "asset", "uusd", offer)
  BY <1>1, AssetSoldOnTerraswap
<1>2. CASE OthersTrade("terraswap", "uusd", "asset", offer)
  BY <1>2, UusdSoldOnTerraswap
<1>3. CASE OthersTrade("astroport", "asset", "uusd", offer)
  BY <1>3, AssetSoldOnAstroport
<1>4. CASE OthersTrade("astroport", "uusd", "asset", offer)
  BY <1>4, UusdSoldOnAstroport
<1> QED BY <1>1, <1>2, <1>3, <1>4

LEMMA OthersTypeOK ==
  ASSUME TypeOK, FitsDecimal', Others
  PROVE  TypeOK'
<1>1. Sound(chain) /\ OthersOK
  BY TypeIsSound DEF OthersOK
<1>2. moves' \in 0 .. MaxMoves
  BY Counted DEF Others
<1>3. ASSUME NEW pool \in {"terraswap", "astroport"}, NEW offer \in Trades,
             \/ OthersTrade(pool, "asset", "uusd", offer)
             \/ OthersTrade(pool, "uusd", "asset", offer)
      PROVE  TypeOK'
  <2>1. offer \in Nat /\ price \in Prices
    BY <1>1, TradesAssumption DEF OthersOK
  <2>2. Sound(chain')
    BY <1>1, <1>3, <2>1, TradeSound
  <2> QED BY <1>1, <1>2, <1>3, <2>2, TypeOKNext DEF OthersTrade, OthersOK
<1>4. ASSUME NEW amount \in Trades, FarmCompounds(amount)
      PROVE  TypeOK'
  <2>1. Sound(chain')
    BY <1>1, <1>4, TradesAssumption, FarmCompoundsSound
  <2> QED BY <1>1, <1>2, <1>4, <2>1, TypeOKNext DEF FarmCompounds, OthersOK
<1>5. ASSUME NEW amount \in {x \in Trades \cup {Short(chain)} : 0 < x /\ x <= Short(chain)},
             Auction(amount)
      PROVE  TypeOK'
  <2>1. amount \in Nat /\ amount <= Short(chain)
    BY <1>1, TradesAssumption, FarmNumbers
  <2>2. Sound(chain')
    BY <1>1, <1>5, <2>1, AuctionSound DEF OthersOK
  <2> QED BY <1>1, <1>2, <1>5, <2>2, TypeOKNext DEF Auction, OthersOK
<1>6. CASE Unlock
  BY <1>1, <1>2, <1>6, TypeOKNext DEF Unlock, OthersOK
<1>7. ASSUME NEW p \in Prices \ {price}, PriceChanges(p)
      PROVE  TypeOK'
  BY <1>1, <1>2, <1>7, TypeOKNext DEF PriceChanges, OthersOK
<1> QED BY <1>3, <1>4, <1>5, <1>6, <1>7 DEF Others

LEMMA NextTypeOK ==
  ASSUME TypeOK, FitsDecimal, FitsDecimal', [Next]_vars
  PROVE  TypeOK'
<1>1. ASSUME NEW budget \in Deposits, open_position(budget)
      PROVE  TypeOK'
  BY <1>1, OpenTypeOK
<1>2. ASSUME NEW rewards \in Rewards, NEW fresh \in BOOLEAN,
             rebalance_and_reinvest(rewards, fresh)
      PROVE  TypeOK'
  BY <1>2, RebalanceTypeOK
<1>3. ASSUME NEW rewards \in Rewards, rebalance_liquidated(rewards)
      PROVE  TypeOK'
  BY <1>3, LiquidatedTypeOK
<1>4. ASSUME NEW rewards \in Rewards, close_position(rewards)
      PROVE  TypeOK'
  BY <1>4, CloseTypeOK
<1>5. CASE Others
  BY <1>5, OthersTypeOK
<1>6. CASE UNCHANGED vars
  BY <1>6 DEF vars, TypeOK
<1> QED BY <1>1, <1>2, <1>3, <1>4, <1>5, <1>6 DEF Next

(* No subtraction of the transactions goes below zero, no pool is emptied, *)
(* the position never holds more shares than there are and nobody redeems  *)
(* the last LP token (rebalance.rs, open.rs, close.rs): of every position, *)
(* every market and every sequence of trades, auctions and price changes,  *)
(* as long as there are at most 10^18 units of each token.  With many more *)
(* a swap could return the whole pool, as its return is computed with 18   *)
(* decimals: without any such hypothesis the invariant is false.           *)
THEOREM TypeCorrect == Spec /\ []FitsDecimal => []TypeOK
<1>1. TypeOK /\ FitsDecimal /\ FitsDecimal' /\ [Next]_vars => TypeOK'
  BY NextTypeOK
<1> QED BY InitTypeOK, <1>1, PTL DEF Spec

-----------------------------------------------------------------------------
(* Trading to the neutral state.                                           *)

(* The contract multiplies by a ratio rounded down, where the pool divides *)
(* once: that is too little by one unit at most.                           *)
LEMMA FloorOfFloor ==
  ASSUME NEW x \in Nat, NEW l \in Nat, NEW n \in Nat \ {0}
  PROVE  /\ Times(x, Decimal(l, n)) \in Nat
         /\ Times(x, Decimal(l, n)) <= (l * x) \div n
         /\ x <= DECIMAL_FRACTIONAL => (l * x) \div n <= Times(x, Decimal(l, n)) + 1
<1> DEFINE D == DECIMAL_FRACTIONAL
           q == (l * D) \div n
           t == (x * q) \div D
           y == (l * x) \div n
<1>1. D \in Nat \ {0} /\ l * D \in Nat /\ l * x \in Nat
  BY DecimalAssumption
<1>2. Times(x, Decimal(l, n)) = t
  BY DEF Times, Decimal
<1> HIDE DEF D
<1>3. q \in Nat /\ n * q <= l * D /\ l * D < n * q + n
  BY <1>1, DivBounds
<1>4. y \in Nat /\ n * y <= l * x /\ l * x < n * y + n
  BY <1>1, DivBounds
<1> HIDE DEF q, y
<1>5. x * q \in Nat
  BY <1>3
<1>6. t \in Nat /\ D * t <= x * q /\ x * q < D * t + D
  BY <1>1, <1>5, DivBounds
<1> HIDE DEF t
<1>7. t <= y
  <2>1. n * (D * t) <= n * (x * q)
    BY <1>1, <1>5, <1>6
  <2>2. x * (n * q) <= x * (l * D)
    BY <1>1, <1>3
  <2>3. n * (x * q) = x * (n * q) /\ x * (l * D) = D * (l * x)
    BY <1>1, <1>3
  <2>4. D * (l * x) < D * (n * y + n)
    BY <1>1, <1>4
  <2>5. n * (D * t) = D * (n * t) /\ n * t \in Nat /\ n * y + n \in Nat
    BY <1>1, <1>4, <1>6
  <2>6. D * (n * t) < D * (n * y + n)
    BY <1>1, <1>3, <1>5, <1>6, <2>1, <2>2, <2>3, <2>4, <2>5
  <2>7. n * t < n * y + n
    BY <1>1, <2>5, <2>6, Cancel
  <2>8. n * y + n = n * (y + 1)
    BY <1>4
  <2>9. t < y + 1
    BY <1>4, <1>6, <2>7, <2>8, Cancel
  <2> QED BY <1>4, <1>6, <2>9
<1>8. ASSUME x <= D
      PROVE  y <= t + 1
  <2>1. D * (n * y) <= D * (l * x)
    BY <1>1, <1>4
  <2>2. x * (l * D) <= x * (n * q + n)
    BY <1>1, <1>3
  <2>3. x * (l * D) = D * (l * x) /\ x * (n * q + n) = n * (x * q + x)
    BY <1>1, <1>3
  <2>4. x * q + x < D * t + D + D
    BY <1>1, <1>5, <1>6, <1>8
  <2>5. n * (x * q + x) < n * (D * t + D + D)
    BY <1>1, <1>5, <1>6, <2>4
  <2>6. n * (D * t + D + D) = D * (n * (t + 2)) /\ n * (t + 2) \in Nat /\ n * y \in Nat
    BY <1>1, <1>4, <1>6
  <2>7. D * (n * y) < D * (n * (t + 2))
    BY <1>1, <1>4, <1>5, <1>6, <2>1, <2>2, <2>3, <2>5, <2>6
  <2>8. n * y < n * (t + 2)
    BY <1>1, <2>6, <2>7, Cancel
  <2>9. y < t + 2
    BY <1>4, <1>6, <2>8, Cancel
  <2> QED BY <1>4, <1>6, <2>9
<1> QED BY <1>2, <1>6, <1>7, <1>8 DEF y, D

(* What the position has and what its LP tokens are a share of.            *)
Agrees(e, s) ==
  /\ e.position.asset = s.asset /\ e.position.uusd = s.uusd
  /\ e.terraswap.asset = s.poolAsset /\ e.terraswap.uusd = s.poolUusd
  /\ Decimal(LpTokens(e), e.terraswap.supply) = s.lpRatio

LEMMA NothingRedeemed ==
  ASSUME NEW c, Sound(c)
  PROVE  Agrees(c, AfterWithdrawal(c, 0))
<1>1. c.terraswap.supply \in Nat \ {0}
  BY SoundNumbers DEF Sound
<1>2. Decimal(0, c.terraswap.supply) = 0
  <2>1. 0 * DECIMAL_FRACTIONAL = 0 /\ 0 \div c.terraswap.supply = 0
    BY <1>1, DecimalAssumption
  <2> QED BY <2>1 DEF Decimal
<1>3. ASSUME NEW x \in Nat
      PROVE  Times(x, 0) = 0
  <2>1. x * 0 = 0 /\ 0 \div DECIMAL_FRACTIONAL = 0
    BY DecimalAssumption
  <2> QED BY <2>1 DEF Times
<1>4. AssetFor(c, 0) = 0 /\ UusdFor(c, 0) = 0
  BY <1>2, <1>3, SoundNumbers DEF AssetFor, UusdFor
<1>5. c.terraswap.supply - 0 = c.terraswap.supply
  BY <1>1
<1> QED BY <1>4, <1>5, SoundNumbers DEF Agrees, AfterWithdrawal

(* The messages that withdraw do what was simulated.                       *)
LEMMA RedeemedAsSimulated ==
  ASSUME NEW c, Sound(c), NEW lp \in Nat, lp > 0,
         NEW e \in unstake_lp_from_spectrum_and_withdraw_liquidity(c, lp)
  PROVE  /\ Agrees(e, AfterWithdrawal(c, lp))
         /\ Short(e) = Short(c) /\ lp <= LpTokens(c)
<1> DEFINE share == UnbondedShare(c.spectrum, lp)
           f == [c.spectrum EXCEPT !.lp = @ - lp, !.shares = @ - share]
           a == AssetFor(c, lp)
           u == UusdFor(c, lp)
<1>1. PICK b \in Unbond(c, lp) : e \in WithdrawLiquidity(b, lp)
  BY DEF unstake_lp_from_spectrum_and_withdraw_liquidity, Then
<1>2. /\ lp <= LpTokens(c)
      /\ b = [c EXCEPT !.spectrum.lp = @ - lp, !.spectrum.shares = @ - share,
                       !.position.shares = @ - share, !.position.loose = @ + lp]
  BY FarmNumbers DEF Unbond
<1>3. /\ b.terraswap = c.terraswap /\ b.spectrum = f
      /\ b.position.shares = c.position.shares - share
      /\ b.position.asset = c.position.asset /\ b.position.uusd = c.position.uusd
      /\ b.position.short = c.position.short
  BY <1>2 DEF Sound, Chains, Farms, Positions
<1>4. Sound(b)
  BY UnbondKeeps DEF Keeps
<1> HIDE DEF share, f
<1>5. AssetFor(b, lp) = a /\ UusdFor(b, lp) = u
  BY <1>3 DEF AssetFor, UusdFor
<1>6. e = [b EXCEPT !.terraswap.asset = @ - a, !.terraswap.uusd = @ - u, !.terraswap.supply = @ - lp,
                    !.position.asset = @ + a, !.position.uusd = @ + u, !.position.loose = @ - lp]
  BY <1>1, <1>5 DEF WithdrawLiquidity
<1> HIDE DEF a, u
<1>7. /\ e.terraswap.asset = c.terraswap.asset - a /\ e.terraswap.uusd = c.terraswap.uusd - u
      /\ e.terraswap.supply = c.terraswap.supply - lp
      /\ e.position.asset = c.position.asset + a /\ e.position.uusd = c.position.uusd + u
      /\ e.position.short = c.position.short
      /\ e.position.shares = c.position.shares - share /\ e.spectrum = f
  BY <1>3, <1>4, <1>6 DEF Sound, Chains, TerraswapPools, Positions
<1>8. simulate_spectrum_mirror_farm_unbond(c.spectrum, c.position.shares, lp) = LpTokens(e)
  BY <1>7 DEF simulate_spectrum_mirror_farm_unbond, LpTokens, share, f
<1>9. lp # 0
  OBVIOUS
<1> QED BY <1>2, <1>7, <1>8, <1>9 DEF Agrees, AfterWithdrawal, Short, a, u

(* What the position has of the asset once it redeems all LP tokens, which *)
(* is what LongAfterSale and LongAfterPurchase say.                        *)
Redeemable(d) == d.position.asset + AssetFor(d, LpTokens(d))

(* The long amount is that, or one unit more.                              *)
LEMMA LongAsSimulated ==
  ASSUME NEW d, Sound(d), Fits(d)
  PROVE  LET simulated == Times(d.terraswap.asset, Decimal(LpTokens(d), d.terraswap.supply))
         IN /\ simulated \in Nat
            /\ Long(d) - (d.position.asset + simulated) \in 0 .. 1
<1> DEFINE x == d.terraswap.asset
           l == LpTokens(d)
           n == d.terraswap.supply
           t == Times(x, Decimal(l, n))
           y == (l * x) \div n
<1>1. x \in Nat /\ n \in Nat \ {0} /\ d.position.asset \in Nat /\ l \in Nat
  BY SoundNumbers, FarmNumbers DEF Sound
<1>2. x <= DECIMAL_FRACTIONAL
  BY SoundNumbers, DecimalAssumption DEF Fits, Assets
<1>3. Long(d) = d.position.asset + y
  BY DEF Long, LongFarm, MultiplyRatio
<1>4. l * x \in Nat
  BY <1>1
<1> HIDE DEF x, l, n
<1>5. y \in Nat
  BY <1>1, <1>4, DivBounds
<1>6. t \in Nat /\ t <= y /\ y <= t + 1
  BY <1>1, <1>2, FloorOfFloor
<1> HIDE DEF t, y
<1>7. Long(d) - (d.position.asset + t) \in 0 .. 1
  BY <1>1, <1>3, <1>5, <1>6
<1> QED BY <1>6, <1>7 DEF t, x, l, n

(* The amount to sell: one unit more makes the long amount less by one at  *)
(* most, so the position then owns what it owes, unless it is short even   *)
(* without a sale.                                                         *)
LEMMA OfferWhenLongIs ==
  ASSUME NEW c, Sound(c), NEW s,
         s.asset \in Nat, s.poolAsset \in Nat, s.lpRatio \in Nat,
         LongAfterSale(s, s.asset) <= Short(c)
  PROVE  LET offer == OfferWhenLong(c, s)
         IN /\ offer \in -1 .. s.asset
            /\ offer >= 0 => LongAfterSale(s, offer) = Short(c)
            /\ offer < 0 => LongAfterSale(s, 0) < Short(c)
<1> DEFINE S == TurnShort(c, s)
           r == Leftmost(S, 0, s.asset + 1)
           L(o) == LongAfterSale(s, o)
<1>1. Short(c) \in Nat
  BY FarmNumbers
<1>2. ASSUME NEW o \in Nat
      PROVE  /\ L(o) \in Int /\ L(o) <= L(o + 1) + 1
             /\ o \in S <=> L(o) < Short(c)
  <2> DEFINE t == Times(s.poolAsset + o, s.lpRatio)
             w == Times(s.poolAsset + (o + 1), s.lpRatio)
  <2>1. s.poolAsset + o \in Nat /\ s.poolAsset + (o + 1) \in Nat
        /\ s.poolAsset + o <= s.poolAsset + (o + 1)
    OBVIOUS
  <2>2. t \in Nat /\ w \in Nat /\ t <= w
    BY <2>1, TimesNat, TimesMonotone
  <2>3. L(o) = s.asset - o + t /\ L(o + 1) = s.asset - (o + 1) + w
    BY DEF LongAfterSale
  <2> HIDE DEF t, w, L
  <2>4. L(o) \in Int /\ L(o) <= L(o + 1) + 1
    BY <2>2, <2>3
  <2>5. o \in S <=> L(o) < Short(c)
    BY DEF TurnShort, L
  <2> QED BY <2>4, <2>5
<1>3. s.asset + 1 \in Nat /\ 0 \in Nat /\ 0 <= s.asset + 1
  OBVIOUS
<1> HIDE DEF S
<1>4. /\ r \in 0 .. s.asset + 1
      /\ r < s.asset + 1 => r \in S
      /\ r > 0 => r - 1 \notin S
  BY <1>3, LeftmostBoundary
<1>5. OfferWhenLong(c, s) = r - 1
  BY DEF OfferWhenLong, S
<1>6. L(s.asset) <= Short(c)
  OBVIOUS
<1> HIDE DEF r, L
<1>7. CASE r = 0
  <2>1. 0 \in Nat /\ 0 \in S
    BY <1>3, <1>4, <1>7
  <2>2. L(0) < Short(c)
    BY <1>2, <2>1
  <2>3. r - 1 = -1 /\ -1 \in -1 .. s.asset /\ ~(-1 >= 0)
    BY <1>3, <1>7
  <2> QED BY <1>5, <2>2, <2>3 DEF L
<1>8. CASE r # 0
  <2>1. r > 0 /\ r - 1 \in 0 .. s.asset /\ r - 1 \in Nat /\ (r - 1) + 1 = r /\ r \in Nat
    BY <1>4, <1>8
  <2>2. L(r - 1) >= Short(c) /\ L(r - 1) \in Int
    <3>1. ~(L(r - 1) < Short(c)) /\ L(r - 1) \in Int
      BY <1>2, <1>4, <2>1
    <3> QED BY <1>1, <3>1
  <2>3. CASE r < s.asset + 1
    <3>1. L(r) < Short(c) /\ L(r) \in Int
      BY <1>2, <1>4, <2>1, <2>3
    <3>2. L(r - 1) <= L(r) + 1
      BY <1>2, <2>1
    <3>3. L(r - 1) = Short(c)
      BY <1>1, <2>2, <3>1, <3>2
    <3> QED BY <1>5, <2>1, <3>3 DEF L
  <2>4. CASE ~(r < s.asset + 1)
    <3>1. r - 1 = s.asset
      BY <1>4, <2>4
    <3>2. L(r - 1) = Short(c)
      BY <1>1, <1>6, <2>2, <3>1
    <3> QED BY <1>5, <2>1, <3>2 DEF L
  <2> QED BY <2>3, <2>4
<1> QED BY <1>7, <1>8

LEMMA OfferWhenLongExact ==
  ASSUME NEW c, Sound(c), NEW s,
         s.asset \in Nat, s.poolAsset \in Nat, s.lpRatio \in Nat,
         LongAfterSale(s, 0) >= Short(c), LongAfterSale(s, s.asset) <= Short(c)
  PROVE  /\ OfferWhenLong(c, s) \in 0 .. s.asset
         /\ LongAfterSale(s, OfferWhenLong(c, s)) = Short(c)
<1>1. Short(c) \in Nat
  BY FarmNumbers
<1>2. LongAfterSale(s, 0) \in Int
  <2>1. s.poolAsset + 0 \in Nat
    OBVIOUS
  <2>2. Times(s.poolAsset + 0, s.lpRatio) \in Nat
    BY <2>1, TimesNat
  <2> QED BY <2>2 DEF LongAfterSale
<1> QED BY <1>1, <1>2, OfferWhenLongIs

(* The withdrawal found suffices, if the position has that much.           *)
LEMMA WithdrawalFound ==
  ASSUME NEW c, Sound(c)
  PROVE  /\ WithdrawalWhenLong(c) \in Nat
         /\ WithdrawalWhenLong(c) <= LpTokens(c) => SellingAllSuffices(c, WithdrawalWhenLong(c))
         /\ WithdrawalWhenShort(c) \in Nat
         /\ WithdrawalWhenShort(c) <= LpTokens(c) => BuyingForAllSuffices(c, WithdrawalWhenShort(c))
<1> DEFINE S == {lp \in Nat : SellingAllSuffices(c, lp)}
           B == {lp \in Nat : BuyingForAllSuffices(c, lp)}
           end == LpTokens(c) + 1
<1>1. LpTokens(c) \in Nat /\ end \in Nat /\ 0 \in Nat /\ 0 <= end
  BY FarmNumbers, SoundNumbers
<1>2. WithdrawalWhenLong(c) = Leftmost(S, 0, end) /\ WithdrawalWhenShort(c) = Leftmost(B, 0, end)
  BY DEF WithdrawalWhenLong, WithdrawalWhenShort
<1>3. /\ \A lp \in S : SellingAllSuffices(c, lp)
      /\ \A lp \in B : BuyingForAllSuffices(c, lp)
  OBVIOUS
<1> HIDE DEF S, B
<1>4. /\ Leftmost(S, 0, end) \in 0 .. end
      /\ Leftmost(S, 0, end) < end => Leftmost(S, 0, end) \in S
  BY <1>1, LeftmostBoundary
<1>5. /\ Leftmost(B, 0, end) \in 0 .. end
      /\ Leftmost(B, 0, end) < end => Leftmost(B, 0, end) \in B
  BY <1>1, LeftmostBoundary
<1> QED BY <1>1, <1>2, <1>3, <1>4, <1>5

(* One LP token less does not, whatever else would.                        *)
LEMMA NoLessSuffices ==
  ASSUME NEW c, Sound(c), WithdrawalWhenShort(c) > 0
  PROVE  /\ WithdrawalWhenShort(c) - 1 \in 0 .. LpTokens(c)
         /\ ~BuyingForAllSuffices(c, WithdrawalWhenShort(c) - 1)
<1> DEFINE B == {lp \in Nat : BuyingForAllSuffices(c, lp)}
           l == LpTokens(c)
           r == Leftmost(B, 0, l + 1)
<1>1. l \in Nat /\ l + 1 \in Nat /\ 0 \in Nat /\ 0 <= l + 1
  BY FarmNumbers, SoundNumbers
<1>2. WithdrawalWhenShort(c) = r
  BY DEF WithdrawalWhenShort
<1> HIDE DEF B, l
<1>3. r \in 0 .. l + 1 /\ (r > 0 => r - 1 \notin B)
  BY <1>1, LeftmostBoundary
<1> HIDE DEF r
<1>4. r - 1 \in 0 .. l /\ r - 1 \notin B
  BY <1>1, <1>2, <1>3
<1> QED BY <1>1, <1>2, <1>4 DEF B, l

(* A net short position gives up, its transaction failing, only if to      *)
(* withdraw all of its liquidity would not suffice (rebalance.rs:262-312). *)
THEOREM GivesUpOutOfMeans ==
  ASSUME NEW c, Sound(c), OutOfMeans(c)
  PROVE  ~BuyingForAllSuffices(c, LpTokens(c))
<1>1. WithdrawalWhenShort(c) > LpTokens(c) /\ LpTokens(c) \in Nat
  BY FarmNumbers, SoundNumbers DEF OutOfMeans
<1>2. WithdrawalWhenShort(c) \in Nat /\ WithdrawalWhenShort(c) > 0
  BY <1>1, WithdrawalFound
<1>3. WithdrawalWhenShort(c) - 1 = LpTokens(c)
  BY <1>1, <1>2, NoLessSuffices
<1> QED BY <1>2, <1>3, NoLessSuffices

(* Tokens after the trade are as many as simulated.                        *)
LEMMA SameFarm ==
  ASSUME NEW d, NEW e, d.spectrum = e.spectrum, d.position.shares = e.position.shares
  PROVE  LpTokens(d) = LpTokens(e)
BY DEF LpTokens

LEMMA SoldAsSimulated ==
  ASSUME NEW e, Sound(e), Fits(e), NEW s, Agrees(e, s), NEW offer \in Nat, NEW d \in SellAsset(e, offer)
  PROVE  /\ Long(d) - LongAfterSale(s, offer) \in 0 .. 1 /\ Short(d) = Short(e)
         /\ Redeemable(d) = LongAfterSale(s, offer)
<1> DEFINE r == SwapReturn(e.terraswap.asset, e.terraswap.uusd, offer)
           sim == simulate_terraswap_swap(e.terraswap.asset, e.terraswap.uusd, offer)
<1>1. d = [e EXCEPT !.terraswap.asset = sim.offerPool, !.terraswap.uusd = sim.askPool,
                    !.position.asset = @ - offer, !.position.uusd = @ + sim.return]
  BY DEF SellAsset
<1>2. sim.offerPool = e.terraswap.asset + offer
  BY SimulateIs
<1> HIDE DEF sim
<1>3. /\ d.position.asset = e.position.asset - offer
      /\ d.terraswap.asset = e.terraswap.asset + offer
      /\ d.terraswap.supply = e.terraswap.supply
      /\ d.spectrum = e.spectrum /\ d.position.shares = e.position.shares
      /\ d.position.short = e.position.short
  BY <1>1, <1>2 DEF Sound, Chains, TerraswapPools, Positions
<1>4. Sound(d) /\ Fits(d)
  <2>1. Keeps(e, d)
    BY SellKeeps DEF Keeps
  <2> QED BY <2>1, KeepsFits DEF Keeps
<1>5. LpTokens(d) = LpTokens(e)
  BY <1>3, SameFarm
<1>6. LongAfterSale(s, offer)
        = d.position.asset + Times(d.terraswap.asset, Decimal(LpTokens(d), d.terraswap.supply))
  BY <1>3, <1>5 DEF LongAfterSale, Agrees
<1> QED BY <1>3, <1>4, <1>6, LongAsSimulated DEF Short, Redeemable, AssetFor

LEMMA BoughtAsSimulated ==
  ASSUME NEW e, Sound(e), Fits(e), NEW s, Agrees(e, s), NEW offer \in Nat, NEW d \in BuyAsset(e, offer)
  PROVE  /\ LongAfterPurchase(s, offer) \in Nat
         /\ Long(d) - LongAfterPurchase(s, offer) \in 0 .. 1 /\ Short(d) = Short(e)
         /\ Redeemable(d) = LongAfterPurchase(s, offer)
<1> DEFINE sim == simulate_terraswap_swap(e.terraswap.uusd, e.terraswap.asset, offer)
           t == Times(d.terraswap.asset, Decimal(LpTokens(d), d.terraswap.supply))
<1>1. d = [e EXCEPT !.terraswap.uusd = sim.offerPool, !.terraswap.asset = sim.askPool,
                    !.position.uusd = @ - offer, !.position.asset = @ + sim.return]
  BY DEF BuyAsset
<1>2. sim = simulate_terraswap_swap(s.poolUusd, s.poolAsset, offer)
  BY DEF Agrees
<1>3. sim.return \in Nat
  <2>1. sim.return = SwapReturn(e.terraswap.uusd, e.terraswap.asset, offer)
    BY SimulateIs
  <2>2. SwapReturn(e.terraswap.uusd, e.terraswap.asset, offer) \in 0 .. e.terraswap.asset
    BY SoundNumbers, SwapReturnBounds
  <2> QED BY <2>1, <2>2, SoundNumbers
<1> HIDE DEF sim
<1>4. /\ d.position.asset = e.position.asset + sim.return
      /\ d.terraswap.asset = sim.askPool
      /\ d.terraswap.supply = e.terraswap.supply
      /\ d.spectrum = e.spectrum /\ d.position.shares = e.position.shares
      /\ d.position.short = e.position.short
  BY <1>1 DEF Sound, Chains, TerraswapPools, Positions
<1>5. Sound(d) /\ Fits(d)
  <2>1. Keeps(e, d)
    BY BuyKeeps DEF Keeps
  <2> QED BY <2>1, KeepsFits DEF Keeps
<1>6. LpTokens(d) = LpTokens(e)
  BY <1>4, SameFarm
<1>7. LongAfterPurchase(s, offer) = t + sim.return + e.position.asset
  BY <1>2, <1>4, <1>6 DEF LongAfterPurchase, Agrees
<1>8. t \in Nat /\ Long(d) - (d.position.asset + t) \in 0 .. 1
  BY <1>5, LongAsSimulated
<1>12. Redeemable(d) = d.position.asset + t
  BY DEF Redeemable, AssetFor
<1> HIDE DEF t
<1>9. LongAfterPurchase(s, offer) = d.position.asset + t
  BY <1>3, <1>4, <1>7, <1>8, SoundNumbers
<1>10. Short(d) = Short(e)
  BY <1>4 DEF Short
<1>11. LongAfterPurchase(s, offer) \in Nat
  BY <1>5, <1>8, <1>9, SoundNumbers
<1> QED BY <1>8, <1>9, <1>10, <1>11, <1>12

LEMMA WithdrawnNumbers ==
  ASSUME NEW c, Sound(c), NEW lp \in 0 .. LpTokens(c)
  PROVE  LET s == AfterWithdrawal(c, lp)
         IN s.asset \in Nat /\ s.uusd \in Nat /\ s.poolAsset \in Nat
<1>1. lp \in Nat /\ lp < c.terraswap.supply /\ c.terraswap.supply \in Nat \ {0}
  BY FarmNumbers, SoundNumbers DEF Sound
<1>2. c.terraswap.asset \in Nat \ {0}
  BY SoundNumbers
<1>3. AssetFor(c, lp) \in Nat /\ AssetFor(c, lp) < c.terraswap.asset
  BY <1>1, <1>2, RedeemBounds DEF AssetFor
<1>4. AfterWithdrawal(c, lp).poolAsset = c.terraswap.asset - AssetFor(c, lp)
  BY DEF AfterWithdrawal
<1>5. AfterWithdrawal(c, lp).asset \in Nat /\ AfterWithdrawal(c, lp).uusd \in Nat
  BY <1>1, AfterWithdrawalNat
<1> QED BY <1>2, <1>3, <1>4, <1>5

(* LP tokens that are kept are a share of a larger pool.                   *)
LEMMA KeptShare ==
  ASSUME NEW a \in Nat, NEW f \in 0 .. a, NEW x \in Nat, NEW l \in Nat,
         NEW m \in Nat \ {0}, NEW n \in Nat \ {0}, l <= m, m <= n
  PROVE  (l * (a + x)) \div n <= f + (l * (a - f + x)) \div m
<1> DEFINE q == (l * (a + x)) \div n
           b == a - f + x
           y == l * b
<1>1. b \in Nat /\ a + x = b + f /\ f \in Nat
  OBVIOUS
<1>2. l * (a + x) \in Nat
  OBVIOUS
<1>3. q \in Nat /\ n * q <= l * (a + x)
  BY <1>2, DivBounds
<1>4. l * (a + x) = l * b + l * f
  BY <1>1
<1> HIDE DEF q, b
<1>5. l * b \in Nat /\ l * f <= m * f /\ l * f \in Nat /\ m * f \in Nat
  BY <1>1
<1>6. m * q <= n * q /\ m * q \in Nat /\ n * q \in Nat
  BY <1>3
<1>7. m * q <= y + m * f
  BY <1>3, <1>4, <1>5, <1>6
<1>8. y \div m \in Nat
  BY <1>5, DivBounds
<1>9. CASE q >= f
  <2>1. q - f \in Nat /\ m * (q - f) = m * q - m * f
    BY <1>1, <1>3, <1>9
  <2>2. m * (q - f) <= y
    BY <1>5, <1>6, <1>7, <2>1
  <2>3. q - f <= y \div m
    BY <1>5, <2>1, <2>2, DivAtLeast
  <2> QED BY <1>1, <1>3, <1>8, <2>1, <2>3 DEF q, y, b
<1>10. CASE ~(q >= f)
  BY <1>1, <1>3, <1>8, <1>10 DEF q, y, b
<1> QED BY <1>9, <1>10

(* What unbonding leaves, and the simulation of it.                        *)
LEMMA UnbondedTokens ==
  ASSUME NEW c, Sound(c), NEW lp \in Nat, lp > 0, NEW e \in Unbond(c, lp)
  PROVE  LET left == c.terraswap.supply - lp
         IN /\ lp <= LpTokens(c) /\ e.terraswap = c.terraswap
            /\ e.position.asset = c.position.asset /\ Short(e) = Short(c)
            /\ left \in Nat \ {0} /\ LpTokens(e) \in 0 .. left
            /\ AfterWithdrawal(c, lp).lpRatio = Decimal(LpTokens(e), left)
<1> DEFINE share == UnbondedShare(c.spectrum, lp)
           rest == [c.spectrum EXCEPT !.lp = @ - lp, !.shares = @ - share]
           left == c.terraswap.supply - lp
<1>1. /\ lp <= LpTokens(c)
      /\ e = [c EXCEPT !.spectrum.lp = @ - lp, !.spectrum.shares = @ - share,
                       !.position.shares = @ - share, !.position.loose = @ + lp]
  BY FarmNumbers DEF Unbond
<1>2. /\ e.terraswap = c.terraswap /\ e.position.asset = c.position.asset
      /\ e.position.short = c.position.short
      /\ e.position.shares = c.position.shares - share /\ e.spectrum = rest
  BY <1>1 DEF Sound, Chains, Farms, Positions
<1> HIDE DEF share, rest
<1>3. LpTokens(e) = simulate_spectrum_mirror_farm_unbond(c.spectrum, c.position.shares, lp)
  BY <1>2 DEF simulate_spectrum_mirror_farm_unbond, LpTokens, share, rest
<1>4. AfterWithdrawal(c, lp).lpRatio = Decimal(LpTokens(e), left)
  <2>1. lp # 0
    OBVIOUS
  <2> QED BY <1>3, <2>1 DEF AfterWithdrawal
<1>5. left \in Nat \ {0} /\ LpTokens(e) \in 0 .. left
  <2>1. Sound(e) /\ e.position.loose = c.position.loose + lp
    BY UnbondKeeps DEF Keeps
  <2>2. /\ LpTokens(e) \in 0 .. e.spectrum.lp - e.spectrum.staked
        /\ e.spectrum.lp + e.position.loose < c.terraswap.supply
    BY <1>2, <2>1, FarmNumbers DEF Sound
  <2>3. /\ e.spectrum.lp \in Nat /\ e.spectrum.staked \in Nat
        /\ c.position.loose \in Nat /\ c.terraswap.supply \in Nat
    BY <2>1, SoundNumbers
  <2> QED BY <2>1, <2>2, <2>3
<1> QED BY <1>1, <1>2, <1>4, <1>5 DEF Short

(* So the position is not longer than one unit more than simulated.        *)
LEMMA KeptAsSimulated ==
  ASSUME NEW c, Sound(c), Fits(c), NEW lp \in Nat, lp > 0, NEW e \in Unbond(c, lp),
         NEW s, s = AfterWithdrawal(c, lp), NEW x \in Nat, x <= s.asset,
         NEW d, d.position.asset = e.position.asset - x, d.terraswap.asset = e.terraswap.asset + x,
         d.terraswap.supply = e.terraswap.supply, LpTokens(d) = LpTokens(e)
  PROVE  Long(d) <= LongAfterSale(s, x) + 1
<1> DEFINE a == c.terraswap.asset
           n == c.terraswap.supply
           m == n - lp
           f == AssetFor(c, lp)
           l == LpTokens(e)
           own == c.position.asset
           t == Times(a - f + x, Decimal(l, m))
           y == (l * (a - f + x)) \div m
           z == (l * (a + x)) \div n
<1>1. /\ e.terraswap = c.terraswap /\ e.position.asset = own
      /\ l \in Nat /\ l <= m /\ m \in Nat \ {0} /\ s.lpRatio = Decimal(l, m)
  BY UnbondedTokens
<1>2. a \in Nat \ {0} /\ n \in Nat \ {0} /\ own \in Nat /\ m <= n /\ lp < n
  BY <1>1, SoundNumbers
<1>3. f \in 0 .. a
  <2> HIDE DEF a, n
  <2>1. Times(a, Decimal(lp, n)) \in Nat /\ Times(a, Decimal(lp, n)) < a
    BY <1>2, RedeemBounds
  <2> QED BY <1>2, <2>1 DEF AssetFor, a, n
<1>4. s.asset = own + f /\ s.poolAsset = a - f
  BY DEF AfterWithdrawal
<1>5. a + own <= DECIMAL_FRACTIONAL
  <2>1. c.astroport.asset \in Nat
    BY SoundNumbers
  <2> QED BY <1>2, <2>1, DecimalAssumption DEF Fits, Assets
<1>6. Long(d) = own - x + z
  BY <1>1 DEF Long, LongFarm, MultiplyRatio
<1>7. LongAfterSale(s, x) = s.asset - x + Times(s.poolAsset + x, s.lpRatio)
  BY DEF LongAfterSale
<1>8. Times(s.poolAsset + x, s.lpRatio) = t
  BY <1>1, <1>4
<1> HIDE DEF a, n, m, f, l, own
<1>9. a - f + x \in Nat /\ a - f + x <= DECIMAL_FRACTIONAL
  BY <1>2, <1>3, <1>4, <1>5, DecimalAssumption
<1>10. t \in Nat /\ y <= t + 1
  BY <1>1, <1>9, FloorOfFloor
<1>11. z <= f + y
  BY <1>1, <1>2, <1>3, KeptShare
<1>12. y \in Nat /\ z \in Nat
  <2>1. l * (a - f + x) \in Nat /\ l * (a + x) \in Nat
    BY <1>1, <1>2, <1>9
  <2> QED BY <1>1, <1>2, <2>1, DivBounds
<1> HIDE DEF t, y, z
<1> QED BY <1>2, <1>3, <1>4, <1>6, <1>7, <1>8, <1>10, <1>11, <1>12

(* What a sale leaves.                                                     *)
LEMMA SoldTokens ==
  ASSUME NEW e, Sound(e), NEW offer, NEW d \in SellAsset(e, offer)
  PROVE  /\ d.position.asset = e.position.asset - offer
         /\ d.terraswap.asset = e.terraswap.asset + offer
         /\ d.terraswap.supply = e.terraswap.supply
         /\ LpTokens(d) = LpTokens(e) /\ Short(d) = Short(e)
<1> DEFINE sim == simulate_terraswap_swap(e.terraswap.asset, e.terraswap.uusd, offer)
<1>1. d = [e EXCEPT !.terraswap.asset = sim.offerPool, !.terraswap.uusd = sim.askPool,
                    !.position.asset = @ - offer, !.position.uusd = @ + sim.return]
  BY DEF SellAsset
<1>2. sim.offerPool = e.terraswap.asset + offer
  BY SimulateIs
<1> HIDE DEF sim
<1>3. /\ d.position.asset = e.position.asset - offer
      /\ d.terraswap.asset = e.terraswap.asset + offer
      /\ d.terraswap.supply = e.terraswap.supply
      /\ d.spectrum = e.spectrum /\ d.position.shares = e.position.shares
      /\ d.position.short = e.position.short
  BY <1>1, <1>2 DEF Sound, Chains, TerraswapPools, Positions
<1> QED BY <1>3, SameFarm DEF Short

(* Withdrawing either does what was simulated or keeps the LP tokens.      *)
LEMMA WithdrawnWhenLong ==
  ASSUME NEW c, Sound(c), NEW lp \in Nat, NEW e \in WithdrawWhenLong(c, lp)
  PROVE  /\ Short(e) = Short(c) /\ lp <= LpTokens(c)
         /\ \/ Agrees(e, AfterWithdrawal(c, lp))
            \/ lp > 0 /\ WithdrawsNothing(c, lp) /\ e \in Unbond(c, lp)
         /\ AfterWithdrawal(c, lp).lpRatio \in Nat
<1> DEFINE s == AfterWithdrawal(c, lp)
<1>1. CASE lp = 0
  <2>1. e = c
    BY <1>1 DEF WithdrawWhenLong
  <2>2. Agrees(c, AfterWithdrawal(c, 0)) /\ 0 <= LpTokens(c)
    BY NothingRedeemed, FarmNumbers, SoundNumbers
  <2>3. c.terraswap.supply \in Nat /\ c.terraswap.supply > 0 /\ LpTokens(c) \in Nat
    BY FarmNumbers, SoundNumbers DEF Sound
  <2>4. AfterWithdrawal(c, 0).lpRatio \in Nat
    BY <2>2, <2>3, DecimalNat DEF Agrees
  <2> QED BY <1>1, <2>1, <2>2, <2>4
<1>2. CASE lp # 0 /\ ~WithdrawsNothing(c, lp)
  <2>1. lp > 0 /\ e \in unstake_lp_from_spectrum_and_withdraw_liquidity(c, lp)
    BY <1>2 DEF WithdrawWhenLong
  <2>2. Agrees(e, s) /\ Short(e) = Short(c) /\ lp <= LpTokens(c) /\ Sound(e)
    BY <2>1, RedeemedAsSimulated, UnstakeKeeps DEF Keeps
  <2>3. e.terraswap.supply \in Nat /\ e.terraswap.supply > 0 /\ LpTokens(e) \in Nat
    BY <2>2, FarmNumbers, SoundNumbers DEF Sound
  <2> QED BY <2>2, <2>3, DecimalNat DEF Agrees
<1>3. CASE lp # 0 /\ WithdrawsNothing(c, lp)
  <2>1. lp > 0 /\ e \in Unbond(c, lp)
    BY <1>3 DEF WithdrawWhenLong
  <2>2. /\ lp <= LpTokens(c) /\ Short(e) = Short(c)
        /\ c.terraswap.supply - lp \in Nat /\ c.terraswap.supply - lp > 0
        /\ LpTokens(e) \in Nat /\ s.lpRatio = Decimal(LpTokens(e), c.terraswap.supply - lp)
    BY <2>1, UnbondedTokens
  <2> QED BY <1>3, <2>1, <2>2, DecimalNat
<1> QED BY <1>1, <1>2, <1>3

(* A net long position does not stay more than one unit long.              *)
LEMMA AtMostSlightlyLongFromLong ==
  ASSUME NEW c, Sound(c), Fits(c), Long(c) > Short(c), ~SoldElsewhere(c), NEW d \in NeutralFromLong(c)
  PROVE  Long(d) <= Short(d) + 1
<1> DEFINE lp == WithdrawalWhenLong(c)
           s  == AfterWithdrawal(c, lp)
           offer == OfferWhenLong(c, s)
           sold == IF offer > 0 THEN offer ELSE 0
<1>1. lp \in Nat
  BY WithdrawalFound
<1>2. PICK e \in WithdrawWhenLong(c, lp) :
        d \in IF offer > 0 THEN swap_cw20_token_for_uusd(c, e, offer) ELSE {e}
  BY DEF NeutralFromLong, Then
<1>3. /\ Short(e) = Short(c) /\ lp <= LpTokens(c) /\ s.lpRatio \in Nat
      /\ Agrees(e, s) \/ (lp > 0 /\ e \in Unbond(c, lp))
  BY <1>1, <1>2, WithdrawnWhenLong
<1>4. Sound(e) /\ Fits(e)
  <2>1. Keeps(c, e)
    BY <1>1, <1>2, WithdrawWhenLongKeeps
  <2> QED BY <2>1, KeepsFits DEF Keeps
<1>5. s.asset \in Nat /\ s.poolAsset \in Nat
  <2>1. lp \in 0 .. LpTokens(c)
    BY <1>1, <1>3, FarmNumbers, SoundNumbers
  <2> QED BY <2>1, WithdrawnNumbers
<1>6. LongAfterSale(s, s.asset) <= Short(c)
  BY <1>3, WithdrawalFound DEF SellingAllSuffices
<1>7. offer > 0 => ~OnAstroport(c, offer)
  BY DEF SoldElsewhere
<1>8. Short(c) \in Nat
  BY FarmNumbers
<1> HIDE DEF lp
<1>9. /\ offer \in -1 .. s.asset
      /\ offer >= 0 => LongAfterSale(s, offer) = Short(c)
      /\ offer < 0 => LongAfterSale(s, 0) < Short(c)
  <2> HIDE DEF s
  <2> QED BY <1>3, <1>5, <1>6, OfferWhenLongIs
<1> HIDE DEF offer
<1>10. sold \in Nat /\ sold <= s.asset
  <2> HIDE DEF s
  <2> QED BY <1>5, <1>9
<1>11. LongAfterSale(s, sold) <= Short(c) /\ LongAfterSale(s, sold) \in Int
  <2>1. Times(s.poolAsset + sold, s.lpRatio) \in Nat
    <3>1. s.poolAsset + sold \in Nat
      BY <1>5, <1>10
    <3> QED BY <1>3, <3>1, TimesNat
  <2>2. LongAfterSale(s, sold) = s.asset - sold + Times(s.poolAsset + sold, s.lpRatio)
    BY DEF LongAfterSale
  <2> HIDE DEF s
  <2>3. LongAfterSale(s, sold) \in Int
    BY <1>5, <1>10, <2>1, <2>2
  <2> QED BY <1>8, <1>9, <2>3
<1>12. IF offer > 0 THEN d \in SellAsset(e, sold) ELSE d = e /\ sold = 0
  BY <1>2, <1>7 DEF swap_cw20_token_for_uusd
<1>13. /\ d.position.asset = e.position.asset - sold
       /\ d.terraswap.asset = e.terraswap.asset + sold
       /\ d.terraswap.supply = e.terraswap.supply
       /\ LpTokens(d) = LpTokens(e) /\ Short(d) = Short(e)
  <2>1. CASE offer > 0
    BY <1>4, <1>12, <2>1, SoldTokens
  <2>2. CASE ~(offer > 0)
    BY <1>4, <1>12, <2>2, SoundNumbers
  <2> QED BY <2>1, <2>2
<1>14. Sound(d) /\ Fits(d)
  <2>1. CASE offer > 0
    <3>1. Keeps(e, d)
      BY <1>4, <1>10, <1>12, <2>1, SellKeeps DEF Keeps
    <3> QED BY <1>4, <3>1, KeepsFits DEF Keeps
  <2>2. CASE ~(offer > 0)
    BY <1>4, <1>12, <2>2
  <2> QED BY <2>1, <2>2
<1> HIDE DEF sold
<1>15. Long(d) <= LongAfterSale(s, sold) + 1 /\ Long(d) \in Nat
  <2>1. Long(d) \in Nat
    BY <1>14, FarmNumbers
  <2>2. CASE Agrees(e, s)
    <3> DEFINE t == Times(d.terraswap.asset, Decimal(LpTokens(d), d.terraswap.supply))
    <3>1. t \in Nat /\ Long(d) - (d.position.asset + t) \in 0 .. 1
      BY <1>14, LongAsSimulated
    <3>2. LongAfterSale(s, sold) = d.position.asset + t
      BY <1>13, <2>2 DEF LongAfterSale, Agrees
    <3>3. d.position.asset \in Nat
      BY <1>14, SoundNumbers
    <3> HIDE DEF t, s
    <3> QED BY <2>1, <3>1, <3>2, <3>3
  <2>3. CASE lp > 0 /\ e \in Unbond(c, lp)
    BY <1>1, <1>10, <1>13, <2>1, <2>3, KeptAsSimulated
  <2> QED BY <1>3, <2>2, <2>3
<1> HIDE DEF s
<1> QED BY <1>3, <1>8, <1>11, <1>13, <1>15

(* A net long position sells to owning what it owes or one unit more.      *)
LEMMA SlightlyLongFromLong ==
  ASSUME NEW c, Sound(c), Fits(c), Long(c) > Short(c),
         ~SoldElsewhere(c), ~WithdrawsDust(c), StaysLong(c), NEW d \in NeutralFromLong(c)
  PROVE  /\ SlightlyLong(d)
         /\ Short(d) = Short(c) /\ Redeemable(d) = Short(d)
<1> DEFINE lp == WithdrawalWhenLong(c)
           s  == AfterWithdrawal(c, lp)
           offer == OfferWhenLong(c, s)
<1>1. lp \in Nat
  BY WithdrawalFound
<1>2. PICK e \in WithdrawWhenLong(c, lp) :
        d \in IF offer > 0 THEN swap_cw20_token_for_uusd(c, e, offer) ELSE {e}
  BY DEF NeutralFromLong, Then
<1>3. Agrees(e, s) /\ Short(e) = Short(c) /\ lp <= LpTokens(c)
  <2>1. Long(c) \in Nat /\ Short(c) \in Nat
    BY FarmNumbers
  <2>2. lp > 0 => ~WithdrawsNothing(c, lp)
    BY <2>1 DEF WithdrawsDust
  <2> QED BY <1>1, <1>2, <2>2, WithdrawnWhenLong
<1>4. Sound(e) /\ Fits(e)
  <2>1. Keeps(c, e)
    BY <1>1, <1>2, WithdrawWhenLongKeeps
  <2> QED BY <2>1, KeepsFits DEF Keeps
<1>5. s.asset \in Nat /\ s.uusd \in Nat /\ s.poolAsset \in Nat
  <2>1. lp \in 0 .. LpTokens(c)
    BY <1>1, <1>3, FarmNumbers, SoundNumbers
  <2> QED BY <2>1, WithdrawnNumbers
<1>6. s.lpRatio \in Nat
  <2>1. e.terraswap.supply \in Nat /\ e.terraswap.supply > 0 /\ LpTokens(e) \in Nat
    BY <1>4, FarmNumbers, SoundNumbers DEF Sound
  <2> QED BY <1>3, <2>1, DecimalNat DEF Agrees
<1>7. LongAfterSale(s, s.asset) <= Short(c)
  BY <1>3, WithdrawalFound DEF SellingAllSuffices
<1>8. Short(c) \in Nat /\ Long(c) \in Nat
  BY FarmNumbers
<1>9. LongAfterSale(s, 0) >= Short(c)
  <2>1. CASE lp # 0
    BY <2>1 DEF StaysLong
  <2>2. CASE lp = 0
    <3> DEFINE t == Times(c.terraswap.asset, Decimal(LpTokens(c), c.terraswap.supply))
    <3>1. t \in Nat /\ Long(c) - (c.position.asset + t) \in 0 .. 1
      BY LongAsSimulated
    <3>2. Agrees(c, s)
      BY <2>2, NothingRedeemed
    <3>3. /\ c.position.asset \in Nat /\ c.terraswap.asset \in Nat
          /\ c.terraswap.asset + 0 = c.terraswap.asset
      BY SoundNumbers
    <3>4. LongAfterSale(s, 0) = c.position.asset - 0 + t
      BY <3>2, <3>3 DEF LongAfterSale, Agrees
    <3> HIDE DEF t, s
    <3> QED BY <1>8, <3>1, <3>3, <3>4
  <2> QED BY <2>1, <2>2
<1> HIDE DEF s
<1>10. offer \in 0 .. s.asset /\ LongAfterSale(s, offer) = Short(c)
  BY <1>5, <1>6, <1>7, <1>9, OfferWhenLongExact
<1>11. offer > 0 => ~OnAstroport(c, offer)
  BY DEF SoldElsewhere, s
<1> HIDE DEF offer, lp
<1>12. /\ Long(d) - LongAfterSale(s, offer) \in 0 .. 1 /\ Short(d) = Short(c)
       /\ Redeemable(d) = LongAfterSale(s, offer)
  <2>1. CASE offer > 0
    <3>1. d \in SellAsset(e, offer) /\ offer \in Nat
      BY <1>2, <1>5, <1>10, <1>11, <2>1 DEF swap_cw20_token_for_uusd
    <3> QED BY <1>3, <1>4, <3>1, SoldAsSimulated
  <2>2. CASE ~(offer > 0)
    <3>1. d = e /\ offer = 0
      BY <1>2, <1>5, <1>10, <2>2
    <3>2. Long(e) - (e.position.asset + Times(e.terraswap.asset, Decimal(LpTokens(e), e.terraswap.supply))) \in 0 .. 1
      BY <1>4, LongAsSimulated
    <3>3. /\ e.position.asset - 0 = e.position.asset
          /\ e.terraswap.asset + 0 = e.terraswap.asset
      BY <1>4, SoundNumbers
    <3>4. LongAfterSale(s, 0)
            = e.position.asset + Times(e.terraswap.asset, Decimal(LpTokens(e), e.terraswap.supply))
      BY <1>3, <3>3 DEF LongAfterSale, Agrees
    <3> QED BY <1>3, <3>1, <3>2, <3>4 DEF Redeemable, AssetFor
  <2> QED BY <2>1, <2>2
<1> QED BY <1>8, <1>10, <1>12 DEF SlightlyLong

(* What a net short position has withdrawn is what was simulated.          *)
LEMMA WithdrawnWhenShort ==
  ASSUME NEW c, Sound(c), Fits(c), NEW d \in NeutralFromShort(c)
  PROVE  LET lp == WithdrawalWhenShort(c)
             s  == AfterWithdrawal(c, lp)
         IN /\ lp \in 0 .. LpTokens(c)
            /\ \E e : /\ Sound(e) /\ Fits(e) /\ Agrees(e, s) /\ Short(e) = Short(c)
                      /\ d \in BuyAsset(e, OfferWhenShort(c, s))
<1> DEFINE lp == WithdrawalWhenShort(c)
           s  == AfterWithdrawal(c, lp)
           offer == OfferWhenShort(c, s)
<1>1. lp \in 0 .. LpTokens(c)
  BY WithdrawalFound, FarmNumbers, SoundNumbers DEF NeutralFromShort
<1>2. CASE lp = 0
  <2>1. Agrees(c, AfterWithdrawal(c, 0))
    BY NothingRedeemed
  <2> QED BY <1>1, <1>2, <2>1 DEF NeutralFromShort
<1>3. CASE lp # 0
  <2>1. PICK e \in unstake_lp_from_spectrum_and_withdraw_liquidity(c, lp) : d \in BuyAsset(e, offer)
    BY <1>3 DEF NeutralFromShort, Then
  <2>2. lp \in Nat /\ lp > 0
    BY <1>1, <1>3, FarmNumbers
  <2>3. Keeps(c, e) /\ Agrees(e, s) /\ Short(e) = Short(c)
    BY <2>1, <2>2, UnstakeKeeps, RedeemedAsSimulated
  <2> QED BY <1>1, <2>1, <2>3, KeepsFits DEF Keeps
<1> QED BY <1>2, <1>3

(* A net short position buys until it owns what it owes.                   *)
LEMMA NotShortFromShort ==
  ASSUME NEW c, Sound(c), Fits(c), NEW d \in NeutralFromShort(c)
  PROVE  /\ Long(d) >= Short(d)
         /\ Short(d) = Short(c) /\ Redeemable(d) >= Short(d)
<1> DEFINE lp == WithdrawalWhenShort(c)
           s  == AfterWithdrawal(c, lp)
           offer == OfferWhenShort(c, s)
           S == {x \in Nat : ~StaysShort(c, s, x)}
<1>1. lp \in 0 .. LpTokens(c)
  BY WithdrawnWhenShort
<1>3. PICK e : /\ Sound(e) /\ Fits(e) /\ Agrees(e, s) /\ Short(e) = Short(c)
               /\ d \in BuyAsset(e, offer)
  BY WithdrawnWhenShort
<1>4. s.uusd \in Nat
  BY <1>1, WithdrawnNumbers
<1>5. ~StaysShort(c, s, s.uusd)
  <2>1. lp <= LpTokens(c)
    BY <1>1, FarmNumbers
  <2> QED BY <2>1, WithdrawalFound DEF BuyingForAllSuffices
<1> HIDE DEF s
<1>6. s.uusd \in S /\ \A x \in S : x \in Nat /\ ~StaysShort(c, s, x)
  BY <1>4, <1>5
<1>7. offer = Leftmost(S, 0, s.uusd + 1)
  BY DEF OfferWhenShort
<1> HIDE DEF S, offer
<1>8. offer \in S
  <2>1. s.uusd + 1 \in Nat /\ 0 \in Nat /\ 0 <= s.uusd + 1
    BY <1>4
  <2>2. /\ offer \in 0 .. s.uusd + 1
        /\ offer < s.uusd + 1 => offer \in S
        /\ offer > 0 => offer - 1 \notin S
    BY <1>7, <2>1, LeftmostBoundary
  <2>3. offer # s.uusd + 1
    <3>1. (s.uusd + 1) - 1 = s.uusd /\ s.uusd + 1 > 0
      BY <1>4
    <3> QED BY <1>6, <2>2, <3>1
  <2>4. offer < s.uusd + 1
    BY <1>4, <2>2, <2>3
  <2> QED BY <2>2, <2>4
<1>9. /\ LongAfterPurchase(s, offer) \in Nat
      /\ Long(d) - LongAfterPurchase(s, offer) \in 0 .. 1 /\ Short(d) = Short(c)
      /\ Redeemable(d) = LongAfterPurchase(s, offer)
  BY <1>3, <1>6, <1>8, BoughtAsSimulated
<1>10. Short(c) \in Nat /\ Long(d) \in Nat
  <2>1. offer \in Nat
    BY <1>6, <1>8
  <2>2. Sound(d)
    BY <1>3, <2>1, BuyKeeps
  <2> QED BY <2>2, FarmNumbers
<1>11. ~(LongAfterPurchase(s, offer) < Short(c))
  BY <1>6, <1>8 DEF StaysShort
<1> QED BY <1>9, <1>10, <1>11

(* In a pool of at least as much uusd as asset, one uusd more makes the    *)
(* long amount one unit more at most.                                      *)
LEMMA PurchaseNext ==
  ASSUME NEW s, s.poolUusd \in Nat \ {0}, s.poolAsset \in Nat, s.poolAsset <= s.poolUusd,
         s.asset \in Nat, s.lpRatio \in Nat, NEW x \in Nat
  PROVE  /\ LongAfterPurchase(s, x) \in Nat
         /\ LongAfterPurchase(s, x + 1) <= LongAfterPurchase(s, x) + 1
<1> DEFINE r == SwapReturn(s.poolUusd, s.poolAsset, x)
           q == SwapReturn(s.poolUusd, s.poolAsset, x + 1)
<1>1. x + 1 \in Nat /\ x <= x + 1
  OBVIOUS
<1>2. r \in 0 .. s.poolAsset /\ q \in 0 .. s.poolAsset
  BY <1>1, SwapReturnBounds
<1>3. r <= q /\ q <= r + 1
  BY <1>1, SwapReturnMonotone, SwapReturnNext
<1>4. /\ LongAfterPurchase(s, x) = Times(s.poolAsset - r, s.lpRatio) + r + s.asset
      /\ LongAfterPurchase(s, x + 1) = Times(s.poolAsset - q, s.lpRatio) + q + s.asset
  BY SimulateIs DEF LongAfterPurchase
<1> HIDE DEF r, q
<1>5. /\ s.poolAsset - r \in Nat /\ s.poolAsset - q \in Nat
      /\ s.poolAsset - q <= s.poolAsset - r
  BY <1>2, <1>3
<1>6. /\ Times(s.poolAsset - r, s.lpRatio) \in Nat /\ Times(s.poolAsset - q, s.lpRatio) \in Nat
      /\ Times(s.poolAsset - q, s.lpRatio) <= Times(s.poolAsset - r, s.lpRatio)
  BY <1>5, TimesNat, TimesMonotone
<1> QED BY <1>2, <1>3, <1>4, <1>6

LEMMA BuyingNothingFails ==
  ASSUME NEW e, Sound(e)
  PROVE  BuyAsset(e, 0) = {}
<1> DEFINE o == e.terraswap.uusd
           a == e.terraswap.asset
           D == DECIMAL_FRACTIONAL
<1>1. o \in Nat \ {0} /\ a \in Nat /\ D \in Nat \ {0} /\ o * a * D \in Nat
  BY SoundNumbers, DecimalAssumption
<1>2. Gross(o, a, 0) = 0
  <2> HIDE DEF o, a, D
  <2>1. o * (a * D) = o * a * D /\ a * D \in Nat /\ o + 0 = o
    BY <1>1
  <2>2. a * D <= (o * a * D) \div o /\ (o * a * D) \div o <= a * D /\ (o * a * D) \div o \in Nat
    BY <1>1, <2>1, DivAtLeast, DivAtMost, DivBounds
  <2>3. (o * a * D) \div o = a * D
    BY <2>1, <2>2
  <2>4. a * D - a * D = 0 /\ 0 \div D = 0
    BY <1>1, <2>1
  <2> QED BY <2>1, <2>3, <2>4 DEF Gross, Left, D
<1>3. SwapReturn(o, a, 0) = 0
  <2>1. 0 * Commission = 0 /\ 0 \div D = 0 /\ 0 - 0 = 0
    BY <1>1, CommissionAssumption
  <2> QED BY <1>1, <1>2, <2>1, SwapReturnIs
<1> QED BY <1>3, SimulateIs DEF BuyAsset

(* A net short position is not more than one unit long after buying, unless*)
(* the asset is cheap.                                                     *)
LEMMA AtMostSlightlyLongFromShort ==
  ASSUME NEW c, Sound(c), Fits(c), Long(c) < Short(c), ~BuysCheaply(c), NEW d \in NeutralFromShort(c)
  PROVE  Long(d) <= Short(d) + 1
<1> DEFINE lp == WithdrawalWhenShort(c)
           s  == AfterWithdrawal(c, lp)
           offer == OfferWhenShort(c, s)
           S == {x \in Nat : ~StaysShort(c, s, x)}
<1>1. lp \in 0 .. LpTokens(c)
  BY WithdrawalFound, FarmNumbers, SoundNumbers DEF NeutralFromShort
<1>2. PICK e : /\ Sound(e) /\ Fits(e) /\ Agrees(e, s) /\ Short(e) = Short(c)
               /\ d \in BuyAsset(e, offer)
  BY WithdrawnWhenShort
<1>3. /\ s.uusd \in Nat /\ s.asset \in Nat /\ s.poolAsset \in Nat
      /\ s.poolUusd \in Nat \ {0} /\ s.poolAsset <= s.poolUusd
  <2>1. e.terraswap.uusd \in Nat \ {0} /\ e.terraswap.asset \in Nat
    BY <1>2, SoundNumbers
  <2>2. ~(s.poolUusd < s.poolAsset)
    BY DEF BuysCheaply
  <2>3. s.poolUusd = e.terraswap.uusd /\ s.poolAsset = e.terraswap.asset
    BY <1>2 DEF Agrees
  <2> HIDE DEF s, lp
  <2>4. s.uusd \in Nat /\ s.asset \in Nat
    BY <1>1, WithdrawnNumbers DEF s
  <2> QED BY <2>1, <2>2, <2>3, <2>4
<1>4. s.lpRatio \in Nat
  <2>1. e.terraswap.supply \in Nat /\ e.terraswap.supply > 0 /\ LpTokens(e) \in Nat
    BY <1>2, FarmNumbers, SoundNumbers DEF Sound
  <2> QED BY <1>2, <2>1, DecimalNat DEF Agrees
<1> HIDE DEF s
<1>5. /\ offer \in Nat
      /\ offer > 0 => offer - 1 \notin S
  <2>1. offer = Leftmost(S, 0, s.uusd + 1)
    BY DEF OfferWhenShort
  <2>2. s.uusd + 1 \in Nat /\ 0 \in Nat /\ 0 <= s.uusd + 1
    BY <1>3
  <2> HIDE DEF S, offer
  <2>3. /\ offer \in 0 .. s.uusd + 1
        /\ offer > 0 => offer - 1 \notin S
    BY <2>1, <2>2, LeftmostBoundary
  <2> QED BY <2>2, <2>3
<1> HIDE DEF offer
<1>6. offer > 0 /\ offer - 1 \in Nat /\ (offer - 1) + 1 = offer
  <2>1. offer # 0
    BY <1>2, BuyingNothingFails
  <2> QED BY <1>5, <2>1
<1>7. LongAfterPurchase(s, offer - 1) < Short(c)
  BY <1>5, <1>6 DEF StaysShort
<1>8. /\ LongAfterPurchase(s, offer - 1) \in Nat
      /\ LongAfterPurchase(s, offer) <= LongAfterPurchase(s, offer - 1) + 1
  BY <1>3, <1>4, <1>6, PurchaseNext
<1>9. /\ LongAfterPurchase(s, offer) \in Nat
      /\ Long(d) - LongAfterPurchase(s, offer) \in 0 .. 1 /\ Short(d) = Short(c)
  BY <1>2, <1>5, BoughtAsSimulated
<1>10. Short(c) \in Nat /\ Long(d) \in Nat
  <2>1. Sound(d)
    BY <1>2, <1>5, BuyKeeps
  <2> QED BY <2>1, FarmNumbers
<1> QED BY <1>7, <1>8, <1>9, <1>10

(* What trading promises of one state, and that it holds of sound ones.    *)
TradesToNeutral(c) ==
  \A d \in achieve_delta_neutral_from_state(c) :
    /\ Long(d) >= Short(d) \/ WithdrawsDust(c) \/ TurnsShort(c)
    /\ Long(d) <= Short(d) + 1 \/ BuysCheaply(c)

LEMMA TradesToNeutralSound ==
  ASSUME NEW c, Sound(c), Fits(c), ~SoldElsewhere(c)
  PROVE  TradesToNeutral(c)
<1> SUFFICES ASSUME NEW d \in achieve_delta_neutral_from_state(c)
             PROVE  /\ Long(d) >= Short(d) \/ WithdrawsDust(c) \/ TurnsShort(c)
                    /\ Long(d) <= Short(d) + 1 \/ BuysCheaply(c)
  BY DEF TradesToNeutral
<1>1. Long(c) \in Nat /\ Short(c) \in Nat
  BY FarmNumbers
<1>2. Long(d) \in Nat /\ Short(d) \in Nat
  BY AchieveKeeps, FarmNumbers DEF Keeps
<1>3. CASE Long(c) > Short(c)
  <2>1. d \in NeutralFromLong(c)
    BY <1>1, <1>3 DEF achieve_delta_neutral_from_state
  <2>2. ~WithdrawsDust(c) /\ ~TurnsShort(c) => Long(d) >= Short(d)
    BY <1>2, <1>3, <2>1, SlightlyLongFromLong DEF TurnsShort, SlightlyLong
  <2> QED BY <1>3, <2>1, <2>2, AtMostSlightlyLongFromLong
<1>4. CASE Long(c) < Short(c)
  <2>1. d \in NeutralFromShort(c)
    BY <1>1, <1>4 DEF achieve_delta_neutral_from_state
  <2> QED BY <1>4, <2>1, NotShortFromShort, AtMostSlightlyLongFromShort
<1>5. CASE Long(c) = Short(c)
  <2>1. d = c
    BY <1>1, <1>5 DEF achieve_delta_neutral_from_state
  <2> QED BY <1>1, <1>5, <2>1
<1> QED BY <1>1, <1>3, <1>4, <1>5

(* What a transaction trades with once it has claimed its rewards.         *)
LEMMA ClaimedFits ==
  ASSUME TypeOK, FitsDecimal, NEW rewards \in Rewards \cup {0}
  PROVE  LET c == claim_and_increase_uusd_balance(chain, rewards)
         IN Sound(c) /\ MintFits(c) /\ Fits(c)
<1> DEFINE c == claim_and_increase_uusd_balance(chain, rewards)
<1>1. Sound(chain) /\ price \in Prices /\ rewards \in Nat /\ Room(chain, rewards)
  BY TypeIsSound, TradesAssumption, HasRoom
<1>2. Sound(c) /\ Uusd(c) = Uusd(chain) + rewards /\ Assets(c) = Assets(chain)
  BY <1>1, ClaimSound
<1>3. MintFits(c)
  BY <1>1, <1>2 DEF MintFits, Room
<1> QED BY <1>1, <1>2, <1>3, MintFitsFits

(* Trading makes the position own what it owes, or one unit more           *)
(* (rebalance.rs:223 and 347), in every reachable state of every market,   *)
(* but in the cases that TradedToNeutralOnTerraswap names: sales on        *)
(* Astroport, redemptions left out, withdrawals that turn the position     *)
(* short by themselves, and purchases of an asset worth less than uusd.    *)
THEOREM TradesToNeutralOnTerraswap == Spec /\ []FitsDecimal => []TradedToNeutralOnTerraswap
<1>1. TypeOK /\ FitsDecimal => TradedToNeutralOnTerraswap
  <2> SUFFICES ASSUME TypeOK, FitsDecimal, NEW rewards \in Rewards,
                      NEW c, c = claim_and_increase_uusd_balance(chain, rewards),
                      ~SoldElsewhere(c)
               PROVE  TradesToNeutral(c)
    BY DEF TradedToNeutralOnTerraswap, TradesToNeutral
  <2> QED BY ClaimedFits, TradesToNeutralSound
<1> QED BY TypeCorrect, <1>1, PTL

(* Whatever the pools, the farm and the position have become: the search   *)
(* for the collateral (open.rs:88-137) and the one for the withdrawal of a *)
(* net short position (rebalance.rs:262-312) end at a boundary of what     *)
(* they search, although it is not monotone.                               *)
THEOREM SearchesAlwaysEndAtBoundary == Spec /\ []FitsDecimal => []SearchesEndAtBoundary
<1>1. TypeOK => SearchesEndAtBoundary
  <2> SUFFICES ASSUME TypeOK
               PROVE  SearchesEndAtBoundary
    OBVIOUS
  <2>1. Sound(chain)
    BY TypeIsSound
  <2>2. \A budget \in (IF phase = "none" THEN Deposits ELSE {chain.position.uusd}) : budget \in Nat
    BY <2>1, SoundNumbers, TradesAssumption
  <2>3. ASSUME NEW budget \in Nat
        PROVE  LET found == CollateralSearch(chain, budget) IN
               /\ found.collateral > 0 => Feasible(chain, budget, found.collateral)
               /\ \/ found.overflow \/ found.collateral + 1 >= budget
                  \/ ~Feasible(chain, budget, found.collateral + 1)
    <3> DEFINE found == CollateralSearch(chain, budget)
    <3>1. /\ found.collateral \in 0 .. budget
          /\ found.collateral > 0 => Feasible(chain, budget, found.collateral)
          /\ ~found.overflow /\ found.collateral + 1 < budget =>
               ~Feasible(chain, budget, found.collateral + 1)
      BY CollateralBoundary
    <3> HIDE DEF found
    <3>2. found.collateral + 1 < budget \/ found.collateral + 1 >= budget
      BY <3>1
    <3> QED BY <3>1, <3>2 DEF found
  <2>4. LET lp == WithdrawalWhenShort(chain) IN
        /\ lp <= LpTokens(chain) => BuyingForAllSuffices(chain, lp)
        /\ lp > 0 => ~BuyingForAllSuffices(chain, lp - 1)
    BY <2>1, WithdrawalFound, NoLessSuffices
  <2> QED BY <2>2, <2>3, <2>4 DEF SearchesEndAtBoundary
<1> QED BY TypeCorrect, <1>1, PTL

=============================================================================
