----------------------------- MODULE SumTheorems -----------------------------
(***************************************************************************)
(* What the proofs of the other modules need to know of a sum over a       *)
(* finite set, SumFunctionOnSet of the module Functions: that it does not  *)
(* depend on the order in which the fold takes the elements.               *)
(*                                                                         *)
(* The inductions look for a minimal set among those where a statement     *)
(* fails: strict inclusion is well founded on the subsets of a finite set, *)
(* and WFMin says so of sets, not of operators.                            *)
(***************************************************************************)
EXTENDS Integers, FiniteSets, Functions, FiniteSetTheorems, TLAPS

(* A set of subsets of a finite set that has an element has a minimal one. *)
LEMMA MinimalSubset ==
  ASSUME NEW S, IsFiniteSet(S), NEW B \in SUBSET SUBSET S, B # {}
  PROVE  \E T \in B : \A U \in SUBSET T : U # T => U \notin B
<1> DEFINE R == StrictSubsetOrdering(S)
<1>1. IsWellFoundedOn(R, SUBSET S)
  BY FS_StrictSubsetOrderingWellFounded, FS_FiniteSubsetsOfFinite
<1>2. PICK T \in B : \A U \in B : ~(<<U, T>> \in R)
  <2> HIDE DEF R
  <2> QED BY <1>1, WFMin
<1>3. ASSUME NEW U \in SUBSET T, U # T, U \in B
      PROVE  FALSE
  <2>1. <<U, T>> \in (SUBSET S) \X (SUBSET S)
    OBVIOUS
  <2>2. <<U, T>> \in R
    BY <2>1, <1>3 DEF StrictSubsetOrdering
  <2> QED BY <2>2, <1>2, <1>3
<1> QED BY <1>3

-----------------------------------------------------------------------------
(* The fold.                                                               *)

(* The element of a set that the fold takes first.                         *)
First(S) == CHOOSE x \in S : TRUE

LEMMA FirstIn ==
  ASSUME NEW S, S # {}
  PROVE  First(S) \in S
BY DEF First

(* The function by which the sum over S is computed.                       *)
Step(f, g, s) == IF s = {} THEN 0 ELSE f[First(s)] + g[s \ {First(s)}]
IsFold(g, f, S) == g = [s \in SUBSET S |-> Step(f, g, s)]

LEMMA SumIsFold ==
  ASSUME NEW f, NEW S
  PROVE  SumFunctionOnSet(f, S) = (CHOOSE g : IsFold(g, f, S))[S]
BY DEF SumFunctionOnSet, FoldFunctionOnSet, MapThenFoldSet, IsFold, Step, First

(* Two folds agree where both are defined.                                 *)
LEMMA FoldUnique ==
  ASSUME NEW f, NEW S, NEW T, NEW g, NEW h, IsFold(g, f, S), IsFold(h, f, T),
         NEW U, U \subseteq S, U \subseteq T, IsFiniteSet(U)
  PROVE  g[U] = h[U]
<1> DEFINE B == {V \in SUBSET U : g[V] # h[V]}
<1>1. CASE B = {}
  BY <1>1
<1>2. CASE B # {}
  <2>1. PICK V \in B : \A W \in SUBSET V : W # V => W \notin B
    <3> HIDE DEF B
    <3>1. B \in SUBSET SUBSET U
      BY DEF B
    <3> QED BY <3>1, <1>2, MinimalSubset
  <2>2. V \subseteq U /\ g[V] # h[V]
    OBVIOUS
  <2>3. g[V] = Step(f, g, V) /\ h[V] = Step(f, h, V)
    BY <2>2 DEF IsFold
  <2>4. V # {}
    BY <2>2, <2>3 DEF Step
  <2>5. First(V) \in V
    BY <2>4, FirstIn
  <2>6. g[V \ {First(V)}] = h[V \ {First(V)}]
    BY <2>1, <2>2, <2>5
  <2> QED BY <2>2, <2>3, <2>4, <2>6 DEF Step
<1> QED BY <1>1, <1>2

(* A fold over T is made of the folds over its subsets.                    *)
LEMMA FoldExtends ==
  ASSUME NEW f, NEW T, IsFiniteSet(T),
         \A U \in SUBSET T : U # T => \E g : IsFold(g, f, U)
  PROVE  \E g : IsFold(g, f, T)
<1> DEFINE Sum(U) == (CHOOSE g : IsFold(g, f, U))[U]
           h == [s \in SUBSET T |->
                   IF s = {} THEN 0 ELSE f[First(s)] + Sum(s \ {First(s)})]
<1>1. ASSUME NEW U \in SUBSET T, U # T
      PROVE  Sum(U) = h[U]
  <2> DEFINE gU == CHOOSE g : IsFold(g, f, U)
  <2>1. IsFold(gU, f, U)
    BY <1>1
  <2>2. gU[U] = Step(f, gU, U)
    BY <2>1 DEF IsFold
  <2>3. CASE U = {}
    BY <2>2, <2>3 DEF Step
  <2>4. CASE U # {}
    <3> DEFINE W == U \ {First(U)}
               gW == CHOOSE g : IsFold(g, f, W)
    <3>1. First(U) \in U
      BY <2>4, FirstIn
    <3>2. W \in SUBSET T /\ W # T /\ W \subseteq U
      BY <3>1
    <3>3. IsFold(gW, f, W)
      BY <3>2
    <3>4. IsFiniteSet(W)
      BY <3>2, FS_Subset
    <3>5. gU[W] = gW[W]
      <4> HIDE DEF gU, gW, W
      <4> QED BY <2>1, <3>2, <3>3, <3>4, FoldUnique
    <3>6. gU[U] = f[First(U)] + gU[W]
      BY <2>2, <2>4 DEF Step
    <3>7. h[U] = f[First(U)] + gW[W]
      BY <2>4
    <3> QED BY <3>5, <3>6, <3>7
  <2> QED BY <2>3, <2>4
<1>2. ASSUME NEW s \in SUBSET T
      PROVE  h[s] = Step(f, h, s)
  <2>1. CASE s = {}
    BY <2>1 DEF Step
  <2>2. CASE s # {}
    <3>1. First(s) \in s
      BY <2>2, FirstIn
    <3>2. Sum(s \ {First(s)}) = h[s \ {First(s)}]
      <4>1. s \ {First(s)} \in SUBSET T /\ s \ {First(s)} # T
        BY <3>1
      <4> HIDE DEF Sum, h
      <4> QED BY <4>1, <1>1
    <3>3. h[s] = f[First(s)] + Sum(s \ {First(s)})
      BY <2>2
    <3> HIDE DEF Sum, h
    <3> QED BY <2>2, <3>2, <3>3 DEF Step
  <2> QED BY <2>1, <2>2
<1>3. h = [s \in SUBSET T |-> Step(f, h, s)]
  <2>1. h = [s \in SUBSET T |-> h[s]]
    OBVIOUS
  <2> HIDE DEF h
  <2> QED BY <2>1, <1>2
<1>4. IsFold(h, f, T)
  <2> HIDE DEF h
  <2> QED BY <1>3 DEF IsFold
<1> QED BY <1>4

(* The fold over a finite set exists.                                      *)
LEMMA FoldExists ==
  ASSUME NEW f, NEW S, IsFiniteSet(S)
  PROVE  \E g : IsFold(g, f, S)
<1> DEFINE B == {T \in SUBSET S : ~\E g : IsFold(g, f, T)}
<1>1. CASE B = {}
  BY <1>1
<1>2. CASE B # {}
  <2>1. PICK T \in B : \A U \in SUBSET T : U # T => U \notin B
    <3> HIDE DEF B
    <3>1. B \in SUBSET SUBSET S
      BY DEF B
    <3> QED BY <3>1, <1>2, MinimalSubset
  <2>2. T \subseteq S /\ ~\E g : IsFold(g, f, T)
    OBVIOUS
  <2>3. \A U \in SUBSET T : U # T => \E g : IsFold(g, f, U)
    BY <2>1, <2>2
  <2>4. IsFiniteSet(T)
    BY <2>2, FS_Subset
  <2> QED BY <2>2, <2>3, <2>4, FoldExtends
<1> QED BY <1>1, <1>2

-----------------------------------------------------------------------------
(* The sum.                                                                *)

(* A sum is what it begins with and the rest.                              *)
LEMMA SumStep ==
  ASSUME NEW f, NEW S, IsFiniteSet(S)
  PROVE  SumFunctionOnSet(f, S) =
           IF S = {} THEN 0
           ELSE f[First(S)] + SumFunctionOnSet(f, S \ {First(S)})
<1> DEFINE T  == S \ {First(S)}
           gS == CHOOSE g : IsFold(g, f, S)
           gT == CHOOSE g : IsFold(g, f, T)
<1>1. IsFiniteSet(T) /\ T \subseteq S
  BY FS_Subset
<1>2. IsFold(gS, f, S) /\ IsFold(gT, f, T)
  BY <1>1, FoldExists
<1>3. SumFunctionOnSet(f, S) = gS[S] /\ SumFunctionOnSet(f, T) = gT[T]
  BY SumIsFold
<1>4. gS[S] = Step(f, gS, S)
  BY <1>2 DEF IsFold
<1>5. gS[T] = gT[T]
  <2> HIDE DEF gS, gT, T
  <2> QED BY <1>1, <1>2, FoldUnique
<1> HIDE DEF gS, gT
<1> QED BY <1>3, <1>4, <1>5 DEF Step

(* The empty sum.                                                          *)
THEOREM SumEmpty ==
  ASSUME NEW f
  PROVE  SumFunctionOnSet(f, {}) = 0
BY SumStep, FS_EmptySet

(* A sum of integers is an integer.                                        *)
THEOREM SumInt ==
  ASSUME NEW f, NEW S, IsFiniteSet(S), \A x \in S : f[x] \in Int
  PROVE  SumFunctionOnSet(f, S) \in Int
<1> DEFINE B == {T \in SUBSET S : SumFunctionOnSet(f, T) \notin Int}
<1>1. CASE B = {}
  BY <1>1
<1>2. CASE B # {}
  <2>1. PICK T \in B : \A U \in SUBSET T : U # T => U \notin B
    <3> HIDE DEF B
    <3>1. B \in SUBSET SUBSET S
      BY DEF B
    <3> QED BY <3>1, <1>2, MinimalSubset
  <2>2. T \subseteq S /\ SumFunctionOnSet(f, T) \notin Int
    OBVIOUS
  <2>3. IsFiniteSet(T)
    BY <2>2, FS_Subset
  <2>4. T # {}
    BY <2>2, SumEmpty
  <2>5. First(T) \in T
    BY <2>4, FirstIn
  <2>6. SumFunctionOnSet(f, T \ {First(T)}) \in Int
    BY <2>1, <2>2, <2>5
  <2>7. SumFunctionOnSet(f, T) = f[First(T)] + SumFunctionOnSet(f, T \ {First(T)})
    BY <2>3, <2>4, SumStep
  <2>8. f[First(T)] \in Int
    BY <2>2, <2>5
  <2> QED BY <2>2, <2>6, <2>7, <2>8
<1> QED BY <1>1, <1>2

(* Any element may be taken out of a sum.                                  *)
THEOREM SumRemove ==
  ASSUME NEW f, NEW S, IsFiniteSet(S), \A x \in S : f[x] \in Int, NEW e \in S
  PROVE  SumFunctionOnSet(f, S) = f[e] + SumFunctionOnSet(f, S \ {e})
<1> DEFINE Sum(T) == SumFunctionOnSet(f, T)
           B == {T \in SUBSET S : \E x \in T : Sum(T) # f[x] + Sum(T \ {x})}
<1>1. CASE B = {}
  BY <1>1
<1>2. CASE B # {}
  <2>1. PICK T \in B : \A U \in SUBSET T : U # T => U \notin B
    <3> HIDE DEF B
    <3>1. B \in SUBSET SUBSET S
      BY DEF B
    <3> QED BY <3>1, <1>2, MinimalSubset
  <2>2. PICK x \in T : Sum(T) # f[x] + Sum(T \ {x})
    OBVIOUS
  <2> DEFINE c == First(T)
             V == T \ {c}
             W == T \ {x}
             R == (T \ {c}) \ {x}
  <2>3. T \subseteq S /\ c \in T
    BY FirstIn
  <2>4. \A U : U \subseteq S => IsFiniteSet(U) /\ Sum(U) \in Int
    <3> TAKE U
    <3> HAVE U \subseteq S
    <3>1. IsFiniteSet(U)
      BY FS_Subset
    <3> QED BY <3>1, SumInt
  <2>5. Sum(T) = f[c] + Sum(V)
    BY <2>3, <2>4, SumStep
  <2>6. x # c
    BY <2>2, <2>5
  <2>7. V \notin B /\ W \notin B /\ V \subseteq S /\ W \subseteq S /\ x \in V /\ c \in W
    BY <2>1, <2>2, <2>3, <2>6
  <2>8. Sum(V) = f[x] + Sum(R)
    BY <2>7
  <2>9. W \ {c} = R
    OBVIOUS
  <2>10. Sum(W) = f[c] + Sum(R)
    BY <2>7, <2>9
  <2>11. f[c] \in Int /\ f[x] \in Int /\ Sum(R) \in Int
    BY <2>3, <2>4, <2>2
  <2> HIDE DEF Sum, c, V, R
  <2> QED BY <2>2, <2>5, <2>8, <2>10, <2>11
<1> QED BY <1>1, <1>2

(* An element that was not counted adds its own amount.                    *)
THEOREM SumAdd ==
  ASSUME NEW f, NEW S, IsFiniteSet(S), NEW e, e \notin S,
         \A x \in S \cup {e} : f[x] \in Int
  PROVE  SumFunctionOnSet(f, S \cup {e}) = f[e] + SumFunctionOnSet(f, S)
<1>1. IsFiniteSet(S \cup {e}) /\ (S \cup {e}) \ {e} = S
  BY FS_AddElement
<1> QED BY <1>1, SumRemove

(* A sum depends on the amounts of its elements only.                      *)
THEOREM SumSame ==
  ASSUME NEW f, NEW g, NEW S, IsFiniteSet(S), \A x \in S : f[x] = g[x]
  PROVE  SumFunctionOnSet(f, S) = SumFunctionOnSet(g, S)
<1> DEFINE B == {T \in SUBSET S : SumFunctionOnSet(f, T) # SumFunctionOnSet(g, T)}
<1>1. CASE B = {}
  BY <1>1
<1>2. CASE B # {}
  <2>1. PICK T \in B : \A U \in SUBSET T : U # T => U \notin B
    <3> HIDE DEF B
    <3>1. B \in SUBSET SUBSET S
      BY DEF B
    <3> QED BY <3>1, <1>2, MinimalSubset
  <2>2. T \subseteq S /\ SumFunctionOnSet(f, T) # SumFunctionOnSet(g, T)
    OBVIOUS
  <2>3. IsFiniteSet(T)
    BY <2>2, FS_Subset
  <2>4. T # {}
    BY <2>2, SumEmpty
  <2>5. First(T) \in T
    BY <2>4, FirstIn
  <2>6. SumFunctionOnSet(f, T \ {First(T)}) = SumFunctionOnSet(g, T \ {First(T)})
    BY <2>1, <2>2, <2>5
  <2>7. f[First(T)] = g[First(T)]
    BY <2>2, <2>5
  <2> QED BY <2>2, <2>3, <2>4, <2>6, <2>7, SumStep
<1> QED BY <1>1, <1>2

(* A sum of natural numbers is one, and no less than any of them.          *)
THEOREM SumNat ==
  ASSUME NEW f, NEW S, IsFiniteSet(S), \A x \in S : f[x] \in Nat
  PROVE  SumFunctionOnSet(f, S) \in Nat
<1> DEFINE B == {T \in SUBSET S : SumFunctionOnSet(f, T) \notin Nat}
<1>1. CASE B = {}
  BY <1>1
<1>2. CASE B # {}
  <2>1. PICK T \in B : \A U \in SUBSET T : U # T => U \notin B
    <3> HIDE DEF B
    <3>1. B \in SUBSET SUBSET S
      BY DEF B
    <3> QED BY <3>1, <1>2, MinimalSubset
  <2>2. T \subseteq S /\ SumFunctionOnSet(f, T) \notin Nat
    OBVIOUS
  <2>3. IsFiniteSet(T)
    BY <2>2, FS_Subset
  <2>4. T # {}
    BY <2>2, SumEmpty
  <2>5. First(T) \in T
    BY <2>4, FirstIn
  <2>6. SumFunctionOnSet(f, T \ {First(T)}) \in Nat
    BY <2>1, <2>2, <2>5
  <2>7. SumFunctionOnSet(f, T) = f[First(T)] + SumFunctionOnSet(f, T \ {First(T)})
    BY <2>3, <2>4, SumStep
  <2>8. f[First(T)] \in Nat
    BY <2>2, <2>5
  <2> QED BY <2>2, <2>6, <2>7, <2>8
<1> QED BY <1>1, <1>2

THEOREM SumBoundsElement ==
  ASSUME NEW f, NEW S, IsFiniteSet(S), \A x \in S : f[x] \in Nat, NEW e \in S
  PROVE  f[e] <= SumFunctionOnSet(f, S)
<1>1. IsFiniteSet(S \ {e})
  BY FS_Subset
<1>2. SumFunctionOnSet(f, S \ {e}) \in Nat
  BY <1>1, SumNat
<1>3. f[e] \in Nat /\ \A x \in S : f[x] \in Int
  OBVIOUS
<1>4. SumFunctionOnSet(f, S) = f[e] + SumFunctionOnSet(f, S \ {e})
  BY <1>3, SumRemove
<1> QED BY <1>2, <1>3, <1>4

(* The sum over a set and over one disjoint from it.                       *)
THEOREM SumUnion ==
  ASSUME NEW f, NEW S, IsFiniteSet(S), NEW T, IsFiniteSet(T), S \cap T = {},
         \A x \in S \cup T : f[x] \in Int
  PROVE  SumFunctionOnSet(f, S \cup T) = SumFunctionOnSet(f, S) + SumFunctionOnSet(f, T)
<1> DEFINE Sum(U) == SumFunctionOnSet(f, U)
           B == {U \in SUBSET T : Sum(S \cup U) # Sum(S) + Sum(U)}
<1>0. Sum(S) \in Int
  BY SumInt
<1>1. CASE B = {}
  BY <1>1
<1>2. CASE B # {}
  <2>1. PICK U \in B : \A V \in SUBSET U : V # U => V \notin B
    <3> HIDE DEF B
    <3>1. B \in SUBSET SUBSET T
      BY DEF B
    <3> QED BY <3>1, <1>2, MinimalSubset
  <2>2. U \subseteq T /\ Sum(S \cup U) # Sum(S) + Sum(U)
    OBVIOUS
  <2>3. U # {}
    <3>1. SUFFICES ASSUME U = {} PROVE FALSE
      OBVIOUS
    <3>2. S \cup U = S
      BY <3>1
    <3>3. Sum(S \cup U) = Sum(S)
      BY <3>2
    <3>4. Sum(U) = 0
      BY <3>1, SumEmpty
    <3> HIDE DEF Sum
    <3> QED BY <3>3, <3>4, <2>2, <1>0
  <2>4. PICK x : x \in U
    BY <2>3
  <2> DEFINE V == U \ {x}
  <2>5. Sum(S \cup V) = Sum(S) + Sum(V)
    BY <2>1, <2>2, <2>4
  <2>6. IsFiniteSet(U) /\ IsFiniteSet(V)
    BY <2>2, FS_Subset
  <2>7. IsFiniteSet(S \cup U) /\ \A y \in S \cup U : f[y] \in Int
    BY <2>2, <2>6, FS_Union
  <2>8. x \in S \cup U /\ (S \cup U) \ {x} = S \cup V
    BY <2>2, <2>4
  <2>9. Sum(S \cup U) = f[x] + Sum(S \cup V)
    BY <2>7, <2>8, SumRemove
  <2>10. Sum(U) = f[x] + Sum(V)
    BY <2>2, <2>4, <2>6, SumRemove
  <2>11. Sum(V) \in Int /\ f[x] \in Int
    BY <2>2, <2>4, <2>6, SumInt
  <2> HIDE DEF Sum, V
  <2> QED BY <1>0, <2>2, <2>5, <2>9, <2>10, <2>11
<1> QED BY <1>1, <1>2

(* Fewer elements sum to no more.                                          *)
THEOREM SumSubset ==
  ASSUME NEW f, NEW S, IsFiniteSet(S), NEW T \in SUBSET S, \A x \in S : f[x] \in Nat
  PROVE  /\ SumFunctionOnSet(f, T) <= SumFunctionOnSet(f, S)
         /\ SumFunctionOnSet(f, S) = SumFunctionOnSet(f, T) + SumFunctionOnSet(f, S \ T)
<1>1. IsFiniteSet(T) /\ IsFiniteSet(S \ T) /\ T \cap (S \ T) = {} /\ T \cup (S \ T) = S
  BY FS_Subset
<1>2. SumFunctionOnSet(f, T) \in Nat /\ SumFunctionOnSet(f, S \ T) \in Nat
  BY <1>1, SumNat
<1>3. \A x \in T \cup (S \ T) : f[x] \in Int
  OBVIOUS
<1>4. SumFunctionOnSet(f, T \cup (S \ T)) = SumFunctionOnSet(f, T) + SumFunctionOnSet(f, S \ T)
  BY <1>1, <1>3, SumUnion
<1>5. SumFunctionOnSet(f, S) = SumFunctionOnSet(f, T) + SumFunctionOnSet(f, S \ T)
  BY <1>1, <1>4
<1> QED BY <1>2, <1>5

(* When one amount changes, the sum changes by as much.                    *)
THEOREM SumUpdate ==
  ASSUME NEW f, NEW g, NEW S, IsFiniteSet(S), NEW e \in S,
         \A x \in S : f[x] \in Int, g[e] \in Int, \A x \in S \ {e} : g[x] = f[x]
  PROVE  SumFunctionOnSet(g, S) = SumFunctionOnSet(f, S) - f[e] + g[e]
<1>1. IsFiniteSet(S \ {e}) /\ \A x \in S : g[x] \in Int
  BY FS_Subset
<1>2. SumFunctionOnSet(g, S \ {e}) = SumFunctionOnSet(f, S \ {e})
  BY <1>1, SumSame
<1>3. SumFunctionOnSet(f, S \ {e}) \in Int /\ f[e] \in Int
  BY <1>1, SumInt
<1>4. /\ SumFunctionOnSet(f, S) = f[e] + SumFunctionOnSet(f, S \ {e})
      /\ SumFunctionOnSet(g, S) = g[e] + SumFunctionOnSet(g, S \ {e})
  BY <1>1, SumRemove
<1> QED BY <1>2, <1>3, <1>4

(* The sum over one element.                                               *)
THEOREM SumSingle ==
  ASSUME NEW f, NEW e, f[e] \in Int
  PROVE  SumFunctionOnSet(f, {e}) = f[e]
<1>1. IsFiniteSet({e}) /\ \A x \in {e} : f[x] \in Int
  BY FS_Singleton
<1>2. SumFunctionOnSet(f, {e}) = f[e] + SumFunctionOnSet(f, {e} \ {e})
  BY <1>1, SumRemove
<1>3. SumFunctionOnSet(f, {e} \ {e}) = 0
  <2>1. {e} \ {e} = {}
    OBVIOUS
  <2>. QED
    BY <2>1, SumEmpty, Zenon
<1>. QED
  BY <1>2, <1>3

(* Nothing adds up to nothing.                                             *)
THEOREM SumZero ==
  ASSUME NEW f, NEW S, IsFiniteSet(S), \A x \in S : f[x] = 0
  PROVE  SumFunctionOnSet(f, S) = 0
<1> DEFINE Sum(T) == SumFunctionOnSet(f, T)
           B == {T \in SUBSET S : Sum(T) # 0}
<1>1. ASSUME B # {} PROVE FALSE
  <2>1. PICK T \in B : \A U \in SUBSET T : U # T => U \notin B
    <3> HIDE DEF B
    <3>1. B \in SUBSET SUBSET S
      BY DEF B
    <3>. QED
      BY <1>1, <3>1, MinimalSubset
  <2>2. T \in SUBSET S /\ Sum(T) # 0 /\ IsFiniteSet(T)
    BY FS_Subset
  <2>3. PICK e : e \in T
    BY <2>2, SumEmpty
  <2>4. Sum(T) = f[e] + Sum(T \ {e})
    BY <2>2, <2>3, SumRemove
  <2>5. Sum(T \ {e}) = 0
    BY <2>1, <2>2, <2>3
  <2>. QED
    BY <2>2, <2>3, <2>4, <2>5
<1>. QED
  BY <1>1

(* Sums are added element by element.                                      *)
THEOREM SumPlus ==
  ASSUME NEW f, NEW g, NEW h, NEW S, IsFiniteSet(S),
         \A x \in S : g[x] \in Int /\ h[x] \in Int /\ f[x] = g[x] + h[x]
  PROVE  SumFunctionOnSet(f, S) = SumFunctionOnSet(g, S) + SumFunctionOnSet(h, S)
<1> DEFINE F(T) == SumFunctionOnSet(f, T)
           G(T) == SumFunctionOnSet(g, T)
           H(T) == SumFunctionOnSet(h, T)
           B == {T \in SUBSET S : F(T) # G(T) + H(T)}
<1>1. ASSUME B # {} PROVE FALSE
  <2>1. PICK T \in B : \A U \in SUBSET T : U # T => U \notin B
    <3> HIDE DEF B
    <3>1. B \in SUBSET SUBSET S
      BY DEF B
    <3>. QED
      BY <1>1, <3>1, MinimalSubset
  <2>2. T \in SUBSET S /\ F(T) # G(T) + H(T) /\ IsFiniteSet(T)
    BY FS_Subset
  <2>3. T # {}
    BY <2>2, SumEmpty
  <2>4. PICK e : e \in T
    BY <2>3
  <2>5. F(T \ {e}) = G(T \ {e}) + H(T \ {e})
    BY <2>1, <2>2, <2>4
  <2>6. \A x \in T : f[x] \in Int /\ g[x] \in Int /\ h[x] \in Int
    BY <2>2
  <2>7. /\ F(T) = f[e] + F(T \ {e}) /\ G(T) = g[e] + G(T \ {e})
        /\ H(T) = h[e] + H(T \ {e})
    BY <2>2, <2>4, <2>6, SumRemove
  <2>8. G(T \ {e}) \in Int /\ H(T \ {e}) \in Int
    <3>1. IsFiniteSet(T \ {e}) /\ \A x \in T \ {e} : g[x] \in Int /\ h[x] \in Int
      BY <2>2, <2>6, FS_Subset
    <3>. QED
      BY <3>1, SumInt
  <2>9. e \in S
    BY <2>2, <2>4
  <2> HIDE DEF F, G, H
  <2>. QED
    BY <2>2, <2>5, <2>7, <2>8, <2>9
<1>. QED
  BY <1>1

(* A sum does not depend on what its elements are called: h is one-to-one. *)
THEOREM SumReindexed ==
  ASSUME NEW f, NEW g, NEW h, NEW S, IsFiniteSet(S),
         \A x \in S : f[x] \in Int /\ g[h[x]] = f[x],
         \A x, y \in S : h[x] = h[y] => x = y
  PROVE  SumFunctionOnSet(f, S) = SumFunctionOnSet(g, {h[x] : x \in S})
<1> DEFINE Image(T) == {h[x] : x \in T}
           F(T) == SumFunctionOnSet(f, T)
           G(T) == SumFunctionOnSet(g, T)
           B == {T \in SUBSET S : F(T) # G(Image(T))}
<1>1. ASSUME B # {} PROVE FALSE
  <2>1. PICK T \in B : \A U \in SUBSET T : U # T => U \notin B
    <3> HIDE DEF B
    <3>1. B \in SUBSET SUBSET S
      BY DEF B
    <3>. QED
      BY <1>1, <3>1, MinimalSubset
  <2>2. T \in SUBSET S /\ F(T) # G(Image(T)) /\ IsFiniteSet(T)
    BY FS_Subset
  <2>3. T # {}
    <3>1. Image({}) = {}
      OBVIOUS
    <3>. QED
      BY <2>2, <3>1, SumEmpty
  <2>4. PICK e : e \in T
    BY <2>3
  <2>5. F(T \ {e}) = G(Image(T \ {e}))
    BY <2>1, <2>2, <2>4
  <2>6. F(T) = f[e] + F(T \ {e})
    BY <2>2, <2>4, SumRemove
  <2>7. Image(T \ {e}) = Image(T) \ {h[e]}
    BY <2>2, <2>4
  <2>8. IsFiniteSet(Image(T))
    <3> DEFINE k == [x \in T |-> h[x]]
    <3>1. k \in Surjection(T, Image(T))
      BY DEF Surjection
    <3>. QED
      BY <2>2, <3>1, FS_Surjection
  <2>9. h[e] \in Image(T) /\ (\A y \in Image(T) : g[y] \in Int) /\ g[h[e]] = f[e]
    BY <2>2, <2>4
  <2> HIDE DEF Image
  <2>10. G(Image(T)) = g[h[e]] + G(Image(T) \ {h[e]})
    BY <2>8, <2>9, SumRemove
  <2>. QED
    BY <2>2, <2>5, <2>6, <2>7, <2>9, <2>10
<1>. QED
  BY <1>1

=============================================================================
