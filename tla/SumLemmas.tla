------------------------------ MODULE SumLemmas ------------------------------
(***************************************************************************)
(* What a sum over a finite set is, and the greatest and the least of a    *)
(* set of numbers: the facts about SumFunctionOnSet, Max and Min that the  *)
(* proofs about money, cpu time and bytes need.  Inductions are on sets    *)
(* of numbers, by their least missing element.                             *)
(***************************************************************************)
EXTENDS Integers, FiniteSets, FiniteSetsExt, Functions, FiniteSetTheorems,
        WellFoundedInduction, TLAPS

LEMMA InductionOnSets ==
  ASSUME NEW P, 0 \in P, \A n \in Nat : n \in P => n + 1 \in P
  PROVE  Nat \subseteq P
<1> SUFFICES ASSUME Nat \ P # {} PROVE FALSE
  OBVIOUS
<1> DEFINE R == OpToRel(<, Nat)
<1>1. PICK m \in Nat \ P : \A n \in Nat \ P : <<n, m>> \notin R
  <2>1. IsWellFoundedOn(R, Nat)
    BY NatLessThanWellFounded
  <2>2. Nat \ P \subseteq Nat
    OBVIOUS
  <2> HIDE DEF R
  <2> QED  BY <2>1, <2>2, WFMin
<1>2. m - 1 \in Nat /\ (m - 1) + 1 = m
  OBVIOUS
<1>3. m - 1 \notin P
  BY <1>2
<1>4. <<m - 1, m>> \in R
  BY <1>2 DEF OpToRel
<1> QED  BY <1>1, <1>2, <1>3, <1>4

-----------------------------------------------------------------------------
(* The greatest of finitely many numbers, and the least of any.            *)

LEMMA MaxOf ==
  ASSUME NEW n \in Nat, NEW S \in SUBSET (0..n), S # {}
  PROVE  Max(S) \in S /\ \A y \in S : Max(S) >= y
<1> DEFINE P == {k \in Nat : \A R \in SUBSET (0..k) :
                   R # {} => \E x \in R : \A y \in R : x >= y}
<1>1. 0 \in P
  <2>1. ASSUME NEW R \in SUBSET (0..0), R # {}
        PROVE  \E x \in R : \A y \in R : x >= y
    <3>1. PICK x \in R : TRUE
      BY <2>1
    <3>2. \A y \in R : x >= y
      OBVIOUS
    <3> QED  BY <3>2
  <2> QED  BY <2>1
<1>2. ASSUME NEW k \in Nat, k \in P PROVE k + 1 \in P
  <2>1. ASSUME NEW R \in SUBSET (0..(k + 1)), R # {}
        PROVE  \E x \in R : \A y \in R : x >= y
    <3>1. CASE k + 1 \in R
      BY <3>1
    <3>2. CASE k + 1 \notin R
      <4>1. R \in SUBSET (0..k)
        BY <3>2
      <4> QED  BY <1>2, <2>1, <4>1
    <3> QED  BY <3>1, <3>2
  <2> QED  BY <2>1
<1>3. n \in P
  <2> HIDE DEF P
  <2> QED  BY <1>1, <1>2, InductionOnSets
<1>4. \E x \in S : \A y \in S : x >= y
  BY <1>3
<1> QED  BY <1>4 DEF Max

LEMMA MinOf ==
  ASSUME NEW S \in SUBSET Nat, S # {}
  PROVE  Min(S) \in S /\ \A y \in S : Min(S) <= y
<1>1. \E x \in S : \A y \in S : x <= y
  <2> SUFFICES ASSUME \A x \in S : \E y \in S : y < x PROVE FALSE
    <3>1. \A x, y \in S : x <= y \/ y < x
      OBVIOUS
    <3> QED  BY <3>1
  <2> DEFINE P == {k \in Nat : \A y \in S : k <= y}
  <2>1. 0 \in P
    OBVIOUS
  <2>2. ASSUME NEW k \in Nat, k \in P PROVE k + 1 \in P
    <3>1. \A y \in S : k < y
      BY <2>2
    <3> QED  BY <3>1
  <2> HIDE DEF P
  <2>3. Nat \subseteq P
    BY <2>1, <2>2, InductionOnSets
  <2>4. PICK y \in S : TRUE
    OBVIOUS
  <2>5. y + 1 \in P /\ y \in Nat
    BY <2>3
  <2> QED  BY <2>5 DEF P
<1> QED  BY <1>1 DEF Min

-----------------------------------------------------------------------------
(* The function that SumFunctionOnSet(f, S) is read from, and its equation. *)

Drawn(s) == CHOOSE x \in s : TRUE
Unfolds(f, D, g) ==
  g = [s \in D |-> IF s = {} THEN 0 ELSE f[Drawn(s)] + g[s \ {Drawn(s)}]]
PartialSum(f, S) == CHOOSE g : Unfolds(f, SUBSET S, g)

LEMMA SumIsPartial ==
  ASSUME NEW f, NEW S
  PROVE  SumFunctionOnSet(f, S) = PartialSum(f, S)[S]
BY DEF SumFunctionOnSet, FoldFunctionOnSet, MapThenFoldSet, PartialSum, Unfolds, Drawn

LEMMA DrawnLess ==
  ASSUME NEW S, IsFiniteSet(S), NEW s \in SUBSET S, s # {}
  PROVE  /\ Drawn(s) \in s
         /\ Cardinality(s) \in Nat
         /\ Cardinality(s \ {Drawn(s)}) = Cardinality(s) - 1
<1>1. IsFiniteSet(s)
  BY FS_Subset
<1>2. Drawn(s) \in s
  BY DEF Drawn
<1> QED  BY <1>1, <1>2, FS_RemoveElement, FS_CardinalityType

LEMMA PartialUnfolds ==
  ASSUME NEW f, NEW S, IsFiniteSet(S)
  PROVE  Unfolds(f, SUBSET S, PartialSum(f, S))
<1> DEFINE D(n) == {s \in SUBSET S : Cardinality(s) <= n}
           P == {n \in Nat : \E g : Unfolds(f, D(n), g)}
<1>1. 0 \in P
  <2>1. \A s \in D(0) : s = {}
    <3>1. ASSUME NEW s \in SUBSET S, s # {}, Cardinality(s) <= 0
          PROVE  FALSE
      <4>1. IsFiniteSet(s) /\ Cardinality(s) \in Nat
        BY FS_Subset, FS_CardinalityType
      <4> QED  BY <3>1, <4>1, FS_EmptySet
    <3> QED  BY <3>1
  <2>2. Unfolds(f, D(0), [s \in D(0) |-> 0])
    BY <2>1 DEF Unfolds
  <2> QED  BY <2>2
<1>2. ASSUME NEW n \in Nat, n \in P PROVE n + 1 \in P
  <2>1. PICK g : Unfolds(f, D(n), g)
    BY <1>2
  <2> DEFINE h == [s \in D(n + 1) |->
                     IF s = {} THEN 0 ELSE f[Drawn(s)] + g[s \ {Drawn(s)}]]
  <2>2. ASSUME NEW s \in D(n + 1), s # {}
        PROVE  h[s \ {Drawn(s)}] = g[s \ {Drawn(s)}]
    <3> DEFINE t == s \ {Drawn(s)}
    <3>1. t \in D(n) /\ t \in D(n + 1)
      BY <2>2, DrawnLess
    <3>2. g[t] = IF t = {} THEN 0 ELSE f[Drawn(t)] + g[t \ {Drawn(t)}]
      <4> HIDE DEF t, D
      <4> QED  BY <2>1, <3>1 DEF Unfolds
    <3>3. h[t] = IF t = {} THEN 0 ELSE f[Drawn(t)] + g[t \ {Drawn(t)}]
      <4> HIDE DEF t, D
      <4> QED  BY <3>1
    <3> QED  BY <3>2, <3>3
  <2>3. Unfolds(f, D(n + 1), h)
    BY <2>2 DEF Unfolds
  <2> HIDE DEF h
  <2> QED  BY <2>3
<1>3. Cardinality(S) \in P
  <2> HIDE DEF P
  <2> QED  BY <1>1, <1>2, InductionOnSets, FS_CardinalityType
<1>4. D(Cardinality(S)) = SUBSET S
  BY FS_Subset
<1>5. \E g : Unfolds(f, SUBSET S, g)
  BY <1>3, <1>4
<1> QED  BY <1>5 DEF PartialSum

LEMMA PartialValue ==
  ASSUME NEW f, NEW S, IsFiniteSet(S), NEW s \in SUBSET S
  PROVE  PartialSum(f, S)[s] =
           IF s = {} THEN 0 ELSE f[Drawn(s)] + PartialSum(f, S)[s \ {Drawn(s)}]
<1> DEFINE F == PartialSum(f, S)
<1>1. F = [t \in SUBSET S |->
             IF t = {} THEN 0 ELSE f[Drawn(t)] + F[t \ {Drawn(t)}]]
  <2>1. Unfolds(f, SUBSET S, F)
    BY PartialUnfolds
  <2> HIDE DEF F
  <2> QED  BY <2>1 DEF Unfolds
<1> HIDE DEF F
<1>2. F[s] = IF s = {} THEN 0 ELSE f[Drawn(s)] + F[s \ {Drawn(s)}]
  BY <1>1
<1> QED  BY <1>2 DEF F

\* Sums are the same wherever the functions are, and whatever set they are
\* taken a part of.
LEMMA PartialAgrees ==
  ASSUME NEW f, NEW g, NEW S, IsFiniteSet(S), NEW T, IsFiniteSet(T),
         NEW s \in SUBSET (S \cap T), \A x \in s : f[x] = g[x]
  PROVE  PartialSum(f, S)[s] = PartialSum(g, T)[s]
<1> DEFINE F == PartialSum(f, S)
           G == PartialSum(g, T)
           P == {n \in Nat : \A t \in SUBSET s : Cardinality(t) <= n => F[t] = G[t]}
<1>0. IsFiniteSet(s)
  BY FS_Subset
<1>1. 0 \in P
  <2>1. ASSUME NEW t \in SUBSET s, Cardinality(t) <= 0
        PROVE  t = {}
    BY <1>0, <2>1, FS_Subset, FS_CardinalityType, FS_EmptySet
  <2>2. F[{}] = 0 /\ G[{}] = 0
    BY PartialValue
  <2> HIDE DEF F, G
  <2> QED  BY <2>1, <2>2
<1>2. ASSUME NEW n \in Nat, n \in P PROVE n + 1 \in P
  <2>1. ASSUME NEW t \in SUBSET s, Cardinality(t) <= n + 1, t # {}
        PROVE  F[t] = G[t]
    <3>1. /\ Drawn(t) \in t /\ t \ {Drawn(t)} \in SUBSET s
          /\ Cardinality(t \ {Drawn(t)}) <= n
      BY <1>0, <2>1, DrawnLess
    <3>2. F[t \ {Drawn(t)}] = G[t \ {Drawn(t)}]
      BY <1>2, <3>1
    <3>3. F[t] = f[Drawn(t)] + F[t \ {Drawn(t)}] /\ G[t] = g[Drawn(t)] + G[t \ {Drawn(t)}]
      BY <2>1, PartialValue
    <3> HIDE DEF F, G
    <3> QED  BY <3>1, <3>2, <3>3
  <2>2. F[{}] = G[{}]
    BY PartialValue
  <2> HIDE DEF F, G
  <2>3. \A t \in SUBSET s : Cardinality(t) <= n + 1 => F[t] = G[t]
    BY <2>1, <2>2
  <2> QED  BY <2>3
<1>3. Cardinality(s) \in P
  <2> HIDE DEF P
  <2> QED  BY <1>0, <1>1, <1>2, InductionOnSets, FS_CardinalityType
<1> QED  BY <1>0, <1>3, FS_CardinalityType

LEMMA PartialInt ==
  ASSUME NEW f, NEW S, IsFiniteSet(S), \A x \in S : f[x] \in Int,
         NEW s \in SUBSET S
  PROVE  PartialSum(f, S)[s] \in Int
<1> DEFINE F == PartialSum(f, S)
           P == {n \in Nat : \A t \in SUBSET S : Cardinality(t) <= n => F[t] \in Int}
<1>0. F[{}] = 0
  BY PartialValue
<1>1. 0 \in P
  <2>1. ASSUME NEW t \in SUBSET S, Cardinality(t) <= 0
        PROVE  t = {}
    BY <2>1, FS_Subset, FS_CardinalityType, FS_EmptySet
  <2> HIDE DEF F
  <2> QED  BY <1>0, <2>1
<1>2. ASSUME NEW n \in Nat, n \in P PROVE n + 1 \in P
  <2>1. ASSUME NEW t \in SUBSET S, Cardinality(t) <= n + 1, t # {}
        PROVE  F[t] \in Int
    <3>1. /\ Drawn(t) \in S /\ t \ {Drawn(t)} \in SUBSET S
          /\ Cardinality(t \ {Drawn(t)}) <= n
      BY <2>1, DrawnLess
    <3>2. F[t \ {Drawn(t)}] \in Int
      BY <1>2, <3>1
    <3>3. F[t] = f[Drawn(t)] + F[t \ {Drawn(t)}]
      BY <2>1, PartialValue
    <3> HIDE DEF F
    <3> QED  BY <3>1, <3>2, <3>3
  <2> HIDE DEF F
  <2> QED  BY <1>0, <2>1
<1>3. Cardinality(s) \in P
  <2> HIDE DEF P
  <2> QED  BY <1>1, <1>2, InductionOnSets, FS_Subset, FS_CardinalityType
<1> QED  BY <1>3, FS_Subset, FS_CardinalityType

\* Any element may be the one that is drawn first.
LEMMA PartialOut ==
  ASSUME NEW f, NEW S, IsFiniteSet(S), \A x \in S : f[x] \in Int,
         NEW s \in SUBSET S, NEW y \in s
  PROVE  PartialSum(f, S)[s] = f[y] + PartialSum(f, S)[s \ {y}]
<1> DEFINE F == PartialSum(f, S)
           P == {n \in Nat : \A t \in SUBSET S : Cardinality(t) <= n =>
                   \A x \in t : F[t] = f[x] + F[t \ {x}]}
<1>0. \A t \in SUBSET S : F[t] \in Int
  BY PartialInt
<1>1. 0 \in P
  <2>1. ASSUME NEW t \in SUBSET S, Cardinality(t) <= 0
        PROVE  t = {}
    BY <2>1, FS_Subset, FS_CardinalityType, FS_EmptySet
  <2> HIDE DEF F
  <2> QED  BY <2>1
<1>2. ASSUME NEW n \in Nat, n \in P PROVE n + 1 \in P
  <2>1. ASSUME NEW t \in SUBSET S, Cardinality(t) <= n + 1, NEW x \in t
        PROVE  F[t] = f[x] + F[t \ {x}]
    <3> DEFINE d == Drawn(t)
    <3>1. /\ d \in t /\ t \ {d} \in SUBSET S /\ Cardinality(t \ {d}) <= n
          /\ Cardinality(t) \in Nat
      BY <2>1, DrawnLess
    <3>2. F[t] = f[d] + F[t \ {d}]
      <4>1. t # {}
        OBVIOUS
      <4> QED  BY <4>1, PartialValue
    <3> HIDE DEF F, d
    <3>3. CASE x = d
      BY <3>2, <3>3
    <3>4. CASE x # d
      <4> DEFINE u == (t \ {x}) \ {d}
      <4>1. x \in t \ {d} /\ d \in t \ {x} /\ (t \ {d}) \ {x} = u
        BY <3>1, <3>4
      <4>2. F[t \ {d}] = f[x] + F[u]
        BY <1>2, <3>1, <4>1
      <4>3. Cardinality(t \ {x}) <= n
        BY <2>1, <3>1, FS_Subset, FS_RemoveElement
      <4>4. F[t \ {x}] = f[d] + F[u]
        BY <1>2, <4>1, <4>3
      <4>5. f[x] \in Int /\ f[d] \in Int /\ F[u] \in Int
        BY <1>0, <3>1
      <4> HIDE DEF u
      <4> QED  BY <3>2, <4>1, <4>2, <4>4, <4>5
    <3> QED  BY <3>3, <3>4
  <2> HIDE DEF F
  <2> QED  BY <2>1
<1>3. Cardinality(s) \in P
  <2> HIDE DEF P
  <2> QED  BY <1>1, <1>2, InductionOnSets, FS_Subset, FS_CardinalityType
<1> HIDE DEF F
<1>4. F[s] = f[y] + F[s \ {y}]
  BY <1>3, FS_Subset, FS_CardinalityType
<1> QED  BY <1>4 DEF F

-----------------------------------------------------------------------------
(* Sums.                                                                   *)

LEMMA SumEmpty == ASSUME NEW f PROVE SumFunctionOnSet(f, {}) = 0
BY SumIsPartial, PartialValue, FS_EmptySet

LEMMA SumInt ==
  ASSUME NEW f, NEW S, IsFiniteSet(S), \A x \in S : f[x] \in Int
  PROVE  SumFunctionOnSet(f, S) \in Int
BY SumIsPartial, PartialInt

\* Equal terms have equal sums.
LEMMA SumSame ==
  ASSUME NEW f, NEW g, NEW S, IsFiniteSet(S), \A x \in S : f[x] = g[x]
  PROVE  SumFunctionOnSet(f, S) = SumFunctionOnSet(g, S)
BY SumIsPartial, PartialAgrees

\* A term may be taken out of a sum.
LEMMA SumOut ==
  ASSUME NEW f, NEW S, IsFiniteSet(S), \A x \in S : f[x] \in Int, NEW y \in S
  PROVE  SumFunctionOnSet(f, S) = f[y] + SumFunctionOnSet(f, S \ {y})
<1> DEFINE T == S \ {y}
<1>1. IsFiniteSet(T) /\ T \in SUBSET S /\ T \in SUBSET (S \cap T)
  BY FS_Subset
<1>2. PartialSum(f, S)[S] = f[y] + PartialSum(f, S)[T]
  BY PartialOut
<1>3. PartialSum(f, S)[T] = PartialSum(f, T)[T]
  <2> HIDE DEF T
  <2> QED  BY <1>1, PartialAgrees
<1> QED  BY <1>2, <1>3, SumIsPartial

LEMMA SumIn ==
  ASSUME NEW f, NEW S, IsFiniteSet(S), NEW y, y \notin S,
         \A x \in S \cup {y} : f[x] \in Int
  PROVE  SumFunctionOnSet(f, S \cup {y}) = f[y] + SumFunctionOnSet(f, S)
<1> DEFINE T == S \cup {y}
<1>1. IsFiniteSet(T) /\ y \in T /\ T \ {y} = S
  BY FS_AddElement
<1>2. \A x \in T : f[x] \in Int
  OBVIOUS
<1> HIDE DEF T
<1>3. SumFunctionOnSet(f, T) = f[y] + SumFunctionOnSet(f, T \ {y})
  BY <1>1, <1>2, SumOut
<1> QED  BY <1>1, <1>3 DEF T

\* Two sums of functions that differ at one place differ by as much.
LEMMA SumChange ==
  ASSUME NEW f, NEW g, NEW S, IsFiniteSet(S), NEW y \in S,
         \A x \in S : f[x] \in Int /\ g[x] \in Int,
         \A x \in S : x # y => f[x] = g[x]
  PROVE  SumFunctionOnSet(g, S) = SumFunctionOnSet(f, S) - f[y] + g[y]
<1> DEFINE T == S \ {y}
<1>1. IsFiniteSet(T) /\ \A x \in T : x \in S /\ f[x] = g[x]
  BY FS_Subset
<1> HIDE DEF T
<1>2. SumFunctionOnSet(f, T) = SumFunctionOnSet(g, T) /\ SumFunctionOnSet(f, T) \in Int
  BY <1>1, SumSame, SumInt
<1>3. /\ SumFunctionOnSet(f, S) = f[y] + SumFunctionOnSet(f, T)
      /\ SumFunctionOnSet(g, S) = g[y] + SumFunctionOnSet(g, T)
  BY SumOut DEF T
<1> QED  BY <1>2, <1>3

\* Smaller terms have a smaller sum.
LEMMA SumMonotone ==
  ASSUME NEW f, NEW g, NEW S, IsFiniteSet(S),
         \A x \in S : f[x] \in Int /\ g[x] \in Int /\ f[x] <= g[x]
  PROVE  SumFunctionOnSet(f, S) <= SumFunctionOnSet(g, S)
<1> DEFINE P == {n \in Nat : \A T \in SUBSET S : Cardinality(T) <= n =>
                   SumFunctionOnSet(f, T) <= SumFunctionOnSet(g, T)}
<1>1. 0 \in P
  <2>1. ASSUME NEW T \in SUBSET S, Cardinality(T) <= 0
        PROVE  T = {}
    BY <2>1, FS_Subset, FS_CardinalityType, FS_EmptySet
  <2> QED  BY <2>1, SumEmpty
<1>2. ASSUME NEW n \in Nat, n \in P PROVE n + 1 \in P
  <2>1. ASSUME NEW T \in SUBSET S, Cardinality(T) <= n + 1
        PROVE  SumFunctionOnSet(f, T) <= SumFunctionOnSet(g, T)
    <3>1. CASE T = {}
      BY <3>1, SumEmpty
    <3>2. CASE T # {}
      <4>1. PICK y \in T : TRUE
        BY <3>2
      <4> DEFINE U == T \ {y}
      <4>2. /\ IsFiniteSet(T) /\ IsFiniteSet(U) /\ U \in SUBSET S
            /\ Cardinality(U) <= n
        BY <2>1, FS_Subset, FS_RemoveElement, FS_CardinalityType
      <4>3. SumFunctionOnSet(f, U) <= SumFunctionOnSet(g, U)
        BY <1>2, <4>2
      <4>4. SumFunctionOnSet(f, U) \in Int /\ SumFunctionOnSet(g, U) \in Int
        <5> HIDE DEF U
        <5> QED  BY <4>2, SumInt
      <4>5. /\ SumFunctionOnSet(f, T) = f[y] + SumFunctionOnSet(f, U)
            /\ SumFunctionOnSet(g, T) = g[y] + SumFunctionOnSet(g, U)
        BY <4>2, SumOut
      <4> HIDE DEF U
      <4> QED  BY <4>3, <4>4, <4>5
    <3> QED  BY <3>1, <3>2
  <2> QED  BY <2>1
<1>3. Cardinality(S) \in P
  <2> HIDE DEF P
  <2> QED  BY <1>1, <1>2, InductionOnSets, FS_CardinalityType
<1> QED  BY <1>3, FS_CardinalityType

\* A sum of nothing but zeros.
LEMMA SumZero ==
  ASSUME NEW f, NEW S, IsFiniteSet(S), \A x \in S : f[x] = 0
  PROVE  SumFunctionOnSet(f, S) = 0
<1> DEFINE P == {n \in Nat : \A T \in SUBSET S : Cardinality(T) <= n =>
                   SumFunctionOnSet(f, T) = 0}
<1>1. 0 \in P
  <2>1. ASSUME NEW T \in SUBSET S, Cardinality(T) <= 0
        PROVE  T = {}
    BY <2>1, FS_Subset, FS_CardinalityType, FS_EmptySet
  <2> QED  BY <2>1, SumEmpty
<1>2. ASSUME NEW n \in Nat, n \in P PROVE n + 1 \in P
  <2>1. ASSUME NEW T \in SUBSET S, Cardinality(T) <= n + 1, NEW x \in T
        PROVE  SumFunctionOnSet(f, T) = 0
    <3> DEFINE U == T \ {x}
    <3>1. U \in SUBSET S /\ Cardinality(U) <= n
      BY <2>1, FS_Subset, FS_CardinalityType, FS_RemoveElement
    <3>2. SumFunctionOnSet(f, U) = 0
      BY <1>2, <3>1
    <3>3. IsFiniteSet(T) /\ \A y \in T : f[y] \in Int
      BY FS_Subset
    <3>4. SumFunctionOnSet(f, T) = f[x] + SumFunctionOnSet(f, U)
      BY <3>3, SumOut
    <3> QED  BY <3>2, <3>4
  <2>2. \A T \in SUBSET S : T = {} => SumFunctionOnSet(f, T) = 0
    BY SumEmpty
  <2> QED  BY <2>1, <2>2
<1>3. Cardinality(S) \in Nat
  BY FS_CardinalityType
<1>4. Cardinality(S) \in P
  <2> HIDE DEF P
  <2> QED  BY <1>1, <1>2, <1>3, InductionOnSets
<1> QED  BY <1>3, <1>4

\* A part of a sum of naturals is at most the whole.
LEMMA SumWithin ==
  ASSUME NEW f, NEW T, IsFiniteSet(T), \A x \in T : f[x] \in Nat, NEW S \in SUBSET T
  PROVE  SumFunctionOnSet(f, S) <= SumFunctionOnSet(f, T)
<1> DEFINE g == [x \in T |-> IF x \in S THEN f[x] ELSE 0]
           P == {n \in Nat : \A U \in SUBSET T : Cardinality(U) <= n =>
                   SumFunctionOnSet(g, U) = SumFunctionOnSet(f, U \cap S)}
<1>0. \A U \in SUBSET T : IsFiniteSet(U) /\ \A x \in U : f[x] \in Int /\ g[x] \in Int
  BY FS_Subset
<1>1. 0 \in P
  <2>1. ASSUME NEW U \in SUBSET T, Cardinality(U) <= 0
        PROVE  U = {} /\ U \cap S = {}
    BY <2>1, FS_Subset, FS_CardinalityType, FS_EmptySet
  <2> QED  BY <2>1, SumEmpty
<1>2. ASSUME NEW n \in Nat, n \in P PROVE n + 1 \in P
  <2>1. ASSUME NEW U \in SUBSET T, Cardinality(U) <= n + 1, NEW x \in U
        PROVE  SumFunctionOnSet(g, U) = SumFunctionOnSet(f, U \cap S)
    <3> DEFINE V == U \ {x}
    <3>1. V \in SUBSET T /\ Cardinality(V) <= n
      BY <2>1, FS_Subset, FS_CardinalityType, FS_RemoveElement
    <3>2. SumFunctionOnSet(g, V) = SumFunctionOnSet(f, V \cap S)
      BY <1>2, <3>1
    <3>3. SumFunctionOnSet(g, U) = g[x] + SumFunctionOnSet(g, V)
      BY <1>0, SumOut
    <3>4. SumFunctionOnSet(g, V) \in Int
      <4> HIDE DEF V, g
      <4> QED  BY <1>0, <3>1, SumInt
    <3>5. CASE x \in S
      <4> DEFINE W == U \cap S
      <4>1. IsFiniteSet(W) /\ x \in W /\ (\A y \in W : f[y] \in Int)
        BY <1>0, <3>5
      <4>2. W \ {x} = V \cap S
        OBVIOUS
      <4> HIDE DEF V, W
      <4>3. SumFunctionOnSet(f, W) = f[x] + SumFunctionOnSet(f, V \cap S)
        BY <4>1, <4>2, SumOut
      <4> QED  BY <3>2, <3>3, <3>5, <4>3 DEF W
    <3>6. CASE x \notin S
      <4>1. V \cap S = U \cap S /\ g[x] = 0
        BY <3>6
      <4>2. SumFunctionOnSet(g, U) = SumFunctionOnSet(g, V)
        <5> HIDE DEF V, g
        <5> QED  BY <3>3, <3>4, <4>1
      <4> HIDE DEF V, g
      <4> QED  BY <3>2, <4>1, <4>2
    <3> QED  BY <3>5, <3>6
  <2>2. SumFunctionOnSet(g, {}) = SumFunctionOnSet(f, {} \cap S)
    BY SumEmpty
  <2> QED  BY <2>1, <2>2
<1>3. Cardinality(T) \in Nat
  BY FS_CardinalityType
<1>4. Cardinality(T) \in P
  <2> HIDE DEF P
  <2> QED  BY <1>1, <1>2, <1>3, InductionOnSets
<1>5. SumFunctionOnSet(g, T) = SumFunctionOnSet(f, S)
  <2>1. T \cap S = S
    OBVIOUS
  <2> HIDE DEF g
  <2> QED  BY <1>3, <1>4, <2>1
<1>6. \A x \in T : g[x] \in Int /\ f[x] \in Int /\ g[x] <= f[x]
  OBVIOUS
<1> HIDE DEF g, P
<1>7. SumFunctionOnSet(g, T) <= SumFunctionOnSet(f, T)
  BY <1>6, SumMonotone
<1> QED  BY <1>5, <1>7
=============================================================================
