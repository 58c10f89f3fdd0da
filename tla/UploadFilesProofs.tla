------------------------- MODULE UploadFilesProofs -------------------------
(***************************************************************************)
(* Proofs about the upload: types, that an order is charged what the page  *)
(* quoted, that its files are those of the list that was quoted, and that  *)
(* a dropped folder is listed without cutting a character.                 *)
(***************************************************************************)
EXTENDS UploadFiles, SumLemmas

-----------------------------------------------------------------------------
(* Folds over sequences.  FoldLeft is read from a function on the sets of  *)
(* the sequence's indices; what the function is at the empty set, and      *)
(* keeps when a greater index is added, holds of the fold.                 *)

LEMMA LastIndex ==
  ASSUME NEW T, NEW q \in Seq(T), NEW s \in SUBSET DOMAIN q, s # {}
  PROVE  /\ Max(s) \in s /\ q[Max(s)] \in T
         /\ s \ {Max(s)} \in SUBSET DOMAIN q
         /\ Cardinality(s) \in Nat
         /\ Cardinality(s \ {Max(s)}) = Cardinality(s) - 1
<1>1. Len(q) \in Nat /\ s \in SUBSET (0..Len(q))
  OBVIOUS
<1>2. Max(s) \in s /\ q[Max(s)] \in T
  <2>1. Max(s) \in s
    BY <1>1, MaxOf
  <2> QED  BY <2>1
<1>3. IsFiniteSet(s)
  BY <1>1, FS_Interval, FS_Subset
<1> QED  BY <1>2, <1>3, FS_RemoveElement, FS_CardinalityType

LEMMA IndicesFinite ==
  ASSUME NEW T, NEW q \in Seq(T)
  PROVE  /\ DOMAIN q = 1..Len(q) /\ IsFiniteSet(DOMAIN q)
         /\ \A s \in SUBSET DOMAIN q :
              Cardinality(s) \in Nat /\ (s # {} => Cardinality(s) # 0)
<1>1. DOMAIN q = 1..Len(q) /\ Len(q) \in Nat
  OBVIOUS
<1>2. IsFiniteSet(DOMAIN q)
  BY <1>1, FS_Interval
<1> QED  BY <1>1, <1>2, FS_Subset, FS_CardinalityType, FS_EmptySet

LEMMA FoldInduction ==
  ASSUME NEW T, NEW q \in Seq(T), NEW Good, {} \in Good,
         \A s \in SUBSET DOMAIN q : s # {} /\ s \ {Max(s)} \in Good => s \in Good
  PROVE  SUBSET DOMAIN q \subseteq Good
<1> DEFINE P == {n \in Nat : \A s \in SUBSET DOMAIN q :
                   Cardinality(s) <= n => s \in Good}
<1>1. 0 \in P
  <2>1. \A s \in SUBSET DOMAIN q : Cardinality(s) <= 0 => s = {}
    BY IndicesFinite
  <2> QED  BY <2>1
<1>2. ASSUME NEW n \in Nat, n \in P PROVE n + 1 \in P
  <2>1. ASSUME NEW s \in SUBSET DOMAIN q, Cardinality(s) <= n + 1, s # {}
        PROVE  s \in Good
    <3>1. s \ {Max(s)} \in SUBSET DOMAIN q /\ Cardinality(s \ {Max(s)}) <= n
      BY <2>1, LastIndex
    <3>2. s \ {Max(s)} \in Good
      BY <1>2, <3>1
    <3> QED  BY <2>1, <3>2
  <2>2. \A s \in SUBSET DOMAIN q : Cardinality(s) <= n + 1 => s \in Good
    BY <2>1
  <2> QED  BY <2>2
<1>3. Nat \subseteq P
  <2> HIDE DEF P
  <2> QED  BY <1>1, <1>2, InductionOnSets
<1> QED  BY <1>3, IndicesFinite

LEMMA FoldKeeps ==
  ASSUME NEW T, NEW q \in Seq(T), NEW A, NEW c, c[{}] \in A,
         \A s \in SUBSET DOMAIN q : s # {} /\ c[s \ {Max(s)}] \in A => c[s] \in A
  PROVE  \A s \in SUBSET DOMAIN q : c[s] \in A
<1> DEFINE Good == {s \in SUBSET DOMAIN q : c[s] \in A}
<1>1. \A s \in SUBSET DOMAIN q : s # {} /\ s \ {Max(s)} \in Good => s \in Good
  OBVIOUS
<1>2. {} \in Good
  OBVIOUS
<1> HIDE DEF Good
<1>3. SUBSET DOMAIN q \subseteq Good
  BY <1>1, <1>2, FoldInduction
<1> QED  BY <1>3 DEF Good

Folds(step, base, q, D, g) ==
  g = [s \in D |-> IF s = {} THEN base
                   ELSE step[<<g[s \ {Max(s)}], q[Max(s)]>>]]

LEMMA FoldExists ==
  ASSUME NEW step, NEW base, NEW T, NEW q \in Seq(T)
  PROVE  \E g : Folds(step, base, q, SUBSET DOMAIN q, g)
<1> DEFINE D(n) == {s \in SUBSET DOMAIN q : Cardinality(s) <= n}
           P == {n \in Nat : \E g : Folds(step, base, q, D(n), g)}
<1>1. 0 \in P
  <2>1. \A s \in D(0) : s = {}
    BY IndicesFinite
  <2>2. Folds(step, base, q, D(0), [s \in D(0) |-> base])
    BY <2>1 DEF Folds
  <2> QED  BY <2>2
<1>2. ASSUME NEW n \in Nat, n \in P PROVE n + 1 \in P
  <2>1. PICK g : Folds(step, base, q, D(n), g)
    BY <1>2
  <2> DEFINE h == [s \in D(n + 1) |-> IF s = {} THEN base
                     ELSE step[<<g[s \ {Max(s)}], q[Max(s)]>>]]
  <2>2. ASSUME NEW s \in D(n + 1), s # {}
        PROVE  h[s \ {Max(s)}] = g[s \ {Max(s)}]
    <3> DEFINE t == s \ {Max(s)}
    <3>1. t \in D(n) /\ t \in D(n + 1)
      BY <2>2, LastIndex
    <3>2. g[t] = IF t = {} THEN base ELSE step[<<g[t \ {Max(t)}], q[Max(t)]>>]
      <4> HIDE DEF t, D
      <4> QED  BY <2>1, <3>1 DEF Folds
    <3>3. h[t] = IF t = {} THEN base ELSE step[<<g[t \ {Max(t)}], q[Max(t)]>>]
      <4> HIDE DEF t, D
      <4> QED  BY <3>1
    <3> QED  BY <3>2, <3>3
  <2>3. Folds(step, base, q, D(n + 1), h)
    BY <2>2 DEF Folds
  <2>4. \E f : Folds(step, base, q, D(n + 1), f)
    BY <2>3
  <2> HIDE DEF D
  <2> QED  BY <2>4
<1>3. Cardinality(DOMAIN q) \in P
  <2> HIDE DEF P
  <2> QED  BY <1>1, <1>2, InductionOnSets, IndicesFinite
<1>4. D(Cardinality(DOMAIN q)) = SUBSET DOMAIN q
  BY IndicesFinite, FS_Subset
<1> QED  BY <1>3, <1>4
LEMMA FoldWithin ==
  ASSUME NEW T, NEW A, NEW q \in Seq(T), NEW base \in A, NEW step \in [A \X T -> A]
  PROVE  \E g : /\ Folds(step, base, q, SUBSET DOMAIN q, g)
                /\ \A s \in SUBSET DOMAIN q : g[s] \in A
<1>1. PICK g : Folds(step, base, q, SUBSET DOMAIN q, g)
  BY FoldExists
<1>2. g[{}] \in A
  BY <1>1 DEF Folds
<1>3. ASSUME NEW s \in SUBSET DOMAIN q, s # {}, g[s \ {Max(s)}] \in A
      PROVE  g[s] \in A
  <2>1. q[Max(s)] \in T
    BY <1>3, LastIndex
  <2>2. g[s] = step[<<g[s \ {Max(s)}], q[Max(s)]>>]
    BY <1>1, <1>3 DEF Folds
  <2> QED  BY <1>3, <2>1, <2>2
<1>4. \A s \in SUBSET DOMAIN q : g[s] \in A
  BY <1>2, <1>3, FoldKeeps
<1> QED  BY <1>1, <1>4

-----------------------------------------------------------------------------
(* What the folds of the upload are sequences of.  In each proof, g is the *)
(* function that the fold is read from, for a step that is a function.     *)

LEMMA JoinedText ==
  ASSUME NEW q \in Seq(Bytes)
  PROVE  FoldLeft(Joined, <<>>, q) \in Seq(Bytes)
<1> DEFINE A == Seq(Bytes)
           step == [p \in A \X Bytes |-> Joined(p[1], p[2])]
           Equation(g) == g = [s \in SUBSET DOMAIN q |-> IF s = {} THEN <<>>
                                 ELSE Joined(g[s \ {Max(s)}], q[Max(s)])]
           c == CHOOSE g : Equation(g)
<1>1. \A a \in A, b \in Bytes : Joined(a, b) \in A
  BY DEF Joined
<1>2. PICK g : Folds(step, <<>>, q, SUBSET DOMAIN q, g) /\ \A s \in SUBSET DOMAIN q : g[s] \in A
  <2>1. step \in [A \X Bytes -> A] /\ <<>> \in A
    BY <1>1
  <2> HIDE DEF step
  <2> QED  BY <2>1, FoldWithin
<1>3. \A s \in SUBSET DOMAIN q :
        g[s] = IF s = {} THEN <<>> ELSE Joined(g[s \ {Max(s)}], q[Max(s)])
  BY <1>2, LastIndex DEF Folds
<1>4. g = [s \in SUBSET DOMAIN q |-> g[s]]
  BY <1>2 DEF Folds
<1>5. Equation(g)
  BY <1>3, <1>4
<1>6. Equation(c)
  BY <1>5
<1>7. \A s \in SUBSET DOMAIN q : c[s] \in A
  <2> HIDE DEF c
  <2>1. ASSUME NEW s \in SUBSET DOMAIN q, s # {}, c[s \ {Max(s)}] \in A
        PROVE  c[s] \in A
    <3>1. q[Max(s)] \in Bytes
      BY <2>1, LastIndex
    <3>2. c[s] = Joined(c[s \ {Max(s)}], q[Max(s)])
      BY <1>6, <2>1
    <3> QED  BY <1>1, <2>1, <3>1, <3>2
  <2>2. c[{}] \in A
    BY <1>6
  <2> QED  BY <2>1, <2>2, FoldKeeps
<1>8. FoldLeft(Joined, <<>>, q) = c[DOMAIN q]
  BY DEF FoldLeft, MapThenFoldSet
<1> QED  BY <1>7, <1>8

LEMMA WithoutFold ==
  ASSUME NEW T, NEW q \in Seq(T), NEW name
  PROVE  \E c : /\ c[{}] = <<>>
                /\ \A s \in SUBSET DOMAIN q : s # {} =>
                     c[s] = IF q[Max(s)].name = name THEN c[s \ {Max(s)}]
                            ELSE Append(c[s \ {Max(s)}], q[Max(s)])
                /\ Without(q, name) = c[DOMAIN q]
<1> DEFINE A == Seq(T)
           Keep(kept, e) == IF e.name = name THEN kept ELSE Append(kept, e)
           step == [p \in A \X T |-> Keep(p[1], p[2])]
           Equation(g) == g = [s \in SUBSET DOMAIN q |-> IF s = {} THEN <<>>
                                 ELSE Keep(g[s \ {Max(s)}], q[Max(s)])]
           c == CHOOSE g : Equation(g)
<1>1. \A a \in A, b \in T : Keep(a, b) \in A
  OBVIOUS
<1>2. PICK g : Folds(step, <<>>, q, SUBSET DOMAIN q, g) /\ \A s \in SUBSET DOMAIN q : g[s] \in A
  <2>1. step \in [A \X T -> A] /\ <<>> \in A
    BY <1>1
  <2> HIDE DEF step
  <2> QED  BY <2>1, FoldWithin
<1>3. \A s \in SUBSET DOMAIN q :
        g[s] = IF s = {} THEN <<>> ELSE Keep(g[s \ {Max(s)}], q[Max(s)])
  BY <1>2, LastIndex DEF Folds
<1>4. g = [s \in SUBSET DOMAIN q |-> g[s]]
  BY <1>2 DEF Folds
<1>5. Equation(g)
  BY <1>3, <1>4
<1>6. Equation(c)
  BY <1>5
<1>7. Without(q, name) = c[DOMAIN q]
  BY DEF Without, FoldLeft, MapThenFoldSet
<1> HIDE DEF c
<1>8. c[{}] = <<>> /\ \A s \in SUBSET DOMAIN q : s # {} =>
        c[s] = Keep(c[s \ {Max(s)}], q[Max(s)])
  BY <1>6
<1> QED  BY <1>7, <1>8

LEMMA WithoutType ==
  ASSUME NEW T, NEW q \in Seq(T), NEW name
  PROVE  Without(q, name) \in Seq(T)
<1>1. PICK c : /\ c[{}] = <<>>
               /\ \A s \in SUBSET DOMAIN q : s # {} =>
                    c[s] = IF q[Max(s)].name = name THEN c[s \ {Max(s)}]
                           ELSE Append(c[s \ {Max(s)}], q[Max(s)])
               /\ Without(q, name) = c[DOMAIN q]
  BY WithoutFold
<1>2. ASSUME NEW s \in SUBSET DOMAIN q, s # {}, c[s \ {Max(s)}] \in Seq(T)
      PROVE  c[s] \in Seq(T)
  <2>1. q[Max(s)] \in T
    BY <1>2, LastIndex
  <2>2. c[s] = IF q[Max(s)].name = name THEN c[s \ {Max(s)}]
               ELSE Append(c[s \ {Max(s)}], q[Max(s)])
    BY <1>1, <1>2
  <2> QED  BY <1>2, <2>1, <2>2
<1>3. c[{}] \in Seq(T)
  BY <1>1
<1>4. \A s \in SUBSET DOMAIN q : c[s] \in Seq(T)
  BY <1>2, <1>3, FoldKeeps
<1> QED  BY <1>1, <1>4

\* Only the given name goes.
Names(list) == {list[k].name : k \in DOMAIN list}

LEMMA WithoutNames ==
  ASSUME NEW T, NEW q \in Seq(T), NEW name
  PROVE  Names(q) \ {name} \subseteq Names(Without(q, name))
<1>1. PICK c : /\ c[{}] = <<>>
               /\ \A s \in SUBSET DOMAIN q : s # {} =>
                    c[s] = IF q[Max(s)].name = name THEN c[s \ {Max(s)}]
                           ELSE Append(c[s \ {Max(s)}], q[Max(s)])
               /\ Without(q, name) = c[DOMAIN q]
  BY WithoutFold
<1> DEFINE Kept(s) == {q[i].name : i \in s} \ {name}
           Good == {s \in SUBSET DOMAIN q : c[s] \in Seq(T) /\ Kept(s) \subseteq Names(c[s])}
<1>2. {} \in Good
  <2>1. <<>> \in Seq(T) /\ Kept({}) = {}
    OBVIOUS
  <2> QED  BY <1>1, <2>1
<1>3. ASSUME NEW s \in SUBSET DOMAIN q, s # {}, s \ {Max(s)} \in Good
      PROVE  s \in Good
  <2> DEFINE x == Max(s)
             t == s \ {x}
  <2>1. q[x] \in T /\ x \in s
    BY <1>3, LastIndex
  <2>2. c[s] = IF q[x].name = name THEN c[t] ELSE Append(c[t], q[x])
    BY <1>1, <1>3
  <2>3. c[t] \in Seq(T) /\ Kept(t) \subseteq Names(c[t])
    BY <1>3
  <2> HIDE DEF x
  <2>4. Kept(s) \subseteq Kept(t) \cup ({q[x].name} \ {name})
    BY <2>1
  <2> HIDE DEF t, Kept
  <2>5. CASE q[x].name = name
    <3>1. c[s] = c[t] /\ {q[x].name} \ {name} = {}
      BY <2>2, <2>5
    <3> QED  BY <2>3, <2>4, <3>1
  <2>6. CASE q[x].name # name
    <3>1. c[s] = Append(c[t], q[x])
      BY <2>2, <2>6
    <3>2. c[s] \in Seq(T) /\ Len(c[s]) = Len(c[t]) + 1 /\ c[s][Len(c[t]) + 1] = q[x]
          /\ \A k \in DOMAIN c[t] : c[s][k] = c[t][k]
      BY <2>1, <2>3, <3>1
    <3>3. Len(c[t]) + 1 \in DOMAIN c[s] /\ DOMAIN c[t] \subseteq DOMAIN c[s]
      BY <2>3, <3>2
    <3>4. Names(c[t]) \subseteq Names(c[s])
      BY <3>2, <3>3 DEF Names
    <3>5. q[x].name \in Names(c[s])
      BY <3>2, <3>3 DEF Names
    <3> QED  BY <2>3, <2>4, <3>2, <3>4, <3>5
  <2> QED  BY <2>5, <2>6
<1> HIDE DEF Good
<1>4. SUBSET DOMAIN q \subseteq Good
  BY <1>2, <1>3, FoldInduction
<1>5. DOMAIN q \in Good
  BY <1>4
<1> QED  BY <1>1, <1>5 DEF Good, Names

PushedOnto(list, q) == FoldLeft(Pushed, list, q)
PushesOnto(list, q, c) ==
  /\ c[{}] = list
  /\ \A s \in SUBSET DOMAIN q : s # {} => c[s] = Pushed(c[s \ {Max(s)}], q[Max(s)])
  /\ PushedOnto(list, q) = c[DOMAIN q]

LEMMA PushedFold ==
  ASSUME NEW T, NEW q \in Seq(T), NEW list \in Seq(T)
  PROVE  \E c : PushesOnto(list, q, c) /\ \A s \in SUBSET DOMAIN q : c[s] \in Seq(T)
<1> DEFINE A == Seq(T)
           step == [p \in A \X T |-> Pushed(p[1], p[2])]
           Equation(g) == g = [s \in SUBSET DOMAIN q |-> IF s = {} THEN list
                                 ELSE Pushed(g[s \ {Max(s)}], q[Max(s)])]
           c == CHOOSE g : Equation(g)
<1>1. \A a \in A, b \in T : Pushed(a, b) \in A
  BY WithoutType DEF Pushed
<1>2. PICK g : Folds(step, list, q, SUBSET DOMAIN q, g) /\ \A s \in SUBSET DOMAIN q : g[s] \in A
  <2>1. step \in [A \X T -> A] /\ list \in A
    BY <1>1
  <2> HIDE DEF step
  <2> QED  BY <2>1, FoldWithin
<1>3. \A s \in SUBSET DOMAIN q :
        g[s] = IF s = {} THEN list ELSE Pushed(g[s \ {Max(s)}], q[Max(s)])
  BY <1>2, LastIndex DEF Folds
<1>4. g = [s \in SUBSET DOMAIN q |-> g[s]]
  BY <1>2 DEF Folds
<1>5. Equation(g)
  BY <1>3, <1>4
<1>6. Equation(c)
  BY <1>5
<1>7. PushedOnto(list, q) = c[DOMAIN q]
  BY DEF PushedOnto, FoldLeft, MapThenFoldSet
<1> HIDE DEF c
<1>8. c[{}] = list /\ \A s \in SUBSET DOMAIN q : s # {} =>
        c[s] = Pushed(c[s \ {Max(s)}], q[Max(s)])
  BY <1>6
<1>9. \A s \in SUBSET DOMAIN q : c[s] \in A
  <2>1. ASSUME NEW s \in SUBSET DOMAIN q, s # {}, c[s \ {Max(s)}] \in A
        PROVE  c[s] \in A
    <3>1. q[Max(s)] \in T
      BY <2>1, LastIndex
    <3>2. c[s] = Pushed(c[s \ {Max(s)}], q[Max(s)])
      BY <1>8, <2>1
    <3> QED  BY <1>1, <2>1, <3>1, <3>2
  <2>2. c[{}] \in A
    BY <1>8
  <2> QED  BY <2>1, <2>2, FoldKeeps
<1> QED  BY <1>7, <1>8, <1>9 DEF PushesOnto

LEMMA PushedType ==
  ASSUME NEW T, NEW q \in Seq(T), NEW list \in Seq(T)
  PROVE  PushedOnto(list, q) \in Seq(T)
BY PushedFold DEF PushesOnto

LEMMA PushedNames ==
  ASSUME NEW T, NEW q \in Seq(T), NEW list \in Seq(T)
  PROVE  Names(q) \subseteq Names(PushedOnto(list, q))
<1>1. PICK c : PushesOnto(list, q, c) /\ \A s \in SUBSET DOMAIN q : c[s] \in Seq(T)
  BY PushedFold
<1> DEFINE Given(s) == {q[i].name : i \in s}
           Good == {s \in SUBSET DOMAIN q : Given(s) \subseteq Names(c[s])}
<1>2. {} \in Good
  OBVIOUS
<1>3. ASSUME NEW s \in SUBSET DOMAIN q, s # {}, s \ {Max(s)} \in Good
      PROVE  s \in Good
  <2> DEFINE x == Max(s)
             t == s \ {x}
             rest == Without(c[t], q[x].name)
  <2>1. q[x] \in T /\ x \in s /\ t \in SUBSET DOMAIN q
    BY <1>3, LastIndex
  <2>2. c[s] = Append(rest, q[x])
    BY <1>1, <1>3 DEF Pushed, PushesOnto
  <2>3. c[t] \in Seq(T) /\ Given(t) \subseteq Names(c[t])
    BY <1>1, <1>3, <2>1
  <2> HIDE DEF x
  <2>4. Given(s) \subseteq Given(t) \cup {q[x].name}
    BY <2>1
  <2> HIDE DEF t, Given
  <2>5. rest \in Seq(T) /\ Names(c[t]) \ {q[x].name} \subseteq Names(rest)
    BY <2>3, WithoutType, WithoutNames
  <2> HIDE DEF rest
  <2>6. Len(c[s]) = Len(rest) + 1 /\ c[s][Len(rest) + 1] = q[x] /\ c[s] \in Seq(T)
        /\ \A k \in DOMAIN rest : c[s][k] = rest[k]
    BY <2>1, <2>2, <2>5
  <2>7. Len(rest) + 1 \in DOMAIN c[s] /\ DOMAIN rest \subseteq DOMAIN c[s]
    BY <2>5, <2>6
  <2>8. Names(rest) \subseteq Names(c[s]) /\ q[x].name \in Names(c[s])
    BY <2>6, <2>7 DEF Names
  <2> QED  BY <2>3, <2>4, <2>5, <2>8
<1> HIDE DEF Good
<1>4. SUBSET DOMAIN q \subseteq Good
  BY <1>2, <1>3, FoldInduction
<1>5. DOMAIN q \in Good
  BY <1>4
<1> QED  BY <1>1, <1>5 DEF Good, Names, PushesOnto

-----------------------------------------------------------------------------
(* The common prefix of a folder's paths.                                  *)

Text == {t \in Seq(Bytes) : IsText(t)}

\* p begins q, as far as its first n bytes.
SharedTo(p, q, n) == n <= Len(q) /\ \A j \in 1..n : p[j] = q[j]

LEMMA BeginAlike ==
  ASSUME NEW p \in Seq(Bytes), NEW q \in Seq(Bytes), NEW n \in 0..Len(p)
  PROVE  n <= Len(q) /\ SubSeq(p, 1, n) = SubSeq(q, 1, n) <=> SharedTo(p, q, n)
<1>1. Len(p) \in Nat /\ Len(q) \in Nat /\ n \in Nat /\ n <= Len(p)
  OBVIOUS
<1>2. CASE n > Len(q)
  BY <1>1, <1>2 DEF SharedTo
<1>3. CASE n <= Len(q)
  <2>1. /\ SubSeq(p, 1, n) = [j \in 1..n |-> p[j]]
        /\ SubSeq(q, 1, n) = [j \in 1..n |-> q[j]]
    BY <1>1, <1>3
  <2> QED  BY <1>3, <2>1 DEF SharedTo
<1> QED  BY <1>1, <1>2, <1>3

LEMMA CutText ==
  ASSUME NEW p \in Text, NEW k \in 0..Len(p)
  PROVE  /\ SubSeq(p, 1, k) \in Text /\ Len(SubSeq(p, 1, k)) = k
         /\ \A j \in 1..k : SubSeq(p, 1, k)[j] = p[j]
<1> DEFINE cut == SubSeq(p, 1, k)
<1>0. p \in Seq(Bytes) /\ k \in Nat /\ k <= Len(p) /\ Len(p) \in Nat
  BY DEF Text
<1>1. cut \in Seq(Bytes) /\ Len(cut) = k /\ \A j \in 1..k : cut[j] = p[j]
  BY <1>0
<1>2. IsText(cut)
  <2>1. CASE k = 0
    BY <1>1, <2>1 DEF IsText
  <2>2. CASE k # 0
    <3>1. cut # <<>> /\ Head(cut) = p[1] /\ Head(p) = p[1] /\ p # <<>>
      BY <1>0, <1>1, <2>2
    <3> QED  BY <3>1 DEF IsText, Text
  <2> QED  BY <2>1, <2>2
<1> QED  BY <1>1, <1>2 DEF Text

\* The prefix of one path and another: the last character boundary up to
\* which they are the same.
LEMMA PrefixLengthIs ==
  ASSUME NEW p \in Text, NEW path \in Text
  PROVE  LET k == PrefixLength(p, path)
         IN /\ k \in 0..Len(p) /\ IsCharBoundary(p, k) /\ SharedTo(p, path, k)
            /\ \A n \in 0..Len(p) :
                 IsCharBoundary(p, n) /\ SharedTo(p, path, n) => n <= k
<1> DEFINE C == {n \in 0..Len(p) : n <= Len(path) /\ SubSeq(p, 1, n) = SubSeq(path, 1, n)}
           m == CommonLength(p, path)
           K == {n \in 0..m : IsCharBoundary(p, n)}
           k == PrefixLength(p, path)
<1>0. p \in Seq(Bytes) /\ path \in Seq(Bytes) /\ Len(p) \in Nat /\ Len(path) \in Nat
  BY DEF Text
<1>1. C = {n \in 0..Len(p) : SharedTo(p, path, n)}
  BY <1>0, BeginAlike
<1>2. m = Max(C) /\ k = Max(K)
  BY DEF CommonLength, PrefixLength
<1>3. 0 \in C
  BY <1>0, <1>1 DEF SharedTo
<1>4. m \in C /\ \A n \in C : m >= n
  <2>1. C \in SUBSET (0..Len(p)) /\ C # {}
    BY <1>3
  <2> HIDE DEF C, m
  <2> QED  BY <1>0, <1>2, <2>1, MaxOf
<1>5. m \in Nat /\ m <= Len(p) /\ SharedTo(p, path, m)
  BY <1>0, <1>1, <1>4
<1>6. IsCharBoundary(p, 0)
  <2>1. CASE p = <<>>
    BY <2>1 DEF IsCharBoundary
  <2>2. CASE p # <<>>
    BY <1>0, <2>2 DEF IsCharBoundary, Text, IsText
  <2> QED  BY <2>1, <2>2
<1> HIDE DEF C, m, k
<1>7. k \in K /\ \A n \in K : k >= n
  <2>1. K \in SUBSET (0..m) /\ K # {}
    BY <1>5, <1>6
  <2> HIDE DEF K
  <2> QED  BY <1>2, <1>5, <2>1, MaxOf
<1>8. k \in Nat /\ k <= m /\ IsCharBoundary(p, k)
  BY <1>5, <1>7
<1>9. SharedTo(p, path, k)
  BY <1>0, <1>5, <1>8 DEF SharedTo
<1>10. ASSUME NEW n \in 0..Len(p), IsCharBoundary(p, n), SharedTo(p, path, n)
       PROVE  n <= k
  <2>1. m >= n
    BY <1>1, <1>4, <1>10
  <2>2. n \in K
    BY <1>5, <1>10, <2>1
  <2> QED  BY <1>7, <1>8, <2>2
<1> QED  BY <1>0, <1>5, <1>8, <1>9, <1>10 DEF k

LEMMA PrefixFold ==
  ASSUME NEW q \in Seq(Text), q # <<>>
  PROVE  \E c : /\ c[{}] = q[1]
                /\ \A s \in SUBSET DOMAIN q : s # {} =>
                     c[s] = SubSeq(c[s \ {Max(s)}], 1, PrefixLength(c[s \ {Max(s)}], q[Max(s)]))
                /\ CommonPrefix(q) = c[DOMAIN q]
<1> DEFINE Cut(p, path) == SubSeq(p, 1, PrefixLength(p, path))
           step == [p \in Text \X Text |-> Cut(p[1], p[2])]
           Equation(g) == g = [s \in SUBSET DOMAIN q |-> IF s = {} THEN q[1]
                                 ELSE Cut(g[s \ {Max(s)}], q[Max(s)])]
           c == CHOOSE g : Equation(g)
<1>1. \A a \in Text, b \in Text : Cut(a, b) \in Text
  BY PrefixLengthIs, CutText
<1>2. PICK g : Folds(step, q[1], q, SUBSET DOMAIN q, g)
               /\ \A s \in SUBSET DOMAIN q : g[s] \in Text
  <2>1. step \in [Text \X Text -> Text]
    BY <1>1
  <2>2. q[1] \in Text
    OBVIOUS
  <2> HIDE DEF step
  <2> QED  BY <2>1, <2>2, FoldWithin
<1>3. CommonPrefix(q) = c[DOMAIN q]
  BY DEF CommonPrefix, FoldLeft, MapThenFoldSet
<1> HIDE DEF Cut
<1>4. \A s \in SUBSET DOMAIN q :
        g[s] = IF s = {} THEN q[1] ELSE Cut(g[s \ {Max(s)}], q[Max(s)])
  BY <1>2, LastIndex DEF Folds
<1>5. g = [s \in SUBSET DOMAIN q |-> g[s]]
  BY <1>2 DEF Folds
<1>6. Equation(g)
  BY <1>4, <1>5
<1>7. Equation(c)
  BY <1>6
<1> HIDE DEF c
<1>8. c[{}] = q[1] /\ \A s \in SUBSET DOMAIN q : s # {} =>
        c[s] = Cut(c[s \ {Max(s)}], q[Max(s)])
  BY <1>7
<1> QED  BY <1>3, <1>8 DEF Cut

\* The prefix of all paths: the last character boundary of the first path up
\* to which all of them are the same.
LEMMA CommonPrefixIs ==
  ASSUME NEW q \in Seq(Text), q # <<>>
  PROVE  \E m \in 0..Len(q[1]) :
           /\ CommonPrefix(q) = SubSeq(q[1], 1, m) /\ IsCharBoundary(q[1], m)
           /\ \A i \in DOMAIN q : SharedTo(q[1], q[i], m)
           /\ \A n \in 0..Len(q[1]) :
                IsCharBoundary(q[1], n) /\ (\A i \in DOMAIN q : SharedTo(q[1], q[i], n))
                  => n <= m
<1>1. PICK c : /\ c[{}] = q[1]
               /\ \A s \in SUBSET DOMAIN q : s # {} =>
                    c[s] = SubSeq(c[s \ {Max(s)}], 1, PrefixLength(c[s \ {Max(s)}], q[Max(s)]))
               /\ CommonPrefix(q) = c[DOMAIN q]
  BY PrefixFold
<1> DEFINE p == q[1]
           Cuts(s) == {n \in 0..Len(p) : IsCharBoundary(p, n) /\ \A i \in s : SharedTo(p, q[i], n)}
           Good == {s \in SUBSET DOMAIN q :
                      \E m \in Cuts(s) : c[s] = SubSeq(p, 1, m) /\ \A n \in Cuts(s) : n <= m}
<1>2. p \in Text /\ p \in Seq(Bytes) /\ Len(p) \in Nat
  <2>1. p \in Text
    OBVIOUS
  <2> QED  BY <2>1 DEF Text
<1> HIDE DEF p
<1>3. {} \in Good
  <2>1. Len(p) \in Cuts({})
    BY <1>2 DEF IsCharBoundary
  <2>2. c[{}] = SubSeq(p, 1, Len(p))
    BY <1>1, <1>2 DEF p
  <2> QED  BY <2>1, <2>2
<1>4. ASSUME NEW s \in SUBSET DOMAIN q, s # {}, s \ {Max(s)} \in Good
      PROVE  s \in Good
  <2> DEFINE x == Max(s)
             t == s \ {x}
  <2>1. q[x] \in Text /\ x \in s
    BY <1>4, LastIndex
  <2>2. PICK m \in Cuts(t) : c[t] = SubSeq(p, 1, m) /\ \A n \in Cuts(t) : n <= m
    BY <1>4
  <2> DEFINE r == SubSeq(p, 1, m)
             k == PrefixLength(r, q[x])
  <2>3. /\ m \in Nat /\ m <= Len(p) /\ IsCharBoundary(p, m)
        /\ \A i \in t : SharedTo(p, q[i], m)
    BY <1>2, <2>2
  <2>4. r \in Text /\ r \in Seq(Bytes) /\ Len(r) = m /\ \A j \in 1..m : r[j] = p[j]
    <3>1. r \in Text /\ Len(r) = m /\ \A j \in 1..m : r[j] = p[j]
      BY <1>2, <2>3, CutText
    <3> QED  BY <3>1 DEF Text
  <2>5. c[s] = SubSeq(r, 1, k)
    BY <1>1, <1>4, <2>2
  <2> HIDE DEF x, r
  <2>6. /\ k \in 0..m /\ IsCharBoundary(r, k) /\ SharedTo(r, q[x], k)
        /\ \A n \in 0..m : IsCharBoundary(r, n) /\ SharedTo(r, q[x], n) => n <= k
    BY <2>1, <2>4, PrefixLengthIs
  <2> HIDE DEF k
  <2>7. \A n \in 0..m : IsCharBoundary(r, n) <=> IsCharBoundary(p, n)
    <3>1. IsCharBoundary(r, m)
      BY <2>4 DEF IsCharBoundary
    <3>2. ASSUME NEW n \in 0..m, n # m
          PROVE  IsCharBoundary(r, n) <=> IsCharBoundary(p, n)
      <4>1. n # Len(r) /\ n # Len(p) /\ r[n + 1] = p[n + 1]
        BY <1>2, <2>3, <2>4, <3>2
      <4> QED  BY <4>1 DEF IsCharBoundary
    <3> QED  BY <2>3, <3>1, <3>2
  <2>8. \A n \in 0..m : SharedTo(r, q[x], n) <=> SharedTo(p, q[x], n)
    BY <2>3, <2>4 DEF SharedTo
  <2>9. k \in Cuts(s)
    <3>1. k \in 0..Len(p) /\ IsCharBoundary(p, k) /\ SharedTo(p, q[x], k)
      BY <1>2, <2>3, <2>6, <2>7, <2>8
    <3>2. ASSUME NEW i \in t PROVE SharedTo(p, q[i], k)
      <4>1. SharedTo(p, q[i], m) /\ Len(q[i]) \in Nat
        <5>1. q[i] \in Text
          BY <1>4
        <5> QED  BY <2>3, <5>1 DEF Text
      <4> QED  BY <2>3, <2>6, <4>1 DEF SharedTo
    <3> QED  BY <3>1, <3>2
  <2>10. ASSUME NEW n \in Cuts(s) PROVE n <= k
    <3>1. n \in 0..Len(p) /\ IsCharBoundary(p, n) /\ SharedTo(p, q[x], n)
      BY <2>1
    <3>2. n \in Cuts(t)
      OBVIOUS
    <3>3. n <= m
      BY <2>2, <3>2
    <3>4. n \in 0..m
      BY <1>2, <2>3, <3>1, <3>3
    <3> QED  BY <2>6, <2>7, <2>8, <3>1, <3>4
  <2>11. SubSeq(r, 1, k) = SubSeq(p, 1, k)
    <3>1. /\ SubSeq(r, 1, k) = [j \in 1..k |-> r[j]]
          /\ SubSeq(p, 1, k) = [j \in 1..k |-> p[j]]
      BY <1>2, <2>3, <2>4, <2>6
    <3> QED  BY <2>3, <2>4, <2>6, <3>1
  <2> QED  BY <2>5, <2>9, <2>10, <2>11
<1> HIDE DEF Good
<1>5. SUBSET DOMAIN q \subseteq Good
  BY <1>3, <1>4, FoldInduction
<1>6. DOMAIN q \in Good
  BY <1>5
<1> QED  BY <1>1, <1>6 DEF Good, p

LEMMA FolderPaths ==
  ASSUME NEW folder \in Folders
  PROVE  /\ folder \in Seq(Entry) /\ folder # <<>>
         /\ DOMAIN Paths(folder) = DOMAIN folder
         /\ \A i \in DOMAIN folder : Paths(folder)[i] = folder[i].name /\ folder[i].name \in Text
         /\ Paths(folder) \in Seq(Text) /\ Paths(folder) # <<>>
         /\ \A i, j \in DOMAIN folder : EndAlike(folder[i].name, folder[j].name)
<1>1. folder \in Seq(Entry) /\ folder # <<>>
  BY FoldersAssumption
<1>2. \A i \in DOMAIN folder : folder[i].name \in Text
  <2>1. ASSUME NEW i \in DOMAIN folder
        PROVE  folder[i].name \in Seq(Bytes) /\ IsText(folder[i].name)
    <3>1. folder[i] \in Entry
      BY <1>1
    <3> QED  BY <3>1, PathsAssumption DEF Entry
  <2> QED  BY <2>1 DEF Text
<1>3. Paths(folder) \in Seq(Text) /\ Paths(folder) # <<>>
  BY <1>1, <1>2 DEF Paths
<1> QED  BY <1>1, <1>2, <1>3, PathsAssumption DEF Paths

\* It is the longest text that all paths begin with.
LEMMA PrefixIsShared ==
  ASSUME NEW folder \in Folders
  PROVE  LET q == Paths(folder)
         IN \E m \in 0..Len(q[1]) :
              /\ CommonPrefix(q) = SubSeq(q[1], 1, m)
              /\ LongestSharedText(q) = SubSeq(q[1], 1, m)
              /\ \A i \in DOMAIN q : SharedTo(q[1], q[i], m) /\ IsCharBoundary(q[i], m)
<1> DEFINE q == Paths(folder)
           p == q[1]
           Shared(n) == \A i \in DOMAIN q :
             /\ n <= Len(q[i])
             /\ SubSeq(q[i], 1, n) = SubSeq(q[1], 1, n)
             /\ IsCharBoundary(q[i], n)
           S == {n \in 0..Len(q[1]) : Shared(n)}
<1>1. /\ q \in Seq(Text) /\ q # <<>> /\ 1 \in DOMAIN q
      /\ \A i, j \in DOMAIN q : EndAlike(q[i], q[j])
  BY FolderPaths
<1> HIDE DEF q
<1>2. /\ p \in Text /\ p \in Seq(Bytes) /\ Len(p) \in Nat
      /\ \A i \in DOMAIN q : q[i] \in Seq(Bytes)
  <2>1. p \in Text /\ \A i \in DOMAIN q : q[i] \in Text
    BY <1>1
  <2> QED  BY <2>1 DEF Text
<1>3. PICK m \in 0..Len(p) :
        /\ CommonPrefix(q) = SubSeq(p, 1, m) /\ IsCharBoundary(p, m)
        /\ \A i \in DOMAIN q : SharedTo(p, q[i], m)
        /\ \A n \in 0..Len(p) :
             IsCharBoundary(p, n) /\ (\A i \in DOMAIN q : SharedTo(p, q[i], n)) => n <= m
  BY <1>1, CommonPrefixIs
<1>4. ASSUME NEW n \in 0..Len(p), NEW i \in DOMAIN q
      PROVE  /\ (n <= Len(q[i]) /\ SubSeq(q[i], 1, n) = SubSeq(p, 1, n)) <=> SharedTo(p, q[i], n)
             /\ SharedTo(p, q[i], n) => (IsCharBoundary(q[i], n) <=> IsCharBoundary(p, n))
  <2>1. (n <= Len(q[i]) /\ SubSeq(p, 1, n) = SubSeq(q[i], 1, n)) <=> SharedTo(p, q[i], n)
    <3> HIDE DEF p
    <3> QED  BY <1>2, BeginAlike
  <2>2. EndAlike(p, q[i])
    BY <1>1
  <2> QED  BY <2>1, <2>2 DEF EndAlike
<1>5. ASSUME NEW n \in 0..Len(p)
      PROVE  Shared(n) <=> IsCharBoundary(p, n) /\ \A i \in DOMAIN q : SharedTo(p, q[i], n)
  <2>1. Shared(n) => IsCharBoundary(p, n)
    BY <1>1
  <2> QED  BY <1>4, <2>1
<1>6. m \in S /\ \A n \in S : n <= m
  BY <1>3, <1>5
<1>7. Max(S) = m
  <2>1. S \in SUBSET (0..Len(p)) /\ S # {}
    BY <1>6
  <2> HIDE DEF S, p
  <2>2. Max(S) \in S /\ Max(S) >= m
    BY <1>2, <1>6, <2>1, MaxOf
  <2>3. Max(S) \in 0..Len(p) /\ Max(S) <= m
    BY <1>6, <2>1, <2>2
  <2> QED  BY <1>2, <1>3, <2>2, <2>3
<1>8. LongestSharedText(q) = SubSeq(p, 1, m)
  BY <1>7 DEF LongestSharedText
<1>9. \A i \in DOMAIN q : SharedTo(p, q[i], m) /\ IsCharBoundary(q[i], m)
  BY <1>3, <1>4
<1> QED  BY <1>3, <1>8, <1>9 DEF q

TextEntry == [file : Files, name : Text]

LEMMA HeadIs ==
  ASSUME NEW T, NEW s \in Seq(T), Len(s) # 0
  PROVE  s # <<>> /\ Head(s) = s[1]
OBVIOUS

\* The names on the page are what the paths have after it.
LEMMA ShortenIs ==
  ASSUME NEW folder \in Folders
  PROVE  /\ Shorten(folder) \in Seq(TextEntry) /\ DOMAIN Shorten(folder) = DOMAIN folder
         /\ \A i \in DOMAIN folder :
              folder[i].name = LongestSharedText(Paths(folder)) \o Shorten(folder)[i].name
<1> DEFINE q == Paths(folder)
           prefix == CommonPrefix(q)
<1>1. /\ folder \in Seq(Entry) /\ folder # <<>> /\ DOMAIN q = DOMAIN folder
      /\ \A i \in DOMAIN folder : q[i] = folder[i].name /\ folder[i].name \in Text
  BY FolderPaths
<1>2. PICK m \in 0..Len(q[1]) :
        /\ prefix = SubSeq(q[1], 1, m) /\ LongestSharedText(q) = SubSeq(q[1], 1, m)
        /\ \A i \in DOMAIN q : SharedTo(q[1], q[i], m) /\ IsCharBoundary(q[i], m)
  BY PrefixIsShared
<1>3. q[1] \in Text
  BY <1>1
<1>4. m \in Nat /\ Len(prefix) = m /\ prefix \in Text /\ \A j \in 1..m : prefix[j] = q[1][j]
  <2>1. Len(q[1]) \in Nat
    BY <1>3 DEF Text
  <2> HIDE DEF q, prefix
  <2> QED  BY <1>2, <1>3, <2>1, CutText
<1> DEFINE Rest(i) == SubSeq(folder[i].name, m + 1, Len(folder[i].name))
<1>5. ASSUME NEW i \in DOMAIN folder
      PROVE  Rest(i) \in Text /\ folder[i].name = prefix \o Rest(i)
  <2> DEFINE name == folder[i].name
             rest == Rest(i)
  <2>1. /\ name \in Seq(Bytes) /\ Len(name) \in Nat /\ m <= Len(name)
        /\ \A j \in 1..m : prefix[j] = name[j]
        /\ m = Len(name) \/ name[m + 1] \notin Continuation
    <3>1. SharedTo(q[1], name, m) /\ IsCharBoundary(name, m) /\ name \in Text
      BY <1>1, <1>2
    <3> HIDE DEF q, prefix, name
    <3> QED  BY <1>4, <3>1 DEF SharedTo, IsCharBoundary, Text
  <2>2. prefix \in Seq(Bytes)
    BY <1>4 DEF Text
  <2> HIDE DEF q, prefix, name
  <2>3. /\ rest \in Seq(Bytes) /\ Len(rest) = Len(name) - m
        /\ \A j \in 1..(Len(name) - m) : rest[j] = name[m + j]
    BY <1>4, <2>1 DEF name
  <2>4. IsText(rest)
    <3>1. CASE m = Len(name)
      <4>1. rest = <<>>
        BY <2>1, <2>3, <3>1
      <4> QED  BY <4>1 DEF IsText
    <3>2. CASE m # Len(name)
      <4>0. 1 \in 1..(Len(name) - m) /\ Len(rest) # 0
        BY <1>4, <2>1, <2>3, <3>2
      <4>1. rest # <<>> /\ Head(rest) = rest[1]
        BY <2>3, <4>0, HeadIs
      <4>2. rest[1] = name[m + 1]
        BY <2>3, <4>0
      <4> QED  BY <2>1, <3>2, <4>1, <4>2 DEF IsText
    <3> QED  BY <3>1, <3>2
  <2> HIDE DEF rest
  <2>5. name = prefix \o rest
    <3> DEFINE both == prefix \o rest
    <3>0. m + Len(rest) = Len(name)
      BY <1>4, <2>1, <2>3
    <3>1. /\ both \in Seq(Bytes) /\ Len(both) = Len(name)
          /\ \A j \in 1..Len(name) :
               both[j] = IF j <= m THEN prefix[j] ELSE rest[j - m]
      <4>1. both \in Seq(Bytes) /\ Len(both) = m + Len(rest)
        <5>1. prefix \in Seq(Bytes) /\ rest \in Seq(Bytes) /\ Len(prefix) = m
          BY <1>4, <2>2, <2>3
        <5> QED  BY <5>1
      <4>2. \A j \in 1..(m + Len(rest)) :
              both[j] = IF j <= m THEN prefix[j] ELSE rest[j - m]
        BY <1>4, <2>2, <2>3
      <4> QED  BY <3>0, <4>1, <4>2
    <3> HIDE DEF both
    <3>2. \A j \in 1..Len(name) : both[j] = name[j]
      <4>1. ASSUME NEW j \in 1..Len(name), j <= m PROVE both[j] = name[j]
        BY <1>4, <2>1, <3>1, <4>1
      <4>2. ASSUME NEW j \in 1..Len(name), ~(j <= m) PROVE both[j] = name[j]
        <5>1. j - m \in 1..(Len(name) - m) /\ m + (j - m) = j
          BY <1>4, <2>1, <4>2
        <5> QED  BY <2>3, <3>1, <4>2, <5>1
      <4> QED  BY <4>1, <4>2
    <3>3. both = [j \in 1..Len(name) |-> both[j]] /\ name = [j \in 1..Len(name) |-> name[j]]
      BY <2>1, <3>1
    <3>4. both = name
      BY <3>2, <3>3
    <3> QED  BY <3>4 DEF both
  <2> QED  BY <2>3, <2>4, <2>5 DEF rest, name, Text
<1>6. Shorten(folder) = [i \in 1..Len(folder) |-> [folder[i] EXCEPT !.name = Rest(i)]]
  BY <1>1, <1>4 DEF Shorten
<1>7. ASSUME NEW i \in DOMAIN folder
      PROVE  /\ [folder[i] EXCEPT !.name = Rest(i)] \in TextEntry
             /\ [folder[i] EXCEPT !.name = Rest(i)].name = Rest(i)
  <2>1. folder[i] \in Entry /\ Rest(i) \in Text
    BY <1>1, <1>5
  <2> HIDE DEF Rest
  <2> QED  BY <2>1 DEF Entry, TextEntry
<1> HIDE DEF Rest, q, prefix
<1>8. DOMAIN folder = 1..Len(folder) /\ Len(folder) \in Nat
  BY <1>1
<1>9. Shorten(folder) \in Seq(TextEntry) /\ DOMAIN Shorten(folder) = DOMAIN folder
      /\ \A i \in DOMAIN folder : Shorten(folder)[i].name = Rest(i)
  <2> DEFINE e(i) == [folder[i] EXCEPT !.name = Rest(i)]
  <2>1. \A i \in 1..Len(folder) : e(i) \in TextEntry /\ e(i).name = Rest(i)
    BY <1>7, <1>8
  <2>2. Shorten(folder) = [i \in 1..Len(folder) |-> e(i)]
    BY <1>6
  <2> HIDE DEF e
  <2> QED  BY <1>8, <2>1, <2>2
<1>10. prefix = LongestSharedText(q)
  BY <1>2
<1> QED  BY <1>5, <1>9, <1>10 DEF q

LEMMA TextEntries == TextEntry \subseteq Entry
BY DEF TextEntry, Text, Entry

LEMMA ShortenType ==
  ASSUME NEW folder \in Folders
  PROVE  Shorten(folder) \in Seq(Entry)
<1>1. Shorten(folder) \in Seq(TextEntry)
  BY ShortenIs
<1> QED  BY <1>1, TextEntries

LEMMA PlaceType ==
  ASSUME NEW name \in Seq(Bytes)
  PROVE  Place(name) \in Seq(Bytes)
BY JoinedText DEF Place, Front

-----------------------------------------------------------------------------
(* The inductive invariant.                                                *)

Parts(r) == posts[r].parts
Copied(r) == 1..Len(handlers[r].file_list)

\* While the files are read, the list is what it was when the button was
\* pressed, and the form is a beginning of it.
ReadingInv == do_upload = "reading" =>
  /\ Len(posts) < MaxPosts
  /\ pressed.entries = dropped_files
  /\ pressed.quote = Quote(dropped_files) /\ pressed.quote <= BalanceShown
  /\ Len(form) <= Len(dropped_files)
  /\ \A i \in 1..Len(form) : form[i] = dropped_files[i]

\* So a request has the parts that were quoted.
PostsInv == \A r \in 1..Len(posts) :
  /\ Parts(r) = posts[r].entries
  /\ posts[r].quote = Quote(posts[r].entries) /\ posts[r].quote <= BalanceShown

\* A handler counts the parts it has copied.
CountInv == \A r \in Requests :
  /\ handlers[r].pc # "new" => r <= Len(posts)
  /\ handlers[r].pc = "new" => handlers[r].file_list = <<>> /\ handlers[r].size = 0
  /\ handlers[r].pc \in {"copying", "done"} =>
       /\ Len(handlers[r].file_list) <= Len(Parts(r))
       /\ handlers[r].size = SumFunctionOnSet(Sizes(Parts(r)), Copied(r))
  /\ handlers[r].pc = "done" => Len(handlers[r].file_list) = Len(Parts(r))

PageInv   == PageTypeOK /\ ReadingInv /\ PostsInv
ServerTypes ==
  /\ handlers \in [Requests -> [pc : {"new", "copying", "done", "failed"},
                                file_list : Seq(Seq(Bytes)), size : Nat]]
  /\ DOMAIN disk = Requests
  /\ \A r \in Requests :
       /\ DOMAIN disk[r] \subseteq Seq(Bytes)
       /\ \A p \in DOMAIN disk[r] : disk[r][p] \in Content
  /\ pending \subseteq Write
  /\ \A w \in pending : w.place \in DOMAIN disk[w.request]
UploadInv == PageInv /\ ServerTypes /\ CountInv

\* The files that the copied parts have at a place, and a whole file.
FilesAt(r, p) == {Parts(r)[i].file : i \in {j \in Copied(r) : Place(Parts(r)[j].name) = p}}
Whole(f) == [k \in 1..Size[f] |-> f]
WriteOf(r, p, f) == [request |-> r, place |-> p, file |-> f]

\* What is on the disk, and on its way there, is of the parts copied so far.
\* Where they are one file, it is there or on its way.
PlacesInv(r) ==
  /\ DOMAIN disk[r] = {Place(Parts(r)[i].name) : i \in Copied(r)}
  /\ \A w \in pending : w.request = r => w.file \in FilesAt(r, w.place)
  /\ \A p \in DOMAIN disk[r] : Range(disk[r][p]) \subseteq FilesAt(r, p)
  /\ \A p \in DOMAIN disk[r], f \in Files : FilesAt(r, p) = {f} =>
       \/ disk[r][p] = Whole(f)
       \/ disk[r][p] = <<>> /\ WriteOf(r, p, f) \in pending

DiskInv == \A r \in Requests :
  /\ handlers[r].pc = "new" => DOMAIN disk[r] = {} /\ \A w \in pending : w.request # r
  /\ handlers[r].pc \in {"copying", "done"} => PlacesInv(r)

LEMMA OverlayType ==
  ASSUME NEW old \in Content, NEW file \in Files
  PROVE  /\ Overlay(old, file) \in Content
         /\ Range(Overlay(old, file)) \subseteq Range(old) \cup {file}
         /\ Len(old) <= Size[file] => Overlay(old, file) = Whole(file)
<1> DEFINE a == Len(old)
           b == Size[file]
           m == Max({a, b})
<1>1. a \in Nat /\ b \in Nat /\ a + b \in Nat
  BY SizeAssumption DEF Content
<1>2. {a, b} \in SUBSET (0..(a + b)) /\ {a, b} # {}
  BY <1>1
<1>3. m \in {a, b} /\ m >= a /\ m >= b
  <2> HIDE DEF a, b
  <2> QED  BY <1>1, <1>2, MaxOf
<1>4. m \in Nat
  BY <1>1, <1>3
<1>5. Overlay(old, file) = [k \in 1..m |-> IF k <= b THEN file ELSE old[k]]
  BY DEF Overlay
<1> HIDE DEF m
<1>6. \A k \in 1..m : k <= b \/ k \in 1..a
  BY <1>1, <1>3
<1>7. DOMAIN old = 1..a /\ \A k \in 1..a : old[k] \in Files
  BY DEF Content
<1>8. Overlay(old, file) \in Content
  <2>1. \A k \in 1..m : (IF k <= b THEN file ELSE old[k]) \in Files
    BY <1>6, <1>7
  <2> QED  BY <1>4, <1>5, <2>1 DEF Content
<1>9. Range(Overlay(old, file)) \subseteq Range(old) \cup {file}
  <2>1. \A k \in 1..m : Overlay(old, file)[k] = file \/ \E j \in DOMAIN old : Overlay(old, file)[k] = old[j]
    BY <1>5, <1>6, <1>7
  <2>2. DOMAIN Overlay(old, file) = 1..m
    BY <1>5
  <2> QED  BY <2>1, <2>2 DEF Range
<1>10. a <= b => Overlay(old, file) = Whole(file)
  <2>1. a <= b => m = b
    BY <1>1, <1>3
  <2> QED  BY <1>5, <2>1 DEF Whole
<1> QED  BY <1>8, <1>9, <1>10

-----------------------------------------------------------------------------
(* Quotes and what a handler counts.                                       *)

LEMMA SizesType ==
  ASSUME NEW q \in Seq(Entry)
  PROVE  DOMAIN Sizes(q) = DOMAIN q /\ \A i \in DOMAIN q : Sizes(q)[i] \in Nat
<1>1. ASSUME NEW i \in DOMAIN q
      PROVE  Size[q[i].file] \in Nat
  <2>1. q[i] \in Entry
    OBVIOUS
  <2> QED  BY <2>1, SizeAssumption DEF Entry
<1> QED  BY <1>1 DEF Sizes

LEMMA SumNat ==
  ASSUME NEW f, NEW S, IsFiniteSet(S), \A x \in S : f[x] \in Nat
  PROVE  SumFunctionOnSet(f, S) \in Nat
<1>1. SumFunctionOnSet(f, S) \in Int
  BY SumInt
<1>2. SumFunctionOnSet(f, {}) <= SumFunctionOnSet(f, S)
  BY SumWithin
<1> QED  BY <1>1, <1>2, SumEmpty

LEMMA QuoteType ==
  ASSUME NEW q \in Seq(Entry)
  PROVE  Quote(q) \in Nat
<1>1. TotalSize(q) \in Nat
  BY SizesType, IndicesFinite, SumNat DEF TotalSize
<1>2. UploadMbFactor \in Nat /\ UploadFileFactor \in Nat /\ Len(q) \in Nat
  BY PricesAssumption
<1>3. \A m, n \in Nat : m * n \in Nat
  OBVIOUS
<1>4. TotalSize(q) * UploadMbFactor \in Nat /\ Len(q) * UploadFileFactor \in Nat
  BY <1>1, <1>2, <1>3
<1> QED  BY <1>4 DEF Quote, Cost
-----------------------------------------------------------------------------
(* Steps of the page.                                                      *)

PostsGrow ==
  /\ Len(posts) <= Len(posts')
  /\ \A r \in 1..Len(posts) : posts'[r] = posts[r]

LEMMA RenderedType ==
  ASSUME PageTypeOK, NEW list, NEW task
  PROVE  Rendered(list, task) \in {"upload", "order", "profile"}
BY DEF Rendered, PageTypeOK

LEMMA EditKeeps ==
  ASSUME PageInv, NEW list \in Seq(Entry), Edit(list)
  PROVE  PageInv' /\ PostsGrow
<1>1. /\ dropped_files' = list /\ do_upload # "reading" /\ edits' = edits + 1 /\ edits < MaxEdits
      /\ route' = Rendered(list, do_upload)
      /\ UNCHANGED <<do_upload, form, pressed, has_token, posts>>
  BY DEF Edit, MayEdit
<1>2. PageTypeOK'
  BY <1>1, RenderedType, BoundsAssumption DEF PageInv, PageTypeOK
<1>3. ReadingInv' /\ PostsInv'
  BY <1>1 DEF PageInv, ReadingInv, PostsInv, Parts
<1> QED  BY <1>1, <1>2, <1>3 DEF PageInv, PostsGrow, PageTypeOK

LEMMA ForgetTokenKeeps ==
  ASSUME PageInv, ForgetToken
  PROVE  PageInv' /\ PostsGrow
<1>1. /\ has_token' \in BOOLEAN
      /\ UNCHANGED <<dropped_files, do_upload, form, pressed, route, posts, edits>>
  BY DEF ForgetToken
<1>2. PageTypeOK'
  BY <1>1 DEF PageInv, PageTypeOK
<1>3. ReadingInv' /\ PostsInv'
  <2>1. Quote(dropped_files)' = Quote(dropped_files)
    BY <1>1 DEF Quote, Cost, TotalSize, Sizes
  <2> QED  BY <1>1, <2>1 DEF PageInv, ReadingInv, PostsInv, Parts
<1> QED  BY <1>1, <1>2, <1>3 DEF PageInv, PageTypeOK, PostsGrow

LEMMA PerformUploadKeeps ==
  ASSUME PageInv, PerformUpload
  PROVE  PageInv' /\ PostsGrow
<1>1. Quote(dropped_files) \in Nat
  BY QuoteType DEF PageInv, PageTypeOK
<1>2. PageTypeOK'
  BY <1>1 DEF PageInv, PageTypeOK, PerformUpload
<1>3. ReadingInv'
  <2>1. /\ form' = <<>> /\ UNCHANGED <<dropped_files, posts>> /\ Len(posts) < MaxPosts
        /\ pressed' = [entries |-> dropped_files, quote |-> Quote(dropped_files)]
        /\ Quote(dropped_files) <= BalanceShown
    BY DEF PerformUpload, MayOrder
  <2>2. Quote(dropped_files)' = Quote(dropped_files)
    BY <2>1 DEF Quote, Cost, TotalSize, Sizes
  <2>3. Len(form') = 0 /\ Len(dropped_files) \in Nat
    BY <2>1 DEF PageInv, PageTypeOK
  <2> QED  BY <2>1, <2>2, <2>3 DEF ReadingInv
<1>4. PostsInv' /\ PostsGrow
  BY DEF PageInv, PageTypeOK, PerformUpload, PostsInv, Parts, PostsGrow
<1> QED  BY <1>2, <1>3, <1>4 DEF PageInv

LEMMA ReadFileKeeps ==
  ASSUME PageInv, ReadFile
  PROVE  PageInv' /\ PostsGrow
<1> DEFINE n == Len(form) + 1
<1>1. /\ do_upload = "reading" /\ Len(form) < Len(dropped_files)
      /\ form' = Append(form, dropped_files[n])
      /\ UNCHANGED <<dropped_files, do_upload, pressed, route, has_token, posts, edits>>
  BY DEF ReadFile
<1>2. form \in Seq(Entry) /\ dropped_files \in Seq(Entry)
  BY DEF PageInv, PageTypeOK
<1>3. n \in 1..Len(dropped_files) /\ dropped_files[n] \in Entry
  BY <1>1, <1>2
<1>4. form' \in Seq(Entry) /\ Len(form') = n /\ form'[n] = dropped_files[n]
      /\ \A i \in 1..Len(form) : form'[i] = form[i]
  BY <1>1, <1>2, <1>3
<1>5. PageTypeOK'
  BY <1>1, <1>4 DEF PageInv, PageTypeOK
<1>6. ReadingInv'
  <2>1. \A i \in 1..n : i \in 1..Len(form) \/ i = n
    BY <1>2
  <2>2. Quote(dropped_files)' = Quote(dropped_files)
    BY <1>1 DEF Quote, Cost, TotalSize, Sizes
  <2>3. \A i \in 1..Len(form) : form[i] = dropped_files[i]
    BY <1>1 DEF PageInv, ReadingInv
  <2>4. \A i \in 1..Len(form') : form'[i] = dropped_files'[i]
    BY <1>1, <1>4, <2>1, <2>3
  <2> HIDE DEF n
  <2> QED  BY <1>1, <1>3, <1>4, <2>2, <2>4 DEF PageInv, ReadingInv
<1>7. PostsInv' /\ PostsGrow
  BY <1>1 DEF PageInv, PageTypeOK, PostsInv, Parts, PostsGrow
<1> QED  BY <1>5, <1>6, <1>7 DEF PageInv

LEMMA PostKeeps ==
  ASSUME PageInv, Post
  PROVE  PageInv' /\ PostsGrow
<1> DEFINE request == [parts |-> form, entries |-> pressed.entries, quote |-> pressed.quote]
<1>1. /\ do_upload = "reading" /\ Len(form) >= Len(dropped_files)
      /\ do_upload' = "posted" /\ posts' = Append(posts, request)
      /\ UNCHANGED <<dropped_files, form, pressed, route, has_token, edits>>
  BY DEF Post
<1>2. /\ form \in Seq(Entry) /\ dropped_files \in Seq(Entry)
      /\ pressed.entries \in Seq(Entry) /\ pressed.quote \in Nat
      /\ posts \in Seq([parts : Seq(Entry), entries : Seq(Entry), quote : Nat])
  BY DEF PageInv, PageTypeOK
<1>3. /\ Len(posts) < MaxPosts /\ pressed.entries = dropped_files
      /\ pressed.quote = Quote(dropped_files) /\ pressed.quote <= BalanceShown
      /\ Len(form) <= Len(dropped_files)
      /\ \A i \in 1..Len(form) : form[i] = dropped_files[i]
  BY <1>1 DEF PageInv, ReadingInv
<1>4. form = dropped_files
  <2>1. Len(form) = Len(dropped_files)
    BY <1>1, <1>2, <1>3
  <2>2. /\ form = [i \in 1..Len(form) |-> form[i]]
        /\ dropped_files = [i \in 1..Len(dropped_files) |-> dropped_files[i]]
    BY <1>2
  <2> QED  BY <1>3, <2>1, <2>2
<1>5. request \in [parts : Seq(Entry), entries : Seq(Entry), quote : Nat]
  BY <1>2
<1> HIDE DEF request
<1>6. /\ posts' \in Seq([parts : Seq(Entry), entries : Seq(Entry), quote : Nat])
      /\ Len(posts') = Len(posts) + 1 /\ posts'[Len(posts) + 1] = request
      /\ \A r \in 1..Len(posts) : posts'[r] = posts[r]
  BY <1>1, <1>2, <1>5
<1>7. PageTypeOK'
  <2>1. Len(posts') <= MaxPosts
    BY <1>2, <1>3, <1>6, BoundsAssumption
  <2> QED  BY <1>1, <1>6, <2>1 DEF PageInv, PageTypeOK
<1>8. ReadingInv'
  BY <1>1 DEF ReadingInv
<1>9. PostsInv'
  <2>1. ASSUME NEW r \in 1..(Len(posts) + 1)
        PROVE  /\ posts'[r].parts = posts'[r].entries
               /\ posts'[r].quote = Quote(posts'[r].entries)
               /\ posts'[r].quote <= BalanceShown
    <3>1. CASE r = Len(posts) + 1
      <4>1. request.parts = form /\ request.entries = form /\ request.quote = Quote(form)
        BY <1>3, <1>4 DEF request
      <4> QED  BY <1>3, <1>4, <1>6, <3>1, <4>1
    <3>2. CASE r # Len(posts) + 1
      <4>1. r \in 1..Len(posts)
        BY <1>2, <3>2
      <4>2. posts'[r] = posts[r]
        BY <1>6, <4>1
      <4> QED  BY <4>1, <4>2 DEF PageInv, PostsInv, Parts
    <3> QED  BY <3>1, <3>2
  <2>2. \A r \in 1..Len(posts') : Quote(posts[r].entries)' = Quote(posts'[r].entries)
    BY DEF Quote, Cost, TotalSize, Sizes
  <2> QED  BY <1>6, <2>1, <2>2 DEF PostsInv, Parts
<1> QED  BY <1>2, <1>6, <1>7, <1>8, <1>9 DEF PageInv, PostsGrow

LEMMA AnswerKeeps ==
  ASSUME PageInv, Answered \/ Refused \/ FailRead
  PROVE  PageInv' /\ PostsGrow
<1>1. /\ do_upload' \in {"answered", "failed"}
      /\ route' = route \/ route' = Rendered(dropped_files, "answered")
      /\ UNCHANGED <<dropped_files, form, pressed, has_token, posts, edits>>
  BY DEF Answered, Refused, FailRead
<1>2. PageTypeOK'
  BY <1>1, RenderedType DEF PageInv, PageTypeOK
<1> QED  BY <1>1, <1>2 DEF PageInv, PageTypeOK, ReadingInv, PostsInv, Parts, PostsGrow

LEMMA PageKeeps ==
  ASSUME PageInv, PageStep
  PROVE  PageInv' /\ PostsGrow
<1>0. dropped_files \in Seq(Entry)
  BY DEF PageInv, PageTypeOK
<1>1. ASSUME NEW folder \in Folders, PushWithPath(folder)
      PROVE  PageInv' /\ PostsGrow
  <2>1. PushedOnto(dropped_files, Shorten(folder)) \in Seq(Entry)
    BY <1>0, ShortenType, PushedType
  <2> QED  BY <1>1, <2>1, EditKeeps DEF PushWithPath, PushedOnto
<1>2. ASSUME NEW i \in DOMAIN dropped_files, Delete(i)
      PROVE  PageInv' /\ PostsGrow
  <2>1. Without(dropped_files, dropped_files[i].name) \in Seq(Entry)
    BY <1>0, WithoutType
  <2> QED  BY <1>2, <2>1, EditKeeps DEF Delete
<1>3. ASSUME NEW i \in DOMAIN dropped_files, NEW n \in NewNames, Rename(i, n)
      PROVE  PageInv' /\ PostsGrow
  <2>1. n \in Seq(Bytes) /\ dropped_files[i] \in Entry
    BY <1>0, NamesAssumption
  <2>2. [dropped_files[i] EXCEPT !.name = n] \in Entry
    BY <2>1 DEF Entry
  <2>3. [dropped_files EXCEPT ![i].name = n] \in Seq(Entry)
    BY <1>0, <2>2
  <2> QED  BY <1>3, <2>3, EditKeeps DEF Rename
<1>4. ASSUME DeleteAll PROVE PageInv' /\ PostsGrow
  <2>1. <<>> \in Seq(Entry)
    OBVIOUS
  <2> QED  BY <1>4, <2>1, EditKeeps DEF DeleteAll
<1> QED
  BY <1>1, <1>2, <1>3, <1>4, ForgetTokenKeeps, PerformUploadKeeps, ReadFileKeeps,
     PostKeeps, AnswerKeeps DEF PageStep
LEMMA PageStepKeeps ==
  ASSUME UploadInv, PageStep, UNCHANGED <<handlers, disk, pending>>
  PROVE  UploadInv'
<1>1. PageInv' /\ PostsGrow
  BY PageKeeps DEF UploadInv
<1>2. ServerTypes'
  BY DEF UploadInv, ServerTypes
<1>3. CountInv'
  <2>1. ASSUME NEW r \in Requests, r <= Len(posts)
        PROVE  Parts(r)' = Parts(r) /\ Sizes(Parts(r))' = Sizes(Parts(r))
               /\ r <= Len(posts')
    <3>1. posts' \in Seq([parts : Seq(Entry), entries : Seq(Entry), quote : Nat])
      BY <1>1 DEF PageInv, PageTypeOK
    <3>2. r \in 1..Len(posts) /\ r <= Len(posts')
      BY <1>1, <2>1, <3>1, BoundsAssumption DEF Requests, PostsGrow, UploadInv, PageInv, PageTypeOK
    <3>3. posts'[r] = posts[r]
      BY <1>1, <3>2 DEF PostsGrow
    <3> QED  BY <3>2, <3>3 DEF Parts, Sizes
  <2>2. \A r \in Requests : handlers[r].pc # "new" => r <= Len(posts)
    BY DEF UploadInv, CountInv
  <2>3. \A r \in Requests : Copied(r)' = Copied(r)
    BY DEF Copied
  <2> QED  BY <2>1, <2>2, <2>3 DEF UploadInv, CountInv
<1> QED  BY <1>1, <1>2, <1>3 DEF UploadInv

-----------------------------------------------------------------------------
(* Steps of the server.                                                    *)

HandlerType == [pc : {"new", "copying", "done", "failed"},
                file_list : Seq(Seq(Bytes)), size : Nat]

\* What CountInv says of one handler in the state h.
Counted(r, h) ==
  /\ h.pc # "new" => r <= Len(posts)
  /\ h.pc = "new" => h.file_list = <<>> /\ h.size = 0
  /\ h.pc \in {"copying", "done"} =>
       /\ Len(h.file_list) <= Len(Parts(r))
       /\ h.size = SumFunctionOnSet(Sizes(Parts(r)), 1..Len(h.file_list))
  /\ h.pc = "done" => Len(h.file_list) = Len(Parts(r))

\* The page is not touched, and one handler is at most.
LEMMA HandlerKeeps ==
  ASSUME UploadInv, UNCHANGED pageVars, NEW r \in Requests, NEW h \in HandlerType,
         handlers' = [handlers EXCEPT ![r] = h], Counted(r, h)
  PROVE  PageInv' /\ handlers' \in [Requests -> HandlerType] /\ CountInv'
<1>1. UNCHANGED <<dropped_files, do_upload, form, pressed, route, has_token, posts, edits>>
  BY DEF pageVars
<1>2. PageInv'
  <2>1. PageTypeOK'
    BY <1>1 DEF UploadInv, PageInv, PageTypeOK
  <2>2. Quote(dropped_files)' = Quote(dropped_files)
    BY <1>1 DEF Quote, Cost, TotalSize, Sizes
  <2>3. ReadingInv' /\ PostsInv'
    BY <1>1, <2>2 DEF UploadInv, PageInv, ReadingInv, PostsInv, Parts
  <2> QED  BY <2>1, <2>3 DEF PageInv
<1>3. handlers \in [Requests -> HandlerType]
  BY DEF UploadInv, ServerTypes, HandlerType
<1>4. handlers'[r] = h /\ \A q \in Requests : q # r => handlers'[q] = handlers[q]
  BY <1>3
<1>5. CountInv'
  <2>1. \A q \in Requests : Counted(q, handlers[q])
    BY DEF UploadInv, CountInv, Counted, Copied
  <2>2. \A q \in Requests : Counted(q, handlers'[q])
    BY <1>4, <2>1
  <2>3. \A q \in Requests : Parts(q)' = Parts(q) /\ Sizes(Parts(q))' = Sizes(Parts(q))
    BY <1>1 DEF Parts, Sizes
  <2> QED  BY <1>1, <2>2, <2>3 DEF CountInv, Counted, Copied
<1> QED  BY <1>2, <1>3, <1>5

LEMMA PartsType ==
  ASSUME UploadInv, NEW r \in Requests, r <= Len(posts)
  PROVE  /\ Parts(r) \in Seq(Entry) /\ Parts(r) = posts[r].entries
         /\ posts[r].quote = Quote(Parts(r)) /\ posts[r].quote <= BalanceShown
<1> DEFINE Request == [parts : Seq(Entry), entries : Seq(Entry), quote : Nat]
<1>1. posts \in Seq(Request)
  BY DEF UploadInv, PageInv, PageTypeOK
<1>2. r \in 1..Len(posts)
  BY <1>1, BoundsAssumption DEF Requests
<1>3. posts[r] \in Request
  <2> HIDE DEF Request
  <2> QED  BY <1>1, <1>2
<1>4. /\ Parts(r) = posts[r].entries
      /\ posts[r].quote = Quote(posts[r].entries) /\ posts[r].quote <= BalanceShown
  BY <1>2 DEF UploadInv, PageInv, PostsInv
<1>5. posts[r].entries \in Seq(Entry)
  BY <1>3
<1> QED  BY <1>4, <1>5

LEMMA AllocateKeeps ==
  ASSUME UploadInv, NEW r \in Requests, Allocate(r)
  PROVE  UploadInv'
<1> DEFINE h == [handlers[r] EXCEPT !.pc = "copying"]
<1>1. /\ r <= Len(posts) /\ handlers[r].pc = "new"
      /\ handlers' = [handlers EXCEPT ![r].pc = "copying"]
      /\ UNCHANGED <<pageVars, disk, pending>>
  BY DEF Allocate
<1>2. handlers[r] \in HandlerType
  BY DEF UploadInv, ServerTypes, HandlerType
<1>3. /\ h \in HandlerType /\ h.pc = "copying"
      /\ h.file_list = handlers[r].file_list /\ h.size = handlers[r].size
  BY <1>2 DEF HandlerType
<1>4. handlers' = [handlers EXCEPT ![r] = h]
  BY <1>1
<1> HIDE DEF h
<1>5. Counted(r, h)
  <2>1. h.file_list = <<>> /\ h.size = 0
    BY <1>1, <1>3 DEF UploadInv, CountInv
  <2>2. Parts(r) \in Seq(Entry)
    BY <1>1, PartsType
  <2>3. 1..Len(h.file_list) = {} /\ Len(h.file_list) <= Len(Parts(r))
    BY <2>1, <2>2
  <2>4. SumFunctionOnSet(Sizes(Parts(r)), {}) = 0
    BY SumEmpty
  <2> QED  BY <1>1, <1>3, <2>1, <2>3, <2>4 DEF Counted
<1>6. PageInv' /\ handlers' \in [Requests -> HandlerType] /\ CountInv'
  BY <1>1, <1>3, <1>4, <1>5, HandlerKeeps
<1>7. ServerTypes'
  BY <1>1, <1>6 DEF UploadInv, ServerTypes, HandlerType
<1> QED  BY <1>6, <1>7 DEF UploadInv

LEMMA AbandonKeeps ==
  ASSUME UploadInv, NEW r \in Requests, Abandon(r)
  PROVE  UploadInv'
<1> DEFINE h == [handlers[r] EXCEPT !.pc = "failed"]
<1>1. /\ r <= Len(posts)
      /\ handlers' = [handlers EXCEPT ![r].pc = "failed"]
      /\ UNCHANGED <<pageVars, disk, pending>>
  BY DEF Abandon
<1>2. handlers[r] \in HandlerType
  BY DEF UploadInv, ServerTypes, HandlerType
<1>3. h \in HandlerType /\ h.pc = "failed"
  BY <1>2 DEF HandlerType
<1>4. handlers' = [handlers EXCEPT ![r] = h]
  BY <1>1
<1> HIDE DEF h
<1>5. Counted(r, h)
  BY <1>1, <1>3 DEF Counted
<1>6. PageInv' /\ handlers' \in [Requests -> HandlerType] /\ CountInv'
  BY <1>1, <1>3, <1>4, <1>5, HandlerKeeps
<1>7. ServerTypes'
  BY <1>1, <1>6 DEF UploadInv, ServerTypes, HandlerType
<1> QED  BY <1>6, <1>7 DEF UploadInv

LEMMA SubmitKeeps ==
  ASSUME UploadInv, NEW r \in Requests, Submit(r)
  PROVE  UploadInv'
<1> DEFINE h == [handlers[r] EXCEPT !.pc = "done"]
<1>1. /\ handlers[r].pc = "copying" /\ Len(handlers[r].file_list) = Len(Parts(r))
      /\ handlers' = [handlers EXCEPT ![r].pc = "done"]
      /\ UNCHANGED <<pageVars, disk, pending>>
  BY DEF Submit, Parts
<1>2. handlers[r] \in HandlerType
  BY DEF UploadInv, ServerTypes, HandlerType
<1>3. /\ h \in HandlerType /\ h.pc = "done"
      /\ h.file_list = handlers[r].file_list /\ h.size = handlers[r].size
  BY <1>2 DEF HandlerType
<1>4. handlers' = [handlers EXCEPT ![r] = h]
  BY <1>1
<1> HIDE DEF h
<1>5. Counted(r, h)
  BY <1>1, <1>3 DEF UploadInv, CountInv, Counted, Copied
<1>6. PageInv' /\ handlers' \in [Requests -> HandlerType] /\ CountInv'
  BY <1>1, <1>3, <1>4, <1>5, HandlerKeeps
<1>7. ServerTypes'
  BY <1>1, <1>6 DEF UploadInv, ServerTypes, HandlerType
<1> QED  BY <1>6, <1>7 DEF UploadInv

\* A part is counted whether or not it can be put where its name says.
LEMMA ListPartCounts ==
  ASSUME UploadInv, NEW r \in Requests, handlers[r].pc = "copying",
         Len(handlers[r].file_list) < Len(Parts(r)),
         NEW pc \in {"copying", "failed"}
  PROVE  LET h == [ListPart(handlers[r], NextPart(r)) EXCEPT !.pc = pc]
         IN /\ NextPart(r) \in Entry
            /\ h \in HandlerType /\ h.pc = pc
            /\ Len(h.file_list) = Len(handlers[r].file_list) + 1
            /\ Counted(r, h)
<1> DEFINE n == Len(handlers[r].file_list)
           part == NextPart(r)
           h == [ListPart(handlers[r], part) EXCEPT !.pc = pc]
           sizes == Sizes(Parts(r))
<1>1. handlers[r] \in HandlerType
  BY DEF UploadInv, ServerTypes, HandlerType
<1>2. r <= Len(posts) /\ handlers[r].size = SumFunctionOnSet(sizes, 1..n)
  BY DEF UploadInv, CountInv, Copied
<1>3. Parts(r) \in Seq(Entry) /\ n \in Nat /\ handlers[r].size \in Nat
  BY <1>1, <1>2, PartsType DEF HandlerType
<1>4. n + 1 \in DOMAIN Parts(r) /\ part = Parts(r)[n + 1] /\ part \in Entry
  BY <1>3 DEF NextPart, Parts
<1>5. Size[part.file] \in Nat /\ part.name \in Seq(Bytes) /\ sizes[n + 1] = Size[part.file]
  BY <1>4, SizeAssumption DEF Entry, Sizes
<1>6. /\ h.file_list = Append(handlers[r].file_list, part.name)
      /\ h.size = handlers[r].size + Size[part.file] /\ h.pc = pc
      /\ h = [pc |-> h.pc, file_list |-> h.file_list, size |-> h.size]
  <2> DEFINE l == Append(handlers[r].file_list, part.name)
             k == handlers[r].size + Size[part.file]
  <2>1. h = [[[handlers[r] EXCEPT !.file_list = l] EXCEPT !.size = k] EXCEPT !.pc = pc]
    BY <1>1 DEF ListPart, HandlerType
  <2> HIDE DEF l, k, h
  <2>2. h = [pc |-> pc, file_list |-> l, size |-> k]
    BY <1>1, <2>1 DEF HandlerType
  <2> QED  BY <2>2 DEF l, k
<1> HIDE DEF h
<1>7. h.file_list \in Seq(Seq(Bytes)) /\ Len(h.file_list) = n + 1
  BY <1>1, <1>5, <1>6 DEF HandlerType
<1>8. h \in HandlerType
  <2>1. h.size \in Nat
    BY <1>3, <1>5, <1>6
  <2> QED  BY <1>6, <1>7, <2>1 DEF HandlerType
<1>9. h.size = SumFunctionOnSet(sizes, 1..(n + 1))
  <2>0. n \in Nat
    BY <1>3
  <2>1. 1..(n + 1) = (1..n) \cup {n + 1} /\ n + 1 \notin 1..n /\ IsFiniteSet(1..n)
    <3> HIDE DEF n
    <3>1. 1..(n + 1) = (1..n) \cup {n + 1} /\ n + 1 \notin 1..n
      BY <2>0
    <3>2. 1 \in Int /\ n \in Int
      BY <2>0
    <3>3. IsFiniteSet(1..n)
      BY <3>2, FS_Interval
    <3> QED  BY <3>1, <3>3
  <2>2. \A i \in (1..n) \cup {n + 1} : sizes[i] \in Int
    BY <1>3, <1>4, SizesType
  <2> HIDE DEF n, sizes
  <2>3. SumFunctionOnSet(sizes, (1..n) \cup {n + 1}) = sizes[n + 1] + SumFunctionOnSet(sizes, 1..n)
    BY <2>1, <2>2, SumIn
  <2>4. h.size = handlers[r].size + sizes[n + 1] /\ sizes[n + 1] \in Nat
    BY <1>5, <1>6
  <2>5. handlers[r].size = SumFunctionOnSet(sizes, 1..n) /\ handlers[r].size \in Nat
    BY <1>2, <1>3 DEF n, sizes
  <2>6. SumFunctionOnSet(sizes, 1..(n + 1)) = sizes[n + 1] + SumFunctionOnSet(sizes, 1..n)
    BY <2>1, <2>3
  <2> QED  BY <2>4, <2>5, <2>6
<1>10. Counted(r, h)
  BY <1>2, <1>3, <1>6, <1>7, <1>9 DEF Counted
<1> QED  BY <1>4, <1>6, <1>7, <1>8, <1>10 DEF h
LEMMA OpenPartKeeps ==
  ASSUME ServerTypes, NEW r \in Requests, NEW part \in Entry, OpenPart(r, part)
  PROVE  /\ DOMAIN disk' = Requests
         /\ disk'[r] = Create(disk[r], Place(part.name))
         /\ \A q \in Requests : q # r => disk'[q] = disk[q]
         /\ pending' = pending \cup {WriteOf(r, Place(part.name), part.file)}
         /\ \A q \in Requests : /\ DOMAIN disk'[q] \subseteq Seq(Bytes)
                                /\ \A p \in DOMAIN disk'[q] : disk'[q][p] \in Content
         /\ pending' \subseteq Write
         /\ \A w \in pending' : w.place \in DOMAIN disk'[w.request]
<1> DEFINE place == Place(part.name)
           write == WriteOf(r, place, part.file)
<1>1. place \in Seq(Bytes) /\ part.file \in Files
  BY PlaceType DEF Entry
<1>2. /\ disk' = [disk EXCEPT ![r] = Create(disk[r], place)]
      /\ pending' = pending \cup {write}
  BY DEF OpenPart, WriteOf
<1>3. /\ DOMAIN disk = Requests /\ pending \subseteq Write
      /\ \A q \in Requests : /\ DOMAIN disk[q] \subseteq Seq(Bytes)
                             /\ \A p \in DOMAIN disk[q] : disk[q][p] \in Content
      /\ \A w \in pending : w.place \in DOMAIN disk[w.request]
  BY DEF ServerTypes
<1>4. write \in Write /\ write.request = r /\ write.place = place
  BY <1>1 DEF Write, WriteOf
<1> HIDE DEF place, write
<1> DEFINE new == Create(disk[r], place)
<1>0. /\ DOMAIN new = DOMAIN disk[r] \cup {place}
      /\ \A p \in DOMAIN new : new[p] = <<>> \/ (p \in DOMAIN disk[r] /\ new[p] = disk[r][p])
  BY DEF Create
<1>5. /\ DOMAIN disk' = Requests /\ disk'[r] = new
      /\ \A q \in Requests : q # r => disk'[q] = disk[q]
  BY <1>2, <1>3
<1> HIDE DEF new
<1>6. \A q \in Requests : /\ DOMAIN disk'[q] \subseteq Seq(Bytes)
                          /\ \A p \in DOMAIN disk'[q] : disk'[q][p] \in Content
  <2>1. \A p \in DOMAIN new : new[p] \in Content
    <3>1. <<>> \in Content
      BY DEF Content
    <3> QED  BY <1>3, <3>1, <1>0
  <2>2. DOMAIN new \subseteq Seq(Bytes)
    BY <1>1, <1>3, <1>0
  <2> QED  BY <1>3, <1>5, <2>1, <2>2
<1>7. \A q \in Requests : DOMAIN disk[q] \subseteq DOMAIN disk'[q]
  BY <1>5, <1>0
<1>8. place \in DOMAIN disk'[r]
  BY <1>5, <1>0
<1>9. \A w \in pending' : w.place \in DOMAIN disk'[w.request]
  <2>1. \A w \in pending : w.request \in Requests
    BY <1>3 DEF Write
  <2> QED  BY <1>2, <1>3, <1>4, <1>7, <1>8, <2>1
<1> QED  BY <1>2, <1>3, <1>4, <1>5, <1>6, <1>9 DEF place, write, new

LEMMA CopyPartKeeps ==
  ASSUME UploadInv, NEW r \in Requests, CopyPart(r)
  PROVE  UploadInv'
<1> DEFINE part == NextPart(r)
           blocked == Blocked(Place(part.name), DOMAIN disk[r])
           pc == IF blocked THEN "failed" ELSE "copying"
           h == [ListPart(handlers[r], part) EXCEPT !.pc = pc]
<1>1. /\ handlers[r].pc = "copying" /\ Len(handlers[r].file_list) < Len(Parts(r))
      /\ UNCHANGED pageVars
  BY DEF CopyPart, Parts
<1>2. handlers[r] \in HandlerType
  BY DEF UploadInv, ServerTypes, HandlerType
<1>3. handlers' = [handlers EXCEPT ![r] = h]
  BY DEF CopyPart
<1>4. IF blocked THEN UNCHANGED <<disk, pending>> ELSE OpenPart(r, part)
  BY DEF CopyPart
<1>5. part \in Entry /\ h \in HandlerType /\ Counted(r, h)
  <2>1. pc \in {"copying", "failed"}
    OBVIOUS
  <2> HIDE DEF pc
  <2> QED  BY <1>1, <2>1, ListPartCounts
<1> HIDE DEF part, blocked, h
<1>6. PageInv' /\ handlers' \in [Requests -> HandlerType] /\ CountInv'
  BY <1>1, <1>3, <1>5, HandlerKeeps
<1>7. CASE blocked
  <2>1. ServerTypes'
    BY <1>4, <1>6, <1>7 DEF UploadInv, ServerTypes, HandlerType
  <2> QED  BY <1>6, <2>1 DEF UploadInv
<1>8. CASE ~blocked
  <2>1. OpenPart(r, part) /\ ServerTypes
    BY <1>4, <1>8 DEF UploadInv
  <2>2. /\ DOMAIN disk' = Requests
        /\ \A q \in Requests : /\ DOMAIN disk'[q] \subseteq Seq(Bytes)
                               /\ \A p \in DOMAIN disk'[q] : disk'[q][p] \in Content
        /\ pending' \subseteq Write
        /\ \A w \in pending' : w.place \in DOMAIN disk'[w.request]
    BY <1>5, <2>1, OpenPartKeeps
  <2>3. ServerTypes'
    BY <1>6, <2>2 DEF ServerTypes, HandlerType
  <2> QED  BY <1>6, <2>3 DEF UploadInv
<1> QED  BY <1>7, <1>8

LEMMA ApplyWriteChanges ==
  ASSUME ServerTypes, NEW w \in pending, ApplyWrite(w)
  PROVE  /\ w.request \in Requests /\ w.file \in Files
         /\ w.place \in DOMAIN disk[w.request] /\ disk[w.request][w.place] \in Content
         /\ DOMAIN disk' = Requests
         /\ \A q \in Requests : DOMAIN disk'[q] = DOMAIN disk[q]
         /\ \A q \in Requests : \A p \in DOMAIN disk[q] :
              disk'[q][p] = IF q = w.request /\ p = w.place
                            THEN Overlay(disk[q][p], w.file) ELSE disk[q][p]
         /\ pending' = pending \ {w}
<1>1. w \in Write
  BY DEF ServerTypes
<1>2. w.request \in Requests /\ w.file \in Files
  BY <1>1 DEF Write
<1>3. /\ DOMAIN disk = Requests /\ w.place \in DOMAIN disk[w.request]
      /\ disk[w.request][w.place] \in Content
  BY <1>2 DEF ServerTypes
<1>4. /\ disk' = [disk EXCEPT ![w.request] =
                   [disk[w.request] EXCEPT ![w.place] = Overlay(disk[w.request][w.place], w.file)]]
      /\ pending' = pending \ {w}
  BY DEF ApplyWrite
<1>5. DOMAIN disk' = Requests
  BY <1>3, <1>4
<1>6. ASSUME NEW q \in Requests
      PROVE  /\ DOMAIN disk'[q] = DOMAIN disk[q]
             /\ \A p \in DOMAIN disk[q] :
                  disk'[q][p] = IF q = w.request /\ p = w.place
                                THEN Overlay(disk[q][p], w.file) ELSE disk[q][p]
  BY <1>2, <1>3, <1>4
<1> QED  BY <1>2, <1>3, <1>4, <1>5, <1>6

LEMMA SamePage ==
  ASSUME UploadInv, UNCHANGED <<pageVars, handlers>>
  PROVE  PageInv' /\ CountInv'
<1>1. UNCHANGED <<dropped_files, do_upload, form, pressed, route, has_token, posts, edits>>
  BY DEF pageVars
<1>2. PageTypeOK'
  BY <1>1 DEF UploadInv, PageInv, PageTypeOK
<1>3. Quote(dropped_files)' = Quote(dropped_files)
  BY <1>1 DEF Quote, Cost, TotalSize, Sizes
<1>4. ReadingInv' /\ PostsInv'
  BY <1>1, <1>3 DEF UploadInv, PageInv, ReadingInv, PostsInv, Parts
<1>5. CountInv'
  <2>1. \A q \in Requests : /\ Parts(q)' = Parts(q) /\ Sizes(Parts(q))' = Sizes(Parts(q))
                            /\ Copied(q)' = Copied(q)
    BY <1>1 DEF Parts, Sizes, Copied
  <2> QED  BY <1>1, <2>1 DEF UploadInv, CountInv
<1> QED  BY <1>2, <1>4, <1>5 DEF PageInv

LEMMA ApplyWriteKeeps ==
  ASSUME UploadInv, NEW w \in pending, ApplyWrite(w)
  PROVE  UploadInv'
<1>1. UNCHANGED <<pageVars, handlers>>
  BY DEF ApplyWrite
<1>2. PageInv' /\ CountInv'
  BY <1>1, SamePage
<1>3. /\ w.file \in Files /\ DOMAIN disk' = Requests
      /\ disk[w.request][w.place] \in Content
      /\ \A q \in Requests : DOMAIN disk'[q] = DOMAIN disk[q]
      /\ \A q \in Requests : \A p \in DOMAIN disk[q] :
           disk'[q][p] = IF q = w.request /\ p = w.place
                         THEN Overlay(disk[q][p], w.file) ELSE disk[q][p]
      /\ pending' = pending \ {w}
  BY ApplyWriteChanges DEF UploadInv
<1>4. Overlay(disk[w.request][w.place], w.file) \in Content
  BY <1>3, OverlayType
<1>5. /\ handlers \in [Requests -> HandlerType] /\ pending \subseteq Write
      /\ \A q \in Requests : /\ DOMAIN disk[q] \subseteq Seq(Bytes)
                             /\ \A p \in DOMAIN disk[q] : disk[q][p] \in Content
      /\ \A v \in pending : v.place \in DOMAIN disk[v.request]
  BY DEF UploadInv, ServerTypes, HandlerType
<1>6. \A q \in Requests : \A p \in DOMAIN disk'[q] : disk'[q][p] \in Content
  BY <1>3, <1>4, <1>5
<1>7. \A v \in pending' : v.place \in DOMAIN disk'[v.request]
  <2>1. \A v \in pending : v.request \in Requests
    BY <1>5 DEF Write
  <2> QED  BY <1>3, <1>5, <2>1
<1>8. ServerTypes'
  <2>1. handlers' = handlers /\ pending' \subseteq Write
    BY <1>1, <1>3, <1>5
  <2>2. \A q \in Requests : DOMAIN disk'[q] \subseteq Seq(Bytes)
    BY <1>3, <1>5
  <2> QED  BY <1>3, <1>5, <1>6, <1>7, <2>1, <2>2 DEF ServerTypes, HandlerType
<1> QED  BY <1>2, <1>8 DEF UploadInv

-----------------------------------------------------------------------------
(* The specification.                                                      *)

LEMMA UploadInit == Init => UploadInv
<1> SUFFICES ASSUME Init PROVE UploadInv
  OBVIOUS
<1>1. PageTypeOK
  BY BoundsAssumption DEF Init, PageInit, PageTypeOK
<1>2. ReadingInv /\ PostsInv /\ posts = <<>>
  BY DEF Init, PageInit, ReadingInv, PostsInv
<1>3. /\ handlers = [r \in Requests |-> [pc |-> "new", file_list |-> <<>>, size |-> 0]]
      /\ disk = [r \in Requests |-> [p \in {} |-> <<>>]] /\ pending = {}
  BY DEF Init
<1>4. ServerTypes
  BY <1>3 DEF ServerTypes
<1>5. CountInv
  BY <1>3 DEF CountInv
<1> QED  BY <1>1, <1>2, <1>4, <1>5 DEF UploadInv, PageInv

LEMMA UploadStep == UploadInv /\ [Next]_vars => UploadInv'
<1> SUFFICES ASSUME UploadInv, [Next]_vars PROVE UploadInv'
  OBVIOUS
<1>1. CASE PageStep /\ UNCHANGED <<handlers, disk, pending>>
  BY <1>1, PageStepKeeps
<1>2. ASSUME NEW r \in Requests, Allocate(r) \/ Abandon(r) \/ CopyPart(r) \/ Submit(r)
      PROVE  UploadInv'
  BY <1>2, AllocateKeeps, AbandonKeeps, CopyPartKeeps, SubmitKeeps
<1>3. ASSUME NEW w \in pending, ApplyWrite(w) PROVE UploadInv'
  BY <1>3, ApplyWriteKeeps
<1>4. CASE UNCHANGED vars
  <2>1. UNCHANGED <<pageVars, handlers>> /\ UNCHANGED <<disk, pending>>
    BY <1>4 DEF vars
  <2>2. PageInv' /\ CountInv'
    BY <2>1, SamePage
  <2>3. ServerTypes'
    BY <2>1 DEF UploadInv, ServerTypes
  <2> QED  BY <2>2, <2>3 DEF UploadInv
<1> QED  BY <1>1, <1>2, <1>3, <1>4 DEF Next, ServerStep

LEMMA UploadInvariant == Spec => []UploadInv
BY UploadInit, UploadStep, PTL DEF Spec

\* Variables have their types, and every write that was handed over has an
\* opened file to go to.
THEOREM UploadTypes == Spec => []TypeOK
<1>1. UploadInv => TypeOK
  BY DEF UploadInv, PageInv, ServerTypes, TypeOK
<1> QED  BY <1>1, UploadInvariant, PTL

\* An order costs what the page showed when the button was pressed, and no
\* more than the balance it showed, for any files, names and prices: the
\* server's sum over the parts that arrive is the page's sum over its list.
THEOREM QuoteIsAlwaysCharged == Spec => []QuoteIsCharged
<1>1. UploadInv => QuoteIsCharged
  <2> SUFFICES ASSUME UploadInv, NEW r \in Requests, handlers[r].pc = "done"
               PROVE  /\ Cost(handlers[r].size, Len(handlers[r].file_list)) = posts[r].quote
                      /\ posts[r].quote <= BalanceShown
    BY DEF QuoteIsCharged
  <2>1. /\ r <= Len(posts) /\ Len(handlers[r].file_list) = Len(Parts(r))
        /\ handlers[r].size = SumFunctionOnSet(Sizes(Parts(r)), Copied(r))
    BY DEF UploadInv, CountInv
  <2>2. /\ Parts(r) \in Seq(Entry) /\ posts[r].quote = Quote(Parts(r))
        /\ posts[r].quote <= BalanceShown
    BY <2>1, PartsType
  <2>3. Copied(r) = DOMAIN Parts(r)
    BY <2>1, <2>2 DEF Copied
  <2> QED  BY <2>1, <2>2, <2>3 DEF Quote, TotalSize
<1> QED  BY <1>1, UploadInvariant, PTL
-----------------------------------------------------------------------------
(* What is on the disk.                                                    *)

LEMMA OthersPlaces ==
  ASSUME NEW q \in Requests, PlacesInv(q), Parts(q)' = Parts(q), Copied(q)' = Copied(q),
         disk'[q] = disk[q],
         \A w \in pending' : w.request = q => w \in pending,
         \A w \in pending : w.request = q => w \in pending'
  PROVE  PlacesInv(q)'
<1>1. \A p : FilesAt(q, p)' = FilesAt(q, p)
  BY DEF FilesAt
<1>2. \A p, f : WriteOf(q, p, f) \in pending => WriteOf(q, p, f) \in pending'
  BY DEF WriteOf
<1>3. DOMAIN disk'[q] = {Place(Parts(q)'[i].name) : i \in Copied(q)'}
  BY DEF PlacesInv
<1>4. \A w \in pending' : w.request = q => w.file \in FilesAt(q, w.place)'
  BY <1>1 DEF PlacesInv
<1>5. \A p \in DOMAIN disk'[q] : Range(disk'[q][p]) \subseteq FilesAt(q, p)'
  BY <1>1 DEF PlacesInv
<1>6. \A p \in DOMAIN disk'[q], f \in Files : FilesAt(q, p)' = {f} =>
        \/ disk'[q][p] = Whole(f)
        \/ disk'[q][p] = <<>> /\ WriteOf(q, p, f) \in pending'
  BY <1>1, <1>2 DEF PlacesInv
<1> QED  BY <1>3, <1>4, <1>5, <1>6 DEF PlacesInv, Whole, WriteOf

LEMMA FilesAtGrows ==
  ASSUME NEW r \in Requests, Parts(r)' = Parts(r), NEW n \in Nat,
         Copied(r) = 1..n, Copied(r)' = 1..(n + 1)
  PROVE  \A p : FilesAt(r, p)' = IF p = Place(Parts(r)[n + 1].name)
                                 THEN FilesAt(r, p) \cup {Parts(r)[n + 1].file}
                                 ELSE FilesAt(r, p)
<1>1. Copied(r)' = Copied(r) \cup {n + 1}
  OBVIOUS
<1> QED  BY <1>1 DEF FilesAt

LEMMA OpenPartPlaces ==
  ASSUME UploadInv, NEW r \in Requests, PlacesInv(r), NEW n \in Nat,
         Parts(r)' = Parts(r), Copied(r) = 1..n, Copied(r)' = 1..(n + 1),
         Parts(r)[n + 1] \in Entry, OpenPart(r, Parts(r)[n + 1])
  PROVE  PlacesInv(r)'
<1> DEFINE part == Parts(r)[n + 1]
           place == Place(part.name)
           old == disk[r]
           new == disk'[r]
<1>1. /\ new = Create(old, place)
      /\ pending' = pending \cup {WriteOf(r, place, part.file)}
  BY OpenPartKeeps DEF UploadInv
<1>2. /\ DOMAIN new = DOMAIN old \cup {place}
      /\ \A p \in DOMAIN old : new[p] = old[p]
      /\ place \notin DOMAIN old => new[place] = <<>>
  BY <1>1 DEF Create
<1>3. \A p : FilesAt(r, p)' = IF p = place THEN FilesAt(r, p) \cup {part.file}
                              ELSE FilesAt(r, p)
  BY FilesAtGrows
<1>4. /\ DOMAIN old = {Place(Parts(r)[i].name) : i \in 1..n}
      /\ \A w \in pending : w.request = r => w.file \in FilesAt(r, w.place)
      /\ \A p \in DOMAIN old : Range(old[p]) \subseteq FilesAt(r, p)
      /\ \A p \in DOMAIN old, f \in Files : FilesAt(r, p) = {f} =>
           \/ old[p] = Whole(f)
           \/ old[p] = <<>> /\ WriteOf(r, p, f) \in pending
  BY DEF PlacesInv
<1>5. \A p \in DOMAIN old : FilesAt(r, p) # {}
  BY <1>4 DEF FilesAt
<1>6. DOMAIN new = {Place(Parts(r)[i].name) : i \in 1..(n + 1)}
  <2>1. 1..(n + 1) = (1..n) \cup {n + 1}
    OBVIOUS
  <2> HIDE DEF old, new
  <2> QED  BY <1>2, <1>4, <2>1
<1> HIDE DEF part, place, old, new
<1>7. \A w \in pending' : w.request = r => w.file \in FilesAt(r, w.place)'
  <2>1. \A w \in pending : w.request = r => w.file \in FilesAt(r, w.place)'
    BY <1>3, <1>4
  <2>2. /\ WriteOf(r, place, part.file).place = place
        /\ WriteOf(r, place, part.file).file = part.file
    BY DEF WriteOf
  <2>3. \A p : p = place => part.file \in FilesAt(r, p)'
    BY <1>3
  <2>4. ASSUME NEW w \in pending', w = WriteOf(r, place, part.file)
        PROVE  w.file \in FilesAt(r, w.place)'
    BY <2>2, <2>3, <2>4
  <2> QED  BY <1>1, <2>1, <2>4
<1>8. \A p \in DOMAIN new : Range(new[p]) \subseteq FilesAt(r, p)'
  <2>1. Range(<<>>) = {}
    BY DEF Range
  <2>2. \A p \in DOMAIN old : Range(new[p]) \subseteq FilesAt(r, p)'
    BY <1>2, <1>3, <1>4
  <2> QED  BY <1>2, <2>1, <2>2
<1>9. ASSUME NEW p \in DOMAIN new, NEW f \in Files, FilesAt(r, p)' = {f}
      PROVE  \/ new[p] = Whole(f)
             \/ new[p] = <<>> /\ WriteOf(r, p, f) \in pending'
  <2>1. CASE p \in DOMAIN old
    <3>1. FilesAt(r, p) = {f}
      BY <1>3, <1>5, <1>9, <2>1
    <3> QED  BY <1>1, <1>2, <1>4, <2>1, <3>1
  <2>2. CASE p \notin DOMAIN old
    <3>1. p = place /\ new[p] = <<>>
      BY <1>2, <2>2
    <3>2. part.file \in FilesAt(r, p)'
      BY <1>3, <3>1
    <3>3. f = part.file
      BY <1>9, <3>2
    <3> QED  BY <1>1, <3>1, <3>3
  <2> QED  BY <2>1, <2>2
<1>10. Parts(r)' = Parts(r) /\ Copied(r)' = 1..(n + 1)
  OBVIOUS
<1> QED  BY <1>6, <1>7, <1>8, <1>9, <1>10 DEF PlacesInv, Whole, WriteOf, new

LEMMA WrittenPlaces ==
  ASSUME UploadInv, NEW w \in pending, ApplyWrite(w), PlacesInv(w.request),
         Parts(w.request)' = Parts(w.request), Copied(w.request)' = Copied(w.request)
  PROVE  PlacesInv(w.request)'
<1> DEFINE r == w.request
           place == w.place
           old == disk[r]
           new == disk'[r]
<1>1. /\ r \in Requests /\ w.file \in Files /\ place \in DOMAIN old /\ old[place] \in Content
      /\ DOMAIN new = DOMAIN old
      /\ \A p \in DOMAIN old :
           new[p] = IF p = place THEN Overlay(old[p], w.file) ELSE old[p]
      /\ pending' = pending \ {w}
  BY ApplyWriteChanges DEF UploadInv
<1>2. /\ DOMAIN old = {Place(Parts(r)[i].name) : i \in Copied(r)}
      /\ \A v \in pending : v.request = r => v.file \in FilesAt(r, v.place)
      /\ \A p \in DOMAIN old : Range(old[p]) \subseteq FilesAt(r, p)
      /\ \A p \in DOMAIN old, f \in Files : FilesAt(r, p) = {f} =>
           \/ old[p] = Whole(f)
           \/ old[p] = <<>> /\ WriteOf(r, p, f) \in pending
  BY DEF PlacesInv
<1>3. \A p : FilesAt(r, p)' = FilesAt(r, p)
  BY DEF FilesAt
<1>4. /\ Range(Overlay(old[place], w.file)) \subseteq Range(old[place]) \cup {w.file}
      /\ Len(old[place]) <= Size[w.file] => Overlay(old[place], w.file) = Whole(w.file)
  BY <1>1, OverlayType
<1>5. w.file \in FilesAt(r, place)
  BY <1>2
<1> HIDE DEF place, old, new
<1>6. DOMAIN new = {Place(Parts(r)'[i].name) : i \in Copied(r)'}
  BY <1>1, <1>2
<1>7. \A v \in pending' : v.request = r => v.file \in FilesAt(r, v.place)'
  BY <1>1, <1>2, <1>3
<1>8. \A p \in DOMAIN new : Range(new[p]) \subseteq FilesAt(r, p)'
  BY <1>1, <1>2, <1>3, <1>4, <1>5
<1>9. ASSUME NEW p \in DOMAIN new, NEW f \in Files, FilesAt(r, p)' = {f}
      PROVE  \/ new[p] = Whole(f)
             \/ new[p] = <<>> /\ WriteOf(r, p, f) \in pending'
  <2>1. p \in DOMAIN old /\ FilesAt(r, p) = {f}
    BY <1>1, <1>3, <1>9
  <2>2. old[p] = Whole(f) \/ (old[p] = <<>> /\ WriteOf(r, p, f) \in pending)
    BY <1>2, <2>1
  <2>3. CASE p = place
    <3>1. w.file = f
      BY <1>5, <2>1, <2>3
    <3>2. Size[f] \in Nat
      BY SizeAssumption
    <3>3. Len(Whole(f)) = Size[f] /\ Len(<<>>) = 0
      BY <3>2 DEF Whole
    <3>4. Len(old[p]) <= Size[f]
      BY <2>2, <3>2, <3>3
    <3> QED  BY <1>1, <1>4, <2>1, <2>3, <3>1, <3>4
  <2>4. CASE p # place
    <3>1. new[p] = old[p]
      BY <1>1, <2>1, <2>4
    <3>2. WriteOf(r, p, f) # w
      BY <2>4 DEF WriteOf, place
    <3> QED  BY <1>1, <2>2, <3>1, <3>2
  <2> QED  BY <2>3, <2>4
<1> QED  BY <1>6, <1>7, <1>8, <1>9 DEF PlacesInv, Whole, WriteOf, new
LEMMA SameParts ==
  ASSUME UNCHANGED pageVars
  PROVE  \A q : Parts(q)' = Parts(q)
BY DEF pageVars, Parts

LEMMA PartsKept ==
  ASSUME UploadInv, PageStep, NEW r \in Requests, handlers[r].pc # "new"
  PROVE  Parts(r)' = Parts(r)
<1>1. PostsGrow
  BY PageKeeps DEF UploadInv
<1>2. r <= Len(posts) /\ Len(posts) \in Nat /\ r \in Nat /\ r >= 1
  BY BoundsAssumption DEF Requests, UploadInv, PageInv, PageTypeOK, CountInv
<1> QED  BY <1>1, <1>2 DEF PostsGrow, Parts

Untouched(q) ==
  /\ Parts(q)' = Parts(q) /\ handlers'[q] = handlers[q] /\ disk'[q] = disk[q]
  /\ \A w \in pending' : w.request = q => w \in pending
  /\ \A w \in pending : w.request = q => w \in pending'

DiskOk(q) ==
  /\ handlers[q].pc = "new" => DOMAIN disk[q] = {} /\ \A w \in pending : w.request # q
  /\ handlers[q].pc \in {"copying", "done"} => PlacesInv(q)

LEMMA UntouchedOk ==
  ASSUME NEW q \in Requests, DiskOk(q), Untouched(q)
  PROVE  DiskOk(q)'
<1>1. Copied(q)' = Copied(q)
  BY DEF Copied, Untouched
<1>2. PlacesInv(q) => PlacesInv(q)'
  BY <1>1, OthersPlaces DEF Untouched
<1> QED  BY <1>2 DEF DiskOk, Untouched

LEMMA AllocateDisk ==
  ASSUME UploadInv, NEW r \in Requests, DiskOk(r), Allocate(r)
  PROVE  DiskOk(r)' /\ \A q \in Requests : q # r => Untouched(q)
<1>1. /\ handlers[r].pc = "new" /\ handlers' = [handlers EXCEPT ![r].pc = "copying"]
      /\ UNCHANGED <<pageVars, disk, pending>>
  BY DEF Allocate
<1>2. handlers \in [Requests -> HandlerType]
  BY DEF UploadInv, ServerTypes, HandlerType
<1>3. handlers[r].file_list = <<>> /\ DOMAIN disk[r] = {} /\ \A w \in pending : w.request # r
  BY <1>1 DEF UploadInv, CountInv, DiskOk
<1>4. /\ handlers'[r].pc = "copying" /\ handlers'[r].file_list = handlers[r].file_list
      /\ \A q \in Requests : q # r => handlers'[q] = handlers[q]
  BY <1>1, <1>2 DEF HandlerType
<1>5. Copied(r)' = {}
  BY <1>3, <1>4 DEF Copied
<1>6. PlacesInv(r)'
  BY <1>1, <1>3, <1>5 DEF PlacesInv
<1>7. \A q : Parts(q)' = Parts(q)
  BY <1>1, SameParts
<1> QED  BY <1>1, <1>4, <1>6, <1>7 DEF DiskOk, Untouched

LEMMA AbandonDisk ==
  ASSUME UploadInv, NEW r \in Requests, DiskOk(r), Abandon(r)
  PROVE  DiskOk(r)' /\ \A q \in Requests : q # r => Untouched(q)
<1>1. /\ handlers' = [handlers EXCEPT ![r].pc = "failed"]
      /\ UNCHANGED <<pageVars, disk, pending>>
  BY DEF Abandon
<1>2. handlers \in [Requests -> HandlerType]
  BY DEF UploadInv, ServerTypes, HandlerType
<1>3. handlers'[r].pc = "failed" /\ \A q \in Requests : q # r => handlers'[q] = handlers[q]
  BY <1>1, <1>2 DEF HandlerType
<1>4. \A q : Parts(q)' = Parts(q)
  BY <1>1, SameParts
<1> QED  BY <1>1, <1>3, <1>4 DEF DiskOk, Untouched

LEMMA SubmitDisk ==
  ASSUME UploadInv, NEW r \in Requests, DiskOk(r), Submit(r)
  PROVE  DiskOk(r)' /\ \A q \in Requests : q # r => Untouched(q)
<1>1. /\ handlers[r].pc = "copying" /\ handlers' = [handlers EXCEPT ![r].pc = "done"]
      /\ UNCHANGED <<pageVars, disk, pending>>
  BY DEF Submit
<1>2. handlers \in [Requests -> HandlerType]
  BY DEF UploadInv, ServerTypes, HandlerType
<1>3. /\ handlers'[r].pc = "done" /\ handlers'[r].file_list = handlers[r].file_list
      /\ \A q \in Requests : q # r => handlers'[q] = handlers[q]
  BY <1>1, <1>2 DEF HandlerType
<1>4. \A q : Parts(q)' = Parts(q)
  BY <1>1, SameParts
<1>5. Copied(r)' = Copied(r)
  BY <1>3 DEF Copied
<1>6. PlacesInv(r)
  BY <1>1 DEF DiskOk
<1>7. PlacesInv(r)'
  BY <1>1, <1>4, <1>5, <1>6, OthersPlaces
<1> QED  BY <1>1, <1>3, <1>4, <1>7 DEF DiskOk, Untouched

LEMMA CopyPartDisk ==
  ASSUME UploadInv, NEW r \in Requests, DiskOk(r), CopyPart(r)
  PROVE  DiskOk(r)' /\ \A q \in Requests : q # r => Untouched(q)
<1> DEFINE part == NextPart(r)
           blocked == Blocked(Place(part.name), DOMAIN disk[r])
           pc == IF blocked THEN "failed" ELSE "copying"
           h == [ListPart(handlers[r], part) EXCEPT !.pc = pc]
           n == Len(handlers[r].file_list)
<1>1. /\ handlers[r].pc = "copying" /\ n < Len(Parts(r)) /\ UNCHANGED pageVars
      /\ handlers' = [handlers EXCEPT ![r] = h]
      /\ IF blocked THEN UNCHANGED <<disk, pending>> ELSE OpenPart(r, part)
  BY DEF CopyPart, Parts
<1>2. handlers \in [Requests -> HandlerType] /\ n \in Nat
  BY DEF UploadInv, ServerTypes, HandlerType
<1>3. part \in Entry /\ h.pc = pc /\ Len(h.file_list) = n + 1
  <2>1. pc \in {"copying", "failed"}
    OBVIOUS
  <2> HIDE DEF pc
  <2> QED  BY <1>1, <2>1, ListPartCounts
<1>4. part = Parts(r)[n + 1]
  BY DEF NextPart, Parts
<1> HIDE DEF part, blocked, h
<1>5. handlers'[r] = h /\ \A q \in Requests : q # r => handlers'[q] = handlers[q]
  BY <1>1, <1>2
<1>6. \A q : Parts(q)' = Parts(q)
  BY <1>1, SameParts
<1>7. Copied(r) = 1..n /\ Copied(r)' = 1..(n + 1)
  BY <1>3, <1>5 DEF Copied
<1> HIDE DEF n
<1>8. CASE blocked
  BY <1>1, <1>3, <1>5, <1>6, <1>8 DEF DiskOk, Untouched
<1>9. CASE ~blocked
  <2>1. OpenPart(r, Parts(r)[n + 1]) /\ Parts(r)[n + 1] \in Entry /\ PlacesInv(r)
    BY <1>1, <1>3, <1>4, <1>9 DEF DiskOk
  <2>2. PlacesInv(r)'
    BY <1>2, <1>6, <1>7, <2>1, OpenPartPlaces
  <2>3. handlers'[r].pc = "copying"
    BY <1>3, <1>5, <1>9
  <2>4. /\ \A q \in Requests : q # r => disk'[q] = disk[q]
        /\ \E p, f : pending' = pending \cup {WriteOf(r, p, f)}
    BY <2>1, OpenPartKeeps DEF UploadInv
  <2>5. \A q \in Requests : q # r => Untouched(q)
    BY <1>5, <1>6, <2>4 DEF Untouched, WriteOf
  <2> QED  BY <2>2, <2>3, <2>5 DEF DiskOk
<1> QED  BY <1>8, <1>9

LEMMA ApplyWriteDisk ==
  ASSUME UploadInv, DiskInv, NEW w \in pending, ApplyWrite(w)
  PROVE  \A q \in Requests : DiskOk(q)'
<1>1. \A q \in Requests : DiskOk(q)
  BY DEF DiskInv, DiskOk
<1>2. /\ w.request \in Requests /\ pending' = pending \ {w} /\ UNCHANGED <<pageVars, handlers>>
      /\ disk' = [disk EXCEPT ![w.request][w.place] = Overlay(@, w.file)]
      /\ DOMAIN disk = Requests
  <2>1. ServerTypes
    BY DEF UploadInv
  <2> QED  BY <2>1, ApplyWriteChanges DEF ApplyWrite, ServerTypes
<1>3. \A q : Parts(q)' = Parts(q) /\ Copied(q)' = Copied(q)
  BY <1>2, SameParts DEF Copied
<1>4. ASSUME NEW q \in Requests, q # w.request PROVE DiskOk(q)'
  <2>1. Untouched(q)
    BY <1>2, <1>3, <1>4 DEF Untouched
  <2> QED  BY <1>1, <2>1, UntouchedOk
<1>5. DiskOk(w.request)'
  <2>1. handlers[w.request].pc # "new"
    BY <1>1, <1>2 DEF DiskOk
  <2>2. PlacesInv(w.request) => PlacesInv(w.request)'
    BY <1>3, WrittenPlaces
  <2> QED  BY <1>1, <1>2, <2>1, <2>2 DEF DiskOk
<1> QED  BY <1>4, <1>5

LEMMA DiskInit == Init => DiskInv
<1> SUFFICES ASSUME Init PROVE DiskInv
  OBVIOUS
<1>1. /\ handlers = [r \in Requests |-> [pc |-> "new", file_list |-> <<>>, size |-> 0]]
      /\ disk = [r \in Requests |-> [p \in {} |-> <<>>]] /\ pending = {}
  BY DEF Init
<1> QED  BY <1>1 DEF DiskInv

LEMMA DiskStep == UploadInv /\ DiskInv /\ [Next]_vars => DiskInv'
<1> SUFFICES ASSUME UploadInv, DiskInv, [Next]_vars PROVE \A q \in Requests : DiskOk(q)'
  BY DEF DiskInv, DiskOk
<1>1. \A q \in Requests : DiskOk(q)
  BY DEF DiskInv, DiskOk
<1>2. ASSUME PageStep, UNCHANGED <<handlers, disk, pending>>, NEW q \in Requests
      PROVE  DiskOk(q)'
  <2>1. CASE handlers[q].pc = "new"
    BY <1>1, <1>2, <2>1 DEF DiskOk
  <2>2. CASE handlers[q].pc # "new"
    <3>1. Untouched(q)
      BY <1>2, <2>2, PartsKept DEF Untouched
    <3> QED  BY <1>1, <3>1, UntouchedOk
  <2> QED  BY <2>1, <2>2
<1>3. ASSUME NEW r \in Requests, Allocate(r) \/ Abandon(r) \/ CopyPart(r) \/ Submit(r)
      PROVE  \A q \in Requests : DiskOk(q)'
  <2>1. DiskOk(r)' /\ \A q \in Requests : q # r => Untouched(q)
    BY <1>1, <1>3, AllocateDisk, AbandonDisk, CopyPartDisk, SubmitDisk
  <2> QED  BY <1>1, <2>1, UntouchedOk
<1>4. ASSUME NEW w \in pending, ApplyWrite(w) PROVE \A q \in Requests : DiskOk(q)'
  BY <1>4, ApplyWriteDisk
<1>5. CASE UNCHANGED vars
  <2>1. UNCHANGED <<pageVars, handlers, disk, pending>>
    BY <1>5 DEF vars
  <2>2. \A q \in Requests : Untouched(q)
    BY <2>1, SameParts DEF Untouched
  <2> QED  BY <1>1, <2>2, UntouchedOk
<1> QED  BY <1>2, <1>3, <1>4, <1>5 DEF Next, ServerStep

\* When a request is answered and its writes are applied, the order has the
\* files of the list that the button was pressed for, and no others: at each
\* place only what the parts of that name brought, and the whole file where
\* they brought one.  The writes are applied in any order, and the list may
\* be edited meanwhile.
THEOREM FilesAreAlwaysTheParts == Spec => []FilesAreTheParts
<1>1. UploadInv /\ DiskInv => FilesAreTheParts
  <2> SUFFICES ASSUME UploadInv, DiskInv, NEW r \in Requests, Final(r)
               PROVE  LET seen == posts[r].entries
                          at(p) == {seen[i].file : i \in {j \in DOMAIN seen : Place(seen[j].name) = p}}
                      IN /\ DOMAIN disk[r] = {Place(seen[i].name) : i \in DOMAIN seen}
                         /\ \A p \in DOMAIN disk[r] :
                              /\ Range(disk[r][p]) \subseteq at(p)
                              /\ \A f \in at(p) :
                                   at(p) = {f} => disk[r][p] = [k \in 1..Size[f] |-> f]
    BY DEF FilesAreTheParts
  <2> DEFINE seen == posts[r].entries
             at(p) == {seen[i].file : i \in {j \in DOMAIN seen : Place(seen[j].name) = p}}
  <2>1. /\ handlers[r].pc = "done" /\ r <= Len(posts)
        /\ Len(handlers[r].file_list) = Len(Parts(r)) /\ \A w \in pending : w.request # r
    BY DEF Final, UploadInv, CountInv
  <2>2. seen \in Seq(Entry) /\ Parts(r) = seen
    BY <2>1, PartsType
  <2>3. Copied(r) = DOMAIN seen
    BY <2>1, <2>2 DEF Copied
  <2>4. PlacesInv(r)
    BY <2>1 DEF DiskInv
  <2>5. \A p : FilesAt(r, p) = at(p)
    BY <2>2, <2>3 DEF FilesAt
  <2>6. DOMAIN disk[r] = {Place(seen[i].name) : i \in DOMAIN seen}
    BY <2>2, <2>3, <2>4 DEF PlacesInv
  <2>7. \A p : at(p) \subseteq Files
    <3>1. \A i \in DOMAIN seen : seen[i] \in Entry
      <4> HIDE DEF seen
      <4> QED  BY <2>2
    <3>2. \A i \in DOMAIN seen : seen[i].file \in Files
      <4> HIDE DEF seen
      <4> QED  BY <3>1 DEF Entry
    <3> QED  BY <3>2
  <2> HIDE DEF seen, at
  <2>8. \A p \in DOMAIN disk[r] : Range(disk[r][p]) \subseteq at(p)
    BY <2>4, <2>5 DEF PlacesInv
  <2>9. ASSUME NEW p \in DOMAIN disk[r], NEW f \in at(p), at(p) = {f}
        PROVE  disk[r][p] = Whole(f)
    <3>1. f \in Files /\ FilesAt(r, p) = {f}
      BY <2>5, <2>7, <2>9
    <3>2. disk[r][p] = Whole(f) \/ WriteOf(r, p, f) \in pending
      BY <2>4, <3>1 DEF PlacesInv
    <3>3. WriteOf(r, p, f).request = r
      BY DEF WriteOf
    <3> QED  BY <2>1, <3>2, <3>3
  <2> QED  BY <2>6, <2>8, <2>9 DEF seen, at, Whole
<1> QED  BY <1>1, UploadInit, UploadStep, DiskInit, DiskStep, PTL DEF Spec
-----------------------------------------------------------------------------
(* The names on the page.                                                  *)

ListInv == dropped_files \in Seq(TextEntry)

LEMMA EditedList ==
  ASSUME ListInv, PageStep
  PROVE  ListInv'
<1>1. ASSUME NEW folder \in Folders, PushWithPath(folder)
      PROVE  ListInv'
  <2>1. PushedOnto(dropped_files, Shorten(folder)) \in Seq(TextEntry)
    BY ShortenIs, PushedType DEF ListInv
  <2> QED  BY <1>1, <2>1 DEF PushWithPath, PushedOnto, Edit, ListInv
<1>2. ASSUME NEW i \in DOMAIN dropped_files, Delete(i)
      PROVE  ListInv'
  <2>1. Without(dropped_files, dropped_files[i].name) \in Seq(TextEntry)
    BY WithoutType DEF ListInv
  <2> QED  BY <1>2, <2>1 DEF Delete, Edit, ListInv
<1>3. ASSUME NEW i \in DOMAIN dropped_files, NEW n \in NewNames, Rename(i, n)
      PROVE  ListInv'
  <2>1. n \in Text /\ dropped_files[i] \in TextEntry
    BY NamesAssumption DEF ListInv, Text
  <2>2. [dropped_files[i] EXCEPT !.name = n] \in TextEntry
    BY <2>1 DEF TextEntry
  <2>3. [dropped_files EXCEPT ![i].name = n] \in Seq(TextEntry)
    BY <2>2 DEF ListInv
  <2> QED  BY <1>3, <2>3 DEF Rename, Edit, ListInv
<1>4. ASSUME DeleteAll PROVE ListInv'
  <2>1. <<>> \in Seq(TextEntry)
    OBVIOUS
  <2> QED  BY <1>4, <2>1 DEF DeleteAll, Edit, ListInv
<1> QED
  BY <1>1, <1>2, <1>3, <1>4 DEF PageStep, ListInv, ForgetToken, PerformUpload,
     ReadFile, FailRead, Post, Answered, Refused

LEMMA ListStep == ListInv /\ [Next]_vars => ListInv'
<1> SUFFICES ASSUME ListInv, [Next]_vars PROVE ListInv'
  OBVIOUS
<1>1. CASE PageStep
  BY <1>1, EditedList
<1>2. CASE ServerStep
  <2>1. UNCHANGED pageVars
    BY <1>2 DEF ServerStep, Allocate, Abandon, CopyPart, Submit, ApplyWrite
  <2> QED  BY <2>1 DEF pageVars, ListInv
<1>3. CASE UNCHANGED vars
  BY <1>3 DEF vars, pageVars, ListInv
<1> QED  BY <1>1, <1>2, <1>3 DEF Next

\* For every set of characters and every folder of paths in them: no name on
\* the page begins within a character, so the prefix that push_with_path cuts
\* off ends at one, and each path is listed by what it has after the longest
\* text that all paths share.
THEOREM NamesKeepCharacters == Spec => DropKeepsCharacters
<1>1. ASSUME ListInv, NEW folder \in Folders, PushWithPath(folder)
      PROVE  LET shared == LongestSharedText(Paths(folder))
                 names == {dropped_files'[k].name : k \in DOMAIN dropped_files'}
             IN /\ \A n \in names : IsText(n)
                /\ \A i \in DOMAIN folder : \E n \in names : folder[i].name = shared \o n
  <2> DEFINE q == Shorten(folder)
  <2>1. /\ q \in Seq(TextEntry) /\ DOMAIN q = DOMAIN folder
        /\ \A i \in DOMAIN folder :
             folder[i].name = LongestSharedText(Paths(folder)) \o q[i].name
    BY ShortenIs
  <2>2. dropped_files' = PushedOnto(dropped_files, q)
    BY <1>1 DEF PushWithPath, Edit, PushedOnto
  <2> HIDE DEF q
  <2>3. dropped_files' \in Seq(TextEntry) /\ Names(q) \subseteq Names(dropped_files')
    BY <1>1, <2>1, <2>2, PushedType, PushedNames DEF ListInv
  <2>4. \A n \in Names(dropped_files') : IsText(n)
    <3>1. \A k \in DOMAIN dropped_files' : dropped_files'[k] \in TextEntry
      BY <2>3
    <3>2. \A k \in DOMAIN dropped_files' : dropped_files'[k].name \in Text
      BY <3>1 DEF TextEntry
    <3> QED  BY <3>2 DEF Names, Text
  <2>5. \A i \in DOMAIN folder : q[i].name \in Names(dropped_files')
    BY <2>1, <2>3 DEF Names
  <2> QED  BY <2>1, <2>4, <2>5 DEF Names
<1>2. Init => ListInv
  BY DEF Init, PageInit, ListInv
<1>3. ListInv =>
        [\A folder \in Folders : PushWithPath(folder) =>
           LET shared == LongestSharedText(Paths(folder))
               names == {dropped_files'[k].name : k \in DOMAIN dropped_files'}
           IN /\ \A n \in names : IsText(n)
              /\ \A i \in DOMAIN folder :
                   \E n \in names : folder[i].name = shared \o n]_dropped_files
  BY <1>1
<1> QED  BY <1>2, <1>3, ListStep, PTL DEF Spec, DropKeepsCharacters
=============================================================================
