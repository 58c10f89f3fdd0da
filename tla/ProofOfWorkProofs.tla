------------------------- MODULE ProofOfWorkProofs -------------------------
(***************************************************************************)
(* Proofs about the proof of work, for bytes, postfixes and hashes of any  *)
(* size: that the zero bits counted byte by byte are those of the number,  *)
(* that the increment with its carry adds one, and so that what the agent  *)
(* reports is true.                                                        *)
(***************************************************************************)
EXTENDS ProofOfWork, SumLemmas

-----------------------------------------------------------------------------
(* Powers of two.                                                          *)

\* The equation of Power2 as far as n, and its solution.
PowersTo(n, g) == g = [k \in 0..n |-> IF k = 0 THEN 1 ELSE 2 * g[k - 1]]
PowerTo(n) == CHOOSE g : PowersTo(n, g)

LEMMA PowerToIs == \A n \in Nat : PowersTo(n, PowerTo(n))
<1> DEFINE P == {n \in Nat : \E g : PowersTo(n, g)}
<1>1. 0 \in P
  <2> DEFINE g == [k \in 0..0 |-> 1]
  <2>1. g = [k \in 0..0 |-> IF k = 0 THEN 1 ELSE 2 * g[k - 1]]
    OBVIOUS
  <2> QED  BY <2>1 DEF PowersTo
<1>2. ASSUME NEW n \in Nat, n \in P PROVE n + 1 \in P
  <2>1. PICK g : PowersTo(n, g)
    BY <1>2
  <2> DEFINE h == [k \in 0..(n + 1) |-> IF k = n + 1 THEN 2 * g[n] ELSE g[k]]
  <2>2. \A k \in 0..n : g[k] = IF k = 0 THEN 1 ELSE 2 * g[k - 1]
    BY <2>1 DEF PowersTo
  <2>3. ASSUME NEW k \in 0..(n + 1)
        PROVE  h[k] = IF k = 0 THEN 1 ELSE 2 * h[k - 1]
    <3>1. CASE k = n + 1
      <4>1. k # 0 /\ k - 1 = n /\ n \in 0..(n + 1) /\ n # n + 1
        BY <3>1
      <4> QED  BY <3>1, <4>1
    <3>2. CASE k # n + 1
      <4>1. k \in 0..n /\ (k # 0 => k - 1 \in 0..(n + 1) /\ k - 1 # n + 1)
        BY <3>2
      <4>2. h[k] = g[k] /\ (k # 0 => h[k - 1] = g[k - 1])
        BY <3>2, <4>1
      <4> QED  BY <2>2, <4>1, <4>2
    <3> QED  BY <3>1, <3>2
  <2>4. PowersTo(n + 1, h)
    <3>1. h = [k \in 0..(n + 1) |-> h[k]]
      OBVIOUS
    <3> HIDE DEF h
    <3> QED  BY <2>3, <3>1 DEF PowersTo
  <2> QED  BY <2>4
<1> HIDE DEF P
<1>3. Nat \subseteq P
  BY <1>1, <1>2, InductionOnSets
<1> QED  BY <1>3 DEF P, PowerTo

LEMMA Power2Is == \A k \in Nat : Power2[k] = IF k = 0 THEN 1 ELSE 2 * Power2[k - 1]
<1> DEFINE g(n) == PowerTo(n)
           P == {k \in Nat : \A n \in Nat : k <= n => g(n)[k] = g(k)[k]}
           h == [k \in Nat |-> g(k)[k]]
<1>1. \A n \in Nat : \A k \in 0..n : g(n)[k] = IF k = 0 THEN 1 ELSE 2 * g(n)[k - 1]
  BY PowerToIs DEF PowersTo
<1> HIDE DEF g
<1>2. 0 \in P
  BY <1>1
<1>3. ASSUME NEW k \in Nat, k \in P PROVE k + 1 \in P
  <2>1. ASSUME NEW n \in Nat, k + 1 <= n PROVE g(n)[k + 1] = g(k + 1)[k + 1]
    <3>1. k + 1 \in 0..n /\ k + 1 \in 0..(k + 1) /\ k + 1 \in Nat /\ (k + 1) - 1 = k
          /\ k + 1 # 0 /\ k <= n /\ k <= k + 1
      BY <2>1
    <3>2. g(n)[k + 1] = 2 * g(n)[k] /\ g(k + 1)[k + 1] = 2 * g(k + 1)[k]
      BY <1>1, <3>1
    <3>3. g(n)[k] = g(k)[k] /\ g(k + 1)[k] = g(k)[k]
      BY <1>3, <3>1
    <3> QED  BY <3>2, <3>3
  <2> QED  BY <2>1
<1>4. Nat \subseteq P
  <2> HIDE DEF P
  <2> QED  BY <1>2, <1>3, InductionOnSets
<1>5. ASSUME NEW k \in Nat
      PROVE  h[k] = IF k = 0 THEN 1 ELSE 2 * h[k - 1]
  <2>1. CASE k = 0
    BY <1>1, <2>1
  <2>2. CASE k # 0
    <3>1. k - 1 \in Nat /\ k - 1 <= k /\ k \in 0..k
      BY <2>2
    <3>2. g(k)[k] = 2 * g(k)[k - 1]
      BY <1>1, <2>2, <3>1
    <3>3. g(k)[k - 1] = g(k - 1)[k - 1]
      BY <1>4, <3>1
    <3> QED  BY <2>2, <3>1, <3>2, <3>3
  <2> QED  BY <2>1, <2>2
<1>6. h = [k \in Nat |-> IF k = 0 THEN 1 ELSE 2 * h[k - 1]]
  <2>1. h = [k \in Nat |-> h[k]]
    OBVIOUS
  <2> HIDE DEF h
  <2> QED  BY <1>5, <2>1
<1>7. Power2 = [k \in Nat |-> IF k = 0 THEN 1 ELSE 2 * Power2[k - 1]]
  <2> HIDE DEF h
  <2> QED  BY <1>6 DEF Power2
<1> QED
  <2> DEFINE p == Power2
  <2>1. p = [k \in Nat |-> IF k = 0 THEN 1 ELSE 2 * p[k - 1]]
    BY <1>7
  <2> HIDE DEF p
  <2>2. \A k \in Nat : p[k] = IF k = 0 THEN 1 ELSE 2 * p[k - 1]
    BY <2>1
  <2> QED  BY <2>2 DEF p

LEMMA Power2Step ==
  /\ Power2[0] = 1
  /\ \A k \in Nat : Power2[k + 1] = 2 * Power2[k]
<1>1. Power2[0] = 1
  BY Power2Is
<1>2. ASSUME NEW k \in Nat PROVE Power2[k + 1] = 2 * Power2[k]
  <2>1. k + 1 \in Nat /\ k + 1 # 0 /\ (k + 1) - 1 = k
    OBVIOUS
  <2> QED  BY <2>1, Power2Is
<1> QED  BY <1>1, <1>2

LEMMA Power2Type == \A k \in Nat : Power2[k] \in Nat \ {0}
<1> DEFINE P == {k \in Nat : Power2[k] \in Nat \ {0}}
<1>1. 0 \in P
  BY Power2Step
<1>2. ASSUME NEW k \in Nat, k \in P PROVE k + 1 \in P
  BY <1>2, Power2Step
<1> HIDE DEF P
<1>3. Nat \subseteq P
  BY <1>1, <1>2, InductionOnSets
<1> QED  BY <1>3 DEF P

\* 2^(m + n) is the product of 2^m and 2^n.
LEMMA Power2Sum == \A m, n \in Nat : Power2[m + n] = Power2[m] * Power2[n]
<1> SUFFICES ASSUME NEW m \in Nat
             PROVE  \A n \in Nat : Power2[m + n] = Power2[m] * Power2[n]
  OBVIOUS
<1> DEFINE P == {n \in Nat : Power2[m + n] = Power2[m] * Power2[n]}
<1>1. 0 \in P
  BY Power2Step, Power2Type
<1>2. ASSUME NEW n \in Nat, n \in P PROVE n + 1 \in P
  <2>1. m + n \in Nat /\ m + (n + 1) = (m + n) + 1
    OBVIOUS
  <2>2. Power2[m + (n + 1)] = 2 * Power2[m + n] /\ Power2[n + 1] = 2 * Power2[n]
    BY <2>1, Power2Step
  <2>3. Power2[m] \in Nat /\ Power2[n] \in Nat
    BY Power2Type
  <2>4. 2 * (Power2[m] * Power2[n]) = Power2[m] * (2 * Power2[n])
    BY <2>3
  <2> QED  BY <1>2, <2>2, <2>4
<1> HIDE DEF P
<1>3. Nat \subseteq P
  BY <1>1, <1>2, InductionOnSets
<1> QED  BY <1>3 DEF P

LEMMA Power2Grows == \A m, n \in Nat : m <= n => Power2[m] <= Power2[n]
<1> SUFFICES ASSUME NEW m \in Nat, NEW n \in Nat, m <= n PROVE Power2[m] <= Power2[n]
  OBVIOUS
<1>1. n - m \in Nat /\ m + (n - m) = n
  OBVIOUS
<1>2. Power2[n] = Power2[m] * Power2[n - m]
  BY <1>1, Power2Sum
<1>3. Power2[m] \in Nat /\ Power2[n - m] \in Nat \ {0}
  BY <1>1, Power2Type
<1>4. \A a \in Nat, b \in Nat \ {0} : a <= a * b
  OBVIOUS
<1> QED  BY <1>2, <1>3, <1>4
-----------------------------------------------------------------------------
(* The number that a slice of bytes is.                                    *)

Base == Power2[ByteBits]

LEMMA BytesAre == Base \in Nat \ {0, 1} /\ Byte = 0..(Base - 1) /\ ByteBits \in Nat \ {0}
<1>1. ByteBits \in Nat \ {0} /\ ByteBits - 1 \in Nat /\ (ByteBits - 1) + 1 = ByteBits
  BY SizesAssumption
<1>2. Base = 2 * Power2[ByteBits - 1] /\ Power2[ByteBits - 1] \in Nat \ {0}
  BY <1>1, Power2Step, Power2Type DEF Base
<1> QED  BY <1>1, <1>2 DEF Byte, Unsigned, Base

\* The values of the first i bytes, for each i.
Values(data, n, v) ==
  /\ v[0] = 0
  /\ \A i \in 1..n : v[i] = v[i - 1] * Base + data[i]
  /\ \A i \in 0..n : v[i] \in Nat

LEMMA SliceLen ==
  ASSUME NEW n \in Nat, NEW T, NEW data \in [1..n -> T]
  PROVE  data \in Seq(T) /\ Len(data) = n
OBVIOUS

LEMMA HornerStep ==
  ASSUME NEW a \in Nat, NEW b \in Byte
  PROVE  a * Base + b \in Nat
<1>1. Base \in Nat /\ b \in Nat
  BY BytesAre
<1>2. a * Base \in Nat
  BY <1>1
<1> QED  BY <1>1, <1>2

LEMMA ValuesExist ==
  ASSUME NEW n \in Nat, NEW data \in [1..n -> Byte]
  PROVE  \E v : v = [i \in 0..n |-> IF i = 0 THEN 0 ELSE v[i - 1] * Base + data[i]]
<1> DEFINE Plus(a, i) == a * Base + data[i]
           Solves(m, v) == v = [i \in 0..m |-> IF i = 0 THEN 0 ELSE Plus(v[i - 1], i)]
           P == {m \in Nat : \E v : Solves(m, v)}
<1>1. 0 \in P
  <2> DEFINE v == [i \in 0..0 |-> 0]
  <2>1. Solves(0, v)
    OBVIOUS
  <2> QED  BY <2>1
<1> HIDE DEF Plus
<1>2. ASSUME NEW m \in Nat, m \in P PROVE m + 1 \in P
  <2>1. PICK v : Solves(m, v)
    BY <1>2
  <2> DEFINE w == [i \in 0..(m + 1) |-> IF i = m + 1 THEN Plus(v[m], m + 1) ELSE v[i]]
  <2>2. \A i \in 0..m : v[i] = IF i = 0 THEN 0 ELSE Plus(v[i - 1], i)
    BY <2>1
  <2>3. ASSUME NEW i \in 0..(m + 1)
        PROVE  w[i] = IF i = 0 THEN 0 ELSE Plus(w[i - 1], i)
    <3>1. CASE i = m + 1
      <4>1. i # 0 /\ i - 1 = m /\ m \in 0..(m + 1) /\ m # m + 1
        BY <3>1
      <4> QED  BY <3>1, <4>1
    <3>2. CASE i # m + 1
      <4>1. i \in 0..m /\ (i # 0 => i - 1 \in 0..(m + 1) /\ i - 1 # m + 1)
        BY <3>2
      <4>2. w[i] = v[i] /\ (i # 0 => w[i - 1] = v[i - 1])
        BY <3>2, <4>1
      <4> QED  BY <2>2, <4>1, <4>2
    <3> QED  BY <3>1, <3>2
  <2>4. Solves(m + 1, w)
    <3>1. w = [i \in 0..(m + 1) |-> w[i]]
      OBVIOUS
    <3> HIDE DEF w
    <3> QED  BY <2>3, <3>1
  <2>5. \E x : Solves(m + 1, x)
    <3> HIDE DEF w, Solves
    <3> QED  BY <2>4
  <2> QED  BY <2>5
<1> HIDE DEF P
<1>3. Nat \subseteq P
  BY <1>1, <1>2, InductionOnSets
<1>4. \E v : Solves(n, v)
  BY <1>3 DEF P
<1> QED  BY <1>4 DEF Plus

LEMMA ValueIs ==
  ASSUME NEW n \in Nat, NEW data \in [1..n -> Byte]
  PROVE  \E v : Values(data, n, v) /\ Value(data) = v[n]
<1> DEFINE Solves(v) ==
             v = [i \in 0..n |-> IF i = 0 THEN 0 ELSE v[i - 1] * Base + data[i]]
           v == CHOOSE x : Solves(x)
<1>1. Len(data) = n
  BY SliceLen
<1>2. Value(data) = v[n]
  BY <1>1 DEF Value, Base
<1>3. Solves(v)
  <2>1. \E x : Solves(x)
    BY ValuesExist
  <2> QED  BY <2>1
<1> HIDE DEF v
<1>4. v[0] = 0 /\ \A i \in 1..n : v[i] = v[i - 1] * Base + data[i]
  <2>1. \A i \in 0..n : v[i] = IF i = 0 THEN 0 ELSE v[i - 1] * Base + data[i]
    BY <1>3
  <2>2. 0 \in 0..n /\ \A i \in 1..n : i \in 0..n /\ i # 0
    OBVIOUS
  <2> QED  BY <2>1, <2>2
<1>5. \A i \in 0..n : v[i] \in Nat
  <2> DEFINE P == {m \in Nat : m <= n => v[m] \in Nat}
  <2>1. 0 \in P
    BY <1>4
  <2>2. ASSUME NEW m \in Nat, m \in P PROVE m + 1 \in P
    <3>1. CASE m + 1 <= n
      <4>1. m + 1 \in 1..n /\ (m + 1) - 1 = m /\ m <= n
        BY <3>1
      <4>2. v[m + 1] = v[m] * Base + data[m + 1] /\ v[m] \in Nat /\ data[m + 1] \in Byte
        BY <1>4, <2>2, <4>1
      <4>3. v[m] * Base + data[m + 1] \in Nat
        BY <4>2, HornerStep
      <4> QED  BY <4>2, <4>3
    <3> QED  BY <3>1
  <2> HIDE DEF P
  <2>3. Nat \subseteq P
    BY <2>1, <2>2, InductionOnSets
  <2> QED  BY <2>3 DEF P
<1> QED  BY <1>2, <1>4, <1>5 DEF Values

\* It has as many digits as the slice has bytes.
LEMMA ValuesBounded ==
  ASSUME NEW n \in Nat, NEW data \in [1..n -> Byte], NEW v, Values(data, n, v)
  PROVE  \A i \in 0..n : v[i] < Power2[ByteBits * i]
<1> DEFINE P == {i \in Nat : i <= n => v[i] < Power2[ByteBits * i]}
<1>1. 0 \in P
  <2>1. ByteBits * 0 = 0
    BY BytesAre
  <2> QED  BY <2>1, Power2Step DEF Values
<1>2. ASSUME NEW i \in Nat, i \in P PROVE i + 1 \in P
  <2>1. CASE i + 1 <= n
    <3>1. i + 1 \in 1..n /\ (i + 1) - 1 = i /\ i <= n /\ i \in 0..n
      BY <2>1
    <3>2. v[i + 1] = v[i] * Base + data[i + 1] /\ v[i] \in Nat /\ data[i + 1] \in Byte
      BY <3>1 DEF Values
    <3>3. Power2[ByteBits * (i + 1)] = Power2[ByteBits * i] * Base
          /\ Power2[ByteBits * i] \in Nat
      <4>1. ByteBits * i \in Nat /\ ByteBits * (i + 1) = ByteBits * i + ByteBits
        BY BytesAre
      <4> QED  BY <4>1, BytesAre, Power2Sum, Power2Type DEF Base
    <3>4. \A a, p \in Nat, b \in Byte : a < p => a * Base + b < p * Base
      <4> SUFFICES ASSUME NEW a \in Nat, NEW p \in Nat, NEW b \in Byte, a < p
                   PROVE  a * Base + b < p * Base
        OBVIOUS
      <4>1. Base \in Nat /\ b \in 0..(Base - 1)
        BY BytesAre
      <4>2. p - a - 1 \in Nat
        OBVIOUS
      <4>3. p * Base = (p - a - 1) * Base + a * Base + Base
        BY <4>1
      <4>4. (p - a - 1) * Base \in Nat /\ a * Base \in Nat
        BY <4>1, <4>2
      <4> QED  BY <4>1, <4>3, <4>4
    <3>5. v[i] < Power2[ByteBits * i]
      BY <1>2, <3>1
    <3> QED  BY <3>2, <3>3, <3>4, <3>5
  <2> QED  BY <2>1
<1> HIDE DEF P
<1>3. Nat \subseteq P
  BY <1>1, <1>2, InductionOnSets
<1> QED  BY <1>3 DEF P
-----------------------------------------------------------------------------
(* The zero bits of a hash.                                                *)

LEMMA LeadingZerosIs ==
  ASSUME NEW b \in Byte, b # 0
  PROVE  \E j \in Nat :
           /\ LeadingZeros(b) \in Nat /\ ByteBits = LeadingZeros(b) + j + 1
           /\ Power2[j] <= b /\ b < Power2[j + 1]
<1> DEFINE S == {k \in 0..ByteBits : b < Power2[ByteBits - k]}
           z == LeadingZeros(b)
<1>1. ByteBits \in Nat \ {0} /\ Base \in Nat /\ b \in 1..(Base - 1)
  BY BytesAre
<1>2. 0 \in S
  <2>1. 0 \in 0..ByteBits /\ ByteBits - 0 = ByteBits
    BY <1>1
  <2> QED  BY <1>1, <2>1 DEF Base
<1>3. z \in S /\ \A y \in S : z >= y
  <2>1. z = Max(S)
    BY DEF LeadingZeros
  <2>2. S \in SUBSET (0..ByteBits) /\ S # {}
    BY <1>2
  <2> HIDE DEF S, z
  <2> QED  BY <1>1, <2>1, <2>2, MaxOf
<1>4. z \in 0..ByteBits /\ b < Power2[ByteBits - z]
  BY <1>3
<1> HIDE DEF z
<1>5. z # ByteBits
  <2>1. ASSUME z = ByteBits PROVE FALSE
    <3>1. ByteBits - z = 0
      BY <1>1, <2>1
    <3> QED  BY <1>1, <1>4, <3>1, Power2Step
  <2> QED  BY <2>1
<1> DEFINE j == ByteBits - z - 1
<1>6. /\ j \in Nat /\ z \in Nat /\ ByteBits = z + j + 1 /\ ByteBits - z = j + 1
      /\ z + 1 \in 0..ByteBits /\ ByteBits - (z + 1) = j
  BY <1>1, <1>4, <1>5
<1>7. z + 1 \notin S
  BY <1>3, <1>6
<1>8. Power2[j] <= b
  BY <1>1, <1>6, <1>7, Power2Type
<1> QED  BY <1>4, <1>6, <1>8 DEF z

\* Of n bytes the first f - 1 are zero, and the next is b.
LEMMA FirstNonzero ==
  ASSUME NEW n \in Nat, NEW data \in [1..n -> Byte], NEW v, Values(data, n, v),
         NEW f \in 1..n, \A i \in 1..(f - 1) : data[i] = 0
  PROVE  v[f] = data[f]
<1> DEFINE P == {i \in Nat : i < f => v[i] = 0}
<1>1. 0 \in P
  BY DEF Values
<1>2. ASSUME NEW i \in Nat, i \in P PROVE i + 1 \in P
  <2>1. CASE i + 1 < f
    <3>1. i + 1 \in 1..n /\ (i + 1) - 1 = i /\ i < f /\ i + 1 \in 1..(f - 1)
      BY <2>1
    <3>2. v[i + 1] = v[i] * Base + data[i + 1]
      BY <3>1 DEF Values
    <3>3. v[i] = 0 /\ data[i + 1] = 0
      BY <1>2, <3>1
    <3>4. 0 * Base + 0 = 0
      BY BytesAre
    <3> QED  BY <3>2, <3>3, <3>4
  <2> QED  BY <2>1
<1> HIDE DEF P
<1>3. Nat \subseteq P
  BY <1>1, <1>2, InductionOnSets
<1>4. f - 1 \in Nat /\ f - 1 < f
  OBVIOUS
<1>5. v[f - 1] = 0
  BY <1>3, <1>4 DEF P
<1>6. v[f] = v[f - 1] * Base + data[f]
  BY DEF Values
<1>7. data[f] \in Nat /\ Base \in Nat
  BY BytesAre
<1>8. 0 * Base + data[f] = data[f]
  BY <1>7
<1> QED  BY <1>5, <1>6, <1>8

LEMMA AllZero ==
  ASSUME NEW n \in Nat, NEW data \in [1..n -> Byte], NEW v, Values(data, n, v),
         \A i \in 1..n : data[i] = 0
  PROVE  v[n] = 0
<1>1. CASE n = 0
  BY <1>1 DEF Values
<1>2. CASE n # 0
  <2>1. n \in 1..n /\ \A i \in 1..(n - 1) : i \in 1..n
    BY <1>2
  <2>2. v[n] = data[n]
    BY <2>1, FirstNonzero
  <2> QED  BY <2>1, <2>2
<1> QED  BY <1>1, <1>2

LEMMA ProductFacts ==
  /\ \A a, b \in Nat : a * b \in Nat
  /\ \A a, b, c \in Nat : a * (b * c) = (a * b) * c
  /\ \A a, b, c \in Nat : a <= b => a * c <= b * c
OBVIOUS

\* One digit more keeps a number between two others that get a zero more.
LEMMA DigitBetween ==
  ASSUME NEW a \in Nat, NEW lo \in Nat, NEW hi \in Nat, NEW x \in Byte,
         lo <= a, a < hi
  PROVE  lo * Base <= a * Base + x /\ a * Base + x < hi * Base
<1>1. Base \in Nat /\ x \in Nat /\ x < Base
  BY BytesAre
<1>2. lo * Base <= a * Base /\ (a + 1) * Base <= hi * Base
  BY <1>1, ProductFacts
<1>3. (a + 1) * Base = a * Base + Base /\ a * Base \in Nat /\ lo * Base \in Nat
      /\ hi * Base \in Nat
  BY <1>1
<1> QED  BY <1>1, <1>2, <1>3

\* What follows a byte changes less than its last bit.
LEMMA HornerBetween ==
  ASSUME NEW n \in Nat, NEW data \in [1..n -> Byte], NEW v, Values(data, n, v),
         NEW f \in 0..n
  PROVE  \A j \in 0..(n - f) :
           /\ v[f] * Power2[ByteBits * j] <= v[f + j]
           /\ v[f + j] < (v[f] + 1) * Power2[ByteBits * j]
<1> DEFINE W(j) == Power2[ByteBits * j]
           P == {j \in Nat : j <= n - f =>
                   v[f] * W(j) <= v[f + j] /\ v[f + j] < (v[f] + 1) * W(j)}
<1>1. \A j \in Nat : W(j) \in Nat /\ W(j + 1) = W(j) * Base
  <2>1. \A j \in Nat : ByteBits * j \in Nat /\ ByteBits * (j + 1) = ByteBits * j + ByteBits
    BY BytesAre
  <2> QED  BY <2>1, BytesAre, Power2Sum, Power2Type DEF Base
<1>2. W(0) = 1
  <2>1. ByteBits * 0 = 0
    BY BytesAre
  <2> QED  BY <2>1, Power2Step
<1> HIDE DEF W
<1>3. v[f] \in Nat /\ v[f] + 1 \in Nat /\ Base \in Nat
  BY BytesAre DEF Values
<1>4. 0 \in P
  <2>1. v[f] * W(0) = v[f] /\ (v[f] + 1) * W(0) = v[f] + 1 /\ f + 0 = f
    BY <1>2, <1>3
  <2> QED  BY <1>3, <2>1
<1>5. ASSUME NEW j \in Nat, j \in P PROVE j + 1 \in P
  <2>1. CASE j + 1 <= n - f
    <3>1. f + (j + 1) \in 1..n /\ (f + (j + 1)) - 1 = f + j /\ f + j \in 0..n /\ j <= n - f
      BY <2>1
    <3> DEFINE lo == v[f] * W(j)
               hi == (v[f] + 1) * W(j)
               a == v[f + j]
               x == data[f + (j + 1)]
    <3>2. v[f + (j + 1)] = a * Base + x /\ a \in Nat /\ x \in Byte
      BY <3>1 DEF Values
    <3>3. lo <= a /\ a < hi
      BY <1>5, <3>1
    <3>4. W(j) \in Nat /\ W(j + 1) = W(j) * Base
      BY <1>1
    <3>5. lo \in Nat /\ hi \in Nat
      BY <1>3, <3>4, ProductFacts
    <3>6. v[f] * W(j + 1) = lo * Base /\ (v[f] + 1) * W(j + 1) = hi * Base
      BY <1>3, <3>4, ProductFacts
    <3> HIDE DEF lo, hi, a, x
    <3>7. lo * Base <= a * Base + x /\ a * Base + x < hi * Base
      BY <3>2, <3>3, <3>5, DigitBetween
    <3> QED  BY <3>2, <3>6, <3>7
  <2> QED  BY <2>1
<1> HIDE DEF P
<1>6. Nat \subseteq P
  BY <1>4, <1>5, InductionOnSets
<1> QED  BY <1>6 DEF P, W

HashBits == ByteBits * HashLength

\* The difficulty d of a hash: so many bits and no more are zero.
Exactly(hash, d) ==
  /\ d \in 0..HashBits
  /\ Value(hash) < Power2[HashBits - d]
  /\ d # HashBits => Power2[HashBits - d - 1] <= Value(hash)

LEMMA DifficultyIs ==
  ASSUME NEW hash \in [1..HashLength -> Byte]
  PROVE  Exactly(hash, CheckHashDifficulty(hash)) /\ Value(hash) \in Nat
<1> DEFINE nonzero == {i \in DOMAIN hash : hash[i] # 0}
           d == CheckHashDifficulty(hash)
<1>1. HashLength \in Nat /\ ByteBits \in Nat \ {0} /\ Len(hash) = HashLength
      /\ DOMAIN hash = 1..HashLength
  BY SizesAssumption, SliceLen
<1>2. PICK v : Values(hash, HashLength, v) /\ Value(hash) = v[HashLength]
  BY <1>1, ValueIs
<1>3. Value(hash) \in Nat /\ HashBits \in Nat
  <2>1. HashLength \in 0..HashLength
    BY <1>1
  <2> QED  BY <1>1, <1>2, <2>1, ProductFacts DEF Values, HashBits
<1>4. CASE nonzero = {}
  <2>1. d = HashBits
    BY <1>1, <1>4 DEF CheckHashDifficulty, HashBits
  <2>2. Value(hash) = 0
    <3>1. \A i \in 1..HashLength : hash[i] = 0
      BY <1>1, <1>4
    <3> QED  BY <1>1, <1>2, <3>1, AllZero
  <2>3. HashBits - HashBits = 0
    BY <1>3
  <2> QED  BY <1>3, <2>1, <2>2, <2>3, Power2Step DEF Exactly
<1>5. CASE nonzero # {}
  <2> DEFINE f == Min(nonzero)
  <2>1. nonzero \in SUBSET Nat
    BY <1>1
  <2>2. f \in nonzero /\ \A y \in nonzero : f <= y
    <3> HIDE DEF nonzero
    <3> QED  BY <1>5, <2>1, MinOf
  <2>3. f \in 1..HashLength /\ hash[f] # 0 /\ hash[f] \in Byte
    BY <1>1, <2>2
  <2>4. \A i \in 1..(f - 1) : hash[i] = 0
    <3> SUFFICES ASSUME NEW i \in 1..(f - 1), hash[i] # 0 PROVE FALSE
      OBVIOUS
    <3>1. i \in nonzero
      BY <1>1, <2>3
    <3>2. f <= i
      BY <2>2, <3>1
    <3> QED  BY <2>3, <3>2
  <2>5. d = ByteBits * (f - 1) + LeadingZeros(hash[f])
    BY <1>5 DEF CheckHashDifficulty
  <2> HIDE DEF f
  <2>6. PICK j \in Nat :
          /\ LeadingZeros(hash[f]) \in Nat /\ ByteBits = LeadingZeros(hash[f]) + j + 1
          /\ Power2[j] <= hash[f] /\ hash[f] < Power2[j + 1]
    BY <2>3, LeadingZerosIs
  <2> DEFINE z == LeadingZeros(hash[f])
             rest == HashLength - f
             w == Power2[ByteBits * rest]
  <2>7. v[f] = hash[f] /\ hash[f] \in Nat
    <3>1. v[f] = hash[f]
      BY <1>1, <1>2, <2>3, <2>4, FirstNonzero
    <3> QED  BY <2>3, <3>1, BytesAre
  <2>8. rest \in 0..(HashLength - f) /\ f + rest = HashLength /\ rest \in Nat /\ f - 1 \in Nat
    BY <1>1, <2>3
  <2>9. hash[f] * w <= Value(hash) /\ Value(hash) < (hash[f] + 1) * w
    <3>1. f \in 0..HashLength
      BY <2>3
    <3>2. \A k \in 0..(HashLength - f) :
            /\ v[f] * Power2[ByteBits * k] <= v[f + k]
            /\ v[f + k] < (v[f] + 1) * Power2[ByteBits * k]
      BY <1>1, <1>2, <3>1, HornerBetween
    <3>3. v[f] * w <= v[f + rest] /\ v[f + rest] < (v[f] + 1) * w
      BY <2>8, <3>2
    <3> QED  BY <1>2, <2>7, <2>8, <3>3
  <2>10. ByteBits * rest \in Nat /\ ByteBits * (f - 1) \in Nat
         /\ HashBits = ByteBits * (f - 1) + ByteBits + ByteBits * rest
    <3>1. HashLength = (f - 1) + 1 + rest
      BY <1>1, <2>3, <2>8
    <3>2. \A a, b, c \in Nat : a * (b + 1 + c) = a * b + a + a * c
      OBVIOUS
    <3>3. HashBits = ByteBits * ((f - 1) + 1 + rest)
      BY <3>1 DEF HashBits
    <3> HIDE DEF rest
    <3> QED  BY <1>1, <2>8, <3>2, <3>3, ProductFacts
  <2> HIDE DEF z, rest, w
  <2>11. /\ d \in Nat /\ d < HashBits
         /\ HashBits - d = (j + 1) + ByteBits * rest
         /\ HashBits - d - 1 = j + ByteBits * rest
    <3> DEFINE p == ByteBits * (f - 1)
               q == ByteBits * rest
    <3>1. p \in Nat /\ q \in Nat /\ HashBits = p + ByteBits + q
      BY <2>10
    <3>2. d = p + z /\ z \in Nat /\ ByteBits = z + j + 1
      BY <2>5, <2>6 DEF z
    <3> HIDE DEF p, q, d
    <3>3. d \in Nat /\ d < HashBits /\ HashBits - d = (j + 1) + q /\ HashBits - d - 1 = j + q
      BY <1>1, <1>3, <3>1, <3>2
    <3> QED  BY <3>3 DEF d, q
  <2>12. Power2[HashBits - d] = Power2[j + 1] * w /\ Power2[HashBits - d - 1] = Power2[j] * w
         /\ w \in Nat
    <3>1. j + 1 \in Nat
      OBVIOUS
    <3> QED  BY <2>10, <2>11, <3>1, Power2Sum, Power2Type DEF w
  <2>13. Power2[j] * w <= hash[f] * w /\ (hash[f] + 1) * w <= Power2[j + 1] * w
    <3>1. Power2[j] \in Nat /\ Power2[j + 1] \in Nat /\ hash[f] + 1 \in Nat
          /\ hash[f] + 1 <= Power2[j + 1]
      <4>1. Power2[j] \in Nat /\ Power2[j + 1] \in Nat
        BY Power2Type
      <4> QED  BY <2>6, <2>7, <4>1
    <3> QED  BY <2>6, <2>7, <2>12, <3>1, ProductFacts
  <2>14. Power2[j] * w \in Nat /\ hash[f] * w \in Nat /\ (hash[f] + 1) * w \in Nat
         /\ Power2[j + 1] * w \in Nat
    <3>1. Power2[j] \in Nat /\ Power2[j + 1] \in Nat /\ hash[f] + 1 \in Nat
      BY <2>7, Power2Type
    <3> QED  BY <2>7, <2>12, <3>1, ProductFacts
  <2>15. Power2[HashBits - d - 1] <= Value(hash) /\ Value(hash) < Power2[HashBits - d]
    BY <1>3, <2>9, <2>12, <2>13, <2>14
  <2>16. d \in 0..HashBits
    BY <1>3, <2>11
  <2> HIDE DEF d
  <2>17. Exactly(hash, d)
    BY <2>15, <2>16 DEF Exactly
  <2> QED  BY <1>3, <2>17 DEF d
<1> QED  BY <1>4, <1>5

\* The zeros that are counted byte by byte are the leading zeros of the number:
\* for any size of bytes and of hashes, a hash has n zero bits exactly when
\* its difficulty is n or more (check_hash_difficulty, verification.rs:22).
THEOREM DifficultyCountsZeroBits ==
  ASSUME NEW hash \in [1..HashLength -> Byte], NEW n \in Nat
  PROVE  HasZeroBits(hash, n) <=> n <= CheckHashDifficulty(hash)
<1> DEFINE d == CheckHashDifficulty(hash)
           x == Value(hash)
<1>1. Len(hash) = HashLength /\ HashBits \in Nat
  <2>1. HashLength \in Nat /\ ByteBits \in Nat
    BY SizesAssumption
  <2> QED  BY <2>1, SliceLen, ProductFacts DEF HashBits
<1>2. Exactly(hash, d) /\ x \in Nat
  BY DifficultyIs
<1>3. HasZeroBits(hash, n) <=> n <= HashBits /\ x < Power2[HashBits - n]
  BY <1>1 DEF HasZeroBits, HashBits
<1> HIDE DEF d, x
<1>4. /\ d \in 0..HashBits /\ x < Power2[HashBits - d]
      /\ d # HashBits => Power2[HashBits - d - 1] <= x
  BY <1>2 DEF Exactly, x
<1>5. ASSUME n <= d PROVE n <= HashBits /\ x < Power2[HashBits - n]
  <2>1. HashBits - d \in Nat /\ HashBits - n \in Nat /\ HashBits - d <= HashBits - n
    BY <1>1, <1>4, <1>5
  <2>2. Power2[HashBits - d] <= Power2[HashBits - n]
    BY <2>1, Power2Grows
  <2>3. Power2[HashBits - d] \in Nat /\ Power2[HashBits - n] \in Nat
    BY <2>1, Power2Type
  <2> QED  BY <1>1, <1>2, <1>4, <1>5, <2>2, <2>3
<1>6. ASSUME ~(n <= d), n <= HashBits PROVE ~(x < Power2[HashBits - n])
  <2>1. HashBits - n \in Nat /\ HashBits - d - 1 \in Nat /\ HashBits - n <= HashBits - d - 1
        /\ d # HashBits
    BY <1>1, <1>4, <1>6
  <2>2. Power2[HashBits - n] <= Power2[HashBits - d - 1]
    BY <2>1, Power2Grows
  <2>3. Power2[HashBits - d - 1] \in Nat /\ Power2[HashBits - n] \in Nat
    BY <2>1, Power2Type
  <2> QED  BY <1>2, <1>4, <2>1, <2>2, <2>3
<1> QED  BY <1>3, <1>5, <1>6 DEF d

-----------------------------------------------------------------------------
(* The increment.                                                          *)

Cycle == Power2[ByteBits * PostfixLength]

LEMMA CycleIs ==
  Cycle \in Nat \ {0} /\ Counter = 0..(Cycle - 1) /\ PostfixLength \in Nat \ {0}
<1>1. ByteBits \in Nat /\ PostfixLength \in Nat \ {0}
  BY SizesAssumption
<1>2. ByteBits * PostfixLength \in Nat
  BY <1>1
<1> QED  BY <1>1, <1>2, Power2Type DEF Cycle, Counter, Unsigned

LEMMA RemainderIs ==
  ASSUME NEW m \in Nat \ {0}
  PROVE  m % m = 0 /\ \A a \in 0..(m - 1) : a % m = a
OBVIOUS

\* Where the carry ends: the bytes behind it are all at their greatest.
Carry(data) == Max({0} \cup {i \in DOMAIN data : data[i] # Power2[ByteBits] - 1})

LEMMA CarryIs ==
  ASSUME NEW data \in Postfix
  PROVE  /\ Carry(data) \in 0..PostfixLength
         /\ \A i \in 1..PostfixLength : i > Carry(data) => data[i] = Base - 1
         /\ Carry(data) # 0 => data[Carry(data)] \in Nat /\ data[Carry(data)] + 1 \in Byte
<1> DEFINE S == {0} \cup {i \in DOMAIN data : data[i] # Power2[ByteBits] - 1}
           c == Carry(data)
<1>1. DOMAIN data = 1..PostfixLength /\ PostfixLength \in Nat
      /\ \A i \in 1..PostfixLength : data[i] \in Byte
  BY CycleIs DEF Postfix
<1>2. S \in SUBSET (0..PostfixLength) /\ S # {} /\ c = Max(S)
  BY <1>1 DEF Carry
<1>3. c \in S /\ \A y \in S : c >= y
  <2> HIDE DEF S, c
  <2> QED  BY <1>1, <1>2, MaxOf
<1>4. ASSUME NEW i \in 1..PostfixLength, i > c PROVE data[i] = Base - 1
  <2>1. i \notin S
    <3>1. c \in 0..PostfixLength
      BY <1>2, <1>3
    <3> HIDE DEF S, c
    <3> QED  BY <1>3, <1>4, <3>1
  <2> QED  BY <1>1, <2>1 DEF Base
<1>5. ASSUME c # 0 PROVE data[c] \in Nat /\ data[c] + 1 \in Byte
  <2>1. c \in 1..PostfixLength /\ data[c] # Base - 1
    BY <1>1, <1>3, <1>5 DEF Base
  <2> HIDE DEF c
  <2>2. data[c] \in 0..(Base - 1)
    BY <1>1, <2>1, BytesAre
  <2> QED  BY <2>1, <2>2, BytesAre
<1> QED  BY <1>2, <1>3, <1>4, <1>5

LEMMA IncrementIs ==
  ASSUME NEW data \in Postfix
  PROVE  /\ IncrementByteSlice(data) \in Postfix
         /\ \A i \in 1..PostfixLength : IncrementByteSlice(data)[i] =
              IF i < Carry(data) THEN data[i]
              ELSE IF i = Carry(data) THEN data[i] + 1 ELSE 0
<1> DEFINE c == Carry(data)
           e == IncrementByteSlice(data)
<1>1. DOMAIN data = 1..PostfixLength /\ c \in 0..PostfixLength /\ PostfixLength \in Nat
  BY CarryIs, CycleIs DEF Postfix
<1>2. e = [i \in 1..PostfixLength |-> CASE i < c -> data[i]
                                      [] i = c -> data[i] + 1
                                      [] i > c -> 0]
  BY <1>1 DEF IncrementByteSlice, Carry
<1> HIDE DEF e
<1>3. ASSUME NEW i \in 1..PostfixLength
      PROVE  e[i] = (IF i < c THEN data[i] ELSE IF i = c THEN data[i] + 1 ELSE 0)
             /\ e[i] \in Byte
  <2> HIDE DEF c
  <2>1. e[i] = CASE i < c -> data[i] [] i = c -> data[i] + 1 [] i > c -> 0
    BY <1>2
  <2>2. i \in Nat /\ c \in Nat /\ (i < c \/ i = c \/ i > c)
    BY <1>1
  <2>3. e[i] = IF i < c THEN data[i] ELSE IF i = c THEN data[i] + 1 ELSE 0
    BY <2>1, <2>2
  <2>4. data[i] \in Byte /\ 0 \in Byte
    BY BytesAre DEF Postfix
  <2>5. i = c => data[i] + 1 \in Byte
    BY <2>2, CarryIs DEF c
  <2> QED  BY <2>3, <2>4, <2>5
<1>4. e \in Postfix
  BY <1>2, <1>3 DEF Postfix
<1> QED  BY <1>3, <1>4 DEF e

\* For any size of bytes and any length, the increment adds one to the number
\* the slice is, and begins again at zero after the last (increment_byte_slice,
\* proof_of_work_agent.rs:45): it skips no postfix.
THEOREM IncrementAddsOne ==
  ASSUME NEW data \in Postfix
  PROVE  /\ IncrementByteSlice(data) \in Postfix
         /\ Value(data) \in Counter
         /\ Value(IncrementByteSlice(data)) = (Value(data) + 1) % Cycle
<1> DEFINE n == PostfixLength
           c == Carry(data)
           e == IncrementByteSlice(data)
           W(i) == Power2[ByteBits * i]
<1>1. n \in Nat \ {0} /\ data \in [1..n -> Byte] /\ e \in [1..n -> Byte]
  BY CycleIs, IncrementIs DEF Postfix
<1>2. PICK v : Values(data, n, v) /\ Value(data) = v[n]
  BY <1>1, ValueIs
<1>3. PICK w : Values(e, n, w) /\ Value(e) = w[n]
  BY <1>1, ValueIs
<1>4. \A i \in 1..n : e[i] = IF i < c THEN data[i] ELSE IF i = c THEN data[i] + 1 ELSE 0
  BY IncrementIs
<1>5. /\ c \in 0..n /\ \A i \in 1..n : i > c => data[i] = Base - 1
      /\ \A i \in 1..n : data[i] \in Nat
  BY <1>1, CarryIs, BytesAre
<1>6. v[n] < Cycle /\ w[n] < Cycle /\ v[n] \in Nat /\ w[n] \in Nat /\ Cycle \in Nat \ {0}
  <2>1. n \in 0..n
    BY <1>1
  <2> QED  BY <1>1, <1>2, <1>3, <2>1, ValuesBounded, CycleIs DEF Cycle, Values
<1> HIDE DEF c, e, n, W
<1>7. /\ v[0] = 0 /\ w[0] = 0 /\ Base \in Nat
      /\ \A i \in 0..n : v[i] \in Nat /\ w[i] \in Nat
      /\ \A i \in 1..n : v[i] = v[i - 1] * Base + data[i] /\ w[i] = w[i - 1] * Base + e[i]
  BY <1>2, <1>3, BytesAre DEF Values
<1>8. ASSUME c # 0 PROVE w[n] = (v[n] + 1) % Cycle
  <2> DEFINE P == {i \in Nat : i <= n =>
                     (i < c => w[i] = v[i]) /\ (i >= c => w[i] = v[i] + 1)}
  <2>1. 0 \in P
    BY <1>5, <1>7, <1>8
  <2>2. ASSUME NEW i \in Nat, i \in P PROVE i + 1 \in P
    <3>1. CASE i + 1 <= n
      <4>1. i + 1 \in 1..n /\ (i + 1) - 1 = i /\ i \in 0..n /\ i <= n
        BY <1>1, <3>1
      <4>2. v[i + 1] = v[i] * Base + data[i + 1] /\ w[i + 1] = w[i] * Base + e[i + 1]
            /\ v[i] \in Nat /\ data[i + 1] \in Nat
        BY <1>5, <1>7, <4>1
      <4>3. CASE i + 1 < c
        <5>1. w[i] = v[i] /\ e[i + 1] = data[i + 1]
          BY <1>4, <1>5, <2>2, <4>1, <4>3
        <5> QED  BY <4>2, <4>3, <5>1, <1>5
      <4>4. CASE i + 1 = c
        <5>1. w[i] = v[i] /\ e[i + 1] = data[i + 1] + 1
          BY <1>4, <1>5, <2>2, <4>1, <4>4
        <5>2. v[i] * Base \in Nat
          BY <1>7, <4>2, ProductFacts
        <5> QED  BY <4>2, <4>4, <5>1, <5>2, <1>5
      <4>5. CASE i + 1 > c
        <5>1. w[i] = v[i] + 1 /\ e[i + 1] = 0 /\ data[i + 1] = Base - 1
          BY <1>4, <1>5, <2>2, <4>1, <4>5
        <5>2. (v[i] + 1) * Base = v[i] * Base + Base /\ v[i] * Base \in Nat
          BY <1>7, <4>2
        <5> QED  BY <1>7, <4>2, <4>5, <5>1, <5>2, <1>5
      <4> QED  BY <1>5, <4>3, <4>4, <4>5
    <3> QED  BY <3>1
  <2> HIDE DEF P
  <2>3. Nat \subseteq P
    BY <2>1, <2>2, InductionOnSets
  <2>4. w[n] = v[n] + 1
    BY <1>1, <1>5, <2>3 DEF P
  <2>5. w[n] \in 0..(Cycle - 1)
    BY <1>6
  <2>6. w[n] % Cycle = w[n]
    BY <1>6, <2>5, RemainderIs
  <2> QED  BY <2>4, <2>6
<1>9. ASSUME c = 0 PROVE w[n] = (v[n] + 1) % Cycle
  <2> DEFINE P == {i \in Nat : i <= n => w[i] = 0 /\ v[i] + 1 = W(i)}
  <2>0. W(0) = 1 /\ \A i \in Nat : W(i + 1) = W(i) * Base
    <3>1. \A i \in Nat : ByteBits * i \in Nat /\ ByteBits * (i + 1) = ByteBits * i + ByteBits
      BY BytesAre
    <3>2. ByteBits * 0 = 0
      BY BytesAre
    <3> QED  BY <3>1, <3>2, BytesAre, Power2Sum, Power2Step DEF Base, W
  <2>1. 0 \in P
    BY <1>7, <2>0
  <2>2. ASSUME NEW i \in Nat, i \in P PROVE i + 1 \in P
    <3>1. CASE i + 1 <= n
      <4>1. i + 1 \in 1..n /\ (i + 1) - 1 = i /\ i \in 0..n /\ i <= n /\ i + 1 > c
        BY <1>1, <1>9, <3>1
      <4>2. v[i + 1] = v[i] * Base + data[i + 1] /\ w[i + 1] = w[i] * Base + e[i + 1]
            /\ v[i] \in Nat
        BY <1>7, <4>1
      <4>3. e[i + 1] = 0 /\ data[i + 1] = Base - 1
        BY <1>4, <1>5, <1>9, <4>1
      <4>4. w[i] = 0 /\ v[i] + 1 = W(i)
        BY <2>2, <4>1
      <4>5. (v[i] + 1) * Base = v[i] * Base + Base /\ v[i] * Base \in Nat /\ 0 * Base = 0
        BY <1>7, <4>2
      <4>6. W(i + 1) = (v[i] + 1) * Base
        BY <2>0, <4>4
      <4>7. w[i + 1] = 0
        BY <4>2, <4>3, <4>4, <4>5
      <4>8. v[i + 1] + 1 = W(i + 1)
        BY <1>7, <4>2, <4>3, <4>5, <4>6
      <4> QED  BY <4>7, <4>8
    <3> QED  BY <3>1
  <2> HIDE DEF P
  <2>3. Nat \subseteq P
    BY <2>1, <2>2, InductionOnSets
  <2>4. w[n] = 0 /\ v[n] + 1 = Cycle
    BY <1>1, <2>3 DEF P, W, Cycle, n
  <2> QED  BY <1>6, <2>4, RemainderIs
<1>10. e \in Postfix /\ v[n] \in Counter
  BY <1>1, <1>6, CycleIs DEF Postfix, n
<1> QED  BY <1>2, <1>3, <1>8, <1>9, <1>10 DEF e

LEMMA DigitUnique ==
  ASSUME NEW a \in Nat, NEW b \in Nat, NEW x \in Byte, NEW y \in Byte,
         a * Base + x = b * Base + y
  PROVE  a = b /\ x = y
<1>1. Base \in Nat /\ x \in Nat /\ y \in Nat
  BY BytesAre
<1>2. a * Base \in Nat /\ b * Base \in Nat
  BY <1>1, ProductFacts
<1>3. ~(a < b)
  <2> SUFFICES ASSUME a < b PROVE FALSE
    OBVIOUS
  <2>1. a * Base + x < b * Base
    BY DigitBetween
  <2> QED  BY <1>1, <1>2, <2>1
<1>4. ~(b < a)
  <2> SUFFICES ASSUME b < a PROVE FALSE
    OBVIOUS
  <2>1. b * Base + y < a * Base
    BY DigitBetween
  <2> QED  BY <1>1, <1>2, <2>1
<1>5. a = b
  BY <1>3, <1>4
<1> QED  BY <1>1, <1>2, <1>5

\* Different postfixes are different numbers.
LEMMA ValueUnique ==
  ASSUME NEW p \in Postfix, NEW q \in Postfix, Value(p) = Value(q)
  PROVE  p = q
<1> DEFINE n == PostfixLength
<1>1. n \in Nat \ {0} /\ p \in [1..n -> Byte] /\ q \in [1..n -> Byte]
  BY CycleIs DEF Postfix
<1> HIDE DEF n
<1>2. PICK v : Values(p, n, v) /\ Value(p) = v[n]
  BY <1>1, ValueIs
<1>3. PICK w : Values(q, n, w) /\ Value(q) = w[n]
  BY <1>1, ValueIs
<1> DEFINE P == {k \in Nat : k <= n => v[n - k] = w[n - k]
                                       /\ \A i \in 1..n : i > n - k => p[i] = q[i]}
<1>4. 0 \in P
  <2>1. n - 0 = n /\ \A i \in 1..n : ~(i > n)
    BY <1>1
  <2>2. v[n - 0] = w[n - 0] /\ \A i \in 1..n : i > n - 0 => p[i] = q[i]
    BY <1>2, <1>3, <2>1
  <2> QED  BY <2>2
<1>5. ASSUME NEW k \in Nat, k \in P PROVE k + 1 \in P
  <2>1. CASE k + 1 <= n
    <3> DEFINE i == n - k
    <3>1. i \in 1..n /\ n - (k + 1) = i - 1 /\ i - 1 \in 0..n /\ k <= n
      BY <1>1, <2>1
    <3>2. v[i] = w[i] /\ \A j \in 1..n : j > i => p[j] = q[j]
      BY <1>5, <3>1
    <3> HIDE DEF i
    <3>3. /\ v[i] = v[i - 1] * Base + p[i] /\ w[i] = w[i - 1] * Base + q[i]
          /\ v[i - 1] \in Nat /\ w[i - 1] \in Nat
      BY <1>2, <1>3, <3>1 DEF Values
    <3>4. p[i] \in Byte /\ q[i] \in Byte
      BY <1>1, <3>1
    <3>5. v[i - 1] = w[i - 1] /\ p[i] = q[i]
      <4>1. v[i - 1] * Base + p[i] = w[i - 1] * Base + q[i]
        BY <3>2, <3>3
      <4> DEFINE a == v[i - 1]
                 b == w[i - 1]
      <4>2. a \in Nat /\ b \in Nat /\ a * Base + p[i] = b * Base + q[i]
        BY <3>3, <4>1
      <4> HIDE DEF a, b
      <4>3. a = b /\ p[i] = q[i]
        BY <3>4, <4>2, DigitUnique
      <4> QED  BY <4>3 DEF a, b
    <3>6. \A j \in 1..n : j > i - 1 => p[j] = q[j]
      <4>1. \A j \in 1..n : j > i - 1 => j = i \/ j > i
        BY <3>1
      <4> QED  BY <3>2, <3>5, <4>1
    <3> QED  BY <3>1, <3>5, <3>6
  <2> QED  BY <2>1
<1> HIDE DEF P
<1>6. Nat \subseteq P
  BY <1>4, <1>5, InductionOnSets
<1>7. n \in P
  BY <1>1, <1>6
<1>8. \A i \in 1..n : p[i] = q[i]
  BY <1>1, <1>7 DEF P
<1> QED  BY <1>1, <1>8

LEMMA ZerosIs == Zeros \in Postfix /\ Value(Zeros) = 0
<1>1. PostfixLength \in Nat /\ 0 \in Byte
  BY CycleIs, BytesAre
<1>2. Zeros \in [1..PostfixLength -> Byte] /\ \A i \in 1..PostfixLength : Zeros[i] = 0
  BY <1>1 DEF Zeros
<1>3. PICK v : Values(Zeros, PostfixLength, v) /\ Value(Zeros) = v[PostfixLength]
  BY <1>1, <1>2, ValueIs
<1> QED  BY <1>1, <1>2, <1>3, AllZero DEF Postfix

\* The increments come by every postfix and by none twice: each number the
\* counter can have is that of exactly one postfix (so "attempts_done", which
\* the agent reports, is how many different ones it has tried).
THEOREM PostfixesAreNumbers ==
  ASSUME NEW n \in Counter
  PROVE  \E p \in Postfix : /\ Value(p) = n
                            /\ \A q \in Postfix : Value(q) = n => q = p
<1> DEFINE P == {k \in Nat : k < Cycle => \E p \in Postfix : Value(p) = k}
<1>1. 0 \in P
  BY ZerosIs
<1>2. ASSUME NEW k \in Nat, k \in P PROVE k + 1 \in P
  <2>1. SUFFICES ASSUME k + 1 < Cycle PROVE \E p \in Postfix : Value(p) = k + 1
    OBVIOUS
  <2>2. Cycle \in Nat \ {0} /\ k < Cycle /\ k + 1 \in 0..(Cycle - 1)
    BY <2>1, CycleIs
  <2>3. PICK p \in Postfix : Value(p) = k
    BY <1>2, <2>2
  <2>4. (k + 1) % Cycle = k + 1
    BY <2>2, RemainderIs
  <2>5. /\ IncrementByteSlice(p) \in Postfix
        /\ Value(IncrementByteSlice(p)) = k + 1
    BY <2>3, <2>4, IncrementAddsOne
  <2> QED  BY <2>5
<1> HIDE DEF P
<1>3. Nat \subseteq P
  BY <1>1, <1>2, InductionOnSets
<1>4. n \in Nat /\ n < Cycle
  BY CycleIs
<1>5. PICK p \in Postfix : Value(p) = n
  BY <1>3, <1>4 DEF P
<1>6. \A q \in Postfix : Value(q) = n => q = p
  BY <1>5, ValueUnique
<1> QED  BY <1>5, <1>6

-----------------------------------------------------------------------------
(* The inductive invariant.                                                *)

ZeroBits(c, p) == CheckHashDifficulty(Hash[c][p])

\* The postfixes with the numbers 1 to n all fail for c, and the best of all
\* that were tried is of a difficulty of best.
Failed(c, n, best) ==
  /\ \A p \in Postfix : Value(p) \in 1..n =>
       ZeroBits(c, p) < Difficulty[c] /\ ZeroBits(c, p) <= best
  /\ best > 0 => \E p \in Postfix : ZeroBits(c, p) = best

\* The counter of attempts is the number of the postfix, through every batch.
SearchInv == pc # "idle" =>
  Value(my_attempt) = attempts_done /\ Failed(input, attempts_done, max_difficulty_found)

\* A message is true of its challenge, whatever the agent does by now.
OutputInv ==
  /\ output.kind = "FoundSolution" =>
       /\ output.challenge \in Challenges /\ output.nonce \in Postfix
       /\ ZeroBits(output.challenge, output.nonce) >= Difficulty[output.challenge]
  /\ output.kind = "Progress" =>
       /\ output.challenge \in Challenges
       /\ output.attempts_done \in Counter /\ output.max_difficulty_found \in 0..HashBits
       /\ Failed(output.challenge, output.attempts_done, output.max_difficulty_found)

PowInv == TypeOK /\ SearchInv /\ OutputInv

LEMMA HashType ==
  ASSUME NEW c \in Challenges, NEW p \in Postfix
  PROVE  /\ Hash[c][p] \in [1..HashLength -> Byte] /\ Difficulty[c] \in Nat
         /\ ZeroBits(c, p) \in 0..HashBits /\ HashBits \in Nat
<1>1. Hash[c][p] \in [1..HashLength -> Byte] /\ Difficulty[c] \in Nat
  BY HashAssumption, DifficultyAssumption
<1>2. HashBits \in Nat
  BY SizesAssumption, ProductFacts DEF HashBits
<1> QED  BY <1>1, <1>2, DifficultyIs DEF Exactly, ZeroBits

\* A step that leaves the agent and its message alone.
LEMMA AgentIdles ==
  ASSUME PowInv, UNCHANGED <<agentVars, output>>,
         commands' \in Seq(Challenges \cup {Stop}), pressed' \in 0..MaxCommands,
         Len(commands') <= pressed',
         verdict'.answer \in {None, "undecodable", "not satisfied", "satisfied"}
  PROVE  PowInv'
<1> USE DEF PowInv, agentVars
<1>1. TypeOK'
  BY DEF TypeOK
<1>2. SearchInv' /\ OutputInv'
  BY DEF SearchInv, OutputInv
<1> QED  BY <1>1, <1>2

\* An agent that enters a search, or leaves one, has tried nothing.
LEMMA EnterKeeps ==
  ASSUME TypeOK, NEW where \in {"idle", "select"}, NEW challenge \in Challenges \cup {None},
         where = "idle" <=> challenge = None, Enter(where, challenge)
  PROVE  /\ pc' \in {"idle", "select", "attempt"} /\ input' \in Challenges \cup {None}
         /\ (pc' = "idle" <=> input' = None) /\ my_attempt' \in Postfix
         /\ attempts_done' \in Counter /\ in_batch' \in 0..LoopAttempts
         /\ max_difficulty_found' \in 0..(ByteBits * HashLength)
         /\ SearchInv'
<1>1. /\ pc' = where /\ input' = challenge /\ my_attempt' = Zeros
      /\ attempts_done' = 0 /\ max_difficulty_found' = 0 /\ in_batch' = 0
  BY DEF Enter
<1>2. Zeros \in Postfix /\ Value(Zeros) = 0 /\ 0 \in Counter
  BY ZerosIs, CycleIs
<1>3. 0 \in 0..LoopAttempts /\ 0 \in 0..(ByteBits * HashLength)
  BY SizesAssumption, ProductFacts
<1>4. Failed(challenge, 0, 0)
  BY DEF Failed
<1> QED  BY <1>1, <1>2, <1>3, <1>4 DEF SearchInv, Failed

LEMMA AwaitInputKeeps ==
  ASSUME PowInv, AwaitInput
  PROVE  PowInv'
<1>1. /\ pc = "idle" /\ commands \in Seq(Challenges \cup {Stop}) /\ commands # <<>>
      /\ commands' = Tail(commands) /\ UNCHANGED <<pressed, output, verdict>>
      /\ Len(commands) <= pressed /\ pressed \in 0..MaxCommands
  BY DEF AwaitInput, PowInv, TypeOK
<1>2. /\ commands' \in Seq(Challenges \cup {Stop}) /\ Len(commands') <= pressed'
      /\ Head(commands) \in Challenges \cup {Stop}
  BY <1>1, PowBoundsAssumption
<1>3. CASE Head(commands) = Stop
  <2>1. UNCHANGED agentVars
    BY <1>3 DEF AwaitInput
  <2> QED  BY <1>1, <1>2, <2>1, AgentIdles DEF PowInv, TypeOK
<1>4. CASE Head(commands) # Stop
  <2>1. Head(commands) \in Challenges /\ Head(commands) # None
    BY <1>2, <1>4, ChallengesAssumption
  <2>2. Enter("select", Head(commands))
    BY <1>4 DEF AwaitInput
  <2>3. TypeOK' /\ SearchInv'
    BY <1>1, <1>2, <2>1, <2>2, EnterKeeps DEF PowInv, TypeOK
  <2>4. OutputInv'
    BY <1>1 DEF PowInv, OutputInv
  <2> QED  BY <2>3, <2>4 DEF PowInv
<1> QED  BY <1>3, <1>4

LEMMA ContinueKeeps ==
  ASSUME PowInv, pc = "select", Continue, UNCHANGED <<pressed, output, verdict>>,
         commands' \in Seq(Challenges \cup {Stop}), Len(commands') <= pressed'
  PROVE  PowInv'
<1>1. /\ pc' = "attempt" /\ in_batch' = 0 /\ 0 \in 0..LoopAttempts
      /\ UNCHANGED <<input, my_attempt, attempts_done, max_difficulty_found>>
  BY SizesAssumption DEF Continue
<1>2. TypeOK'
  BY <1>1 DEF PowInv, TypeOK
<1>3. SearchInv' /\ OutputInv'
  BY <1>1 DEF PowInv, SearchInv, OutputInv
<1> QED  BY <1>2, <1>3 DEF PowInv

LEMMA HearCommandKeeps ==
  ASSUME PowInv, HearCommand
  PROVE  PowInv'
<1>1. /\ pc = "select" /\ commands \in Seq(Challenges \cup {Stop}) /\ commands # <<>>
      /\ commands' = Tail(commands) /\ UNCHANGED <<pressed, output, verdict>>
      /\ Len(commands) <= pressed /\ pressed \in 0..MaxCommands
  BY DEF HearCommand, PowInv, TypeOK
<1>2. commands' \in Seq(Challenges \cup {Stop}) /\ Len(commands') <= pressed'
  BY <1>1, PowBoundsAssumption
<1>3. CASE Head(commands) = Stop
  <2>1. Enter("idle", None)
    BY <1>3 DEF HearCommand, Idle
  <2>2. TypeOK' /\ SearchInv'
    BY <1>1, <1>2, <2>1, EnterKeeps DEF PowInv, TypeOK
  <2>3. OutputInv'
    BY <1>1 DEF PowInv, OutputInv
  <2> QED  BY <2>2, <2>3 DEF PowInv
<1>4. CASE Head(commands) # Stop
  <2>1. Continue
    BY <1>4 DEF HearCommand
  <2> QED  BY <1>1, <1>2, <2>1, ContinueKeeps
<1> QED  BY <1>3, <1>4

\* One more postfix has failed.
LEMMA FailsOnce ==
  ASSUME NEW c \in Challenges, NEW p \in Postfix, NEW best \in Nat,
         Failed(c, Value(p), best),
         ~Solved(ZeroBits(c, IncrementByteSlice(p)), c)
  PROVE  Failed(c, Value(IncrementByteSlice(p)),
                Max({best, ZeroBits(c, IncrementByteSlice(p))}))
<1> DEFINE next == IncrementByteSlice(p)
           d == ZeroBits(c, next)
           most == Max({best, d})
<1>1. /\ next \in Postfix /\ Value(p) \in 0..(Cycle - 1) /\ Cycle \in Nat \ {0}
      /\ Value(next) = (Value(p) + 1) % Cycle
  BY IncrementAddsOne, CycleIs
<1>2. d \in Nat /\ Difficulty[c] \in Nat /\ d < Difficulty[c]
  BY <1>1, HashType DEF Solved
<1>3. most \in {best, d} /\ most >= best /\ most >= d
  <2> HIDE DEF d
  <2>1. {best, d} \in SUBSET (0..(best + d)) /\ {best, d} # {} /\ best + d \in Nat
    BY <1>2
  <2> QED  BY <2>1, MaxOf
<1> HIDE DEF next, d, most
<1>4. ASSUME NEW q \in Postfix, Value(q) \in 1..Value(next)
      PROVE  ZeroBits(c, q) < Difficulty[c] /\ ZeroBits(c, q) <= most
  <2>1. ZeroBits(c, q) \in Nat
    BY HashType
  <2>2. CASE Value(p) + 1 = Cycle
    <3>1. Value(next) = 0
      BY <1>1, <2>2, RemainderIs
    <3> QED  BY <1>4, <3>1
  <2>3. CASE Value(p) + 1 # Cycle
    <3>1. Value(next) = Value(p) + 1
      <4>1. Value(p) + 1 \in 0..(Cycle - 1)
        BY <1>1, <2>3
      <4> QED  BY <1>1, <4>1, RemainderIs
    <3>2. CASE Value(q) = Value(next)
      <4>1. q = next
        BY <1>1, <3>2, ValueUnique
      <4> QED  BY <1>2, <1>3, <4>1 DEF d
    <3>3. CASE Value(q) # Value(next)
      <4>1. Value(q) \in 1..Value(p)
        BY <1>1, <1>4, <3>1, <3>3
      <4>2. ZeroBits(c, q) < Difficulty[c] /\ ZeroBits(c, q) <= best
        BY <4>1 DEF Failed
      <4> QED  BY <1>2, <1>3, <2>1, <4>2
    <3> QED  BY <3>2, <3>3
  <2> QED  BY <2>2, <2>3
<1>5. ASSUME most > 0 PROVE \E q \in Postfix : ZeroBits(c, q) = most
  BY <1>1, <1>3, <1>5 DEF Failed, d
<1> QED  BY <1>4, <1>5 DEF Failed, next, d, most

LEMMA AttemptKeeps ==
  ASSUME PowInv, Attempt
  PROVE  PowInv'
<1> DEFINE next == IncrementByteSlice(my_attempt)
           d == ZeroBits(input, next)
<1>1. /\ pc = "attempt" /\ input \in Challenges /\ input # None
      /\ my_attempt \in Postfix /\ attempts_done \in Counter
      /\ in_batch \in 0..LoopAttempts /\ in_batch < LoopAttempts
      /\ max_difficulty_found \in 0..HashBits
      /\ Value(my_attempt) = attempts_done
      /\ Failed(input, attempts_done, max_difficulty_found)
      /\ UNCHANGED <<commands, pressed, verdict>>
  BY DEF Attempt, PowInv, TypeOK, SearchInv, HashBits
<1>2. /\ next \in Postfix /\ Value(next) = (attempts_done + 1) % Cycle
      /\ Value(next) \in Counter
  BY <1>1, IncrementAddsOne
<1>3. d \in 0..HashBits /\ HashBits \in Nat /\ Difficulty[input] \in Nat
  BY <1>1, <1>2, HashType
<1>4. CASE Solved(d, input)
  <2>1. /\ output' = [kind |-> "FoundSolution", challenge |-> input, nonce |-> next]
        /\ Enter("idle", None)
    BY <1>4 DEF Attempt, Idle, ZeroBits
  <2> HIDE DEF next
  <2>2. TypeOK' /\ SearchInv'
    BY <1>1, <2>1, EnterKeeps DEF PowInv, TypeOK
  <2>3. /\ output'.kind = "FoundSolution" /\ output'.challenge = input
        /\ output'.nonce = next
    BY <2>1
  <2>4. OutputInv'
    BY <1>1, <1>2, <1>4, <2>3 DEF OutputInv, Solved, d
  <2> QED  BY <2>2, <2>4 DEF PowInv
<1>5. CASE ~Solved(d, input)
  <2>1. /\ attempts_done' = (attempts_done + 1) % Cycle
        /\ my_attempt' = next
        /\ max_difficulty_found' = Max({max_difficulty_found, d})
        /\ in_batch' = in_batch + 1
        /\ UNCHANGED <<pc, input, output>>
    BY <1>5 DEF Attempt, ZeroBits, Cycle
  <2>2. Failed(input, Value(next), Max({max_difficulty_found, d}))
    <3>1. max_difficulty_found \in Nat
      BY <1>1, <1>3
    <3> QED  BY <1>1, <1>5, <3>1, FailsOnce
  <2> HIDE DEF next, d
  <2>3. max_difficulty_found' \in 0..HashBits
    <3> DEFINE S == {max_difficulty_found, d}
    <3>1. S \in SUBSET (0..HashBits) /\ S # {}
      BY <1>1, <1>3
    <3> HIDE DEF S
    <3>2. Max(S) \in S
      BY <1>3, <3>1, MaxOf
    <3> QED  BY <2>1, <3>1, <3>2 DEF S
  <2>4. in_batch' \in 0..LoopAttempts
    BY <1>1, <2>1, SizesAssumption
  <2>5. TypeOK'
    BY <1>1, <1>2, <2>1, <2>3, <2>4 DEF PowInv, TypeOK, HashBits
  <2>6. SearchInv'
    BY <1>2, <2>1, <2>2 DEF SearchInv, Failed
  <2>7. OutputInv'
    BY <2>1 DEF PowInv, OutputInv
  <2> QED  BY <2>5, <2>6, <2>7 DEF PowInv
<1> QED  BY <1>4, <1>5

LEMMA ProgressKeeps ==
  ASSUME PowInv, Progress
  PROVE  PowInv'
<1>1. /\ pc = "attempt" /\ pc' = "select"
      /\ UNCHANGED <<input, my_attempt, attempts_done, max_difficulty_found, in_batch,
                     commands, pressed, verdict>>
      /\ output' = [kind |-> "Progress", challenge |-> input,
                    attempts_done |-> attempts_done,
                    max_difficulty_found |-> max_difficulty_found]
  BY DEF Progress
<1>2. /\ output'.kind = "Progress" /\ output'.challenge = input
      /\ output'.attempts_done = attempts_done
      /\ output'.max_difficulty_found = max_difficulty_found
  BY <1>1
<1>3. TypeOK'
  BY <1>1, <1>2 DEF PowInv, TypeOK
<1>4. SearchInv'
  BY <1>1 DEF PowInv, SearchInv
<1>5. OutputInv'
  <2>1. /\ input \in Challenges /\ attempts_done \in Counter
        /\ max_difficulty_found \in 0..HashBits
        /\ Failed(input, attempts_done, max_difficulty_found)
    BY <1>1 DEF PowInv, TypeOK, SearchInv, HashBits
  <2> QED  BY <1>2, <2>1 DEF OutputInv, Failed
<1> QED  BY <1>3, <1>4, <1>5 DEF PowInv

LEMMA PowStep == PowInv /\ [Next]_vars => PowInv'
<1> SUFFICES ASSUME PowInv, [Next]_vars PROVE PowInv'
  OBVIOUS
<1>1. ASSUME NEW c \in Challenges \cup {Stop}, Press(c) PROVE PowInv'
  <2>1. /\ commands \in Seq(Challenges \cup {Stop}) /\ Len(commands) <= pressed
        /\ commands' = Append(commands, c) /\ pressed' = pressed + 1
        /\ pressed \in 0..MaxCommands /\ pressed < MaxCommands
        /\ UNCHANGED <<agentVars, output, verdict>>
    BY <1>1 DEF Press, PowInv, TypeOK
  <2>2. /\ commands' \in Seq(Challenges \cup {Stop}) /\ Len(commands') <= pressed'
        /\ pressed' \in 0..MaxCommands
    BY <2>1, PowBoundsAssumption
  <2> QED  BY <2>1, <2>2, AgentIdles DEF PowInv, TypeOK
<1>2. CASE Yield
  BY <1>2, ContinueKeeps DEF Yield, PowInv, TypeOK
<1>3. ASSUME NEW c \in Challenges, VerifyChallenge(c) PROVE PowInv'
  <2>1. /\ verdict' = [challenge |-> c, solved |-> output.challenge,
                       answer |-> Answer(GetChallenge(c), output.nonce)]
        /\ UNCHANGED <<agentVars, commands, pressed, output>>
    BY <1>3 DEF VerifyChallenge
  <2>2. verdict'.answer = Answer(GetChallenge(c), output.nonce)
    BY <2>1
  <2>3. verdict'.answer \in {"undecodable", "not satisfied", "satisfied"}
    BY <2>2 DEF Answer
  <2> QED  BY <2>1, <2>3, AgentIdles DEF PowInv, TypeOK
<1>4. CASE UNCHANGED vars
  BY <1>4, AgentIdles DEF vars, PowInv, TypeOK
<1> QED
  BY <1>1, <1>2, <1>3, <1>4, AwaitInputKeeps, HearCommandKeeps, AttemptKeeps,
     ProgressKeeps DEF Next, AgentStep

LEMMA PowInit == Init => PowInv
<1> SUFFICES ASSUME Init PROVE PowInv
  OBVIOUS
<1>1. /\ output = [kind |-> None] /\ verdict = [answer |-> None] /\ pc = "idle"
      /\ commands = <<>> /\ pressed = 0
  BY DEF Init
<1>2. output.kind = None /\ verdict.answer = None
  BY <1>1
<1>3. Zeros \in Postfix /\ 0 \in Counter /\ 0 \in 0..LoopAttempts
      /\ 0 \in 0..(ByteBits * HashLength) /\ 0 \in 0..MaxCommands
  BY ZerosIs, CycleIs, SizesAssumption, ProductFacts, PowBoundsAssumption
<1>4. commands \in Seq(Challenges \cup {Stop}) /\ Len(commands) <= pressed
  BY <1>1
<1>5. TypeOK
  BY <1>2, <1>3, <1>4 DEF Init, TypeOK
<1>6. SearchInv /\ OutputInv
  BY <1>1, <1>2 DEF SearchInv, OutputInv, None
<1> QED  BY <1>5, <1>6 DEF PowInv

LEMMA PowInvariant == Spec => []PowInv
BY PowInit, PowStep, PTL DEF Spec

-----------------------------------------------------------------------------
\* Agent, commands and messages are well formed, for any sizes and challenges.
THEOREM PowTypes == Spec => []TypeOK
<1>1. PowInv => TypeOK
  BY DEF PowInv
<1> QED  BY <1>1, PowInvariant, PTL

\* What the agent reports is true of its challenge, for bytes, postfixes and
\* hashes of any size: a solution has the zero bits asked for, and progress
\* counts different postfixes which all failed, the best of them included.
THEOREM ReportsAreAlwaysTrue == Spec => []ReportsAreTrue
<1>1. ASSUME PowInv PROVE ReportsAreTrue
  <2> DEFINE c == output.challenge
             Has(p, n) == HasZeroBits(Hash[c][p], n)
             tried == {p \in Postfix : Value(p) \in 1..output.attempts_done}
             best == output.max_difficulty_found
  <2>1. OutputInv
    BY <1>1 DEF PowInv
  <2>2. ASSUME c \in Challenges
        PROVE  \A p \in Postfix, n \in Nat : Has(p, n) <=> n <= ZeroBits(c, p)
    BY <2>2, HashType, DifficultyCountsZeroBits DEF ZeroBits
  <2>3. ASSUME output.kind = "FoundSolution" PROVE Has(output.nonce, Difficulty[c])
    <3>1. c \in Challenges /\ output.nonce \in Postfix
          /\ ZeroBits(c, output.nonce) >= Difficulty[c]
      BY <2>1, <2>3 DEF OutputInv
    <3>2. Difficulty[c] \in Nat /\ ZeroBits(c, output.nonce) \in Nat
      BY <3>1, HashType
    <3> HIDE DEF Has, c
    <3> QED  BY <2>2, <3>1, <3>2
  <2>4. ASSUME output.kind = "Progress"
        PROVE  /\ \A p \in tried : ~Has(p, Difficulty[c]) /\ ~Has(p, best + 1)
               /\ best > 0 => \E p \in Postfix : Has(p, best)
    <3>1. /\ c \in Challenges /\ best \in 0..HashBits
          /\ Failed(c, output.attempts_done, best)
      BY <2>1, <2>4 DEF OutputInv
    <3>2. best \in Nat /\ best + 1 \in Nat
      <4>1. HashBits \in Nat
        BY SizesAssumption, ProductFacts DEF HashBits
      <4> QED  BY <3>1, <4>1
    <3>3. \A p \in tried : p \in Postfix /\ ZeroBits(c, p) < Difficulty[c]
                           /\ ZeroBits(c, p) <= best
      BY <3>1 DEF Failed
    <3>4. \A p \in Postfix : ZeroBits(c, p) \in Nat /\ Difficulty[c] \in Nat
      BY <3>1, HashType
    <3>5. best > 0 => \E p \in Postfix : ZeroBits(c, p) = best
      BY <3>1 DEF Failed
    <3> HIDE DEF Has, c, best, tried
    <3>6. \A p \in Postfix, n \in Nat : Has(p, n) <=> n <= ZeroBits(c, p)
      BY <2>2, <3>1
    <3>7. ASSUME NEW p \in tried PROVE ~Has(p, Difficulty[c]) /\ ~Has(p, best + 1)
      <4>1. /\ p \in Postfix /\ ZeroBits(c, p) < Difficulty[c] /\ ZeroBits(c, p) <= best
            /\ ZeroBits(c, p) \in Nat /\ Difficulty[c] \in Nat
        BY <3>3, <3>4
      <4> QED  BY <3>2, <3>6, <4>1
    <3>8. best > 0 => \E p \in Postfix : Has(p, best)
      BY <3>2, <3>4, <3>5, <3>6
    <3> QED  BY <3>7, <3>8
  <2> QED  BY <2>3, <2>4 DEF ReportsAreTrue
<1> QED  BY <1>1, PowInvariant, PTL
=============================================================================
