----------------------------- MODULE Codec_proofs -----------------------------
(***************************************************************************)
(* The sparse codec, proved for all windows, thresholds and widths and for *)
(* every representation the network may make of the one that was sent:     *)
(* the caller's samples are guarded, and what arrives whole is recovered   *)
(* to within the error of the quantizer.                                   *)
(***************************************************************************)
EXTENDS Codec, FiniteSetTheorems, WellFoundedInduction, TLAPS

-----------------------------------------------------------------------------
\* Sets of naturals.

\* Every set of naturals has a least element: what an induction over the
\* places of a window is made of.
Descent == {pair \in Nat \X Nat : pair[1] < pair[2]}
LEMMA Least ==
  ASSUME NEW T, T \subseteq Nat, T # {}
  PROVE  \E x \in T : \A y \in T : x <= y
<1>1. IsWellFoundedOn(Descent, Nat)
  BY NatLessThanWellFounded, Zenon DEF OpToRel, Descent
<1>2. PICK x \in T : \A y \in T : ~ (<<y, x>> \in Descent)
  BY <1>1, WFMin
<1>3. \A y \in T : ~(y < x)
  BY <1>2 DEF Descent
<1> QED BY <1>3

\* A bounded set of naturals that is not empty has a greatest element: the
\* least of its upper bounds.
LEMMA GreatestOf ==
  ASSUME NEW S, S \subseteq Nat, S # {}, NEW bound \in Nat, \A x \in S : x <= bound
  PROVE  Max(S) \in S /\ \A y \in S : Max(S) >= y
<1> DEFINE Bounds == {b \in Nat : \A x \in S : x <= b}
<1>1. Bounds \subseteq Nat /\ bound \in Bounds
  OBVIOUS
<1>2. PICK b \in Bounds : \A c \in Bounds : b <= c
  <2> HIDE DEF Bounds
  <2> QED BY <1>1, Least
<1>3. b \in Nat /\ \A x \in S : x <= b
  OBVIOUS
<1>4. b \in S
  <2> SUFFICES ASSUME b \notin S PROVE FALSE
    OBVIOUS
  <2>1. PICK x \in S : TRUE
    OBVIOUS
  <2>2. \A y \in S : y < b
    BY <1>3
  <2>3. b # 0
    BY <2>1, <2>2
  <2>4. b - 1 \in Nat /\ \A y \in S : y <= b - 1
    BY <1>3, <2>2, <2>3
  <2>5. b <= b - 1
    BY <1>2, <2>4
  <2> QED BY <1>3, <2>5
<1>5. \E x \in S : \A y \in S : x >= y
  BY <1>3, <1>4
<1> QED BY <1>5 DEF Max

\* The numbers below each place: counted, they number the members of a set.
Below(S, k) == {j \in S : j < k}

LEMMA BelowFinite ==
  ASSUME NEW S, S \in SUBSET Nat, IsFiniteSet(S), NEW k \in Nat
  PROVE  IsFiniteSet(Below(S, k)) /\ Cardinality(Below(S, k)) \in Nat
<1>1. Below(S, k) \in SUBSET S
  BY DEF Below
<1>2. IsFiniteSet(Below(S, k))
  BY <1>1, FS_Subset
<1> QED BY <1>2, FS_CardinalityType

LEMMA BelowStep ==
  ASSUME NEW S, S \in SUBSET Nat, IsFiniteSet(S), NEW k \in Nat, NEW l \in Nat, l = k + 1
  PROVE  /\ k \in S => Cardinality(Below(S, l)) = Cardinality(Below(S, k)) + 1
         /\ k \notin S => Cardinality(Below(S, l)) = Cardinality(Below(S, k))
<1>1. \A j \in S : j \in Nat
  OBVIOUS
<1>2. \A j \in S : j < l <=> (j < k \/ j = k)
  BY <1>1
<1>3. k \notin Below(S, k)
  BY DEF Below
<1>4. ASSUME k \in S PROVE Below(S, l) = Below(S, k) \cup {k}
  BY <1>2, <1>4, Zenon DEF Below
<1>5. ASSUME k \notin S PROVE Below(S, l) = Below(S, k)
  BY <1>2, <1>5, Zenon DEF Below
<1>6. Cardinality(Below(S, k) \cup {k}) = Cardinality(Below(S, k)) + 1
  <2>1. IsFiniteSet(Below(S, k))
    BY BelowFinite
  <2> QED BY <1>3, <2>1, FS_AddElement, Zenon
<1> QED BY <1>4, <1>5, <1>6, Zenon

LEMMA BelowRises ==
  ASSUME NEW S, S \in SUBSET Nat, IsFiniteSet(S), NEW k \in Nat, NEW l \in Nat, k <= l
  PROVE  /\ Cardinality(Below(S, k)) <= Cardinality(Below(S, l))
         /\ k \in S /\ k < l => Cardinality(Below(S, k)) < Cardinality(Below(S, l))
<1>1. \A i, j \in Nat : i <= j => Cardinality(Below(S, i)) <= Cardinality(Below(S, j))
  <2> TAKE i, j \in Nat
  <2> HAVE i <= j
  <2>1. IsFiniteSet(Below(S, j))
    BY BelowFinite
  <2>2. \A x \in S : x < i => x < j
    <3>1. \A x \in S : x \in Nat
      OBVIOUS
    <3> QED BY <3>1
  <2>3. Below(S, i) \in SUBSET Below(S, j)
    BY <2>2 DEF Below
  <2> QED BY <2>1, <2>3, FS_Subset
<1>2. ASSUME k \in S, k < l PROVE Cardinality(Below(S, k)) < Cardinality(Below(S, l))
  <2> DEFINE m == k + 1
  <2>1. m \in Nat /\ m = k + 1 /\ m <= l
    BY <1>2
  <2> HIDE DEF m
  <2>2. Cardinality(Below(S, m)) = Cardinality(Below(S, k)) + 1
    BY <1>2, <2>1, BelowStep, Zenon
  <2>3. Cardinality(Below(S, m)) <= Cardinality(Below(S, l))
    BY <1>1, <2>1, Zenon
  <2>4. Cardinality(Below(S, k)) \in Nat /\ Cardinality(Below(S, l)) \in Nat
    BY BelowFinite
  <2> QED BY <2>2, <2>3, <2>4
<1> QED BY <1>1, <1>2

\* Every number below the cardinality numbers a member.
LEMMA Numbered ==
  ASSUME NEW n \in Nat, NEW S, S \subseteq 0 .. n - 1, NEW p \in Nat, p < Cardinality(S)
  PROVE  \E i \in S : Cardinality(Below(S, i)) = p
<1>. S \in SUBSET Nat /\ IsFiniteSet(S)
  <2>1. IsFiniteSet(0 .. n - 1) /\ S \in SUBSET (0 .. n - 1)
    BY FS_Interval
  <2>2. IsFiniteSet(S)
    BY <2>1, FS_Subset
  <2> QED BY <2>2
<1> DEFINE Above == {k \in Nat : Cardinality(Below(S, k)) > p}
<1>1. Below(S, n) = S
  <2>1. \A j \in S : j < n
    OBVIOUS
  <2> QED BY <2>1, Zenon DEF Below
<1>2. n \in Above /\ Above \subseteq Nat
  BY <1>1
<1>3. PICK k \in Above : \A l \in Above : k <= l
  <2> HIDE DEF Above
  <2> QED BY <1>2, Least
<1>4. k \in Nat /\ Cardinality(Below(S, k)) > p
  OBVIOUS
<1>5. k # 0
  <2>1. \A j \in S : ~(j < 0)
    OBVIOUS
  <2>3. Below(S, 0) = {}
    BY <2>1, Zenon DEF Below
  <2>2. Cardinality(Below(S, 0)) = 0
    BY <2>3, FS_EmptySet
  <2> QED BY <1>4, <2>2
<1> DEFINE i == k - 1
<1>6. i \in Nat /\ k = i + 1 /\ ~(k <= i)
  BY <1>4, <1>5
<1>7. ~(Cardinality(Below(S, i)) > p)
  BY <1>3, <1>6
<1> HIDE DEF i
<1>8. Cardinality(Below(S, i)) \in Nat
  BY <1>6, BelowFinite
<1>9. /\ i \in S => Cardinality(Below(S, k)) = Cardinality(Below(S, i)) + 1
      /\ i \notin S => Cardinality(Below(S, k)) = Cardinality(Below(S, i))
  BY <1>4, <1>6, BelowStep, Zenon
<1>10. i \in S
  BY <1>4, <1>7, <1>9
<1>11. Cardinality(Below(S, i)) = p
  BY <1>4, <1>7, <1>8, <1>9, <1>10
<1> QED BY <1>10, <1>11

-----------------------------------------------------------------------------
\* The quantizer.

LEMMA PowerPositive ==
  ASSUME NEW n \in 0 .. 14
  PROVE  2 ^ n \in Nat /\ 2 ^ n >= 1
<1> DEFINE Wrong == {m \in 0 .. 14 : ~(2 ^ m \in Nat /\ 2 ^ m >= 1)}
<1>1. Wrong = {}
  <2> SUFFICES ASSUME Wrong # {} PROVE FALSE
    OBVIOUS
  <2>1. PICK k \in Wrong : \A l \in Wrong : k <= l
    <3>1. Wrong \subseteq Nat
      OBVIOUS
    <3> HIDE DEF Wrong
    <3> QED BY <3>1, Least
  <2>2. k \in 0 .. 14 /\ ~(2 ^ k \in Nat /\ 2 ^ k >= 1)
    OBVIOUS
  <2>3. k # 0
    <3>1. 2 ^ 0 \in Nat /\ 2 ^ 0 >= 1
      BY PowersOfTwo
    <3> QED BY <2>2, <3>1, Zenon
  <2> DEFINE j == k - 1
  <2>4. j \in 0 .. 14 /\ k = j + 1 /\ ~(k <= j)
    BY <2>2, <2>3
  <2> HIDE DEF j
  <2>5. j \notin Wrong
    BY <2>1, <2>4, Zenon
  <2>6. 2 ^ j \in Nat /\ 2 ^ j >= 1
    BY <2>4, <2>5
  <2>7. 2 ^ k = 2 * 2 ^ j
    BY <2>4, PowersOfTwo, Zenon
  <2> DEFINE before == 2 ^ j
             power == 2 ^ k
  <2> HIDE DEF before, power
  <2>8. before \in Nat /\ before >= 1 /\ power = 2 * before
    BY <2>6, <2>7 DEF before, power
  <2>9. power \in Nat /\ power >= 1
    BY <2>8
  <2> QED BY <2>2, <2>9 DEF power
<1> QED BY <1>1

\* The greatest integer of a width is odd.
LEMMA MaximumOdd ==
  ASSUME NEW bits \in 2 .. 15
  PROVE  LET maximum == MaximumInteger(bits)
         IN /\ maximum \in Nat /\ maximum >= 1 /\ maximum % 2 = 1
            /\ 2 ^ (bits - 1) = maximum + 1
<1> DEFINE n == bits - 2
           e == bits - 1
<1>1. n \in 0 .. 14 /\ e = n + 1
  OBVIOUS
<1> HIDE DEF n, e
<1>2. 2 ^ e = 2 * 2 ^ n
  BY <1>1, PowersOfTwo, Zenon
<1>3. 2 ^ n \in Nat /\ 2 ^ n >= 1
  BY <1>1, PowerPositive
<1> DEFINE half == 2 ^ n
           whole == 2 ^ e
           maximum == MaximumInteger(bits)
<1>4. maximum = whole - 1
  BY DEF MaximumInteger, e
<1>5. 2 ^ (bits - 1) = whole
  BY DEF e
<1>6. half \in Nat /\ half >= 1 /\ whole = 2 * half
  BY <1>2, <1>3
<1> HIDE DEF half, whole, maximum
<1>7. maximum \in Nat /\ maximum >= 1 /\ maximum % 2 = 1 /\ whole = maximum + 1
  BY <1>4, <1>6
<1> QED BY <1>5, <1>7 DEF maximum

LEMMA MagnitudeOf ==
  ASSUME NEW x \in Int
  PROVE  Magnitude(x) \in Nat /\ (x < 0 => Magnitude(x) = -x) /\ (x >= 0 => Magnitude(x) = x)
  BY DEF Magnitude

\* A rounded quotient is off by at most one half of the divisor.
LEMMA Rounds ==
  ASSUME NEW x \in Nat, NEW d \in Nat, d >= 1
  PROVE  LET q == (2 * x + d) \div (2 * d)
         IN q \in Nat /\ 2 * (q * d) <= 2 * x + d /\ 2 * x < 2 * (q * d) + d
<1> DEFINE a == 2 * x + d
           b == 2 * d
           q == a \div b
           r == a % b
           p == q * d
<1>1. a \in Nat /\ b \in Nat /\ b > 0
  OBVIOUS
<1> HIDE DEF a, b
<1>2. q \in Nat /\ r \in Nat /\ r < b /\ a = b * q + r
  BY <1>1
<1> HIDE DEF q, r
<1>3. b * q = 2 * p /\ p \in Nat
  BY <1>2 DEF b
<1> HIDE DEF p
<1>4. 2 * p <= 2 * x + d /\ 2 * x < 2 * p + d
  BY <1>2, <1>3 DEF a, b
<1> QED BY <1>2, <1>4 DEF p, q, a, b

\* What is quantized fits the width, so the code's two clamps change nothing,
\* and is off by at most half a step.
LEMMA QuantizedSize ==
  ASSUME NEW value \in Int, NEW largest \in Nat, NEW maximum \in Nat,
         largest >= 1, maximum >= 1, Magnitude(value) <= largest
  PROVE  \E size \in 0 .. maximum :
            /\ Quantized(value, largest, maximum) = IF value < 0 THEN -size ELSE size
            /\ 2 * (size * largest) <= 2 * (Magnitude(value) * maximum) + largest
            /\ 2 * (Magnitude(value) * maximum) < 2 * (size * largest) + largest
<1> DEFINE m == Magnitude(value)
           x == m * maximum
           size == (2 * x + largest) \div (2 * largest)
<1>1. m \in Nat /\ m <= largest
  BY MagnitudeOf
<1>2. Quantized(value, largest, maximum) = IF value < 0 THEN -size ELSE size
  <2>1. 2 * m * maximum = 2 * x
    BY <1>1
  <2> QED BY <2>1 DEF Quantized
<1> HIDE DEF m
<1>3. x \in Nat /\ x <= largest * maximum
  <2>1. x \in Nat
    BY <1>1
  <2>2. x <= largest * maximum
    <3>1. PICK rest \in Nat : largest = m + rest
      <4>1. largest - m \in Nat /\ largest = m + (largest - m)
        BY <1>1
      <4> QED BY <4>1
    <3>2. largest * maximum = x + rest * maximum /\ rest * maximum \in Nat
      BY <1>1, <3>1
    <3> QED BY <2>1, <3>2
  <2> QED BY <2>1, <2>2
<1> HIDE DEF x
<1>4. size \in Nat /\ 2 * (size * largest) <= 2 * x + largest /\ 2 * x < 2 * (size * largest) + largest
  BY <1>3, Rounds
<1> HIDE DEF size
<1>5. size <= maximum
  <2> SUFFICES ASSUME size >= maximum + 1 PROVE FALSE
    BY <1>4
  <2>1. PICK more \in Nat : size = maximum + 1 + more
    <3>1. size - (maximum + 1) \in Nat /\ size = maximum + 1 + (size - (maximum + 1))
      BY <1>4
    <3> QED BY <3>1
  <2> DEFINE product == largest * maximum
             extra == more * largest
             whole == size * largest
  <2>2. whole = product + largest + extra
    BY <2>1
  <2>3. product \in Nat /\ extra \in Nat
    OBVIOUS
  <2>4. x <= product /\ 2 * whole <= 2 * x + largest
    BY <1>3, <1>4
  <2> HIDE DEF product, extra, whole
  <2> QED BY <1>3, <2>2, <2>3, <2>4
<1>6. size \in 0 .. maximum
  BY <1>4, <1>5
<1> QED BY <1>2, <1>4, <1>6 DEF x, m

\* The scale is the nearest to a step; it is zero only below half a unit.
LEMMA ScaleNear ==
  ASSUME NEW largest \in Nat, NEW maximum \in Nat, largest >= 1, maximum >= 1, maximum % 2 = 1
  PROVE  LET scale == Scale(largest, maximum)
         IN /\ scale \in Nat
            /\ 2 * (scale * maximum) <= 2 * largest + maximum
            /\ 2 * largest <= 2 * (scale * maximum) + maximum
            /\ scale = 0 <=> ~(2 * largest > maximum)
<1> DEFINE scale == Scale(largest, maximum)
           p == scale * maximum
<1>1. scale = (2 * largest + maximum) \div (2 * maximum)
  BY DEF Scale
<1>2. scale \in Nat /\ 2 * p <= 2 * largest + maximum /\ 2 * largest < 2 * p + maximum
  BY <1>1, Rounds
<1> HIDE DEF scale
<1>3. p \in Nat /\ (scale = 0 => p = 0) /\ (scale # 0 => p >= maximum)
  BY <1>2
<1>4. 2 * largest # maximum
  OBVIOUS
<1> HIDE DEF p
<1>5. scale = 0 <=> ~(2 * largest > maximum)
  <2>1. ASSUME scale = 0 PROVE ~(2 * largest > maximum)
    BY <1>2, <1>3, <2>1
  <2>2. ASSUME scale # 0 PROVE 2 * largest > maximum
    BY <1>2, <1>3, <1>4, <2>2
  <2> QED BY <2>1, <2>2
<1> QED BY <1>2, <1>5 DEF p, scale

\* A coefficient that is scaled back is off by half a step and half a unit
\* for each of its steps.
LEMMA ScaledBack ==
  ASSUME NEW size \in Nat, NEW scale \in Nat, NEW value \in Nat, NEW largest \in Nat, NEW maximum \in Nat,
         size <= maximum,
         2 * (size * largest) <= 2 * (value * maximum) + largest,
         2 * (value * maximum) <= 2 * (size * largest) + largest,
         2 * (scale * maximum) <= 2 * largest + maximum,
         2 * largest <= 2 * (scale * maximum) + maximum
  PROVE  2 * maximum * Magnitude(size * scale - value) <= largest + maximum * maximum
<1> DEFINE sl == size * largest
           vm == value * maximum
           sm == scale * maximum
           back == size * scale
           mm == maximum * maximum
           bm == back * maximum
<1>1. size * maximum <= mm /\ size * maximum \in Nat
  <2>1. PICK rest \in Nat : maximum = size + rest
    <3>1. maximum - size \in Nat /\ maximum = size + (maximum - size)
      OBVIOUS
    <3> QED BY <3>1
  <2>2. mm = size * maximum + rest * maximum /\ rest * maximum \in Nat
    BY <2>1
  <2>3. size * maximum \in Nat
    OBVIOUS
  <2> QED BY <2>2, <2>3
<1> DEFINE most == size * maximum
<1>2. 2 * bm <= 2 * sl + most
  <2>1. size * (2 * largest + maximum - 2 * sm) >= 0
    <3> DEFINE slack == 2 * largest + maximum - 2 * sm
    <3>1. slack \in Nat
      OBVIOUS
    <3> HIDE DEF slack
    <3>2. size * slack >= 0
      BY <3>1
    <3> QED BY <3>2 DEF slack
  <2>2. size * (2 * largest + maximum - 2 * sm) = 2 * sl + most - 2 * bm
    OBVIOUS
  <2>3. sl \in Int /\ most \in Int /\ bm \in Int
    OBVIOUS
  <2> HIDE DEF sl, most, bm
  <2> QED BY <2>1, <2>2, <2>3
<1>3. 2 * sl <= 2 * bm + most
  <2>1. size * (2 * sm + maximum - 2 * largest) >= 0
    <3> DEFINE slack == 2 * sm + maximum - 2 * largest
    <3>1. slack \in Nat
      OBVIOUS
    <3> HIDE DEF slack
    <3>2. size * slack >= 0
      BY <3>1
    <3> QED BY <3>2 DEF slack
  <2>2. size * (2 * sm + maximum - 2 * largest) = 2 * bm + most - 2 * sl
    OBVIOUS
  <2>3. sl \in Int /\ most \in Int /\ bm \in Int
    OBVIOUS
  <2> HIDE DEF sl, most, bm
  <2> QED BY <2>1, <2>2, <2>3
<1>4. 2 * sl <= 2 * vm + largest /\ 2 * vm <= 2 * sl + largest
  OBVIOUS
<1>5. sl \in Int /\ vm \in Int /\ bm \in Int /\ most \in Int /\ mm \in Int
  OBVIOUS
<1>6. 2 * maximum * (back - value) = 2 * bm - 2 * vm
  OBVIOUS
<1>7. 2 * bm - 2 * vm <= largest + mm /\ 2 * vm - 2 * bm <= largest + mm
  <2>1. most <= mm
    BY <1>1
  <2> HIDE DEF sl, vm, bm, most, mm
  <2> QED BY <1>2, <1>3, <1>4, <1>5, <2>1
<1> DEFINE off == back - value
<1>8. off \in Int
  OBVIOUS
<1>9. 2 * maximum * off <= largest + mm /\ 2 * maximum * (-off) <= largest + mm
  <2>1. 2 * maximum * (-off) = 2 * vm - 2 * bm
    OBVIOUS
  <2> QED BY <1>6, <1>7, <2>1
<1> HIDE DEF off
<1>10. Magnitude(off) \in {off, -off}
  BY <1>8 DEF Magnitude
<1> QED BY <1>9, <1>10 DEF off

-----------------------------------------------------------------------------
\* Windows.

\* The greatest magnitude of a window.
LEMMA LargestOf ==
  ASSUME NEW n \in Nat, n >= 1, NEW w \in [0 .. n - 1 -> Int]
  PROVE  /\ Largest(w) \in Nat
         /\ \A i \in 0 .. n - 1 : Magnitude(w[i]) <= Largest(w)
         /\ \E i \in 0 .. n - 1 : Magnitude(w[i]) = Largest(w)
<1> DEFINE Bounded(k) == \E b \in Nat : \A i \in 0 .. n - 1 : i < k => Magnitude(w[i]) <= b
           Unbounded == {k \in Nat : ~Bounded(k)}
           S == {Magnitude(w[i]) : i \in 0 .. n - 1}
<1>1. \A i \in 0 .. n - 1 : Magnitude(w[i]) \in Nat
  <2>1. \A i \in 0 .. n - 1 : w[i] \in Int
    OBVIOUS
  <2> QED BY <2>1, MagnitudeOf
<1>2. Unbounded = {}
  <2> SUFFICES ASSUME Unbounded # {} PROVE FALSE
    OBVIOUS
  <2>1. PICK k \in Unbounded : \A l \in Unbounded : k <= l
    <3>1. Unbounded \subseteq Nat
      OBVIOUS
    <3> HIDE DEF Unbounded
    <3> QED BY <3>1, Least
  <2>2. k \in Nat /\ ~Bounded(k)
    OBVIOUS
  <2>3. k # 0
    <3>1. \A i \in 0 .. n - 1 : ~(i < 0)
      OBVIOUS
    <3>2. 0 \in Nat
      OBVIOUS
    <3>3. Bounded(0)
      BY <3>1, <3>2, Zenon
    <3> QED BY <2>2, <3>3, Zenon
  <2> DEFINE j == k - 1
  <2>4. j \in Nat /\ k = j + 1 /\ ~(k <= j)
    BY <2>2, <2>3
  <2> HIDE DEF j
  <2>5. j \notin Unbounded
    BY <2>1, <2>4, Zenon
  <2>6. PICK b \in Nat : \A i \in 0 .. n - 1 : i < j => Magnitude(w[i]) <= b
    BY <2>4, <2>5
  <2>7. \A i \in 0 .. n - 1 : i < k => (i < j \/ i = j)
    BY <2>4
  <2>8. CASE j \in 0 .. n - 1
    <3> DEFINE m == Magnitude(w[j])
    <3>1. m \in Nat
      BY <1>1, <2>8, Zenon
    <3> DEFINE c == b + m
    <3>2. c \in Nat /\ m <= c /\ \A x \in Nat : x <= b => x <= c
      <4> HIDE DEF m
      <4> QED BY <3>1
    <3> HIDE DEF c
    <3>3. \A i \in 0 .. n - 1 : i < k => Magnitude(w[i]) <= c
      BY <1>1, <2>6, <2>7, <3>2, Zenon
    <3>4. Bounded(k)
      BY <3>2, <3>3, Zenon
    <3> QED BY <2>2, <3>4, Zenon
  <2>9. CASE j \notin 0 .. n - 1
    <3>1. \A i \in 0 .. n - 1 : i < k => Magnitude(w[i]) <= b
      BY <2>6, <2>7, <2>9, Zenon
    <3>2. Bounded(k)
      BY <3>1, Zenon
    <3> QED BY <2>2, <3>2, Zenon
  <2> QED BY <2>8, <2>9
<1>3. Bounded(n)
  <2> HIDE DEF Bounded
  <2> QED BY <1>2
<1>4. PICK b \in Nat : \A i \in 0 .. n - 1 : Magnitude(w[i]) <= b
  <2>1. \A i \in 0 .. n - 1 : i < n
    OBVIOUS
  <2> QED BY <1>3, <2>1
<1> HIDE DEF Bounded, Unbounded
<1>5. S \subseteq Nat /\ \A x \in S : x <= b
  BY <1>1, <1>4
<1>6. S # {}
  <2>1. 0 \in 0 .. n - 1
    OBVIOUS
  <2>2. Magnitude(w[0]) \in S
    BY <2>1
  <2> QED BY <2>2
<1>7. Max(S) \in S /\ \A y \in S : Max(S) >= y
  <2> HIDE DEF S
  <2> QED BY <1>5, <1>6, GreatestOf
<1>8. Largest(w) = Max(S)
  <2>1. DOMAIN w = 0 .. n - 1
    OBVIOUS
  <2> QED BY <2>1 DEF Largest
<1> DEFINE largest == Max(S)
<1>9. largest \in S
  BY <1>7
<1>10. \A i \in 0 .. n - 1 : Magnitude(w[i]) \in S
  OBVIOUS
<1>11. \A i \in 0 .. n - 1 : largest >= Magnitude(w[i])
  BY <1>7, <1>10
<1>12. largest \in Nat
  BY <1>5, <1>9
<1>13. \E i \in 0 .. n - 1 : Magnitude(w[i]) = largest
  <2> HIDE DEF largest
  <2> QED BY <1>9
<1> HIDE DEF largest
<1>14. \A i \in 0 .. n - 1 : Magnitude(w[i]) <= largest
  BY <1>1, <1>11, <1>12
<1> QED BY <1>8, <1>12, <1>13, <1>14, Zenon DEF largest

\* Soft thresholding moves a coefficient towards zero, by at most the
\* threshold and not at all before "first".
LEMMA ThresholdMoves ==
  ASSUME NEW n \in Nat, NEW w \in [0 .. n - 1 -> Int], NEW first \in Int, NEW threshold \in Int
  PROVE  LET kept == SoftThresholded(w, first, threshold)
         IN /\ kept \in [0 .. n - 1 -> Int]
            /\ \A i \in 0 .. n - 1 :
                 /\ Magnitude(kept[i]) <= Magnitude(w[i])
                 /\ Magnitude(kept[i] - w[i])
                      <= IF i < first \/ threshold < 0 THEN 0 ELSE threshold
<1> DEFINE kept == SoftThresholded(w, first, threshold)
<1>1. DOMAIN w = 0 .. n - 1 /\ \A i \in 0 .. n - 1 : w[i] \in Int
  OBVIOUS
<1>2. kept = [i \in 0 .. n - 1 |-> kept[i]]
  <2> DEFINE Moved(i) ==
        CASE i < first \/ threshold < 0 -> w[i]
          [] i >= first /\ threshold >= 0 /\ Magnitude(w[i]) <= threshold -> 0
          [] i >= first /\ threshold >= 0 /\ w[i] > threshold -> w[i] - threshold
          [] i >= first /\ threshold >= 0 /\ w[i] < -threshold -> w[i] + threshold
  <2>1. kept = [i \in 0 .. n - 1 |-> Moved(i)]
    BY <1>1, Zenon DEF SoftThresholded
  <2> HIDE DEF Moved, kept
  <2> QED BY <2>1
<1>3. ASSUME NEW i \in 0 .. n - 1
      PROVE  /\ kept[i] \in Int
             /\ Magnitude(kept[i]) <= Magnitude(w[i])
             /\ Magnitude(kept[i] - w[i])
                  <= IF i < first \/ threshold < 0 THEN 0 ELSE threshold
  <2> DEFINE x == w[i]
             k == kept[i]
             m == Magnitude(x)
  <2>1. x \in Int
    OBVIOUS
  <2>2. m \in Nat /\ (x < 0 => m = -x) /\ (x >= 0 => m = x)
    BY <2>1, MagnitudeOf
  <2>3. k = CASE i < first \/ threshold < 0 -> x
              [] i >= first /\ threshold >= 0 /\ m <= threshold -> 0
              [] i >= first /\ threshold >= 0 /\ x > threshold -> x - threshold
              [] i >= first /\ threshold >= 0 /\ x < -threshold -> x + threshold
    BY <1>1, Zenon DEF SoftThresholded
  <2> HIDE DEF x, k, m
  <2>4. CASE i < first \/ threshold < 0
    <3>1. /\ ~(i >= first /\ threshold >= 0 /\ m <= threshold)
          /\ ~(i >= first /\ threshold >= 0 /\ x > threshold)
          /\ ~(i >= first /\ threshold >= 0 /\ x < -threshold)
      BY <2>1, <2>2, <2>4
    <3>2. k = x
      BY <2>3, <2>4, <3>1, Zenon
    <3>3. Magnitude(k - x) = 0
      BY <2>1, <3>2 DEF Magnitude
    <3>4. m <= m /\ 0 <= 0
      BY <2>2
    <3> QED BY <2>1, <2>4, <3>2, <3>3, <3>4 DEF x, k, m
  <2>5. CASE ~(i < first \/ threshold < 0)
    <3>1. i >= first /\ threshold >= 0
      BY <2>5
    <3>2. CASE m <= threshold
      <4>1. ~(x > threshold) /\ ~(x < -threshold)
        BY <2>1, <2>2, <3>1, <3>2
      <4>2. k = 0
        BY <2>3, <2>5, <3>1, <3>2, <4>1, Zenon
      <4>3. Magnitude(k) <= m /\ Magnitude(k - x) <= threshold
        BY <2>1, <2>2, <3>2, <4>2 DEF Magnitude
      <4> QED BY <2>5, <4>2, <4>3 DEF x, k, m
    <3>3. CASE x > threshold
      <4>1. ~(m <= threshold) /\ ~(x < -threshold)
        BY <2>1, <2>2, <3>1, <3>3
      <4>2. k = x - threshold
        BY <2>3, <2>5, <3>1, <3>3, <4>1, Zenon
      <4>3. k \in Int /\ Magnitude(k) <= m /\ Magnitude(k - x) <= threshold
        BY <2>1, <2>2, <3>1, <3>3, <4>2 DEF Magnitude
      <4> QED BY <2>5, <4>3 DEF x, k, m
    <3>4. CASE x < -threshold
      <4>1. ~(m <= threshold) /\ ~(x > threshold)
        BY <2>1, <2>2, <3>1, <3>4
      <4>2. k = x + threshold
        BY <2>3, <2>5, <3>1, <3>4, <4>1, Zenon
      <4>3. k \in Int /\ Magnitude(k) <= m /\ Magnitude(k - x) <= threshold
        BY <2>1, <2>2, <3>1, <3>4, <4>2 DEF Magnitude
      <4> QED BY <2>5, <4>3 DEF x, k, m
    <3> QED BY <2>1, <2>2, <3>1, <3>2, <3>3, <3>4
  <2> QED BY <2>4, <2>5
<1> HIDE DEF kept
<1>4. kept \in [0 .. n - 1 -> Int]
  BY <1>2, <1>3
<1>5. \A i \in 0 .. n - 1 :
         /\ Magnitude(kept[i]) <= Magnitude(w[i])
         /\ Magnitude(kept[i] - w[i])
              <= IF i < first \/ threshold < 0 THEN 0 ELSE threshold
  BY <1>3
<1> QED BY <1>4, <1>5 DEF kept

-----------------------------------------------------------------------------
\* The pair stream.

\* The values of a window that are not zero, in the order of their places.
Stream(pairs, values, n) ==
  /\ pairs \in Seq([index : 0 .. n - 1, quantized : Int])
  /\ \A p, q \in 1 .. Len(pairs) : p < q => pairs[p].index < pairs[q].index
  /\ \A p \in 1 .. Len(pairs) : pairs[p].quantized = values[pairs[p].index]
  /\ \A i \in 0 .. n - 1 : values[i] # 0 => \E p \in 1 .. Len(pairs) : pairs[p].index = i

\* The members of a set of places, numbered by the members below them.
LEMMA Enumerated ==
  ASSUME NEW n \in Nat, NEW S, S \subseteq 0 .. n - 1
  PROVE  LET N == Cardinality(S)
             at == [p \in 1 .. N |-> CHOOSE i \in S : Cardinality(Below(S, i)) = p - 1]
         IN /\ N \in Nat /\ at \in [1 .. N -> S]
            /\ \A p, q \in 1 .. N : p < q => at[p] < at[q]
            /\ \A i \in S : \E p \in 1 .. N : at[p] = i
<1> DEFINE N == Cardinality(S)
           at == [p \in 1 .. N |-> CHOOSE i \in S : Cardinality(Below(S, i)) = p - 1]
<1>1. S \in SUBSET Nat /\ IsFiniteSet(S) /\ N \in Nat
  <2>1. IsFiniteSet(0 .. n - 1) /\ S \in SUBSET (0 .. n - 1)
    BY FS_Interval
  <2>2. IsFiniteSet(S)
    BY <2>1, FS_Subset
  <2> QED BY <2>2, FS_CardinalityType
<1>2. ASSUME NEW p \in 1 .. N
      PROVE  at[p] \in S /\ Cardinality(Below(S, at[p])) = p - 1
  <2> DEFINE b == p - 1
  <2>1. b \in Nat /\ b < N
    BY <1>1
  <2> HIDE DEF b
  <2>2. \E i \in S : Cardinality(Below(S, i)) = b
    BY <2>1, Numbered
  <2>3. at[p] = CHOOSE i \in S : Cardinality(Below(S, i)) = b
    BY Zenon DEF b
  <2> HIDE DEF at
  <2>4. at[p] \in S /\ Cardinality(Below(S, at[p])) = b
    BY <2>2, <2>3, Zenon
  <2> QED BY <2>4 DEF b
<1>3. at \in [1 .. N -> S]
  BY <1>2
<1> HIDE DEF at
<1>4. \A k, l \in Nat : k <= l => Cardinality(Below(S, k)) <= Cardinality(Below(S, l))
  BY <1>1, BelowRises
<1>5. \A k, l \in Nat : k \in S /\ k < l => Cardinality(Below(S, k)) < Cardinality(Below(S, l))
  <2> SUFFICES ASSUME NEW k \in Nat, NEW l \in Nat, k \in S, k < l
               PROVE  Cardinality(Below(S, k)) < Cardinality(Below(S, l))
    OBVIOUS
  <2>1. k <= l
    OBVIOUS
  <2> QED BY <1>1, <2>1, BelowRises
<1>6. ASSUME NEW p \in 1 .. N, NEW q \in 1 .. N, p < q PROVE at[p] < at[q]
  <2> DEFINE k == at[q]
             l == at[p]
  <2>1. k \in Nat /\ l \in Nat
    BY <1>1, <1>2, Zenon
  <2>2. Cardinality(Below(S, k)) = q - 1 /\ Cardinality(Below(S, l)) = p - 1
    BY <1>2, Zenon
  <2> HIDE DEF k, l
  <2>3. ~(Cardinality(Below(S, k)) <= Cardinality(Below(S, l)))
    BY <1>6, <2>2
  <2>4. ~(k <= l)
    BY <1>4, <2>1, <2>3, Zenon
  <2>5. l < k
    BY <2>1, <2>4
  <2> QED BY <2>5 DEF k, l
<1>7. ASSUME NEW i \in S PROVE \E p \in 1 .. N : at[p] = i
  <2> DEFINE b == Cardinality(Below(S, i))
             p == b + 1
  <2>1. i \in Nat /\ n \in Nat /\ i < n
    OBVIOUS
  <2>2. Below(S, n) = S
    <3>1. \A j \in S : j < n
      OBVIOUS
    <3> QED BY <3>1, Zenon DEF Below
  <2>3. b < N
    BY <1>5, <2>1, <2>2, Zenon
  <2>4. b \in Nat
    BY <1>1, <2>1, BelowFinite
  <2> HIDE DEF b
  <2>5. p \in 1 .. N /\ p - 1 = b
    BY <1>1, <2>3, <2>4
  <2> HIDE DEF p
  <2> DEFINE k == at[p]
  <2>6. k \in S /\ Cardinality(Below(S, k)) = b
    BY <1>2, <2>5
  <2>7. k \in Nat
    BY <1>1, <2>6
  <2> HIDE DEF k
  <2>8. ~(Cardinality(Below(S, k)) < b) /\ ~(b < Cardinality(Below(S, k)))
    BY <2>4, <2>6
  <2>9. ~(i < k) /\ ~(k < i)
    BY <1>5, <2>1, <2>6, <2>7, <2>8, Zenon DEF b
  <2>10. k = i
    BY <2>1, <2>7, <2>9
  <2> QED BY <2>5, <2>10, Zenon DEF k
<1>8. \A p, q \in 1 .. N : p < q => at[p] < at[q]
  BY <1>6
<1>9. \A i \in S : \E p \in 1 .. N : at[p] = i
  BY <1>7
<1> QED BY <1>1, <1>3, <1>8, <1>9, Zenon DEF at

LEMMA PairsOf ==
  ASSUME NEW n \in Nat, n >= 1, NEW w \in [0 .. n - 1 -> Int], NEW bits \in 2 .. 15
  PROVE  LET largest == Largest(w)
             maximum == MaximumInteger(bits)
             values == [i \in 0 .. n - 1 |->
                          IF largest = 0 THEN 0 ELSE Quantized(w[i], largest, maximum)]
         IN values \in [0 .. n - 1 -> Int] /\ Stream(Pairs(w, bits), values, n)
<1> DEFINE largest == Largest(w)
           maximum == MaximumInteger(bits)
           values == [i \in 0 .. n - 1 |->
                        IF largest = 0 THEN 0 ELSE Quantized(w[i], largest, maximum)]
           S == {i \in 0 .. n - 1 : values[i] # 0}
           N == Cardinality(S)
           at == [p \in 1 .. N |-> CHOOSE i \in S : Cardinality(Below(S, i)) = p - 1]
           pairs == [p \in 1 .. N |-> [index |-> at[p], quantized |-> values[at[p]]]]
<1>1. largest \in Nat /\ \A i \in 0 .. n - 1 : w[i] \in Int /\ Magnitude(w[i]) <= largest
  BY LargestOf
<1>2. maximum \in Nat /\ maximum >= 1
  BY MaximumOdd
<1>3. \A i \in 0 .. n - 1 : (IF largest = 0 THEN 0 ELSE Quantized(w[i], largest, maximum)) \in Int
  <2> HIDE DEF largest, maximum
  <2> SUFFICES ASSUME NEW i \in 0 .. n - 1, largest # 0
               PROVE  Quantized(w[i], largest, maximum) \in Int
    OBVIOUS
  <2>1. largest >= 1
    BY <1>1
  <2> DEFINE x == w[i]
  <2>2. x \in Int /\ Magnitude(x) <= largest
    BY <1>1
  <2> HIDE DEF x
  <2>3. PICK size \in 0 .. maximum :
          Quantized(x, largest, maximum) = IF x < 0 THEN -size ELSE size
    <3>1. \E size \in 0 .. maximum :
             /\ Quantized(x, largest, maximum) = IF x < 0 THEN -size ELSE size
             /\ 2 * (size * largest) <= 2 * (Magnitude(x) * maximum) + largest
             /\ 2 * (Magnitude(x) * maximum) < 2 * (size * largest) + largest
      BY <1>1, <1>2, <2>1, <2>2, QuantizedSize, Zenon
    <3> QED BY <3>1, Zenon
  <2>4. Quantized(x, largest, maximum) \in Int
    BY <1>2, <2>3
  <2> QED BY <2>4 DEF x
<1>4. values \in [0 .. n - 1 -> Int]
  <2> HIDE DEF largest, maximum
  <2> QED BY <1>3
<1>5. Pairs(w, bits) = pairs
  <2> DEFINE Value(i) == IF largest = 0 THEN 0 ELSE Quantized(w[i], largest, maximum)
             nonzero == {i \in DOMAIN w : Value(i) # 0}
             At(p) == CHOOSE i \in nonzero : Cardinality({j \in nonzero : j < i}) = p - 1
  <2>1. Pairs(w, bits) = [p \in 1 .. Cardinality(nonzero) |->
                            [index |-> At(p), quantized |-> Value(At(p))]]
    BY Zenon DEF Pairs
  <2>2. DOMAIN w = 0 .. n - 1
    OBVIOUS
  <2>3. \A i \in 0 .. n - 1 : values[i] = Value(i)
    OBVIOUS
  <2>4. nonzero = S
    BY <2>2, <2>3, Zenon
  <2> HIDE DEF Value, values
  <2>5. \A p : At(p) = CHOOSE i \in S : Cardinality(Below(S, i)) = p - 1
    BY <2>4, Zenon DEF Below
  <2>6. \A p \in 1 .. N : at[p] = At(p)
    BY <2>5, Zenon
  <2>7. \A p \in 1 .. N : at[p] \in 0 .. n - 1
    <3>1. S \subseteq 0 .. n - 1
      OBVIOUS
    <3> HIDE DEF S, At, nonzero
    <3>2. at \in [1 .. N -> S]
      BY <3>1, Enumerated
    <3> QED BY <3>1, <3>2
  <2> HIDE DEF At, at, nonzero
  <2>8. \A p \in 1 .. N : values[at[p]] = Value(At(p))
    BY <2>3, <2>6, <2>7, Zenon
  <2> QED BY <2>1, <2>4, <2>6, <2>8, Zenon
<1> HIDE DEF values
<1>6. S \subseteq 0 .. n - 1
  OBVIOUS
<1>7. /\ N \in Nat /\ at \in [1 .. N -> S]
      /\ \A p, q \in 1 .. N : p < q => at[p] < at[q]
      /\ \A i \in S : \E p \in 1 .. N : at[p] = i
  <2> HIDE DEF S
  <2> QED BY <1>6, Enumerated
<1> HIDE DEF at, N
<1>8. \A p \in 1 .. N : at[p] \in 0 .. n - 1 /\ values[at[p]] \in Int
  BY <1>4, <1>7
<1>9. pairs \in [1 .. N -> [index : 0 .. n - 1, quantized : Int]]
  BY <1>8
<1>10. pairs \in Seq([index : 0 .. n - 1, quantized : Int]) /\ Len(pairs) = N
  BY <1>7, <1>9
<1>11. \A p \in 1 .. N : pairs[p].index = at[p] /\ pairs[p].quantized = values[at[p]]
  OBVIOUS
<1> HIDE DEF pairs
<1>12. \A i \in 0 .. n - 1 : values[i] # 0 => i \in S
  OBVIOUS
<1> HIDE DEF S
<1>13. Stream(pairs, values, n)
  <2>1. \A p, q \in 1 .. N : p < q => pairs[p].index < pairs[q].index
    BY <1>7, <1>11
  <2>2. \A p \in 1 .. N : pairs[p].quantized = values[pairs[p].index]
    BY <1>11
  <2>3. \A i \in 0 .. n - 1 : values[i] # 0 => \E p \in 1 .. N : pairs[p].index = i
    <3> SUFFICES ASSUME NEW i \in 0 .. n - 1, values[i] # 0
                 PROVE  \E p \in 1 .. N : pairs[p].index = i
      OBVIOUS
    <3>1. PICK p \in 1 .. N : at[p] = i
      BY <1>7, <1>12
    <3>2. pairs[p].index = i
      BY <1>11, <3>1
    <3> QED BY <3>2
  <2> QED BY <1>10, <2>1, <2>2, <2>3, Zenon DEF Stream
<1> QED BY <1>4, <1>5, <1>13, Zenon DEF values

-----------------------------------------------------------------------------
\* A call of the encoder.

Count == Cardinality(DOMAIN coefficients)
KeptWindow == Kept(coefficients, settings)
Step == MaximumInteger(settings.quant_bits)
Values ==
  [i \in 0 .. Count - 1 |->
     IF Largest(KeptWindow) = 0 THEN 0 ELSE Quantized(KeptWindow[i], Largest(KeptWindow), Step)]
Allowed(i) ==
  IF i < Count \div 2 ^ settings.levels \/ settings.threshold < 0 THEN 0 ELSE settings.threshold

Accepted == settings \in Calls /\ validate_transform(Count, settings.levels)

LEMMA CallTyped ==
  ASSUME Accepted
  PROVE  /\ Count \in 8 .. ADAPTIVE_MAX_WINDOW /\ Count \in Nat /\ Count >= 1
         /\ coefficients \in [0 .. Count - 1 -> Int]
         /\ settings.levels \in 1 .. 8 /\ settings.quant_bits \in 2 .. 15
         /\ settings.threshold \in Int /\ settings.state \in 0 .. ADAPTIVE_STATE_COUNT - 1
         /\ Count \div 2 ^ settings.levels \in Int
<1>1. Count \in 8 .. ADAPTIVE_MAX_WINDOW
  BY DEF Accepted, validate_transform
<1>2. Count \in Nat /\ Count >= 1
  BY <1>1 DEF ADAPTIVE_MAX_WINDOW
<1>3. /\ coefficients \in [0 .. Count - 1 -> Int]
      /\ settings.levels \in 1 .. 8 /\ settings.quant_bits \in 2 .. 15
      /\ settings.threshold \in Int /\ settings.state \in 0 .. ADAPTIVE_STATE_COUNT - 1
  BY CallsAssumption, Zenon DEF Accepted, Count, coefficients
<1>4. Count \div 2 ^ settings.levels \in Int
  <2> DEFINE levels == settings.levels
             power == 2 ^ levels
  <2>1. levels \in 0 .. 14
    BY <1>3
  <2> HIDE DEF levels
  <2>2. power \in Nat /\ power >= 1
    BY <2>1, PowerPositive
  <2> HIDE DEF power
  <2>3. Count \div power \in Int
    BY <1>2, <2>2
  <2> QED BY <2>3 DEF power, levels
<1> QED BY <1>1, <1>2, <1>3, <1>4

LEMMA KeptOf ==
  ASSUME Accepted
  PROVE  /\ KeptWindow \in [0 .. Count - 1 -> Int]
         /\ Largest(KeptWindow) \in Nat /\ Largest(coefficients) \in Nat
         /\ Largest(KeptWindow) <= Largest(coefficients)
         /\ \A i \in 0 .. Count - 1 :
              /\ Magnitude(KeptWindow[i]) <= Largest(KeptWindow)
              /\ Magnitude(KeptWindow[i] - coefficients[i]) <= Allowed(i)
<1> DEFINE n == Count
           w == coefficients
           first == n \div 2 ^ settings.levels
           threshold == settings.threshold
           kept == SoftThresholded(w, first, threshold)
<1>1. n \in Nat /\ n >= 1 /\ w \in [0 .. n - 1 -> Int] /\ first \in Int /\ threshold \in Int
  BY CallTyped
<1>2. KeptWindow = kept
  BY Zenon DEF KeptWindow, Kept, Count
<1>3. \A i : Allowed(i) = IF i < first \/ threshold < 0 THEN 0 ELSE threshold
  BY Zenon DEF Allowed
<1> HIDE DEF n, w, first, threshold
<1>4. /\ kept \in [0 .. n - 1 -> Int]
      /\ \A i \in 0 .. n - 1 :
           /\ Magnitude(kept[i]) <= Magnitude(w[i])
           /\ Magnitude(kept[i] - w[i]) <= IF i < first \/ threshold < 0 THEN 0 ELSE threshold
  BY <1>1, ThresholdMoves
<1> HIDE DEF kept
<1>5. /\ Largest(w) \in Nat
      /\ \A i \in 0 .. n - 1 : Magnitude(w[i]) <= Largest(w)
  BY <1>1, LargestOf
<1>6. /\ Largest(kept) \in Nat
      /\ \A i \in 0 .. n - 1 : Magnitude(kept[i]) <= Largest(kept)
      /\ \E i \in 0 .. n - 1 : Magnitude(kept[i]) = Largest(kept)
  BY <1>1, <1>4, LargestOf
<1>7. Largest(kept) <= Largest(w)
  <2>1. PICK i \in 0 .. n - 1 : Magnitude(kept[i]) = Largest(kept)
    BY <1>6
  <2>2. Magnitude(kept[i]) <= Magnitude(w[i]) /\ Magnitude(w[i]) <= Largest(w)
    BY <1>4, <1>5
  <2>3. Magnitude(w[i]) \in Nat
    <3>1. w[i] \in Int
      BY <1>1
    <3> QED BY <3>1, MagnitudeOf
  <2> QED BY <1>5, <1>6, <2>1, <2>2, <2>3
<1>8. \A i \in 0 .. n - 1 : Magnitude(kept[i] - w[i]) <= Allowed(i)
  BY <1>3, <1>4
<1> QED BY <1>2, <1>4, <1>5, <1>6, <1>7, <1>8 DEF n, w

LEMMA TriangleOf ==
  ASSUME NEW x \in Int, NEW k \in Int, NEW c \in Int
  PROVE  Magnitude(x - c) <= Magnitude(x - k) + Magnitude(k - c)
  BY DEF Magnitude

\* What becomes of one coefficient.
LEMMA ValueOf ==
  ASSUME Accepted, NEW i \in 0 .. Count - 1
  PROVE  LET scale == Scale(Largest(KeptWindow), Step)
         IN /\ Values[i] \in Int /\ Magnitude(Values[i]) <= Step
            /\ scale \in Int
            /\ 2 * Step * Magnitude(Values[i] * scale - coefficients[i])
                 <= Largest(coefficients) + Step * Step + 2 * Step * Allowed(i)
<1> DEFINE largest == Largest(KeptWindow)
           most == Largest(coefficients)
           scale == Scale(largest, Step)
           k == KeptWindow[i]
           c == coefficients[i]
           v == Values[i]
           m == Magnitude(k)
           allowed == Allowed(i)
           step == Step
           square == step * step
<1>1. step \in Nat /\ step >= 1 /\ step % 2 = 1
  <2>1. settings.quant_bits \in 2 .. 15
    BY CallTyped
  <2> QED BY <2>1, MaximumOdd DEF Step
<1>2. /\ k \in Int /\ c \in Int /\ largest \in Nat /\ most \in Nat /\ largest <= most
      /\ m <= largest /\ Magnitude(k - c) <= allowed
  BY KeptOf, CallTyped
<1>3. m \in Nat /\ (k < 0 => m = -k) /\ (k >= 0 => m = k)
  BY <1>2, MagnitudeOf
<1>4. v = IF largest = 0 THEN 0 ELSE Quantized(k, largest, step)
  BY Zenon DEF Values
<1>5. allowed \in Nat
  <2>1. settings.threshold \in Int
    BY CallTyped
  <2> QED BY <2>1 DEF Allowed
<1>6. square \in Nat
  BY <1>1
<1> HIDE DEF largest, most, k, c, v, m, allowed, step
<1>7. /\ v \in Int /\ Magnitude(v) <= step /\ scale \in Int
      /\ 2 * step * Magnitude(v * scale - k) <= largest + square
  <2>1. CASE largest = 0
    <3>1. scale = One /\ One \in Int
      <4>1. scale = One
        BY <2>1, <1>1 DEF Scale, step
      <4>2. 2 ^ 20 \in Int
        OBVIOUS
      <4> QED BY <4>1, <4>2 DEF One
    <3>2. k = 0 /\ v = 0
      BY <1>2, <1>3, <1>4, <2>1
    <3> HIDE DEF scale
    <3>3. v * scale - k = 0
      BY <3>1, <3>2
    <3>4. Magnitude(0) = 0
      BY DEF Magnitude
    <3> HIDE DEF square
    <3>5. 2 * step * 0 <= largest + square
      BY <1>1, <1>2, <1>6
    <3> QED BY <1>1, <3>1, <3>2, <3>3, <3>4, <3>5
  <2>2. CASE largest # 0
    <3>1. largest >= 1
      BY <1>2, <2>2
    <3>2. /\ scale \in Nat
          /\ 2 * (scale * step) <= 2 * largest + step
          /\ 2 * largest <= 2 * (scale * step) + step
      BY <1>1, <1>2, <3>1, ScaleNear DEF step
    <3>3. PICK size \in 0 .. step :
             /\ Quantized(k, largest, step) = IF k < 0 THEN -size ELSE size
             /\ 2 * (size * largest) <= 2 * (m * step) + largest
             /\ 2 * (m * step) < 2 * (size * largest) + largest
      <4>1. Magnitude(k) <= largest
        BY <1>2 DEF m
      <4>2. \E size \in 0 .. step :
               /\ Quantized(k, largest, step) = IF k < 0 THEN -size ELSE size
               /\ 2 * (size * largest) <= 2 * (Magnitude(k) * step) + largest
               /\ 2 * (Magnitude(k) * step) < 2 * (size * largest) + largest
        BY <1>1, <1>2, <3>1, <4>1, QuantizedSize, Zenon
      <4> QED BY <4>2, Zenon DEF m
    <3> HIDE DEF scale
    <3>4. size \in Nat /\ size <= step
      BY <1>1, <3>3
    <3>5. 2 * (m * step) <= 2 * (size * largest) + largest
      <4>1. m * step \in Int /\ size * largest \in Int
        BY <1>1, <1>2, <1>3, <3>4
      <4> QED BY <1>2, <3>3, <4>1
    <3>6. 2 * step * Magnitude(size * scale - m) <= largest + square
      BY <1>1, <1>2, <1>3, <3>2, <3>3, <3>4, <3>5, ScaledBack
    <3>7. v = IF k < 0 THEN -size ELSE size
      BY <1>4, <2>2, <3>3
    <3>8. Magnitude(v * scale - k) = Magnitude(size * scale - m)
      <4> DEFINE back == size * scale
      <4>1. back \in Int
        BY <3>2, <3>4
      <4>2. CASE k < 0
        <5>1. v * scale = -back
          BY <3>2, <3>4, <3>7, <4>2
        <5> HIDE DEF back
        <5>2. v * scale - k = -(back - m)
          BY <1>2, <1>3, <4>1, <4>2, <5>1
        <5> DEFINE off == back - m
        <5>3. off \in Int
          BY <1>3, <4>1
        <5> HIDE DEF off
        <5>4. Magnitude(-off) = Magnitude(off)
          BY <5>3 DEF Magnitude
        <5> QED BY <5>2, <5>4 DEF off, back
      <4>3. CASE ~(k < 0)
        <5>1. v = size /\ m = k
          BY <1>2, <1>3, <3>7, <4>3
        <5> QED BY <5>1
      <4> QED BY <4>2, <4>3
    <3>9. v \in Int /\ Magnitude(v) = size
      BY <3>4, <3>7 DEF Magnitude
    <3> QED BY <3>2, <3>4, <3>6, <3>8, <3>9
  <2> QED BY <2>1, <2>2
<1> HIDE DEF scale, square
<1> DEFINE x == v * scale
           near == Magnitude(x - k)
           off == Magnitude(k - c)
           away == Magnitude(x - c)
<1>8. x \in Int
  BY <1>7
<1>9. 2 * step * near <= largest + square
  BY <1>7
<1> HIDE DEF x
<1>10. near \in Nat /\ off \in Nat /\ away \in Nat
  <2>1. x - k \in Int /\ k - c \in Int /\ x - c \in Int
    BY <1>2, <1>8
  <2> QED BY <2>1, MagnitudeOf
<1>11. away <= near + off /\ off <= allowed
  BY <1>2, <1>8, TriangleOf
<1> HIDE DEF near, off, away
<1>12. 2 * step * away <= 2 * step * near + 2 * step * allowed
  <2>1. PICK rest \in Nat : near + allowed = away + rest
    <3>1. (near + allowed) - away \in Nat /\ near + allowed = away + ((near + allowed) - away)
      BY <1>5, <1>10, <1>11
    <3> QED BY <3>1
  <2>2. 2 * step * (near + allowed) = 2 * step * near + 2 * step * allowed
    BY <1>1, <1>5, <1>10
  <2>3. 2 * step * (away + rest) = 2 * step * away + 2 * step * rest
    BY <1>1, <1>10
  <2>4. 2 * step * rest >= 0
    BY <1>1
  <2>5. 2 * step * away \in Int /\ 2 * step * rest \in Int /\ 2 * step * near \in Int /\ 2 * step * allowed \in Int
    BY <1>1, <1>5, <1>10
  <2> QED BY <2>1, <2>2, <2>3, <2>4, <2>5
<1>13. 2 * step * away <= most + square + 2 * step * allowed
  <2>1. 2 * step * away \in Int /\ 2 * step * near \in Int /\ 2 * step * allowed \in Int
    BY <1>1, <1>5, <1>10
  <2> QED BY <1>2, <1>6, <1>9, <1>12, <2>1
<1>14. scale \in Int
  BY <1>7
<1> QED BY <1>7, <1>13, <1>14, Zenon DEF away, x, v, scale, c, most, step, square, allowed, largest

-----------------------------------------------------------------------------
\* What was written, and what can become of it.

LEMMA Represented ==
  ASSUME Accepted, sent = Representation
  PROVE  /\ Stream(sent.pairs, Values, Count)
         /\ sent.nonzero = Len(sent.pairs) /\ sent.nonzero \in Nat
         /\ sent.count = Count /\ sent.levels = settings.levels
         /\ sent.quant_bits = settings.quant_bits /\ sent.state = settings.state
         /\ sent.scale = Scale(Largest(KeptWindow), Step)
         /\ sent.crc = sent.pairs
         /\ sent.length = CODEC_HEADER_BYTES + 4 * sent.nonzero
         /\ DOMAIN sent = {"levels", "quant_bits", "state", "count", "nonzero", "window_id",
                           "scale", "crc", "pairs", "length"}
<1> DEFINE pairs == Pairs(KeptWindow, settings.quant_bits)
           scale == Scale(Largest(KeptWindow), Step)
           levels == settings.levels
           bits == settings.quant_bits
           state == settings.state
           id == settings.window_id
           n == Count
           nonzero == Len(pairs)
           length == CODEC_HEADER_BYTES + 4 * nonzero
<1>1. sent = [levels |-> levels, quant_bits |-> bits, state |-> state, count |-> n,
              nonzero |-> nonzero, window_id |-> id, scale |-> scale, crc |-> pairs,
              pairs |-> pairs, length |-> length]
  BY DEF Representation, KeptWindow, Step, Crc, Count
<1>2. Stream(pairs, Values, n)
  <2> DEFINE w == KeptWindow
             largest == Largest(w)
  <2>1. n \in Nat /\ n >= 1 /\ w \in [0 .. n - 1 -> Int] /\ bits \in 2 .. 15
    BY CallTyped, KeptOf
  <2>2. Values = [i \in 0 .. n - 1 |->
                    IF largest = 0 THEN 0 ELSE Quantized(w[i], largest, MaximumInteger(bits))]
    BY Zenon DEF Values, Step
  <2> HIDE DEF w, n, bits
  <2>3. Stream(Pairs(w, bits),
               [i \in 0 .. n - 1 |->
                  IF largest = 0 THEN 0 ELSE Quantized(w[i], largest, MaximumInteger(bits))], n)
    BY <2>1, PairsOf, Zenon
  <2> QED BY <2>2, <2>3, Zenon DEF w, bits
<1>3. nonzero \in Nat
  <2>1. pairs \in Seq([index : 0 .. n - 1, quantized : Int])
    BY <1>2, Zenon DEF Stream
  <2> HIDE DEF pairs
  <2> QED BY <2>1
<1> HIDE DEF pairs, scale, levels, bits, state, id, n, nonzero, length
<1>4. /\ sent.pairs = pairs /\ sent.nonzero = nonzero /\ sent.count = n /\ sent.levels = levels
      /\ sent.quant_bits = bits /\ sent.state = state /\ sent.scale = scale
      /\ sent.crc = pairs /\ sent.length = length
  BY <1>1
<1>5. DOMAIN sent = {"levels", "quant_bits", "state", "count", "nonzero", "window_id",
                     "scale", "crc", "pairs", "length"}
  BY <1>1
<1> QED BY <1>2, <1>3, <1>4, <1>5, Zenon DEF pairs, scale, levels, bits, state, n, nonzero, length

\* A representation that passes the checks of the header and the checksum has
\* the pairs and the scale that were sent.
Passes(r) ==
  /\ CODEC_HEADER_BYTES + 4 * r.nonzero = r.length
  /\ r.quant_bits \in 2 .. 15 /\ r.state < ADAPTIVE_STATE_COUNT /\ r.scale > 0
  /\ r.crc = r.pairs
Harmless(r) ==
  Passes(r) => r.nonzero = sent.nonzero /\ r.pairs = sent.pairs /\ r.scale = sent.scale

LEMMA CutHarmless ==
  ASSUME Accepted, sent = Representation, NEW length \in 0 .. sent.length - 1
  PROVE  Harmless([sent EXCEPT !.length = length,
                     !.pairs = SubSeq(@, 1, (length - CODEC_HEADER_BYTES) \div 4)])
<1> DEFINE whole == sent.length
           pairs == SubSeq(sent.pairs, 1, (length - CODEC_HEADER_BYTES) \div 4)
           short == [sent EXCEPT !.length = length]
           r == [sent EXCEPT !.length = length,
                   !.pairs = SubSeq(@, 1, (length - CODEC_HEADER_BYTES) \div 4)]
<1>1. whole = CODEC_HEADER_BYTES + 4 * sent.nonzero /\ whole \in Nat
  BY Represented DEF CODEC_HEADER_BYTES
<1>2. length # whole
  BY <1>1
<1>3. r.length = length /\ r.nonzero = sent.nonzero
  <2> HIDE DEF pairs
  <2>1. r = [short EXCEPT !.pairs = pairs]
    BY Represented DEF pairs
  <2>2. /\ "length" \in DOMAIN sent /\ "nonzero" \in DOMAIN sent /\ "pairs" \in DOMAIN sent
    BY Represented
  <2>3. short.length = length /\ short.nonzero = sent.nonzero /\ DOMAIN short = DOMAIN sent
    BY <2>2
  <2> HIDE DEF short, r
  <2> QED BY <2>1, <2>2, <2>3
<1> HIDE DEF r
<1>4. ~Passes(r)
  BY <1>1, <1>2, <1>3 DEF Passes
<1> QED BY <1>4, Zenon DEF Harmless, r

LEMMA PairHarmless ==
  ASSUME Accepted, sent = Representation, NEW p \in DOMAIN sent.pairs, NEW pair,
         sent.pairs[p] # pair
  PROVE  Harmless([sent EXCEPT !.pairs[p] = pair])
<1> DEFINE r == [sent EXCEPT !.pairs[p] = pair]
<1>1. "pairs" \in DOMAIN sent /\ "crc" \in DOMAIN sent /\ sent.crc = sent.pairs
  BY Represented
<1>2. r.pairs = [sent.pairs EXCEPT ![p] = pair] /\ r.crc = sent.crc
  BY <1>1
<1>3. r.pairs[p] = pair
  BY <1>2
<1> HIDE DEF r
<1>4. r.pairs # r.crc
  BY <1>1, <1>2, <1>3
<1>5. ~Passes(r)
  BY <1>4, Zenon DEF Passes
<1> QED BY <1>5, Zenon DEF Harmless, r

LEMMA HeaderHarmless ==
  ASSUME Accepted, sent = Representation, NEW x
  PROVE  /\ Harmless(sent)
         /\ Harmless([sent EXCEPT !.count = x]) /\ Harmless([sent EXCEPT !.levels = x])
         /\ x \in Nat /\ x # sent.nonzero => Harmless([sent EXCEPT !.nonzero = x])
         /\ x \notin 2 .. 15 => Harmless([sent EXCEPT !.quant_bits = x])
         /\ Harmless([sent EXCEPT !.state = ADAPTIVE_STATE_COUNT])
         /\ Harmless([sent EXCEPT !.scale = 0])
<1>1. DOMAIN sent = {"levels", "quant_bits", "state", "count", "nonzero", "window_id",
                     "scale", "crc", "pairs", "length"}
  BY Represented
<1>2. sent.nonzero \in Nat /\ sent.length = CODEC_HEADER_BYTES + 4 * sent.nonzero
  BY Represented
<1>3. Harmless(sent)
  BY DEF Harmless
<1>4. Harmless([sent EXCEPT !.count = x])
  <2> DEFINE r == [sent EXCEPT !.count = x]
  <2>1. r.nonzero = sent.nonzero /\ r.pairs = sent.pairs /\ r.scale = sent.scale
    BY <1>1
  <2> QED BY <2>1, Zenon DEF Harmless
<1>5. Harmless([sent EXCEPT !.levels = x])
  <2> DEFINE r == [sent EXCEPT !.levels = x]
  <2>1. r.nonzero = sent.nonzero /\ r.pairs = sent.pairs /\ r.scale = sent.scale
    BY <1>1
  <2> QED BY <2>1, Zenon DEF Harmless
<1>6. ASSUME x \in Nat, x # sent.nonzero PROVE Harmless([sent EXCEPT !.nonzero = x])
  <2> DEFINE r == [sent EXCEPT !.nonzero = x]
             n == sent.nonzero
  <2>1. r.nonzero = x /\ r.length = sent.length
    BY <1>1
  <2> HIDE DEF r
  <2>2. CODEC_HEADER_BYTES + 4 * x # CODEC_HEADER_BYTES + 4 * n
    BY <1>2, <1>6 DEF CODEC_HEADER_BYTES
  <2>3. ~Passes(r)
    BY <1>2, <2>1, <2>2, Zenon DEF Passes
  <2> QED BY <2>3, Zenon DEF Harmless, r
<1>7. ASSUME x \notin 2 .. 15 PROVE Harmless([sent EXCEPT !.quant_bits = x])
  <2> DEFINE r == [sent EXCEPT !.quant_bits = x]
  <2>1. r.quant_bits = x
    BY <1>1
  <2> HIDE DEF r
  <2>2. ~Passes(r)
    BY <1>7, <2>1, Zenon DEF Passes
  <2> QED BY <2>2, Zenon DEF Harmless, r
<1>8. Harmless([sent EXCEPT !.state = ADAPTIVE_STATE_COUNT])
  <2> DEFINE r == [sent EXCEPT !.state = ADAPTIVE_STATE_COUNT]
  <2>1. r.state = ADAPTIVE_STATE_COUNT
    BY <1>1
  <2>2. ~(ADAPTIVE_STATE_COUNT < ADAPTIVE_STATE_COUNT)
    BY DEF ADAPTIVE_STATE_COUNT
  <2> HIDE DEF r
  <2>3. ~Passes(r)
    BY <2>1, <2>2, Zenon DEF Passes
  <2> QED BY <2>3, Zenon DEF Harmless, r
<1>9. Harmless([sent EXCEPT !.scale = 0])
  <2> DEFINE r == [sent EXCEPT !.scale = 0]
  <2>1. r.scale = 0
    BY <1>1
  <2>2. ~(0 > 0)
    OBVIOUS
  <2> HIDE DEF r
  <2>3. ~Passes(r)
    BY <2>1, <2>2, Zenon DEF Passes
  <2> QED BY <2>3, Zenon DEF Harmless, r
<1> QED BY <1>3, <1>4, <1>5, <1>6, <1>7, <1>8, <1>9, Zenon

-----------------------------------------------------------------------------
\* The invariant of the decoder.

Fresh == samples = [i \in Memory |-> Untouched]

\* What passes is made of the pairs that were sent.
Delivered == HeaderAccepted /\ Intact => Harmless(wire) /\ Passes(wire)

\* The pairs decoded so far are in their places, zero is in all others.
Filled ==
  /\ \A p \in 1 .. next_pair : samples[wire.pairs[p].index] = wire.pairs[p].quantized * wire.scale
  /\ \A i \in 0 .. wire.count - 1 :
       (\A p \in 1 .. next_pair : wire.pairs[p].index # i) => samples[i] = 0

Ended ==
  /\ ~HeaderAccepted => result = "format"
  /\ ~(HeaderAccepted /\ Intact) => Fresh /\ result # "ok"
  /\ HeaderAccepted /\ Intact /\ wire.count = sent.count /\ wire.levels = sent.levels =>
       result = "ok"
  /\ result = "ok" => next_pair = wire.nonzero /\ Filled

Arrived == phase \in {"decode", "pairs", "done"}

CodecTypes ==
  /\ settings \in Calls
  /\ phase \in {"encode", "written", "decode", "pairs", "done"}
  /\ encoded \in {Busy, "ok", "range", "capacity"}
  /\ sample_count \in Nat \cup {Unset} /\ next_pair \in Nat
  /\ result \in {Busy, "ok", "format", "integrity", "range"}
  /\ DOMAIN samples = Memory /\ sample_capacity \in 0 .. MemorySize

CodecInv ==
  /\ CodecTypes
  /\ phase = "encode" => encoded = Busy
  /\ encoded = "ok" => Accepted /\ sent = Representation
  /\ phase \in {"encode", "written", "decode"} => Fresh /\ next_pair = 0
  /\ Arrived => encoded = "ok" /\ Delivered
  /\ phase = "pairs" => HeaderAccepted /\ Intact /\ next_pair <= wire.nonzero /\ Filled
  /\ phase = "done" => Ended
  /\ WritesInside

LEMMA InitCodec == Init => CodecInv
<1> SUFFICES ASSUME Init PROVE CodecInv
  OBVIOUS
<1>1. /\ settings \in Calls /\ phase = "encode" /\ encoded = Busy /\ sample_capacity = 0
      /\ next_pair = 0 /\ sample_count = Unset /\ result = Busy /\ Fresh
  BY Zenon DEF Init, Fresh
<1>2. DOMAIN samples = Memory /\ WritesInside
  BY <1>1 DEF Fresh, WritesInside
<1>3. CodecTypes
  <2>1. 0 \in Nat /\ 0 \in 0 .. MemorySize
    BY CapacitiesAssumption
  <2> QED BY <1>1, <1>2, <2>1, Zenon DEF CodecTypes
<1>4. encoded # "ok" /\ phase # "pairs" /\ phase # "done" /\ phase # "decode"
  BY <1>1 DEF Busy
<1> QED BY <1>1, <1>2, <1>3, <1>4, Zenon DEF CodecInv, Arrived

\* The header and the checksum are judged once.
LEMMA JudgedOnce ==
  ASSUME UNCHANGED wire, UNCHANGED sample_capacity, UNCHANGED sent
  PROVE  /\ HeaderAccepted' <=> HeaderAccepted
         /\ Intact' <=> Intact
         /\ Delivered' <=> Delivered
<1>1. (HeaderAccepted' <=> HeaderAccepted) /\ (Intact' <=> Intact)
  BY Zenon DEF HeaderAccepted, Intact
<1>2. (Harmless(wire)' <=> Harmless(wire)) /\ (Passes(wire)' <=> Passes(wire))
  BY Zenon DEF Harmless, Passes
<1> QED BY <1>1, <1>2, Zenon DEF Delivered

\* What the encoder did is not undone.
LEMMA SentStays ==
  ASSUME UNCHANGED encoder
  PROVE  /\ UNCHANGED sent /\ UNCHANGED encoded /\ UNCHANGED settings
         /\ (Accepted' <=> Accepted) /\ Representation' = Representation
         /\ Count' = Count
<1>1. UNCHANGED sent /\ UNCHANGED encoded /\ UNCHANGED settings
  BY DEF encoder
<1>2. Accepted' <=> Accepted
  BY <1>1 DEF Accepted, Count, coefficients
<1>3. Representation' = Representation /\ Count' = Count
  BY <1>1, Zenon DEF Representation, coefficients, Count
<1> QED BY <1>1, <1>2, <1>3

LEMMA EncodeCodec == ASSUME CodecInv, Encode PROVE CodecInv'
<1>1. /\ phase = "encode" /\ phase' = "written" /\ UNCHANGED settings
      /\ UNCHANGED <<sample_capacity, samples, next_pair, sample_count, result>>
  BY Zenon DEF Encode, decoder
<1>2. CodecTypes /\ Fresh /\ next_pair = 0 /\ WritesInside
  BY <1>1, Zenon DEF CodecInv
<1> DEFINE status == IF ~validate_transform(Count, settings.levels) THEN "range"
                     ELSE IF Fits(Representation) THEN "ok" ELSE "capacity"
<1>3. encoded' = status /\ sent' = IF status = "ok" THEN Representation ELSE Nothing
  BY Zenon DEF Encode, Count
<1>4. status \in {"range", "ok", "capacity"}
  OBVIOUS
<1>5. status = "ok" => validate_transform(Count, settings.levels)
  OBVIOUS
<1> HIDE DEF status
<1>6. Accepted' <=> Accepted
  BY <1>1, Zenon DEF Accepted, Count, coefficients
<1>7. Representation' = Representation
  BY <1>1, Zenon DEF Representation, coefficients
<1>8. encoded' = "ok" => Accepted' /\ sent' = Representation'
  BY <1>2, <1>3, <1>5, <1>6, <1>7, Zenon DEF Accepted, CodecTypes
<1>9. CodecTypes'
  BY <1>1, <1>2, <1>3, <1>4, Zenon DEF CodecTypes
<1>10. Fresh' /\ next_pair' = 0 /\ WritesInside'
  BY <1>1, <1>2, Zenon DEF Fresh, WritesInside
<1>11. phase' # "encode" /\ phase' # "pairs" /\ phase' # "done" /\ phase' # "decode"
  BY <1>1
<1> QED BY <1>8, <1>9, <1>10, <1>11, Zenon DEF CodecInv, Arrived

LEMMA ArrivesCodec ==
  ASSUME CodecInv, Written, NEW r, Arrives(r), Harmless(r)
  PROVE  CodecInv'
<1>1. /\ phase = "written" /\ encoded = "ok" /\ phase' = "decode" /\ wire' = r
      /\ UNCHANGED encoder
      /\ UNCHANGED <<samples, next_pair, sample_count, result>>
      /\ \E capacity \in SampleCapacities : sample_capacity' = capacity
  BY Zenon DEF Written, Arrives
<1>2. /\ CodecTypes /\ Fresh /\ next_pair = 0 /\ Accepted /\ sent = Representation
  BY <1>1, Zenon DEF CodecInv
<1>3. /\ UNCHANGED sent /\ UNCHANGED encoded /\ UNCHANGED settings
      /\ (Accepted' <=> Accepted) /\ Representation' = Representation
  BY <1>1, SentStays
<1>4. sample_capacity' \in 0 .. MemorySize
  BY <1>1, CapacitiesAssumption
<1>5. CodecTypes'
  BY <1>1, <1>2, <1>3, <1>4, Zenon DEF CodecTypes
<1>6. Delivered'
  <2>1. HeaderAccepted' /\ Intact' => Passes(wire)'
    BY Zenon DEF HeaderAccepted, Intact, Passes, Crc
  <2>2. Harmless(wire)'
    BY <1>1, <1>3, Zenon DEF Harmless, Passes
  <2> QED BY <2>1, <2>2, Zenon DEF Delivered
<1>7. Fresh' /\ next_pair' = 0
  BY <1>1, <1>2, Zenon DEF Fresh
<1>8. WritesInside'
  BY <1>7 DEF Fresh, WritesInside
<1>9. phase' # "encode" /\ phase' # "pairs" /\ phase' # "done"
  BY <1>1
<1>10. encoded' = "ok" /\ Accepted' /\ sent' = Representation'
  BY <1>1, <1>2, <1>3, Zenon
<1> QED BY <1>5, <1>6, <1>7, <1>8, <1>9, <1>10, Zenon DEF CodecInv

LEMMA CarryCodec == ASSUME CodecInv, Carry PROVE CodecInv'
<1>1. Written /\ Arrives(sent)
  BY DEF Carry
<1>2. Accepted /\ sent = Representation
  BY <1>1, Zenon DEF CodecInv, Written
<1> QED BY <1>1, <1>2, HeaderHarmless, ArrivesCodec, Zenon

LEMMA CutCodec == ASSUME CodecInv, Cut PROVE CodecInv'
<1>1. PICK length \in 0 .. sent.length - 1 :
        Arrives([sent EXCEPT !.length = length,
                   !.pairs = SubSeq(@, 1, (length - CODEC_HEADER_BYTES) \div 4)])
  BY Zenon DEF Cut
<1>2. Written /\ Accepted /\ sent = Representation
  BY Zenon DEF CodecInv, Written, Cut
<1>3. Harmless([sent EXCEPT !.length = length,
                  !.pairs = SubSeq(@, 1, (length - CODEC_HEADER_BYTES) \div 4)])
  BY <1>2, CutHarmless
<1> QED BY <1>1, <1>2, <1>3, ArrivesCodec, Zenon

LEMMA DamagePairCodec == ASSUME CodecInv, DamagePair PROVE CodecInv'
<1>1. PICK p \in DOMAIN sent.pairs, index \in {0, 1, 15, 16, 19}, quantized \in {-1, 2} :
        /\ sent.pairs[p] # [index |-> index, quantized |-> quantized]
        /\ Arrives([sent EXCEPT !.pairs[p] = [index |-> index, quantized |-> quantized]])
  BY Zenon DEF DamagePair
<1>2. Written /\ Accepted /\ sent = Representation
  BY Zenon DEF CodecInv, Written, DamagePair
<1> DEFINE pair == [index |-> index, quantized |-> quantized]
<1>3. sent.pairs[p] # pair /\ Arrives([sent EXCEPT !.pairs[p] = pair])
  BY <1>1, Zenon
<1> HIDE DEF pair
<1>4. Harmless([sent EXCEPT !.pairs[p] = pair])
  BY <1>2, <1>3, PairHarmless
<1> QED BY <1>2, <1>3, <1>4, ArrivesCodec, Zenon

LEMMA DamageHeaderCodec == ASSUME CodecInv, DamageHeader PROVE CodecInv'
<1>1. Written /\ Accepted /\ sent = Representation
  BY Zenon DEF CodecInv, Written, DamageHeader
<1>2. CASE \E count \in {0, 8, 12, 16, 18, 257} \ {sent.count} :
             Arrives([sent EXCEPT !.count = count])
  <2>1. PICK count : Arrives([sent EXCEPT !.count = count])
    BY <1>2
  <2>2. Harmless([sent EXCEPT !.count = count])
    BY <1>1, HeaderHarmless, Zenon
  <2> QED BY <1>1, <2>1, <2>2, ArrivesCodec, Zenon
<1>3. CASE \E levels \in {0, 1, 2, 3, 64} \ {sent.levels} :
             Arrives([sent EXCEPT !.levels = levels])
  <2>1. PICK levels : Arrives([sent EXCEPT !.levels = levels])
    BY <1>3
  <2>2. Harmless([sent EXCEPT !.levels = levels])
    BY <1>1, HeaderHarmless, Zenon
  <2> QED BY <1>1, <2>1, <2>2, ArrivesCodec, Zenon
<1>4. CASE \E nonzero \in {sent.nonzero - 1, sent.nonzero + 1} \cap Nat :
             Arrives([sent EXCEPT !.nonzero = nonzero])
  <2>1. PICK nonzero \in {sent.nonzero - 1, sent.nonzero + 1} \cap Nat :
          Arrives([sent EXCEPT !.nonzero = nonzero])
    BY <1>4
  <2>2. sent.nonzero \in Nat
    BY <1>1, Represented
  <2>3. nonzero \in Nat /\ nonzero # sent.nonzero
    BY <2>2
  <2> QED BY <1>1, <2>1, <2>3, HeaderHarmless, ArrivesCodec, Zenon
<1>5. CASE \E bits \in {1, 16} : Arrives([sent EXCEPT !.quant_bits = bits])
  <2>1. PICK bits \in {1, 16} : Arrives([sent EXCEPT !.quant_bits = bits])
    BY <1>5
  <2>2. bits \notin 2 .. 15
    OBVIOUS
  <2> QED BY <1>1, <2>1, <2>2, HeaderHarmless, ArrivesCodec, Zenon
<1>6. CASE Arrives([sent EXCEPT !.state = ADAPTIVE_STATE_COUNT])
  BY <1>1, <1>6, HeaderHarmless, ArrivesCodec, Zenon
<1>7. CASE Arrives([sent EXCEPT !.scale = 0])
  BY <1>1, <1>7, HeaderHarmless, ArrivesCodec, Zenon
<1> QED BY <1>2, <1>3, <1>4, <1>5, <1>6, <1>7, Zenon DEF DamageHeader

LEMMA HeaderRefusedCodec == ASSUME CodecInv, HeaderRefused PROVE CodecInv'
<1>1. /\ phase = "decode" /\ ~HeaderAccepted /\ phase' = "done" /\ result' = "format"
      /\ UNCHANGED encoder
      /\ UNCHANGED <<wire, sample_capacity, next_pair, samples, sample_count>>
  BY Zenon DEF HeaderRefused, DecodeReturns
<1>2. /\ CodecTypes /\ Fresh /\ Accepted /\ sent = Representation /\ encoded = "ok" /\ Delivered
      /\ WritesInside
  BY <1>1, Zenon DEF CodecInv, Arrived
<1>3. /\ UNCHANGED sent /\ UNCHANGED encoded /\ UNCHANGED settings
      /\ (Accepted' <=> Accepted) /\ Representation' = Representation
  BY <1>1, SentStays
<1>4. (HeaderAccepted' <=> HeaderAccepted) /\ (Delivered' <=> Delivered)
  BY <1>1, <1>3, JudgedOnce, Zenon
<1>5. CodecTypes'
  BY <1>1, <1>2, <1>3, Zenon DEF CodecTypes
<1>6. Fresh' /\ WritesInside'
  BY <1>1, <1>2, Zenon DEF Fresh, WritesInside
<1>7. result' # "ok" /\ phase' # "encode" /\ phase' # "written" /\ phase' # "decode" /\ phase' # "pairs"
  BY <1>1
<1>8. Ended'
  BY <1>1, <1>4, <1>6, <1>7, Zenon DEF Ended
<1> QED BY <1>2, <1>3, <1>4, <1>5, <1>6, <1>7, <1>8, Zenon DEF CodecInv

LEMMA CrcRefusedCodec == ASSUME CodecInv, CrcRefused PROVE CodecInv'
<1>1. /\ phase = "decode" /\ HeaderAccepted /\ ~Intact /\ phase' = "done" /\ result' = "integrity"
      /\ UNCHANGED encoder
      /\ UNCHANGED <<wire, sample_capacity, next_pair, samples, sample_count>>
  BY Zenon DEF CrcRefused, DecodeReturns
<1>2. /\ CodecTypes /\ Fresh /\ Accepted /\ sent = Representation /\ encoded = "ok" /\ Delivered
      /\ WritesInside
  BY <1>1, Zenon DEF CodecInv, Arrived
<1>3. /\ UNCHANGED sent /\ UNCHANGED encoded /\ UNCHANGED settings
      /\ (Accepted' <=> Accepted) /\ Representation' = Representation
  BY <1>1, SentStays
<1>4. (HeaderAccepted' <=> HeaderAccepted) /\ (Intact' <=> Intact) /\ (Delivered' <=> Delivered)
  BY <1>1, <1>3, JudgedOnce, Zenon
<1>5. CodecTypes'
  BY <1>1, <1>2, <1>3, Zenon DEF CodecTypes
<1>6. Fresh' /\ WritesInside'
  BY <1>1, <1>2, Zenon DEF Fresh, WritesInside
<1>7. result' # "ok" /\ phase' # "encode" /\ phase' # "written" /\ phase' # "decode" /\ phase' # "pairs"
  BY <1>1
<1>8. Ended'
  BY <1>1, <1>4, <1>6, <1>7, Zenon DEF Ended
<1> QED BY <1>2, <1>3, <1>4, <1>5, <1>6, <1>7, <1>8, Zenon DEF CodecInv

\* The count that was accepted fits the caller's room.
LEMMA RoomOf ==
  ASSUME CodecTypes, HeaderAccepted
  PROVE  /\ wire.count \in Nat /\ wire.count >= 1 /\ sample_capacity \in Nat /\ MemorySize \in Nat
         /\ wire.count <= sample_capacity /\ sample_capacity <= MemorySize
<1>1. wire.count \in 1 .. ADAPTIVE_MAX_WINDOW /\ wire.count <= sample_capacity
  BY Zenon DEF HeaderAccepted
<1>2. sample_capacity \in 0 .. MemorySize /\ MemorySize \in Nat
  BY CapacitiesAssumption, Zenon DEF CodecTypes
<1> QED BY <1>1, <1>2 DEF ADAPTIVE_MAX_WINDOW

LEMMA ClearCodec == ASSUME CodecInv, Clear PROVE CodecInv'
<1>1. /\ phase = "decode" /\ HeaderAccepted /\ Intact /\ phase' = "pairs"
      /\ samples' = [i \in Memory |-> IF i < wire.count THEN 0 ELSE samples[i]]
      /\ UNCHANGED encoder
      /\ UNCHANGED <<wire, sample_capacity, next_pair, sample_count, result>>
  BY Zenon DEF Clear
<1>2. /\ CodecTypes /\ Fresh /\ Accepted /\ sent = Representation /\ encoded = "ok" /\ Delivered
      /\ WritesInside /\ next_pair = 0
  BY <1>1, Zenon DEF CodecInv, Arrived
<1>3. /\ UNCHANGED sent /\ UNCHANGED encoded /\ UNCHANGED settings
      /\ (Accepted' <=> Accepted) /\ Representation' = Representation
  BY <1>1, SentStays
<1>4. (HeaderAccepted' <=> HeaderAccepted) /\ (Intact' <=> Intact) /\ (Delivered' <=> Delivered)
  BY <1>1, <1>3, JudgedOnce, Zenon
<1>5. DOMAIN samples' = Memory
  BY <1>1
<1>6. CodecTypes'
  BY <1>1, <1>2, <1>3, <1>5, Zenon DEF CodecTypes
<1> DEFINE count == wire.count
<1>7. count \in Nat /\ sample_capacity \in Nat /\ MemorySize \in Nat
      /\ count <= sample_capacity /\ sample_capacity <= MemorySize
  BY <1>1, <1>2, RoomOf
<1> HIDE DEF count
<1>8. WritesInside'
  <2> SUFFICES ASSUME NEW i \in Memory, i >= sample_capacity PROVE samples'[i] = Untouched
    BY <1>1 DEF WritesInside
  <2>1. ~(i < count)
    BY <1>7 DEF Memory
  <2>2. samples[i] = Untouched
    BY <1>2 DEF Fresh
  <2> QED BY <1>1, <2>1, <2>2 DEF count
<1>9. Filled'
  <2>1. next_pair' = 0 /\ wire' = wire
    BY <1>1, <1>2
  <2>2. \A p \in 1 .. 0 : FALSE
    OBVIOUS
  <2>3. \A i \in 0 .. count - 1 : i \in Memory /\ i < count
    BY <1>7 DEF Memory
  <2>4. \A i \in 0 .. count - 1 : samples'[i] = 0
    BY <1>1, <2>3 DEF count
  <2>5. \A i \in 0 .. wire'.count - 1 : samples'[i] = 0
    BY <2>1, <2>4, Zenon DEF count
  <2>6. \A p \in 1 .. next_pair' : FALSE
    BY <2>1, <2>2, Zenon
  <2> QED BY <2>5, <2>6, Zenon DEF Filled
<1>10. next_pair' <= wire'.nonzero
  <2>1. wire.nonzero = sent.nonzero
    BY <1>1, <1>2, Zenon DEF Delivered, Harmless
  <2>2. sent.nonzero \in Nat
    BY <1>2, Represented
  <2> QED BY <1>1, <1>2, <2>1, <2>2
<1>11. phase' # "encode" /\ phase' # "written" /\ phase' # "decode" /\ phase' # "done"
  BY <1>1
<1> QED BY <1>1, <1>2, <1>3, <1>4, <1>6, <1>8, <1>9, <1>10, <1>11, Zenon DEF CodecInv

\* The pairs at the decoder are those of the window that was sent.
LEMMA PairsArrive ==
  ASSUME Accepted, sent = Representation, Delivered, HeaderAccepted, Intact
  PROVE  /\ wire.nonzero = Len(wire.pairs) /\ Len(wire.pairs) \in Nat
         /\ wire.pairs = sent.pairs /\ wire.scale = Scale(Largest(KeptWindow), Step)
         /\ Stream(wire.pairs, Values, Count)
         /\ \A p \in 1 .. Len(wire.pairs) : wire.pairs[p].index \in 0 .. Count - 1
<1>1. wire.nonzero = sent.nonzero /\ wire.pairs = sent.pairs /\ wire.scale = sent.scale
  BY Zenon DEF Delivered, Harmless
<1>2. /\ Stream(sent.pairs, Values, Count) /\ sent.nonzero = Len(sent.pairs) /\ sent.nonzero \in Nat
      /\ sent.scale = Scale(Largest(KeptWindow), Step)
  BY Represented
<1> DEFINE pairs == wire.pairs
<1>3. Stream(pairs, Values, Count) /\ pairs = sent.pairs
  BY <1>1, <1>2
<1>4. pairs \in Seq([index : 0 .. Count - 1, quantized : Int])
  BY <1>3, Zenon DEF Stream
<1> HIDE DEF pairs
<1>5. \A p \in 1 .. Len(pairs) : pairs[p].index \in 0 .. Count - 1
  <2> DEFINE Pair == [index : 0 .. Count - 1, quantized : Int]
  <2>2. pairs \in Seq(Pair)
    BY <1>4
  <2> HIDE DEF Pair
  <2>3. \A p \in 1 .. Len(pairs) : pairs[p] \in Pair
    BY <2>2
  <2>1. \A p \in 1 .. Len(pairs) : pairs[p] \in [index : 0 .. Count - 1, quantized : Int]
    BY <2>3 DEF Pair
  <2> QED BY <2>1
<1> QED BY <1>1, <1>2, <1>3, <1>5, Zenon DEF pairs

LEMMA DecodePairCodec == ASSUME CodecInv, DecodePair PROVE CodecInv'
<1> DEFINE p == next_pair + 1
           pairs == wire.pairs
           n == Len(pairs)
           index == pairs[p].index
           value == pairs[p].quantized * wire.scale
           count == wire.count
<1>1. /\ phase = "pairs" /\ next_pair < wire.nonzero /\ IndexAccepted(p)
      /\ samples' = [samples EXCEPT ![index] = value]
      /\ next_pair' = p
      /\ UNCHANGED encoder
      /\ UNCHANGED <<phase, wire, sample_capacity, sample_count, result>>
  BY Zenon DEF DecodePair
<1>2. /\ CodecTypes /\ Accepted /\ sent = Representation /\ encoded = "ok" /\ Delivered
      /\ WritesInside /\ HeaderAccepted /\ Intact /\ Filled
  BY <1>1, Zenon DEF CodecInv, Arrived
<1>3. /\ UNCHANGED sent /\ UNCHANGED encoded /\ UNCHANGED settings
      /\ (Accepted' <=> Accepted) /\ Representation' = Representation
  BY <1>1, SentStays
<1>4. (HeaderAccepted' <=> HeaderAccepted) /\ (Intact' <=> Intact) /\ (Delivered' <=> Delivered)
  BY <1>1, <1>3, JudgedOnce, Zenon
<1>5. /\ wire.nonzero = n /\ n \in Nat /\ Stream(pairs, Values, Count)
      /\ \A q \in 1 .. n : pairs[q].index \in 0 .. Count - 1
  BY <1>2, PairsArrive, Zenon
<1>6. p \in 1 .. n /\ p \in Nat /\ p <= n /\ \A q \in 1 .. next_pair : q \in 1 .. n /\ q < p
  <2>1. next_pair \in Nat /\ next_pair < n
    BY <1>1, <1>2, <1>5, Zenon DEF CodecTypes
  <2> HIDE DEF n
  <2> QED BY <1>5, <2>1
<1>7. \A q \in 1 .. next_pair : pairs[q].index < index
  BY <1>5, <1>6, Zenon DEF Stream
<1>8. count \in Nat /\ sample_capacity \in Nat /\ MemorySize \in Nat
      /\ count <= sample_capacity /\ sample_capacity <= MemorySize
  BY <1>2, RoomOf
<1>9. Count \in Nat
  BY <1>2, CallTyped
<1>10. index \in Nat /\ index < count
  <2>1. index \in 0 .. Count - 1
    BY <1>5, <1>6, Zenon
  <2>2. index < count
    BY <1>1, Zenon DEF IndexAccepted
  <2> HIDE DEF index
  <2> QED BY <1>9, <2>1, <2>2
<1> HIDE DEF index, value, count
<1>11. index \in Memory /\ DOMAIN samples = Memory
  BY <1>2, <1>8, <1>10 DEF Memory, CodecTypes
<1>12. DOMAIN samples' = Memory
  BY <1>1, <1>11
<1>13. CodecTypes'
  <2>1. next_pair' \in Nat
    BY <1>1, <1>6, Zenon
  <2> QED BY <1>1, <1>2, <1>3, <1>12, <2>1, Zenon DEF CodecTypes
<1>14. samples'[index] = value /\ \A i \in Memory : i # index => samples'[i] = samples[i]
  BY <1>1, <1>11
<1>15. WritesInside'
  <2> SUFFICES ASSUME NEW i \in Memory, i >= sample_capacity PROVE samples'[i] = Untouched
    BY <1>1 DEF WritesInside
  <2>1. i # index
    BY <1>8, <1>10 DEF Memory
  <2> QED BY <1>2, <1>14, <2>1 DEF WritesInside
<1>16. Filled'
  <2>1. \A q \in 1 .. p : q \in 1 .. next_pair \/ q = p
    <3>1. next_pair \in Nat
      BY <1>2, Zenon DEF CodecTypes
    <3> QED BY <3>1
  <2>2. ASSUME NEW q \in 1 .. p
        PROVE  samples'[pairs[q].index] = pairs[q].quantized * wire.scale
    <3>1. CASE q = p
      BY <1>14, <3>1, Zenon DEF index, value
    <3>2. CASE q \in 1 .. next_pair
      <4> DEFINE k == pairs[q].index
      <4>1. k \in 0 .. Count - 1 /\ k < index
        BY <1>5, <1>6, <1>7, <3>2, Zenon
      <4>2. samples[k] = pairs[q].quantized * wire.scale
        BY <1>2, <3>2, Zenon DEF Filled
      <4> HIDE DEF k
      <4>3. k \in Memory /\ k # index
        BY <1>8, <1>9, <1>10, <4>1 DEF Memory
      <4>4. samples'[k] = samples[k]
        BY <1>14, <4>3, Zenon
      <4> QED BY <4>2, <4>4, Zenon DEF k
    <3> QED BY <2>1, <3>1, <3>2, Zenon
  <2>3. ASSUME NEW i \in 0 .. count - 1, \A q \in 1 .. p : pairs[q].index # i
        PROVE  samples'[i] = 0
    <3>1. i \in Memory
      BY <1>8 DEF Memory
    <3>2. p \in 1 .. p /\ \A q \in 1 .. next_pair : q \in 1 .. p
      <4>1. next_pair \in Nat
        BY <1>2, Zenon DEF CodecTypes
      <4> QED BY <4>1
    <3>3. i # index
      BY <2>3, <3>2, Zenon DEF index
    <3>4. samples[i] = 0
      BY <1>2, <2>3, <3>2, Zenon DEF Filled, count
    <3> QED BY <1>14, <3>1, <3>3, <3>4, Zenon
  <2>4. next_pair' = p /\ wire' = wire
    BY <1>1
  <2> HIDE DEF p
  <2> QED BY <2>2, <2>3, <2>4, Zenon DEF Filled, count
<1>17. next_pair' <= wire'.nonzero
  BY <1>1, <1>5, <1>6, Zenon
<1>18. phase' # "encode" /\ phase' # "written" /\ phase' # "decode" /\ phase' # "done" /\ phase' = "pairs"
  BY <1>1
<1> QED BY <1>2, <1>3, <1>4, <1>13, <1>15, <1>16, <1>17, <1>18, Zenon DEF CodecInv

LEMMA PairRefusedCodec == ASSUME CodecInv, PairRefused PROVE CodecInv'
<1> DEFINE p == next_pair + 1
           pairs == wire.pairs
           n == Len(pairs)
<1>1. /\ phase = "pairs" /\ next_pair < wire.nonzero /\ ~IndexAccepted(p)
      /\ phase' = "done" /\ result' = "format"
      /\ UNCHANGED encoder
      /\ UNCHANGED <<wire, sample_capacity, next_pair, samples, sample_count>>
  BY Zenon DEF PairRefused, DecodeReturns
<1>2. /\ CodecTypes /\ Accepted /\ sent = Representation /\ encoded = "ok" /\ Delivered
      /\ WritesInside /\ HeaderAccepted /\ Intact
  BY <1>1, Zenon DEF CodecInv, Arrived
<1>3. /\ UNCHANGED sent /\ UNCHANGED encoded /\ UNCHANGED settings
      /\ (Accepted' <=> Accepted) /\ Representation' = Representation
  BY <1>1, SentStays
<1>4. (HeaderAccepted' <=> HeaderAccepted) /\ (Intact' <=> Intact) /\ (Delivered' <=> Delivered)
  BY <1>1, <1>3, JudgedOnce, Zenon
<1>5. /\ wire.nonzero = n /\ n \in Nat /\ Stream(pairs, Values, Count)
      /\ \A q \in 1 .. n : pairs[q].index \in 0 .. Count - 1
  BY <1>2, PairsArrive, Zenon
<1>6. wire.count # sent.count
  <2> SUFFICES ASSUME wire.count = sent.count PROVE IndexAccepted(p)
    BY <1>1
  <2>1. wire.count = Count /\ Count \in Nat
    BY <1>2, Represented, CallTyped
  <2>2. next_pair \in Nat /\ next_pair < n
    BY <1>1, <1>2, <1>5, Zenon DEF CodecTypes
  <2> HIDE DEF n
  <2>3. p \in 1 .. n /\ (p > 1 => p - 1 \in 1 .. n /\ p - 1 < p)
    BY <1>5, <2>2
  <2> HIDE DEF p
  <2>4. pairs[p].index \in 0 .. Count - 1
    BY <1>5, <2>3, Zenon
  <2>5. pairs[p].index < wire.count
    BY <2>1, <2>4
  <2>6. ASSUME p > 1 PROVE pairs[p].index > pairs[p - 1].index
    <3> DEFINE q == p - 1
    <3>1. q \in 1 .. n /\ q < p
      BY <2>3, <2>6
    <3> HIDE DEF q
    <3>2. pairs[q].index < pairs[p].index
      BY <1>5, <2>3, <3>1, Zenon DEF Stream, n
    <3>3. pairs[q].index \in Int /\ pairs[p].index \in Int
      BY <1>5, <2>1, <2>3, <3>1
    <3>4. pairs[p].index > pairs[q].index
      BY <3>2, <3>3
    <3> QED BY <3>4 DEF q
  <2> QED BY <2>5, <2>6, Zenon DEF IndexAccepted
<1>7. CodecTypes'
  BY <1>1, <1>2, <1>3, Zenon DEF CodecTypes
<1>8. WritesInside'
  BY <1>1, <1>2, Zenon DEF WritesInside
<1>9. result' # "ok" /\ phase' # "encode" /\ phase' # "written" /\ phase' # "decode" /\ phase' # "pairs"
  BY <1>1
<1>10. Ended'
  BY <1>1, <1>2, <1>3, <1>4, <1>6, <1>9, Zenon DEF Ended
<1> QED BY <1>2, <1>3, <1>4, <1>7, <1>8, <1>9, <1>10, Zenon DEF CodecInv

LEMMA InverseRefusedCodec == ASSUME CodecInv, InverseRefused PROVE CodecInv'
<1>1. /\ phase = "pairs" /\ ~validate_transform(wire.count, wire.levels)
      /\ phase' = "done" /\ result' = "range"
      /\ UNCHANGED encoder
      /\ UNCHANGED <<wire, sample_capacity, next_pair, samples, sample_count>>
  BY Zenon DEF InverseRefused, DecodeReturns
<1>2. /\ CodecTypes /\ Accepted /\ sent = Representation /\ encoded = "ok" /\ Delivered
      /\ WritesInside /\ HeaderAccepted /\ Intact
  BY <1>1, Zenon DEF CodecInv, Arrived
<1>3. /\ UNCHANGED sent /\ UNCHANGED encoded /\ UNCHANGED settings
      /\ (Accepted' <=> Accepted) /\ Representation' = Representation
  BY <1>1, SentStays
<1>4. (HeaderAccepted' <=> HeaderAccepted) /\ (Intact' <=> Intact) /\ (Delivered' <=> Delivered)
  BY <1>1, <1>3, JudgedOnce, Zenon
<1>5. ~(wire.count = sent.count /\ wire.levels = sent.levels)
  <2>1. sent.count = Count /\ sent.levels = settings.levels
    BY <1>2, Represented
  <2>2. validate_transform(sent.count, sent.levels)
    BY <1>2, <2>1, Zenon DEF Accepted
  <2> QED BY <1>1, <2>2, Zenon
<1>6. CodecTypes'
  BY <1>1, <1>2, <1>3, Zenon DEF CodecTypes
<1>7. WritesInside'
  BY <1>1, <1>2, Zenon DEF WritesInside
<1>8. result' # "ok" /\ phase' # "encode" /\ phase' # "written" /\ phase' # "decode" /\ phase' # "pairs"
  BY <1>1
<1>9. Ended'
  BY <1>1, <1>2, <1>3, <1>4, <1>5, <1>8, Zenon DEF Ended
<1> QED BY <1>2, <1>3, <1>4, <1>6, <1>7, <1>8, <1>9, Zenon DEF CodecInv

LEMMA DecodeEndCodec == ASSUME CodecInv, DecodeEnd PROVE CodecInv'
<1>1. /\ phase = "pairs" /\ next_pair = wire.nonzero
      /\ phase' = "done" /\ result' = "ok" /\ sample_count' = wire.count
      /\ UNCHANGED encoder
      /\ UNCHANGED <<wire, sample_capacity, next_pair, samples>>
  BY Zenon DEF DecodeEnd, DecodeReturns
<1>2. /\ CodecTypes /\ Accepted /\ sent = Representation /\ encoded = "ok" /\ Delivered
      /\ WritesInside /\ HeaderAccepted /\ Intact /\ Filled
  BY <1>1, Zenon DEF CodecInv, Arrived
<1>3. /\ UNCHANGED sent /\ UNCHANGED encoded /\ UNCHANGED settings
      /\ (Accepted' <=> Accepted) /\ Representation' = Representation
  BY <1>1, SentStays
<1>4. (HeaderAccepted' <=> HeaderAccepted) /\ (Intact' <=> Intact) /\ (Delivered' <=> Delivered)
  BY <1>1, <1>3, JudgedOnce, Zenon
<1>5. sample_count' \in Nat
  BY <1>1, <1>2, RoomOf
<1>6. CodecTypes'
  BY <1>1, <1>2, <1>3, <1>5, Zenon DEF CodecTypes
<1>7. WritesInside' /\ Filled'
  BY <1>1, <1>2, Zenon DEF WritesInside, Filled
<1>8. phase' # "encode" /\ phase' # "written" /\ phase' # "decode" /\ phase' # "pairs"
  BY <1>1
<1>9. Ended'
  BY <1>1, <1>2, <1>4, <1>7, Zenon DEF Ended
<1> QED BY <1>2, <1>3, <1>4, <1>6, <1>7, <1>8, <1>9, Zenon DEF CodecInv

LEMMA CodecStep == CodecInv /\ [Next]_vars => CodecInv'
<1> SUFFICES ASSUME CodecInv, [Next]_vars PROVE CodecInv'
  OBVIOUS
<1>1. CASE UNCHANGED vars
  <2>1. /\ UNCHANGED encoder /\ UNCHANGED phase
        /\ UNCHANGED <<wire, sample_capacity, samples, next_pair, sample_count, result>>
    BY <1>1, Zenon DEF vars, decoder
  <2>2. /\ UNCHANGED sent /\ UNCHANGED encoded /\ UNCHANGED settings
        /\ (Accepted' <=> Accepted) /\ Representation' = Representation
    BY <2>1, SentStays
  <2>3. (HeaderAccepted' <=> HeaderAccepted) /\ (Intact' <=> Intact) /\ (Delivered' <=> Delivered)
    BY <2>1, <2>2, JudgedOnce, Zenon
  <2>4. (CodecTypes' <=> CodecTypes) /\ (Fresh' <=> Fresh) /\ (WritesInside' <=> WritesInside)
    BY <2>1, <2>2, Zenon DEF CodecTypes, Fresh, WritesInside
  <2>5. (Filled' <=> Filled) /\ (Arrived' <=> Arrived)
    BY <2>1, Zenon DEF Filled, Arrived
  <2>6. Ended' <=> Ended
    BY <2>1, <2>2, <2>3, <2>4, <2>5, Zenon DEF Ended
  <2> QED BY <2>1, <2>2, <2>3, <2>4, <2>5, <2>6, Zenon DEF CodecInv
<1>2. CASE Next
  BY <1>2, EncodeCodec, CarryCodec, CutCodec, DamagePairCodec, DamageHeaderCodec,
     HeaderRefusedCodec, CrcRefusedCodec, ClearCodec, DecodePairCodec, PairRefusedCodec,
     InverseRefusedCodec, DecodeEndCodec, Zenon DEF Next
<1> QED BY <1>1, <1>2

LEMMA SpecCodec == Spec => []CodecInv
  BY InitCodec, CodecStep, PTL DEF Spec

-----------------------------------------------------------------------------
\* What follows.

\* What was written has places of the window and values of the width.
LEMMA PairsTyped ==
  ASSUME Accepted, sent = Representation, NEW p \in DOMAIN sent.pairs
  PROVE  /\ sent.pairs[p].index \in DOMAIN coefficients
         /\ Magnitude(sent.pairs[p].quantized) < 2 ^ (settings.quant_bits - 1)
<1> DEFINE pairs == sent.pairs
           Pair == [index : 0 .. Count - 1, quantized : Int]
           index == pairs[p].index
           value == pairs[p].quantized
           bits == settings.quant_bits
<1>1. Stream(pairs, Values, Count)
  BY Represented
<1>2. pairs \in Seq(Pair)
  BY <1>1, Zenon DEF Stream
<1>3. p \in 1 .. Len(pairs) /\ pairs[p] \in Pair
  <2> HIDE DEF Pair, pairs
  <2>1. p \in DOMAIN pairs
    BY DEF pairs
  <2> QED BY <1>2, <2>1
<1>4. index \in 0 .. Count - 1
  BY <1>3
<1>5. value = Values[index]
  BY <1>1, <1>3, Zenon DEF Stream
<1> HIDE DEF index, value, pairs
<1>6. DOMAIN coefficients = 0 .. Count - 1
  BY CallTyped
<1>7. Magnitude(value) <= Step /\ value \in Int
  BY <1>4, <1>5, ValueOf
<1>8. /\ Step \in Nat /\ 2 ^ (bits - 1) = Step + 1
  <2>1. bits \in 2 .. 15
    BY CallTyped
  <2> HIDE DEF bits
  <2>2. MaximumInteger(bits) \in Nat /\ 2 ^ (bits - 1) = MaximumInteger(bits) + 1
    BY <2>1, MaximumOdd
  <2> QED BY <2>2 DEF Step, bits
<1>9. Magnitude(value) \in Nat
  BY <1>7, MagnitudeOf
<1> DEFINE size == Magnitude(value)
           power == 2 ^ (bits - 1)
           step == Step
<1>10. size \in Nat /\ size <= step /\ step \in Nat /\ power = step + 1
  BY <1>7, <1>8, <1>9
<1> HIDE DEF size, power, step
<1>11. size < power
  BY <1>10
<1> QED BY <1>4, <1>6, <1>11, Zenon DEF index, pairs, size, power, value, bits

\* The memory of adaptive_codec_decode's caller is safe whatever arrives:
\* nothing is written beyond its room, what was encoded is refused before
\* anything is written if at all, and the integers fit their width.
THEOREM SamplesGuardedAlways == Spec => []SamplesGuarded
<1>1. CodecInv => SamplesGuarded
  <2> SUFFICES ASSUME CodecInv PROVE SamplesGuarded
    OBVIOUS
  <2>1. TypeOK
    <3>1. CodecTypes
      BY Zenon DEF CodecInv
    <3>2. ASSUME encoded = "ok"
          PROVE  \A p \in DOMAIN sent.pairs :
                    /\ sent.pairs[p].index \in DOMAIN coefficients
                    /\ Magnitude(sent.pairs[p].quantized) < 2 ^ (settings.quant_bits - 1)
      <4>1. Accepted /\ sent = Representation
        BY <3>2, Zenon DEF CodecInv
      <4> QED BY <4>1, PairsTyped, Zenon
    <3> QED BY <3>1, <3>2, Zenon DEF TypeOK, CodecTypes
  <2>2. WritesInside
    BY Zenon DEF CodecInv
  <2>3. RefusedBeforeWriting
    <3> SUFFICES ASSUME phase = "done", result # "ok", wire.count = sent.count,
                        wire.levels = sent.levels, NEW i \in Memory
                 PROVE  samples[i] = Untouched
      BY Zenon DEF RefusedBeforeWriting
    <3>1. Ended
      BY Zenon DEF CodecInv
    <3>2. ~(HeaderAccepted /\ Intact)
      BY <3>1, Zenon DEF Ended
    <3>3. Fresh
      BY <3>1, <3>2, Zenon DEF Ended
    <3> QED BY <3>3 DEF Fresh
  <2> QED BY <2>1, <2>2, <2>3, Zenon DEF SamplesGuarded
<1> QED BY <1>1, SpecCodec, PTL

\* What is decoded whole has every coefficient scaled back in its place.
LEMMA DecodedSamples ==
  ASSUME CodecInv, phase = "done", result = "ok", wire = sent, NEW i \in 0 .. Count - 1
  PROVE  samples[i] = Values[i] * wire.scale
<1>1. Accepted /\ sent = Representation /\ Delivered /\ Ended
  BY Zenon DEF CodecInv, Arrived
<1>2. HeaderAccepted /\ Intact /\ next_pair = wire.nonzero /\ Filled
  BY <1>1, Zenon DEF Ended
<1> DEFINE pairs == wire.pairs
           n == Len(pairs)
           scale == wire.scale
<1>3. wire.nonzero = n /\ Stream(pairs, Values, Count) /\ wire.count = Count
  BY <1>1, <1>2, PairsArrive, Represented
<1>4. scale \in Int /\ Values[i] \in Int
  <2>1. scale = Scale(Largest(KeptWindow), Step)
    BY <1>1, <1>2, PairsArrive
  <2> HIDE DEF scale
  <2>2. Scale(Largest(KeptWindow), Step) \in Int /\ Values[i] \in Int
    BY <1>1, ValueOf
  <2> QED BY <2>1, <2>2
<1>5. CASE \E p \in 1 .. n : pairs[p].index = i
  <2>1. PICK p \in 1 .. n : pairs[p].index = i
    BY <1>5
  <2>2. pairs[p].quantized = Values[i]
    BY <1>3, <2>1, Zenon DEF Stream
  <2>3. samples[pairs[p].index] = pairs[p].quantized * scale
    BY <1>2, <1>3, <2>1, Zenon DEF Filled
  <2> QED BY <2>1, <2>2, <2>3, Zenon
<1>6. CASE ~\E p \in 1 .. n : pairs[p].index = i
  <2>1. Values[i] = 0
    BY <1>3, <1>6, Zenon DEF Stream
  <2>2. samples[i] = 0
    BY <1>2, <1>3, <1>6, Zenon DEF Filled
  <2> HIDE DEF scale
  <2>3. 0 * scale = 0
    BY <1>4
  <2> QED BY <2>1, <2>2, <2>3, Zenon DEF scale
<1> QED BY <1>5, <1>6

\* What was written passes the header, unless its scale rounds to zero.
LEMMA SentPasses ==
  ASSUME CodecInv, Arrived, wire = sent, sample_capacity >= sent.count
  PROVE  Intact /\ (HeaderAccepted <=> ScaleSurvives)
<1>1. Accepted /\ sent = Representation /\ CodecTypes
  BY Zenon DEF CodecInv
<1>2. /\ wire.nonzero \in Nat /\ wire.count = Count /\ wire.levels = settings.levels
      /\ wire.quant_bits = settings.quant_bits /\ wire.state = settings.state
      /\ wire.scale = Scale(Largest(KeptWindow), Step)
      /\ wire.crc = wire.pairs
      /\ wire.length = CODEC_HEADER_BYTES + 4 * wire.nonzero
  BY <1>1, Represented, Zenon
<1>3. Intact
  BY <1>2, Zenon DEF Intact, Crc
<1>4. /\ Count \in 8 .. ADAPTIVE_MAX_WINDOW /\ Count \in Nat /\ settings.levels \in 1 .. 8
      /\ settings.quant_bits \in 2 .. 15 /\ settings.state \in 0 .. ADAPTIVE_STATE_COUNT - 1
  BY <1>1, CallTyped
<1>5. wire.count \in 1 .. ADAPTIVE_MAX_WINDOW
  BY <1>2, <1>4 DEF ADAPTIVE_MAX_WINDOW
<1>6. wire.count <= sample_capacity
  <2>1. sample_capacity \in Int /\ wire.count \in Int
    <3>1. sample_capacity \in 0 .. MemorySize /\ MemorySize \in Nat
      BY <1>1, CapacitiesAssumption, Zenon DEF CodecTypes
    <3> QED BY <1>2, <1>4, <3>1
  <2> QED BY <2>1
<1>7. wire.levels \in 1 .. 63 /\ wire.count \div 2 ^ (wire.levels - 1) >= 8
  <2>1. wire.levels \in 1 .. 63
    BY <1>2, <1>4
  <2>2. wire.count \div 2 ^ (wire.levels - 1) >= 8
    BY <1>1, <1>2, Zenon DEF Accepted, validate_transform
  <2> QED BY <2>1, <2>2
<1>8. wire.quant_bits \in 2 .. 15 /\ wire.state < ADAPTIVE_STATE_COUNT
  BY <1>2, <1>4 DEF ADAPTIVE_STATE_COUNT
<1>9. wire.length >= CODEC_HEADER_BYTES
  <2> DEFINE more == wire.nonzero
             length == wire.length
  <2>1. more \in Nat /\ length = CODEC_HEADER_BYTES + 4 * more
    BY <1>2
  <2> HIDE DEF more, length
  <2>2. length >= CODEC_HEADER_BYTES
    BY <2>1 DEF CODEC_HEADER_BYTES
  <2> QED BY <2>2 DEF length
<1>10. wire.scale > 0 <=> ScaleSurvives
  <2> DEFINE largest == Largest(KeptWindow)
             step == Step
             scale == Scale(largest, step)
  <2>1. largest \in Nat /\ step \in Nat /\ step >= 1 /\ step % 2 = 1
    BY <1>1, <1>4, KeptOf, MaximumOdd DEF Step
  <2>2. ScaleSurvives <=> (largest = 0 \/ 2 * largest > step)
    BY Zenon DEF ScaleSurvives, KeptWindow, Step
  <2> HIDE DEF largest, step
  <2>3. CASE largest = 0
    <3>1. scale = One
      BY <2>3 DEF Scale
    <3>2. One > 0
      BY DEF One
    <3>3. wire.scale = scale
      BY <1>2, Zenon DEF largest, step
    <3> QED BY <2>2, <2>3, <3>1, <3>2, <3>3, Zenon
  <2>4. CASE largest # 0
    <3>1. largest >= 1
      BY <2>1, <2>4
    <3>2. scale \in Nat /\ (scale = 0 <=> ~(2 * largest > step))
      BY <2>1, <3>1, ScaleNear
    <3>3. wire.scale = scale
      BY <1>2, Zenon DEF largest, step
    <3> HIDE DEF scale
    <3>4. scale > 0 <=> scale # 0
      BY <3>2
    <3> QED BY <2>2, <2>4, <3>2, <3>3, <3>4, Zenon
  <2> QED BY <2>3, <2>4
<1> QED BY <1>2, <1>3, <1>5, <1>6, <1>7, <1>8, <1>9, <1>10, Zenon DEF HeaderAccepted

\* What arrives whole is decoded, each coefficient to within half a step of
\* the quantizer, the rounding of the scale and the threshold; only a window
\* whose scale rounds to zero is refused.
THEOREM RecoveredAlways == Spec => []Recovered
<1>1. CodecInv => Recovered
  <2> SUFFICES ASSUME CodecInv, phase = "done", wire = sent, sample_capacity >= sent.count
               PROVE  IF ScaleSurvives
                      THEN result = "ok" /\ \A i \in DOMAIN coefficients : Close(i)
                      ELSE result = "format"
    BY Zenon DEF Recovered
  <2>1. Arrived /\ Ended /\ Accepted /\ sent = Representation /\ Delivered
    BY Zenon DEF CodecInv, Arrived
  <2>2. Intact /\ (HeaderAccepted <=> ScaleSurvives)
    BY <2>1, SentPasses, Zenon
  <2>3. ASSUME ~ScaleSurvives PROVE result = "format"
    BY <2>1, <2>2, <2>3, Zenon DEF Ended
  <2>4. ASSUME ScaleSurvives PROVE result = "ok"
    BY <2>1, <2>2, <2>4, Zenon DEF Ended
  <2>5. ASSUME ScaleSurvives, NEW i \in DOMAIN coefficients PROVE Close(i)
    <3>1. i \in 0 .. Count - 1
      BY <2>1, CallTyped
    <3>2. samples[i] = Values[i] * wire.scale
      BY <2>4, <2>5, <3>1, DecodedSamples, Zenon
    <3>3. wire.count = Count /\ wire.scale = Scale(Largest(KeptWindow), Step)
      BY <2>1, Represented, Zenon
    <3>4. 2 * Step * Magnitude(Values[i] * Scale(Largest(KeptWindow), Step) - coefficients[i])
            <= Largest(coefficients) + Step * Step + 2 * Step * Allowed(i)
      BY <2>1, <3>1, ValueOf, Zenon
    <3>5. 2 * Step * Magnitude(samples[i] - coefficients[i])
            <= Largest(coefficients) + Step * Step + 2 * Step * Allowed(i)
      BY <3>2, <3>3, <3>4, Zenon
    <3> QED BY <3>3, <3>5, Zenon DEF Close, Allowed, Step
  <2> QED BY <2>3, <2>4, <2>5, Zenon
<1> QED BY <1>1, SpecCodec, PTL

==============================================================================
