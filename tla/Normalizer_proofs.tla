-------------------------- MODULE Normalizer_proofs --------------------------
(***************************************************************************)
(* The baseline of adaptive_normalizer_update, proved for all metrics,     *)
(* every fraction baseline_alpha and every baseline_epsilon: scores are    *)
(* bounded, and what an outburst leaves in mean and variance is forgotten  *)
(* by the share alpha at every observation of the level that follows.      *)
(***************************************************************************)
EXTENDS Normalizer, TLAPS

-----------------------------------------------------------------------------
\* The operators.

\* The greatest of finitely many scores, and of two numbers.
LEMMA GreatestScore ==
  ASSUME NEW S, S \subseteq 0 .. 6, 0 \in S
  PROVE  Max(S) \in S /\ \A y \in S : Max(S) >= y
<1>1. \E x \in S : \A y \in S : x >= y
  <2>1. \A y \in S : y \in {0, 1, 2, 3, 4, 5, 6}
    OBVIOUS
  <2> QED BY <2>1
<1> QED BY <1>1 DEF Max

LEMMA GreaterOfTwo ==
  ASSUME NEW a \in Int, NEW b \in Int
  PROVE  Max({a, b}) \in {a, b} /\ Max({a, b}) >= a /\ Max({a, b}) >= b
<1>1. \E x \in {a, b} : \A y \in {a, b} : x >= y
  OBVIOUS
<1> QED BY <1>1 DEF Max

LEMMA LesserOfTwo ==
  ASSUME NEW a \in Int, NEW b \in Int
  PROVE  Min({a, b}) \in {a, b} /\ Min({a, b}) <= a /\ Min({a, b}) <= b
<1>1. \E x \in {a, b} : \A y \in {a, b} : x <= y
  OBVIOUS
<1> QED BY <1>1 DEF Min

LEMMA AtLeastZero ==
  ASSUME NEW n \in Int
  PROVE  Max({0, n}) \in Nat /\ Max({0, n}) >= n
<1>1. 0 \in Int
  OBVIOUS
<1> DEFINE z == Max({0, n})
<1>2. z \in {0, n} /\ z >= 0 /\ z >= n
  BY <1>1, GreaterOfTwo
<1> HIDE DEF z
<1>3. z \in Nat /\ z >= n
  BY <1>2
<1> QED BY <1>3 DEF z

\* The whole part of a quotient.
LEMMA Quotient ==
  ASSUME NEW n \in Nat, NEW d \in Nat \ {0}
  PROVE  n \div d \in Nat /\ d * (n \div d) <= n /\ n < d * (n \div d) + d
  OBVIOUS

LEMMA QuotientAtLeast ==
  ASSUME NEW n \in Nat, NEW d \in Nat \ {0}, NEW y \in Int, d * y <= n
  PROVE  y <= n \div d
<1> DEFINE q == n \div d
<1>1. q \in Nat /\ n < d * q + d
  BY Quotient
<1> HIDE DEF q
<1> SUFFICES ASSUME y >= q + 1 PROVE FALSE
  BY <1>1 DEF q
<1>2. PICK k \in Nat : y = q + 1 + k
  <2>1. y - (q + 1) \in Nat /\ y = q + 1 + (y - (q + 1))
    BY <1>1
  <2> QED BY <2>1
<1>3. d * y = d * q + d + d * k /\ d * k \in Nat
  BY <1>1, <1>2
<1> QED BY <1>1, <1>3

AlphaIn == Parts \in Nat \ {0} /\ alpha \in 1 .. Parts - 1

LEMMA AlphaTyped == alpha \in Alphas => AlphaIn
  BY InputsAssumption DEF AlphaIn

\* The two products are rounded down.
LEMMA KeptBounds ==
  ASSUME AlphaIn, NEW x \in Nat
  PROVE  /\ Kept(x) \in Nat /\ Parts * Kept(x) <= (Parts - alpha) * x
         /\ \A y \in Int : Parts * y <= (Parts - alpha) * x => y <= Kept(x)
<1> DEFINE n == (Parts - alpha) * x
<1>1. n \in Nat /\ Parts \in Nat \ {0}
  BY DEF AlphaIn
<1>2. Kept(x) = n \div Parts
  BY DEF Kept
<1> HIDE DEF n
<1>3. n \div Parts \in Nat /\ Parts * (n \div Parts) <= n
  BY <1>1, Quotient
<1>4. \A y \in Int : Parts * y <= n => y <= n \div Parts
  BY <1>1, QuotientAtLeast
<1>5. Kept(x) \in Nat /\ Parts * Kept(x) <= n
  BY <1>2, <1>3, Zenon
<1>6. \A y \in Int : Parts * y <= n => y <= Kept(x)
  BY <1>2, <1>4, Zenon
<1> QED BY <1>5, <1>6, Zenon DEF n

LEMMA ShareBounds ==
  ASSUME AlphaIn, NEW x \in Nat
  PROVE  Share(x) \in Nat /\ Parts * Share(x) <= alpha * x
<1> DEFINE n == alpha * x
<1>1. n \in Nat /\ Parts \in Nat \ {0}
  BY DEF AlphaIn
<1>2. Share(x) = n \div Parts
  BY DEF Share
<1> HIDE DEF n
<1>3. n \div Parts \in Nat /\ Parts * (n \div Parts) <= n
  BY <1>1, Quotient
<1>4. Share(x) \in Nat /\ Parts * Share(x) <= n
  BY <1>2, <1>3, Zenon
<1> QED BY <1>4, Zenon DEF n

LEMMA TenthRounds ==
  ASSUME NEW x \in Nat
  PROVE  Nearest(x, 10) \in Nat
  BY DEF Nearest

LEMMA MagnitudeOf ==
  ASSUME NEW x \in Int
  PROVE  Magnitude(x) \in Nat /\ Magnitude(x) * Magnitude(x) = x * x
         /\ (x = Magnitude(x) \/ x = -Magnitude(x))
<1>1. CASE x >= 0
  BY <1>1 DEF Magnitude
<1>2. CASE x < 0
  <2>1. Magnitude(x) = -x /\ -x \in Nat /\ x = -(-x)
    BY <1>2 DEF Magnitude
  <2>2. (-x) * (-x) = x * x
    OBVIOUS
  <2> QED BY <2>1, <2>2
<1> QED BY <1>1, <1>2

LEMMA ScaleAboveOne ==
  ASSUME NEW x \in Int
  PROVE  FirstVariance(x) \in Nat /\ FirstVariance(x) >= One * One
<1> DEFINE s == InitialScale(x)
<1>1. s \in Nat /\ s >= 4
  <2> DEFINE t == Nearest(Magnitude(x), 10)
  <2>1. t \in Nat
    BY MagnitudeOf, TenthRounds
  <2> HIDE DEF t
  <2>2. Max({4, t}) \in {4, t} /\ Max({4, t}) >= 4
    BY <2>1, GreaterOfTwo
  <2> QED BY <2>1, <2>2 DEF InitialScale, One, t
<1> HIDE DEF s
<1>2. s * s \in Nat /\ s * s >= 16
  BY <1>1
<1> QED BY <1>2 DEF FirstVariance, One, s

LEMMA NextVarianceBounds ==
  ASSUME AlphaIn, NEW v \in Nat, NEW delta \in Int, epsilon \in Int
  PROVE  LET kept == Kept(v + Share(delta * delta))
             w == NextVariance(v, delta)
         IN w \in Nat /\ kept \in Nat /\ w \in {epsilon, kept} /\ w >= epsilon /\ w >= kept
<1> DEFINE square == delta * delta
           share == Share(square)
           kept == Kept(v + share)
           w == NextVariance(v, delta)
<1>1. square \in Nat
  OBVIOUS
<1> HIDE DEF square
<1>2. share \in Nat
  BY <1>1, ShareBounds
<1> HIDE DEF share
<1>3. kept \in Nat
  <2>1. v + share \in Nat
    BY <1>2
  <2> QED BY <2>1, KeptBounds
<1>4. w = Max({epsilon, kept})
  BY DEF NextVariance, square, share
<1> HIDE DEF kept, w
<1>5. w \in {epsilon, kept} /\ w >= epsilon /\ w >= kept
  BY <1>3, <1>4, GreaterOfTwo
<1>6. w \in Nat
  BY <1>3, <1>5
<1> QED BY <1>3, <1>5, <1>6, Zenon DEF w, kept, share, square

\* What is left of a distance.
LEMMA NextMeanBounds ==
  ASSUME AlphaIn, NEW x \in Int, NEW m \in Int
  PROVE  LET a == Magnitude(x - m)
             after == NextMean(m, x - m)
         IN /\ a \in Nat /\ after \in Int /\ Kept(a) \in Nat
            /\ (x - after) * (x - after) = Kept(a) * Kept(a)
<1> DEFINE d == x - m
           a == Magnitude(d)
           k == Kept(a)
           after == NextMean(m, d)
<1>1. d \in Int /\ m + d = x
  OBVIOUS
<1> HIDE DEF d
<1>2. a \in Nat /\ a = (IF d < 0 THEN -d ELSE d)
  BY <1>1 DEF Magnitude
<1>3. after = IF d < 0 THEN m + d + k ELSE m + d - k
  <2>1. CASE d < 0
    <3>1. a = -d
      BY <1>2, <2>1
    <3> QED BY <2>1, <3>1, Zenon DEF NextMean
  <2>2. CASE ~(d < 0)
    <3>1. a = d
      BY <1>2, <2>2
    <3> QED BY <2>2, <3>1, Zenon DEF NextMean
  <2> QED BY <2>1, <2>2
<1> HIDE DEF a, after
<1>4. k \in Nat
  BY <1>2, KeptBounds
<1> HIDE DEF k
<1>5. after \in Int /\ (x - after = k \/ x - after = -k)
  BY <1>1, <1>3, <1>4
<1>6. (x - after) * (x - after) = k * k
  <2>1. CASE x - after = k
    BY <2>1
  <2>2. CASE x - after = -k
    <3>1. (-k) * (-k) = k * k
      BY <1>4
    <3> QED BY <2>2, <3>1
  <2> QED BY <1>5, <2>1, <2>2
<1> QED BY <1>2, <1>4, <1>5, <1>6, Zenon DEF k, a, d, after

\* A score of a positive scale is between -6 and 6, and a deviation at least,
\* in the direction of the change, when the change is as large as that.
LEMMA ScoreBounds ==
  ASSUME NEW metric \in Metrics, NEW delta \in Int, NEW v \in Nat, epsilon \in Int
  PROVE  /\ Score(metric, delta, v) \in Int
         /\ v + epsilon > 0 => Score(metric, delta, v) \in -6 .. 6
         /\ v + epsilon > 0 /\ delta * delta >= v + epsilon =>
              IF Worse(metric, delta) THEN Score(metric, delta, v) >= 1
              ELSE Score(metric, delta, v) <= -1
<1> DEFINE scale == v + epsilon
           square == delta * delta
           S == {n \in 0 .. 6 : n * n * scale <= square}
           z == Max(S)
<1>1. scale \in Int /\ square \in Nat
  OBVIOUS
<1>2. Score(metric, delta, v)
        = IF scale < 0 \/ (scale = 0 /\ delta = 0) THEN NotFinite
          ELSE IF (delta < 0) = (metric = "GOODPUT") THEN z ELSE -z
  BY DEF Score
<1> HIDE DEF scale, square
<1>3. S \subseteq 0 .. 6 /\ 0 \in S
  BY <1>1
<1>4. z \in S /\ z \in 0 .. 6
  BY <1>3, GreatestScore
<1>5. scale > 0 /\ square >= scale => z >= 1
  <2> SUFFICES ASSUME scale > 0, square >= scale PROVE z >= 1
    OBVIOUS
  <2>1. 1 * 1 * scale <= square
    BY <1>1
  <2>2. 1 \in S
    BY <2>1
  <2>3. z >= 1
    BY <1>3, <2>2, GreatestScore
  <2> QED BY <2>3
<1>6. NotFinite \in Int
  BY DEF NotFinite
<1>7. scale > 0 /\ square >= scale => delta # 0
  <2> SUFFICES ASSUME delta = 0 PROVE square = 0
    BY <1>1
  <2> QED BY DEF square
<1> HIDE DEF z, S
<1> DEFINE score == Score(metric, delta, v)
<1> HIDE DEF score
<1>8. score = IF scale < 0 \/ (scale = 0 /\ delta = 0) THEN NotFinite
              ELSE IF (delta < 0) = (metric = "GOODPUT") THEN z ELSE -z
  BY <1>2, Zenon DEF score
<1>9. /\ score \in Int
      /\ scale > 0 => score \in -6 .. 6
  BY <1>1, <1>4, <1>6, <1>8
<1>10. scale > 0 /\ square >= scale =>
         IF Worse(metric, delta) THEN score = z ELSE score = -z
  <2> SUFFICES ASSUME scale > 0, square >= scale
               PROVE  IF Worse(metric, delta) THEN score = z ELSE score = -z
    OBVIOUS
  <2>1. delta # 0 /\ ~(scale < 0 \/ (scale = 0 /\ delta = 0))
    BY <1>1, <1>7
  <2>2. score = IF (delta < 0) = (metric = "GOODPUT") THEN z ELSE -z
    BY <1>8, <2>1, Zenon
  <2>3. delta > 0 <=> ~(delta < 0)
    BY <2>1
  <2>4. CASE metric = "GOODPUT"
    BY <2>2, <2>4, Zenon DEF Worse
  <2>5. CASE metric # "GOODPUT"
    <3>1. ~((delta < 0) = (metric = "GOODPUT")) <=> delta < 0
      BY <2>5
    <3>2. Worse(metric, delta) <=> ~(delta < 0)
      BY <2>3, <2>5, Zenon DEF Worse
    <3> QED BY <2>2, <3>1, <3>2, Zenon
  <2> QED BY <2>4, <2>5
<1>11. scale > 0 /\ square >= scale =>
         IF Worse(metric, delta) THEN score >= 1 ELSE score <= -1
  <2> DEFINE worse == Worse(metric, delta)
  <2>1. scale > 0 /\ square >= scale => (IF worse THEN score = z ELSE score = -z)
    BY <1>10
  <2> HIDE DEF worse
  <2>2. scale > 0 /\ square >= scale => (IF worse THEN score >= 1 ELSE score <= -1)
    BY <1>1, <1>4, <1>5, <2>1
  <2> QED BY <2>2 DEF worse
<1> QED BY <1>9, <1>11 DEF scale, square, score
-----------------------------------------------------------------------------
\* Types and the range of the scores.

BaselineInv ==
  /\ TypeOK
  /\ level \in [Metrics -> Int] /\ allowance \in [Metrics -> Nat]
  /\ epsilon > 0 => \A metric \in Metrics : normalized[metric] \in -6 .. 6

LEMMA EpsilonInt == TypeOK => epsilon \in Int
  BY InputsAssumption DEF TypeOK

\* Once there is a baseline, a positive epsilon makes every variance positive.
LEMMA VariancePositive ==
  ASSUME TypeOK, initialized, epsilon > 0, NEW metric \in Metrics
  PROVE  variance[metric] \in Nat /\ variance[metric] >= 1
<1> DEFINE v == variance[metric]
           least == Min({epsilon, One * One})
<1>1. v \in Nat /\ v >= least
  BY DEF TypeOK
<1>2. epsilon \in Int /\ One * One \in Int /\ One * One >= 1
  BY EpsilonInt DEF One
<1>3. least \in {epsilon, One * One}
  BY <1>2, LesserOfTwo
<1> HIDE DEF v, least
<1>4. v \in Nat /\ v >= 1
  BY <1>1, <1>2, <1>3
<1> QED BY <1>4 DEF v

LEMMA InitBaseline == Init => BaselineInv
<1> SUFFICES ASSUME Init PROVE BaselineInv
  OBVIOUS
<1>1. Zero \in [Metrics -> Int] /\ Zero \in [Metrics -> Nat] /\ \A metric \in Metrics : Zero[metric] = 0
  BY DEF Zero
<1>2. TypeOK
  <2>1. /\ alpha \in Alphas /\ epsilon \in Epsilons /\ initialized = FALSE
        /\ result = "not called" /\ observations = 0
    BY DEF Init
  <2>2. 0 \in 0 .. MaxObservations
    BY InputsAssumption
  <2>3. mean \in [Metrics -> Int] /\ variance \in [Metrics -> Nat] /\ normalized \in [Metrics -> Int]
    BY <1>1 DEF Init
  <2> QED BY <2>1, <2>2, <2>3 DEF TypeOK
<1>3. normalized = Zero /\ level = Zero /\ allowance = Zero
  BY DEF Init
<1> QED BY <1>1, <1>2, <1>3 DEF BaselineInv

\* The bookkeeping of a call.
LEMMA CallTyped ==
  ASSUME BaselineInv, Called
  PROVE  observations' \in 0 .. MaxObservations /\ epsilon' = epsilon /\ alpha' = alpha
<1>1. MaxObservations \in Nat
  BY InputsAssumption
<1>2. observations \in 0 .. MaxObservations
  BY DEF BaselineInv, TypeOK
<1>3. /\ observations < MaxObservations /\ observations' = observations + 1
      /\ epsilon' = epsilon /\ alpha' = alpha
  BY DEF Called
<1> QED BY <1>1, <1>2, <1>3

LEMMA InputTyped == \A input \in Inputs : input \in [Metrics -> Int]
  BY InputsAssumption

LEMMA RefuseBaseline ==
  ASSUME BaselineInv, NEW input \in Inputs, Refuse(input)
  PROVE  BaselineInv'
<1>1. /\ Called /\ result' = "range"
      /\ UNCHANGED <<initialized, mean, variance, normalized, level, allowance>>
  BY DEF Refuse, baseline, history
<1>2. TypeOK'
  BY <1>1, CallTyped DEF BaselineInv, TypeOK
<1> QED BY <1>1, <1>2, CallTyped DEF BaselineInv

LEMMA FirstBaseline ==
  ASSUME BaselineInv, NEW input \in Inputs, First(input)
  PROVE  BaselineInv'
<1>1. /\ Called /\ result' = "ok" /\ initialized' = TRUE /\ mean' = input
      /\ variance' = [metric \in Metrics |-> FirstVariance(input[metric])]
      /\ normalized' = [metric \in Metrics |-> 0] /\ level' = input
      /\ allowance' = [metric \in Metrics |-> Max({0, FirstVariance(input[metric]) - epsilon})]
  BY DEF First
<1>2. epsilon \in Int /\ epsilon \in Epsilons
  BY EpsilonInt DEF BaselineInv, TypeOK
<1>3. \A metric \in Metrics : /\ variance'[metric] \in Nat
                              /\ variance'[metric] >= Min({epsilon, One * One})
  <2> SUFFICES ASSUME NEW metric \in Metrics
               PROVE  /\ FirstVariance(input[metric]) \in Nat
                      /\ FirstVariance(input[metric]) >= Min({epsilon, One * One})
    BY <1>1
  <2> DEFINE v == FirstVariance(input[metric])
             least == Min({epsilon, 16})
  <2>1. v \in Nat /\ v >= 16
    BY InputTyped, ScaleAboveOne DEF One
  <2>2. least \in {epsilon, 16} /\ least <= 16
    BY <1>2, LesserOfTwo
  <2> HIDE DEF v, least
  <2>3. v \in Nat /\ v >= least
    BY <1>2, <2>1, <2>2
  <2> QED BY <2>3 DEF v, least, One
<1>4. variance' \in [Metrics -> Nat]
  BY <1>1, <1>3
<1>5. /\ mean' \in [Metrics -> Int] /\ observations' \in 0 .. MaxObservations
      /\ epsilon' = epsilon /\ alpha' = alpha /\ level' \in [Metrics -> Int]
  BY <1>1, CallTyped, InputTyped
<1>8. allowance' \in [Metrics -> Nat]
  <2> SUFFICES ASSUME NEW metric \in Metrics
               PROVE  Max({0, FirstVariance(input[metric]) - epsilon}) \in Nat
    BY <1>1
  <2> DEFINE rest == FirstVariance(input[metric]) - epsilon
  <2>1. FirstVariance(input[metric]) \in Nat
    BY InputTyped, ScaleAboveOne
  <2>2. rest \in Int
    BY <1>2, <2>1
  <2> HIDE DEF rest
  <2>3. Max({0, rest}) \in Nat
    BY <2>2, AtLeastZero
  <2> QED BY <2>3 DEF rest
<1>6. normalized' \in [Metrics -> Int] /\ \A metric \in Metrics : normalized'[metric] \in -6 .. 6
  BY <1>1
<1>7. TypeOK'
  <2>1. alpha \in Alphas
    BY DEF BaselineInv, TypeOK
  <2> QED BY <1>1, <1>2, <1>3, <1>4, <1>5, <1>6, <2>1, Zenon DEF TypeOK
<1> QED BY <1>5, <1>6, <1>7, <1>8, Zenon DEF BaselineInv

\* What an update does to one metric.
LEMMA UpdateOfMetric ==
  ASSUME BaselineInv, NEW input \in Inputs, Update(input), NEW metric \in Metrics
  PROVE  LET delta == input[metric] - mean[metric]
             v == variance[metric]
         IN /\ delta \in Int /\ v \in Nat
            /\ normalized'[metric] = Score(metric, delta, v)
            /\ mean'[metric] = NextMean(mean[metric], delta) /\ mean[metric] \in Int
            /\ variance'[metric] = NextVariance(v, delta)
            /\ input[metric] \in Int /\ level'[metric] = input[metric]
            /\ allowance'[metric] = Kept(IF input[metric] = level[metric] THEN allowance[metric]
                                          ELSE Excess(metric, input[metric]))
<1>1. input \in [Metrics -> Int] /\ mean \in [Metrics -> Int] /\ variance \in [Metrics -> Nat]
  BY InputTyped DEF BaselineInv, TypeOK
<1>2. input[metric] \in Int /\ mean[metric] \in Int /\ variance[metric] \in Nat
  BY <1>1
<1>3. input[metric] - mean[metric] \in Int
  BY <1>2
<1>4. /\ level' = input
      /\ normalized'[metric] = Score(metric, input[metric] - mean[metric], variance[metric])
      /\ mean'[metric] = NextMean(mean[metric], input[metric] - mean[metric])
      /\ variance'[metric] = NextVariance(variance[metric], input[metric] - mean[metric])
      /\ allowance'[metric] = Kept(IF input[metric] = level[metric] THEN allowance[metric]
                                    ELSE Excess(metric, input[metric]))
  BY DEF Update
<1> QED BY <1>2, <1>3, <1>4, Zenon

LEMMA AlphaIs == BaselineInv => AlphaIn
  BY AlphaTyped DEF BaselineInv, TypeOK

LEMMA ExcessTyped ==
  ASSUME BaselineInv, NEW metric \in Metrics, NEW x \in Int
  PROVE  Excess(metric, x) \in Nat
<1> DEFINE rest == variance[metric] - epsilon
           far == x - mean[metric]
<1>1. rest \in Int /\ far \in Int
  <2>1. epsilon \in Int
    BY EpsilonInt DEF BaselineInv
  <2>2. variance[metric] \in Nat /\ mean[metric] \in Int
    BY DEF BaselineInv, TypeOK
  <2> QED BY <2>1, <2>2
<1>2. Excess(metric, x) = Max({0, rest}) + far * far
  BY DEF Excess
<1> HIDE DEF rest, far
<1>3. Max({0, rest}) \in Nat
  BY <1>1, AtLeastZero
<1>4. Max({0, rest}) \in Nat /\ far * far \in Nat
  BY <1>1, <1>3
<1> QED BY <1>2, <1>4

LEMMA UpdateBaseline ==
  ASSUME BaselineInv, NEW input \in Inputs, Update(input)
  PROVE  BaselineInv'
<1>1. Called /\ result' = "ok" /\ initialized /\ UNCHANGED initialized /\ level' = input
  BY DEF Update
<1>2. epsilon \in Int /\ epsilon \in Epsilons /\ alpha \in Alphas /\ TypeOK /\ AlphaIn
  BY EpsilonInt, AlphaIs DEF BaselineInv, TypeOK
<1>3. /\ mean' = [m \in Metrics |-> mean'[m]]
      /\ variance' = [m \in Metrics |-> variance'[m]]
      /\ normalized' = [m \in Metrics |-> normalized'[m]]
      /\ allowance' = [m \in Metrics |-> allowance'[m]]
  BY DEF Update
<1>4. ASSUME NEW metric \in Metrics
      PROVE  /\ mean'[metric] \in Int
             /\ variance'[metric] \in Nat /\ variance'[metric] >= Min({epsilon, One * One})
             /\ normalized'[metric] \in Int
             /\ epsilon > 0 => normalized'[metric] \in -6 .. 6
             /\ allowance'[metric] \in Nat
  <2> DEFINE x == input[metric]
             m == mean[metric]
             delta == x - m
             v == variance[metric]
             w == NextVariance(v, delta)
             least == Min({epsilon, 16})
             score == Score(metric, delta, v)
             after == NextMean(m, delta)
             before == IF x = level[metric] THEN allowance[metric] ELSE Excess(metric, x)
  <2>1. /\ delta \in Int /\ v \in Nat /\ m \in Int /\ x \in Int
        /\ normalized'[metric] = score /\ mean'[metric] = after
        /\ variance'[metric] = w /\ allowance'[metric] = Kept(before)
    BY UpdateOfMetric
  <2>2. epsilon > 0 => v >= 1
    BY <1>1, <1>2, VariancePositive
  <2>3. after \in Int
    <3>1. x \in Int /\ m \in Int
      BY <2>1
    <3> HIDE DEF x, m
    <3> QED BY <1>2, <3>1, NextMeanBounds
  <2>4. before \in Nat
    <3>1. Excess(metric, x) \in Nat
      BY <2>1, ExcessTyped
    <3>2. allowance[metric] \in Nat
      BY DEF BaselineInv
    <3> QED BY <3>1, <3>2
  <2> HIDE DEF x, m, delta, v, after, before
  <2>5. w \in Nat /\ w >= epsilon
    BY <1>2, <2>1, NextVarianceBounds
  <2>6. least \in {epsilon, 16} /\ least <= epsilon
    <3>1. epsilon \in Int /\ 16 \in Int
      BY <1>2
    <3> QED BY <3>1, LesserOfTwo
  <2>7. score \in Int /\ (v + epsilon > 0 => score \in -6 .. 6)
    BY <1>2, <2>1, ScoreBounds
  <2>8. Kept(before) \in Nat
    BY <1>2, <2>4, KeptBounds
  <2> HIDE DEF w, least, score
  <2>9. w >= least
    BY <1>2, <2>5, <2>6
  <2>10. epsilon > 0 => score \in -6 .. 6
    BY <1>2, <2>1, <2>2, <2>7
  <2> QED BY <2>1, <2>3, <2>5, <2>7, <2>8, <2>9, <2>10 DEF least, One
<1>5. /\ mean' \in [Metrics -> Int] /\ variance' \in [Metrics -> Nat]
      /\ normalized' \in [Metrics -> Int] /\ allowance' \in [Metrics -> Nat]
  BY <1>3, <1>4
<1>6. TypeOK'
  BY <1>1, <1>2, <1>4, <1>5, CallTyped DEF TypeOK
<1>7. level' \in [Metrics -> Int] /\ epsilon' = epsilon
  BY <1>1, InputTyped, CallTyped
<1>8. epsilon > 0 => \A metric \in Metrics : normalized'[metric] \in -6 .. 6
  BY <1>4
<1> QED BY <1>5, <1>6, <1>7, <1>8, Zenon DEF BaselineInv

LEMMA BaselineStep == BaselineInv /\ [Next]_vars => BaselineInv'
<1> SUFFICES ASSUME BaselineInv, [Next]_vars PROVE BaselineInv'
  OBVIOUS
<1>1. CASE UNCHANGED vars
  BY <1>1 DEF BaselineInv, TypeOK, vars, baseline, history
<1>2. CASE Next
  BY <1>2, RefuseBaseline, FirstBaseline, UpdateBaseline DEF Next
<1> QED BY <1>1, <1>2

LEMMA SpecBaseline == Spec => []BaselineInv
  BY InitBaseline, BaselineStep, PTL DEF Spec

\* What adaptive_normalizer_update gives its caller is between -6 and 6 for
\* every positive baseline_epsilon and all metrics, one not finite included.
THEOREM ScoresInRangeAlways == Spec => []ScoresInRange
<1>1. BaselineInv => ScoresInRange
  BY DEF BaselineInv, ScoresInRange
<1> QED BY <1>1, SpecBaseline, PTL


-----------------------------------------------------------------------------
\* Forgetting.  The variance beyond epsilon and the squared distance of the mean
\* from the level shrink together: what the distance feeds to the variance is
\* less than what it loses itself.

ForgetInv ==
  initialized /\ epsilon > 0 =>
    \A metric \in Metrics : Excess(metric, level[metric]) <= allowance[metric]

LEMMA SquareMonotone ==
  ASSUME NEW x \in Nat, NEW y \in Nat, x <= y
  PROVE  x * x <= y * y
<1>1. x * x <= x * y
  OBVIOUS
<1>2. x * y <= y * y
  OBVIOUS
<1>3. x * x \in Nat /\ x * y \in Nat /\ y * y \in Nat
  OBVIOUS
<1> QED BY <1>1, <1>2, <1>3

\* The arithmetic: p parts, q of them kept; a variance beyond epsilon u fed with
\* g leaves r, a distance of square s leaves k.
LEMMA BothShrink ==
  ASSUME NEW p \in Nat \ {0}, NEW q \in Nat, q <= p,
         NEW u \in Nat, NEW g \in Nat, NEW r \in Nat, NEW a \in Nat, NEW k \in Nat,
         p * r <= q * (u + g), p * g <= (p - q) * (a * a), p * k <= q * a
  PROVE  p * (r + k * k) <= q * (u + a * a)
<1> DEFINE s == a * a
           t == k * k
           kept == p * (r + t)
           old == q * (u + s)
<1>1. s \in Nat /\ t \in Nat
  OBVIOUS
<1>2. p * (p * t) <= q * (q * s)
  <2>1. p * k \in Nat /\ q * a \in Nat
    OBVIOUS
  <2>2. (p * k) * (p * k) <= (q * a) * (q * a)
    BY <2>1, SquareMonotone
  <2>3. (p * k) * (p * k) = p * (p * t) /\ (q * a) * (q * a) = q * (q * s)
    OBVIOUS
  <2> QED BY <2>2, <2>3
<1>3. p * (p * r) <= p * (q * u) + q * (p * g)
  <2>1. p * r \in Nat /\ q * (u + g) \in Nat
    OBVIOUS
  <2>2. p * (p * r) <= p * (q * (u + g))
    BY <2>1
  <2>3. p * (q * (u + g)) = p * (q * u) + q * (p * g)
    OBVIOUS
  <2> QED BY <2>2, <2>3
<1> HIDE DEF s, t
<1>4. q * (p * g) <= q * ((p - q) * s)
  <2>1. p * g <= (p - q) * s
    BY DEF s
  <2>2. p * g \in Nat /\ (p - q) * s \in Nat
    BY <1>1
  <2> QED BY <2>1, <2>2
<1>5. q * ((p - q) * s) + q * (q * s) = p * (q * s)
  BY <1>1
<1>6. p * kept = p * (p * r) + p * (p * t) /\ p * old = p * (q * u) + p * (q * s)
  BY <1>1
<1>7. kept \in Nat /\ old \in Nat
  BY <1>1
<1>8. p * kept <= p * old
  <2> DEFINE t1 == p * (p * r)
             t2 == p * (p * t)
             t3 == p * (q * u)
             t4 == p * (q * s)
             t5 == q * (p * g)
             t6 == q * ((p - q) * s)
             t7 == q * (q * s)
             t8 == p * kept
             t9 == p * old
  <2>1. /\ t1 \in Int /\ t2 \in Int /\ t3 \in Int /\ t4 \in Int /\ t5 \in Int
        /\ t6 \in Int /\ t7 \in Int /\ t8 \in Int /\ t9 \in Int
    BY <1>1, <1>7
  <2>2. /\ t2 <= t7 /\ t1 <= t3 + t5 /\ t5 <= t6 /\ t6 + t7 = t4
        /\ t8 = t1 + t2 /\ t9 = t3 + t4
    BY <1>2, <1>3, <1>4, <1>5, <1>6
  <2> HIDE DEF t1, t2, t3, t4, t5, t6, t7, t8, t9
  <2>3. t8 <= t9
    BY <2>1, <2>2
  <2> QED BY <2>3 DEF t8, t9
<1> HIDE DEF kept, old
<1>9. kept <= old
  <2> SUFFICES ASSUME kept >= old + 1 PROVE FALSE
    BY <1>7
  <2>1. p * kept >= p * (old + 1)
    BY <1>7
  <2>2. p * (old + 1) = p * old + p /\ p * old \in Int /\ p * kept \in Int
    BY <1>7
  <2> QED BY <1>8, <2>1, <2>2
<1> QED BY <1>9 DEF kept, old, s, t

\* What an update leaves of the excess over the level observed.
LEMMA ExcessShrinks ==
  ASSUME AlphaIn, epsilon \in Nat, NEW v \in Nat, NEW x \in Int, NEW m \in Int
  PROVE  LET d == x - m
             w == NextVariance(v, d)
             after == NextMean(m, d)
         IN Max({0, w - epsilon}) + (x - after) * (x - after)
              <= Kept(Max({0, v - epsilon}) + d * d)
<1> DEFINE d == x - m
           a == Magnitude(d)
           w == NextVariance(v, d)
           after == NextMean(m, d)
           u == Max({0, v - epsilon})
           r == Max({0, w - epsilon})
           k == Kept(a)
           g == Share(d * d)
           kept == Kept(v + g)
           q == Parts - alpha
<1>1. Parts \in Nat \ {0} /\ q \in Nat /\ q <= Parts /\ alpha = Parts - q
  BY DEF AlphaIn
<1>2. d \in Int
  OBVIOUS
<1>3. a \in Nat /\ after \in Int /\ k \in Nat /\ (x - after) * (x - after) = k * k
  BY NextMeanBounds
<1> HIDE DEF d, after
<1>4. d * d = a * a /\ d * d \in Nat
  BY <1>2, MagnitudeOf
<1> HIDE DEF a
<1>5. Parts * k <= q * a
  BY <1>3, KeptBounds
<1>6. g \in Nat /\ Parts * g <= (Parts - q) * (a * a)
  BY <1>1, <1>4, ShareBounds
<1> HIDE DEF k
<1>7. w \in Nat /\ w \in {epsilon, kept}
  BY <1>2, NextVarianceBounds
<1> HIDE DEF g, w
<1>8. kept \in Nat /\ Parts * kept <= q * (v + g)
  <2>1. v + g \in Nat
    BY <1>6
  <2> QED BY <2>1, KeptBounds
<1> HIDE DEF kept, q
<1>9. u \in Nat /\ u >= v - epsilon
  <2>1. v - epsilon \in Int
    OBVIOUS
  <2> DEFINE beyond == v - epsilon
  <2> HIDE DEF beyond
  <2>2. Max({0, beyond}) \in Nat /\ Max({0, beyond}) >= beyond
    BY <2>1, AtLeastZero DEF beyond
  <2> QED BY <2>2 DEF beyond
<1>10. r \in Nat /\ (r = 0 \/ r = kept - epsilon)
  <2>1. w - epsilon \in Int
    BY <1>7
  <2>2. r \in {0, w - epsilon} /\ r >= 0
    BY <2>1, GreaterOfTwo
  <2> HIDE DEF r
  <2>3. r = 0 \/ r = kept - epsilon
    BY <1>7, <2>2
  <2> QED BY <2>1, <2>2, <2>3
<1> HIDE DEF u, r
<1>11. Parts * r <= q * (u + g)
  <2>1. CASE r = 0
    <3>1. q * (u + g) \in Nat /\ Parts * r = 0
      BY <1>1, <1>6, <1>9, <2>1
    <3> QED BY <3>1
  <2>2. CASE r = kept - epsilon
    <3>1. Parts * r = Parts * kept - Parts * epsilon
      BY <1>1, <1>8, <2>2
    <3>2. PICK j \in Nat : Parts = q + j
      <4>1. Parts - q \in Nat /\ Parts = q + (Parts - q)
        BY <1>1
      <4> QED BY <4>1
    <3>3. Parts * epsilon = q * epsilon + j * epsilon /\ j * epsilon \in Nat /\ q * epsilon \in Nat
      BY <1>1, <3>2
    <3>4. PICK i \in Nat : u = v - epsilon + i
      <4>1. u - (v - epsilon) \in Nat /\ u = v - epsilon + (u - (v - epsilon))
        BY <1>9
      <4> QED BY <4>1
    <3>5. q * (u + g) = q * (v + g) - q * epsilon + q * i /\ q * i \in Nat /\ q * (v + g) \in Nat
      BY <1>1, <1>6, <3>4
    <3>6. Parts * kept \in Int
      BY <1>1, <1>8
    <3> QED BY <1>8, <3>1, <3>3, <3>5, <3>6
  <2> QED BY <1>10, <2>1, <2>2
<1>12. Parts * (r + k * k) <= q * (u + a * a)
  BY <1>1, <1>3, <1>5, <1>6, <1>9, <1>10, <1>11, BothShrink
<1>13. r + k * k <= Kept(u + a * a)
  <2> DEFINE old == u + a * a
             new == r + k * k
  <2>1. old \in Nat /\ new \in Int
    BY <1>3, <1>9, <1>10
  <2>2. Parts * new <= (Parts - alpha) * old
    BY <1>12 DEF q
  <2> HIDE DEF old, new
  <2>3. new <= Kept(old)
    BY <2>1, <2>2, KeptBounds
  <2> QED BY <2>3 DEF old, new
<1>14. u + a * a = u + d * d
  BY <1>4, Zenon
<1>15. r + k * k <= Kept(u + d * d)
  BY <1>13, <1>14, Zenon
<1>16. r + (x - after) * (x - after) <= Kept(u + d * d)
  BY <1>3, <1>15, Zenon
<1> QED BY <1>16, Zenon DEF r, u, w, d, after

LEMMA KeptMonotone ==
  ASSUME AlphaIn, NEW x \in Nat, NEW y \in Nat, x <= y
  PROVE  Kept(x) <= Kept(y)
<1> DEFINE q == Parts - alpha
           k == Kept(x)
<1>1. q \in Nat /\ Parts \in Nat
  BY DEF AlphaIn
<1>2. k \in Nat /\ Parts * k <= q * x
  BY KeptBounds
<1>3. q * x <= q * y /\ q * x \in Int /\ q * y \in Int
  BY <1>1
<1> HIDE DEF q, k
<1>4. Parts * k <= q * y
  BY <1>1, <1>2, <1>3
<1>5. Parts * k <= (Parts - alpha) * y
  BY <1>4 DEF q
<1>6. k <= Kept(y)
  BY <1>2, <1>5, KeptBounds
<1> QED BY <1>6 DEF k

LEMMA FirstForgets ==
  ASSUME BaselineInv, NEW input \in Inputs, First(input)
  PROVE  ForgetInv'
<1>1. /\ Called /\ mean' = input /\ level' = input
      /\ variance' = [metric \in Metrics |-> FirstVariance(input[metric])]
      /\ allowance' = [metric \in Metrics |-> Max({0, FirstVariance(input[metric]) - epsilon})]
  BY DEF First
<1>2. epsilon' = epsilon
  BY <1>1, CallTyped
<1> SUFFICES ASSUME NEW metric \in Metrics
             PROVE  Excess(metric, level[metric])' <= allowance'[metric]
  BY DEF ForgetInv
<1> DEFINE x == input[metric]
           first == FirstVariance(x)
           rest == Max({0, first - epsilon})
<1>3. x \in Int /\ first \in Int /\ epsilon \in Int
  BY InputTyped, ScaleAboveOne, EpsilonInt DEF BaselineInv
<1>4. /\ Excess(metric, level[metric])' = rest + (x - x) * (x - x)
      /\ allowance'[metric] = rest
  BY <1>1, <1>2 DEF Excess
<1> HIDE DEF x, first
<1>5. rest \in Int
  <2>1. first - epsilon \in Int
    BY <1>3
  <2> DEFINE beyond == first - epsilon
  <2> HIDE DEF beyond
  <2>2. Max({0, beyond}) \in Nat
    BY <2>1, AtLeastZero DEF beyond
  <2> QED BY <2>2 DEF beyond
<1> HIDE DEF rest
<1>6. rest + (x - x) * (x - x) <= rest
  BY <1>3, <1>5
<1> QED BY <1>4, <1>6

LEMMA UpdateForgets ==
  ASSUME BaselineInv, ForgetInv, NEW input \in Inputs, Update(input)
  PROVE  ForgetInv'
<1>1. Called /\ initialized /\ initialized' /\ level' = input /\ epsilon' = epsilon
  BY CallTyped DEF Update
<1> SUFFICES ASSUME epsilon > 0, NEW metric \in Metrics
             PROVE  Excess(metric, level[metric])' <= allowance'[metric]
  BY <1>1 DEF ForgetInv
<1> DEFINE x == input[metric]
           m == mean[metric]
           v == variance[metric]
           delta == x - m
           w == NextVariance(v, delta)
           after == NextMean(m, delta)
           excess == Excess(metric, x)
           before == IF x = level[metric] THEN allowance[metric] ELSE excess
           left == Max({0, w - epsilon}) + (x - after) * (x - after)
<1>2. /\ v \in Nat /\ m \in Int /\ x \in Int
      /\ mean'[metric] = after /\ variance'[metric] = w
      /\ level'[metric] = x /\ allowance'[metric] = Kept(before)
  BY UpdateOfMetric
<1>3. Excess(metric, level[metric])' = left
  BY <1>1, <1>2 DEF Excess
<1>4. excess = Max({0, v - epsilon}) + delta * delta
  BY DEF Excess
<1>5. AlphaIn /\ epsilon \in Nat
  BY AlphaIs, EpsilonInt DEF BaselineInv
<1>6. excess \in Nat /\ allowance[metric] \in Nat
  BY <1>2, ExcessTyped DEF BaselineInv
<1>7. x = level[metric] => excess <= allowance[metric]
  BY <1>1 DEF ForgetInv
<1>8. left <= Kept(excess)
  <2> DEFINE old == Max({0, v - epsilon}) + delta * delta
  <2>1. left <= Kept(old)
    <3>1. v \in Nat /\ m \in Int /\ x \in Int
      BY <1>2
    <3> HIDE DEF v, m, x
    <3> QED BY <1>5, <3>1, ExcessShrinks
  <2> HIDE DEF left, excess
  <2> QED BY <1>4, <2>1, Zenon
<1>9. left \in Int
  <2>1. after \in Int /\ w \in Nat
    <3>1. x \in Int /\ m \in Int /\ v \in Nat /\ delta \in Int
      BY <1>2
    <3>2. after \in Int
      <4> HIDE DEF x, m
      <4> QED BY <1>5, <3>1, NextMeanBounds
    <3>3. w \in Nat
      <4> HIDE DEF delta, v
      <4> QED BY <1>5, <3>1, NextVarianceBounds
    <3> QED BY <3>2, <3>3
  <2> HIDE DEF after, w, x
  <2>2. w - epsilon \in Int /\ (x - after) * (x - after) \in Int
    BY <1>2, <1>5, <2>1
  <2> DEFINE beyond == w - epsilon
  <2> HIDE DEF beyond
  <2>4. Max({0, beyond}) \in Nat
    BY <2>2, AtLeastZero DEF beyond
  <2>3. Max({0, w - epsilon}) \in Int
    BY <2>4 DEF beyond
  <2> QED BY <2>2, <2>3
<1> HIDE DEF x, excess, left
<1>10. before \in Nat /\ excess <= before
  BY <1>6, <1>7
<1> HIDE DEF before
<1>11. Kept(excess) <= Kept(before) /\ Kept(excess) \in Nat /\ Kept(before) \in Nat
  BY <1>5, <1>6, <1>10, KeptMonotone, KeptBounds
<1>12. left <= Kept(before)
  BY <1>8, <1>9, <1>11
<1> QED BY <1>2, <1>3, <1>12

LEMMA ForgetStep == BaselineInv /\ ForgetInv /\ [Next]_vars => ForgetInv'
<1> SUFFICES ASSUME BaselineInv, ForgetInv, [Next]_vars PROVE ForgetInv'
  OBVIOUS
<1>1. CASE UNCHANGED vars
  BY <1>1 DEF ForgetInv, Excess, vars, baseline, history
<1>2. ASSUME NEW input \in Inputs, Refuse(input) PROVE ForgetInv'
  <2>1. UNCHANGED <<initialized, mean, variance, level, allowance, epsilon>>
    BY <1>2, CallTyped DEF Refuse, baseline, history
  <2> QED BY <2>1 DEF ForgetInv, Excess
<1>3. CASE Next
  BY <1>2, <1>3, FirstForgets, UpdateForgets DEF Next
<1> QED BY <1>1, <1>3

LEMMA SpecForgets == Spec => [](BaselineInv /\ ForgetInv)
<1>1. Init => ForgetInv
  BY DEF Init, ForgetInv
<1> QED BY <1>1, InitBaseline, BaselineStep, ForgetStep, PTL DEF Spec

\* The arithmetic of a change by c from a level at distance l of the mean.
LEMMA ChangeOutweighs ==
  ASSUME NEW c \in Int, NEW l \in Int, NEW d \in Int, d = c + l,
         NEW e \in Nat \ {0}, NEW v \in Nat, NEW u \in Nat, u >= v - e,
         NEW allowed \in Nat, u + l * l <= allowed,
         c * c >= 4 * e + 2 * allowed
  PROVE  d * d >= v + e /\ (c > 0 <=> d > 0) /\ (c < 0 <=> d < 0)
<1> DEFINE cc == c * c
           ll == l * l
           cl == c * l
           dd == d * d
           half == (c + 2 * l) * (c + 2 * l)
<1>1. /\ cc \in Nat /\ ll \in Nat /\ cl \in Int /\ dd \in Nat /\ half \in Nat
  <2>1. \A n \in Int : n * n \in Nat
    OBVIOUS
  <2>2. c + 2 * l \in Int
    OBVIOUS
  <2> QED BY <2>1, <2>2
<1>2. dd = cc + 2 * cl + ll
  OBVIOUS
<1>3. half = cc + 4 * cl + 4 * ll
  OBVIOUS
<1>4. cc > ll /\ cc >= 4 * e + 2 * allowed /\ u + ll <= allowed
  BY <1>1
<1> HIDE DEF cc, ll, cl, dd, half
<1>5. 2 * dd + 2 * ll >= cc
  BY <1>1, <1>2, <1>3
<1>6. dd >= v + e
  BY <1>1, <1>4, <1>5
<1>7. ~(l >= c /\ c >= 0) /\ ~(-l >= c /\ c >= 0) /\ ~(l >= -c /\ c <= 0) /\ ~(-l >= -c /\ c <= 0)
  <2>1. ASSUME NEW n \in Int, NEW k \in Nat, k * k = cc, n * n = ll, n >= k PROVE FALSE
    <3>1. n \in Nat /\ k * k <= n * n
      BY <2>1, SquareMonotone
    <3> QED BY <1>1, <1>4, <2>1, <3>1
  <2>2. /\ c * c = cc /\ (-c) * (-c) = cc /\ l * l = ll /\ (-l) * (-l) = ll
    BY DEF cc, ll
  <2>3. ~(l >= c /\ c >= 0)
    BY <2>1, <2>2
  <2>4. ~(-l >= c /\ c >= 0)
    BY <2>1, <2>2
  <2>5. ~(l >= -c /\ c <= 0)
    BY <2>1, <2>2
  <2>6. ~(-l >= -c /\ c <= 0)
    BY <2>1, <2>2
  <2> QED BY <2>3, <2>4, <2>5, <2>6
<1>8. (c > 0 <=> d > 0) /\ (c < 0 <=> d < 0)
  BY <1>7
<1> QED BY <1>6, <1>8 DEF dd

\* One metric of an update that changes it by as much.
LEMMA UpdateVisible ==
  ASSUME BaselineInv, ForgetInv, NEW input \in Inputs, Update(input), epsilon > 0,
         NEW metric \in Metrics, NEW change, change = level'[metric] - level[metric],
         change * change >= 4 * epsilon + 2 * allowance[metric]
  PROVE  IF Worse(metric, change) THEN normalized'[metric] >= 1 ELSE normalized'[metric] <= -1
<1> DEFINE x == input[metric]
           m == mean[metric]
           v == variance[metric]
           before == level[metric]
           d == x - m
           l == before - m
           u == Max({0, v - epsilon})
           allowed == allowance[metric]
           score == Score(metric, d, v)
<1>1. /\ v \in Nat /\ m \in Int /\ x \in Int /\ before \in Int /\ allowed \in Nat
      /\ normalized'[metric] = score /\ level'[metric] = x
  BY UpdateOfMetric DEF BaselineInv
<1>2. epsilon \in Nat \ {0}
  BY EpsilonInt DEF BaselineInv
<1>3. u + l * l <= allowed
  BY DEF ForgetInv, Excess, Update
<1>4. change = x - before
  BY <1>1
<1>5. u \in Nat /\ u >= v - epsilon
  <2>1. v - epsilon \in Int
    BY <1>1, <1>2
  <2> DEFINE beyond == v - epsilon
  <2> HIDE DEF beyond
  <2>2. Max({0, beyond}) \in Nat /\ Max({0, beyond}) >= beyond
    BY <2>1, AtLeastZero DEF beyond
  <2> QED BY <2>2 DEF beyond
<1>6. change \in Int /\ l \in Int /\ d \in Int /\ d = change + l
  BY <1>1, <1>4
<1>7. change * change >= 4 * epsilon + 2 * allowed
  OBVIOUS
<1> HIDE DEF x, m, v, before, d, l, u, allowed
<1>8. d * d >= v + epsilon /\ (change > 0 <=> d > 0) /\ (change < 0 <=> d < 0)
  <2>1. /\ change \in Int /\ l \in Int /\ d \in Int /\ epsilon \in Nat \ {0}
        /\ v \in Nat /\ u \in Nat /\ allowed \in Nat
    BY <1>1, <1>2, <1>5, <1>6
  <2>2. d = change + l
    BY <1>6
  <2>3. u >= v - epsilon
    BY <1>5
  <2> QED BY <1>3, <1>7, <2>1, <2>2, <2>3, ChangeOutweighs, Zenon
<1>9. IF Worse(metric, d) THEN score >= 1 ELSE score <= -1
  <2>1. v + epsilon > 0
    BY <1>1, <1>2
  <2> QED BY <1>1, <1>2, <1>6, <1>8, <2>1, ScoreBounds
<1>10. Worse(metric, d) <=> Worse(metric, change)
  BY <1>8 DEF Worse
<1> HIDE DEF score
<1> QED BY <1>1, <1>9, <1>10, Zenon

\* After whatever outburst, a change that is large against epsilon and what the
\* lasting level has left of the outburst is given to the HMM as a deviation at
\* least, in the right direction.
THEOREM ChangesVisibleAlways == Spec => ChangesVisible
<1> DEFINE Step ==
      \A metric \in Metrics :
        LET change == level'[metric] - level[metric]
        IN (/\ initialized /\ result' = "ok" /\ epsilon > 0
            /\ change * change >= 4 * epsilon + 2 * allowance[metric])
           => IF Worse(metric, change) THEN normalized'[metric] >= 1
              ELSE normalized'[metric] <= -1
<1>1. BaselineInv /\ ForgetInv /\ [Next]_vars => [Step]_vars
  <2> SUFFICES ASSUME BaselineInv, ForgetInv, Next PROVE Step
    OBVIOUS
  <2>1. PICK input \in Inputs : Refuse(input) \/ First(input) \/ Update(input)
    BY DEF Next
  <2>2. CASE Refuse(input)
    <3>1. result' # "ok"
      BY <2>2 DEF Refuse
    <3> QED BY <3>1, Zenon
  <2>3. CASE First(input)
    <3>1. ~initialized
      BY <2>3 DEF First
    <3> QED BY <3>1, Zenon
  <2>4. CASE Update(input)
    BY <2>4, UpdateVisible
  <2> QED BY <2>1, <2>2, <2>3, <2>4
<1> HIDE DEF Step
<1>2. Spec => [][Step]_vars
  BY <1>1, SpecForgets, PTL DEF Spec
<1> QED BY <1>2 DEF Step, ChangesVisible

=============================================================================
