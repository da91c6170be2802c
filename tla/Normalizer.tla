------------------------------ MODULE Normalizer ------------------------------
(***************************************************************************)
(* The baseline normalizer of src/src/metrics.c: every metric is compared  *)
(* with an exponentially weighted mean and variance of its past.  Numbers  *)
(* are integers, means and metrics in quarters, variances in sixteenths,   *)
(* and baseline_alpha is a fraction.  A product is rounded towards what it *)
(* tends to: the mean reaches a level that lasts, and a variance that is   *)
(* no longer fed ends at zero, as they do in doubles.                      *)
(***************************************************************************)
EXTENDS Integers, FiniteSetsExt

CONSTANTS
  Inputs,           \* bound: the metrics observed, functions on Metrics
  Parts,            \* bound: the denominator of the fraction baseline_alpha
  Alphas,           \* bound: its numerators; validated to lie between 0 and 1
  Epsilons,         \* bound: baseline_epsilon, which is not validated
  MaxObservations   \* bound: the observations made

Metrics == {"LOSS", "GOODPUT"}     \* one of each direction
NotFinite == 1000000000            \* an infinity or NaN, as a platform hook may return
Zero == [metric \in Metrics |-> 0]
One == 4

ASSUME InputsAssumption ==
  /\ Inputs \subseteq [Metrics -> Int] /\ Epsilons \subseteq Int /\ MaxObservations \in Nat
  /\ Parts \in Nat \ {0} /\ Alphas \subseteq 1 .. Parts - 1

VARIABLES
  alpha, epsilon, initialized, mean, variance,
  observations,     \* bound: counted to MaxObservations
  normalized,       \* what the last call gave its caller
  result,           \* and returned
  level,            \* history: the metrics last taken in
  allowance         \* history: what the past may have left in the baseline

baseline == <<initialized, mean, variance>>
history == <<level, allowance>>
vars == <<alpha, epsilon, baseline, observations, normalized, result, history>>

\* The nearest integer to n / d, halves to the even one.
Nearest(n, d) ==
  LET down == n \div d
      twice == 2 * (n % d)
  IN IF twice > d \/ (twice = d /\ down % 2 = 1) THEN down + 1 ELSE down

\* (1 - alpha) * x and alpha * x.
Kept(x) == ((Parts - alpha) * x) \div Parts
Share(x) == (alpha * x) \div Parts

Magnitude(x) == IF x < 0 THEN -x ELSE x

Finite(input) == \A metric \in Metrics : input[metric] # NotFinite

\* The first observation is the baseline, with a tenth of it as its scale.
InitialScale(x) == Max({One, Nearest(Magnitude(x), 10)})
FirstVariance(x) == InitialScale(x) * InitialScale(x)

\* delta / sqrt(old_variance + epsilon), cut off at 6 and -6; only the whole
\* part is kept.  Mutant: nothing is cut off below.
ScoreUncut(metric, delta, v) ==
  LET z == Max({n \in 0 .. 7 : n * n * (v + epsilon) <= delta * delta})
      directed == IF (delta < 0) = (metric = "GOODPUT") THEN z ELSE -z
  IN IF v + epsilon < 0 \/ (v + epsilon = 0 /\ delta = 0) THEN NotFinite
     ELSE Min({6, directed})
Score(metric, delta, v) ==
  LET z == Max({n \in 0 .. 6 : n * n * (v + epsilon) <= delta * delta})
  IN IF v + epsilon < 0 \/ (v + epsilon = 0 /\ delta = 0) THEN NotFinite
     ELSE IF (delta < 0) = (metric = "GOODPUT") THEN z ELSE -z

\* old_mean + alpha * delta.
NextMean(m, delta) == IF delta < 0 THEN m + delta + Kept(-delta) ELSE m + delta - Kept(delta)

\* Mutant of NextVariance: 1 - alpha is applied to the old variance only.
NextVarianceUnscaled(v, delta) == Max({epsilon, Kept(v) + Share(delta * delta)})
NextVariance(v, delta) == Max({epsilon, Kept(v + Share(delta * delta))})

Called ==
  /\ observations < MaxObservations
  /\ observations' = observations + 1
  /\ UNCHANGED <<alpha, epsilon>>

Refuse(input) ==
  /\ ~Finite(input)
  /\ Called
  /\ result' = "range"
  /\ UNCHANGED <<baseline, normalized, history>>

First(input) ==
  /\ Finite(input) /\ ~initialized
  /\ Called
  /\ mean' = input
  /\ variance' = [metric \in Metrics |-> FirstVariance(input[metric])]
  /\ normalized' = [metric \in Metrics |-> 0]
  /\ initialized' = TRUE
  /\ result' = "ok"
  /\ level' = input
  /\ allowance' = [metric \in Metrics |-> Max({0, FirstVariance(input[metric]) - epsilon})]

\* What makes a change at the level x look small: the variance beyond epsilon
\* and the distance of the mean.
Excess(metric, x) ==
  Max({0, variance[metric] - epsilon}) + (x - mean[metric]) * (x - mean[metric])

\* Every observation of a level takes the share alpha of the excess found when
\* the level was new.
Update(input) ==
  /\ Finite(input) /\ initialized
  /\ Called
  /\ LET delta == [metric \in Metrics |-> input[metric] - mean[metric]]
     IN /\ normalized' = [m \in Metrics |-> Score(m, delta[m], variance[m])]
        /\ mean' = [m \in Metrics |-> NextMean(mean[m], delta[m])]
        /\ variance' = [m \in Metrics |-> NextVariance(variance[m], delta[m])]
  /\ result' = "ok"
  /\ level' = input
  /\ allowance' = [m \in Metrics |->
       Kept(IF input[m] = level[m] THEN allowance[m] ELSE Excess(m, input[m]))]
  /\ UNCHANGED initialized

Init ==
  /\ alpha \in Alphas /\ epsilon \in Epsilons
  /\ initialized = FALSE /\ result = "not called"
  /\ mean = Zero /\ variance = Zero /\ normalized = Zero
  /\ level = Zero /\ allowance = Zero
  /\ observations = 0

Next == \E input \in Inputs : Refuse(input) \/ First(input) \/ Update(input)

Spec == Init /\ [][Next]_vars

-----------------------------------------------------------------------------
\* Properties.

\* Every variable keeps its type; a variance never falls below epsilon, also
\* not when nothing has changed for long, except the first one, which is not
\* held to epsilon and is one at least.
TypeOK ==
  /\ alpha \in Alphas /\ epsilon \in Epsilons /\ initialized \in BOOLEAN
  /\ mean \in [Metrics -> Int] /\ variance \in [Metrics -> Nat]
  /\ normalized \in [Metrics -> Int]
  /\ result \in {"not called", "ok", "range"} /\ observations \in 0 .. MaxObservations
  /\ initialized => \A metric \in Metrics : variance[metric] >= Min({epsilon, One * One})

\* What reaches the HMM is a number between -6 and 6, as long as
\* baseline_epsilon is positive; nothing validates that it is.
ScoresInRange ==
  /\ TypeOK
  /\ epsilon > 0 => \A metric \in Metrics : normalized[metric] \in -6 .. 6

\* A change of the metric from the level it had.
Worse(metric, change) == IF metric = "GOODPUT" THEN change < 0 ELSE change > 0

\* An outburst is forgotten: whatever it left in mean and variance, every further
\* observation of the level that follows takes the share alpha of it, so that
\* ordinary changes become visible again.  A change whose square is four times
\* epsilon and twice what is left is scored a deviation at least, and in its own
\* direction (adaptive_normalizer_update).
ChangesVisible ==
  [][\A metric \in Metrics :
       LET change == level'[metric] - level[metric]
       IN (/\ initialized /\ result' = "ok" /\ epsilon > 0
           /\ change * change >= 4 * epsilon + 2 * allowance[metric])
          => IF Worse(metric, change) THEN normalized'[metric] >= 1
             ELSE normalized'[metric] <= -1]_vars

=============================================================================
