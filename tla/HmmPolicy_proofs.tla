--------------------------- MODULE HmmPolicy_proofs ---------------------------
(***************************************************************************)
(* The policy of adaptive_hmm_step and the two modules built on it.  The   *)
(* hold of RECOVERY, for every recovery_hold; the belief and the learned   *)
(* transitions, for every configuration and every precision of the counts; *)
(* and the node's firmware, for all representation lengths and numbers of  *)
(* faults.  Learning and the node both implement the policy, so what it    *)
(* promises is theirs.                                                     *)
(***************************************************************************)
EXTENDS HmmLearning, AdaptiveNode, TLAPS

-----------------------------------------------------------------------------
\* The policy: HmmPolicy.

\* The counter and the history agree, and a relaxed state lies behind a
\* finished hold.
IInv == TypeOK /\ CounterTracksRecovery /\ HoldRespected
        /\ (since_congested = 0 <=> state = "CONGESTED")

LEMMA InitIInv == Init => IInv
  BY HoldAssumption DEF Init, IInv, TypeOK, CounterTracksRecovery, HoldRespected,
     Holds, States, Relaxed, Never, ObservationCycle

LEMMA StepIInv == IInv /\ [Step]_vars => IInv'
<1>1. CASE UNCHANGED vars
  BY <1>1 DEF IInv, TypeOK, CounterTracksRecovery, HoldRespected, vars
<1>2. ASSUME IInv, NEW candidate \in States,
             state' = Selected(state, candidate, recovery_remaining),
             recovery_remaining' = Remaining(state, candidate, recovery_remaining),
             since_congested' = SinceCongested(state'),
             observations' = (observations + 1) % ObservationCycle,
             recovery_hold' = recovery_hold
      PROVE  IInv'
  <2> USE HoldAssumption
  <2>1. TypeOK'
    BY <1>2 DEF IInv, TypeOK, CounterTracksRecovery, Selected, Remaining, SinceCongested,
       States, Holds, Never, ObservationCycle
  <2>2. CounterTracksRecovery'
    BY <1>2 DEF IInv, TypeOK, CounterTracksRecovery, Selected, Remaining, SinceCongested,
       States, Holds, Never
  <2>3. HoldRespected'
    BY <1>2 DEF IInv, TypeOK, CounterTracksRecovery, HoldRespected, Selected, Remaining,
       SinceCongested, States, Relaxed, Holds, Never
  <2>4. (since_congested = 0 <=> state = "CONGESTED")'
    BY <1>2 DEF IInv, TypeOK, Selected, Remaining, SinceCongested, States, Holds, Never
  <2> QED BY <2>1, <2>2, <2>3, <2>4 DEF IInv
<1> QED BY <1>1, <1>2 DEF Step, Observe

LEMMA SpecIInv == Spec => []IInv
  BY InitIInv, StepIInv, PTL DEF Spec

\* adaptive_hmm_step keeps every variable in its type, for every hold.
THEOREM TypeCorrect == Spec => []TypeOK
<1>1. IInv => TypeOK
  BY DEF IInv
<1> QED BY <1>1, SpecIInv, PTL

\* After congestion no relaxed state is selected before the hold is over.
THEOREM HoldRespectedAlways == Spec => []HoldRespected
<1>1. IInv => HoldRespected
  BY DEF IInv
<1> QED BY <1>1, SpecIInv, PTL

\* The counter is zero outside RECOVERY and counts the rest of the hold in it.
THEOREM CounterTracksAlways == Spec => []CounterTracksRecovery
<1>1. IInv => CounterTracksRecovery
  BY DEF IInv
<1> QED BY <1>1, SpecIInv, PTL

\* RECOVERY is entered only by leaving CONGESTED.
THEOREM RecoveryOnlyAfterCongestion == Spec => RecoveryOnlyAfterCongested
<1>1. IInv /\ [Step]_vars
        => [state' = "RECOVERY" /\ state # "RECOVERY" => state = "CONGESTED"]_vars
  BY DEF IInv, TypeOK, Step, Observe, Selected, States, vars
<1> QED BY <1>1, SpecIInv, PTL DEF Spec, RecoveryOnlyAfterCongested

-----------------------------------------------------------------------------
\* The belief and what is learned: HmmLearning.  What is learned agrees with
\* the policy, the belief stays a number unless a forgotten row can vanish, and
\* congestion that insists is noticed.

\* Only the moves of the prior and of the policy are ever counted.
CountsInv ==
  \A i, j \in States : count[i][j] > 0 => <<i, j>> \in config.prior \cup PolicyMoves

\* A row keeps a count above zero when forgetting keeps more than one half.
RowsAlive ==
  ~config.smoothing /\ 2 * config.forgetting[1] > config.forgetting[2]
    => \A row \in States : \E column \in States : count[row][column] > 0

\* The first observation that only CONGESTED explains leaves it a probability
\* of ordinary size, the second selects it.
Attentive ==
  config.smoothing /\ <<"CONGESTED", "CONGESTED">> \in config.prior
    => /\ insisted >= 1 => "CONGESTED" \in firm
       /\ insisted = 2 => state = "CONGESTED"

LearnInv ==
  /\ IInv
  /\ config \in Configurations
  /\ LearnTypeOK
  /\ CountsInv
  /\ NanOnlyUnsmoothed
  /\ RowsAlive
  /\ Attentive

-----------------------------------------------------------------------------
\* Forgetting.

\* What ConfigurationsAssumption says of the one configuration there is.
LEMMA ConfigFacts ==
  ASSUME config \in Configurations
  PROVE  /\ config.prior \subseteq States \X States
         /\ \A row \in States : \E column \in States : <<row, column>> \in config.prior
         /\ config.forgetting[1] \in Nat \ {0} /\ config.forgetting[2] \in Nat \ {0}
         /\ config.forgetting[1] <= config.forgetting[2]
         /\ config.smoothing \in BOOLEAN
<1>1. config.forgetting \in (Nat \ {0}) \X Nat /\ config.forgetting[1] <= config.forgetting[2]
  BY ConfigurationsAssumption
<1>2. config.forgetting[1] \in Nat \ {0} /\ config.forgetting[2] \in Nat
  BY <1>1
<1> QED BY <1>1, <1>2, ConfigurationsAssumption

\* A count that is forgotten stays a count, none becomes one, and with a
\* factor above one half the smallest survives.
LEMMA DecayedUnits ==
  ASSUME config \in Configurations, NEW units \in Nat
  PROVE  /\ Decayed(units) \in Nat
         /\ units = 0 => Decayed(units) = 0
         /\ units > 0 /\ 2 * config.forgetting[1] > config.forgetting[2] => Decayed(units) > 0
<1> DEFINE n == config.forgetting[1]
           d == config.forgetting[2]
           product == units * n
           twice == (2 * product) % (2 * d)
           down == product \div d
<1>1. n \in Nat \ {0} /\ d \in Nat \ {0}
  BY ConfigFacts
<1>2. Decayed(units) = IF twice > d \/ (twice = d /\ down % 2 = 1) THEN down + 1 ELSE down
  BY DEF Decayed
<1> HIDE DEF n, d
<1>3. product \in Nat /\ (units = 0 => product = 0) /\ (units > 0 => product >= n)
  BY <1>1
<1> HIDE DEF product
<1>4. down \in Nat /\ twice \in Nat
  BY <1>1, <1>3
<1>5. product = 0 => down = 0 /\ twice = 0
  BY <1>1
<1>6. product < d => twice = 2 * product
  BY <1>1, <1>3
<1>7. product >= d => down >= 1
  BY <1>1, <1>3
<1> HIDE DEF down, twice
<1>8. Decayed(units) = down \/ Decayed(units) = down + 1
  BY <1>2
<1>9. units = 0 => Decayed(units) = 0
  BY <1>1, <1>2, <1>3, <1>5
<1>10. units > 0 /\ 2 * n > d => Decayed(units) > 0
  BY <1>1, <1>2, <1>3, <1>4, <1>6, <1>7, <1>8
<1> QED BY <1>4, <1>8, <1>9, <1>10 DEF n, d

-----------------------------------------------------------------------------
\* One observation.

\* Every outcome of the filter is a state, and of ordinary size unless the
\* belief is no number.
LEMMA OutcomeFacts ==
  ASSUME NEW best \in States, NEW decisive \in BOOLEAN, NEW outcome \in Corrected(best, decisive)
  PROVE  /\ outcome.candidate \in States /\ outcome.firm \subseteq States
         /\ ~nan => outcome.candidate \in outcome.firm
  BY DEF Corrected, Candidates, Outcome, States

LEMMA LearnStepPolicy == [LearnStep]_allVars => [Step]_vars
<1>1. LearnStep => Step
  BY OutcomeFacts DEF LearnStep, Step
<1> QED BY <1>1 DEF allVars

\* When nothing but CONGESTED explains the observation, CONGESTED is the
\* outcome, or the belief was uniform, and that only when it had been ruled out.
LEMMA InsistentOutcome ==
  ASSUME config.smoothing, <<"CONGESTED", "CONGESTED">> \in config.prior, ~nan,
         NEW outcome \in Corrected("CONGESTED", TRUE)
  PROVE  /\ "CONGESTED" \in outcome.firm
         /\ "CONGESTED" \in firm => outcome.candidate = "CONGESTED"
<1>1. Likely("CONGESTED", "CONGESTED") /\ "CONGESTED" \in States
  BY DEF Likely, States
<1>2. Candidates("CONGESTED", TRUE) \subseteq {"CONGESTED"}
  BY DEF Candidates
<1>3. CASE outcome = Outcome("CONGESTED", {"CONGESTED"})
  BY <1>3 DEF Outcome
<1>4. CASE outcome = Outcome("GOOD", States) /\ ~Predicted("CONGESTED")
  BY <1>1, <1>4 DEF Outcome, Predicted
<1> QED BY <1>2, <1>3, <1>4 DEF Corrected

-----------------------------------------------------------------------------
\* The invariant is inductive.

LEMMA InitLearnInv == LearnInit => LearnInv
<1> SUFFICES ASSUME LearnInit PROVE LearnInv
  OBVIOUS
<1>1. IInv
  BY InitIInv DEF LearnInit
<1>2. config \in Configurations
  BY DEF LearnInit
<1>3. /\ count = [row \in States |-> [column \in States |->
                    IF <<row, column>> \in config.prior THEN Strength ELSE 0]]
      /\ firm = {state} /\ nan = FALSE /\ insisted = 0
  BY DEF LearnInit
<1>4. LearnTypeOK
  <2>1. count \in [States -> [States -> Nat]]
    BY <1>3, UnitAssumption
  <2>2. firm \subseteq States /\ state \in firm
    BY <1>1, <1>3 DEF IInv, TypeOK
  <2>3. nan \in BOOLEAN
    BY <1>3, Zenon
  <2>4. insisted \in 0 .. 2
    BY <1>3
  <2> QED BY <2>1, <2>2, <2>3, <2>4, Zenon DEF LearnTypeOK
<1>5. CountsInv
  BY <1>3 DEF CountsInv
<1>6. RowsAlive
  <2> SUFFICES ASSUME NEW row \in States PROVE \E column \in States : count[row][column] > 0
    BY DEF RowsAlive
  <2>1. PICK column \in States : <<row, column>> \in config.prior
    BY <1>2, ConfigFacts
  <2>2. count[row][column] = Strength
    BY <1>3, <2>1
  <2> QED BY <2>2, UnitAssumption
<1>7. NanOnlyUnsmoothed /\ Attentive
  BY <1>3 DEF NanOnlyUnsmoothed, Attentive
<1> QED BY <1>1, <1>2, <1>4, <1>5, <1>6, <1>7 DEF LearnInv

\* The counts after a step.
LEMMA LearnedCounts ==
  ASSUME config \in Configurations, count \in [States -> [States -> Nat]],
         state \in States, state' \in States, count' = Learned(state, state')
  PROVE  /\ count' \in [States -> [States -> Nat]]
         /\ \A i, j \in States : count'[i][j] > 0 => count[i][j] > 0 \/ <<i, j>> = <<state, state'>>
         /\ 2 * config.forgetting[1] > config.forgetting[2]
              => \A i, j \in States : count[i][j] > 0 => count'[i][j] > 0
<1>1. \A i, j \in States : Decayed(count[i][j]) \in Nat
  BY DecayedUnits
<1>2. \A i, j \in States :
        count'[i][j] = Decayed(count[i][j]) + IF i = state /\ j = state' THEN One ELSE 0
  BY DEF Learned
<1>3. count' \in [States -> [States -> Nat]]
  BY <1>1, UnitAssumption DEF Learned
<1>4. ASSUME NEW i \in States, NEW j \in States, count'[i][j] > 0, count[i][j] = 0
      PROVE  <<i, j>> = <<state, state'>>
  BY <1>2, <1>4, DecayedUnits
<1>5. ASSUME 2 * config.forgetting[1] > config.forgetting[2],
             NEW i \in States, NEW j \in States, count[i][j] > 0
      PROVE  count'[i][j] > 0
  BY <1>2, <1>5, DecayedUnits, UnitAssumption
<1> QED BY <1>3, <1>4, <1>5

LEMMA LearnStepInv == ASSUME LearnInv, LearnStep PROVE LearnInv'
<1> DEFINE Made(best, decisive, outcome) ==
             /\ config' = config
             /\ Observe(outcome.candidate)
             /\ firm' = IF nan \/ state' = outcome.candidate THEN outcome.firm
                        ELSE outcome.firm \cup {state'}
             /\ count' = Learned(state, state')
             /\ nan' = (nan \/ \E row \in States : ~HasMass(row)')
             /\ insisted' = IF ~decisive \/ best # "CONGESTED" THEN 0
                            ELSE IF insisted = 2 THEN 2 ELSE insisted + 1
<1>1. PICK best \in States, decisive \in BOOLEAN :
        \E outcome \in Corrected(best, decisive) : Made(best, decisive, outcome)
  BY DEF LearnStep
<1>2. PICK outcome \in Corrected(best, decisive) : Made(best, decisive, outcome)
  BY <1>1
<1>3. /\ outcome.candidate \in States /\ outcome.firm \subseteq States
      /\ ~nan => outcome.candidate \in outcome.firm
  BY OutcomeFacts
<1>4. IInv'
  BY LearnStepPolicy, StepIInv DEF LearnInv
<1>5. state \in States /\ state' \in States
  BY <1>4 DEF LearnInv, IInv, TypeOK
<1>6. config \in Configurations /\ count \in [States -> [States -> Nat]]
  BY DEF LearnInv, LearnTypeOK
<1>7. /\ count' \in [States -> [States -> Nat]]
      /\ \A i, j \in States : count'[i][j] > 0 => count[i][j] > 0 \/ <<i, j>> = <<state, state'>>
      /\ 2 * config.forgetting[1] > config.forgetting[2]
           => \A i, j \in States : count[i][j] > 0 => count'[i][j] > 0
  BY <1>2, <1>5, <1>6, LearnedCounts
<1>8. nan \in BOOLEAN /\ nan' \in BOOLEAN /\ (~nan' => ~nan)
  BY <1>2 DEF LearnInv, LearnTypeOK
<1>9. LearnTypeOK'
  <2>1. firm' \subseteq States
    BY <1>2, <1>3, <1>5
  <2>2. ~nan' => state' \in firm'
    BY <1>2, <1>3, <1>8
  <2>3. insisted' \in 0 .. 2
    BY <1>2 DEF LearnInv, LearnTypeOK
  <2> QED BY <1>7, <1>8, <2>1, <2>2, <2>3 DEF LearnTypeOK
<1>10. CountsInv'
  <2>1. <<state, state'>> \in PolicyMoves
    BY <1>2, <1>3, <1>5 DEF Observe, Selected, PolicyMoves, States, Relaxed
  <2> QED BY <1>2, <1>7, <2>1 DEF CountsInv, LearnInv
<1>11. RowsAlive'
  BY <1>2, <1>7 DEF RowsAlive, LearnInv
<1>12. NanOnlyUnsmoothed'
  <2> SUFFICES ASSUME nan', ~nan
               PROVE  ~config.smoothing /\ 2 * config.forgetting[1] <= config.forgetting[2]
    BY <1>2 DEF LearnInv, NanOnlyUnsmoothed
  <2>1. PICK row \in States : ~(HasMass(row)')
    BY <1>2
  <2>2. ~config.smoothing /\ ~(\E column \in States : count'[row][column] > 0)
    BY <1>2, <2>1 DEF HasMass
  <2>3. ~(2 * config.forgetting[1] > config.forgetting[2])
    BY <1>2, <1>11, <2>2 DEF RowsAlive
  <2> QED BY <1>6, <2>2, <2>3, ConfigFacts
<1>13. Attentive'
  <2> SUFFICES ASSUME config.smoothing, <<"CONGESTED", "CONGESTED">> \in config.prior,
                      insisted' >= 1
               PROVE  "CONGESTED" \in firm' /\ (insisted' = 2 => state' = "CONGESTED")
    BY <1>2 DEF Attentive
  <2>1. ~nan
    BY DEF LearnInv, NanOnlyUnsmoothed
  <2>2. decisive = TRUE /\ best = "CONGESTED"
    BY <1>2
  <2>3. /\ "CONGESTED" \in outcome.firm
        /\ "CONGESTED" \in firm => outcome.candidate = "CONGESTED"
    BY <2>1, <2>2, InsistentOutcome
  <2>4. "CONGESTED" \in firm'
    BY <1>2, <2>3
  <2>5. ASSUME insisted' = 2 PROVE state' = "CONGESTED"
    <3>1. insisted >= 1
      BY <1>2, <2>2, <2>5 DEF LearnInv, LearnTypeOK
    <3>2. outcome.candidate = "CONGESTED"
      BY <2>3, <3>1 DEF LearnInv, Attentive
    <3> QED BY <1>2, <3>2 DEF Observe, Selected
  <2> QED BY <2>4, <2>5
<1> QED BY <1>2, <1>4, <1>6, <1>9, <1>10, <1>11, <1>12, <1>13 DEF LearnInv

LEMMA StepLearnInv == LearnInv /\ [LearnStep]_allVars => LearnInv'
<1>1. ASSUME LearnInv, UNCHANGED allVars PROVE LearnInv'
  <2>1. IInv'
    BY <1>1, LearnStepPolicy, StepIInv DEF LearnInv
  <2> QED BY <1>1, <2>1 DEF LearnInv, LearnTypeOK, CountsInv, NanOnlyUnsmoothed, RowsAlive,
          Attentive, allVars, vars, learning
<1> QED BY <1>1, LearnStepInv

LEMMA SpecLearnInv == LearnSpec => []LearnInv
  BY InitLearnInv, StepLearnInv, PTL DEF LearnSpec

-----------------------------------------------------------------------------
\* What follows from it.

\* The matrix update_transition learns never gives a probability to what the
\* policy forbids and the prior excludes, and no count is ever negative.
THEOREM LearnsPolicyAlways == LearnSpec => []LearnsPolicy
<1>1. LearnInv => LearnsPolicy
  BY DEF LearnInv, CountsInv, LearnsPolicy
<1> QED BY <1>1, SpecLearnInv, PTL

\* The belief becomes NaN only without smoothing and with a forgetting factor
\* of at most one half.
THEOREM NanOnlyUnsmoothedAlways == LearnSpec => []NanOnlyUnsmoothed
<1>1. LearnInv => NanOnlyUnsmoothed
  BY DEF LearnInv
<1> QED BY <1>1, SpecLearnInv, PTL

\* The second observation in a row that nothing but congestion explains selects
\* CONGESTED, from every belief.
THEOREM CongestionNoticedAlways == LearnSpec => []CongestionNoticed
<1>1. LearnInv => CongestionNoticed
  BY DEF LearnInv, Attentive, CongestionNoticed
<1> QED BY <1>1, SpecLearnInv, PTL

\* The filter with its learning implements the policy.
THEOREM LearningFollowsPolicy == LearnSpec => Spec
<1>1. LearnInit => Init
  BY DEF LearnInit
<1> QED BY <1>1, LearnStepPolicy, PTL DEF LearnSpec, Spec

\* So the hold is respected whatever is learned,
THEOREM LearningRespectsHold == LearnSpec => []HoldRespected
  BY LearningFollowsPolicy, HoldRespectedAlways, PTL

\* and RECOVERY entered only from CONGESTED.
THEOREM LearningRecoversOnly == LearnSpec => RecoveryOnlyAfterCongested
  BY LearningFollowsPolicy, RecoveryOnlyAfterCongestion, PTL

-----------------------------------------------------------------------------
\* The node: AdaptiveNode.  The header agrees with what the loop sends, success
\* is never stale, the observer tells what happened, and the hold of RECOVERY
\* reaches the air.

\* The plaintext that fits into a block of 64 and of 32 bytes.
Capacities == {39, 7}

\* A window cut into blocks of c bytes, and the loop at the start of one of
\* them or at the end.
CutInto(c) ==
  /\ window.block_size = c + Overhead
  /\ window.representation_length \in Nat \ {0} /\ window.block_count \in Nat \ {0}
  /\ c * (window.block_count - 1) < window.representation_length
  /\ window.representation_length <= c * window.block_count
  /\ window.protected_size = window.representation_length + window.block_count * Overhead
  /\ block_number \in 0 .. window.block_count
  /\ IF block_number < window.block_count
     THEN representation_offset = c * block_number
     ELSE representation_offset = window.representation_length

\* No window was started yet.
NoWindow ==
  /\ window.representation_length = 0 /\ window.block_count = 0
  /\ representation_offset = 0 /\ block_number = 0
  /\ phase = "waiting"

WindowInv == NoWindow \/ \E c \in Capacities : CutInto(c)

\* Every answer counted moved the loop on by one block.
AnswersInv == block_number = granted

\* While blocks are sent one is missing, the blocks behind the offset are the
\* bytes sent, and no answer is left from an earlier request.
LoopInv ==
  /\ phase # "waiting" => block_number < window.block_count
  /\ phase = "sending" => sent = representation_offset + block_number * Overhead
  /\ phase = "blocked" =>
       /\ request = [more |-> More, record_length |-> PlaintextLength + Overhead]
       /\ sent = representation_offset + PlaintextLength + (block_number + 1) * Overhead
       /\ response_ok = FALSE

\* The block size is the one of the state selected, until the window ends.
PolicyInv == phase # "waiting" => window.block_size = BlockSizeOf[state]

\* The estimates start with the first answer and are one and the same.
ObserverInv ==
  /\ observer.initialized \in BOOLEAN
  /\ observer.initialized <=> answers # {}
  /\ observer.loss \in 0 .. Full /\ observer.consecutive_failures \in 0 .. Many
  /\ ObserverTruthful

ControlInv ==
  /\ phase \in {"waiting", "sending", "blocked"} /\ timer \in {"set", "expired", "stopped"}
  /\ response_ok \in BOOLEAN
  /\ faults \in 0 .. MaxFaults /\ answers \subseteq BOOLEAN

NodeInv ==
  IInv /\ ControlInv /\ WindowInv /\ AnswersInv /\ LoopInv /\ PolicyInv /\ ObserverInv

-----------------------------------------------------------------------------
\* The operators.

\* The rounding average of values between 0 and Full, the sample being one of
\* the two ends, stays between them, and stays at an end it agrees with.
LEMMA EwmaBounds ==
  ASSUME NEW previous \in 0 .. Full, NEW sample \in {0, Full}, NEW initialized \in BOOLEAN
  PROVE  /\ Ewma(previous, sample, initialized) \in 0 .. Full
         /\ ~initialized => Ewma(previous, sample, initialized) = sample
         /\ previous = sample => Ewma(previous, sample, initialized) = sample
  BY DEF Ewma, Full

\* The number of blocks of c bytes a representation is cut into.
LEMMA BlockCountCuts ==
  ASSUME NEW c \in Capacities, NEW length \in Nat \ {0}
  PROVE  /\ BlockCount(length, c) \in Nat \ {0}
         /\ c * (BlockCount(length, c) - 1) < length
         /\ length <= c * BlockCount(length, c)
<1>1. CASE c = 39
  BY <1>1 DEF BlockCount
<1>2. CASE c = 7
  BY <1>2 DEF BlockCount
<1> QED BY <1>1, <1>2 DEF Capacities

\* The blocks the states allow hold 39 and 7 bytes.
LEMMA BlockSizeCapacity ==
  ASSUME NEW s \in States
  PROVE  /\ BlockSizeOf[s] - Overhead \in Capacities
         /\ BlockSizeOf[s] \in Nat
         /\ BlockSizeOf[s] = 64 => s \in Relaxed
  BY DEF BlockSizeOf, Overhead, Capacities, States, Relaxed

\* What the loop takes at an offset: a full block unless it is the last, and
\* the More flag says which.
LEMMA NextBlock ==
  ASSUME NEW c \in Capacities, CutInto(c), block_number < window.block_count
  PROVE  /\ PlaintextLength \in Nat \ {0}
         /\ PlaintextLength <= c
         /\ More = (block_number + 1 < window.block_count)
         /\ More => PlaintextLength = c /\ representation_offset + c = c * (block_number + 1)
         /\ ~More => representation_offset + PlaintextLength = window.representation_length
         /\ ~More => block_number + 1 = window.block_count
         /\ representation_offset < window.representation_length
<1>1. CASE c = 39
  BY <1>1 DEF CutInto, PlaintextLength, More, Lesser, Overhead
<1>2. CASE c = 7
  BY <1>2 DEF CutInto, PlaintextLength, More, Lesser, Overhead
<1> QED BY <1>1, <1>2 DEF Capacities

-----------------------------------------------------------------------------
\* The invariant is inductive.

LEMMA InitNodeInv == NodeInit => NodeInv
<1> SUFFICES ASSUME NodeInit PROVE NodeInv
  OBVIOUS
<1>1. IInv
  BY InitIInv DEF NodeInit
<1>2. WindowInv /\ PolicyInv
  BY DEF NodeInit, WindowInv, NoWindow, PolicyInv
<1>3. AnswersInv /\ LoopInv
  BY DEF NodeInit, AnswersInv, LoopInv
<1>4. faults \in 0 .. MaxFaults
  BY NodeAssumption DEF NodeInit
<1>5. ControlInv
  BY <1>4, Zenon DEF NodeInit, ControlInv
<1>6. answers = {} /\ answers # {TRUE} /\ answers # {FALSE}
  BY Zenon DEF NodeInit
<1>7. /\ observer.initialized = FALSE /\ observer.loss = 0
      /\ observer.consecutive_failures = 0 /\ observer.retry = 0
  BY DEF NodeInit, Unobserved
<1>8. observer.loss \in 0 .. Full /\ observer.consecutive_failures \in 0 .. Many
  BY <1>7 DEF Full, Many
<1>9. ObserverInv
  BY <1>6, <1>7, <1>8, Zenon DEF ObserverInv, ObserverTruthful
<1> QED BY <1>1, <1>2, <1>3, <1>5, <1>9 DEF NodeInv

\* A step of the node is one of the policy, or leaves the policy alone.
LEMMA NodeStepsPolicy == [NodeNext]_nodeVars => [Step]_vars
  BY DEF NodeNext, Process, TimerExpires, StartWindow, MetricsRefused, EncodeFails, Infers,
     SendBlock, SealFails, RequestEnds, Answered, Step, policy, vars, nodeVars

\* What depends on the loop alone survives every step that leaves it alone and
\* ends in "waiting", and every step that changes nothing but the timer.
LEMMA LoopAloneInv ==
  ASSUME NodeInv, UNCHANGED <<progress, granted>>, phase' = "waiting" \/ UNCHANGED phase
  PROVE  WindowInv' /\ AnswersInv'
<1>1. ASSUME NoWindow PROVE NoWindow'
  BY <1>1 DEF NoWindow, progress
<1>2. ASSUME NEW c \in Capacities, CutInto(c) PROVE CutInto(c)'
  BY <1>2 DEF CutInto, progress
<1> QED BY <1>1, <1>2 DEF NodeInv, WindowInv, AnswersInv, progress

\* Skips and the other ends of a window.
LEMMA WaitingInv ==
  ASSUME NodeInv, IInv', UNCHANGED <<progress, observer, sent, granted, answers, response_ok>>,
         phase' = "waiting", timer' \in {"set", "expired", "stopped"}, faults' \in 0 .. MaxFaults
  PROVE  NodeInv'
<1>1. WindowInv' /\ AnswersInv'
  BY LoopAloneInv
<1>2. ControlInv'
  BY DEF NodeInv, ControlInv
<1>3. LoopInv' /\ PolicyInv'
  BY DEF LoopInv, PolicyInv
<1>4. ObserverInv'
  BY DEF NodeInv, ObserverInv, ObserverTruthful
<1> QED BY <1>1, <1>2, <1>3, <1>4 DEF NodeInv

LEMMA TimerExpiresInv == ASSUME NodeInv, TimerExpires, IInv' PROVE NodeInv'
<1> USE DEF TimerExpires
<1>1. WindowInv' /\ AnswersInv'
  BY LoopAloneInv
<1>2. ControlInv'
  BY DEF NodeInv, ControlInv
<1>3. LoopInv' /\ PolicyInv'
  BY DEF NodeInv, LoopInv, PolicyInv, More, PlaintextLength, Lesser, progress, policy
<1>4. ObserverInv'
  BY DEF NodeInv, ObserverInv, ObserverTruthful
<1> QED BY <1>1, <1>2, <1>3, <1>4 DEF NodeInv

LEMMA StartWindowInv == ASSUME NodeInv, StartWindow, IInv' PROVE NodeInv'
<1>1. state' \in States
  BY DEF IInv, TypeOK
<1>2. PICK c \in Capacities : BlockSizeOf[state'] - Overhead = c
  BY <1>1, BlockSizeCapacity
<1>3. PICK length \in Nat \ {0} :
        window' = [block_size |-> BlockSizeOf[state'], representation_length |-> length,
                   block_count |-> BlockCount(length, c),
                   protected_size |-> length + BlockCount(length, c) * Overhead]
  BY <1>2, NodeAssumption DEF StartWindow
<1>4. BlockSizeOf[state'] = c + Overhead
  BY <1>1, <1>2, BlockSizeCapacity DEF Overhead
<1>5. /\ BlockCount(length, c) \in Nat \ {0}
      /\ c * (BlockCount(length, c) - 1) < length
      /\ length <= c * BlockCount(length, c)
  BY <1>2, BlockCountCuts
<1>6. /\ representation_offset' = 0 /\ block_number' = 0 /\ phase' = "sending"
      /\ timer' = "stopped" /\ sent' = 0 /\ granted' = 0
      /\ UNCHANGED <<request, response_ok, observer, faults, answers>>
  BY DEF StartWindow
<1>7. CutInto(c)'
  BY <1>4, <1>3, <1>5, <1>6 DEF CutInto, Overhead, Capacities
<1>8. WindowInv' /\ AnswersInv'
  BY <1>2, <1>6, <1>7 DEF WindowInv, AnswersInv
<1>9. ControlInv'
  BY <1>6 DEF NodeInv, ControlInv
<1>10. LoopInv' /\ PolicyInv'
  BY <1>3, <1>5, <1>6 DEF LoopInv, PolicyInv, Overhead
<1>11. ObserverInv'
  BY <1>6 DEF NodeInv, ObserverInv, ObserverTruthful
<1> QED BY <1>8, <1>9, <1>10, <1>11 DEF NodeInv

\* Where blocks are sent a window was cut, and a block is missing.
LEMMA SendingCut ==
  ASSUME NodeInv, phase # "waiting"
  PROVE  /\ \E c \in Capacities : CutInto(c)
         /\ block_number < window.block_count
  BY DEF NodeInv, WindowInv, NoWindow, LoopInv

LEMMA SendBlockInv == ASSUME NodeInv, SendBlock, IInv' PROVE NodeInv'
<1> USE DEF SendBlock
<1>1. PICK c \in Capacities : CutInto(c)
  BY SendingCut
<1>2. PlaintextLength \in Nat \ {0}
  BY <1>1, NextBlock, SendingCut
<1>3. UNCHANGED <<More, PlaintextLength>>
  BY DEF More, PlaintextLength, Lesser, progress
<1>4. WindowInv'
  BY <1>1 DEF WindowInv, CutInto, progress
<1>5. ControlInv' /\ AnswersInv'
  BY DEF NodeInv, ControlInv, AnswersInv, progress, Cleared
<1>6. block_number < window.block_count /\ sent = representation_offset + block_number * Overhead
  BY DEF NodeInv, LoopInv
<1>7. block_number \in Nat /\ representation_offset \in Nat
  BY <1>1 DEF CutInto, Capacities
<1>8. sent' = representation_offset + PlaintextLength + (block_number + 1) * Overhead
  BY <1>2, <1>6, <1>7 DEF Overhead
<1>9. LoopInv'
  BY <1>3, <1>6, <1>8 DEF LoopInv, progress, Cleared
<1>10. PolicyInv' /\ ObserverInv'
  BY DEF NodeInv, PolicyInv, ObserverInv, ObserverTruthful, progress, policy
<1> QED BY <1>4, <1>5, <1>9, <1>10 DEF NodeInv

\* What an answer is recorded as: the estimates move together, and stay at the
\* end all answers so far put them.
LEMMA RecordedInv ==
  ASSUME ObserverInv, NEW elapsed, NEW success \in BOOLEAN,
         observer' = Recorded(observer, elapsed, success),
         answers' = answers \cup {success}
  PROVE  ObserverInv'
<1> DEFINE failures == Failures(observer.consecutive_failures, success)
           sample == IF success THEN 0 ELSE Full
<1>1. failures \in 0 .. Many /\ (failures > 0 <=> ~success)
  BY DEF ObserverInv, Failures, Lesser, Many
<1>2. sample \in {0, Full}
  OBVIOUS
<1>3. sample = IF failures > 0 THEN Full ELSE 0
  BY <1>1
<1> HIDE DEF failures, sample
<1>4. /\ observer'.initialized = TRUE
      /\ observer'.loss = Ewma(observer.loss, sample, observer.initialized)
      /\ observer'.consecutive_failures = failures
      /\ observer'.retry = Ewma(observer.retry, sample, observer.initialized)
  BY <1>3 DEF Recorded, failures, sample
<1>5. observer'.loss \in 0 .. Full /\ observer'.retry = observer'.loss
  BY <1>2, <1>4, EwmaBounds DEF ObserverInv, ObserverTruthful
<1>6. success \in answers' /\ answers' # {}
  OBVIOUS
<1>7. ASSUME answers' = {success} PROVE observer'.loss = sample
  <2>1. CASE answers = {}
    BY <2>1, <1>2, <1>4, EwmaBounds DEF ObserverInv
  <2>2. CASE answers # {}
    <3>1. answers = {success}
      BY <1>7, <2>2, Zenon
    <3>2. observer.loss = sample
      BY <3>1 DEF ObserverInv, ObserverTruthful, sample
    <3> QED BY <3>2, <1>2, <1>4, EwmaBounds DEF ObserverInv
  <2> QED BY <2>1, <2>2
<1>8. (answers' = {TRUE} => success = TRUE) /\ (answers' = {FALSE} => success = FALSE)
  BY <1>6, Zenon
<1>9. /\ answers' = {TRUE} => observer'.loss = 0
      /\ answers' = {FALSE} => observer'.loss = Full
  BY <1>7, <1>8 DEF sample
<1> QED BY <1>1, <1>4, <1>5, <1>6, <1>9 DEF ObserverInv, ObserverTruthful

LEMMA AnsweredInv ==
  ASSUME NodeInv, NEW answer \in {"success", "refusal", "none"}, NEW elapsed,
         Answered(answer, elapsed), IInv'
  PROVE  NodeInv'
<1> DEFINE success == answer = "success"
<1> USE DEF Answered
<1>1. PICK c \in Capacities : CutInto(c)
  BY SendingCut
<1>2. block_number < window.block_count
  BY SendingCut
<1>3. response_ok = FALSE
  BY DEF NodeInv, LoopInv
<1>4. response_ok' = success
  BY <1>3
<1>5. ObserverInv'
  <2>1. observer' = Recorded(observer, elapsed, success)
    BY <1>4
  <2>2. answers' = answers \cup {success} /\ success \in BOOLEAN
    OBVIOUS
  <2>3. ObserverInv
    BY DEF NodeInv
  <2> QED BY <2>1, <2>2, <2>3, RecordedInv
<1>6. CASE ~success
  <2>1. UNCHANGED <<progress, granted>> /\ phase' = "waiting" /\ timer' = "set"
    BY <1>4, <1>6 DEF EndWindow, progress
  <2>2. WindowInv' /\ AnswersInv'
    BY <2>1, LoopAloneInv
  <2>3. ControlInv'
    BY <1>4, <2>1 DEF NodeInv, ControlInv
  <2>4. LoopInv' /\ PolicyInv'
    BY <2>1 DEF LoopInv, PolicyInv
  <2> QED BY <1>5, <2>2, <2>3, <2>4 DEF NodeInv
<1>7. CASE success
  <2>1. /\ representation_offset' = representation_offset + PlaintextLength
        /\ block_number' = block_number + 1
        /\ granted' = granted + 1
        /\ UNCHANGED <<policy, window, request, faults, sent>>
        /\ IF representation_offset' < window.representation_length
           THEN phase' = "sending" /\ UNCHANGED timer
           ELSE phase' = "waiting" /\ timer' = "set"
    BY <1>4, <1>7 DEF EndWindow
  <2>2. /\ PlaintextLength \in Nat \ {0}
        /\ More = (block_number + 1 < window.block_count)
        /\ More => representation_offset + PlaintextLength = c * (block_number + 1)
        /\ ~More => representation_offset + PlaintextLength = window.representation_length
        /\ ~More => block_number + 1 = window.block_count
    BY <1>1, <1>2, NextBlock
  <2>3. block_number \in Nat /\ window.block_count \in Nat
    BY <1>1 DEF CutInto
  <2>4. block_number' \in 0 .. window'.block_count
    BY <1>2, <2>1, <2>3
  <2>5. IF block_number' < window'.block_count
        THEN representation_offset' = c * block_number'
        ELSE representation_offset' = window'.representation_length
    BY <2>1, <2>2
  <2>6. CutInto(c)'
    BY <1>1, <2>1, <2>4, <2>5, Zenon DEF CutInto
  <2>7. More = (phase' = "sending")
    BY <2>1 DEF More
  <2>8. WindowInv' /\ AnswersInv'
    BY <2>1, <2>6 DEF NodeInv, WindowInv, AnswersInv
  <2>9. ControlInv'
    BY <1>4, <2>1 DEF NodeInv, ControlInv
  <2>10. PolicyInv'
    BY <2>1 DEF NodeInv, PolicyInv, policy
  <2>11. representation_offset \in Nat
    BY <1>1, <2>3 DEF CutInto, Capacities
  <2>12. sent' = representation_offset' + block_number' * Overhead
    BY <2>1, <2>2, <2>3, <2>11 DEF NodeInv, LoopInv, Overhead
  <2>13. LoopInv'
    BY <2>1, <2>2, <2>7, <2>12 DEF LoopInv
  <2> QED BY <1>5, <2>8, <2>9, <2>10, <2>13 DEF NodeInv
<1> QED BY <1>6, <1>7

LEMMA StepNodeInv == NodeInv /\ [NodeNext]_nodeVars => NodeInv'
<1> SUFFICES ASSUME NodeInv, [NodeNext]_nodeVars PROVE NodeInv'
  OBVIOUS
<1>1. IInv'
  BY StepIInv, NodeStepsPolicy DEF NodeInv
<1>2. CASE UNCHANGED nodeVars
  <2> USE <1>2 DEF nodeVars, node, progress
  <2>1. ControlInv' /\ AnswersInv' /\ PolicyInv' /\ ObserverInv'
    BY DEF NodeInv, ControlInv, AnswersInv, PolicyInv, ObserverInv, ObserverTruthful, policy
  <2>2. WindowInv'
    BY DEF NodeInv, WindowInv, NoWindow, CutInto
  <2>3. LoopInv'
    BY DEF NodeInv, LoopInv, More, PlaintextLength, Lesser
  <2> QED BY <1>1, <2>1, <2>2, <2>3 DEF NodeInv
<1>3. CASE TimerExpires
  BY <1>1, <1>3, TimerExpiresInv
<1>4. CASE StartWindow
  BY <1>1, <1>4, StartWindowInv
<1>5. CASE MetricsRefused \/ EncodeFails
  <2>1. phase' = "waiting" /\ faults' \in 0 .. MaxFaults
    BY <1>5, NodeAssumption
    DEF MetricsRefused, EncodeFails, Infers, Wakes, Skips, NodeInv, ControlInv
  <2> QED BY <1>1, <1>5, <2>1, WaitingInv DEF MetricsRefused, EncodeFails, Skips
<1>6. CASE SealFails
  <2>1. faults' \in 0 .. MaxFaults
    BY <1>6, NodeAssumption DEF SealFails, NodeInv, ControlInv
  <2> QED BY <1>1, <1>6, <2>1, WaitingInv DEF SealFails, EndWindow
<1>7. CASE SendBlock
  BY <1>1, <1>7, SendBlockInv
<1>8. CASE RequestEnds
  BY <1>1, <1>8, AnsweredInv DEF RequestEnds
<1> QED BY <1>2, <1>3, <1>4, <1>5, <1>6, <1>7, <1>8 DEF NodeNext, Process

LEMMA SpecNodeInv == NodeSpec => []NodeInv
  BY InitNodeInv, StepNodeInv, PTL DEF NodeSpec

-----------------------------------------------------------------------------
\* What follows from it.

\* The header the node announces agrees with the blocks it sends: a block
\* without the More flag is the last of block_count, the others are full, and
\* with the last the bytes sent are the Size1 announced.
THEOREM SegmentsAgreeAlways == NodeSpec => []SegmentsAgree
<1>1. ASSUME NodeInv, NEW c \in Capacities, CutInto(c)
      PROVE  SegmentsAgree
  <2>1. /\ window.block_size = c + Overhead /\ c \in Nat \ {0}
        /\ window.representation_length \in Nat \ {0} /\ window.block_count \in Nat \ {0}
        /\ block_number \in 0 .. window.block_count
        /\ window.protected_size = window.representation_length + window.block_count * Overhead
    BY <1>1 DEF CutInto, Capacities
  <2>2. CASE block_number < window.block_count
    <3>1. /\ PlaintextLength \in Nat \ {0}
          /\ PlaintextLength <= c
          /\ More = (block_number + 1 < window.block_count)
          /\ More => PlaintextLength = c
          /\ ~More => /\ representation_offset + PlaintextLength = window.representation_length
                      /\ block_number + 1 = window.block_count
          /\ representation_offset < window.representation_length
      BY <1>1, <2>2, NextBlock
    <3>2. representation_offset \in Nat
      BY <1>1, <2>1, <2>2 DEF CutInto
    <3>3. NodeTypeOK
      BY <1>1, <2>1, <3>1, <3>2 DEF NodeInv, IInv, ControlInv, ObserverInv, NodeTypeOK
    <3>4. ASSUME phase = "blocked"
          PROVE  /\ request.more = More
                 /\ request.record_length = PlaintextLength + Overhead
                 /\ sent = representation_offset + PlaintextLength + (block_number + 1) * Overhead
      BY <1>1, <3>4 DEF NodeInv, LoopInv
    <3>5. ASSUME phase = "blocked", ~More PROVE sent = window.protected_size
      BY <2>1, <3>1, <3>2, <3>4, <3>5 DEF Overhead
    <3>6. block_number # window.block_count
          /\ representation_offset # window.representation_length
      BY <2>1, <2>2, <3>1, <3>2
    <3> QED BY <2>1, <3>1, <3>3, <3>4, <3>5, <3>6 DEF SegmentsAgree, Overhead
  <2>3. CASE block_number = window.block_count
    <3>1. representation_offset = window.representation_length
      BY <1>1, <2>1, <2>3 DEF CutInto
    <3>2. phase = "waiting"
      BY <1>1, <2>1, <2>3 DEF NodeInv, LoopInv
    <3> QED BY <1>1, <2>1, <2>3, <3>1, <3>2
        DEF NodeInv, IInv, ControlInv, ObserverInv, SegmentsAgree, NodeTypeOK
  <2> QED BY <2>1, <2>2, <2>3
<1>2. ASSUME NodeInv, NoWindow PROVE SegmentsAgree
  BY <1>2 DEF NodeInv, IInv, ControlInv, ObserverInv, NoWindow, SegmentsAgree, NodeTypeOK
<1>3. NodeInv => SegmentsAgree
  BY <1>1, <1>2 DEF NodeInv, WindowInv
<1> QED BY <1>3, SpecNodeInv, PTL

\* The loop in adaptive-node.c moves on only by an answer to its own request.
THEOREM NoStaleSuccessAlways == NodeSpec => []NoStaleSuccess
<1>1. NodeInv => NoStaleSuccess
  BY DEF NodeInv, AnswersInv, NoStaleSuccess
<1> QED BY <1>1, SpecNodeInv, PTL

\* The loss estimate of the observer is none as long as every request
\* succeeded and all as long as every one failed, and the retry estimate is
\* the same number.
THEOREM ObserverTruthfulAlways == NodeSpec => []ObserverTruthful
<1>1. NodeInv => ObserverTruthful
  BY DEF NodeInv, ObserverInv
<1> QED BY <1>1, SpecNodeInv, PTL

\* No large block is on its way before the hold after congestion is over.
THEOREM CautiousAlways == NodeSpec => []CautiousAfterCongestion
<1>1. NodeInv => CautiousAfterCongestion
  BY BlockSizeCapacity
  DEF NodeInv, PolicyInv, IInv, TypeOK, HoldRespected, CautiousAfterCongestion
<1> QED BY <1>1, SpecNodeInv, PTL

\* The node selects its states by the policy of adaptive_hmm_step.
THEOREM NodeFollowsPolicy == NodeSpec => Spec
<1>1. NodeInit => Init
  BY DEF NodeInit
<1> QED BY <1>1, NodeStepsPolicy, PTL DEF NodeSpec, Spec

=============================================================================
