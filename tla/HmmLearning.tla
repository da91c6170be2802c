----------------------------- MODULE HmmLearning -----------------------------
(***************************************************************************)
(* The belief and the learned transitions of adaptive_hmm_step, around the *)
(* policy of HmmPolicy.  Of a probability is kept whether it is of an      *)
(* ordinary size; what is smaller may be anything down to zero.  Of an     *)
(* observation is kept which state explains it best, and whether it rules  *)
(* all others out (their exp() underflows).  A transition count is an      *)
(* integer number of units, the unit being the smallest positive double:   *)
(* there multiplying by transition_forgetting rounds to the nearest        *)
(* integer, halves to the even one.                                        *)
(***************************************************************************)
EXTENDS HmmPolicy, FiniteSets

CONSTANTS
  Configurations, \* bound: of adaptive_config_t, the pairs of states with a
                 \* positive transition_prior, transition_forgetting as a
                 \* fraction, and whether transition_smoothing is above zero
  One,           \* bound: the units of 1.0, 2^1074 in the code
  Strength       \* bound: the units each prior pair has at first

ASSUME ConfigurationsAssumption ==
  \A c \in Configurations :
     /\ c.prior \subseteq States \X States
     /\ \A row \in States : \E column \in States : <<row, column>> \in c.prior
     /\ c.forgetting \in (Nat \ {0}) \X Nat /\ c.forgetting[1] <= c.forgetting[2]
     /\ c.smoothing \in BOOLEAN
ASSUME UnitAssumption == One \in Nat \ {0} /\ Strength \in Nat \ {0}

VARIABLES
  config,
  count,                \* transition_count
  firm,                 \* the states whose probability is of ordinary size
  nan,                  \* the belief has become NaN
  insisted              \* history: the observations in a row, counted up to
                        \* two, that only CONGESTED explains

learning == <<config, count, firm, nan, insisted>>
allVars == <<vars, learning>>

-----------------------------------------------------------------------------
\* update_transition.

Decayed(units) ==
  LET product == units * config.forgetting[1]
      twice == (2 * product) % (2 * config.forgetting[2])
      down == product \div config.forgetting[2]
  IN IF twice > config.forgetting[2] \/ (twice = config.forgetting[2] /\ down % 2 = 1)
     THEN down + 1 ELSE down

\* Mutant of Learned: row and column are swapped.
LearnedTransposed(from, to) ==
  [row \in States |-> [column \in States |->
     Decayed(count[row][column]) + IF row = to /\ column = from THEN One ELSE 0]]
Learned(from, to) ==
  [row \in States |-> [column \in States |->
     Decayed(count[row][column]) + IF row = from /\ column = to THEN One ELSE 0]]

\* A row of the transition matrix is divided by the sum of its counts and its
\* smoothed prior.  Mutant: by the sum of its counts.
HasMassOfCounts(row) == \E column \in States : count[row][column] > 0
HasMass(row) == config.smoothing \/ \E column \in States : count[row][column] > 0

\* A transition probability above zero, and one of ordinary size: in the
\* smoothed prior, or just learned.
Possible(i, j) == count[i][j] > 0 \/ (config.smoothing /\ <<i, j>> \in config.prior)
Likely(i, j) == count[i][j] >= One \/ (config.smoothing /\ <<i, j>> \in config.prior)

-----------------------------------------------------------------------------
\* Prediction, correction and the choice of the most probable state.

Outcome(candidate, size) == [candidate |-> candidate, firm |-> size]

\* The most probable states there can be after an observation that "best"
\* explains best, and only "best" if it is decisive.
Candidates(best, decisive) ==
  {j \in IF decisive THEN {best} ELSE States : \E i \in States : Possible(i, j)}
Predicted(best) == \E i \in firm : Likely(i, best)

\* normalize: when everything has underflowed the belief becomes uniform, and
\* the first state the most probable.  A NaN compares with nothing, so here too
\* the first state is taken.  Mutant: there is no uniform belief.
CorrectedUnguarded(best, decisive) ==
  IF nan THEN {Outcome("GOOD", {})}
  ELSE {Outcome(c, {c}) : c \in Candidates(best, decisive)}
       \cup (IF Predicted(best) THEN {} ELSE {Outcome("GOOD", {})})
Corrected(best, decisive) ==
  IF nan THEN {Outcome("GOOD", {})}
  ELSE {Outcome(c, {c}) : c \in Candidates(best, decisive)}
       \cup (IF Predicted(best) THEN {} ELSE {Outcome("GOOD", States)})

\* One observation: half of the belief goes to the state selected when it is
\* not the most probable one; the transition made is learned.
LearnStep ==
  \E best \in States, decisive \in BOOLEAN : \E outcome \in Corrected(best, decisive) :
     /\ UNCHANGED config
     /\ Observe(outcome.candidate)
     /\ firm' = IF nan \/ state' = outcome.candidate THEN outcome.firm
                ELSE outcome.firm \cup {state'}
     /\ count' = Learned(state, state')
     /\ nan' = (nan \/ \E row \in States : ~HasMass(row)')
     /\ insisted' = IF ~decisive \/ best # "CONGESTED" THEN 0
                    ELSE IF insisted = 2 THEN 2 ELSE insisted + 1

LearnInit ==
  /\ Init
  /\ config \in Configurations
  /\ count = [row \in States |-> [column \in States |->
                IF <<row, column>> \in config.prior THEN Strength ELSE 0]]
  /\ firm = {state}
  /\ nan = FALSE /\ insisted = 0

\* The node observes at every timer period.
LearnSpec == LearnInit /\ [][LearnStep]_allVars /\ WF_allVars(LearnStep)

-----------------------------------------------------------------------------
\* Properties.

\* Every variable keeps its type; a belief that is a number has a state of
\* ordinary size.
LearnTypeOK ==
  /\ count \in [States -> [States -> Nat]]
  /\ firm \subseteq States /\ nan \in BOOLEAN /\ insisted \in 0 .. 2
  /\ ~nan => state \in firm

\* The learned matrix never contradicts the policy: leaving CONGESTED for a
\* relaxed state, and entering RECOVERY from one, have no more probability
\* than the prior gave them.  Counts stay non-negative throughout.
PolicyMoves == (States \X States) \ (({"CONGESTED"} \X Relaxed) \cup (Relaxed \X {"RECOVERY"}))
LearnsPolicy ==
  /\ LearnTypeOK
  /\ \A i, j \in States : count[i][j] > 0 => <<i, j>> \in config.prior \cup PolicyMoves

\* The belief becomes NaN, and with it the state GOOD for ever, only when
\* forgotten rows can vanish: without smoothing, and with a forgetting factor
\* of at most one half.
NanOnlyUnsmoothed == nan => ~config.smoothing /\ 2 * config.forgetting[1] <= config.forgetting[2]

\* Congestion is noticed: two observations that nothing but CONGESTED explains
\* are enough from every belief, also one that had ruled it out, if the prior
\* lets congestion last and is kept by smoothing.
CongestionNoticed ==
  config.smoothing /\ <<"CONGESTED", "CONGESTED">> \in config.prior /\ insisted = 2
    => state = "CONGESTED"

=============================================================================
