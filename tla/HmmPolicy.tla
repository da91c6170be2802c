------------------------------ MODULE HmmPolicy ------------------------------
(***************************************************************************)
(* The operating state adaptive_hmm_step selects.  The Gaussian filter is  *)
(* floating point and is abstracted to its outcome, the most probable      *)
(* state, which may be any of the five at every observation; what is kept  *)
(* is the history-dependent choice made from it, with the counter that     *)
(* holds RECOVERY.                                                         *)
(***************************************************************************)
EXTENDS Integers

CONSTANT MaxHold       \* bound: recovery_hold, an unvalidated unsigned in the code
ASSUME HoldAssumption == MaxHold \in Nat

VARIABLES
  state,
  recovery_hold,        \* copied from the configuration by adaptive_hmm_init
  recovery_remaining,
  observations,         \* counted modulo ObservationCycle
  since_congested       \* history: observations since CONGESTED was last
                        \* selected, or Never; counted up to MaxHold + 2

vars == <<state, recovery_hold, recovery_remaining, observations, since_congested>>

States == {"GOOD", "NORMAL", "DEGRADED", "CONGESTED", "RECOVERY"}
Relaxed == {"GOOD", "NORMAL", "DEGRADED"}
Holds == 0 .. MaxHold
Never == MaxHold + 3
ObservationCycle == 2   \* bound: the code's counter is only ever incremented

\* Mutants of Selected: RECOVERY is held only while the filter agrees, it is
\* entered whenever the filter prefers it, it is kept while it is preferred.
SelectedUnheld(from, candidate, remaining) ==
  CASE from = "CONGESTED" /\ candidate # "CONGESTED" -> "RECOVERY"
    [] from # "CONGESTED" /\ candidate = "RECOVERY" /\ remaining = 0 -> "NORMAL"
    [] OTHER -> candidate
SelectedFreely(from, candidate, remaining) ==
  IF (from = "CONGESTED" \/ (from = "RECOVERY" /\ remaining > 0)) /\ candidate # "CONGESTED"
  THEN "RECOVERY" ELSE candidate
SelectedSticky(from, candidate, remaining) ==
  CASE from = "CONGESTED" /\ candidate # "CONGESTED" -> "RECOVERY"
    [] from = "RECOVERY" /\ candidate # "CONGESTED" /\ remaining > 0 -> "RECOVERY"
    [] from \in Relaxed /\ candidate = "RECOVERY" -> "NORMAL"
    [] OTHER -> candidate

\* The state selected after "from" when the filter prefers "candidate", and
\* the counter that goes with it.
Selected(from, candidate, remaining) ==
  CASE from = "CONGESTED" /\ candidate # "CONGESTED" -> "RECOVERY"
    [] from = "RECOVERY" /\ candidate # "CONGESTED" /\ remaining > 0 -> "RECOVERY"
    [] from # "CONGESTED" /\ candidate = "RECOVERY"
         /\ ~(from = "RECOVERY" /\ remaining > 0) -> "NORMAL"
    [] OTHER -> candidate

Remaining(from, candidate, remaining) ==
  CASE from = "CONGESTED" /\ candidate # "CONGESTED" -> recovery_hold
    [] from = "RECOVERY" /\ candidate = "CONGESTED" -> 0
    [] from = "RECOVERY" /\ candidate # "CONGESTED" /\ remaining > 0 -> remaining - 1
    [] OTHER -> remaining

SinceCongested(selected) ==
  CASE selected = "CONGESTED" -> 0
    [] selected # "CONGESTED" /\ since_congested \in 0 .. MaxHold + 1 -> since_congested + 1
    [] OTHER -> since_congested

\* One observation.
Observe(candidate) ==
  /\ state' = Selected(state, candidate, recovery_remaining)
  /\ recovery_remaining' = Remaining(state, candidate, recovery_remaining)
  /\ since_congested' = SinceCongested(state')
  /\ observations' = (observations + 1) % ObservationCycle
  /\ UNCHANGED recovery_hold

Step == \E candidate \in States : Observe(candidate)

\* adaptive_hmm_init starts in the most probable initial state, RECOVERY too.
Init ==
  /\ state \in States
  /\ recovery_hold \in Holds
  /\ recovery_remaining = 0
  /\ observations = 0
  /\ since_congested = IF state = "CONGESTED" THEN 0 ELSE Never

Spec == Init /\ [][Step]_vars

-----------------------------------------------------------------------------
\* Properties.

\* Every variable keeps its type; the counter never exceeds the hold.
TypeOK ==
  /\ state \in States
  /\ recovery_hold \in Holds
  /\ recovery_remaining \in 0 .. recovery_hold
  /\ observations \in 0 .. ObservationCycle - 1
  /\ since_congested \in 0 .. Never

\* After congestion no relaxed state is selected before recovery_hold + 1
\* observations have passed in RECOVERY, however the filter flaps.
HoldRespected ==
  state \in Relaxed => since_congested > recovery_hold + 1

\* RECOVERY is entered only by leaving CONGESTED (docs/ARCHITECTURE.md:50-51).
RecoveryOnlyAfterCongested ==
  [][state' = "RECOVERY" /\ state # "RECOVERY" => state = "CONGESTED"]_vars

\* A counter left over from one recovery never shortens or prolongs another:
\* outside RECOVERY it is zero, inside it counts the rest of the hold.
CounterTracksRecovery ==
  IF state = "RECOVERY" /\ since_congested # Never
  THEN since_congested + recovery_remaining = recovery_hold + 1
  ELSE recovery_remaining = 0

\* RECOVERY is never permanent, whatever the filter prefers.
RecoveryEnds == state = "RECOVERY" ~> state # "RECOVERY"

=============================================================================
