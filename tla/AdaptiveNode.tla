----------------------------- MODULE AdaptiveNode -----------------------------
(***************************************************************************)
(* The node's firmware, src/platform/contiki-ng/adaptive-node.c, with the  *)
(* observer of contiki-port.c that measures its own requests: at every     *)
(* timer expiry a window is taken, the state inferred and the              *)
(* representation cut into blocks, each sealed and sent in a blocking      *)
(* request whose answer decides about the next and feeds the observer.     *)
(* What the server makes of the blocks is module Telemetry; here an answer *)
(* is any.  The filter is that of HmmPolicy.                               *)
(***************************************************************************)
EXTENDS HmmPolicy

CONSTANTS
  Lengths,         \* representation lengths the encoder may produce
  MaxFaults        \* bound: metrics that are no numbers, failing encodes and seals
ASSUME NodeAssumption == Lengths \subseteq Nat \ {0} /\ MaxFaults \in Nat

VARIABLES
  phase,           \* "waiting" for the timer, "sending" a block, "blocked" in
                   \* COAP_BLOCKING_REQUEST
  timer,           \* "set", "expired" with its event on the way to the
                   \* process, or "stopped" once the event was taken
  window,          \* block_size, representation_length, block_count, protected_size
  representation_offset, block_number,
  request,         \* the Block1 More flag and the record's length
  response_ok,
  observer,        \* adaptive_contiki_observer_t
  faults,
  sent,            \* history: the bytes of the records sent of this window
  granted,         \* history: the answers of success to them
  answers          \* history: whether any request so far succeeded, or failed

policy == <<state, recovery_hold, recovery_remaining, observations, since_congested>>
progress == <<window, representation_offset, block_number>>
node == <<phase, timer, progress, request, response_ok, observer, faults,
          sent, granted, answers>>
nodeVars == <<policy, node>>

Overhead == 25     \* version, sequence number and tag
Full == 8          \* bound: EWMAs are in eighths
Many == 2          \* bound: consecutive_failures is only compared with zero

\* The block sizes adaptive_config_defaults gives the states: the test for a
\* block too small to hold a record never succeeds.
BlockSizeOf == [s \in States |-> IF s \in {"GOOD", "NORMAL"} THEN 64 ELSE 32]

Lesser(a, b) == IF a < b THEN a ELSE b

-----------------------------------------------------------------------------
\* The observer.

\* Round half to even.  Mutant of Ewma: the first sample is weighted too.
EwmaFromZero(previous, sample, initialized) == (7 * previous + sample + 4) \div 8
Ewma(previous, sample, initialized) ==
  LET sum == 7 * previous + sample
      down == sum \div 8
  IN IF ~initialized THEN sample
     ELSE IF sum % 8 > 4 \/ (sum % 8 = 4 /\ down % 2 = 1) THEN down + 1 ELSE down

Failures(failures, success) == IF success THEN 0 ELSE Lesser(failures + 1, Many)

\* Mutant of Elapsed: an answer within one tick takes no time.
ElapsedRaw(elapsed) == elapsed
Elapsed(elapsed) == IF elapsed = 0 THEN 1 ELSE elapsed

\* A division by an elapsed time of zero would leave an infinity in the
\* goodput EWMA, for ever.
Recorded(o, elapsed, success) ==
  LET failures == Failures(o.consecutive_failures, success)
  IN [initialized |-> TRUE,
      loss |-> Ewma(o.loss, IF success THEN 0 ELSE Full, o.initialized),
      goodput_finite |-> o.goodput_finite /\ (success => Elapsed(elapsed) > 0),
      consecutive_failures |-> failures,
      retry |-> Ewma(o.retry, IF failures > 0 THEN Full ELSE 0, o.initialized)]

Unobserved ==
  [initialized |-> FALSE, loss |-> 0, goodput_finite |-> TRUE,
   consecutive_failures |-> 0, retry |-> 0]

-----------------------------------------------------------------------------
\* A timer expiry.

TimerExpires ==
  /\ timer = "set"
  /\ timer' = "expired"
  /\ UNCHANGED <<policy, phase, progress, request, response_ok, observer, faults,
                 sent, granted, answers>>

Wakes == phase = "waiting" /\ timer = "expired"

Skips ==
  /\ timer' = "set"
  /\ UNCHANGED <<phase, progress, request, response_ok, observer, sent, granted, answers>>

\* adaptive_contiki_metrics_snapshot: whether what was measured is finite; the
\* hooks add to it what they like.
SnapshotFinite == observer.goodput_finite

\* The normalizer refuses what is not finite, before it or the HMM changes.
MetricsRefused ==
  /\ Wakes
  /\ \/ ~SnapshotFinite /\ UNCHANGED faults
     \/ faults < MaxFaults /\ faults' = faults + 1
  /\ Skips
  /\ UNCHANGED policy

\* The state is inferred from the finite metrics.
Infers ==
  /\ Wakes
  /\ SnapshotFinite
  /\ \E candidate \in States : Observe(candidate)

EncodeFails ==
  /\ Infers
  /\ faults < MaxFaults /\ faults' = faults + 1
  /\ Skips

BlockCount(length, capacity) == (length + capacity - 1) \div capacity

StartWindow ==
  /\ Infers
  /\ \E length \in Lengths :
        LET count == BlockCount(length, BlockSizeOf[state'] - Overhead)
        IN window' = [block_size |-> BlockSizeOf[state'], representation_length |-> length,
                      block_count |-> count, protected_size |-> length + count * Overhead]
  /\ representation_offset' = 0 /\ block_number' = 0
  /\ phase' = "sending" /\ timer' = "stopped"
  /\ sent' = 0 /\ granted' = 0
  /\ UNCHANGED <<request, response_ok, observer, faults, answers>>

-----------------------------------------------------------------------------
\* The block loop.

PlaintextLength ==
  Lesser(window.representation_length - representation_offset, window.block_size - Overhead)
\* Mutant of More: the last block that fills up is announced as not the last.
MoreTooLong == representation_offset + PlaintextLength <= window.representation_length
More == representation_offset + PlaintextLength < window.representation_length

\* The end of the window, all blocks sent or not.
EndWindow == phase' = "waiting" /\ timer' = "set"

SealFails ==
  /\ phase = "sending"
  /\ faults < MaxFaults /\ faults' = faults + 1
  /\ EndWindow
  /\ UNCHANGED <<policy, progress, request, response_ok, observer, sent, granted, answers>>

\* Mutant of Cleared: the answer to the request before is left there.
ClearedNot(ok) == ok
Cleared(ok) == FALSE

SendBlock ==
  /\ phase = "sending"
  /\ request' = [more |-> More, record_length |-> PlaintextLength + Overhead]
  /\ sent' = sent + request'.record_length
  /\ response_ok' = Cleared(response_ok)
  /\ phase' = "blocked"
  /\ UNCHANGED <<policy, timer, progress, observer, faults, granted, answers>>

\* The request ends: with an answer of success or refusal, which
\* response_handler sees, or with none, and then it is not called.
Answered(answer, elapsed) ==
  /\ phase = "blocked"
  /\ response_ok' = IF answer = "none" THEN response_ok ELSE answer = "success"
  /\ observer' = Recorded(observer, elapsed, response_ok')
  /\ granted' = IF answer = "success" THEN granted + 1 ELSE granted
  /\ answers' = answers \cup {answer = "success"}
  /\ IF response_ok'
       THEN /\ representation_offset' = representation_offset + PlaintextLength
            /\ block_number' = block_number + 1
            /\ IF representation_offset' < window.representation_length
                 THEN phase' = "sending" /\ UNCHANGED timer
                 ELSE EndWindow
       ELSE EndWindow /\ UNCHANGED <<representation_offset, block_number>>
  /\ UNCHANGED <<policy, window, request, faults, sent>>

RequestEnds ==
  \E answer \in {"success", "refusal", "none"}, elapsed \in {0, 1} : Answered(answer, elapsed)

-----------------------------------------------------------------------------

NodeInit ==
  /\ Init /\ state = "NORMAL"      \* the default initial_probability
  /\ phase = "waiting" /\ timer = "set"
  /\ window = [block_size |-> 0, representation_length |-> 0,
               block_count |-> 0, protected_size |-> 0]
  /\ representation_offset = 0 /\ block_number = 0
  /\ request = [more |-> FALSE, record_length |-> 0] /\ response_ok = FALSE
  /\ observer = Unobserved
  /\ faults = 0 /\ sent = 0 /\ granted = 0 /\ answers = {}

Process == StartWindow \/ MetricsRefused \/ EncodeFails \/ SendBlock \/ SealFails
NodeNext == TimerExpires \/ Process \/ RequestEnds

\* The timer expires, the process runs when it is woken, and a request ends
\* with an answer or a timeout.
NodeSpec ==
  NodeInit /\ [][NodeNext]_nodeVars
  /\ WF_nodeVars(TimerExpires) /\ WF_nodeVars(Process) /\ WF_nodeVars(RequestEnds)

-----------------------------------------------------------------------------
\* Properties.

\* Every variable keeps its type; a loss rate is between none and all.
NodeTypeOK ==
  /\ TypeOK
  /\ phase \in {"waiting", "sending", "blocked"} /\ timer \in {"set", "expired", "stopped"}
  /\ response_ok \in BOOLEAN
  /\ observer.loss \in 0 .. Full /\ observer.consecutive_failures \in 0 .. Many
  /\ faults \in 0 .. MaxFaults /\ answers \subseteq BOOLEAN
  /\ representation_offset \in 0 .. window.representation_length
  /\ block_number \in 0 .. window.block_count

\* The loop runs over offsets, the header announces a count and a size: they
\* agree.  A record without the More flag is the last of block_count, all
\* others fill their block, and the Size1 announced is what is sent; offsets and
\* numbers stay in range.
SegmentsAgree ==
  /\ NodeTypeOK
  /\ phase = "blocked" =>
       /\ request.more = (block_number + 1 < window.block_count)
       /\ request.more => request.record_length = window.block_size
       /\ request.record_length <= window.block_size
       /\ ~request.more => sent = window.protected_size
  /\ block_number = window.block_count
       <=> representation_offset = window.representation_length

\* The node moves on only by an answer to the very request it sent: never by
\* one to an earlier request when none came.
NoStaleSuccess == block_number = granted

\* The observer measures what happened from the first request on, and the
\* retry estimate, made from rows of failures, is the loss estimate again.
ObserverTruthful ==
  /\ answers = {TRUE} => observer.loss = 0
  /\ answers = {FALSE} => observer.loss = Full
  /\ observer.retry = observer.loss

\* The policy reaches the air: after an observation of congestion no large
\* block is sent before the hold is over.
CautiousAfterCongestion ==
  phase # "waiting" /\ window.block_size = 64 => since_congested > recovery_hold + 1

\* The node never falls silent: whatever is answered or refused, and after
\* whatever fails, it sends again.
NeverSilent == []<>(phase = "blocked")

=============================================================================
