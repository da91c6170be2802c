# Adaptive 6LoWPAN: a TLA+ development

TLA+ models of the adaptive telemetry uploader in `src/`, TLC runs over small
instances of them, and TLAPS proofs of the properties that matter most. Paths
below are relative to the repository (`src/pipeline.c` is the C file of that
name); `PROJECT.json` ties every definition to the lines it stands for.

## 1. What the system is

A sensor node samples a window of a signal, infers the state of its network
from link measurements, compresses the window accordingly, cuts the result into
CoAP Block1 blocks, seals every block and uploads it, block by block and one
request at a time. A server opens the blocks, reassembles and decompresses.
The same algorithms exist twice: as a portable library with a host program that
loops the packets back, and as two Contiki-NG firmwares over a real network.

| Component | State | Operations | Correct when |
|---|---|---|---|
| Security session: `security.c`, `security_test.c`, `security_oqs.c` | two directional keys, `tx_sequence`, `rx_highest`, `rx_initialized` per end | pair, seal, open, destroy | a nonce is never reused under a key; a record opens at most once, in order, under its own header; a fresh record is never refused |
| Associated data: `aad.c` | none | build from a header | every header field the receiver acts on is bound |
| Contiki node: `adaptive-node.c` | `window_id`, block loop, session, HMM, observer | timer: sample, observe, encode, send blocks; response handler; boot | what it counts as uploaded was delivered; a failure, a refused representation included, costs one window, not the following ones |
| Contiki server: `adaptive-server.c` | `transfer_active`, `active_token`, `next_block`, the buffer, session | POST handler; boot | only whole representations of one window are decoded, each once, in order |
| Host receiver: `receiver.c` | the same reassembly, `completed_windows` | init, accept | as the server |
| Pipeline: `pipeline.c` | `next_window_id`, `next_message_id`, normalizer, HMM, statistics | process one window | blocks fill exactly, sizes add up, a failed call leaves a usable pipeline, if the path can be built |
| Host program: `main.c` | the above, wired | options, configuration, pairing, the loop, the exits | status 0 means every window was completed; no exit leaves a live session |
| Operating-state inference: `hmm.c` | belief, transition counts, state, `recovery_remaining` | init, step, reset | RECOVERY follows congestion, is held as configured and ends; learning respects the policy; congestion is noticed |
| Block1 wire format: `coap_block.c` | none | build, parse, block size | parse inverts build |
| Sparse codec: `codec.c` | none | encode, decode | decode inverts encode, refuses what it did not write |
| Configuration: `config.c` | the configuration record | defaults, load, validate | an accepted configuration is usable (a refused one may have changed: lines are applied before a later one, or the validator, refuses) |
| Baseline normalizer: `metrics.c` | baseline, `initialized` | init, update | scores are bounded; a refused observation leaves no trace; an outburst is forgotten at the configured rate |
| Contiki observer and port: `contiki-port.c` | moving averages, `consecutive_failures` | record, snapshot, weak hooks | the averages report what happened and stay finite |
| db4 wavelet: `wavelet_db4.c` | none | forward, inverse | inverse inverts forward |

How they interact. `adaptive_node_process` calls the HMM, the encoder, the AAD
builder and the session's `seal` synchronously, then blocks in
`COAP_BLOCKING_REQUEST`; the only concurrency is between the motes and the
network, and between a mote and its own reboot. `telemetry_post_handler` runs
to completion for every request that arrives. On the host
`adaptive_pipeline_process` calls a transport callback in the middle of its
block loop, and the loopback callback calls `adaptive_receiver_accept` before
returning.

What is hard here:

* **Loss after effect.** The server opens a record, its response is lost, the
  repeated request is refused as a replay and the node gives up a window the
  server may have decoded.
* **Reset before authentication.** Block 0 of any arriving request empties the
  reassembly buffer before the record is opened.
* **Reboots.** Both firmwares rebuild their session from one compiled-in seed.
  A rebooted node starts over at sequence 0, window 1; a rebooted server
  forgets what it accepted.
* **Failure half-way.** Sequence numbers, message ids and window ids are
  consumed before the operations that may fail.
* **Boundaries.** The rounding of the block count, the More flag and the last
  block must agree; sequence 0 is a legal first record; a window close to zero is
  encoded with a scale of `0.0f`, which the decoder refuses.
* **History in the policy.** The RECOVERY hold counts down over a filter that
  may flap; the filter learns from what the policy made of its own output, and
  its beliefs underflow.
* **Self-measurement.** The node's observer measures the node's own requests, and
  what it reports decides whether another window is sent at all.
* **Bytes from the network.** Lengths, deltas, indices and counts are read from
  packets that may be cut or damaged, and from files anyone wrote.

`PROJECT.json` lists each of these under `hazards`, at its line, with the
properties that would catch it going wrong.

## 2. The modules

```
SecureRecord            the record layer, as operators on one context
 |-- SecureSession      two ends, pairing, destruction, any network
 |     |== OrderedChannel        (abstract specification)
 |     '-- SecureSession_proofs
 '-- Reassembly         the Block1 receiver, as operators on a transfer
       |-- Telemetry    node + server + network + reboots
       |     |== TelemetryService (abstract specification)
       |     '-- Telemetry_proofs
       '-- HostPipeline  pipeline + transport + receiver
             '-- HostMain      its callers: main, and a program on the library
                   '-- HostMain_proofs
HmmPolicy               the operating state and the RECOVERY hold
 |-- HmmLearning        + belief and learned transitions
 |     '-- MCHmmLearning     the priors TLC gives it
 |-- AdaptiveNode       + timer, block loop and observer of the node
 '-- HmmPolicy_proofs   of the policy and of the two above
Config                  loading and validating the configuration
 |-- MCConfig           the numbers TLC gives it
 '-- Config_proofs
CoapBlock               building and parsing a Block1 packet, byte for byte
 |-- MCCoapBlock        calls around every boundary
 '-- CoapBlock_proofs
Wavelet                 the db4 transform, as operators
 '-- Codec              encoder, pair stream, decoder
       |-- MCCodec      windows, and a filter modulo 97
       '-- Codec_proofs
Normalizer              the baseline
 |-- MCNormalizer       metrics that jump
 '-- Normalizer_proofs
```

`--` is EXTENDS, `==` is refinement through `INSTANCE ... WITH`. Operators named
`...Kept`, `Never...`, `...Below` and the like, introduced by a comment
"Mutants of", are plausible mistakes in the definition that follows them; no
specification uses them.

### SecureRecord

A context is the record `[tx_key, rx_key, tx_sequence, rx_highest,
rx_initialized]` of both providers. `Sealed`/`AfterSeal` are `test_seal` and
`oqs_seal`: the record takes `tx_sequence`, which is consumed. `Opens`/`AfterOpen`
are `test_open` and `oqs_open`: the replay test against the highest number, then
authentication, then the window moves to the record's number. A cipher is
modelled by its promise: a record opens under the key and associated data it was
sealed with, undamaged. Keys are `<<secret, direction>>`.

### SecureSession and OrderedChannel

Two `adaptive_security_session_t`. `Pair` is `adaptive_security_oqs_pair` (a new
secret at both ends), `Destroy` frees one end, `Seal` succeeds, `SealFails`
consumes a sequence number and produces nothing, `Open` and `OpenRefused` present
any record ever put on the wire, at either end, under any header, any number of
times. So loss, repetition, reordering, reflection and records of earlier
pairings are all there. `issued` and `opened` are history. `OrderedChannel` is
the promise: what an end receives are messages its peer sent, under their own
headers, at most once and in order, over all pairings.

### Reassembly

`Outcomes(transfer, context, header, record)` is the set of things one
well-formed block can come to, shared by `telemetry_post_handler` and
`adaptive_receiver_accept`, in the order of the code: block 0 starts a transfer
(`Started`), number and token must be the expected ones (`Expected`), the record
must open, the plaintext must fit, and the last block must decode. The context
advances with authentication, before capacity is known. A plaintext is the *piece*
it is: block `number` of the `of` blocks that one boot of the node cut one window
into. Of the header one field is kept, whether the scale was written as `0.0f`
(`faint`): `codec.c` 128 divides in double, 152 narrows to float, and 228 refuses
the result. A whole representation decodes unless it is faint (`DecodeResults`). The
decoder checks a header and a CRC over part of the buffer, so any other sequence of
pieces may decode or not. What does not decode stays in the buffer, with the
transfer active, until the next block 0. Overflow
is possible only for pieces of different representations, because the encoder
never exceeds the receiver's capacity.

### Telemetry and TelemetryService

The deployed system. Node: `NodeStart` is the timer expiry up to the first
blocking request, `NodeSkip` an expiry whose window is dropped before any request
is sent, `NodeNextBlock` the next pass of the inner loop, `NodeFinish`,
`NodeGiveUp` (a 4.xx answer) and `NodeTimeout` (no answer) end the window; all
three run the common tail `window_id++`. The number of blocks is any
`1 .. MaxBlocks`: it stands for sampling, inference and compression; and up to
`MaxFaint` of the windows are faint. Server:
`Handle` is `telemetry_post_handler`, with its five responses. `NodeReboot` and
`ServerReboot` rebuild the process state exactly as the firmwares' start-up code
does.

Network: every request ever sent stays in `requests`. `Arrive` is the first
arrival of the request the node waits for; `ArriveStray` a repetition or an
arrival after the node stopped waiting; `ArriveDamaged` an arrival under another
header; `ArriveMalformed` one the handler refuses unread. All but the first, and
timeouts, spend a fault. A response is a member of `responses` forever; that it
is lost is that the node times out. The CoAP engine is not part of the
repository's source: it is modelled from how the two firmwares use it.

`TelemetryService` is what an operator relies on: windows of one boot of the node
are delivered at most once and in the order of sampling, some are lost, and the
node takes an upload for successful only when it was delivered.

### HostPipeline

`adaptive_pipeline_process` from call to return, with the arithmetic of
segmentation (`BlockCount`, `PlaintextCapacity`, `TotalProtected`, `More`), a
transport that may fail before or after delivering, a failing seal, a failing
encode, a repeated packet and the wrapping 16-bit message id. The configured path has
segments or none (`uri_path`): "/" passes `adaptive_config_validate`, and then the
builder refuses every packet (`BuildFails`), after ids and a sequence number were
consumed. Any window may be faint. `sent` is history: the
bytes of the records the call handed to the transport.
`adaptive_receiver_accept` runs inside `SendBlock`, as the callback does. The
normalizer, the HMM and the encoder appear by their result: a failure, or a
representation of any length of `Lengths` and any exponent of `Szx`.

### HostMain

The two kinds of caller `adaptive_pipeline_process` has. `main` takes options, a
configuration, a pair of sessions and a pipeline, and calls until a call fails or
completes nothing, or not as many samples as the window has; its loopback neither
fails nor repeats, and each of its exits is an action. A program built on the library (`LibraryCalls`) has a transport that
does both, and calls again after a failure.

### HmmPolicy

`adaptive_hmm_step` after the filter: the filter's most probable state is any of
the five, and `Selected`/`Remaining` are the branches that make CONGESTED lead to
RECOVERY, hold it for `recovery_hold` more observations and refuse it otherwise.
`since_congested` is history. `Observe` is what the two modules below share.

### HmmLearning

The whole of `adaptive_hmm_step`. Of a probability the model keeps whether it is of
ordinary size (`firm`); one that is not may be anything down to zero, so the most
probable state is any that can be reached (`Candidates`). Of an observation it keeps
which state explains it best and whether it rules the others out, which is what
the underflow of `exp` does. `normalize` falls back to the uniform belief when
everything underflowed (`Corrected`). Transition counts are integers of the smallest
positive double, where forgetting rounds to the nearest: `Decayed` reaches zero with
a factor of at most one half and never with a larger one, as it does in doubles. A
row whose counts and smoothed prior are all zero is divided by zero (`HasMass`), and
the belief is NaN from then on.

### AdaptiveNode

The node's process, in which the policy, the segmentation, the blocking request
and the observer meet. `TimerExpires` posts the event, `StartWindow`,
`MetricsRefused` and `EncodeFails` are what the process does when woken; `SendBlock`
goes up to `COAP_BLOCKING_REQUEST`, and `Answered` from its return to the next
request or the end of the window: the answer, if there was one, has set
`response_ok`, and `Recorded` is `adaptive_contiki_observer_record`. The averages are
integers in eighths, rounded as the code's doubles are. Of the goodput average only
finiteness is kept: that is what the snapshot, and through it the normalizer,
refuses. `sent`, `granted` and `answers` are history.

### CoapBlock

`adaptive_coap_build_block1` and `adaptive_coap_parse_block1` on sequences of bytes;
32-bit numbers are four bytes, so that widths are the code's. `BuildHeader` writes the
first bytes and the token. Then one action per step of the scan over the path
(`SkipSlash`, `AppendSegment`, `SegmentDoesNotFit`; `cursor` is what is left of it), its
end (`PathEnd`, or `PathRefused` when there was no segment), one per option appended
after it (`AppendOption`, `OptionDoesNotFit`) and per option parsed (`ParseOption`,
`OptionRefused`), and one for each other return. Between building and parsing the packet arrives
whole, cut at any length, or with one byte changed. `BuildAad` is the associated data,
of which `HeaderBound` speaks.

### Wavelet and Codec

`Wavelet` has `adaptive_db4_forward` and `adaptive_db4_inverse`, index by index,
modulo a prime in which an orthonormal filter of eight taps exists: invertibility
rests on the orthonormality of the taps and on the indices, never on the values of
the taps, and in such arithmetic it is an equality. `FilterAssumption` states the
orthonormality.

`Codec` is `adaptive_codec_encode` and `adaptive_codec_decode` on the coefficients: the
soft threshold, the quantizer, the scale rounded to a float, the header's fields and
the stream of pairs. A coefficient is an integer number of the smallest positive
float, so the rounding of the scale, to 0.0f included, is the rounding to an integer.
The decoder refuses by header (`HeaderRefused`), by CRC (`CrcRefused`), by pair
(`PairRefused`) or in the transform (`InverseRefused`), and `Clear` and `DecodePair` write
to a memory longer than what the caller promised. The pair of a coefficient stands
behind as many pairs as there are smaller indices with a value, which is the order
the encoder's loop writes them in. `PowersOfTwo` is the law of exponents up to the
widest integer, which TLC evaluates and the provers use.

### Normalizer

`adaptive_normalizer_update` for one metric of each direction. `Refuse`, `First` and
`Update` are its three ways through. `baseline_alpha` is any fraction between 0 and 1
with denominator `Parts`, the default 4/100 among those TLC takes. Means are in
quarters and variances in sixteenths, and the products with `alpha` and `1 - alpha`
(`Share`, `Kept`) are rounded towards what they tend to, so that a level that lasts
is reached and a variance that is no longer fed ends at zero, as in doubles.
`level` and `allowance` are history: the metrics last taken in, and a bound on what
older ones have left in mean and variance.

### Config

`adaptive_config_load` on the configuration `main` filled with the defaults.
`ApplyLine` is `apply_key` on a line it accepts; `RefuseLine`, `ReadFails` and
`EndOfFile` are the ways the call ends. `config` is a function of the keys, and a
number is narrowed to its field as it is stored: an `unsigned` modulo
`UnsignedRange`, a `uint8_t` after its range test. `PowersOfTwo` states the law of
exponents up to `WordBits`, because the provers know of `2 ^ n` only that it is an
integer; TLC evaluates it on the run. `Valid` is
`adaptive_config_validate`; `TransformAccepts`, `HeaderAccepted` and
`MaximumInteger` are what the wavelet, the decoder and the quantizer ask of the
same numbers, written as those files write it. The fields of which only a range
is asked are the single key `Rest`. `written` is history.

## 3. What TLC checks

| Run | Shows | Bounds |
|---|---|---|
| `session` | records of one key open once and in order; a record newer than all opened is never refused; nonces are unique; the sessions implement `OrderedChannel` over re-pairing and destruction | 2 pairings, 2 messages, 3 sequence numbers, 2 headers |
| `telemetry_node_reboot` | no record is accepted twice; the system implements `TelemetryService`: windows of a boot once and in order, confirmed only when delivered; a rebooted node is heard again after at most `rx_highest + 1` windows, faint ones apart | 3 windows of up to 2 blocks, 1 of them faint, 1 fault, 1 node reboot |
| `telemetry_server_reboot` | only whole windows are decoded; what the node counts as uploaded was decoded; lost responses, abandoned windows, refused blocks and representations that do not decode never desynchronise the motes for good | 3 windows of up to 2 blocks, 1 of them faint, 2 faults, 1 server reboot |
| `telemetry_both_reboot` | with both rebooting, blocks of two boots can meet in one representation, but never of two windows and never out of order | 2 windows of up to 2 blocks, 2 faults, 1 reboot each |
| `telemetry_replay` | *a violation*, see section 6 | 1 window of 1 block |
| `host` | blocks fill, sizes add up, OK means one completed window, completions are whole and ordered, a failed call does not hinder the next; exit status 0 means every window was completed, and no exit leaves a live session | a path with segments and "/"; lengths 28, 35, 80; exponents 0, 1, 2, 6; 2 windows, 2 failures; 1, 2 and 65536 steps of a 16-bit unsigned |
| `adaptive_node` | block count, Size1 and the loop agree; an answer counts for its own request; the averages report what happened; no large block during the hold; the node never falls silent | lengths 7, 8, 39, 40; hold up to 1; 2 faults |
| `hmm_learning` | the hold is respected, RECOVERY is entered only from CONGESTED and ends; learned transitions respect the policy; NaN only without smoothing; lasting congestion is noticed | holds 0 to 3; 8 configurations: three priors, forgetting 1/2 and 3/5, with and without smoothing |
| `normalizer` | scores stay between -6 and 6 for a positive epsilon, variances above it; a change larger than what is left of an earlier outburst is scored a deviation at least | 9 observations of 4 kinds; alpha 0.04, 0.25, 0.5, 0.75; epsilon -1, 0, 1, 40 |
| `coap_block` | parse inverts build; a cut packet yields no guessed field; builder and parser stay inside their buffers; the pipeline's packets fit; equal associated data means equal fields the receiver decides by | see `MCCoapBlock`; cuts up to 330 bytes; each byte of three packets changed to each value |
| `codec` | decoding returns each coefficient to within half a step; what is refused leaves the samples untouched unless the count or the levels were damaged; nothing is written outside them; the transform is invertible | windows of 7 to 256; quantizers of 2, 4 and 15 bits; see `MCCodec` |
| `config` | what is accepted passes the tests of the transform, the codec and the HMM's initialisation, and is what the file says | 4 lines, 2 states, 20-bit words, 16-bit unsigned |

Some invariants are conjunctions of named parts: `SegmentsAddUp` of `TypeOK`,
`BlocksFilled` and `SizesAddUp`, `ExitsClean` of `ExitZeroMeansAll` and
`SessionsDestroyed`, `SamplesGuarded` of `TypeOK`, `WritesInside` and
`RefusedBeforeWriting`; `SegmentsAgree`, `WithinBuffers`, `LearnsPolicy` and
`ScoresInRange` begin with the types of their module. The types of
`SecureSession`, `HmmPolicy` and `Config`, and `CounterTracksRecovery`, are in no run:
they are proved.

What the properties leave out on purpose. `DecodedWhole` is not checked in a run whose
node reboots; there it is the theorem `DecodingWholeAcrossNodeReboots`. The liveness
properties excuse a window whose own scale is `0.0f`, never the one after it.
`NextCallUnhindered` speaks of paths with segments, because with "/" every call fails,
and excuses a call only by what that call itself returned. `ExitsClean` counts the
steps as narrowed, so `--steps 4294967296`, which narrows to none, exits with 0 having
sent nothing. `AcceptedAsWritten` excuses numbers that no `unsigned` can hold.
`TruncationSeen` lets Size1, the last option, be read as absent. `ScoresInRange` and
`ChangesVisible` ask for a positive epsilon, which nothing validates. `HoldRespected`
and `CautiousAfterCongestion` count observations, as the code does, also those of
windows that are then not sent. The `hazards` of `PROJECT.json` say which of them no
property covers.

Why the bounds are enough. Two blocks give a first, a last and an only block; two
windows give a current and a late one; two faults let one fault hit the recovery
from another (a stray block 0, then a stray block 1 of the same window). A third
window is there where a property speaks of the windows after a faulty one.
With three, `OutageEnds` speaks of the second window when the server's window stood
at sequence 0 and of the third when it stood at 1, and of a window that follows a
faint one; its node may reboot, lose an answer or be visited by a stray once. One
faint window is enough for the buffer to stay full once. `telemetry_both_reboot` and
`telemetry_replay` have none: their properties do not depend on what decodes. In the
host run, lengths 28 and 35 are an exact multiple and one more than a multiple of
the 7-byte capacity of exponent 1, 80 makes several blocks of exponent 1 and 2,
exponent 0 cannot hold a record, exponent 6 takes everything in one block, and 16
message ids make the counter wrap. The numbers of `MCConfig` lie on both sides of
every test of `config.c`, and beyond the width of the fields; words are 20 bits
and an `unsigned` 16, so that 2^w fits TLC's integers while a word is still wider
than an `unsigned`. In `adaptive_node` the capacities are 7 and 39: the lengths
are a full block and one byte more or less. A hold of 3 is the default of
`runtime.conf`. Nine observations let the normalizer start, jump, stay at the new
level for some and change again, in both directions. The calls of `MCCoapBlock` put every extended delta, length and
number on both sides of its changes (13, 269, a byte more), the longest path the
configuration holds, and every output capacity too small by one. `MaxSequence` and
`SequenceNumbers` bound 64-bit counters that the code never tests for overflow.

`CHECK_DEADLOCK FALSE` stands where a bound stops the model (`SecureSession` out of
sequence numbers, `Normalizer` out of observations) or what is modelled returns
(`HostMain`, `Config`, `CoapBlock`, `Codec`). `Telemetry` has an explicit `OutOfWindows`
step for the same purpose, and `AdaptiveNode` and `HmmLearning` never stop, so there a
deadlock would be found.

Fairness. `NodeStep` is weakly fair because the process is woken by its timer or
by the response; `Arrive` because a confirmable request is retransmitted until it
is answered or the exchange times out, and a timeout is a bounded fault. Nothing
is assumed of strays, damage or reboots; the liveness properties speak of the
time after the last of them (`Quiet`). In `HostMain`, a call of the
program on the library runs to its return and the program makes the next
(`Process`); nothing is assumed of `main`. In `HmmLearning` the node observes at every
timer period. In `AdaptiveNode` the timer expires once it is set, the process runs
when it is woken, and a blocking request ends with an answer or a timeout.

## 4. What is proved

Each proof module extends the module it is about. Its theorems hold for every
value of the constants that satisfies the named `ASSUME`s there, and for the
further hypothesis in the theorem, if it has one. The argument is always an
inductive invariant: it holds of `Init`, one lemma or step per action shows that
`[Next]_vars` preserves it, and it implies the property. `PROJECT.json` lists the
theorems; all safety properties of the runs are among them, but for `Invertible` of
`Codec`.

**SecureSession_proofs** (`NoncesUnique`, `OpenedInOrder`, `NoLockout`, `TypeOK`,
`ChannelSpec`). The properties speak of records; `IInv` has to tie the records in
flight to the counters. It says that the two ends hold keys of the present pairing
or none, that no record carries a secret of a pairing not yet made, that every
record sealed under a live key has a number below the sealer's counter, and that
the receive window is exactly the number of the last record opened under its key.
Uniqueness of nonces is the third, order and the absence of lock-out the last. The
one assumption besides finite bounds is that the two ends are different.

That the sessions implement `OrderedChannel` needs more: the channel speaks of
messages, in one order over all pairings, and the replay window of numbers within
one. `ChannelInv` ties the two: a record carries a message its sender issued under
that header, records of a direction carry messages in the order of their pairing
and number, and what was opened was on the wire. `Seal` is then `Send`, `Open` is
`Receive`, and every other action a stutter (`ImplementsChannel`).

**HmmPolicy_proofs** has three parts. The policy (`HoldRespected`,
`CounterTracksRecovery`, `RecoveryOnlyAfterCongested`, `TypeOK`), for every bound on the
hold: `IInv` relates the counter to the history. In RECOVERY, `recovery_remaining` and
the observations since CONGESTED add up to the hold.

The learning (`LearnsPolicy`, `NanOnlyUnsmoothed`, `CongestionNoticed`, and through
`LearningFollowsPolicy` the two properties of the policy), for every prior whose rows
are not empty, every forgetting factor, unit and hold. `LearnInv` has three parts
besides the types and the policy's `IInv`. `CountsInv`: only moves of the prior or of
the policy are ever counted. `RowsAlive`: with a factor above one half no row loses its
last count, because then a single unit rounds up to itself; this is the case
distinction behind `NanOnlyUnsmoothed`, since the row of the selected state could
otherwise be divided by zero. `Attentive`: after one observation that only CONGESTED
explains it has a probability of ordinary size, after two it is selected. Without it
the property about insistent congestion says nothing of the belief in between, and is
not inductive.

The node (`SegmentsAgree`, `NoStaleSuccess`, `ObserverTruthful`,
`CautiousAfterCongestion`), for every set of representation lengths, every hold and any
number of faults. `NodeInv` is the conjunction of: the window is cut into `block_count`
blocks of the capacity and the loop stands at the start of one of them (`WindowInv`, by
division with remainder, `CutInto`); every answer counted moved the loop by one block
(`AnswersInv`); the request the process waits for is the one of the present block,
`sent` adds up, and no answer is left over (`LoopInv`); the block size is the one of the
state selected (`PolicyInv`), from which `CautiousAfterCongestion` follows with the
policy's invariant; and the averages are bounded and begin with the first answer
(`ObserverInv`). `NodeFollowsPolicy` shows that every step of the process is a step of
`HmmPolicy` or a stutter, so what is proved of the policy is the node's.

**HostMain_proofs** (`SegmentsAddUp`, `OkMeansComplete`, `CompletionsInOrder`,
`ExitsClean`), for every length, exponent and number of windows and failures, of every
caller of `adaptive_pipeline_process`. `PipelineInv`: the upload is cut as above
(`UploadCut`); the packets of a call are its blocks in order, sealed under rising
numbers (`PacketsInv`); the ends share a key (`SecurityInv`); the receiver's transfer
is never of a later window, and when of the present one holds its first blocks
(`TransferInv`); and once the window is completed every packet of the call is a replay
(`CompletionsInv`), which is why a repeated packet completes no window twice and why a
call that returned OK completed its own. `MainRunsPipeline` shows that `main` and the
program on the library use the pipeline as its specification allows; `ProgramInv`
then counts the completed windows against the steps of the loop and follows the
sessions to the exits.

**Telemetry_proofs**, for any number of blocks, windows, faults and reboots.
`DecodedInSequence`, `TypeOK`, and `DecodedWhole` if the node does not reboot, follow
from `IInv`, which follows a block from the node's counters to the buffer: a request
says truthfully in its header and token what its record holds; within one boot, a
window is cut in one way only; the buffer holds blocks 0 to `next_block - 1`, all
sent, all of the token's window. A buffer whose last block came without the More
flag therefore is complete and of one window id. That is all there is when the
node reboots as well as the server: the blocks may then come from two boots.

`ReplaysRejected`, `DecodedWhole`, `ConfirmedDecoded` and `ServiceSpec` are proved there
for a server that does not reboot; the node may. While the server keeps its replay
window, the records it accepts have rising sequence numbers. The node sends block
n > 0 of a window only after block n - 1 was answered with success, hence was
accepted, under the number just below. So when block n is accepted, nothing can
have been accepted in between, and the block before it in the buffer is of the
same boot and window: representations are never mixed (`TransferOne`, `Preceded`). The
same chain shows that when the last block is answered with success the
representation was decoded (`SuccessDecoded`; an accepted last block alone does not
mean it, since the scale may be `0.0f`). `OrderInv` is `IInv` with these parts. `ServiceInv` adds
that windows, and blocks within a window, rise with the sequence numbers, that the
node has sent no block past the present one, and that what was decoded ends with an
accepted block; with it a decoded upload is the service's `Deliver`, `NodeFinish` is
`Confirm` and every other action a stutter (`ImplementsService`).

`ConfirmedDecoded` holds as well when the server reboots and the node does not, for
another reason: nothing orders what the server accepts, but all blocks there are come
from one boot, so a last block that is answered with success completed a whole
representation (`SteadyIsWhole`, `SuccessOutcome`). `AnswerInv` keeps that an answer of success to a last
block means a decoded window. When both reboot the property is false (section 6).

**Config_proofs** (`AcceptedAsWritten`, `AcceptedUsable`, `TypeOK`), for any set of
states, any inputs, any `unsigned` of at least 16 bits and any wider word. The
invariant is that each field is the last number written for it, narrowed to the
field, and that no exponent above 255 was ever stored; that what was accepted passed
`adaptive_config_validate` (`AcceptedValid`) is a second one. From it `AcceptedServes`
derives the tests of the transform, the decoder and the quantizer, with
`PowersOfTwo`: whether 2^levels divides the window is a question about 2^n.

**CoapBlock_proofs** (`WithinBuffers`, `HeaderBound`, `RoundTrip`, `TruncationSeen`,
`PipelineFits`), for every block, path, capacity, cut and damage. First what the
encodings are: a number is read back from the bytes written for it wherever they
stand, and the first byte of an option is never the payload marker. `IInv` types the
variables and keeps builder and parser inside their buffers. `HeaderBound` needs only
that the parts of the associated data lie where they do whatever the block
(`AadParts`). `WireInv` follows a packet. While it is built there is a set of cuts in
the output, each with the option that leads to the next (`WrittenInv`); what arrives is
the output, or a prefix of it, or damaged in a byte and then as long as it
(`ArrivedInv`); and a parser of an undamaged packet stands on one of the cuts and knows
exactly the fields of the options before it (`ReadInv`). `RoundTrip` and
`TruncationSeen` are the two ways it can end: at the last cut, or short of it.
`RoomInv` counts the bytes of a packet of the pipeline: after k segments of b bytes at
most 8 + b + k + b/13, then 76, 81, 87 and 93 after each option. The sum over the
segments is `FlattenSeq`'s length, a recursion; what is needed of it is an induction
over the segments, made as a descent to the least counterexample (`Least`).

**Normalizer_proofs** (`ScoresInRange`, `ChangesVisible`), for all metrics, every
`baseline_alpha` between 0 and 1, every `baseline_epsilon` and any number of
observations. `BaselineInv` is the types, the variance's lower bound with them, and the
bound of the scores: with a positive epsilon the divisor is positive after every step.
`ChangesVisible` rests on what makes a change look small, `Excess`: the part of the
variance beyond epsilon, plus the square of the distance between the level and the
mean. One more observation of the level turns distance d and variance v into
(1 - alpha) d and (1 - alpha)(v + alpha d^2). The sum of what is left is
(1 - alpha)(v + d^2) in real numbers, because alpha + (1 - alpha) = 1; with
epsilon taken off, and with the roundings of the model, it is no more than that. So
the excess is at most `allowance`, which starts as the excess found when the level was
new and is multiplied by 1 - alpha each time: this is the inductive invariant
(`ForgetInv`, by `ExcessShrinks`). A change whose square is four times epsilon and twice the allowance then leaves a delta
whose square is at least variance plus epsilon, of the sign of the change
(`ChangeOutweighs`).

**Codec_proofs** (`SamplesGuarded`, `Recovered`), for every window of integers, every
threshold, width, number of levels and room, and all the damage modelled. About the
operators: the greatest magnitude is in the window (`GreatestOf`); the pairs number the
coefficients that are not zero, in order and without gap (`Numbered`, `PairsOf`); a
quantized value fits its width, so the two clamps of the encoder never take effect
(`QuantizedSize`); scaled back it is off by half a step and, for each of its steps, half
a unit of the scale's rounding (`ScaledBack`); and thresholding adds at most the
threshold (`ThresholdMoves`, `ValueOf`). About the states, `CodecInv`: what the encoder
returned OK for is the representation of its window; whatever arrives and passes both
header and checksum has the pairs and the scale that were sent and differs, if at all,
in its count or levels (`Delivered`, with one lemma for each kind of damage); while
the decoder runs, the pairs done are in their places and zeros in all others
(`Filled`); and at the end the result is the one these tests imply (`Ended`).
`SamplesGuarded` needs the second of these, since it is why a representation whose
count was not damaged is never refused half-way, and `Recovered` all of them.

Only model-checked:

* the liveness properties (`QuietWindowsDecoded`, `OutageEnds`, `RecoveryEnds`,
  `NextCallUnhindered`, `NeverSilent`), which are out of the prover's reach;
* `Invertible` of `Codec`: an induction over the levels of the transform, whose step is
  an exchange of two sums over the taps.

## 5. What is not modelled, and why

* Of the HMM: the Gaussian likelihoods, which are any, and the update of their means
  and variances. The closeness of floating-point results to exact ones is nowhere
  modelled; where rounding decides about control (counts and variances that
  vanish, a scale that becomes 0.0f, averages) it is modelled as rounding of integers.
* Of the codec: the noise estimate behind the threshold, which is any number;
  samples that are no numbers; the sampling factor, which is a choice of window.
* Of the observer: the round-trip time, which nothing tests, and the values the
  weak hooks return, except that they may be no numbers.
* Of the node: start-up failures, after which the process ends.
* Of the configuration: the text of numbers and names (a line that is not taken is
  any line), and what a program does with a configuration that was refused,
  because `main` exits.
* The text of the command line, generated signals, logging, the statistics a call
  fills in, `types.c` (lookup tables), build files, and the standalone text in
  `LWE-based Homomorphic Encryption`.
* Overflow of the 64-bit sequence number and of the 32-bit window id.

## 6. Finding

`README.md` 103-104 says that `adaptive-server` "authenticates every block,
rejects replayed records". The server keeps `rx_highest` in RAM and derives its
keys from the fixed seed at every boot (`adaptive-server.c` 148-151), so a record
accepted before a reboot, arriving again after it, is accepted a second time. The
run `telemetry_replay` shows it with one window of one block. While the server does
not reboot the property holds for every value of the other constants: it is the
theorem `AcceptedOnce`.

Five things the models make plain, which no document contradicts outright. When both
motes reboot, a block of the node's first boot can be accepted between two of its
second and be reassembled with them, so the node can count a window as uploaded that
was decoded from two; this takes a decoder that accepts the mixture, of which the
checksum covers the pair stream only (`DecodeResults`). Of the
content format the associated data holds only the low 16 of 32 bits (`aad.c` 32-33),
so `HeaderBound` promises no more of it, although `docs/ARCHITECTURE.md` 79-84 lists
it among the fields bound. The node's first observation is made before its first
request, from an observer that has measured nothing (`AdaptiveNode`, `Unobserved`). A path
"/" passes `config.c` 426 and then fails every call (`BuildFails`). And a window so
close to zero that its scale becomes `0.0f` is uploaded, every block of it authenticated,
and refused when it is complete (`DecodeResults`).

## 7. Plan

Done: the record layer and its sessions, reassembly, the deployed system, the host
pipeline with its callers, the node's process, policy and learning, the
configuration, the wire format, the codec with its transform, the normalizer; the
proofs of section 4.

Of the safety properties the runs check one is not a theorem: `Invertible` of `Codec`.
Orthonormality makes the forward transform a matrix with orthonormal rows; that the
inverse undoes it needs the columns, hence the exchange of two sums over the taps of
both filters, for every level.
