-------------------------------- MODULE Codec --------------------------------
(***************************************************************************)
(* The sparse representation of src/src/codec.c: a window of wavelet       *)
(* coefficients is thresholded, quantized and written as a header and a    *)
(* stream of (index, integer) pairs; the bytes may be damaged or cut short *)
(* before adaptive_codec_decode, pair by pair, fills the caller's samples. *)
(*                                                                         *)
(* A coefficient is an integer number of units, the unit being the         *)
(* smallest positive float: there the rounding of a double to a float is   *)
(* the rounding to an integer.  The transform computes in other numbers,   *)
(* those of Wavelet: so the windows encoded are coefficients, the decoded  *)
(* samples still are, and that the transform inverts is a property of its  *)
(* own.  The threshold comes from a gain, a median and a logarithm and is  *)
(* any number.                                                             *)
(***************************************************************************)
EXTENDS Wavelet, Sequences, FiniteSets

CONSTANTS
  Calls,         \* bound: the windows encoded, functions on 0 .. count - 1,
                 \* each with its levels, quant_bits, state, window_id,
                 \* threshold and the size of the output buffer
  SampleCapacities, \* bound: the room the decoder's caller offers
  MemorySize,    \* bound: the cells at the caller's samples that are watched
  MaxTransformed \* bound: the longest window whose transform is computed

CODEC_HEADER_BYTES == 28
ADAPTIVE_STATE_COUNT == 5
ADAPTIVE_MAX_REPRESENTATION == 64 + ADAPTIVE_MAX_WINDOW * 4

ASSUME CallsAssumption ==
  \A call \in Calls :
     /\ call.window \in [0 .. Cardinality(DOMAIN call.window) - 1 -> Int]
     /\ call.levels \in 1 .. 8 /\ call.quant_bits \in 2 .. 15
     /\ call.state \in 0 .. ADAPTIVE_STATE_COUNT - 1 /\ call.window_id \in Nat
     /\ call.threshold \in Int /\ call.capacity \in Nat
\* The law of exponents, which the provers do not know.
ASSUME PowersOfTwo == 2 ^ 0 = 1 /\ \A n \in 0 .. 14 : 2 ^ (n + 1) = 2 * 2 ^ n

ASSUME CapacitiesAssumption ==
  MemorySize \in Nat /\ MaxTransformed \in Nat /\ SampleCapacities \subseteq 0 .. MemorySize

VARIABLES
  settings,         \* the call of the encoder
  phase,            \* "encode", "written", "decode", "pairs" or "done"
  encoded,          \* what the encoder returned
  sent,             \* the representation it wrote
  wire,             \* the representation the decoder is given
  sample_capacity,
  samples,          \* the memory at the caller's samples, longer than promised
  next_pair,        \* the pairs decoded so far
  sample_count,
  result            \* what the decoder returned

encoder == <<settings, encoded, sent>>
coefficients == settings.window    \* after the forward transform
decoder == <<sample_capacity, samples, next_pair, sample_count, result>>
vars == <<phase, encoder, wire, decoder>>

Busy == "not returned"
Nothing == [length |-> 0]
Untouched == -1000000          \* what the memory held before
Memory == 0 .. MemorySize - 1
Unset == -1

Magnitude(x) == IF x < 0 THEN -x ELSE x

-----------------------------------------------------------------------------
\* adaptive_codec_encode.

\* Soft thresholding from coefficient "first" on; a negative threshold, which
\* a negative gain yields, does nothing.
SoftThresholded(window, first, threshold) ==
  [i \in DOMAIN window |->
     CASE i < first \/ threshold < 0 -> window[i]
       [] i >= first /\ threshold >= 0 /\ Magnitude(window[i]) <= threshold -> 0
       [] i >= first /\ threshold >= 0 /\ window[i] > threshold -> window[i] - threshold
       [] i >= first /\ threshold >= 0 /\ window[i] < -threshold -> window[i] + threshold]

Kept(window, s) ==
  SoftThresholded(window, Cardinality(DOMAIN window) \div 2 ^ s.levels, s.threshold)

Largest(window) == Max({Magnitude(window[i]) : i \in DOMAIN window})

MaximumInteger(bits) == 2 ^ (bits - 1) - 1

\* lround(value / (largest / maximum)): halves away from zero.
\* Mutant: the fraction is dropped.
QuantizedDown(value, largest, maximum) ==
  LET size == (Magnitude(value) * maximum) \div largest
  IN IF value < 0 THEN -size ELSE size
Quantized(value, largest, maximum) ==
  LET size == (2 * Magnitude(value) * maximum + largest) \div (2 * largest)
  IN IF value < 0 THEN -size ELSE size

\* (float)(largest / maximum), to the nearest unit; maximum is odd, so there
\* is no tie.  A window of zeros has scale 1.0, written as One.
One == 2 ^ 20
Scale(largest, maximum) ==
  IF largest = 0 THEN One ELSE (2 * largest + maximum) \div (2 * maximum)

\* A CRC over the pair stream tells any two streams apart that differ in one
\* pair, 32 adjacent bits.
Crc(pairs) == pairs

\* The pair of an index is written behind those of the smaller ones.
Pairs(window, bits) ==
  LET largest == Largest(window)
      maximum == MaximumInteger(bits)
      Value(i) == IF largest = 0 THEN 0 ELSE Quantized(window[i], largest, maximum)
      nonzero == {i \in DOMAIN window : Value(i) # 0}
      At(p) == CHOOSE i \in nonzero : Cardinality({j \in nonzero : j < i}) = p - 1
  IN [p \in 1 .. Cardinality(nonzero) |-> [index |-> At(p), quantized |-> Value(At(p))]]

Representation ==
  LET kept == Kept(coefficients, settings)
      pairs == Pairs(kept, settings.quant_bits)
  IN [levels |-> settings.levels, quant_bits |-> settings.quant_bits,
      state |-> settings.state, count |-> Cardinality(DOMAIN coefficients),
      nonzero |-> Len(pairs), window_id |-> settings.window_id,
      scale |-> Scale(Largest(kept), MaximumInteger(settings.quant_bits)),
      crc |-> Crc(pairs), pairs |-> pairs,
      length |-> CODEC_HEADER_BYTES + 4 * Len(pairs)]

Fits(representation) ==
  CODEC_HEADER_BYTES + representation.nonzero * 4 <= settings.capacity

Encode ==
  /\ phase = "encode"
  /\ LET count == Cardinality(DOMAIN coefficients)
         status == IF ~validate_transform(count, settings.levels) THEN "range"
                   ELSE IF Fits(Representation) THEN "ok" ELSE "capacity"
     IN /\ encoded' = status
        /\ sent' = IF status = "ok" THEN Representation ELSE Nothing
  /\ phase' = "written"
  /\ UNCHANGED <<settings, wire, decoder>>

-----------------------------------------------------------------------------
\* The way to the decoder.  The security layer refuses damaged blocks, but
\* blocks of two representations can meet in one reassembly.

Written == phase = "written" /\ encoded = "ok"
Arrives(representation) ==
  /\ wire' = representation
  /\ \E capacity \in SampleCapacities : sample_capacity' = capacity
  /\ phase' = "decode"
  /\ UNCHANGED <<encoder, samples, next_pair, sample_count, result>>

Carry == Written /\ Arrives(sent)

Cut ==
  /\ Written
  /\ \E length \in 0 .. sent.length - 1 :
        Arrives([sent EXCEPT !.length = length,
                   !.pairs = SubSeq(@, 1, (length - CODEC_HEADER_BYTES) \div 4)])

DamagePair ==
  /\ Written
  /\ \E p \in DOMAIN sent.pairs, index \in {0, 1, 15, 16, 19}, quantized \in {-1, 2} :
        /\ sent.pairs[p] # [index |-> index, quantized |-> quantized]
        /\ Arrives([sent EXCEPT !.pairs[p] = [index |-> index, quantized |-> quantized]])

DamageHeader ==
  /\ Written
  /\ \/ \E count \in {0, 8, 12, 16, 18, 257} \ {sent.count} :
           Arrives([sent EXCEPT !.count = count])
     \/ \E levels \in {0, 1, 2, 3, 64} \ {sent.levels} :
           Arrives([sent EXCEPT !.levels = levels])
     \/ \E nonzero \in {sent.nonzero - 1, sent.nonzero + 1} \cap Nat :
           Arrives([sent EXCEPT !.nonzero = nonzero])
     \/ \E bits \in {1, 16} : Arrives([sent EXCEPT !.quant_bits = bits])
     \/ Arrives([sent EXCEPT !.state = ADAPTIVE_STATE_COUNT])
     \/ Arrives([sent EXCEPT !.scale = 0])

-----------------------------------------------------------------------------
\* adaptive_codec_decode.

DecodeReturns(status) ==
  /\ phase' = "done"
  /\ result' = status
  /\ UNCHANGED <<encoder, wire, sample_capacity, next_pair>>

\* Mutant of HeaderAccepted: the caller's room is not looked at.
HeaderAcceptedAnyRoom ==
  /\ wire.length >= CODEC_HEADER_BYTES
  /\ wire.count \in 1 .. ADAPTIVE_MAX_WINDOW
  /\ wire.levels \in 1 .. 63 /\ wire.count \div 2 ^ (wire.levels - 1) >= 8
  /\ wire.quant_bits \in 2 .. 15 /\ wire.state < ADAPTIVE_STATE_COUNT
  /\ wire.scale > 0
  /\ CODEC_HEADER_BYTES + 4 * wire.nonzero = wire.length
HeaderAccepted ==
  /\ wire.length >= CODEC_HEADER_BYTES
  /\ wire.count \in 1 .. ADAPTIVE_MAX_WINDOW /\ wire.count <= sample_capacity
  /\ wire.levels \in 1 .. 63 /\ wire.count \div 2 ^ (wire.levels - 1) >= 8
  /\ wire.quant_bits \in 2 .. 15 /\ wire.state < ADAPTIVE_STATE_COUNT
  /\ wire.scale > 0
  /\ CODEC_HEADER_BYTES + 4 * wire.nonzero = wire.length

Intact == Crc(wire.pairs) = wire.crc

HeaderRefused ==
  /\ phase = "decode" /\ ~HeaderAccepted
  /\ DecodeReturns("format")
  /\ UNCHANGED <<samples, sample_count>>

CrcRefused ==
  /\ phase = "decode" /\ HeaderAccepted /\ ~Intact
  /\ DecodeReturns("integrity")
  /\ UNCHANGED <<samples, sample_count>>

Clear ==
  /\ phase = "decode" /\ HeaderAccepted /\ Intact
  /\ samples' = [i \in Memory |-> IF i < wire.count THEN 0 ELSE samples[i]]
  /\ phase' = "pairs"
  /\ UNCHANGED <<encoder, wire, sample_capacity, next_pair, sample_count, result>>

IndexAccepted(p) ==
  /\ wire.pairs[p].index < wire.count
  /\ p > 1 => wire.pairs[p].index > wire.pairs[p - 1].index

DecodePair ==
  /\ phase = "pairs" /\ next_pair < wire.nonzero
  /\ IndexAccepted(next_pair + 1)
  /\ LET pair == wire.pairs[next_pair + 1]
     IN samples' = [samples EXCEPT ![pair.index] = pair.quantized * wire.scale]
  /\ next_pair' = next_pair + 1
  /\ UNCHANGED <<phase, encoder, wire, sample_capacity, sample_count, result>>

PairRefused ==
  /\ phase = "pairs" /\ next_pair < wire.nonzero
  /\ ~IndexAccepted(next_pair + 1)
  /\ DecodeReturns("format")
  /\ UNCHANGED <<samples, sample_count>>

InverseRefused ==
  /\ phase = "pairs" /\ next_pair = wire.nonzero
  /\ ~validate_transform(wire.count, wire.levels)
  /\ DecodeReturns("range")
  /\ UNCHANGED <<samples, sample_count>>

DecodeEnd ==
  /\ phase = "pairs" /\ next_pair = wire.nonzero
  /\ validate_transform(wire.count, wire.levels)
  /\ sample_count' = wire.count
  /\ DecodeReturns("ok")
  /\ UNCHANGED samples

-----------------------------------------------------------------------------

Init ==
  /\ settings \in Calls
  /\ phase = "encode" /\ encoded = Busy
  /\ sent = Nothing /\ wire = Nothing
  /\ sample_capacity = 0
  /\ samples = [i \in Memory |-> Untouched]
  /\ next_pair = 0 /\ sample_count = Unset /\ result = Busy

Next ==
  \/ Encode
  \/ Carry \/ Cut \/ DamagePair \/ DamageHeader
  \/ HeaderRefused \/ CrcRefused \/ Clear
  \/ DecodePair \/ PairRefused \/ InverseRefused \/ DecodeEnd

Spec == Init /\ [][Next]_vars

-----------------------------------------------------------------------------
\* Properties.

\* Every variable keeps its type; quantized values fit the signed 16 bits and
\* the configured width they are written in.
TypeOK ==
  /\ phase \in {"encode", "written", "decode", "pairs", "done"}
  /\ encoded \in {Busy, "ok", "range", "capacity"}
  /\ encoded = "ok" =>
       \A p \in DOMAIN sent.pairs :
          /\ sent.pairs[p].index \in DOMAIN coefficients
          /\ Magnitude(sent.pairs[p].quantized) < 2 ^ (settings.quant_bits - 1)
  /\ sample_count \in Nat \cup {Unset} /\ next_pair \in Nat
  /\ result \in {Busy, "ok", "format", "integrity", "range"}

\* What the encoder returned OK for and arrives whole is decoded, each
\* coefficient to within half a step of the quantizer and the rounding of the
\* scale to a float, and within the threshold for details: averages are not
\* thresholded.  The exception is a window so close to zero that its scale
\* rounds to 0.0f, which the decoder refuses.
ScaleSurvives ==
  LET largest == Largest(Kept(coefficients, settings))
  IN largest = 0 \/ 2 * largest > MaximumInteger(settings.quant_bits)
Close(i) ==
  LET maximum == MaximumInteger(settings.quant_bits)
      allowed == IF i < wire.count \div 2 ^ settings.levels \/ settings.threshold < 0
                 THEN 0 ELSE settings.threshold
  IN 2 * maximum * Magnitude(samples[i] - coefficients[i])
       <= Largest(coefficients) + maximum * maximum + 2 * maximum * allowed
Recovered ==
  phase = "done" /\ wire = sent /\ sample_capacity >= sent.count =>
     IF ScaleSurvives
     THEN result = "ok" /\ \A i \in DOMAIN coefficients : Close(i)
     ELSE result = "format"

\* The inverse transform restores the samples, for every count and number of
\* levels that is accepted and not only the powers of two they are meant to be
\* (docs/ARCHITECTURE.md:56-57).  The transform is linear, so it is enough to
\* follow the samples that are 1 in one place and 0 elsewhere.
Invertible ==
  LET count == Cardinality(DOMAIN coefficients)
      Unit(place) == [i \in DOMAIN coefficients |-> IF i = place THEN 1 ELSE 0]
  IN phase = "encode" /\ count <= MaxTransformed /\ validate_transform(count, settings.levels) =>
       \A place \in DOMAIN coefficients :
          adaptive_db4_inverse(adaptive_db4_forward(Unit(place), settings.levels), settings.levels)
            = Unit(place)

\* The decoder writes only where its caller has room, whatever it is given.
WritesInside ==
  \A i \in Memory : i >= sample_capacity => samples[i] = Untouched

\* What the encoder wrote is refused before the caller's samples are touched,
\* if at all: only a damaged count or number of levels gets further.
RefusedBeforeWriting ==
  phase = "done" /\ result # "ok" /\ wire.count = sent.count /\ wire.levels = sent.levels =>
     \A i \in Memory : samples[i] = Untouched

\* The caller's memory is safe from whatever arrives.
SamplesGuarded == TypeOK /\ WritesInside /\ RefusedBeforeWriting

=============================================================================
