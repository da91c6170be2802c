------------------------------ MODULE CoapBlock ------------------------------
(***************************************************************************)
(* The CoAP packets of src/src/coap_block.c, byte for byte: a header is    *)
(* built into a buffer of limited size, one option at a time, the packet   *)
(* may be cut short or have one byte changed on its way, and what arrives  *)
(* is parsed, one option at a time.  A 32-bit number is its four bytes,    *)
(* most significant first; the widths are then those of the code.          *)
(***************************************************************************)
EXTENDS Integers, SequencesExt

CONSTANTS
  MaxCut,        \* bound: the longest packet that may be cut short
  Inputs,        \* bound: the calls made, records of a block, the URI path
                 \* between its slashes, and the size of the output buffer
  Damaged        \* bound: the calls whose packet may be damaged on the way

Byte == 0 .. 255
UINT16_MAX == 65535
Uint16 == 0 .. UINT16_MAX
Uint32 == [1 .. 4 -> Byte]

Blocks ==
  [type : 0 .. 3, code : Byte, message_id : Uint16, token : Seq(Byte), block_number : Nat,
   more : {0, 1}, szx : Byte, content_format : Uint32, size1 : Uint32, payload : Seq(Byte)]

ASSUME InputsAssumption ==
  Inputs \subseteq [block : Blocks, path : Seq(Seq(Byte)), capacity : Nat]
ASSUME CutAssumption == MaxCut \in Nat
ASSUME DamageAssumption == Damaged \subseteq Inputs

VARIABLES
  input,             \* what adaptive_coap_build_block1 was called with
  phase,             \* "build", "path", "options", "built", "parse", "parsing", "done"
  cursor,            \* what is left of the URI path
  pending,           \* the other options still to be appended
  output,            \* the bytes written so far
  previous_option,
  built,             \* what the builder returned
  packet,            \* what arrives at adaptive_coap_parse_block1
  offset,            \* the bytes of it consumed so far
  option_number,
  found_block1,
  parsed,            \* the caller's adaptive_coap_block_t
  result             \* what the parser returned

builder == <<input, cursor, pending, output, previous_option, built>>
parser == <<packet, offset, option_number, found_block1, parsed, result>>
vars == <<phase, builder, parser>>

Busy == "not returned"
UriPath == 11
ContentFormat == 12
Block1 == 27
Size1 == 60
MaxBlockNumber == 1048575     \* twenty bits
PayloadMarker == 255

\* sizeof the buffers the packets are built in.  Mutant: with 64 bytes for all
\* that is not payload.
ADAPTIVE_MAX_COAP_PACKET_TIGHT == 1088
ADAPTIVE_MAX_COAP_PACKET == 1152
ADAPTIVE_MAX_URI_PATH == 63

\* Bound: the code's is at least 2^32 - 1; only a packet of 100 kB gets near.
UINT_MAX == 2147483647

Zero == [i \in 1 .. 4 |-> 0]
NoBlock ==
  [type |-> 0, code |-> 0, message_id |-> 0, token |-> <<>>, block_number |-> 0,
   more |-> 0, szx |-> 0, content_format |-> Zero, size1 |-> Zero, payload |-> <<>>]

-----------------------------------------------------------------------------
\* Numbers.

\* The nibble and the extension bytes of an option's delta or length; a value
\* above 65804 has none.  Mutant: 269 still takes one byte, and wraps.
EncodeExtendedLate(value) ==
  IF value < 13 THEN [nibble |-> value, extension |-> <<>>]
  ELSE IF value < 270 THEN [nibble |-> 13, extension |-> <<(value - 13) % 256>>]
  ELSE [nibble |-> 14, extension |-> <<(value - 269) \div 256, (value - 269) % 256>>]
EncodeExtended(value) ==
  IF value < 13 THEN [nibble |-> value, extension |-> <<>>]
  ELSE IF value < 269 THEN [nibble |-> 13, extension |-> <<value - 13>>]
  ELSE [nibble |-> 14, extension |-> <<(value - 269) \div 256, (value - 269) % 256>>]

\* The value of a nibble with the extension found at "from" in a packet; the
\* nibble 15 is refused.
ExtensionLength(nibble) == IF nibble < 13 THEN 0 ELSE nibble - 12
DecodeExtended(nibble, bytes, from) ==
  IF nibble < 13 THEN nibble
  ELSE IF nibble = 13 THEN 13 + bytes[from]
  ELSE 269 + 256 * bytes[from] + bytes[from + 1]

\* A number is written without its leading zero bytes, zero as no byte.
UintLength(value) ==
  CHOOSE n \in 0 .. 4 : /\ \A i \in 1 .. 4 - n : value[i] = 0
                        /\ n > 0 => value[5 - n] # 0
EncodeUint(value) == SubSeq(value, 5 - UintLength(value), 4)

DecodeUint(bytes) == [i \in 1 .. 4 - Len(bytes) |-> 0] \o bytes

\* The Block1 option: 20 bits of block number, the More flag, three of SZX.
BlockValue(block) ==
  LET low == (block.block_number % 16) * 16 + block.more * 8 + block.szx
      high == block.block_number \div 16
  IN <<0, high \div 256, high % 256, low>>

\* 16 shifted left by the exponent, as a table, of which the provers know more
\* than of powers.
adaptive_coap_block_size(szx) ==
  IF szx > 6 THEN 0 ELSE <<16, 32, 64, 128, 256, 512, 1024>>[szx + 1]

-----------------------------------------------------------------------------
\* adaptive_coap_build_block1.

\* The options after the path in the order of their numbers, Size1 only when
\* it is known.
Option(number, value) == [number |-> number, value |-> value]
Options(block) ==
  <<Option(ContentFormat, EncodeUint(block.content_format)),
    Option(Block1, EncodeUint(BlockValue(block)))>>
  \o IF block.size1 = Zero THEN <<>> ELSE <<Option(Size1, EncodeUint(block.size1))>>

\* An option on the wire after the one numbered "previous".
Encodable(option) == Len(option.value) <= 65804
Encoded(previous, option) ==
  LET delta == EncodeExtended(option.number - previous)
      length == EncodeExtended(Len(option.value))
  IN <<16 * delta.nibble + length.nibble>> \o delta.extension \o length.extension \o option.value

Header(block) ==
  <<64 + 16 * (block.type % 4) + Len(block.token), block.code,
    block.message_id \div 256, block.message_id % 256>> \o block.token

ValidArguments ==
  /\ Len(input.block.token) <= 8
  /\ input.block.szx <= 6
  /\ input.block.block_number <= MaxBlockNumber
  /\ input.capacity >= 4 + Len(input.block.token)

BuildReturns(status) ==
  /\ phase' = "built"
  /\ built' = status
  /\ UNCHANGED <<input, cursor, pending, output, previous_option, parser>>

BuildRefused ==
  /\ phase = "build"
  /\ ~ValidArguments
  /\ BuildReturns("argument")

BuildHeader ==
  /\ phase = "build"
  /\ ValidArguments
  /\ output' = Header(input.block)
  /\ cursor' = input.path
  /\ phase' = "path"
  /\ UNCHANGED <<input, pending, previous_option, built, parser>>

Fits(option) ==
  Encodable(option) /\ Len(output) + Len(Encoded(previous_option, option)) <= input.capacity
append_option(option) ==
  /\ Fits(option)
  /\ output' = output \o Encoded(previous_option, option)
  /\ previous_option' = option.number
DoesNotFit(option) ==
  /\ ~Fits(option)
  /\ BuildReturns(IF Encodable(option) THEN "capacity" ELSE "range")

\* An empty segment is a slash that is skipped.
Segment == Option(UriPath, Head(cursor))
SkipSlash ==
  /\ phase = "path" /\ cursor # <<>> /\ Head(cursor) = <<>>
  /\ cursor' = Tail(cursor)
  /\ UNCHANGED <<phase, input, pending, output, previous_option, built, parser>>

AppendSegment ==
  /\ phase = "path" /\ cursor # <<>> /\ Head(cursor) # <<>>
  /\ append_option(Segment)
  /\ cursor' = Tail(cursor)
  /\ UNCHANGED <<phase, input, pending, built, parser>>

SegmentDoesNotFit ==
  /\ phase = "path" /\ cursor # <<>> /\ Head(cursor) # <<>>
  /\ DoesNotFit(Segment)

PathEnd ==
  /\ phase = "path" /\ cursor = <<>> /\ previous_option = UriPath
  /\ pending' = Options(input.block)
  /\ phase' = "options"
  /\ UNCHANGED <<input, cursor, output, previous_option, built, parser>>

\* A path of slashes only has no segment.
PathRefused ==
  /\ phase = "path" /\ cursor = <<>> /\ previous_option # UriPath
  /\ BuildReturns("format")

AppendOption ==
  /\ phase = "options" /\ pending # <<>>
  /\ append_option(Head(pending))
  /\ pending' = Tail(pending)
  /\ UNCHANGED <<phase, input, cursor, built, parser>>

OptionDoesNotFit ==
  /\ phase = "options" /\ pending # <<>>
  /\ DoesNotFit(Head(pending))

PayloadFits ==
  Len(output) < input.capacity /\ Len(input.block.payload) <= input.capacity - Len(output) - 1

AppendPayload ==
  /\ phase = "options" /\ pending = <<>>
  /\ input.block.payload = <<>> \/ PayloadFits
  /\ output' = IF input.block.payload = <<>> THEN output
               ELSE output \o <<PayloadMarker>> \o input.block.payload
  /\ phase' = "built"
  /\ built' = "ok"
  /\ UNCHANGED <<input, cursor, pending, previous_option, parser>>

PayloadDoesNotFit ==
  /\ phase = "options" /\ pending = <<>>
  /\ ~(input.block.payload = <<>> \/ PayloadFits)
  /\ BuildReturns("capacity")

-----------------------------------------------------------------------------
\* The way to the parser.

Arrives(bytes) ==
  /\ phase = "built"
  /\ built = "ok"
  /\ packet' = bytes
  /\ phase' = "parse"
  /\ UNCHANGED <<builder, offset, option_number, found_block1, parsed, result>>

Carry == Arrives(output)
Truncate ==
  /\ Len(output) <= MaxCut
  /\ \E length \in 0 .. Len(output) - 1 : Arrives(SubSeq(output, 1, length))
Damage ==
  /\ input \in Damaged
  /\ \E i \in DOMAIN output : \E byte \in Byte \ {output[i]} :
        Arrives([output EXCEPT ![i] = byte])

-----------------------------------------------------------------------------
\* adaptive_coap_parse_block1.

ParseReturns(status) ==
  /\ phase' = "done"
  /\ result' = status
  /\ UNCHANGED <<builder, packet, offset, option_number, found_block1>>

TokenLength == packet[1] % 16
HeaderComplete ==
  /\ Len(packet) >= 4 /\ packet[1] \div 64 = 1
  /\ TokenLength <= 8 /\ Len(packet) >= 4 + TokenLength

HeaderRefused ==
  /\ phase = "parse"
  /\ ~HeaderComplete
  /\ ParseReturns("format")
  /\ UNCHANGED parsed     \* no caller reads the block of a refused packet

ParseHeader ==
  /\ phase = "parse"
  /\ HeaderComplete
  /\ parsed' = [NoBlock EXCEPT !.type = (packet[1] \div 16) % 4, !.code = packet[2],
                               !.message_id = 256 * packet[3] + packet[4],
                               !.token = SubSeq(packet, 5, 4 + TokenLength)]
  /\ offset' = 4 + TokenLength
  /\ option_number' = 0
  /\ found_block1' = FALSE
  /\ phase' = "parsing"
  /\ UNCHANGED <<builder, packet, result>>

\* The option at "offset": its nibbles, what follows them and where it ends.
MoreOptions == offset < Len(packet) /\ packet[offset + 1] # PayloadMarker
DeltaNibble == packet[offset + 1] \div 16
LengthNibble == packet[offset + 1] % 16
ValueStart == offset + 1 + ExtensionLength(DeltaNibble) + ExtensionLength(LengthNibble)
OptionDelta == DecodeExtended(DeltaNibble, packet, offset + 2)
\* Mutant: a value cut short is read as far as it goes.
OptionLengthClamped ==
  LET length == DecodeExtended(LengthNibble, packet, offset + 2 + ExtensionLength(DeltaNibble))
  IN IF length <= Len(packet) - ValueStart THEN length ELSE Len(packet) - ValueStart
OptionLength ==
  DecodeExtended(LengthNibble, packet, offset + 2 + ExtensionLength(DeltaNibble))
OptionValue == [i \in 1 .. OptionLength |-> packet[ValueStart + i]]

\* Mutant: the value is not measured against what is left.
OptionCompleteAnyLength ==
  /\ DeltaNibble # 15 /\ LengthNibble # 15
  /\ ValueStart <= Len(packet)
  /\ option_number <= UINT_MAX - OptionDelta
OptionComplete ==
  /\ DeltaNibble # 15 /\ LengthNibble # 15
  /\ ValueStart <= Len(packet)
  /\ OptionLength <= Len(packet) - ValueStart
  /\ option_number <= UINT_MAX - OptionDelta

\* What an option stores in the caller's block; unknown options are skipped.
NumberOf(v) == 1048576 * v[1] + 4096 * v[2] + 16 * v[3] + v[4] \div 16
Stored(number) ==
  LET value == DecodeUint(OptionValue)
  IN IF number = ContentFormat THEN [parsed EXCEPT !.content_format = value]
     ELSE IF number = Block1 THEN [parsed EXCEPT !.szx = value[4] % 8,
                                                 !.more = (value[4] \div 8) % 2,
                                                 !.block_number = NumberOf(value)]
     ELSE IF number = Size1 THEN [parsed EXCEPT !.size1 = value]
     ELSE parsed
Storable(number) ==
  number \in {ContentFormat, Block1, Size1} =>
     /\ OptionLength <= 4
     /\ number = Block1 => DecodeUint(OptionValue)[4] % 8 <= 6

ParseOption ==
  /\ phase = "parsing" /\ MoreOptions
  /\ OptionComplete
  /\ Storable(option_number + OptionDelta)
  /\ option_number' = option_number + OptionDelta
  /\ parsed' = Stored(option_number')
  /\ found_block1' = (found_block1 \/ option_number' = Block1)
  /\ offset' = ValueStart + OptionLength
  /\ UNCHANGED <<phase, builder, packet, result>>

OptionRefused ==
  /\ phase = "parsing" /\ MoreOptions
  /\ ~(OptionComplete /\ Storable(option_number + OptionDelta))
  /\ ParseReturns("format")
  /\ UNCHANGED parsed

\* No Block1 option, or a payload marker with nothing behind it.
EndRefused ==
  /\ phase = "parsing" /\ ~MoreOptions
  /\ ~found_block1 \/ offset = Len(packet) - 1
  /\ ParseReturns("format")
  /\ UNCHANGED parsed

ParseEnd ==
  /\ phase = "parsing" /\ ~MoreOptions
  /\ found_block1 /\ offset # Len(packet) - 1
  /\ parsed' = [parsed EXCEPT !.payload = SubSeq(packet, offset + 2, Len(packet))]
  /\ ParseReturns("ok")

-----------------------------------------------------------------------------
\* adaptive_pipeline_build_aad: sixteen bytes of a header.

\* Mutant of TokenBytes: the last byte of a four-byte token is lost.
TokenBytesShort(token) == [i \in 1 .. 4 |-> IF i <= Len(token) /\ i < 4 THEN token[i] ELSE 0]
TokenBytes(token) == [i \in 1 .. 4 |-> IF i <= Len(token) THEN token[i] ELSE 0]
BuildAad(block) ==
  LET number == block.block_number
  IN <<161, block.type, block.code, block.szx, block.more, Len(block.token),
       number \div 16777216, (number \div 65536) % 256, (number \div 256) % 256, number % 256>>
     \o TokenBytes(block.token) \o SubSeq(block.content_format, 3, 4)

-----------------------------------------------------------------------------

Init ==
  /\ input \in Inputs
  /\ phase = "build"
  /\ cursor = <<>> /\ pending = <<>> /\ output = <<>> /\ previous_option = 0 /\ built = Busy
  /\ packet = <<>> /\ offset = 0 /\ option_number = 0 /\ found_block1 = FALSE
  /\ parsed = NoBlock /\ result = Busy

Build ==
  \/ BuildRefused \/ BuildHeader
  \/ SkipSlash \/ AppendSegment \/ SegmentDoesNotFit \/ PathEnd \/ PathRefused
  \/ AppendOption \/ OptionDoesNotFit \/ AppendPayload \/ PayloadDoesNotFit
Parse ==
  \/ HeaderRefused \/ ParseHeader \/ ParseOption
  \/ OptionRefused \/ EndRefused \/ ParseEnd
Next == Build \/ Carry \/ Truncate \/ Damage \/ Parse

Spec == Init /\ [][Next]_vars

-----------------------------------------------------------------------------
\* Properties.

\* Every variable keeps its type.
TypeOK ==
  /\ phase \in {"build", "path", "options", "built", "parse", "parsing", "done"}
  /\ parsed \in Blocks
  /\ built \in {Busy, "ok", "argument", "format", "range", "capacity"}
  /\ result \in {Busy, "ok", "format"}
  /\ previous_option \in {0, UriPath, ContentFormat, Block1, Size1}
  /\ option_number \in Nat /\ offset \in Nat /\ found_block1 \in BOOLEAN
  /\ parsed.szx <= 6 /\ Len(parsed.token) <= 8

\* The builder never writes past the capacity it was given, the parser never
\* consumes past the end of what arrived and fills every field within its
\* range, whatever arrived.
WithinBuffers ==
  /\ TypeOK
  /\ output # <<>> => Len(output) <= input.capacity
  /\ offset <= Len(packet)

Accepted == phase = "done" /\ result = "ok"

\* What the builder returned OK for is parsed as the same block, at every
\* boundary of the option and number encodings.
RoundTrip ==
  phase = "done" /\ packet = output => result = "ok" /\ parsed = input.block

\* A packet cut short is refused, or yields the header that was sent and less
\* payload: no field of it is guessed from what is missing.  Only Size1, the last
\* option and optional to the parser, may be read as absent
\* (adaptive_coap_parse_block1).
TruncationSeen ==
  Accepted /\ Len(packet) < Len(output) =>
     /\ parsed # input.block
     /\ \E payload \in Prefixes(input.block.payload), size1 \in {Zero, input.block.size1} :
           parsed = [input.block EXCEPT !.payload = payload, !.size1 = size1]

\* The buffers of adaptive_pipeline_process are large enough: with a path the
\* configuration can hold, a window's token and a record that fits its block,
\* no build fails for want of room.
PathLength(path) == Len(FlattenSeq(path)) + Len(path) - 1
FromPipeline ==
  /\ input.capacity = ADAPTIVE_MAX_COAP_PACKET
  /\ PathLength(input.path) <= ADAPTIVE_MAX_URI_PATH
  /\ Len(input.block.token) = 4
  /\ Len(input.block.payload) <= adaptive_coap_block_size(input.block.szx)
PipelineFits == FromPipeline => built \notin {"capacity", "range"}

\* Whatever changes on the way, a packet that the parser accepts with the
\* associated data of the block sent has the fields the receiver decides by,
\* and at least the low half of its content format.
HeaderBound ==
  Accepted /\ Len(input.block.token) = 4 /\ BuildAad(parsed) = BuildAad(input.block) =>
     /\ parsed.block_number = input.block.block_number
     /\ parsed.more = input.block.more
     /\ parsed.szx = input.block.szx
     /\ parsed.token = input.block.token
     /\ <<parsed.type, parsed.code>> = <<input.block.type, input.block.code>>
     /\ \A i \in {3, 4} : parsed.content_format[i] = input.block.content_format[i]

=============================================================================
