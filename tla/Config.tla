-------------------------------- MODULE Config --------------------------------
(***************************************************************************)
(* adaptive_config_load: the lines of a file are applied one after another *)
(* to the configuration the caller passes in, and the result is validated  *)
(* when the file ends.  A number keeps the width of the field it is stored *)
(* in.  Probabilities are integers, in hundredths.  The fields about which *)
(* only a range is asked are one key, Rest, which is 1 while all of them   *)
(* are in range.                                                           *)
(***************************************************************************)
EXTENDS Integers, Functions

CONSTANTS
  States,          \* the operating states modelled, a subset of the five
  WordBits,        \* bits of size_t and unsigned long
  UnsignedRange,   \* 2^w for an unsigned of w bits
  Inputs,          \* the numbers a file may give to each kind of key
  MaxLines         \* bound: lines of a file

ASSUME ConfigAssumption ==
  /\ States \subseteq {"GOOD", "NORMAL", "DEGRADED", "CONGESTED", "RECOVERY"}
  /\ WordBits \in Nat /\ WordBits >= 16
  /\ UnsignedRange \in Nat /\ UnsignedRange >= 65536
  /\ MaxLines \in Nat

\* The law of exponents, true of every WordBits: the provers know of 2 ^ n only
\* that it is an integer.
ASSUME PowersOfTwo ==
  /\ 2 ^ 0 = 1 /\ 2 ^ 1 = 2
  /\ \A m \in 0 .. WordBits : 2 ^ m >= 1
  /\ \A m, n \in 0 .. WordBits : m + n <= WordBits => 2 ^ (m + n) = 2 ^ m * 2 ^ n

VARIABLES
  config,          \* adaptive_config_t, as a function of the keys
  lines,           \* lines read
  status,          \* of the call: "reading", "accepted" or "refused"
  written          \* history: the number last given for each key

vars == <<config, lines, status, written>>

Window == <<"wavelet.window_size">>
Levels == <<"wavelet.levels">>
Bits(s) == <<"policy.quant_bits", s>>
Exponent(s) == <<"policy.block_szx", s>>
Initial(s) == <<"hmm.initial", s>>
Transition(r, c) == <<"hmm.transition", r, c>>
Rest == <<"rest">>

UnsignedKeys == {Levels} \cup {Bits(s) : s \in States}
Exponents == {Exponent(s) : s \in States}
Masses == {Initial(s) : s \in States} \cup {Transition(r, c) : r, c \in States}
Keys == {Window, Rest} \cup UnsignedKeys \cup Exponents \cup Masses

Given(key) == Inputs[key[1]]
ASSUME InputAssumption ==
  \A key \in Keys : Given(key) \subseteq (IF key \in Masses THEN Int ELSE Nat)

\* What adaptive_config_defaults leaves in the modelled fields.
DefaultBits == [GOOD |-> 14, NORMAL |-> 12, DEGRADED |-> 10, CONGESTED |-> 8, RECOVERY |-> 10]
DefaultExponent == [GOOD |-> 2, NORMAL |-> 2, DEGRADED |-> 1, CONGESTED |-> 1, RECOVERY |-> 1]
DefaultTransition ==
  [GOOD      |-> [GOOD |-> 75, NORMAL |-> 20, DEGRADED |-> 4, CONGESTED |-> 1, RECOVERY |-> 0],
   NORMAL    |-> [GOOD |-> 10, NORMAL |-> 70, DEGRADED |-> 16, CONGESTED |-> 4, RECOVERY |-> 0],
   DEGRADED  |-> [GOOD |-> 2, NORMAL |-> 12, DEGRADED |-> 60, CONGESTED |-> 26, RECOVERY |-> 0],
   CONGESTED |-> [GOOD |-> 0, NORMAL |-> 0, DEGRADED |-> 2, CONGESTED |-> 76, RECOVERY |-> 22],
   RECOVERY  |-> [GOOD |-> 4, NORMAL |-> 36, DEGRADED |-> 20, CONGESTED |-> 5, RECOVERY |-> 35]]
Defaults ==
  [key \in Keys |->
     CASE key = Window -> 128
       [] key = Levels -> 3
       [] key = Rest -> 1
       [] key[1] = "policy.quant_bits" -> DefaultBits[key[2]]
       [] key[1] = "policy.block_szx" -> DefaultExponent[key[2]]
       [] key[1] = "hmm.initial" -> IF key[2] = "NORMAL" THEN 100 ELSE 0
       [] key[1] = "hmm.transition" -> DefaultTransition[key[2]][key[3]]]

-----------------------------------------------------------------------------
\* apply_key: what it takes, and what the field then holds.

\* Mutant of Applies: the range of a uint8_t is not tested.
AppliesAny(key, value) == TRUE
Applies(key, value) == key \in Exponents => value <= 255

Stored(key, value) ==
  CASE key \in UnsignedKeys -> value % UnsignedRange
    [] key \in Exponents -> value % 256
    [] OTHER -> value

-----------------------------------------------------------------------------
\* adaptive_config_validate.

Total(c, keys) == FoldFunctionOnSet(+, 0, c, keys)
Row(r) == {Transition(r, s) : s \in States}

is_power_of_two(value) == \E bit \in 0 .. WordBits - 1 : value = 2 ^ bit
ShiftRight(value, by) == value \div 2 ^ by

MaxWindow == 256            \* ADAPTIVE_MAX_WINDOW
MaxRepresentation == 64 + 4 * MaxWindow

\* Mutant of ValidWindow: the window need not be a power of two.
ValidWindowAnySize(c) ==
  /\ c[Window] <= MaxWindow
  /\ c[Levels] # 0 /\ c[Levels] < WordBits
  /\ ShiftRight(c[Window], c[Levels] - 1) >= 8
ValidWindow(c) ==
  /\ is_power_of_two(c[Window])
  /\ c[Window] <= MaxWindow
  /\ c[Levels] # 0 /\ c[Levels] < WordBits
  /\ ShiftRight(c[Window], c[Levels] - 1) >= 8

ValidPolicy(c, s) ==
  /\ c[Bits(s)] >= 2 /\ c[Bits(s)] <= 15
  /\ c[Exponent(s)] <= 6
  /\ \A key \in Row(s) : c[key] >= 0
  /\ Total(c, Row(s)) > 0

Valid(c) ==
  /\ c[Rest] = 1
  /\ ValidWindow(c)
  /\ \A s \in States : ValidPolicy(c, s)
  /\ Total(c, {Initial(s) : s \in States}) > 0

-----------------------------------------------------------------------------
\* adaptive_config_load.  A line is what fgets returns.

Init ==
  /\ config = Defaults
  /\ lines = 0
  /\ status = "reading"
  /\ written = Defaults

ReadLine == status = "reading" /\ lines < MaxLines /\ lines' = lines + 1

\* An empty line, or a comment.
SkipLine == ReadLine /\ UNCHANGED <<config, status, written>>

ApplyLine ==
  /\ ReadLine
  /\ \E key \in Keys : \E value \in Given(key) :
       /\ Applies(key, value)
       /\ config' = [config EXCEPT ![key] = Stored(key, value)]
       /\ written' = [written EXCEPT ![key] = value]
  /\ UNCHANGED status

\* No key=value, an unknown key, a value that is not a number or out of the
\* range of its field: the lines before it stay applied.
RefuseLine ==
  /\ ReadLine
  /\ status' = "refused"
  /\ UNCHANGED <<config, written>>

\* The file cannot be opened, or read further.
ReadFails ==
  /\ status = "reading"
  /\ status' = "refused"
  /\ UNCHANGED <<config, lines, written>>

EndOfFile ==
  /\ status = "reading"
  /\ status' = IF Valid(config) THEN "accepted" ELSE "refused"
  /\ UNCHANGED <<config, lines, written>>

Next == SkipLine \/ ApplyLine \/ RefuseLine \/ ReadFails \/ EndOfFile

Spec == Init /\ [][Next]_vars

-----------------------------------------------------------------------------
\* What the users of an accepted configuration need of it.

\* validate_transform, for the buffers adaptive_codec_encode and _decode pass.
TransformAccepts(count, levels) ==
  /\ count >= 8 /\ count <= MaxWindow
  /\ levels # 0 /\ levels < WordBits
  /\ ShiftRight(count, levels - 1) >= 8
  /\ count % 2 ^ levels = 0 /\ count \div 2 ^ levels >= 1

\* The largest representation of a window: header and one pair a coefficient.
LargestRepresentation(count) == 28 + 4 * count

\* maximum_integer: the scale divides by it, and an int16_t must hold it.
MaximumInteger(bits) == 2 ^ (bits - 1) - 1

\* The header bytes adaptive_codec_encode writes, as adaptive_codec_decode
\* reads them back.
HeaderAccepted(count, levels, bits) ==
  /\ levels % 256 = levels /\ bits % 256 = bits
  /\ count > 0 /\ count <= MaxWindow
  /\ levels # 0 /\ levels < WordBits
  /\ ShiftRight(count, levels - 1) >= 8
  /\ bits >= 2 /\ bits <= 15

-----------------------------------------------------------------------------
\* Every field holds a number of its width, after every line.
TypeOK ==
  /\ DOMAIN config = Keys /\ DOMAIN written = Keys
  /\ \A key \in Keys :
       /\ config[key] \in Int /\ written[key] \in Int
       /\ key \in UnsignedKeys => config[key] \in 0 .. UnsignedRange - 1
       /\ key \in Exponents => config[key] \in 0 .. 255
  /\ lines \in 0 .. MaxLines
  /\ status \in {"reading", "accepted", "refused"}

\* A configuration that adaptive_config_load accepts passes the tests later
\* calls make of it: the wavelet transform takes its window and levels, a
\* representation fits the receiver's buffer, the decoder takes the header of
\* every state, the quantizer's scale is defined and adaptive_hmm_init divides
\* every transition row, and normalizes the initial belief, by a positive sum.
\* (Whether a sealed record fits the blocks of an exponent is not validated.)
AcceptedUsable ==
  status = "accepted" =>
    /\ TransformAccepts(config[Window], config[Levels])
    /\ LargestRepresentation(config[Window]) <= MaxRepresentation
    /\ Total(config, {Initial(s) : s \in States}) > 0
    /\ \A s \in States :
         /\ HeaderAccepted(config[Window], config[Levels], config[Bits(s)])
         /\ MaximumInteger(config[Bits(s)]) >= 1
         /\ MaximumInteger(config[Bits(s)]) <= 32767
         /\ config[Exponent(s)] \in 0 .. 6
         /\ Total(config, Row(s)) > 0

\* What is accepted is what the file says: the last number given for a key is
\* the one in force, and narrowing changes only a number no unsigned can hold.
AcceptedAsWritten ==
  status = "accepted" =>
    \A key \in Keys :
      \/ config[key] = written[key]
      \/ key \in UnsignedKeys /\ written[key] >= UnsignedRange
=============================================================================
