----------------------------- MODULE Config_proofs -----------------------------
(***************************************************************************)
(* What adaptive_config_load leaves in the configuration, for any file,    *)
(* any set of states and any width of an unsigned.                         *)
(***************************************************************************)
EXTENDS Config, TLAPS

\* Every field is the number last written for it, narrowed to the field, and a
\* block size exponent was not narrowed at all.
IInv ==
  /\ TypeOK
  /\ \A key \in Keys :
       /\ config[key] = Stored(key, written[key])
       /\ key \notin Masses => written[key] \in Nat
       /\ key \in Exponents => written[key] <= 255

-----------------------------------------------------------------------------
\* The kinds of keys do not overlap.
LEMMA KeysDiffer ==
  ASSUME NEW key \in Keys
  PROVE  /\ key \in UnsignedKeys => key \notin Exponents /\ key \notin Masses
         /\ key \in Exponents => key \notin Masses
BY DEF UnsignedKeys, Exponents, Masses, Levels, Bits, Exponent, Initial, Transition

LEMMA DefaultNumbers ==
  ASSUME NEW s \in States
  PROVE  /\ DefaultBits[s] \in 8 .. 14
         /\ DefaultExponent[s] \in 1 .. 2
         /\ \A c \in States : DefaultTransition[s][c] \in 0 .. 76
<1>1. s \in {"GOOD", "NORMAL", "DEGRADED", "CONGESTED", "RECOVERY"}
  BY ConfigAssumption
<1>2. DefaultBits[s] \in 8 .. 14
  BY <1>1 DEF DefaultBits
<1>3. DefaultExponent[s] \in 1 .. 2
  BY <1>1 DEF DefaultExponent
<1>4. ASSUME NEW c \in States PROVE DefaultTransition[s][c] \in 0 .. 76
  <2>1. c \in {"GOOD", "NORMAL", "DEGRADED", "CONGESTED", "RECOVERY"}
    BY ConfigAssumption
  <2>2. CASE s = "GOOD"
    BY <2>1, <2>2 DEF DefaultTransition
  <2>3. CASE s = "NORMAL"
    BY <2>1, <2>3 DEF DefaultTransition
  <2>4. CASE s = "DEGRADED"
    BY <2>1, <2>4 DEF DefaultTransition
  <2>5. CASE s = "CONGESTED"
    BY <2>1, <2>5 DEF DefaultTransition
  <2>6. CASE s = "RECOVERY"
    BY <2>1, <2>6 DEF DefaultTransition
  <2> QED BY <1>1, <2>2, <2>3, <2>4, <2>5, <2>6
<1> QED BY <1>2, <1>3, <1>4

\* The defaults fit their fields.
LEMMA DefaultsFit ==
  ASSUME NEW key \in Keys
  PROVE  /\ Defaults[key] \in Nat
         /\ key \notin Masses => Defaults[key] <= 255
<1>1. key = Window => Defaults[key] = 128
  BY DEF Defaults, Window, Levels, Rest
<1>2. key = Levels => Defaults[key] = 3
  BY DEF Defaults, Window, Levels, Rest
<1>3. key = Rest => Defaults[key] = 1
  BY DEF Defaults, Window, Levels, Rest
<1>4. ASSUME NEW s \in States, key = Bits(s)
      PROVE  Defaults[key] = DefaultBits[s]
  BY <1>4 DEF Defaults, Window, Levels, Rest, Bits
<1>5. ASSUME NEW s \in States, key = Exponent(s)
      PROVE  Defaults[key] = DefaultExponent[s]
  BY <1>5 DEF Defaults, Window, Levels, Rest, Exponent
<1>6. ASSUME NEW s \in States, key = Initial(s)
      PROVE  Defaults[key] \in {0, 100}
  BY <1>6 DEF Defaults, Window, Levels, Rest, Initial
<1>7. ASSUME NEW r \in States, NEW c \in States, key = Transition(r, c)
      PROVE  Defaults[key] = DefaultTransition[r][c]
  BY <1>7 DEF Defaults, Window, Levels, Rest, Transition
<1>8. CASE key \in {Bits(s) : s \in States} \cup Exponents
  BY <1>4, <1>5, <1>8, DefaultNumbers DEF Exponents
<1>9. CASE key \in Masses
  BY <1>6, <1>7, <1>9, DefaultNumbers DEF Masses
<1> QED BY <1>1, <1>2, <1>8, <1>9, <1>3 DEF Keys, UnsignedKeys

\* What a field holds has its width; a number the field can hold is kept.
LEMMA StoredFits ==
  ASSUME NEW key \in Keys, NEW value \in Int, key \notin Masses => value \in Nat
  PROVE  /\ Stored(key, value) \in Int
         /\ key \in UnsignedKeys => Stored(key, value) \in 0 .. UnsignedRange - 1
         /\ key \in Exponents => Stored(key, value) \in 0 .. 255
         /\ key \in UnsignedKeys /\ value < UnsignedRange => Stored(key, value) = value
         /\ key \in Exponents /\ value <= 255 => Stored(key, value) = value
         /\ key \notin UnsignedKeys \cup Exponents => Stored(key, value) = value
<1>1. CASE key \in UnsignedKeys
  <2>1. Stored(key, value) = value % UnsignedRange /\ key \notin Exponents /\ value \in Nat
    BY <1>1, KeysDiffer DEF Stored
  <2> QED BY <1>1, <2>1, ConfigAssumption
<1>2. CASE key \in Exponents
  <2>1. Stored(key, value) = value % 256 /\ key \notin UnsignedKeys /\ value \in Nat
    BY <1>2, KeysDiffer DEF Stored
  <2> QED BY <1>2, <2>1
<1>3. CASE key \notin UnsignedKeys \cup Exponents
  BY <1>3 DEF Stored
<1> QED BY <1>1, <1>2, <1>3

-----------------------------------------------------------------------------
LEMMA InitIInv == Init => IInv
<1> SUFFICES ASSUME Init PROVE IInv
  OBVIOUS
<1>1. ASSUME NEW key \in Keys
      PROVE  /\ config[key] \in Nat /\ written[key] = config[key]
             /\ key \notin Masses => config[key] <= 255
  BY DefaultsFit DEF Init
<1>2. DOMAIN config = Keys /\ DOMAIN written = Keys
  BY DEF Init, Defaults
<1>3. ASSUME NEW key \in Keys
      PROVE  config[key] = Stored(key, written[key])
  <2>1. CASE key \in UnsignedKeys
    BY <1>1, <2>1, StoredFits, KeysDiffer, ConfigAssumption
  <2>2. CASE key \in Exponents
    BY <1>1, <2>2, StoredFits, KeysDiffer
  <2>3. CASE key \notin UnsignedKeys \cup Exponents
    BY <1>1, <2>3, StoredFits
  <2> QED BY <2>1, <2>2, <2>3
<1>4. ASSUME NEW key \in Keys
      PROVE  /\ config[key] \in Int /\ written[key] \in Int
             /\ key \in UnsignedKeys => config[key] \in 0 .. UnsignedRange - 1
             /\ key \in Exponents => config[key] \in 0 .. 255
             /\ key \notin Masses => written[key] \in Nat
             /\ key \in Exponents => written[key] <= 255
  <2>1. key \in UnsignedKeys \cup Exponents => config[key] <= 255
    BY <1>1, KeysDiffer
  <2> QED BY <1>1, <2>1, ConfigAssumption
<1>5. lines \in 0 .. MaxLines /\ status \in {"reading", "accepted", "refused"}
  BY ConfigAssumption DEF Init
<1> QED BY <1>2, <1>3, <1>4, <1>5 DEF IInv, TypeOK

LEMMA ApplyLineIInv ==
  ASSUME IInv, ApplyLine
  PROVE  IInv'
<1>0. PICK key \in Keys : \E value \in Given(key) :
        /\ Applies(key, value)
        /\ config' = [config EXCEPT ![key] = Stored(key, value)]
        /\ written' = [written EXCEPT ![key] = value]
  BY DEF ApplyLine
<1>1. PICK value \in Given(key) :
        /\ Applies(key, value)
        /\ config' = [config EXCEPT ![key] = Stored(key, value)]
        /\ written' = [written EXCEPT ![key] = value]
  BY <1>0
<1>2. value \in Int /\ (key \notin Masses => value \in Nat)
  BY InputAssumption
<1>3. ASSUME NEW k \in Keys
      PROVE  /\ config'[k] = IF k = key THEN Stored(key, value) ELSE config[k]
             /\ written'[k] = IF k = key THEN value ELSE written[k]
  BY <1>1 DEF IInv, TypeOK
<1>4. key \in Exponents => value <= 255
  BY <1>1 DEF Applies
<1>5. ASSUME NEW k \in Keys
      PROVE  /\ config'[k] \in Int /\ written'[k] \in Int
             /\ k \in UnsignedKeys => config'[k] \in 0 .. UnsignedRange - 1
             /\ k \in Exponents => config'[k] \in 0 .. 255
             /\ config'[k] = Stored(k, written'[k])
             /\ k \notin Masses => written'[k] \in Nat
             /\ k \in Exponents => written'[k] <= 255
  <2>1. CASE k = key
    BY <1>2, <1>3, <1>4, <2>1, StoredFits
  <2>2. CASE k # key
    BY <1>3, <2>2 DEF IInv, TypeOK
  <2> QED BY <2>1, <2>2
<1>6. DOMAIN config' = Keys /\ DOMAIN written' = Keys
  BY <1>1 DEF IInv, TypeOK
<1>7. lines' \in 0 .. MaxLines /\ status' \in {"reading", "accepted", "refused"}
  BY ConfigAssumption DEF ApplyLine, ReadLine, IInv, TypeOK
<1>8. (\A k \in Keys : config[k] = Stored(k, written[k]))'
  BY <1>5 DEF Stored
<1> QED BY <1>5, <1>6, <1>7, <1>8 DEF IInv, TypeOK

LEMMA NextIInv == IInv /\ [Next]_vars => IInv'
<1> SUFFICES ASSUME IInv, [Next]_vars PROVE IInv'
  OBVIOUS
<1>1. CASE ApplyLine
  BY <1>1, ApplyLineIInv
<1>2. CASE UNCHANGED <<config, written>> /\ lines' \in 0 .. MaxLines
             /\ status' \in {"reading", "accepted", "refused"}
  BY <1>2 DEF IInv, TypeOK, Stored
<1>3. CASE SkipLine \/ RefuseLine
  BY <1>2, <1>3, ConfigAssumption DEF SkipLine, RefuseLine, ReadLine, IInv, TypeOK
<1>4. CASE ReadFails \/ EndOfFile \/ UNCHANGED vars
  BY <1>2, <1>4 DEF ReadFails, EndOfFile, vars, IInv, TypeOK
<1> QED BY <1>1, <1>3, <1>4 DEF Next

LEMMA SpecIInv == Spec => []IInv
  BY InitIInv, NextIInv, PTL DEF Spec

-----------------------------------------------------------------------------
\* Every field keeps its width: what parse_unsigned returns, a word, never
\* reaches an unsigned or a uint8_t whole.
THEOREM TypeCorrect == Spec => []TypeOK
<1>1. IInv => TypeOK
  BY DEF IInv
<1> QED BY <1>1, SpecIInv, PTL

\* An accepted configuration is the last number given for every key, except
\* that adaptive_config_load narrows a number no unsigned can hold.
THEOREM AsWritten == Spec => []AcceptedAsWritten
<1>1. IInv => AcceptedAsWritten
  <2> SUFFICES ASSUME IInv, NEW key \in Keys
               PROVE  \/ config[key] = written[key]
                      \/ key \in UnsignedKeys /\ written[key] >= UnsignedRange
    BY DEF AcceptedAsWritten
  <2>1. /\ config[key] = Stored(key, written[key]) /\ written[key] \in Int
        /\ key \notin Masses => written[key] \in Nat
        /\ key \in Exponents => written[key] <= 255
    BY DEF IInv, TypeOK
  <2> QED BY <2>1, StoredFits, ConfigAssumption
<1> QED BY <1>1, SpecIInv, PTL

-----------------------------------------------------------------------------
\* What the tests of adaptive_config_validate amount to.

LEMMA SmallPowers ==
  /\ 2 ^ 0 = 1 /\ 2 ^ 1 = 2 /\ 2 ^ 2 = 4 /\ 2 ^ 3 = 8 /\ 2 ^ 4 = 16 /\ 2 ^ 5 = 32
  /\ 2 ^ 6 = 64 /\ 2 ^ 7 = 128 /\ 2 ^ 8 = 256 /\ 2 ^ 9 = 512 /\ 2 ^ 10 = 1024
  /\ 2 ^ 11 = 2048 /\ 2 ^ 12 = 4096 /\ 2 ^ 13 = 8192 /\ 2 ^ 14 = 16384
<1>1. ASSUME NEW n \in 0 .. 14, NEW m \in 0 .. 14, m + n <= 14
      PROVE  2 ^ (m + n) = 2 ^ m * 2 ^ n
  BY <1>1, PowersOfTwo, ConfigAssumption
<1>2. 2 ^ 0 = 1 /\ 2 ^ 1 = 2
  BY PowersOfTwo
<1>3. 2 ^ (1 + 1) = 4
  BY <1>1, <1>2
<1>4. 2 ^ 2 = 4
  BY <1>3
<1>5. 2 ^ (2 + 1) = 8 /\ 2 ^ (2 + 2) = 16
  BY <1>1, <1>2, <1>4
<1>6. 2 ^ 3 = 8 /\ 2 ^ 4 = 16
  BY <1>5
<1>7. 2 ^ (4 + 1) = 32 /\ 2 ^ (4 + 2) = 64 /\ 2 ^ (4 + 3) = 128 /\ 2 ^ (4 + 4) = 256
  BY <1>1, <1>2, <1>4, <1>6
<1>8. 2 ^ 5 = 32 /\ 2 ^ 6 = 64 /\ 2 ^ 7 = 128 /\ 2 ^ 8 = 256
  BY <1>7
<1>9. /\ 2 ^ (8 + 1) = 512 /\ 2 ^ (8 + 2) = 1024 /\ 2 ^ (8 + 3) = 2048
      /\ 2 ^ (8 + 4) = 4096 /\ 2 ^ (8 + 5) = 8192 /\ 2 ^ (8 + 6) = 16384
  BY <1>1, <1>2, <1>4, <1>6, <1>8
<1> QED BY <1>2, <1>4, <1>6, <1>8, <1>9

\* Past 2 ^ k a power of two is no smaller.
LEMMA LaterPowers ==
  ASSUME NEW k \in 0 .. WordBits, NEW n \in 0 .. WordBits, k <= n
  PROVE  2 ^ k <= 2 ^ n
<1> DEFINE d == n - k
<1>1. d \in 0 .. WordBits /\ k + d = n
  BY ConfigAssumption
<1> HIDE DEF d
<1>2. 2 ^ n = 2 ^ k * 2 ^ d /\ 2 ^ d >= 1 /\ 2 ^ k >= 1
  BY <1>1, PowersOfTwo
<1>3. 2 ^ n \in Int /\ 2 ^ k \in Int /\ 2 ^ d \in Int
  BY <1>1, ConfigAssumption
<1> DEFINE a == 2 ^ k
           b == 2 ^ d
<1> HIDE DEF a, b
<1>4. a \in Int /\ b \in Int /\ a >= 1 /\ b >= 1 => a <= a * b
  OBVIOUS
<1> QED BY <1>2, <1>3, <1>4 DEF a, b

\* A valid window is one of six, and the levels are at most what it allows.
LEMMA WindowFacts ==
  ASSUME NEW c, c[Levels] \in Nat, ValidWindow(c)
  PROVE  /\ c[Levels] \in 1 .. 6
         /\ TransformAccepts(c[Window], c[Levels])
<1> DEFINE w == c[Window]
           l == c[Levels]
<1>1. PICK bit \in 0 .. WordBits - 1 : w = 2 ^ bit
  BY DEF ValidWindow, is_power_of_two
<1>2. /\ w <= 256 /\ l # 0 /\ l < WordBits /\ l \in Nat
      /\ w \div 2 ^ (l - 1) >= 8
  BY DEF ValidWindow, MaxWindow, ShiftRight
<1> HIDE DEF w, l
<1>3. bit \in 0 .. 8
  <2> SUFFICES ASSUME bit >= 9 PROVE FALSE
    BY ConfigAssumption
  <2>1. 2 ^ 9 <= 2 ^ bit
    <3>1. 9 \in 0 .. WordBits /\ bit \in 0 .. WordBits
      BY ConfigAssumption
    <3> QED BY <3>1, LaterPowers
  <2> QED BY <1>1, <1>2, <2>1, SmallPowers
<1>4. w \in {1, 2, 4, 8, 16, 32, 64, 128, 256}
  <2>1. bit \in {0, 1, 2, 3, 4, 5, 6, 7, 8}
    BY <1>3
  <2>2. /\ (bit = 0 => w = 2 ^ 0) /\ (bit = 1 => w = 2 ^ 1) /\ (bit = 2 => w = 2 ^ 2)
        /\ (bit = 3 => w = 2 ^ 3) /\ (bit = 4 => w = 2 ^ 4) /\ (bit = 5 => w = 2 ^ 5)
        /\ (bit = 6 => w = 2 ^ 6) /\ (bit = 7 => w = 2 ^ 7) /\ (bit = 8 => w = 2 ^ 8)
    BY <1>1, Zenon
  <2> QED BY <2>1, <2>2, SmallPowers
<1>5. l \in 1 .. 6
  <2> SUFFICES ASSUME l >= 7 PROVE FALSE
    BY <1>2
  <2> DEFINE p == 2 ^ (l - 1)
  <2>1. p >= 64 /\ p \in Int
    <3>1. 6 \in 0 .. WordBits /\ l - 1 \in 0 .. WordBits /\ 6 <= l - 1
      BY <1>2, ConfigAssumption
    <3>2. 2 ^ 6 <= 2 ^ (l - 1)
      BY <3>1, LaterPowers
    <3>3. 2 ^ (l - 1) \in Int
      BY <3>1, ConfigAssumption
    <3> QED BY <3>2, <3>3, SmallPowers
  <2>2. w \div p >= 8
    BY <1>2
  <2> HIDE DEF p
  <2>3. w \div p <= 4
    BY <1>4, <2>1
  <2>4. w \div p \in Int
    BY <1>4, <2>1
  <2> QED BY <2>2, <2>3, <2>4
<1>6. ASSUME NEW n \in 1 .. 6, l = n, NEW p \in {1, 2, 4, 8, 16, 32}, p = 2 ^ (n - 1), 2 ^ n = 2 * p
      PROVE  w >= 8 /\ w % 2 ^ l = 0 /\ w \div 2 ^ l >= 1
  <2>1. w \div p >= 8
    BY <1>2, <1>6
  <2>2. w >= 8 /\ w % (2 * p) = 0 /\ w \div (2 * p) >= 1
    BY <1>4, <1>6, <2>1
  <2> QED BY <1>6, <2>2
<1>7. /\ 2 ^ (1 - 1) = 1 /\ 2 ^ (2 - 1) = 2 /\ 2 ^ (3 - 1) = 4 /\ 2 ^ (4 - 1) = 8
      /\ 2 ^ (5 - 1) = 16 /\ 2 ^ (6 - 1) = 32
  BY SmallPowers
<1>8. w >= 8 /\ w % 2 ^ l = 0 /\ w \div 2 ^ l >= 1
  BY <1>5, <1>6, <1>7, SmallPowers
<1>9. TransformAccepts(w, l)
  BY <1>2, <1>8 DEF TransformAccepts, MaxWindow, ShiftRight
<1> QED BY <1>5, <1>9 DEF w, l

LEMMA BitsFacts ==
  ASSUME NEW bits \in Int, bits >= 2, bits <= 15
  PROVE  MaximumInteger(bits) >= 1 /\ MaximumInteger(bits) <= 32767
<1>1. bits - 1 \in {1, 2, 3, 4, 5, 6, 7, 8, 9, 10, 11, 12, 13, 14}
  OBVIOUS
<1> DEFINE n == bits - 1
           p == 2 ^ n
<1>2. /\ (n = 1 => p = 2 ^ 1) /\ (n = 2 => p = 2 ^ 2) /\ (n = 3 => p = 2 ^ 3)
      /\ (n = 4 => p = 2 ^ 4) /\ (n = 5 => p = 2 ^ 5) /\ (n = 6 => p = 2 ^ 6)
      /\ (n = 7 => p = 2 ^ 7) /\ (n = 8 => p = 2 ^ 8) /\ (n = 9 => p = 2 ^ 9)
      /\ (n = 10 => p = 2 ^ 10) /\ (n = 11 => p = 2 ^ 11) /\ (n = 12 => p = 2 ^ 12)
      /\ (n = 13 => p = 2 ^ 13) /\ (n = 14 => p = 2 ^ 14)
  <2> HIDE DEF n
  <2> QED BY Zenon
<1> HIDE DEF n, p
<1>3. p \in 2 .. 16384
  BY <1>1, <1>2, SmallPowers DEF n
<1>4. MaximumInteger(bits) = p - 1
  BY DEF MaximumInteger, n, p
<1> QED BY <1>3, <1>4

\* A configuration that passes adaptive_config_validate serves its users.
LEMMA ValidUsable ==
  ASSUME TypeOK, Valid(config)
  PROVE  /\ TransformAccepts(config[Window], config[Levels])
         /\ LargestRepresentation(config[Window]) <= MaxRepresentation
         /\ Total(config, {Initial(s) : s \in States}) > 0
         /\ \A s \in States :
              /\ HeaderAccepted(config[Window], config[Levels], config[Bits(s)])
              /\ MaximumInteger(config[Bits(s)]) >= 1 /\ MaximumInteger(config[Bits(s)]) <= 32767
              /\ config[Exponent(s)] \in 0 .. 6
              /\ Total(config, Row(s)) > 0
<1>1. /\ Window \in Keys /\ Levels \in Keys /\ Levels \in UnsignedKeys
      /\ \A s \in States : Bits(s) \in Keys /\ Exponent(s) \in Keys /\ Exponent(s) \in Exponents
  BY DEF Keys, UnsignedKeys, Exponents
<1>2. /\ config[Window] \in Int /\ config[Levels] \in Nat
      /\ \A s \in States : config[Bits(s)] \in Int /\ config[Exponent(s)] \in 0 .. 255
  BY <1>1, ConfigAssumption DEF TypeOK
<1>3. /\ config[Levels] \in 1 .. 6
      /\ TransformAccepts(config[Window], config[Levels])
  BY <1>2, WindowFacts DEF Valid
<1>4. LargestRepresentation(config[Window]) <= MaxRepresentation
  BY <1>2, <1>3 DEF TransformAccepts, LargestRepresentation, MaxRepresentation, MaxWindow
<1>5. ASSUME NEW s \in States
      PROVE  /\ HeaderAccepted(config[Window], config[Levels], config[Bits(s)])
             /\ MaximumInteger(config[Bits(s)]) >= 1 /\ MaximumInteger(config[Bits(s)]) <= 32767
             /\ config[Exponent(s)] \in 0 .. 6
             /\ Total(config, Row(s)) > 0
  <2>1. /\ config[Bits(s)] >= 2 /\ config[Bits(s)] <= 15 /\ config[Exponent(s)] <= 6
        /\ Total(config, Row(s)) > 0
    BY DEF Valid, ValidPolicy
  <2>2. /\ config[Levels] % 256 = config[Levels] /\ config[Bits(s)] % 256 = config[Bits(s)]
    BY <1>2, <1>3, <2>1
  <2>3. config[Window] > 0 /\ config[Window] <= MaxWindow
    BY <1>2, <1>3 DEF TransformAccepts
  <2>4. HeaderAccepted(config[Window], config[Levels], config[Bits(s)])
    BY <1>3, <2>1, <2>2, <2>3 DEF HeaderAccepted, TransformAccepts
  <2>5. config[Exponent(s)] \in 0 .. 6
    BY <1>2, <2>1
  <2>6. MaximumInteger(config[Bits(s)]) >= 1 /\ MaximumInteger(config[Bits(s)]) <= 32767
    BY <1>2, <2>1, BitsFacts
  <2> QED BY <2>1, <2>4, <2>5, <2>6
<1>6. Total(config, {Initial(s) : s \in States}) > 0
  BY Zenon DEF Valid
<1> QED BY <1>3, <1>4, <1>5, <1>6

\* The invariant: a call that accepted left what it validated.
AcceptedValid == status = "accepted" => Valid(config)

\* What adaptive_config_load accepts passes every test its users make of it:
\* the transform, the buffers, the header of the codec, the quantizer and the
\* rows of the model.
THEOREM AcceptedServes == Spec => []AcceptedUsable
<1>1. Init => AcceptedValid
  BY DEF Init, AcceptedValid
<1>2. AcceptedValid /\ [Next]_vars => AcceptedValid'
  <2> SUFFICES ASSUME AcceptedValid, [Next]_vars, status' = "accepted" PROVE Valid(config)'
    BY DEF AcceptedValid
  <2>1. config' = config /\ Valid(config)
    BY DEF Next, SkipLine, ApplyLine, RefuseLine, ReadFails, EndOfFile, ReadLine, vars,
       AcceptedValid
  <2> QED BY <2>1
<1>3. IInv /\ AcceptedValid => AcceptedUsable
  BY ValidUsable DEF IInv, AcceptedValid, AcceptedUsable
<1> QED BY <1>1, <1>2, <1>3, SpecIInv, PTL DEF Spec
=============================================================================
