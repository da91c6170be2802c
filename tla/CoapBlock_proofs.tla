--------------------------- MODULE CoapBlock_proofs ---------------------------
(***************************************************************************)
(* Proofs about the packets of CoapBlock.  First what the encodings are:   *)
(* a number is read back from the bytes written for it wherever they       *)
(* stand, and the first byte of an option is never the payload marker.     *)
(* IInv types the variables and bounds both buffers.  WireInv follows a    *)
(* packet: the builder leaves a set of cuts in the output, each with the   *)
(* option that leads to the next one, and a parser whose packet was at     *)
(* most cut short stands on one of them and knows the fields before it.    *)
(* RoomInv, last, counts the bytes of a packet of the pipeline.            *)
(***************************************************************************)
EXTENDS CoapBlock, SequenceTheorems, WellFoundedInduction, TLAPS

\* What an option's delta or length becomes: a nibble that the parser accepts,
\* and as many bytes as the nibble announces.
Extendable(v) == v <= 65804

LEMMA ExtendedBytes ==
  ASSUME NEW v \in Nat, Extendable(v)
  PROVE  /\ EncodeExtended(v).nibble \in 0 .. 14
         /\ EncodeExtended(v).extension \in Seq(Byte)
         /\ Len(EncodeExtended(v).extension) = ExtensionLength(EncodeExtended(v).nibble)
         /\ ExtensionLength(EncodeExtended(v).nibble) \in 0 .. 2
<1>1. CASE v < 13
  BY <1>1 DEF EncodeExtended, ExtensionLength
<1>2. CASE v \in 13 .. 268
  <2>1. v - 13 \in Byte
    BY <1>2 DEF Byte
  <2> QED BY <1>2, <2>1 DEF EncodeExtended, ExtensionLength
<1>3. CASE v >= 269
  <2>1. /\ (v - 269) \div 256 \in Byte
        /\ (v - 269) % 256 \in Byte
    BY <1>3 DEF Byte, Extendable
  <2> QED BY <1>3, <2>1 DEF EncodeExtended, ExtensionLength
<1> QED BY <1>1, <1>2, <1>3

\* And is read back, wherever it stands.
Stands(bytes, from, part) == \A i \in 1 .. Len(part) : bytes[from + i] = part[i]
ReadBack(nibble, part, value) ==
  \A bytes : \A from \in Nat :
     Stands(bytes, from, part) => DecodeExtended(nibble, bytes, from + 1) = value

LEMMA ExtendedRead ==
  ASSUME NEW v \in Nat, Extendable(v), NEW bytes, NEW from \in Nat,
         Stands(bytes, from, EncodeExtended(v).extension)
  PROVE  DecodeExtended(EncodeExtended(v).nibble, bytes, from + 1) = v
<1>1. CASE v < 13
  BY <1>1 DEF EncodeExtended, DecodeExtended
<1>2. CASE v \in 13 .. 268
  <2>1. EncodeExtended(v) = [nibble |-> 13, extension |-> <<v - 13>>]
    BY <1>2 DEF EncodeExtended
  <2>2. bytes[from + 1] = v - 13
    BY <2>1 DEF Stands
  <2> QED BY <2>1, <2>2 DEF DecodeExtended
<1>3. CASE v >= 269
  <2> DEFINE h == (v - 269) \div 256
             l == (v - 269) % 256
  <2>1. EncodeExtended(v) = [nibble |-> 14, extension |-> <<h, l>>]
    BY <1>3 DEF EncodeExtended
  <2>2. h \in Int /\ l \in Int /\ 256 * h + l = v - 269
    BY <1>3
  <2> HIDE DEF h, l
  <2>3. bytes[from + 1] = h /\ bytes[(from + 1) + 1] = l
    BY <2>1 DEF Stands
  <2>4. DecodeExtended(14, bytes, from + 1) = 269 + 256 * h + l
    BY <2>3 DEF DecodeExtended
  <2>5. EncodeExtended(v).nibble = 14
    BY <2>1
  <2>6. 269 + 256 * h + l = v
    BY <2>2
  <2> QED BY <2>4, <2>5, <2>6
<1> QED BY <1>1, <1>2, <1>3

LEMMA ExtendedFacts ==
  ASSUME NEW v \in Nat, Extendable(v)
  PROVE  /\ EncodeExtended(v).nibble \in 0 .. 14
         /\ EncodeExtended(v).extension \in Seq(Byte)
         /\ Len(EncodeExtended(v).extension) = ExtensionLength(EncodeExtended(v).nibble)
         /\ ExtensionLength(EncodeExtended(v).nibble) \in 0 .. 2
         /\ ReadBack(EncodeExtended(v).nibble, EncodeExtended(v).extension, v)
<1>1. ReadBack(EncodeExtended(v).nibble, EncodeExtended(v).extension, v)
  <2> SUFFICES ASSUME NEW bytes, NEW from \in Nat,
                      Stands(bytes, from, EncodeExtended(v).extension)
               PROVE  DecodeExtended(EncodeExtended(v).nibble, bytes, from + 1) = v
    BY DEF ReadBack
  <2> QED BY ExtendedRead
<1> QED BY <1>1, ExtendedBytes

LEMMA FourParts ==
  ASSUME NEW a \in Seq(Byte), NEW b \in Seq(Byte), NEW c \in Seq(Byte), NEW d \in Seq(Byte)
  PROVE  LET all == a \o b \o c \o d
         IN /\ all \in Seq(Byte) /\ Len(all) = Len(a) + Len(b) + Len(c) + Len(d)
            /\ Stands(all, 0, a) /\ Stands(all, Len(a), b) /\ Stands(all, Len(a) + Len(b), c)
            /\ Stands(all, Len(a) + Len(b) + Len(c), d)
  BY DEF Stands

\* The first bytes of "whole" are found in "bytes".
Agree(bytes, from, whole, length) == \A i \in 1 .. length : bytes[from + i] = whole[i]

LEMMA TwoParts ==
  ASSUME NEW a \in Seq(Byte), NEW b \in Seq(Byte)
  PROVE  /\ a \o b \in Seq(Byte) /\ Len(a \o b) = Len(a) + Len(b)
         /\ Stands(a \o b, 0, a) /\ Stands(a \o b, Len(a), b)
  BY DEF Stands

LEMMA StandsWithin ==
  ASSUME NEW whole, NEW bytes, NEW from \in Nat, NEW start \in Nat, NEW length \in Nat,
         Agree(bytes, from, whole, length),
         NEW part \in Seq(Byte), Stands(whole, start, part), start + Len(part) <= length
  PROVE  Stands(bytes, from + start, part)
<1> SUFFICES ASSUME NEW i \in 1 .. Len(part) PROVE bytes[from + start + i] = part[i]
  BY DEF Stands
<1>1. start + i \in 1 .. length /\ from + start + i = from + (start + i)
  OBVIOUS
<1>2. whole[start + i] = part[i]
  BY DEF Stands
<1>3. bytes[from + (start + i)] = whole[start + i]
  BY <1>1 DEF Agree
<1> QED BY <1>1, <1>2, <1>3

\* An option on the wire: one byte with both nibbles, never the payload marker,
\* the extensions of the delta and of the length, and the value; it is read
\* back wherever it stands.
Begins(bytes, from) ==
  1 + ExtensionLength(bytes[from + 1] \div 16) + ExtensionLength(bytes[from + 1] % 16)
ReadsAs(bytes, from, delta, length) ==
  LET dn == bytes[from + 1] \div 16
      ln == bytes[from + 1] % 16
  IN /\ bytes[from + 1] \in Byte /\ bytes[from + 1] # PayloadMarker
     /\ dn \in 0 .. 14 /\ ln \in 0 .. 14
     /\ ExtensionLength(dn) \in 0 .. 2 /\ ExtensionLength(ln) \in 0 .. 2
     /\ DecodeExtended(dn, bytes, from + 2) = delta
     /\ DecodeExtended(ln, bytes, from + 2 + ExtensionLength(dn)) = length
\* The bytes E of an option.
Shape(E, delta, value) ==
  /\ E \in Seq(Byte) /\ Begins(E, 0) \in 1 .. 5
  /\ Len(E) = Begins(E, 0) + Len(value)
  /\ E[1] # PayloadMarker
  /\ Stands(E, Begins(E, 0), value)
  /\ \A bytes : \A from \in Nat :
       Agree(bytes, from, E, Begins(E, 0)) => ReadsAs(bytes, from, delta, Len(value))

LEMMA EncodedShape ==
  ASSUME NEW previous \in Nat, NEW number \in Nat, previous <= number, number <= 60,
         NEW value \in Seq(Byte), Extendable(Len(value))
  PROVE  Shape(Encoded(previous, Option(number, value)), number - previous, value)
<1> DEFINE gap == number - previous
           dn == EncodeExtended(gap).nibble
           dx == EncodeExtended(gap).extension
           ln == EncodeExtended(Len(value)).nibble
           lx == EncodeExtended(Len(value)).extension
           h == 16 * dn + ln
           first == <<h>>
           E == first \o dx \o lx \o value
<1>1. Encoded(previous, Option(number, value)) = E
  <2>1. /\ Option(number, value).number = number
        /\ Option(number, value).value = value
    BY DEF Option
  <2> QED BY <2>1 DEF Encoded
<1>2. gap \in Nat /\ Extendable(gap) /\ Len(value) \in Nat
  BY DEF Extendable
<1> HIDE DEF gap
<1>3. /\ dn \in 0 .. 14 /\ dx \in Seq(Byte) /\ Len(dx) = ExtensionLength(dn)
      /\ ExtensionLength(dn) \in 0 .. 2 /\ ReadBack(dn, dx, gap)
  BY <1>2, ExtendedFacts
<1>4. /\ ln \in 0 .. 14 /\ lx \in Seq(Byte) /\ Len(lx) = ExtensionLength(ln)
      /\ ExtensionLength(ln) \in 0 .. 2 /\ ReadBack(ln, lx, Len(value))
  BY <1>2, ExtendedFacts
<1> HIDE DEF E, first, dn, dx, ln, lx
<1>5. h \in Byte /\ h # PayloadMarker /\ h \div 16 = dn /\ h % 16 = ln
  <2>1. dn \in Int /\ ln \in Int /\ 0 <= dn /\ dn <= 14 /\ 0 <= ln /\ ln <= 14
    BY <1>3, <1>4
  <2> QED BY <2>1 DEF Byte, PayloadMarker
<1> HIDE DEF h
<1>6. first \in Seq(Byte) /\ Len(first) = 1 /\ first[1] = h
  BY <1>5 DEF first
<1>7. /\ E \in Seq(Byte)
      /\ Len(E) = Len(first) + Len(dx) + Len(lx) + Len(value)
      /\ Stands(E, 0, first) /\ Stands(E, Len(first), dx)
      /\ Stands(E, Len(first) + Len(dx), lx) /\ Stands(E, Len(first) + Len(dx) + Len(lx), value)
  <2>1. first \in Seq(Byte) /\ dx \in Seq(Byte) /\ lx \in Seq(Byte)
    BY <1>3, <1>4, <1>6
  <2> QED BY <2>1, FourParts DEF E
<1>8. E[1] = h
  BY <1>6, <1>7 DEF Stands
<1>9. Begins(E, 0) = 1 + Len(dx) + Len(lx) /\ Len(dx) \in 0 .. 2 /\ Len(lx) \in 0 .. 2
  <2>1. E[0 + 1] = h
    BY <1>8
  <2> QED BY <1>3, <1>4, <1>5, <2>1 DEF Begins
<1>10. ASSUME NEW bytes, NEW from \in Nat, Agree(bytes, from, E, Begins(E, 0))
       PROVE  ReadsAs(bytes, from, gap, Len(value))
  <2>1. bytes[from + 1] = h
    BY <1>8, <1>9, <1>10 DEF Agree
  <2>2. Stands(bytes, from + 1, dx)
    <3>1. Stands(E, 1, dx) /\ 1 + Len(dx) <= Begins(E, 0) /\ Begins(E, 0) \in Nat
      BY <1>6, <1>7, <1>9
    <3> QED BY <1>3, <1>10, <3>1, StandsWithin
  <2>3. Stands(bytes, from + (1 + Len(dx)), lx)
    <3>1. /\ Stands(E, 1 + Len(dx), lx) /\ 1 + Len(dx) + Len(lx) <= Begins(E, 0)
          /\ Begins(E, 0) \in Nat /\ 1 + Len(dx) \in Nat
      BY <1>6, <1>7, <1>9
    <3> QED BY <1>4, <1>10, <3>1, StandsWithin
  <2>4. DecodeExtended(dn, bytes, from + 2) = gap
    <3>1. from + 1 \in Nat /\ (from + 1) + 1 = from + 2
      OBVIOUS
    <3> QED BY <1>3, <2>2, <3>1 DEF ReadBack
  <2>5. DecodeExtended(ln, bytes, from + 2 + Len(dx)) = Len(value)
    <3>1. from + (1 + Len(dx)) \in Nat /\ (from + (1 + Len(dx))) + 1 = from + 2 + Len(dx)
      BY <1>9
    <3> QED BY <1>4, <2>3, <3>1 DEF ReadBack
  <2> QED BY <1>3, <1>4, <1>5, <2>1, <2>4, <2>5 DEF ReadsAs
<1>11. Begins(E, 0) \in 1 .. 5 /\ Len(E) = Begins(E, 0) + Len(value)
  <2>1. Len(E) = 1 + Len(dx) + Len(lx) + Len(value)
    BY <1>6, <1>7
  <2>2. Begins(E, 0) \in 1 .. 5
    <3>1. \A a, b \in 0 .. 2 : 1 + a + b \in 1 .. 5
      OBVIOUS
    <3> QED BY <1>9, <3>1
  <2> QED BY <1>2, <1>9, <2>1, <2>2
<1>12. Stands(E, Begins(E, 0), value)
  BY <1>6, <1>7, <1>9
<1>13. E[1] # PayloadMarker
  BY <1>5, <1>8
<1>14. Shape(E, gap, value)
  BY <1>7, <1>10, <1>11, <1>12, <1>13 DEF Shape
<1> QED BY <1>1, <1>14 DEF gap

LEMMA UintLengths ==
  ASSUME NEW value \in Uint32
  PROVE  /\ UintLength(value) \in 0 .. 4
         /\ \A i \in 1 .. 4 - UintLength(value) : value[i] = 0
         /\ UintLength(value) > 0 => value[5 - UintLength(value)] # 0
<1> DEFINE P(n) == /\ \A i \in 1 .. 4 - n : value[i] = 0
                   /\ n > 0 => value[5 - n] # 0
<1>1. \E n \in 0 .. 4 : P(n)
  <2>1. CASE value[1] # 0
    BY <2>1
  <2>2. CASE value[1] = 0 /\ value[2] # 0
    BY <2>2
  <2>3. CASE value[1] = 0 /\ value[2] = 0 /\ value[3] # 0
    BY <2>3
  <2>4. CASE value[1] = 0 /\ value[2] = 0 /\ value[3] = 0 /\ value[4] # 0
    BY <2>4
  <2>5. CASE value[1] = 0 /\ value[2] = 0 /\ value[3] = 0 /\ value[4] = 0
    BY <2>5
  <2> QED BY <2>1, <2>2, <2>3, <2>4, <2>5
<1>2. UintLength(value) = CHOOSE n \in 0 .. 4 : P(n)
  BY DEF UintLength
<1> HIDE DEF P
<1>3. UintLength(value) \in 0 .. 4 /\ P(UintLength(value))
  BY <1>1, <1>2
<1> QED BY <1>3 DEF P

LEMMA EncodedUint ==
  ASSUME NEW value \in Uint32
  PROVE  EncodeUint(value) \in Seq(Byte) /\ Len(EncodeUint(value)) = UintLength(value)
<1> DEFINE n == UintLength(value)
<1>1. n \in 0 .. 4
  BY UintLengths
<1>2. \A i \in 5 - n .. 4 : value[i] \in Byte
  BY <1>1 DEF Uint32
<1>3. EncodeUint(value) = SubSeq(value, 5 - n, 4)
  BY DEF EncodeUint
<1> HIDE DEF n
<1>4. /\ SubSeq(value, 5 - n, 4) \in Seq(Byte)
      /\ Len(SubSeq(value, 5 - n, 4)) = n
  BY <1>1, <1>2, SubSeqProperties
<1> QED BY <1>3, <1>4 DEF n

-----------------------------------------------------------------------------
\* Numbers and the fields of a block.

LEMMA DecodedUint ==
  ASSUME NEW bytes \in Seq(Byte), Len(bytes) \in 0 .. 4
  PROVE  /\ DecodeUint(bytes) \in Uint32
         /\ \A i \in 1 .. 4 - Len(bytes) : DecodeUint(bytes)[i] = 0
         /\ \A i \in 1 .. Len(bytes) : DecodeUint(bytes)[4 - Len(bytes) + i] = bytes[i]
<1> DEFINE n == Len(bytes)
           zeros == [i \in 1 .. 4 - n |-> 0]
<1>1. n \in 0 .. 4
  OBVIOUS
<1>2. DecodeUint(bytes) = zeros \o bytes
  BY DEF DecodeUint
<1>3. 0 \in Byte
  BY DEF Byte
<1> HIDE DEF n
<1>4. /\ zeros \in [1 .. 4 - n -> Byte] /\ 4 - n \in Nat
      /\ \A i \in 1 .. 4 - n : zeros[i] = 0
  BY <1>1, <1>3
<1> HIDE DEF zeros
<1>7. zeros \in Seq(Byte) /\ Len(zeros) = 4 - n
  <2> DEFINE m == 4 - n
  <2>1. m \in Nat /\ zeros \in [1 .. m -> Byte]
    BY <1>4
  <2> HIDE DEF m
  <2>2. zeros \in Seq(Byte)
    BY <2>1, SeqDef
  <2>3. Len(zeros) = m
    BY <2>1, <2>2, LenProperties
  <2> QED BY <2>2, <2>3 DEF m
<1>5. /\ zeros \o bytes \in Seq(Byte) /\ Len(zeros \o bytes) = 4
      /\ \A i \in 1 .. 4 - n : (zeros \o bytes)[i] = zeros[i]
      /\ \A i \in 1 .. n : (zeros \o bytes)[4 - n + i] = bytes[i]
  BY <1>1, <1>7, ConcatProperties DEF n
<1>6. zeros \o bytes \in Uint32
  <2>1. zeros \o bytes \in [1 .. Len(zeros \o bytes) -> Byte]
    BY <1>5, LenProperties
  <2> QED BY <1>5, <2>1 DEF Uint32
<1> QED BY <1>2, <1>4, <1>5, <1>6 DEF n

\* A number is read back from the bytes that are left of it.
LEMMA UintRead ==
  ASSUME NEW value \in Uint32
  PROVE  DecodeUint(EncodeUint(value)) = value
<1> DEFINE n == UintLength(value)
           bytes == EncodeUint(value)
           read == DecodeUint(bytes)
<1>1. n \in 0 .. 4 /\ \A i \in 1 .. 4 - n : value[i] = 0
  BY UintLengths
<1>2. bytes \in Seq(Byte) /\ Len(bytes) = n
  BY EncodedUint
<1>3. \A i \in 1 .. n : bytes[i] = value[4 - n + i]
  <2>1. \A i \in 5 - n .. 4 : value[i] \in Byte
    BY <1>1 DEF Uint32
  <2>2. bytes = SubSeq(value, 5 - n, 4)
    BY DEF EncodeUint
  <2> HIDE DEF n, bytes
  <2>3. \A i \in 1 .. 4 - (5 - n) + 1 : SubSeq(value, 5 - n, 4)[i] = value[(5 - n) + i - 1]
    BY <1>1, <2>1, SubSeqProperties
  <2> SUFFICES ASSUME NEW i \in 1 .. n PROVE bytes[i] = value[4 - n + i]
    OBVIOUS
  <2>4. i \in 1 .. 4 - (5 - n) + 1 /\ (5 - n) + i - 1 = 4 - n + i
    BY <1>1
  <2> QED BY <2>2, <2>3, <2>4
<1>4. /\ read \in Uint32
      /\ \A i \in 1 .. 4 - n : read[i] = 0
      /\ \A i \in 1 .. n : read[4 - n + i] = bytes[i]
  BY <1>1, <1>2, DecodedUint
<1> HIDE DEF n, bytes, read
<1>5. ASSUME NEW i \in 1 .. 4 PROVE read[i] = value[i]
  <2>1. CASE i \in 1 .. 4 - n
    BY <1>1, <1>4, <2>1
  <2>2. CASE i \notin 1 .. 4 - n
    <3>1. i - (4 - n) \in 1 .. n /\ 4 - n + (i - (4 - n)) = i
      BY <1>1, <2>2
    <3> QED BY <1>3, <1>4, <3>1
  <2> QED BY <2>1, <2>2
<1> QED BY <1>4, <1>5 DEF Uint32, read, bytes

LEMMA Words ==
  /\ \A x \in Uint16 : x \in Nat /\ x \div 256 \in Byte /\ x % 256 \in Byte
  /\ \A high, low \in Byte : 256 * high + low \in Uint16
<1>1. UINT16_MAX \in Nat /\ UINT16_MAX < 256 * 256 /\ UINT16_MAX >= 256 * 255 + 255
  BY SMT DEF UINT16_MAX
<1>2. ASSUME NEW x \in Uint16 PROVE x \in Nat /\ x \div 256 \in Byte /\ x % 256 \in Byte
  <2>1. x \in Nat /\ x <= UINT16_MAX
    BY <1>1 DEF Uint16
  <2>2. x \div 256 \in 0 .. 255 /\ x % 256 \in 0 .. 255
    BY <1>1, <2>1
  <2> QED BY <2>1, <2>2 DEF Byte
<1>3. ASSUME NEW high \in Byte, NEW low \in Byte PROVE 256 * high + low \in Uint16
  BY <1>1 DEF Uint16, Byte
<1> QED BY <1>2, <1>3

LEMMA BlockFields ==
  ASSUME NEW block \in Blocks
  PROVE  /\ block.type \in 0 .. 3 /\ block.code \in Byte /\ block.message_id \in Uint16
         /\ block.token \in Seq(Byte) /\ block.block_number \in Nat /\ block.more \in {0, 1}
         /\ block.szx \in Byte /\ block.content_format \in Uint32 /\ block.size1 \in Uint32
         /\ block.payload \in Seq(Byte)
  BY DEF Blocks

\* The Block1 option holds what is read from it.
LEMMA BlockRead ==
  ASSUME NEW block \in Blocks, block.szx <= 6, block.block_number <= MaxBlockNumber
  PROVE  LET value == BlockValue(block)
         IN /\ value \in Uint32
            /\ value[4] % 8 = block.szx
            /\ (value[4] \div 8) % 2 = block.more
            /\ NumberOf(value) = block.block_number
<1> DEFINE n == block.block_number
           low == (n % 16) * 16 + block.more * 8 + block.szx
           high == n \div 16
           value == BlockValue(block)
<1>1. n \in Nat /\ n <= MaxBlockNumber /\ block.more \in {0, 1} /\ block.szx \in 0 .. 6
  <2>1. n \in Nat /\ block.more \in {0, 1} /\ block.szx \in 0 .. 255
    BY BlockFields DEF Byte
  <2> QED BY <2>1
<1>2. value = <<0, high \div 256, high % 256, low>>
  BY DEF BlockValue
<1> HIDE DEF n, value
<1>3. low \in Byte /\ low % 8 = block.szx /\ (low \div 8) % 2 = block.more /\ low \div 16 = n % 16
  <2> DEFINE r == n % 16
             m == block.more
             x == block.szx
  <2>1. r \in 0 .. 15 /\ m \in {0, 1} /\ x \in 0 .. 6
    BY <1>1
  <2>2. low = r * 16 + m * 8 + x
    OBVIOUS
  <2> HIDE DEF r, m, x, low
  <2>3. low \in 0 .. 255 /\ low % 8 = x /\ (low \div 8) % 2 = m /\ low \div 16 = r
    BY <2>1, <2>2
  <2> QED BY <2>3 DEF Byte, r, m, x
<1>4. high \in Nat /\ n = 16 * high + (n % 16)
  BY <1>1
<1>5. n % 16 \in Nat
  BY <1>1
<1>6. high \div 256 \in Byte /\ high % 256 \in Byte /\ 256 * (high \div 256) + (high % 256) = high
  <2>1. n % 16 \in 0 .. 15
    BY <1>1
  <2> HIDE DEF high
  <2>2. high \div 256 <= 255
    BY <1>1, <1>4, <2>1, SMT DEF MaxBlockNumber
  <2> QED BY <1>4, <2>2 DEF Byte
<1> HIDE DEF low, high
<1>7. 0 \in Byte
  BY DEF Byte
<1>8. value \in Uint32
  BY <1>2, <1>3, <1>6, <1>7 DEF Uint32
<1>9. NumberOf(value) = n
  <2>1. NumberOf(value) = 4096 * (high \div 256) + 16 * (high % 256) + low \div 16
    <3>1. value[1] = 0 /\ value[2] = high \div 256 /\ value[3] = high % 256 /\ value[4] = low
      BY <1>2
    <3>2. high \div 256 \in Int /\ high % 256 \in Int /\ low \div 16 \in Int
      BY <1>3, <1>5, <1>6 DEF Byte
    <3> QED BY <3>1, <3>2 DEF NumberOf
  <2> QED BY <1>3, <1>4, <1>5, <1>6, <2>1 DEF Byte
<1>10. value[4] = low
  BY <1>2
<1> QED BY <1>3, <1>8, <1>9, <1>10 DEF value, n

-----------------------------------------------------------------------------
\* The types and the bounds of both buffers.

Numbers == {0, UriPath, ContentFormat, Block1, Size1}

TypeInv ==
  /\ input \in [block : Blocks, path : Seq(Seq(Byte)), capacity : Nat]
  /\ phase \in {"build", "path", "options", "built", "parse", "parsing", "done"}
  /\ built \in {Busy, "ok", "argument", "format", "range", "capacity"}
  /\ result \in {Busy, "ok", "format"}
  /\ cursor \in Seq(Seq(Byte)) /\ output \in Seq(Byte) /\ packet \in Seq(Byte)
  /\ previous_option \in Numbers
  /\ option_number \in Nat /\ offset \in Nat /\ found_block1 \in BOOLEAN

\* The option numbers rise in steps that are written in one way only.
Follows(block, previous, number) ==
  \/ number = UriPath /\ previous \in {0, UriPath}
  \/ number = ContentFormat /\ previous = UriPath
  \/ number = Block1 /\ previous = ContentFormat
  \/ number = Size1 /\ previous = Block1 /\ block.size1 # Zero

ValueOf(block, number) ==
  EncodeUint(IF number = ContentFormat THEN block.content_format
             ELSE IF number = Block1 THEN BlockValue(block)
             ELSE block.size1)
Due(block, number) == Option(number, ValueOf(block, number))

\* The options still to be appended after the one numbered "previous".
Remain(block, previous, list) ==
  LET sized == block.size1 # Zero
  IN \/ /\ previous = UriPath
        /\ list = IF sized THEN <<Due(block, ContentFormat), Due(block, Block1), Due(block, Size1)>>
                  ELSE <<Due(block, ContentFormat), Due(block, Block1)>>
     \/ /\ previous = ContentFormat
        /\ list = IF sized THEN <<Due(block, Block1), Due(block, Size1)>> ELSE <<Due(block, Block1)>>
     \/ previous = Block1 /\ list = IF sized THEN <<Due(block, Size1)>> ELSE <<>>
     \/ previous = Size1 /\ sized /\ list = <<>>

BuildInv ==
  /\ Len(output) <= input.capacity
  /\ phase \in {"path", "options"} \/ built = "ok" => ValidArguments
  /\ phase \in {"parse", "parsing", "done"} => built = "ok"
  /\ phase \in {"build", "path", "options"} => built = Busy
  /\ phase = "build" => previous_option = 0
  /\ phase = "path" => previous_option \in {0, UriPath}
  /\ phase = "options" => Remain(input.block, previous_option, pending)

ParseInv ==
  /\ offset <= Len(packet)
  /\ phase \notin {"parsing", "done"} => offset = 0
  /\ parsed \in Blocks /\ parsed.szx <= 6 /\ Len(parsed.token) <= 8

IInv == TypeInv /\ BuildInv /\ ParseInv

LEMMA NumberRange == Numbers \subseteq Nat /\ \A n \in Numbers : n <= 60
  BY DEF Numbers, UriPath, ContentFormat, Block1, Size1

LEMMA FollowsUp ==
  ASSUME NEW previous \in Numbers, NEW number, Follows(input.block, previous, number)
  PROVE  number \in Numbers /\ previous <= number
  BY DEF Follows, Numbers, UriPath, ContentFormat, Block1, Size1

LEMMA CallFields ==
  ASSUME TypeInv
  PROVE  /\ input.block \in Blocks /\ input.path \in Seq(Seq(Byte)) /\ input.capacity \in Nat
         /\ input.block.token \in Seq(Byte) /\ input.block.payload \in Seq(Byte)
  BY BlockFields DEF TypeInv

LEMMA HeaderFacts ==
  ASSUME TypeInv, ValidArguments
  PROVE  LET header == Header(input.block)
             block == input.block
         IN /\ header \in Seq(Byte) /\ Len(header) = 4 + Len(block.token)
            /\ header[1] = 64 + 16 * block.type + Len(block.token)
            /\ header[2] = block.code /\ header[3] = block.message_id \div 256
            /\ header[4] = block.message_id % 256
            /\ Stands(header, 4, block.token)
<1> DEFINE token == input.block.token
           type == input.block.type
           id == input.block.message_id
           first == 64 + 16 * (type % 4) + Len(token)
           fixed == <<first, input.block.code, id \div 256, id % 256>>
           header == Header(input.block)
<1>1. /\ type \in 0 .. 3 /\ input.block.code \in Byte /\ id \in Uint16 /\ token \in Seq(Byte)
  BY CallFields, BlockFields
<1> DEFINE length == Len(token)
<1>2. length \in Nat /\ length <= 8
  BY <1>1 DEF ValidArguments
<1>3. header = fixed \o token
  BY DEF Header
<1> HIDE DEF token, type, id, header, length
<1>4. first \in Byte /\ first = 64 + 16 * type + Len(token)
  <2>1. type % 4 = type
    BY <1>1
  <2>2. length \in 0 .. 8
    BY <1>2
  <2>3. first = 64 + 16 * type + length
    BY <2>1 DEF length
  <2>4. 64 + 16 * type + length \in 0 .. 255
    BY <1>1, <2>2
  <2> QED BY <2>3, <2>4 DEF Byte, length
<1>5. id \div 256 \in Byte /\ id % 256 \in Byte
  BY <1>1, Words
<1> HIDE DEF first
<1>6. fixed \in Seq(Byte) /\ Len(fixed) = 4
  BY <1>1, <1>4, <1>5
<1>7. /\ fixed[1] = first /\ fixed[2] = input.block.code /\ fixed[3] = id \div 256
      /\ fixed[4] = id % 256
  OBVIOUS
<1> HIDE DEF fixed
<1>8. /\ header \in Seq(Byte) /\ Len(header) = 4 + Len(token)
      /\ Stands(header, 0, fixed) /\ Stands(header, 4, token)
  BY <1>1, <1>3, <1>6, TwoParts
<1>9. \A i \in 1 .. 4 : header[i] = fixed[i]
  BY <1>6, <1>8 DEF Stands
<1> QED BY <1>4, <1>7, <1>8, <1>9 DEF header, token, type, id

LEMMA ValueFacts ==
  ASSUME TypeInv, ValidArguments, NEW number
  PROVE  /\ ValueOf(input.block, number) \in Seq(Byte) /\ Len(ValueOf(input.block, number)) \in 0 .. 4
         /\ DecodeUint(ValueOf(input.block, number)) =
              IF number = ContentFormat THEN input.block.content_format
              ELSE IF number = Block1 THEN BlockValue(input.block)
              ELSE input.block.size1
<1> DEFINE value == IF number = ContentFormat THEN input.block.content_format
                    ELSE IF number = Block1 THEN BlockValue(input.block)
                    ELSE input.block.size1
<1>1. value \in Uint32
  <2>1. input.block.content_format \in Uint32 /\ input.block.size1 \in Uint32
    BY CallFields, BlockFields
  <2>2. BlockValue(input.block) \in Uint32
    BY CallFields, BlockRead DEF ValidArguments
  <2> QED BY <2>1, <2>2
<1>2. ValueOf(input.block, number) = EncodeUint(value)
  BY DEF ValueOf
<1> HIDE DEF value
<1>3. /\ ValueOf(input.block, number) \in Seq(Byte) /\ Len(ValueOf(input.block, number)) \in 0 .. 4
      /\ DecodeUint(ValueOf(input.block, number)) = value
  BY <1>1, <1>2, EncodedUint, UintLengths, UintRead
<1> QED BY <1>3 DEF value

\* What append_option leaves in the output.
LEMMA OptionWritten ==
  ASSUME TypeInv, NEW number, Follows(input.block, previous_option, number),
         NEW value \in Seq(Byte), append_option(Option(number, value))
  PROVE  LET E == Encoded(previous_option, Option(number, value))
         IN /\ number \in Numbers /\ previous_option' = number /\ Extendable(Len(value))
            /\ Shape(E, number - previous_option, value)
            /\ output' = output \o E /\ output' \in Seq(Byte)
            /\ Len(output') = Len(output) + Len(E) /\ Len(output') <= input.capacity
<1> DEFINE E == Encoded(previous_option, Option(number, value))
<1>1. Option(number, value).number = number /\ Option(number, value).value = value
  BY DEF Option
<1>2. /\ Extendable(Len(value)) /\ Len(output) + Len(E) <= input.capacity
      /\ output' = output \o E /\ previous_option' = number
  BY <1>1 DEF append_option, Fits, Encodable, Extendable
<1>3. /\ number \in Numbers /\ number \in Nat /\ previous_option \in Nat
      /\ previous_option <= number /\ number <= 60
  BY FollowsUp, NumberRange DEF TypeInv
<1>4. Shape(E, number - previous_option, value)
  BY <1>2, <1>3, EncodedShape
<1> HIDE DEF E
<1>5. E \in Seq(Byte) /\ output \in Seq(Byte)
  BY <1>4 DEF Shape, TypeInv
<1>6. output \o E \in Seq(Byte) /\ Len(output \o E) = Len(output) + Len(E)
  BY <1>5, ConcatProperties
<1> QED BY <1>2, <1>3, <1>4, <1>6 DEF E

-----------------------------------------------------------------------------
\* Every step keeps the invariant, the builder's first.

LEMMA NoBlockTyped ==
  NoBlock \in Blocks /\ NoBlock.szx <= 6 /\ Len(NoBlock.token) <= 8
<1>1. 0 \in Byte /\ 0 \in 0 .. 3 /\ 0 \in Nat /\ 0 \in {0, 1}
  BY DEF Byte
<1>2. 0 \in Uint16
  <2>1. 0 \in Byte /\ 256 * 0 + 0 = 0
    BY DEF Byte
  <2> QED BY <2>1, Words
<1>3. Zero \in Uint32
  BY <1>1 DEF Zero, Uint32
<1>4. <<>> \in Seq(Byte) /\ Len(<<>>) = 0
  OBVIOUS
<1> HIDE DEF Zero
<1> QED BY <1>1, <1>2, <1>3, <1>4 DEF NoBlock, Blocks

LEMMA InitIInv ==
  ASSUME Init
  PROVE  IInv
<1>1. TypeInv
  <2>1. input \in [block : Blocks, path : Seq(Seq(Byte)), capacity : Nat]
    BY InputsAssumption DEF Init
  <2>2. cursor \in Seq(Seq(Byte)) /\ output \in Seq(Byte) /\ packet \in Seq(Byte)
    BY DEF Init
  <2> QED BY <2>1, <2>2 DEF Init, TypeInv, Numbers
<1>2. BuildInv
  <2>1. Len(output) <= input.capacity
    <3>1. Len(output) = 0
      BY DEF Init
    <3> QED BY <1>1, <3>1, CallFields
  <2> QED BY <2>1 DEF Init, BuildInv, Busy
<1>3. ParseInv
  <2>1. offset = 0 /\ Len(packet) = 0
    BY DEF Init
  <2> QED BY <2>1, NoBlockTyped DEF Init, ParseInv
<1> QED BY <1>1, <1>2, <1>3 DEF IInv

LEMMA SameArguments ==
  ASSUME UNCHANGED input
  PROVE  ValidArguments' = ValidArguments
  BY DEF ValidArguments

\* A call that is refused writes nothing more.
LEMMA ReturnStep ==
  ASSUME IInv, NEW status \in {"argument", "format", "range", "capacity"},
         phase \in {"build", "path", "options"}, BuildReturns(status)
  PROVE  IInv'
<1>1. TypeInv'
  BY DEF IInv, TypeInv, BuildReturns, builder, parser
<1>2. BuildInv'
  BY DEF IInv, BuildInv, BuildReturns, builder, parser
<1>3. ParseInv'
  BY DEF IInv, ParseInv, BuildReturns, builder, parser
<1> QED BY <1>1, <1>2, <1>3 DEF IInv

LEMMA HeaderStep ==
  ASSUME IInv, BuildHeader
  PROVE  IInv'
<1>1. output' \in Seq(Byte) /\ Len(output') <= input.capacity
  <2>1. output' = Header(input.block) /\ ValidArguments
    BY DEF BuildHeader
  <2>2. Header(input.block) \in Seq(Byte) /\ Len(Header(input.block)) = 4 + Len(input.block.token)
    BY <2>1, HeaderFacts DEF IInv
  <2>3. Len(input.block.token) \in Nat /\ input.capacity \in Nat
    BY CallFields DEF IInv
  <2>4. input.capacity >= 4 + Len(input.block.token)
    BY <2>1 DEF ValidArguments
  <2> QED BY <2>1, <2>2, <2>3, <2>4
<1>2. TypeInv'
  BY <1>1, CallFields DEF IInv, TypeInv, BuildHeader, parser
<1>3. BuildInv'
  <2>1. ValidArguments' /\ previous_option' = previous_option /\ phase' = "path"
    BY SameArguments DEF BuildHeader
  <2> QED BY <1>1, <2>1 DEF IInv, BuildInv, BuildHeader, parser
<1>4. ParseInv'
  BY DEF IInv, ParseInv, BuildHeader, parser
<1> QED BY <1>2, <1>3, <1>4 DEF IInv

LEMMA SlashStep ==
  ASSUME IInv, SkipSlash
  PROVE  IInv'
<1>1. cursor' \in Seq(Seq(Byte))
  <2>1. cursor \in Seq(Seq(Byte)) /\ cursor # <<>> /\ cursor' = Tail(cursor)
    BY DEF IInv, TypeInv, SkipSlash
  <2> QED BY <2>1, HeadTailProperties
<1>2. TypeInv'
  BY <1>1 DEF IInv, TypeInv, SkipSlash, parser
<1>3. BuildInv'
  BY SameArguments DEF IInv, BuildInv, SkipSlash, parser
<1>4. ParseInv'
  BY DEF IInv, ParseInv, SkipSlash, parser
<1> QED BY <1>2, <1>3, <1>4 DEF IInv

\* A segment is an Uri-Path option that comes after the previous option.
LEMMA SegmentDue ==
  ASSUME IInv, phase = "path", cursor # <<>>
  PROVE  /\ Head(cursor) \in Seq(Byte) /\ Tail(cursor) \in Seq(Seq(Byte))
         /\ Follows(input.block, previous_option, UriPath)
<1>1. cursor \in Seq(Seq(Byte))
  BY DEF IInv, TypeInv
<1>2. Head(cursor) \in Seq(Byte) /\ Tail(cursor) \in Seq(Seq(Byte))
  BY <1>1, HeadTailProperties
<1> QED BY <1>2 DEF IInv, BuildInv, Follows

LEMMA SegmentStep ==
  ASSUME IInv, AppendSegment
  PROVE  IInv'
<1>1. /\ Head(cursor) \in Seq(Byte) /\ Tail(cursor) \in Seq(Seq(Byte))
      /\ Follows(input.block, previous_option, UriPath)
  BY SegmentDue DEF AppendSegment
<1>2. append_option(Option(UriPath, Head(cursor)))
  BY DEF AppendSegment, Segment
<1>3. /\ previous_option' = UriPath /\ UriPath \in Numbers
      /\ output' \in Seq(Byte) /\ Len(output') <= input.capacity
  BY <1>1, <1>2, OptionWritten DEF IInv
<1>4. TypeInv'
  BY <1>1, <1>3 DEF IInv, TypeInv, AppendSegment, parser
<1>5. BuildInv'
  <2>1. /\ ValidArguments' /\ phase' = "path" /\ UNCHANGED <<input, built>> /\ built = Busy
    BY SameArguments DEF IInv, BuildInv, AppendSegment
  <2> QED BY <1>3, <2>1 DEF BuildInv
<1>6. ParseInv'
  BY DEF IInv, ParseInv, AppendSegment, parser
<1> QED BY <1>4, <1>5, <1>6 DEF IInv

LEMMA Appended ==
  ASSUME NEW S, NEW s \in Seq(S), NEW z \in S
  PROVE  /\ Append(s, z) \in Seq(S) /\ Len(Append(s, z)) = Len(s) + 1
         /\ \A i \in 1 .. Len(s) : Append(s, z)[i] = s[i]
         /\ Append(s, z)[Len(s) + 1] = z
  OBVIOUS

LEMMA PairJoined ==
  ASSUME NEW x, NEW y, NEW z
  PROVE  <<x, y>> \o <<z>> = <<x, y, z>> /\ <<x, y>> \o <<>> = <<x, y>>
<1> DEFINE S == {x, y, z}
           two == <<x, y>>
           three == <<x, y, z>>
           grown == Append(two, z)
<1>1. /\ two \in Seq(S) /\ three \in Seq(S) /\ Len(two) = 2 /\ Len(three) = 3
      /\ three[1] = two[1] /\ three[2] = two[2] /\ three[3] = z /\ z \in S
  OBVIOUS
<1> HIDE DEF S, two, three
<1>2. two \o <<z>> = grown /\ two \o <<>> = two
  BY <1>1, AppendIsConcat, ConcatEmptySeq
<1>3. /\ grown \in Seq(S) /\ Len(grown) = 3
      /\ grown[1] = two[1] /\ grown[2] = two[2] /\ grown[3] = z
  <2>1. /\ grown \in Seq(S) /\ Len(grown) = Len(two) + 1 /\ grown[Len(two) + 1] = z
        /\ \A i \in 1 .. Len(two) : grown[i] = two[i]
    <3>1. two \in Seq(S) /\ z \in S
      BY <1>1
    <3> QED BY <3>1, Appended
  <2> HIDE DEF grown
  <2>2. Len(two) + 1 = 3 /\ 1 \in 1 .. Len(two) /\ 2 \in 1 .. Len(two)
    BY <1>1
  <2> QED BY <2>1, <2>2
<1> HIDE DEF grown
<1>4. grown = three
  <2>1. \A i \in 1 .. Len(grown) : grown[i] = three[i]
    BY <1>1, <1>3
  <2> QED BY <1>1, <1>3, <2>1, SeqEqual
<1> QED BY <1>2, <1>4 DEF two, three

LEMMA PathEndStep ==
  ASSUME IInv, PathEnd
  PROVE  IInv'
<1>1. TypeInv'
  BY DEF IInv, TypeInv, PathEnd, parser
<1>2. BuildInv'
  <2>1. pending' = Options(input.block) /\ previous_option' = UriPath
    BY DEF PathEnd
  <2>2. Options(input.block) =
          IF input.block.size1 # Zero THEN <<Due(input.block, ContentFormat), Due(input.block, Block1), Due(input.block, Size1)>>
          ELSE <<Due(input.block, ContentFormat), Due(input.block, Block1)>>
    <3>1. /\ Due(input.block, ContentFormat) = Option(ContentFormat, EncodeUint(input.block.content_format))
          /\ Due(input.block, Block1) = Option(Block1, EncodeUint(BlockValue(input.block)))
          /\ Due(input.block, Size1) = Option(Size1, EncodeUint(input.block.size1))
      BY DEF Due, ValueOf, ContentFormat, Block1, Size1
    <3> HIDE DEF Due
    <3>2. /\ <<Due(input.block, ContentFormat), Due(input.block, Block1)>> \o <<Due(input.block, Size1)>>
             = <<Due(input.block, ContentFormat), Due(input.block, Block1), Due(input.block, Size1)>>
          /\ <<Due(input.block, ContentFormat), Due(input.block, Block1)>> \o <<>> = <<Due(input.block, ContentFormat), Due(input.block, Block1)>>
      BY PairJoined
    <3> QED BY <3>1, <3>2 DEF Options
  <2>3. Remain(input.block, previous_option', pending')
    BY <2>1, <2>2 DEF Remain
  <2>4. /\ ValidArguments' /\ UNCHANGED <<input, built, output>> /\ phase' = "options"
        /\ built = Busy /\ Len(output) <= input.capacity
    BY SameArguments DEF IInv, BuildInv, PathEnd
  <2> QED BY <2>3, <2>4 DEF BuildInv
<1>3. ParseInv'
  BY DEF IInv, ParseInv, PathEnd, parser
<1> QED BY <1>1, <1>2, <1>3 DEF IInv

\* The next option to append comes after the previous one.
LEMMA NextDue ==
  ASSUME NEW previous, NEW list, Remain(input.block, previous, list), list # <<>>
  PROVE  \E number : /\ Head(list) = Due(input.block, number)
                     /\ Follows(input.block, previous, number) /\ Remain(input.block, number, Tail(list))
                     /\ number \in {ContentFormat, Block1, Size1}
<1> DEFINE sized == input.block.size1 # Zero
<1>1. CASE previous = UriPath
  <2>1. CASE sized
    <3>1. list = <<Due(input.block, ContentFormat), Due(input.block, Block1), Due(input.block, Size1)>>
      BY <1>1, <2>1 DEF Remain, UriPath, ContentFormat, Block1, Size1
    <3>2. Head(list) = Due(input.block, ContentFormat) /\ Tail(list) = <<Due(input.block, Block1), Due(input.block, Size1)>>
      BY <3>1
    <3> QED BY <1>1, <2>1, <3>2 DEF Remain, Follows
  <2>2. CASE ~sized
    <3>1. list = <<Due(input.block, ContentFormat), Due(input.block, Block1)>>
      BY <1>1, <2>2 DEF Remain, UriPath, ContentFormat, Block1, Size1
    <3>2. Head(list) = Due(input.block, ContentFormat) /\ Tail(list) = <<Due(input.block, Block1)>>
      BY <3>1
    <3> QED BY <1>1, <2>2, <3>2 DEF Remain, Follows
  <2> QED BY <2>1, <2>2
<1>2. CASE previous = ContentFormat
  <2>1. CASE sized
    <3>1. list = <<Due(input.block, Block1), Due(input.block, Size1)>>
      BY <1>2, <2>1 DEF Remain, UriPath, ContentFormat, Block1, Size1
    <3>2. Head(list) = Due(input.block, Block1) /\ Tail(list) = <<Due(input.block, Size1)>>
      BY <3>1
    <3> QED BY <1>2, <2>1, <3>2 DEF Remain, Follows
  <2>2. CASE ~sized
    <3>1. list = <<Due(input.block, Block1)>>
      BY <1>2, <2>2 DEF Remain, UriPath, ContentFormat, Block1, Size1
    <3>2. Head(list) = Due(input.block, Block1) /\ Tail(list) = <<>>
      BY <3>1
    <3> QED BY <1>2, <2>2, <3>2 DEF Remain, Follows
  <2> QED BY <2>1, <2>2
<1>3. CASE previous = Block1 /\ sized
  <2>1. list = <<Due(input.block, Size1)>>
    BY <1>3 DEF Remain, UriPath, ContentFormat, Block1, Size1
  <2>2. Head(list) = Due(input.block, Size1) /\ Tail(list) = <<>>
    BY <2>1
  <2> QED BY <1>3, <2>2 DEF Remain, Follows
<1> QED BY <1>1, <1>2, <1>3 DEF Remain, UriPath, ContentFormat, Block1, Size1

LEMMA OptionStep ==
  ASSUME IInv, AppendOption
  PROVE  IInv'
<1>1. phase = "options" /\ pending # <<>> /\ append_option(Head(pending)) /\ pending' = Tail(pending)
  BY DEF AppendOption
<1>2. PICK number : /\ Head(pending) = Due(input.block, number)
                    /\ Follows(input.block, previous_option, number) /\ Remain(input.block, number, Tail(pending))
  BY <1>1, NextDue DEF IInv, BuildInv
<1>3. ValidArguments /\ TypeInv
  BY <1>1 DEF IInv, BuildInv
<1>4. ValueOf(input.block, number) \in Seq(Byte) /\ append_option(Option(number, ValueOf(input.block, number)))
  BY <1>1, <1>2, <1>3, ValueFacts DEF Due
<1>5. /\ previous_option' = number /\ number \in Numbers
      /\ output' \in Seq(Byte) /\ Len(output') <= input.capacity
  BY <1>2, <1>3, <1>4, OptionWritten
<1>6. TypeInv'
  BY <1>5 DEF IInv, TypeInv, AppendOption, parser
<1>7. BuildInv'
  <2>1. /\ ValidArguments' /\ phase' = "options" /\ UNCHANGED <<input, built>> /\ built = Busy
    BY SameArguments DEF IInv, BuildInv, AppendOption
  <2> QED BY <1>1, <1>2, <1>5, <2>1 DEF BuildInv
<1>8. ParseInv'
  BY DEF IInv, ParseInv, AppendOption, parser
<1> QED BY <1>6, <1>7, <1>8 DEF IInv

\* The whole packet, when there is room for the payload.
LEMMA PayloadWritten ==
  ASSUME IInv, AppendPayload, input.block.payload # <<>>
  PROVE  /\ output' = output \o (<<PayloadMarker>> \o input.block.payload)
         /\ <<PayloadMarker>> \o input.block.payload \in Seq(Byte)
         /\ Len(<<PayloadMarker>> \o input.block.payload) = 1 + Len(input.block.payload)
         /\ output' \in Seq(Byte) /\ Len(output') <= input.capacity
<1> DEFINE payload == input.block.payload
           tail == <<PayloadMarker>> \o payload
<1>1. <<PayloadMarker>> \in Seq(Byte) /\ Len(<<PayloadMarker>>) = 1
  BY DEF PayloadMarker, Byte
<1>2. output \in Seq(Byte) /\ payload \in Seq(Byte) /\ input.capacity \in Nat
  BY CallFields DEF IInv, TypeInv
<1>3. Len(payload) <= input.capacity - Len(output) - 1
  BY DEF AppendPayload, PayloadFits
<1>4. output' = (output \o <<PayloadMarker>>) \o payload
  BY DEF AppendPayload
<1> HIDE DEF payload
<1>5. (output \o <<PayloadMarker>>) \o payload = output \o tail
  BY <1>1, <1>2, ConcatAssociative
<1>6. tail \in Seq(Byte) /\ Len(tail) = 1 + Len(payload)
  BY <1>1, <1>2, ConcatProperties
<1> HIDE DEF tail
<1>7. output \o tail \in Seq(Byte) /\ Len(output \o tail) = Len(output) + Len(tail)
  BY <1>2, <1>6, ConcatProperties
<1>8. Len(output \o tail) <= input.capacity
  BY <1>2, <1>3, <1>6, <1>7
<1> QED BY <1>4, <1>5, <1>6, <1>7, <1>8 DEF tail, payload

LEMMA PayloadStep ==
  ASSUME IInv, AppendPayload
  PROVE  IInv'
<1>1. output' \in Seq(Byte) /\ Len(output') <= input.capacity
  <2>1. CASE input.block.payload = <<>>
    BY <2>1 DEF AppendPayload, IInv, TypeInv, BuildInv
  <2>2. CASE input.block.payload # <<>>
    BY <2>2, PayloadWritten
  <2> QED BY <2>1, <2>2
<1>2. TypeInv'
  BY <1>1 DEF IInv, TypeInv, AppendPayload, parser
<1>3. BuildInv'
  <2>1. ValidArguments' /\ phase' = "built" /\ UNCHANGED input
    BY SameArguments DEF IInv, BuildInv, AppendPayload
  <2> QED BY <1>1, <2>1 DEF BuildInv
<1>4. ParseInv'
  BY DEF IInv, ParseInv, AppendPayload, parser
<1> QED BY <1>2, <1>3, <1>4 DEF IInv

LEMMA BuildStep ==
  ASSUME IInv, Build
  PROVE  IInv'
<1>1. CASE BuildRefused
  BY <1>1, ReturnStep DEF BuildRefused
<1>2. CASE BuildHeader
  BY <1>2, HeaderStep
<1>3. CASE SkipSlash
  BY <1>3, SlashStep
<1>4. CASE AppendSegment
  BY <1>4, SegmentStep
<1>5. CASE SegmentDoesNotFit
  BY <1>5, ReturnStep DEF SegmentDoesNotFit, DoesNotFit
<1>6. CASE PathEnd
  BY <1>6, PathEndStep
<1>7. CASE PathRefused
  BY <1>7, ReturnStep DEF PathRefused
<1>8. CASE AppendOption
  BY <1>8, OptionStep
<1>9. CASE OptionDoesNotFit
  BY <1>9, ReturnStep DEF OptionDoesNotFit, DoesNotFit
<1>10. CASE AppendPayload
  BY <1>10, PayloadStep
<1>11. CASE PayloadDoesNotFit
  BY <1>11, ReturnStep DEF PayloadDoesNotFit
<1> QED BY <1>1, <1>2, <1>3, <1>4, <1>5, <1>6, <1>7, <1>8, <1>9, <1>10, <1>11 DEF Build

-----------------------------------------------------------------------------
\* The way to the parser, and the parser.

LEMMA ArriveStep ==
  ASSUME IInv, NEW bytes \in Seq(Byte), Arrives(bytes)
  PROVE  IInv'
<1>1. TypeInv'
  BY DEF IInv, TypeInv, Arrives, builder
<1>2. BuildInv'
  <2>1. ValidArguments' = ValidArguments /\ UNCHANGED <<input, output, built>> /\ phase' = "parse"
    BY SameArguments DEF Arrives, builder
  <2> QED BY <2>1 DEF IInv, BuildInv, Arrives
<1>3. ParseInv'
  <2>1. offset' = 0 /\ packet' = bytes /\ Len(bytes) \in Nat
    BY DEF IInv, ParseInv, Arrives
  <2> QED BY <2>1 DEF IInv, ParseInv, Arrives
<1> QED BY <1>1, <1>2, <1>3 DEF IInv

LEMMA WayStep ==
  ASSUME IInv, Carry \/ Truncate \/ Damage
  PROVE  IInv'
<1>1. output \in Seq(Byte)
  BY DEF IInv, TypeInv
<1>2. CASE Carry
  BY <1>1, <1>2, ArriveStep DEF Carry
<1>3. CASE Truncate
  <2>1. PICK length \in 0 .. Len(output) - 1 : Arrives(SubSeq(output, 1, length))
    BY <1>3 DEF Truncate
  <2>2. SubSeq(output, 1, length) \in Seq(Byte)
    <3>1. \A i \in 1 .. length : output[i] \in Byte
      BY <1>1
    <3> QED BY <3>1, SubSeqProperties
  <2> QED BY <2>1, <2>2, ArriveStep
<1>4. CASE Damage
  <2>1. PICK i \in DOMAIN output : \E byte \in Byte \ {output[i]} :
                                     Arrives([output EXCEPT ![i] = byte])
    BY <1>4 DEF Damage
  <2>2. PICK byte \in Byte : Arrives([output EXCEPT ![i] = byte])
    BY <2>1
  <2>3. [output EXCEPT ![i] = byte] \in Seq(Byte)
    BY <1>1, ExceptSeq
  <2> QED BY <2>2, <2>3, ArriveStep
<1> QED BY <1>2, <1>3, <1>4

LEMMA ParseReturnStep ==
  ASSUME IInv, phase \in {"parse", "parsing"}, NEW status \in {"ok", "format"}, ParseReturns(status),
         parsed' \in Blocks, parsed'.szx <= 6, Len(parsed'.token) <= 8
  PROVE  IInv'
<1>1. TypeInv'
  BY DEF IInv, TypeInv, ParseReturns, builder
<1>2. BuildInv'
  <2>1. ValidArguments' = ValidArguments /\ UNCHANGED <<input, output, built>> /\ phase' = "done"
    BY SameArguments DEF ParseReturns, builder
  <2> QED BY <2>1 DEF IInv, BuildInv
<1>3. ParseInv'
  BY DEF IInv, ParseInv, ParseReturns
<1> QED BY <1>1, <1>2, <1>3 DEF IInv

LEMMA ParseHeaderStep ==
  ASSUME IInv, ParseHeader
  PROVE  IInv'
<1> DEFINE n == TokenLength
           token == SubSeq(packet, 5, 4 + n)
           id == 256 * packet[3] + packet[4]
           kind == (packet[1] \div 16) % 4
<1>1. packet \in Seq(Byte) /\ Len(packet) >= 4 /\ n <= 8 /\ Len(packet) >= 4 + n
  BY DEF IInv, TypeInv, ParseHeader, HeaderComplete
<1>2. packet[1] \in 0 .. 255 /\ packet[2] \in 0 .. 255 /\ packet[3] \in 0 .. 255 /\ packet[4] \in 0 .. 255
  <2>1. Len(packet) \in Nat
    BY <1>1
  <2>2. 1 \in 1 .. Len(packet) /\ 2 \in 1 .. Len(packet) /\ 3 \in 1 .. Len(packet) /\ 4 \in 1 .. Len(packet)
    BY <1>1, <2>1
  <2>3. \A i \in 1 .. Len(packet) : packet[i] \in Byte
    BY <1>1
  <2> QED BY <2>2, <2>3 DEF Byte
<1>3. n \in 0 .. 15
  BY <1>2 DEF TokenLength
<1>4. /\ parsed' = [NoBlock EXCEPT !.type = kind, !.code = packet[2], !.message_id = id, !.token = token]
      /\ offset' = 4 + n /\ option_number' = 0 /\ found_block1' = FALSE /\ phase' = "parsing"
  BY DEF ParseHeader
<1> HIDE DEF n, token
<1>5. token \in Seq(Byte) /\ Len(token) = n
  <2> DEFINE last == 4 + n
  <2>1. n \in Nat /\ 5 \in Int /\ last \in Int /\ \A i \in 5 .. last : packet[i] \in Byte
    BY <1>1, <1>3
  <2>2. token \in Seq(Byte) /\ Len(token) = IF 5 <= last THEN last - 5 + 1 ELSE 0
    BY <2>1, SubSeqProperties DEF token
  <2>3. Len(token) = n
    BY <2>1, <2>2
  <2> QED BY <2>2, <2>3
<1>6. kind \in 0 .. 3
  BY <1>2
<1>7. id \in Uint16
  <2> DEFINE high == packet[3]
             low == packet[4]
  <2>1. high \in Byte /\ low \in Byte /\ id = 256 * high + low
    BY <1>2 DEF Byte
  <2> HIDE DEF high, low, id
  <2> QED BY <2>1, Words
<1> HIDE DEF id, kind
<1>8. parsed' \in Blocks /\ parsed'.szx = NoBlock.szx /\ parsed'.token = token
  <2>1. packet[2] \in Byte
    BY <1>2 DEF Byte
  <2> DEFINE b1 == [NoBlock EXCEPT !.type = kind]
             b2 == [b1 EXCEPT !.code = packet[2]]
             b3 == [b2 EXCEPT !.message_id = id]
             b4 == [b3 EXCEPT !.token = token]
  <2>2. b1 \in Blocks /\ b1.szx = NoBlock.szx
    BY <1>6, NoBlockTyped DEF Blocks
  <2>3. parsed' = b4
    BY <1>4
  <2> HIDE DEF b1
  <2>4. b2 \in Blocks /\ b2.szx = b1.szx
    BY <2>1, <2>2 DEF Blocks
  <2> HIDE DEF b2
  <2>5. b3 \in Blocks /\ b3.szx = b2.szx
    BY <1>7, <2>4 DEF Blocks
  <2> HIDE DEF b3
  <2>6. b4 \in Blocks /\ b4.szx = b3.szx /\ b4.token = token
    BY <1>5, <2>5 DEF Blocks
  <2> HIDE DEF b4
  <2> QED BY <2>2, <2>3, <2>4, <2>5, <2>6
<1>9. TypeInv'
  <2>1. offset' \in Nat
    BY <1>3, <1>4
  <2>2. UNCHANGED <<builder, packet, result>> /\ phase' = "parsing"
    BY DEF ParseHeader
  <2> QED BY <1>4, <2>1, <2>2 DEF IInv, TypeInv, builder
<1>10. BuildInv'
  <2>1. ValidArguments' = ValidArguments /\ UNCHANGED <<input, output, built>> /\ phase = "parse"
    BY SameArguments DEF ParseHeader, builder
  <2> QED BY <1>4, <2>1 DEF IInv, BuildInv
<1>11. ParseInv'
  <2>1. offset' <= Len(packet') /\ phase' = "parsing"
    BY <1>1, <1>4 DEF ParseHeader
  <2>2. parsed'.szx <= 6 /\ Len(parsed'.token) <= 8
    BY <1>1, <1>5, <1>8, NoBlockTyped
  <2> QED BY <1>8, <2>1, <2>2 DEF ParseInv
<1> QED BY <1>9, <1>10, <1>11 DEF IInv

LEMMA DecodedTyped ==
  ASSUME NEW nibble \in 0 .. 14, NEW bytes \in Seq(Byte), NEW from \in Nat, from >= 1,
         from + ExtensionLength(nibble) <= Len(bytes) + 1
  PROVE  DecodeExtended(nibble, bytes, from) \in Nat
<1> DEFINE n == Len(bytes)
<1>1. n \in Nat /\ \A i \in 1 .. n : bytes[i] \in 0 .. 255
  <2>1. \A i \in 1 .. Len(bytes) : bytes[i] \in Byte
    OBVIOUS
  <2> QED BY <2>1 DEF Byte
<1>2. from + ExtensionLength(nibble) <= n + 1
  OBVIOUS
<1> HIDE DEF n
<1>3. CASE nibble < 13
  BY <1>3 DEF DecodeExtended
<1>4. CASE nibble = 13
  <2>1. from \in 1 .. n
    BY <1>1, <1>2, <1>4 DEF ExtensionLength
  <2>2. bytes[from] \in 0 .. 255
    BY <1>1, <2>1
  <2> DEFINE a == bytes[from]
  <2>3. DecodeExtended(nibble, bytes, from) = 13 + a
    BY <1>4 DEF DecodeExtended
  <2>4. a \in 0 .. 255
    BY <2>2
  <2> HIDE DEF a
  <2> QED BY <2>3, <2>4
<1>5. CASE nibble = 14
  <2>1. from \in 1 .. n /\ from + 1 \in 1 .. n
    BY <1>1, <1>2, <1>5 DEF ExtensionLength
  <2>2. bytes[from] \in 0 .. 255 /\ bytes[from + 1] \in 0 .. 255
    BY <1>1, <2>1
  <2> DEFINE a == bytes[from]
             b == bytes[from + 1]
  <2>3. DecodeExtended(nibble, bytes, from) = 269 + 256 * a + b
    BY <1>5 DEF DecodeExtended
  <2>4. a \in 0 .. 255 /\ b \in 0 .. 255
    BY <2>2
  <2> HIDE DEF a, b
  <2> QED BY <2>3, <2>4
<1> QED BY <1>3, <1>4, <1>5

\* An option the parser accepts lies within the packet.
LEMMA OptionWithin ==
  ASSUME IInv, MoreOptions, OptionComplete
  PROVE  /\ OptionDelta \in Nat /\ OptionLength \in Nat
         /\ ValueStart \in Nat /\ ValueStart > offset
         /\ ValueStart + OptionLength <= Len(packet)
         /\ OptionValue \in Seq(Byte) /\ Len(OptionValue) = OptionLength
<1> DEFINE n == Len(packet)
           dn == DeltaNibble
           ln == LengthNibble
           dx == ExtensionLength(dn)
           lx == ExtensionLength(ln)
           length == OptionLength
           start == ValueStart
<1>1. packet \in Seq(Byte) /\ n \in Nat /\ offset \in Nat /\ offset < n
  BY DEF IInv, TypeInv, MoreOptions
<1>2. packet[offset + 1] \in 0 .. 255
  <2>1. offset + 1 \in 1 .. n
    BY <1>1
  <2>2. packet[offset + 1] \in Byte
    BY <1>1, <2>1
  <2> QED BY <2>2 DEF Byte
<1>3. dn \in 0 .. 14 /\ ln \in 0 .. 14
  <2> DEFINE byte == packet[offset + 1]
  <2>1. dn = byte \div 16 /\ ln = byte % 16 /\ dn # 15 /\ ln # 15
    BY DEF OptionComplete, DeltaNibble, LengthNibble
  <2>2. byte \in 0 .. 255
    BY <1>2
  <2> HIDE DEF byte, dn, ln
  <2> QED BY <2>1, <2>2
<1>4. /\ start = offset + 1 + dx + lx /\ start <= n /\ length <= n - start
      /\ length = DecodeExtended(ln, packet, offset + 2 + dx)
      /\ OptionDelta = DecodeExtended(dn, packet, offset + 2)
  BY DEF OptionComplete, ValueStart, OptionLength, OptionDelta
<1> HIDE DEF n, dn, ln, start, length
<1>5. dx \in 0 .. 2 /\ lx \in 0 .. 2
  BY <1>3 DEF ExtensionLength
<1> HIDE DEF dx, lx
<1>6. start \in Nat /\ start > offset
  BY <1>1, <1>4, <1>5
<1>7. OptionDelta \in Nat
  <2>1. /\ offset + 2 \in Nat /\ offset + 2 >= 1 /\ offset + 2 + dx <= n + 1
    BY <1>1, <1>4, <1>5
  <2>2. offset + 2 + ExtensionLength(dn) <= Len(packet) + 1
    BY <2>1 DEF dx, n
  <2> QED BY <1>1, <1>3, <1>4, <2>1, <2>2, DecodedTyped
<1>8. length \in Nat
  <2>1. /\ offset + 2 + dx \in Nat /\ offset + 2 + dx >= 1 /\ offset + 2 + dx + lx <= n + 1
    BY <1>1, <1>4, <1>5
  <2>2. offset + 2 + dx + ExtensionLength(ln) <= Len(packet) + 1
    BY <2>1 DEF lx, n
  <2> QED BY <1>1, <1>3, <1>4, <2>1, <2>2, DecodedTyped
<1>9. start + length <= n
  BY <1>1, <1>4, <1>6, <1>8
<1>10. OptionValue \in Seq(Byte) /\ Len(OptionValue) = length
  <2>1. OptionValue = [i \in 1 .. length |-> packet[start + i]]
    BY DEF OptionValue, length, start
  <2>2. \A i \in 1 .. length : start + i \in 1 .. n
    BY <1>1, <1>6, <1>8, <1>9
  <2>3. \A i \in 1 .. length : packet[start + i] \in Byte
    BY <1>1, <2>2 DEF n
  <2>4. OptionValue \in [1 .. length -> Byte]
    BY <2>1, <2>3
  <2>5. OptionValue \in Seq(Byte)
    BY <1>8, <2>4, SeqDef
  <2>6. Len(OptionValue) = length
    BY <1>8, <2>4, <2>5, LenProperties
  <2> QED BY <2>5, <2>6
<1> QED BY <1>6, <1>7, <1>8, <1>9, <1>10 DEF n, start, length

\* What it stores keeps the block typed.
LEMMA StoredTyped ==
  ASSUME IInv, NEW number, OptionValue \in Seq(Byte), Len(OptionValue) = OptionLength,
         OptionLength \in Nat, Storable(number)
  PROVE  /\ Stored(number) \in Blocks /\ Stored(number).szx <= 6
         /\ Len(Stored(number).token) <= 8
<1>1. parsed \in Blocks /\ parsed.szx <= 6 /\ Len(parsed.token) <= 8
  BY DEF IInv, ParseInv
<1>2. CASE number \notin {ContentFormat, Block1, Size1}
  <2>1. Stored(number) = parsed
    BY <1>2 DEF Stored
  <2> QED BY <1>1, <2>1
<1>3. CASE number \in {ContentFormat, Block1, Size1}
  <2> DEFINE value == DecodeUint(OptionValue)
  <2>1. Len(OptionValue) \in 0 .. 4
    BY <1>3 DEF Storable
  <2>2. value \in Uint32
    BY <2>1, DecodedUint
  <2>3. number = Block1 => value[4] % 8 <= 6
    BY <1>3 DEF Storable
  <2>4. CASE number = ContentFormat
    <3>1. Stored(number) = [parsed EXCEPT !.content_format = value]
      BY <2>4 DEF Stored
    <3> HIDE DEF value
    <3> QED BY <1>1, <2>2, <3>1 DEF Blocks
  <2>5. CASE number = Size1
    <3>1. Stored(number) = [parsed EXCEPT !.size1 = value]
      BY <2>5 DEF Stored, Size1, ContentFormat, Block1
    <3> HIDE DEF value
    <3> QED BY <1>1, <2>2, <3>1 DEF Blocks
  <2>6. CASE number = Block1
    <3> DEFINE szx == value[4] % 8
               more == (value[4] \div 8) % 2
               n == NumberOf(value)
    <3>1. Stored(number) = [parsed EXCEPT !.szx = szx, !.more = more, !.block_number = n]
      BY <2>6 DEF Stored, ContentFormat, Block1
    <3>2. \A i \in 1 .. 4 : value[i] \in 0 .. 255
      BY <2>2 DEF Uint32, Byte
    <3> HIDE DEF value
    <3>3. szx \in Byte /\ szx <= 6 /\ more \in {0, 1}
      <4> DEFINE d == value[4]
      <4>1. d \in 0 .. 255 /\ szx = d % 8 /\ more = (d \div 8) % 2 /\ szx <= 6
        BY <2>3, <2>6, <3>2
      <4> HIDE DEF d, szx, more
      <4> QED BY <4>1 DEF Byte
    <3>4. n \in Nat
      <4> DEFINE a == value[1]
                 b == value[2]
                 c == value[3]
                 d == value[4]
      <4>1. a \in 0 .. 255 /\ b \in 0 .. 255 /\ c \in 0 .. 255 /\ d \in 0 .. 255
        BY <3>2
      <4>2. n = 1048576 * a + 4096 * b + 16 * c + d \div 16
        BY DEF NumberOf
      <4> HIDE DEF a, b, c, d, n
      <4>3. d \div 16 \in Nat
        BY <4>1
      <4> QED BY <4>1, <4>2, <4>3, SMT
    <3> HIDE DEF szx, more, n
    <3> QED BY <1>1, <3>1, <3>3, <3>4 DEF Blocks
  <2> QED BY <1>3, <2>4, <2>5, <2>6
<1> QED BY <1>2, <1>3

LEMMA ParseOptionStep ==
  ASSUME IInv, ParseOption
  PROVE  IInv'
<1>1. /\ OptionDelta \in Nat /\ OptionLength \in Nat
      /\ ValueStart \in Nat /\ ValueStart + OptionLength <= Len(packet)
      /\ OptionValue \in Seq(Byte) /\ Len(OptionValue) = OptionLength
  BY OptionWithin DEF ParseOption
<1>2. /\ option_number' = option_number + OptionDelta
      /\ parsed' = Stored(option_number') /\ Storable(option_number')
      /\ offset' = ValueStart + OptionLength /\ phase = "parsing"
      /\ UNCHANGED <<phase, builder, packet, result>> /\ found_block1' \in BOOLEAN
  BY DEF IInv, TypeInv, ParseOption
<1>3. option_number' \in Nat /\ offset' \in Nat /\ offset' <= Len(packet)
  BY <1>1, <1>2 DEF IInv, TypeInv
<1>4. parsed' \in Blocks /\ parsed'.szx <= 6 /\ Len(parsed'.token) <= 8
  BY <1>1, <1>2, StoredTyped
<1>5. TypeInv'
  BY <1>2, <1>3 DEF IInv, TypeInv, builder
<1>6. BuildInv'
  <2>1. ValidArguments' = ValidArguments /\ UNCHANGED <<input, output, built, phase>>
    BY <1>2, SameArguments DEF builder
  <2> QED BY <1>2, <2>1 DEF IInv, BuildInv
<1>7. ParseInv'
  BY <1>2, <1>3, <1>4 DEF ParseInv
<1> QED BY <1>5, <1>6, <1>7 DEF IInv

LEMMA ParseEndStep ==
  ASSUME IInv, ParseEnd
  PROVE  IInv'
<1> DEFINE payload == SubSeq(packet, offset + 2, Len(packet))
<1>1. parsed' = [parsed EXCEPT !.payload = payload] /\ ParseReturns("ok") /\ phase = "parsing"
  BY DEF ParseEnd
<1>2. payload \in Seq(Byte)
  <2>1. packet \in Seq(Byte) /\ offset \in Nat /\ Len(packet) \in Nat
    BY DEF IInv, TypeInv
  <2>2. \A i \in offset + 2 .. Len(packet) : packet[i] \in Byte
    BY <2>1
  <2> QED BY <2>1, <2>2, SubSeqProperties
<1> HIDE DEF payload
<1>3. parsed' \in Blocks /\ parsed'.szx <= 6 /\ Len(parsed'.token) <= 8
  BY <1>1, <1>2 DEF IInv, ParseInv, Blocks
<1> QED BY <1>1, <1>3, ParseReturnStep

LEMMA ParseStep ==
  ASSUME IInv, Parse
  PROVE  IInv'
<1>1. parsed \in Blocks /\ parsed.szx <= 6 /\ Len(parsed.token) <= 8
  BY DEF IInv, ParseInv
<1>2. CASE HeaderRefused
  BY <1>1, <1>2, ParseReturnStep DEF HeaderRefused
<1>3. CASE ParseHeader
  BY <1>3, ParseHeaderStep
<1>4. CASE ParseOption
  BY <1>4, ParseOptionStep
<1>5. CASE OptionRefused
  BY <1>1, <1>5, ParseReturnStep DEF OptionRefused
<1>6. CASE EndRefused
  BY <1>1, <1>6, ParseReturnStep DEF EndRefused
<1>7. CASE ParseEnd
  BY <1>7, ParseEndStep
<1> QED BY <1>2, <1>3, <1>4, <1>5, <1>6, <1>7 DEF Parse

LEMMA IdleStep ==
  ASSUME IInv, UNCHANGED vars
  PROVE  IInv'
  BY DEF IInv, TypeInv, BuildInv, ParseInv, vars, builder, parser, ValidArguments, Remain, Due, ValueOf

LEMMA Invariance == Spec => []IInv
<1>1. Init => IInv
  BY InitIInv
<1>2. IInv /\ [Next]_vars => IInv'
  BY BuildStep, WayStep, ParseStep, IdleStep DEF Next
<1> QED BY <1>1, <1>2, PTL DEF Spec

\* Whatever the call and whatever arrives, the builder stays within the
\* capacity it was given and the parser within the packet, and every field of
\* the block it fills is within the range of its type.
THEOREM WithinBuffersAlways == Spec => []WithinBuffers
<1>1. IInv => WithinBuffers
  BY DEF IInv, TypeInv, BuildInv, ParseInv, WithinBuffers, TypeOK, Numbers
<1> QED BY <1>1, Invariance, PTL

-----------------------------------------------------------------------------
\* What the associated data of a block determines.

\* A number is known by its four bytes, the first of which is not cut.
LEMMA NumberBytes ==
  ASSUME NEW m \in Nat, NEW n \in Nat, m \div 16777216 = n \div 16777216,
         (m \div 65536) % 256 = (n \div 65536) % 256,
         (m \div 256) % 256 = (n \div 256) % 256, m % 256 = n % 256
  PROVE  m = n
  BY SMT

Fixed(block) ==
  LET number == block.block_number
  IN <<161, block.type, block.code, block.szx, block.more, Len(block.token),
       number \div 16777216, (number \div 65536) % 256, (number \div 256) % 256, number % 256>>

LEMMA ThreeParts ==
  ASSUME NEW a \in Seq(Int), NEW b \in Seq(Int), NEW c \in Seq(Int)
  PROVE  LET all == a \o b \o c
         IN Stands(all, 0, a) /\ Stands(all, Len(a), b) /\ Stands(all, Len(a) + Len(b), c)
  BY DEF Stands

LEMMA AadParts ==
  ASSUME NEW block \in Blocks
  PROVE  LET aad == BuildAad(block)
         IN /\ \A i \in 1 .. 10 : aad[i] = Fixed(block)[i]
            /\ \A i \in 1 .. 4 : aad[10 + i] = TokenBytes(block.token)[i]
            /\ \A i \in 1 .. 2 : aad[14 + i] = block.content_format[2 + i]
<1> DEFINE token == TokenBytes(block.token)
           format == SubSeq(block.content_format, 3, 4)
           fixed == Fixed(block)
<1>1. BuildAad(block) = (fixed \o token) \o format
  BY SMT DEF BuildAad, Fixed
<1>2. fixed \in Seq(Int) /\ Len(fixed) = 10
  <2>1. /\ block.type \in Int /\ block.code \in Int /\ block.szx \in Int /\ block.more \in Int
        /\ Len(block.token) \in Int /\ block.block_number \in Int
    <3>1. /\ block.type \in 0 .. 3 /\ block.code \in Byte /\ block.szx \in Byte
          /\ block.more \in {0, 1} /\ block.token \in Seq(Byte) /\ block.block_number \in Nat
      BY BlockFields
    <3>2. block.type \in Int /\ block.more \in Int
      BY <3>1
    <3>3. block.code \in Int /\ block.szx \in Int
      <4>1. \A x \in Byte : x \in Int
        BY DEF Byte
      <4> QED BY <3>1, <4>1
    <3>4. Len(block.token) \in Int /\ block.block_number \in Int
      BY <3>1
    <3> QED BY <3>2, <3>3, <3>4
  <2> DEFINE n == block.block_number
  <2>2. /\ n \div 16777216 \in Int /\ (n \div 65536) % 256 \in Int
        /\ (n \div 256) % 256 \in Int /\ n % 256 \in Int
    BY <2>1, SMT
  <2> QED BY <2>1, <2>2, SMT DEF Fixed
<1>3. token \in Seq(Int) /\ Len(token) = 4
  <2>1. block.token \in Seq(Byte)
    BY BlockFields
  <2>2. \A i \in 1 .. 4 : i <= Len(block.token) => block.token[i] \in Byte
    BY <2>1
  <2>3. token \in [1 .. 4 -> Int]
    <3>1. \A x \in Byte : x \in Int
      BY DEF Byte
    <3> QED BY <2>2, <3>1 DEF TokenBytes
  <2>4. token \in Seq(Int)
    BY <2>3, SeqDef
  <2> QED BY <2>3, <2>4, LenProperties
<1>4. /\ format \in Seq(Int) /\ Len(format) = 2
      /\ \A i \in 1 .. 2 : format[i] = block.content_format[2 + i]
  <2>1. \A i \in 3 .. 4 : block.content_format[i] \in Int
    <3>1. block.content_format \in Uint32
      BY BlockFields
    <3> QED BY <3>1 DEF Uint32, Byte
  <2>2. /\ format \in Seq(Int) /\ Len(format) = 4 - 3 + 1
        /\ \A i \in 1 .. 4 - 3 + 1 : format[i] = block.content_format[3 + i - 1]
    BY <2>1, SubSeqProperties
  <2> QED BY <2>2
<1> HIDE DEF token, format, fixed
<1> DEFINE aad == BuildAad(block)
<1>5. Stands(aad, 0, fixed) /\ Stands(aad, 10, token) /\ Stands(aad, 14, format)
  <2>1. LET all == fixed \o token \o format
        IN Stands(all, 0, fixed) /\ Stands(all, 10, token) /\ Stands(all, 10 + 4, format)
    BY <1>2, <1>3, <1>4, ThreeParts
  <2>2. 10 + 4 = 14
    OBVIOUS
  <2> QED BY <1>1, <2>1, <2>2
<1> HIDE DEF aad
<1>6. \A i \in 1 .. 10 : aad[i] = fixed[i]
  BY <1>2, <1>5 DEF Stands
<1>7. \A i \in 1 .. 4 : aad[10 + i] = token[i]
  BY <1>3, <1>5 DEF Stands
<1>8. \A i \in 1 .. 2 : aad[14 + i] = format[i]
  BY <1>4, <1>5 DEF Stands
<1> QED BY <1>4, <1>6, <1>7, <1>8 DEF fixed, token, aad

\* Whatever happened to a packet that is accepted with the associated data of
\* the block sent, the receiver decides by the fields that were sent.
THEOREM HeaderBoundAlways == Spec => []HeaderBound
<1>1. IInv => HeaderBound
  <2> SUFFICES ASSUME IInv, Len(input.block.token) = 4, BuildAad(parsed) = BuildAad(input.block)
               PROVE  /\ parsed.block_number = input.block.block_number
                      /\ parsed.more = input.block.more
                      /\ parsed.szx = input.block.szx
                      /\ parsed.token = input.block.token
                      /\ parsed.type = input.block.type /\ parsed.code = input.block.code
                      /\ \A i \in {3, 4} : parsed.content_format[i] = input.block.content_format[i]
    BY DEF HeaderBound
  <2> DEFINE p == parsed
             b == input.block
  <2>1. p \in Blocks /\ b \in Blocks
    BY CallFields DEF IInv, ParseInv
  <2>2. \A i \in 1 .. 10 : Fixed(p)[i] = Fixed(b)[i]
    BY <2>1, AadParts
  <2>3. \A i \in 1 .. 4 : TokenBytes(p.token)[i] = TokenBytes(b.token)[i]
    BY <2>1, AadParts
  <2>4. \A i \in 1 .. 2 : p.content_format[2 + i] = b.content_format[2 + i]
    BY <2>1, AadParts
  <2>5. /\ p.type = b.type /\ p.code = b.code /\ p.szx = b.szx /\ p.more = b.more
        /\ Len(p.token) = Len(b.token)
    BY <2>2, SMT DEF Fixed
  <2>6. p.block_number = b.block_number
    <3> DEFINE m == p.block_number
               n == b.block_number
    <3>1. m \in Nat /\ n \in Nat
      BY <2>1, BlockFields
    <3>2. /\ m \div 16777216 = n \div 16777216 /\ (m \div 65536) % 256 = (n \div 65536) % 256
          /\ (m \div 256) % 256 = (n \div 256) % 256 /\ m % 256 = n % 256
      BY <2>2, SMT DEF Fixed
    <3> HIDE DEF m, n
    <3>3. m = n
      BY <3>1, <3>2, NumberBytes, SMT
    <3> QED BY <3>3 DEF m, n
  <2>7. p.token = b.token
    <3>1. p.token \in Seq(Byte) /\ b.token \in Seq(Byte) /\ Len(p.token) = 4 /\ Len(b.token) = 4
      BY <2>1, <2>5, BlockFields
    <3>2. \A i \in 1 .. 4 : p.token[i] = b.token[i]
      BY <2>3, <3>1 DEF TokenBytes
    <3> HIDE DEF p, b
    <3> QED BY <3>1, <3>2, SeqEqual
  <2>8. \A i \in {3, 4} : p.content_format[i] = b.content_format[i]
    <3>1. p.content_format[2 + 1] = b.content_format[2 + 1]
      BY <2>4
    <3>2. p.content_format[2 + 2] = b.content_format[2 + 2]
      BY <2>4
    <3> QED BY <3>1, <3>2
  <2> QED BY <2>5, <2>6, <2>7, <2>8
<1> QED BY <1>1, Invariance, PTL

-----------------------------------------------------------------------------
\* Where the options lie in the output.  A cut is a place between two options
\* with the number of the option before it; from the end of the header to the
\* end of the last option each cut has its next one.

Cut(at, number) == [at |-> at, number |-> number]
Cuts == [at : Nat, number : Numbers]

OptionBytes(c, d, value) == Encoded(c.number, Option(d.number, value))
Between(block, bytes, c, d, value) ==
  /\ value \in Seq(Byte) /\ Extendable(Len(value)) /\ Follows(block, c.number, d.number)
  /\ d.number \in {ContentFormat, Block1, Size1} => value = ValueOf(block, d.number)
  /\ d.at = c.at + Len(OptionBytes(c, d, value))
  /\ Stands(bytes, c.at, OptionBytes(c, d, value))

Start(block) == Cut(4 + Len(block.token), 0)
Layout(block, bytes, cuts, end) ==
  /\ cuts \subseteq Cuts /\ Start(block) \in cuts /\ end \in cuts
  /\ \A c \in cuts : c.at <= end.at
  /\ \A c \in cuts : c = end \/ \E d \in cuts : \E value : Between(block, bytes, c, d, value)

\* What an option between two cuts looks like.
LEMMA BetweenShape ==
  ASSUME NEW block, NEW bytes, NEW c \in Cuts, NEW d \in Cuts, NEW value,
         Between(block, bytes, c, d, value)
  PROVE  /\ Shape(OptionBytes(c, d, value), d.number - c.number, value)
         /\ c.number \in Nat /\ d.number \in Nat /\ c.number <= d.number
<1>1. /\ value \in Seq(Byte) /\ Extendable(Len(value)) /\ Follows(block, c.number, d.number)
      /\ c.number \in Numbers /\ d.number \in Numbers
  BY DEF Between, Cuts
<1>2. c.number <= d.number
  BY <1>1 DEF Follows, UriPath, ContentFormat, Block1, Size1
<1>3. c.number \in Nat /\ d.number \in Nat /\ d.number <= 60
  BY <1>1, NumberRange
<1> QED BY <1>1, <1>2, <1>3, EncodedShape DEF OptionBytes

\* Bytes that follow do not move what stands before them.
LEMMA StandsLonger ==
  ASSUME NEW bytes \in Seq(Byte), NEW more \in Seq(Byte), NEW from \in Nat, NEW part \in Seq(Byte),
         from + Len(part) <= Len(bytes), Stands(bytes, from, part)
  PROVE  Stands(bytes \o more, from, part)
<1>1. \A i \in 1 .. Len(bytes) : (bytes \o more)[i] = bytes[i]
  BY ConcatProperties
<1> SUFFICES ASSUME NEW i \in 1 .. Len(part) PROVE (bytes \o more)[from + i] = part[i]
  BY DEF Stands
<1>2. from + i \in 1 .. Len(bytes)
  OBVIOUS
<1>3. bytes[from + i] = part[i]
  BY DEF Stands
<1> QED BY <1>1, <1>2, <1>3

LEMMA BetweenLonger ==
  ASSUME NEW block, NEW bytes \in Seq(Byte), NEW more \in Seq(Byte), NEW c \in Cuts, NEW d \in Cuts,
         NEW value, Between(block, bytes, c, d, value), d.at <= Len(bytes)
  PROVE  Between(block, bytes \o more, c, d, value)
<1> DEFINE E == OptionBytes(c, d, value)
<1>1. E \in Seq(Byte)
  BY BetweenShape DEF Shape
<1>2. d.at = c.at + Len(E) /\ Stands(bytes, c.at, E) /\ c.at \in Nat
  BY DEF Between, Cuts
<1> HIDE DEF E
<1>3. Stands(bytes \o more, c.at, E)
  BY <1>1, <1>2, StandsLonger
<1> QED BY <1>3 DEF Between, E

LEMMA LayoutLonger ==
  ASSUME NEW block, NEW bytes \in Seq(Byte), NEW more \in Seq(Byte), NEW cuts, NEW end,
         Layout(block, bytes, cuts, end), end.at <= Len(bytes)
  PROVE  Layout(block, bytes \o more, cuts, end)
<1> SUFFICES ASSUME NEW c \in cuts, c # end
             PROVE  \E d \in cuts : \E value : Between(block, bytes \o more, c, d, value)
  BY DEF Layout
<1>1. PICK d \in cuts : \E value : Between(block, bytes, c, d, value)
  BY DEF Layout
<1>2. PICK value : Between(block, bytes, c, d, value)
  BY <1>1
<1>3. c \in Cuts /\ d \in Cuts /\ end \in Cuts /\ d.at <= end.at
  BY DEF Layout
<1>4. d.at <= Len(bytes)
  BY <1>3 DEF Cuts
<1> QED BY <1>2, <1>3, <1>4, BetweenLonger

\* Another option is appended.
LEMMA LayoutGrows ==
  ASSUME NEW block, NEW bytes \in Seq(Byte), NEW cuts, NEW end, end.at = Len(bytes),
         Layout(block, bytes, cuts, end),
         NEW number, NEW value \in Seq(Byte), Extendable(Len(value)), number \in Numbers,
         Follows(block, end.number, number),
         number \in {ContentFormat, Block1, Size1} => value = ValueOf(block, number),
         NEW more, more = Encoded(end.number, Option(number, value)), more \in Seq(Byte)
  PROVE  LET next == Cut(Len(bytes) + Len(more), number)
         IN Layout(block, bytes \o more, cuts \cup {next}, next)
<1> DEFINE next == Cut(Len(bytes) + Len(more), number)
           all == bytes \o more
<1>1. next \in Cuts /\ next.at = Len(bytes) + Len(more) /\ next.number = number
  BY DEF Cuts, Cut
<1>2. Layout(block, all, cuts, end)
  <2>1. end.at <= Len(bytes)
    OBVIOUS
  <2> QED BY <2>1, LayoutLonger
<1>3. end \in Cuts
  BY DEF Layout
<1>4. Between(block, all, end, next, value)
  <2>1. OptionBytes(end, next, value) = more
    BY <1>1 DEF OptionBytes
  <2>2. Stands(all, Len(bytes), more)
    BY TwoParts
  <2> HIDE DEF next, all
  <2> QED BY <1>1, <2>1, <2>2 DEF Between
<1> HIDE DEF next, all
<1>5. ASSUME NEW c \in cuts \cup {next} PROVE c.at <= next.at
  <2>1. CASE c = next
    BY <1>1, <2>1 DEF Cuts
  <2>2. CASE c \in cuts
    <3>1. c.at <= end.at /\ c \in Cuts
      BY <2>2 DEF Layout
    <3>2. c.at \in Nat /\ Len(bytes) \in Nat /\ Len(more) \in Nat
      BY <3>1 DEF Cuts
    <3> QED BY <1>1, <3>1, <3>2
  <2> QED BY <2>1, <2>2
<1>6. ASSUME NEW c \in cuts \cup {next}
      PROVE  c = next \/ \E d \in cuts \cup {next} : \E v : Between(block, all, c, d, v)
  <2>1. CASE c = end
    BY <1>4, <2>1
  <2>2. CASE c \in cuts /\ c # end
    BY <1>2, <2>2 DEF Layout
  <2> QED BY <2>1, <2>2
<1>7. cuts \cup {next} \subseteq Cuts /\ Start(block) \in cuts
  BY <1>1 DEF Layout
<1>8. Layout(block, all, cuts \cup {next}, next)
  BY <1>5, <1>6, <1>7 DEF Layout
<1> QED BY <1>8 DEF next, all

\* The whole packet: the last option, then the payload if there is one.
LastNumber(block) == IF block.size1 # Zero THEN Size1 ELSE Block1
Ends(block, bytes, at) ==
  IF block.payload = <<>> THEN Len(bytes) = at
  ELSE /\ Len(bytes) = at + 1 + Len(block.payload)
       /\ bytes[at + 1] = PayloadMarker /\ Stands(bytes, at + 1, block.payload)
Complete(block, bytes, cuts, end) ==
  /\ Layout(block, bytes, cuts, end) /\ end.number = LastNumber(block)
  /\ Ends(block, bytes, end.at)

WrittenInv ==
  /\ phase \in {"path", "options"} =>
        /\ Stands(output, 0, Header(input.block))
        /\ \E cuts : Layout(input.block, output, cuts, Cut(Len(output), previous_option))
  /\ built = "ok" =>
        /\ Stands(output, 0, Header(input.block))
        /\ \E cuts : \E end : Complete(input.block, output, cuts, end)

\* What follows the header leaves it in place.
LEMMA HeaderStays ==
  ASSUME IInv, ValidArguments, Stands(output, 0, Header(input.block)), NEW more \in Seq(Byte),
         NEW cuts, NEW end, Layout(input.block, output, cuts, end), end.at <= Len(output)
  PROVE  Stands(output \o more, 0, Header(input.block))
<1> DEFINE header == Header(input.block)
<1>1. header \in Seq(Byte) /\ Len(header) = 4 + Len(input.block.token)
  BY HeaderFacts DEF IInv
<1>2. 4 + Len(input.block.token) <= end.at /\ end.at \in Nat
  <2>1. Start(input.block).at = 4 + Len(input.block.token)
    BY DEF Start, Cut
  <2> QED BY <2>1 DEF Layout, Cuts
<1>3. output \in Seq(Byte) /\ input.block.token \in Seq(Byte)
  BY CallFields DEF IInv, TypeInv
<1> HIDE DEF header
<1>4. 0 + Len(header) <= Len(output)
  BY <1>1, <1>2, <1>3
<1>5. Stands(output \o more, 0, header)
  BY <1>1, <1>3, <1>4, StandsLonger DEF header
<1> QED BY <1>5 DEF header

LEMMA HeaderWritten ==
  ASSUME IInv, BuildHeader
  PROVE  WrittenInv'
<1> DEFINE block == input.block
           start == Start(block)
<1>1. /\ ValidArguments /\ output' = Header(block) /\ phase = "build" /\ phase' = "path"
      /\ UNCHANGED <<input, previous_option, built>>
  BY DEF BuildHeader
<1>2. Header(block) \in Seq(Byte) /\ Len(Header(block)) = 4 + Len(block.token)
  BY <1>1, HeaderFacts DEF IInv
<1>3. Stands(output', 0, Header(block))
  BY <1>1, <1>2 DEF Stands
<1>4. Cut(Len(output'), previous_option') = start
  BY <1>1, <1>2 DEF Start, IInv, BuildInv
<1>5. Layout(block, output', {start}, start)
  <2>1. start \in Cuts /\ start.at \in Nat
    <3>1. 4 + Len(block.token) \in Nat
      BY CallFields DEF IInv
    <3> QED BY <3>1 DEF Start, Cut, Cuts, Numbers
  <2> HIDE DEF start
  <2>2. start.at <= start.at
    BY <2>1
  <2> QED BY <2>1, <2>2 DEF Layout, start
<1>6. built' # "ok"
  BY <1>1 DEF IInv, BuildInv, Busy
<1> HIDE DEF start
<1>7. \E cuts : Layout(block, output', cuts, Cut(Len(output'), previous_option'))
  BY <1>4, <1>5
<1> QED BY <1>1, <1>3, <1>6, <1>7 DEF WrittenInv

\* append_option in either phase.
LEMMA OptionLaid ==
  ASSUME IInv, WrittenInv, phase \in {"path", "options"}, phase' = phase, UNCHANGED <<input, built>>,
         NEW number, NEW value \in Seq(Byte), append_option(Option(number, value)),
         Follows(input.block, previous_option, number),
         number \in {ContentFormat, Block1, Size1} => value = ValueOf(input.block, number)
  PROVE  WrittenInv'
<1> DEFINE block == input.block
           end == Cut(Len(output), previous_option)
           more == Encoded(previous_option, Option(number, value))
           next == Cut(Len(output'), number)
<1>1. TypeInv /\ ValidArguments
  BY DEF IInv, BuildInv
<1>2. /\ number \in Numbers /\ previous_option' = number /\ Extendable(Len(value))
      /\ Shape(more, number - previous_option, value)
      /\ output' = output \o more /\ Len(output') = Len(output) + Len(more)
  BY <1>1, OptionWritten
<1>3. PICK cuts : Layout(block, output, cuts, end)
  BY DEF WrittenInv
<1>4. end.at = Len(output) /\ end.number = previous_option
  BY DEF Cut
<1>5. output \in Seq(Byte) /\ more \in Seq(Byte)
  BY <1>1, <1>2 DEF TypeInv, Shape
<1>6. more = Encoded(end.number, Option(number, value))
  BY <1>4
<1> HIDE DEF end, more, block
<1>7. Layout(block, output \o more, cuts \cup {Cut(Len(output) + Len(more), number)},
             Cut(Len(output) + Len(more), number))
  BY <1>2, <1>3, <1>4, <1>5, <1>6, LayoutGrows DEF block
<1>8. \E c : Layout(block, output', c, Cut(Len(output'), previous_option'))
  BY <1>2, <1>7
<1>9. Stands(output', 0, Header(block))
  <2>1. end.at <= Len(output) /\ Stands(output, 0, Header(block))
    BY <1>4, <1>5 DEF WrittenInv, block
  <2>2. Stands(output \o more, 0, Header(block))
    BY <1>1, <1>3, <1>5, <2>1, HeaderStays DEF block
  <2> QED BY <1>2, <2>2
<1>10. built' # "ok"
  BY DEF IInv, BuildInv, Busy
<1> QED BY <1>8, <1>9, <1>10 DEF WrittenInv, block

LEMMA PayloadLaid ==
  ASSUME IInv, WrittenInv, AppendPayload
  PROVE  WrittenInv'
<1> DEFINE block == input.block
           end == Cut(Len(output), previous_option)
           tail == <<PayloadMarker>> \o block.payload
<1>1. /\ phase = "options" /\ pending = <<>> /\ phase' = "built" /\ UNCHANGED input
      /\ ValidArguments
  BY DEF AppendPayload, IInv, BuildInv
<1>2. PICK cuts : Layout(block, output, cuts, end)
  BY <1>1 DEF WrittenInv
<1>3. end.at = Len(output) /\ end.number = LastNumber(block)
  <2>1. Remain(block, previous_option, <<>>)
    BY <1>1 DEF IInv, BuildInv
  <2>2. previous_option = LastNumber(block)
    BY <2>1 DEF Remain, LastNumber
  <2> QED BY <2>2 DEF Cut
<1>4. Stands(output, 0, Header(block)) /\ output \in Seq(Byte)
  BY <1>1 DEF WrittenInv, IInv, TypeInv
<1> HIDE DEF end
<1>5. Stands(output', 0, Header(block)) /\ Layout(block, output', cuts, end) /\ Ends(block, output', end.at)
  <2>1. CASE block.payload = <<>>
    <3>1. output' = output
      BY <2>1 DEF AppendPayload
    <3> QED BY <1>2, <1>3, <1>4, <2>1, <3>1 DEF Ends
  <2>2. CASE block.payload # <<>>
    <3>1. output' = output \o tail /\ tail \in Seq(Byte) /\ Len(tail) = 1 + Len(block.payload)
      BY <2>2, PayloadWritten
    <3>2. block.payload \in Seq(Byte) /\ <<PayloadMarker>> \in Seq(Byte) /\ Len(<<PayloadMarker>>) = 1
      BY CallFields DEF IInv, PayloadMarker, Byte
    <3>3. Stands(tail, 0, <<PayloadMarker>>) /\ Stands(tail, 1, block.payload)
      BY <3>2, TwoParts
    <3> HIDE DEF tail, block
    <3>4. Stands(output', Len(output), tail) /\ Len(output') = Len(output) + Len(tail)
      BY <1>4, <3>1, TwoParts
    <3>5. end.at <= Len(output)
      BY <1>3, <1>4
    <3>6. Stands(output', 0, Header(block)) /\ Layout(block, output', cuts, end)
      BY <1>1, <1>2, <1>4, <3>1, <3>5, HeaderStays, LayoutLonger DEF block
    <3>7. tail[1] = PayloadMarker /\ \A i \in 1 .. Len(block.payload) : tail[1 + i] = block.payload[i]
      <4>1. tail[0 + 1] = PayloadMarker
        BY <3>2, <3>3 DEF Stands
      <4> QED BY <3>3, <4>1 DEF Stands
    <3>8. output'[Len(output) + 1] = PayloadMarker
      BY <3>1, <3>2, <3>4, <3>7 DEF Stands
    <3>9. Stands(output', Len(output) + 1, block.payload)
      <4> SUFFICES ASSUME NEW i \in 1 .. Len(block.payload)
                   PROVE  output'[Len(output) + 1 + i] = block.payload[i]
        BY DEF Stands
      <4>1. 1 + i \in 1 .. Len(tail) /\ Len(output) + (1 + i) = Len(output) + 1 + i
        BY <1>4, <3>1, <3>2
      <4>2. output'[Len(output) + (1 + i)] = tail[1 + i]
        BY <3>4, <4>1 DEF Stands
      <4> QED BY <3>7, <4>1, <4>2
    <3>10. Len(output') = Len(output) + 1 + Len(block.payload)
      <4>1. Len(output) \in Nat /\ Len(block.payload) \in Nat
        BY <1>4, <3>2
      <4>2. Len(tail) = 1 + Len(block.payload) /\ Len(output') = Len(output) + Len(tail)
        BY <3>1, <3>4
      <4> DEFINE before == Len(output)
                 after == Len(output')
                 length == Len(block.payload)
                 added == Len(tail)
      <4>3. before \in Nat /\ length \in Nat /\ added = 1 + length /\ after = before + added
        BY <4>1, <4>2
      <4> HIDE DEF before, after, length, added
      <4>4. after = before + 1 + length
        BY <4>3
      <4> QED BY <4>4 DEF before, after, length
    <3> QED BY <1>3, <2>2, <3>6, <3>8, <3>9, <3>10 DEF Ends, block
  <2> QED BY <2>1, <2>2
<1>6. Complete(block, output', cuts, end)
  BY <1>3, <1>5 DEF Complete
<1> QED BY <1>1, <1>5, <1>6 DEF WrittenInv

LEMMA BuildLaid ==
  ASSUME IInv, WrittenInv, Build
  PROVE  WrittenInv'
<1>1. ASSUME NEW status, status # "ok", BuildReturns(status) PROVE WrittenInv'
  BY <1>1 DEF BuildReturns, WrittenInv
<1>2. CASE BuildRefused
  BY <1>1, <1>2 DEF BuildRefused
<1>3. CASE BuildHeader
  BY <1>3, HeaderWritten
<1>4. CASE SkipSlash
  BY <1>4 DEF SkipSlash, WrittenInv
<1>5. CASE AppendSegment
  <2>1. /\ Head(cursor) \in Seq(Byte) /\ Follows(input.block, previous_option, UriPath)
        /\ append_option(Option(UriPath, Head(cursor))) /\ UriPath \notin {ContentFormat, Block1, Size1}
    BY <1>5, SegmentDue DEF AppendSegment, Segment, UriPath, ContentFormat, Block1, Size1
  <2>2. phase = "path" /\ UNCHANGED <<phase, input, built>>
    BY <1>5 DEF AppendSegment
  <2> QED BY <2>1, <2>2, OptionLaid
<1>6. CASE SegmentDoesNotFit
  BY <1>1, <1>6 DEF SegmentDoesNotFit, DoesNotFit
<1>7. CASE PathEnd
  BY <1>7 DEF PathEnd, WrittenInv
<1>8. CASE PathRefused
  BY <1>1, <1>8 DEF PathRefused
<1>9. CASE AppendOption
  <2>1. /\ phase = "options" /\ pending # <<>> /\ append_option(Head(pending))
        /\ UNCHANGED <<phase, input, built>> /\ Remain(input.block, previous_option, pending)
        /\ ValidArguments
    BY <1>9 DEF AppendOption, IInv, BuildInv
  <2>2. PICK number : /\ Head(pending) = Due(input.block, number)
                      /\ Follows(input.block, previous_option, number)
    BY <2>1, NextDue
  <2>3. /\ ValueOf(input.block, number) \in Seq(Byte)
        /\ append_option(Option(number, ValueOf(input.block, number)))
    BY <2>1, <2>2, ValueFacts DEF Due, IInv
  <2> QED BY <2>1, <2>2, <2>3, OptionLaid
<1>10. CASE OptionDoesNotFit
  BY <1>1, <1>10 DEF OptionDoesNotFit, DoesNotFit
<1>11. CASE AppendPayload
  BY <1>11, PayloadLaid
<1>12. CASE PayloadDoesNotFit
  BY <1>1, <1>12 DEF PayloadDoesNotFit
<1> QED BY <1>2, <1>3, <1>4, <1>5, <1>6, <1>7, <1>8, <1>9, <1>10, <1>11, <1>12 DEF Build

-----------------------------------------------------------------------------
\* What the parser makes of a packet that was at most cut short: after the
\* option numbered "number" it knows these fields of the block.

Known(block, number) ==
  LET formatted == number \in {ContentFormat, Block1, Size1}
      numbered == number \in {Block1, Size1}
  IN [type |-> block.type, code |-> block.code, message_id |-> block.message_id,
      token |-> block.token,
      block_number |-> IF numbered THEN block.block_number ELSE 0,
      more |-> IF numbered THEN block.more ELSE 0,
      szx |-> IF numbered THEN block.szx ELSE 0,
      content_format |-> IF formatted THEN block.content_format ELSE Zero,
      size1 |-> IF number = Size1 THEN block.size1 ELSE Zero,
      payload |-> <<>>]

Genuine == Len(packet) <= Len(output) /\ \A i \in 1 .. Len(packet) : packet[i] = output[i]

\* The parser is between two options of the packet that was sent.
Reading(cuts, end) ==
  /\ Complete(input.block, output, cuts, end)
  /\ Cut(offset, option_number) \in cuts
  /\ parsed = Known(input.block, option_number)
  /\ found_block1 <=> option_number \in {Block1, Size1}

ArrivedInv == phase \in {"parse", "parsing", "done"} => Genuine \/ Len(packet) = Len(output)
ReadInv == phase = "parsing" /\ Genuine => \E cuts : \E end : Reading(cuts, end)

\* The fields an option carries are those of the block.
LEMMA StoredKnown ==
  ASSUME IInv, ValidArguments, NEW previous, NEW number, Follows(input.block, previous, number),
         parsed = Known(input.block, previous), OptionLength = Len(OptionValue),
         number \in {ContentFormat, Block1, Size1} => OptionValue = ValueOf(input.block, number)
  PROVE  Storable(number) /\ Stored(number) = Known(input.block, number)
<1> DEFINE block == input.block
           value == DecodeUint(OptionValue)
<1>1. /\ ValueOf(block, number) \in Seq(Byte) /\ Len(ValueOf(block, number)) \in 0 .. 4
      /\ DecodeUint(ValueOf(block, number)) =
           IF number = ContentFormat THEN block.content_format
           ELSE IF number = Block1 THEN BlockValue(block) ELSE block.size1
  BY ValueFacts DEF IInv
<1>2. /\ BlockValue(block)[4] % 8 = block.szx
      /\ (BlockValue(block)[4] \div 8) % 2 = block.more
      /\ NumberOf(BlockValue(block)) = block.block_number /\ block.szx <= 6
  BY CallFields, BlockRead DEF IInv, ValidArguments
<1> HIDE DEF block
<1>3. CASE number = UriPath
  <2>1. previous \in {0, UriPath}
    BY <1>3 DEF Follows, UriPath, ContentFormat, Block1, Size1
  <2>2. /\ number \notin {ContentFormat, Block1, Size1} /\ number \notin {Block1, Size1} /\ number # Size1
        /\ previous \notin {ContentFormat, Block1, Size1} /\ previous \notin {Block1, Size1}
        /\ previous # Size1
    BY <1>3, <2>1 DEF UriPath, ContentFormat, Block1, Size1
  <2>3. Known(block, number) = Known(block, previous)
    BY <2>2 DEF Known
  <2> QED BY <2>2, <2>3 DEF Storable, Stored, block
<1>4. CASE number = ContentFormat
  <2>1. previous = UriPath
    BY <1>4 DEF Follows, UriPath, ContentFormat, Block1, Size1
  <2>2. OptionValue = ValueOf(block, number)
    BY <1>4 DEF block
  <2>3. value = block.content_format /\ OptionLength \in 0 .. 4
    BY <1>1, <1>4, <2>2
  <2>4. /\ number \in {ContentFormat, Block1, Size1} /\ number \notin {Block1, Size1} /\ number # Size1
        /\ previous \notin {ContentFormat, Block1, Size1} /\ previous \notin {Block1, Size1}
        /\ previous # Size1
    BY <1>4, <2>1 DEF UriPath, ContentFormat, Block1, Size1
  <2>5. Known(block, number) = [Known(block, previous) EXCEPT !.content_format = block.content_format]
    BY <2>4 DEF Known
  <2>6. Stored(number) = [parsed EXCEPT !.content_format = value]
    BY <1>4 DEF Stored
  <2>7. Storable(number)
    BY <1>4, <2>3 DEF Storable, ContentFormat, Block1
  <2> QED BY <2>3, <2>5, <2>6, <2>7 DEF block
<1>5. CASE number = Block1
  <2>1. previous = ContentFormat
    BY <1>5 DEF Follows, UriPath, ContentFormat, Block1, Size1
  <2>2. OptionValue = ValueOf(block, number)
    BY <1>5 DEF block
  <2>3. value = BlockValue(block) /\ OptionLength \in 0 .. 4
    BY <1>1, <1>5, <2>2 DEF ContentFormat, Block1
  <2>4. /\ number \in {ContentFormat, Block1, Size1} /\ number \in {Block1, Size1} /\ number # Size1
        /\ previous \in {ContentFormat, Block1, Size1} /\ previous \notin {Block1, Size1}
        /\ previous # Size1
    BY <1>5, <2>1 DEF UriPath, ContentFormat, Block1, Size1
  <2> HIDE DEF value
  <2>5. Known(block, number) = [Known(block, previous) EXCEPT !.szx = block.szx, !.more = block.more,
                                                             !.block_number = block.block_number]
    <3> DEFINE Fields(szx, more, n) ==
                 [type |-> block.type, code |-> block.code, message_id |-> block.message_id,
                  token |-> block.token, block_number |-> n, more |-> more, szx |-> szx,
                  content_format |-> block.content_format, size1 |-> Zero, payload |-> <<>>]
    <3>1. Known(block, previous) = Fields(0, 0, 0)
      BY <2>4 DEF Known
    <3>2. Known(block, number) = Fields(block.szx, block.more, block.block_number)
      BY <2>4 DEF Known
    <3> DEFINE K == Known(block, previous)
               x == block.szx
               m == block.more
               n == block.block_number
    <3>3. [K EXCEPT !.szx = x, !.more = m, !.block_number = n]
          = [[[K EXCEPT !.szx = x] EXCEPT !.more = m] EXCEPT !.block_number = n]
      <4> HIDE DEF K, x, m, n
      <4> QED OBVIOUS
    <3>4. [K EXCEPT !.szx = x] = Fields(x, 0, 0)
      BY <3>1
    <3>5. [Fields(x, 0, 0) EXCEPT !.more = m] = Fields(x, m, 0)
      OBVIOUS
    <3>6. [Fields(x, m, 0) EXCEPT !.block_number = n] = Fields(x, m, n)
      OBVIOUS
    <3> HIDE DEF Fields
    <3> QED BY <3>2, <3>3, <3>4, <3>5, <3>6
  <2>6. Stored(number) = [parsed EXCEPT !.szx = value[4] % 8, !.more = (value[4] \div 8) % 2,
                                        !.block_number = NumberOf(value)]
    BY <1>5 DEF Stored, ContentFormat, Block1, value
  <2>7. Stored(number) = [parsed EXCEPT !.szx = block.szx, !.more = block.more,
                                        !.block_number = block.block_number]
    BY <1>2, <2>3, <2>6
  <2>8. Storable(number)
    <3>1. value[4] % 8 <= 6
      BY <1>2, <2>3
    <3>2. number = Block1 => DecodeUint(OptionValue)[4] % 8 <= 6
      BY <3>1 DEF value
    <3> QED BY <2>3, <3>2 DEF Storable
  <2> QED BY <2>5, <2>7, <2>8 DEF block
<1>6. CASE number = Size1
  <2>1. previous = Block1
    BY <1>6 DEF Follows, UriPath, ContentFormat, Block1, Size1
  <2>2. OptionValue = ValueOf(block, number)
    BY <1>6 DEF block
  <2>3. value = block.size1 /\ OptionLength \in 0 .. 4
    BY <1>1, <1>6, <2>2 DEF ContentFormat, Block1, Size1
  <2>4. /\ number \in {ContentFormat, Block1, Size1} /\ number \in {Block1, Size1}
        /\ previous \in {ContentFormat, Block1, Size1} /\ previous \in {Block1, Size1}
        /\ previous # Size1
    BY <1>6, <2>1 DEF UriPath, ContentFormat, Block1, Size1
  <2>5. Known(block, number) = [Known(block, previous) EXCEPT !.size1 = block.size1]
    BY <1>6, <2>4 DEF Known
  <2>6. Stored(number) = [parsed EXCEPT !.size1 = value]
    BY <1>6 DEF Stored, ContentFormat, Block1, Size1
  <2>7. Storable(number)
    BY <1>6, <2>3 DEF Storable, Block1, Size1
  <2> QED BY <2>3, <2>5, <2>6, <2>7 DEF block
<1> QED BY <1>3, <1>4, <1>5, <1>6 DEF Follows

LEMMA FirstByte ==
  ASSUME NEW type \in 0 .. 3, NEW length \in 0 .. 8
  PROVE  LET byte == 64 + 16 * type + length
         IN byte % 16 = length /\ (byte \div 16) % 4 = type /\ byte \div 64 = 1
<1> DEFINE byte == 64 + 16 * type + length
<1>1. byte = 16 * (4 + type) + length /\ byte \div 16 = 4 + type
  OBVIOUS
<1>2. byte % 16 = length /\ byte \div 64 = 1
  OBVIOUS
<1>3. (4 + type) % 4 = type
  OBVIOUS
<1> QED BY <1>1, <1>2, <1>3

\* The header of the packet is that of the block.
LEMMA HeaderRead ==
  ASSUME IInv, ValidArguments, Genuine, Stands(output, 0, Header(input.block)),
         Len(packet) >= 4
  PROVE  /\ TokenLength = Len(input.block.token) /\ packet[1] \div 64 = 1 /\ TokenLength \in 0 .. 8
         /\ (packet[1] \div 16) % 4 = input.block.type
         /\ packet[2] = input.block.code
         /\ 256 * packet[3] + packet[4] = input.block.message_id
         /\ Len(packet) >= 4 + TokenLength => SubSeq(packet, 5, 4 + TokenLength) = input.block.token
<1> DEFINE block == input.block
           header == Header(block)
           token == block.token
           n == Len(token)
           m == Len(packet)
<1>1. /\ header \in Seq(Byte) /\ Len(header) = 4 + n
      /\ header[1] = 64 + 16 * block.type + n
      /\ header[2] = block.code /\ header[3] = block.message_id \div 256
      /\ header[4] = block.message_id % 256
      /\ Stands(header, 4, token)
  BY HeaderFacts DEF IInv
<1>2. /\ block.type \in 0 .. 3 /\ block.message_id \in Nat /\ token \in Seq(Byte) /\ n \in Nat
      /\ packet \in Seq(Byte) /\ m \in Nat
  <2>1. block.message_id \in Uint16 /\ block.type \in 0 .. 3 /\ token \in Seq(Byte)
    BY CallFields, BlockFields DEF IInv
  <2>2. \A x \in Uint16 : x \in Nat
    BY Words
  <2> QED BY <2>1, <2>2 DEF IInv, TypeInv
<1>2a. n \in Nat /\ n <= 8
  BY <1>2 DEF ValidArguments
<1> HIDE DEF block, header, n
<1>3. n \in 0 .. 8
  BY <1>2a
<1>4. \A i \in 1 .. m : i <= 4 + n => packet[i] = header[i]
  <2> SUFFICES ASSUME NEW i \in 1 .. m, i <= 4 + n PROVE packet[i] = header[i]
    OBVIOUS
  <2>1. packet[i] = output[i]
    BY DEF Genuine
  <2>2. i \in 1 .. Len(header) /\ 0 + i = i
    BY <1>1, <1>2
  <2>3. output[0 + i] = header[i]
    BY <2>2 DEF Stands, header, block
  <2> QED BY <2>1, <2>2, <2>3
<1>5. m >= 4
  OBVIOUS
<1> HIDE DEF m
<1>6. packet[1] = header[1] /\ packet[2] = header[2] /\ packet[3] = header[3] /\ packet[4] = header[4]
  <2>1. 1 \in 1 .. m /\ 2 \in 1 .. m /\ 3 \in 1 .. m /\ 4 \in 1 .. m
    BY <1>2, <1>5
  <2>2. 1 <= 4 + n /\ 2 <= 4 + n /\ 3 <= 4 + n /\ 4 <= 4 + n
    BY <1>3
  <2> QED BY <1>4, <2>1, <2>2
<1>7. TokenLength = n /\ packet[1] \div 64 = 1 /\ (packet[1] \div 16) % 4 = block.type
  <2> DEFINE type == block.type
             byte == packet[1]
  <2>1. type \in 0 .. 3 /\ byte = 64 + 16 * type + n /\ TokenLength = byte % 16
    BY <1>1, <1>2, <1>6 DEF TokenLength
  <2> HIDE DEF type, byte
  <2>2. byte % 16 = n /\ (byte \div 16) % 4 = type /\ byte \div 64 = 1
    BY <1>3, <2>1, FirstByte
  <2> QED BY <2>1, <2>2 DEF type, byte
<1>8. 256 * packet[3] + packet[4] = block.message_id
  <2> DEFINE id == block.message_id
  <2>1. packet[3] = id \div 256 /\ packet[4] = id % 256 /\ id \in Nat
    BY <1>1, <1>2, <1>6
  <2> HIDE DEF id
  <2>2. 256 * (id \div 256) + (id % 256) = id
    BY <2>1
  <2> QED BY <2>1, <2>2 DEF id
<1>9. ASSUME m >= 4 + n PROVE SubSeq(packet, 5, 4 + n) = token
  <2> DEFINE sub == SubSeq(packet, 5, 4 + n)
  <2>1. \A i \in 5 .. 4 + n : packet[i] \in Byte
    BY <1>2, <1>3, <1>9 DEF m
  <2>2. /\ sub \in Seq(Byte) /\ Len(sub) = n
        /\ \A i \in 1 .. n : sub[i] = packet[4 + i]
    <3>1. /\ sub \in Seq(Byte) /\ Len(sub) = IF 5 <= 4 + n THEN 4 + n - 5 + 1 ELSE 0
          /\ \A i \in 1 .. 4 + n - 5 + 1 : sub[i] = packet[5 + i - 1]
      BY <1>3, <2>1, SubSeqProperties
    <3> HIDE DEF sub
    <3>2. \A i \in 1 .. n : i \in 1 .. 4 + n - 5 + 1 /\ 5 + i - 1 = 4 + i
      BY <1>3
    <3>3. Len(sub) = n
      BY <1>3, <3>1
    <3> QED BY <3>1, <3>2, <3>3
  <2> HIDE DEF sub
  <2>3. ASSUME NEW i \in 1 .. n PROVE sub[i] = token[i]
    <3>1. 4 + i \in 1 .. m /\ 4 + i <= 4 + n
      BY <1>2, <1>3, <1>9
    <3>2. packet[4 + i] = header[4 + i]
      BY <1>4, <3>1
    <3>3. header[4 + i] = token[i]
      BY <1>1 DEF Stands, n
    <3> QED BY <2>2, <3>2, <3>3
  <2>4. Len(sub) = Len(token) /\ \A i \in 1 .. Len(sub) : sub[i] = token[i]
    BY <2>2, <2>3 DEF n
  <2>5. sub = token
    <3> HIDE DEF token
    <3> QED BY <1>2, <2>2, <2>4, SeqEqual
  <2> QED BY <2>5 DEF sub
<1>10. packet[2] = block.code
  BY <1>1, <1>6
<1> QED BY <1>3, <1>7, <1>8, <1>9, <1>10 DEF block, n, m

\* The option at a cut of the packet: never the payload marker, and if its
\* first bytes have arrived, the gap and the length that were written.
OptionAt(d, value) ==
  /\ Between(input.block, output, Cut(offset, option_number), d, value)
  /\ packet[offset + 1] # PayloadMarker
  /\ ValueStart \in Nat /\ d.at = ValueStart + Len(value)
  /\ ValueStart <= Len(packet) =>
       /\ DeltaNibble # 15 /\ LengthNibble # 15
       /\ OptionDelta = d.number - option_number /\ OptionLength = Len(value)
  /\ d.at <= Len(packet) => OptionValue = value

LEMMA CutRead ==
  ASSUME IInv, Genuine, NEW cuts, NEW end, Reading(cuts, end),
         Cut(offset, option_number) # end, offset < Len(packet)
  PROVE  \E d \in cuts : \E value : OptionAt(d, value)
<1> DEFINE block == input.block
           c == Cut(offset, option_number)
           m == Len(packet)
<1>1. Layout(block, output, cuts, end) /\ c \in cuts
  BY DEF Reading, Complete
<1>2. PICK d \in cuts : \E value : Between(block, output, c, d, value)
  BY <1>1 DEF Layout
<1>3. PICK value : Between(block, output, c, d, value)
  BY <1>2
<1>4. c \in Cuts /\ d \in Cuts /\ c.at = offset /\ c.number = option_number
  BY <1>1 DEF Layout, Cut
<1> DEFINE E == OptionBytes(c, d, value)
           begins == Begins(E, 0)
<1>5. /\ value \in Seq(Byte) /\ d.at = offset + Len(E) /\ Stands(output, offset, E)
  BY <1>3, <1>4 DEF Between
<1>6. /\ Shape(E, d.number - option_number, value) /\ option_number \in Nat
      /\ d.number \in Nat
  BY <1>3, <1>4, BetweenShape
<1>7. packet \in Seq(Byte) /\ m \in Nat /\ offset \in Nat /\ offset < m
  BY DEF IInv, TypeInv
<1> HIDE DEF block, c, E, m, begins
<1>8. /\ E \in Seq(Byte) /\ begins \in 1 .. 5 /\ Len(E) = begins + Len(value)
      /\ E[1] # PayloadMarker /\ Stands(E, begins, value) /\ Len(value) \in Nat
  BY <1>5, <1>6 DEF Shape, begins
<1>9. \A i \in 1 .. Len(E) : offset + i <= m => packet[offset + i] = E[i]
  <2> SUFFICES ASSUME NEW i \in 1 .. Len(E), offset + i <= m PROVE packet[offset + i] = E[i]
    OBVIOUS
  <2>1. offset + i \in 1 .. m
    BY <1>7, <1>8
  <2>2. packet[offset + i] = output[offset + i]
    BY <2>1 DEF Genuine, m
  <2>3. output[offset + i] = E[i]
    BY <1>5 DEF Stands
  <2> QED BY <2>2, <2>3
<1>10. packet[offset + 1] = E[1]
  <2>1. 1 \in 1 .. Len(E) /\ offset + 1 <= m
    BY <1>7, <1>8
  <2> QED BY <1>9, <2>1
<1>11. ValueStart = offset + begins
  <2> DEFINE dx == ExtensionLength(E[1] \div 16)
             lx == ExtensionLength(E[1] % 16)
  <2>1. ValueStart = offset + 1 + dx + lx
    BY <1>10 DEF ValueStart, DeltaNibble, LengthNibble
  <2>2. begins = 1 + dx + lx
    BY DEF begins, Begins
  <2>3. dx \in Int /\ lx \in Int
    <3>1. E[1] \in Byte
      <4>1. 1 \in 1 .. Len(E)
        BY <1>8
      <4> QED BY <1>8, <4>1
    <3>2. \A byte \in Byte : byte \div 16 \in Int /\ byte % 16 \in Int
      BY DEF Byte
    <3> QED BY <3>1, <3>2 DEF ExtensionLength
  <2> HIDE DEF dx, lx
  <2> QED BY <1>7, <2>1, <2>2, <2>3
<1>12. d.at = ValueStart + Len(value)
  BY <1>5, <1>7, <1>8, <1>11
<1>13. ASSUME ValueStart <= m
       PROVE  /\ DeltaNibble # 15 /\ LengthNibble # 15
              /\ OptionDelta = d.number - option_number /\ OptionLength = Len(value)
  <2>1. Agree(packet, offset, E, begins)
    <3> SUFFICES ASSUME NEW i \in 1 .. begins PROVE packet[offset + i] = E[i]
      BY DEF Agree
    <3>1. i \in 1 .. Len(E) /\ offset + i <= m
      BY <1>7, <1>8, <1>11, <1>13
    <3> QED BY <1>9, <3>1
  <2>2. ReadsAs(packet, offset, d.number - option_number, Len(value))
    BY <1>6, <1>7, <2>1 DEF Shape, begins
  <2>3. DeltaNibble \in 0 .. 14 /\ LengthNibble \in 0 .. 14
    BY <2>2 DEF ReadsAs, DeltaNibble, LengthNibble
  <2>4. OptionDelta = d.number - option_number /\ OptionLength = Len(value)
    BY <2>2 DEF ReadsAs, DeltaNibble, LengthNibble, OptionDelta, OptionLength
  <2> QED BY <2>3, <2>4
<1>14. ASSUME d.at <= m PROVE OptionValue = value
  <2>1. ValueStart <= m /\ ValueStart \in Nat
    BY <1>7, <1>8, <1>11, <1>12, <1>14
  <2>2. OptionValue = [i \in 1 .. Len(value) |-> packet[ValueStart + i]]
    BY <1>13, <2>1 DEF OptionValue
  <2>3. ASSUME NEW i \in 1 .. Len(value) PROVE packet[ValueStart + i] = value[i]
    <3>1. /\ begins + i \in 1 .. Len(E) /\ offset + (begins + i) <= m
          /\ offset + (begins + i) = ValueStart + i
      BY <1>7, <1>8, <1>11, <1>12, <1>14
    <3>2. packet[offset + (begins + i)] = E[begins + i]
      BY <1>9, <3>1
    <3>3. E[begins + i] = value[i]
      BY <1>8 DEF Stands
    <3> QED BY <3>1, <3>2, <3>3
  <2>4. value = [i \in 1 .. Len(value) |-> value[i]]
    BY <1>5
  <2> QED BY <2>2, <2>3, <2>4
<1>15. ValueStart \in Nat
  BY <1>7, <1>8, <1>11
<1>16. packet[offset + 1] # PayloadMarker
  BY <1>8, <1>10
<1>17. OptionAt(d, value)
  BY <1>3, <1>12, <1>13, <1>14, <1>15, <1>16 DEF OptionAt, block, c, m
<1> QED BY <1>17

\* At the end of the options nothing is left but the payload.
LEMMA AtEnd ==
  ASSUME IInv, Genuine, NEW cuts, NEW end, Reading(cuts, end), Cut(offset, option_number) = end
  PROVE  ~MoreOptions
<1>1. end.at = offset
  BY DEF Cut
<1>2. Ends(input.block, output, offset)
  BY <1>1 DEF Reading, Complete
<1>3. packet \in Seq(Byte) /\ output \in Seq(Byte) /\ offset \in Nat /\ Len(packet) <= Len(output)
  BY DEF IInv, TypeInv, Genuine
<1>4. SUFFICES ASSUME MoreOptions PROVE FALSE
  OBVIOUS
<1>5. offset < Len(packet) /\ packet[offset + 1] # PayloadMarker
  BY <1>4 DEF MoreOptions
<1>6. packet[offset + 1] = output[offset + 1]
  <2>1. offset + 1 \in 1 .. Len(packet)
    BY <1>3, <1>5
  <2> QED BY <2>1 DEF Genuine
<1>7. Len(output) # offset
  BY <1>3, <1>5
<1> QED BY <1>2, <1>5, <1>6, <1>7 DEF Ends

LEMMA OptionParsed ==
  ASSUME IInv, ValidArguments, Genuine, NEW cuts, NEW end, Reading(cuts, end), ParseOption
  PROVE  Reading(cuts, end)'
<1> DEFINE block == input.block
<1>1. /\ MoreOptions /\ OptionComplete
      /\ option_number' = option_number + OptionDelta /\ offset' = ValueStart + OptionLength
      /\ parsed' = Stored(option_number')
      /\ found_block1' = (found_block1 \/ option_number' = Block1)
      /\ UNCHANGED <<input, output>>
  BY DEF ParseOption, builder
<1>2. Cut(offset, option_number) # end /\ offset < Len(packet)
  BY <1>1, AtEnd DEF MoreOptions
<1>3. PICK d \in cuts : \E value : OptionAt(d, value)
  BY <1>2, CutRead
<1>4. PICK value : OptionAt(d, value)
  BY <1>3
<1>5. /\ OptionDelta \in Nat /\ OptionLength \in Nat /\ ValueStart \in Nat
      /\ ValueStart + OptionLength <= Len(packet) /\ Len(OptionValue) = OptionLength
  BY <1>1, OptionWithin
<1>6. packet \in Seq(Byte) /\ Len(packet) \in Nat /\ option_number \in Nat
  BY DEF IInv, TypeInv
<1>7. ValueStart <= Len(packet)
  BY <1>5, <1>6
<1>8. OptionDelta = d.number - option_number /\ OptionLength = Len(value) /\ d.at = ValueStart + Len(value)
  BY <1>4, <1>7 DEF OptionAt
<1>9. OptionValue = value
  BY <1>4, <1>5, <1>8 DEF OptionAt
<1>10. d \in Cuts
  BY DEF Reading, Complete, Layout
<1>11. option_number' = d.number /\ offset' = d.at /\ Cut(offset', option_number') = d
  <2>1. d.number \in Nat
    BY <1>10, NumberRange DEF Cuts
  <2>2. option_number' = d.number /\ offset' = d.at
    BY <1>1, <1>6, <1>8, <2>1
  <2>3. Cut(d.at, d.number) = d
    BY <1>10 DEF Cut, Cuts
  <2> QED BY <2>2, <2>3
<1>12. /\ Follows(block, option_number, d.number)
       /\ d.number \in {ContentFormat, Block1, Size1} => OptionValue = ValueOf(block, d.number)
  BY <1>4, <1>9 DEF OptionAt, Between, Cut
<1>13. parsed' = Known(block, d.number)
  BY <1>1, <1>5, <1>11, <1>12, StoredKnown DEF Reading
<1>14. found_block1' <=> d.number \in {Block1, Size1}
  <2>1. found_block1 <=> option_number \in {Block1, Size1}
    BY DEF Reading
  <2>2. /\ option_number \in {Block1, Size1} => d.number \in {Block1, Size1}
        /\ d.number \in {Block1, Size1} => option_number \in {Block1, Size1} \/ d.number = Block1
    BY <1>12 DEF Follows, UriPath, ContentFormat, Block1, Size1
  <2>3. d.number = Block1 => d.number \in {Block1, Size1}
    OBVIOUS
  <2>4. found_block1' = (found_block1 \/ d.number = Block1)
    BY <1>1, <1>11
  <2> QED BY <2>1, <2>2, <2>3, <2>4, Zenon
<1> QED BY <1>1, <1>11, <1>13, <1>14 DEF Reading

LEMMA HeaderParsed ==
  ASSUME IInv, ValidArguments, Genuine, WrittenInv, built = "ok", ParseHeader
  PROVE  \E cuts : \E end : Reading(cuts, end)'
<1> DEFINE block == input.block
<1>1. /\ HeaderComplete /\ offset' = 4 + TokenLength /\ option_number' = 0
      /\ found_block1' = FALSE /\ UNCHANGED <<input, output>>
      /\ parsed' = [NoBlock EXCEPT !.type = (packet[1] \div 16) % 4, !.code = packet[2],
                                   !.message_id = 256 * packet[3] + packet[4],
                                   !.token = SubSeq(packet, 5, 4 + TokenLength)]
  BY DEF ParseHeader, builder
<1>2. /\ TokenLength = Len(block.token)
      /\ (packet[1] \div 16) % 4 = block.type /\ packet[2] = block.code
      /\ 256 * packet[3] + packet[4] = block.message_id
      /\ SubSeq(packet, 5, 4 + TokenLength) = block.token
  BY <1>1, HeaderRead DEF HeaderComplete, WrittenInv
<1>3. parsed' = Known(block, 0)
  <2> DEFINE t == block.type
             k == block.code
             m == block.message_id
             n == block.token
             Fields(a, b, c, d) ==
               [type |-> a, code |-> b, message_id |-> c, token |-> d, block_number |-> 0,
                more |-> 0, szx |-> 0, content_format |-> Zero, size1 |-> Zero, payload |-> <<>>]
  <2>1. parsed' = [NoBlock EXCEPT !.type = t, !.code = k, !.message_id = m, !.token = n]
    BY <1>1, <1>2
  <2>2. Known(block, 0) = Fields(t, k, m, n)
    BY DEF Known, ContentFormat, Block1, Size1
  <2> HIDE DEF t, k, m, n
  <2>3. [NoBlock EXCEPT !.type = t, !.code = k, !.message_id = m, !.token = n]
        = [[[[NoBlock EXCEPT !.type = t] EXCEPT !.code = k] EXCEPT !.message_id = m] EXCEPT !.token = n]
    OBVIOUS
  <2>4. [NoBlock EXCEPT !.type = t] = Fields(t, 0, 0, <<>>)
    BY DEF NoBlock
  <2>5. [Fields(t, 0, 0, <<>>) EXCEPT !.code = k] = Fields(t, k, 0, <<>>)
    OBVIOUS
  <2>6. [Fields(t, k, 0, <<>>) EXCEPT !.message_id = m] = Fields(t, k, m, <<>>)
    OBVIOUS
  <2>7. [Fields(t, k, m, <<>>) EXCEPT !.token = n] = Fields(t, k, m, n)
    OBVIOUS
  <2> HIDE DEF Fields
  <2> QED BY <2>1, <2>2, <2>3, <2>4, <2>5, <2>6, <2>7
<1>4. PICK cuts : \E end : Complete(block, output, cuts, end)
  BY DEF WrittenInv
<1>5. PICK end : Complete(block, output, cuts, end)
  BY <1>4
<1>6. Cut(offset', option_number') \in cuts
  BY <1>1, <1>2, <1>5 DEF Complete, Layout, Start
<1>7. found_block1' <=> option_number' \in {Block1, Size1}
  BY <1>1 DEF Block1, Size1
<1>8. Reading(cuts, end)'
  BY <1>1, <1>3, <1>5, <1>6, <1>7 DEF Reading
<1> QED BY <1>8

\* Behind the options the packet holds as much of the payload as has arrived.
LEMMA RestRead ==
  ASSUME IInv, Genuine, Ends(input.block, output, offset)
  PROVE  LET rest == SubSeq(packet, offset + 2, Len(packet))
             payload == input.block.payload
         IN /\ rest \in Prefixes(payload)
            /\ Len(packet) < Len(output) => rest # payload
            /\ Len(packet) = Len(output) => rest = payload
<1> DEFINE rest == SubSeq(packet, offset + 2, Len(packet))
           payload == input.block.payload
           m == Len(packet)
           n == Len(payload)
           at == offset
           k == IF m <= at THEN 0 ELSE m - at - 1
<1>1. /\ packet \in Seq(Byte) /\ output \in Seq(Byte) /\ payload \in Seq(Byte)
      /\ m \in Nat /\ n \in Nat /\ at \in Nat /\ Len(output) \in Nat /\ at <= m /\ m <= Len(output)
  BY CallFields DEF IInv, TypeInv, ParseInv, Genuine
<1>2. \A i \in 1 .. n : payload[i] \in Byte
  BY <1>1
<1>3. CASE payload = <<>>
  <2>1. Len(output) = at /\ n = 0
    BY <1>3 DEF Ends
  <2>2. m = Len(output) /\ at + 2 > m
    BY <1>1, <2>1
  <2>3. rest = <<>>
    BY <2>2, <1>1
  <2>4. SubSeq(payload, 1, 0) = <<>> /\ 0 \in 0 .. Len(payload)
    BY <1>3
  <2>5. rest \in Prefixes(payload)
    BY <2>3, <2>4 DEF Prefixes
  <2> QED BY <1>3, <2>2, <2>3, <2>5
<1>4. CASE payload # <<>>
  <2>1. /\ Len(output) = at + 1 + n /\ Stands(output, at + 1, payload)
    BY <1>4 DEF Ends
  <2>2. n > 0
    BY <1>1, <1>4
  <2>3. rest \in Seq(Byte) /\ Len(rest) = k /\ \A i \in 1 .. k : rest[i] = packet[at + 1 + i]
    <3>1. \A i \in at + 2 .. m : packet[i] \in Byte
      BY <1>1
    <3>2. /\ rest \in Seq(Byte) /\ Len(rest) = IF at + 2 <= m THEN m - (at + 2) + 1 ELSE 0
          /\ \A i \in 1 .. m - (at + 2) + 1 : rest[i] = packet[(at + 2) + i - 1]
      BY <1>1, <3>1, SubSeqProperties
    <3> HIDE DEF rest, m, at
    <3>3. k = IF at + 2 <= m THEN m - (at + 2) + 1 ELSE 0
      BY <1>1
    <3>4. \A i \in 1 .. k : i \in 1 .. m - (at + 2) + 1 /\ (at + 2) + i - 1 = at + 1 + i
      BY <1>1
    <3> QED BY <3>2, <3>3, <3>4
  <2> HIDE DEF rest, m, n, at, payload
  <2>4. /\ k \in 0 .. n /\ k \in Nat
        /\ k > 0 => at + 1 + k = m
        /\ m < Len(output) => k < n
        /\ m = Len(output) => k = n
    BY <1>1, <2>1, <2>2
  <2> HIDE DEF k
  <2>5. ASSUME NEW i \in 1 .. k PROVE rest[i] = payload[i] /\ payload[i] \in Byte
    <3>1. at + 1 + i \in 1 .. m /\ i \in 1 .. n
      BY <1>1, <2>4
    <3>2. packet[at + 1 + i] = output[at + 1 + i]
      BY <3>1 DEF Genuine, m
    <3>3. output[at + 1 + i] = payload[i]
      BY <2>1, <3>1 DEF Stands, n
    <3> QED BY <1>2, <2>3, <3>1, <3>2, <3>3
  <2>6. rest = SubSeq(payload, 1, k)
    <3> DEFINE part == SubSeq(payload, 1, k)
    <3>1. \A i \in 1 .. k : payload[i] \in Byte
      BY <2>5
    <3>2. /\ part \in Seq(Byte) /\ Len(part) = IF 1 <= k THEN k - 1 + 1 ELSE 0
          /\ \A i \in 1 .. k - 1 + 1 : part[i] = payload[1 + i - 1]
      BY <2>4, <3>1, SubSeqProperties
    <3> HIDE DEF part
    <3>3. Len(part) = k
      BY <2>4, <3>2
    <3>4. \A i \in 1 .. k : i \in 1 .. k - 1 + 1 /\ 1 + i - 1 = i
      BY <2>4
    <3>5. \A i \in 1 .. Len(rest) : rest[i] = part[i]
      BY <2>3, <2>5, <3>2, <3>4
    <3>6. rest = part
      BY <2>3, <3>2, <3>3, <3>5, SeqEqual
    <3> QED BY <3>6 DEF part
  <2>7. rest \in Prefixes(payload)
    <3>1. k \in 0 .. Len(payload)
      BY <2>4 DEF n
    <3> QED BY <2>6, <3>1 DEF Prefixes
  <2>8. m < Len(output) => rest # payload
    <3> SUFFICES ASSUME m < Len(output), rest = payload PROVE FALSE
      OBVIOUS
    <3>1. k < n /\ k = n
      BY <2>3, <2>4 DEF n
    <3> QED BY <1>1, <2>4, <3>1
  <2>9. m = Len(output) => rest = payload
    <3> SUFFICES ASSUME m = Len(output) PROVE rest = payload
      OBVIOUS
    <3>1. k = n
      BY <2>4
    <3>2. Len(rest) = Len(payload) /\ \A i \in 1 .. Len(rest) : rest[i] = payload[i]
      BY <2>3, <2>5, <3>1 DEF n
    <3> QED BY <1>1, <2>3, <3>2, SeqEqual
  <2> QED BY <2>7, <2>8, <2>9 DEF rest, payload, m
<1> QED BY <1>3, <1>4

\* Where the parser stops before the last option it has seen the end of the
\* packet, and a Size1 option is still to come.
LEMMA CutShort ==
  ASSUME IInv, Genuine, NEW cuts, NEW end, Reading(cuts, end), Cut(offset, option_number) # end,
         ~MoreOptions
  PROVE  /\ offset = Len(packet)
         /\ found_block1 => option_number # Size1 /\ input.block.size1 # Zero
<1>1. offset \in Nat /\ Len(packet) \in Nat /\ offset <= Len(packet)
  BY DEF IInv, TypeInv, ParseInv
<1>2. offset = Len(packet)
  <2> SUFFICES ASSUME offset < Len(packet) PROVE FALSE
    BY <1>1
  <2>1. PICK d \in cuts : \E value : OptionAt(d, value)
    BY CutRead
  <2> QED BY <2>1 DEF OptionAt, MoreOptions
<1>3. PICK d \in cuts : \E value : Between(input.block, output, Cut(offset, option_number), d, value)
  BY DEF Reading, Complete, Layout
<1>4. Follows(input.block, option_number, d.number)
  BY <1>3 DEF Between, Cut
<1>5. found_block1 => option_number \in {Block1, Size1}
  BY DEF Reading
<1>6. option_number \in {Block1, Size1} => option_number # Size1 /\ input.block.size1 # Zero
  BY <1>4 DEF Follows, UriPath, ContentFormat, Block1, Size1
<1> QED BY <1>2, <1>5, <1>6

LEMMA EndWithin ==
  ASSUME IInv, NEW cuts, NEW end, Complete(input.block, output, cuts, end)
  PROVE  end \in Cuts /\ end.at \in Nat /\ end.at <= Len(output)
<1>1. Ends(input.block, output, end.at) /\ end \in Cuts /\ end.at \in Nat
  BY DEF Complete, Layout, Cuts
<1>2. Len(input.block.payload) \in Nat
  BY CallFields DEF IInv
<1> QED BY <1>1, <1>2 DEF Ends

LEMMA NextCut ==
  ASSUME IInv, NEW cuts, NEW end, Reading(cuts, end), NEW d \in cuts,
         \E value : Between(input.block, output, Cut(offset, option_number), d, value)
  PROVE  d \in Cuts /\ offset < d.at /\ d.at <= Len(output) /\ d.at \in Nat
<1>1. PICK value : Between(input.block, output, Cut(offset, option_number), d, value)
  OBVIOUS
<1>2. d \in Cuts /\ Cut(offset, option_number) \in Cuts /\ d.at <= end.at
  BY DEF Reading, Complete, Layout
<1> DEFINE E == OptionBytes(Cut(offset, option_number), d, value)
<1>3. Shape(E, d.number - Cut(offset, option_number).number, value) /\ value \in Seq(Byte)
  BY <1>1, <1>2, BetweenShape DEF Between
<1>4. d.at = offset + Len(E)
  BY <1>1 DEF Between, Cut
<1> HIDE DEF E
<1>5. Begins(E, 0) \in 1 .. 5 /\ Len(E) = Begins(E, 0) + Len(value)
  BY <1>3 DEF Shape
<1>6. Len(value) \in Nat /\ offset \in Nat /\ Len(output) \in Nat
  BY <1>3 DEF IInv, TypeInv
<1>7. offset < d.at /\ d.at \in Nat
  BY <1>4, <1>5, <1>6
<1>8. end.at \in Nat /\ end.at <= Len(output)
  BY EndWithin DEF Reading
<1> QED BY <1>2, <1>6, <1>7, <1>8

\* What the parser returns with is the block sent, but for what is missing.
LEMMA EndParsed ==
  ASSUME IInv, Genuine, NEW cuts, NEW end, Reading(cuts, end), ParseEnd
  PROVE  /\ Len(packet) < Len(output) =>
              /\ parsed' # input.block
              /\ \E payload \in Prefixes(input.block.payload), size1 \in {Zero, input.block.size1} :
                   parsed' = [input.block EXCEPT !.payload = payload, !.size1 = size1]
         /\ packet = output => parsed' = input.block
<1> DEFINE block == input.block
           rest == SubSeq(packet, offset + 2, Len(packet))
           size1 == IF option_number = Size1 THEN block.size1 ELSE Zero
           whole == Cut(offset, option_number) = end
<1>1. /\ ~MoreOptions /\ found_block1 /\ parsed' = [parsed EXCEPT !.payload = rest]
  BY DEF ParseEnd
<1>2. option_number \in {Block1, Size1} /\ parsed = Known(block, option_number)
  BY <1>1 DEF Reading
<1>3. block \in Blocks /\ block.payload \in Seq(Byte)
  BY CallFields DEF IInv
<1>4. /\ rest \in Prefixes(block.payload)
      /\ whole /\ Len(packet) < Len(output) => rest # block.payload
      /\ whole /\ Len(packet) = Len(output) => rest = block.payload
  <2>1. CASE whole
    <3>1. Ends(block, output, offset)
      BY <2>1 DEF Reading, Complete, Cut
    <3> QED BY <3>1, RestRead
  <2>2. CASE ~whole
    <3>1. offset = Len(packet)
      BY <1>1, <2>2, CutShort
    <3>2. offset \in Nat /\ packet \in Seq(Byte)
      BY DEF IInv, TypeInv
    <3>3. rest = <<>>
      BY <3>1, <3>2
    <3>4. 0 \in 0 .. Len(block.payload) /\ SubSeq(block.payload, 1, 0) = <<>>
      BY <1>3
    <3>5. rest \in Prefixes(block.payload)
      BY <3>3, <3>4 DEF Prefixes
    <3> QED BY <2>2, <3>5
  <2> QED BY <2>1, <2>2
<1>5. whole => size1 = block.size1
  <2> SUFFICES ASSUME whole PROVE size1 = block.size1
    OBVIOUS
  <2>1. option_number = LastNumber(block)
    BY DEF Reading, Complete, Cut
  <2> QED BY <2>1 DEF LastNumber, Block1, Size1
<1>6. ~whole => size1 = Zero /\ block.size1 # Zero
  BY <1>1, CutShort
<1>7. whole \/ Len(packet) < Len(output)
  <2> SUFFICES ASSUME ~whole PROVE Len(packet) < Len(output)
    OBVIOUS
  <2>1. offset = Len(packet)
    BY <1>1, CutShort
  <2>2. PICK d \in cuts : \E value : Between(block, output, Cut(offset, option_number), d, value)
    BY DEF Reading, Complete, Layout
  <2>3. offset < d.at /\ d.at <= Len(output) /\ d.at \in Nat
    BY <2>2, NextCut
  <2>4. Len(output) \in Nat /\ offset \in Nat
    BY DEF IInv, TypeInv
  <2> QED BY <2>1, <2>3, <2>4
<1>8. parsed' = [block EXCEPT !.payload = rest, !.size1 = size1]
  <2> DEFINE Fields(a, b) ==
        [type |-> block.type, code |-> block.code, message_id |-> block.message_id,
         token |-> block.token, block_number |-> block.block_number, more |-> block.more,
         szx |-> block.szx, content_format |-> block.content_format, size1 |-> a, payload |-> b]
  <2>1. block = Fields(block.size1, block.payload)
    BY <1>3 DEF Blocks
  <2>2. parsed = Fields(size1, <<>>)
    <3>1. option_number \in {ContentFormat, Block1, Size1}
      BY <1>2
    <3> QED BY <1>2, <3>1 DEF Known
  <2>3. parsed' = Fields(size1, rest)
    <3> HIDE DEF size1, rest, block
    <3> QED BY <1>1, <2>2
  <2>4. [block EXCEPT !.payload = rest, !.size1 = size1]
        = [[block EXCEPT !.payload = rest] EXCEPT !.size1 = size1]
    <3> HIDE DEF size1, rest, block
    <3> QED OBVIOUS
  <2>5. [block EXCEPT !.payload = rest] = Fields(block.size1, rest)
    <3> HIDE DEF size1, rest
    <3> DEFINE s == block.size1
    <3> HIDE DEF s
    <3>1. [Fields(s, block.payload) EXCEPT !.payload = rest] = Fields(s, rest)
      OBVIOUS
    <3> HIDE DEF Fields
    <3> QED BY <2>1, <3>1 DEF s
  <2>6. [Fields(block.size1, rest) EXCEPT !.size1 = size1] = Fields(size1, rest)
    <3> HIDE DEF size1, rest
    <3> QED OBVIOUS
  <2> HIDE DEF Fields, block, rest, size1
  <2> QED BY <2>3, <2>4, <2>5, <2>6
<1>9. parsed'.payload = rest /\ parsed'.size1 = size1
  <2> HIDE DEF rest, size1, block
  <2> QED BY <1>3, <1>8 DEF Blocks
<1>10. ASSUME Len(packet) < Len(output) PROVE parsed' # block
  <2>1. CASE whole
    BY <1>4, <1>9, <1>10, <2>1
  <2>2. CASE ~whole
    BY <1>6, <1>9, <2>2
  <2> QED BY <2>1, <2>2
<1>11. ASSUME packet = output PROVE parsed' = block
  <2>1. Len(packet) = Len(output) /\ whole
    <3>1. Len(packet) = Len(output) /\ Len(output) \in Nat
      BY <1>11 DEF IInv, TypeInv
    <3> QED BY <1>7, <3>1
  <2>2. rest = block.payload /\ size1 = block.size1
    BY <1>4, <1>5, <2>1
  <2>3. [block EXCEPT !.payload = block.payload, !.size1 = block.size1] = block
    <3> HIDE DEF block
    <3> QED BY <1>3 DEF Blocks
  <2> QED BY <1>8, <2>2, <2>3
<1>12. size1 \in {Zero, block.size1}
  OBVIOUS
<1> QED BY <1>4, <1>8, <1>10, <1>11, <1>12

\* Nothing of a packet that arrives as it was sent is refused.
LEMMA HeaderAccepted ==
  ASSUME IInv, WrittenInv, built = "ok", packet = output
  PROVE  HeaderComplete
<1>1. PICK cuts : \E end : Complete(input.block, output, cuts, end)
  BY DEF WrittenInv
<1>2. PICK end : Complete(input.block, output, cuts, end)
  BY <1>1
<1>3. Start(input.block).at <= end.at /\ Start(input.block).at = 4 + Len(input.block.token)
  BY <1>2 DEF Complete, Layout, Start, Cut
<1>4. end.at \in Nat /\ end.at <= Len(output)
  BY <1>2, EndWithin
<1>5. Len(input.block.token) \in Nat /\ Len(output) \in Nat
  BY CallFields DEF IInv, TypeInv
<1>6. Len(output) >= 4 + Len(input.block.token) /\ Len(packet) >= 4
  BY <1>3, <1>4, <1>5
<1>7. ValidArguments /\ Genuine /\ Stands(output, 0, Header(input.block))
  <2>1. Len(packet) <= Len(output)
    BY <1>5
  <2> QED BY <2>1 DEF IInv, BuildInv, WrittenInv, Genuine
<1>8. TokenLength = Len(input.block.token) /\ packet[1] \div 64 = 1 /\ TokenLength \in 0 .. 8
  BY <1>6, <1>7, HeaderRead
<1>9. TokenLength <= 8 /\ Len(packet) >= 4 + TokenLength
  <2>1. Len(packet) = Len(output)
    OBVIOUS
  <2>2. Len(packet) >= 4 + TokenLength
    BY <1>6, <1>8, <2>1
  <2>3. TokenLength <= 8
    <3> DEFINE n == TokenLength
    <3>1. n \in 0 .. 8
      BY <1>8
    <3> HIDE DEF n
    <3>2. n <= 8
      BY <3>1
    <3> QED BY <3>2 DEF n
  <2> QED BY <2>2, <2>3
<1> QED BY <1>6, <1>8, <1>9 DEF HeaderComplete

LEMMA OptionsAccepted ==
  ASSUME IInv, ValidArguments, packet = output, NEW cuts, NEW end, Reading(cuts, end)
  PROVE  /\ MoreOptions => OptionComplete /\ Storable(option_number + OptionDelta)
         /\ ~MoreOptions => found_block1 /\ offset # Len(packet) - 1
<1>1. /\ Len(output) \in Nat /\ offset \in Nat /\ option_number \in Nat /\ Genuine
  <2>1. Len(output) \in Nat
    BY DEF IInv, TypeInv
  <2> QED BY <2>1 DEF IInv, TypeInv, Genuine
<1>2. ASSUME MoreOptions PROVE OptionComplete /\ Storable(option_number + OptionDelta)
  <2>1. Cut(offset, option_number) # end /\ offset < Len(packet)
    BY <1>1, <1>2, AtEnd DEF MoreOptions
  <2>2. PICK d \in cuts : \E value : OptionAt(d, value)
    BY <1>1, <2>1, CutRead
  <2>3. PICK value : OptionAt(d, value)
    BY <2>2
  <2>4. d \in Cuts /\ d.at <= Len(output) /\ d.at \in Nat
    BY <2>3, NextCut DEF OptionAt
  <2>5. ValueStart \in Nat /\ d.at = ValueStart + Len(value) /\ value \in Seq(Byte)
    BY <2>3 DEF OptionAt, Between
  <2>6. ValueStart <= Len(packet) /\ Len(value) <= Len(packet) - ValueStart
    <3>1. Len(value) \in Nat
      BY <2>5
    <3> QED BY <1>1, <2>4, <2>5, <3>1
  <2>7. /\ DeltaNibble # 15 /\ LengthNibble # 15
        /\ OptionDelta = d.number - option_number /\ OptionLength = Len(value)
        /\ OptionValue = value
    BY <2>3, <2>4, <2>6 DEF OptionAt
  <2>8. d.number \in Nat /\ d.number <= 60
    BY <2>4, NumberRange DEF Cuts
  <2>9. option_number <= UINT_MAX - OptionDelta /\ option_number + OptionDelta = d.number
    BY <1>1, <2>7, <2>8, SMT DEF UINT_MAX
  <2>10. OptionComplete
    BY <2>6, <2>7, <2>9 DEF OptionComplete
  <2>11. Storable(d.number)
    <3>1. /\ Follows(input.block, option_number, d.number)
          /\ d.number \in {ContentFormat, Block1, Size1} => value = ValueOf(input.block, d.number)
      BY <2>3 DEF OptionAt, Between, Cut
    <3> QED BY <2>7, <3>1, StoredKnown DEF Reading
  <2> QED BY <2>9, <2>10, <2>11
<1>3. ASSUME ~MoreOptions PROVE found_block1 /\ offset # Len(packet) - 1
  <2>1. Cut(offset, option_number) = end
    <3> SUFFICES ASSUME Cut(offset, option_number) # end PROVE FALSE
      OBVIOUS
    <3>1. offset = Len(packet)
      BY <1>1, <1>3, CutShort
    <3>2. PICK d \in cuts : \E value : Between(input.block, output, Cut(offset, option_number), d, value)
      BY DEF Reading, Complete, Layout
    <3>3. offset < d.at /\ d.at <= Len(output) /\ d.at \in Nat
      BY <3>2, NextCut
    <3> QED BY <1>1, <3>1, <3>3
  <2>2. option_number = LastNumber(input.block) /\ Ends(input.block, output, offset)
    BY <2>1 DEF Reading, Complete, Cut
  <2>3. found_block1
    BY <2>2 DEF Reading, LastNumber
  <2>4. offset # Len(packet) - 1
    <3>1. input.block.payload \in Seq(Byte)
      BY CallFields DEF IInv
    <3> DEFINE n == Len(input.block.payload)
               m == Len(output)
    <3>2. input.block.payload # <<>> => n > 0
      BY <3>1
    <3>3. m = offset \/ (input.block.payload # <<>> /\ m = offset + 1 + n)
      BY <2>2 DEF Ends
    <3> HIDE DEF n
    <3>4. offset # m - 1
      <4>1. n \in Nat
        BY <3>1 DEF n
      <4> HIDE DEF m
      <4>2. m \in Nat
        BY <1>1 DEF m
      <4> QED BY <1>1, <3>2, <3>3, <4>1, <4>2
    <3> QED BY <3>4
  <2> QED BY <2>3, <2>4
<1> QED BY <1>2, <1>3

\* The invariant of the way of a packet from the block to the block.
WireInv == WrittenInv /\ ArrivedInv /\ ReadInv /\ RoundTrip /\ TruncationSeen

LEMMA BuildWire ==
  ASSUME IInv, WireInv, Build
  PROVE  WireInv'
<1>1. WrittenInv'
  BY BuildLaid DEF WireInv
<1>2. phase' \notin {"parse", "parsing", "done"}
  BY DEF Build, BuildRefused, BuildHeader, SkipSlash, AppendSegment, SegmentDoesNotFit, PathEnd,
         PathRefused, AppendOption, OptionDoesNotFit, AppendPayload, PayloadDoesNotFit,
         DoesNotFit, BuildReturns
<1> QED BY <1>1, <1>2 DEF WireInv, ArrivedInv, ReadInv, RoundTrip, TruncationSeen, Accepted

LEMMA WayWire ==
  ASSUME IInv, WireInv, Carry \/ Truncate \/ Damage
  PROVE  WireInv'
<1>1. /\ phase' = "parse" /\ UNCHANGED <<input, output, built>>
      /\ \/ packet' = output
         \/ \E length \in 0 .. Len(output) - 1 : packet' = SubSeq(output, 1, length)
         \/ \E i \in DOMAIN output : \E byte : packet' = [output EXCEPT ![i] = byte]
  BY DEF Carry, Truncate, Damage, Arrives, builder
<1>2. output \in Seq(Byte) /\ Len(output) \in Nat
  BY DEF IInv, TypeInv
<1>3. \/ Len(packet') <= Len(output) /\ \A i \in 1 .. Len(packet') : packet'[i] = output[i]
      \/ Len(packet') = Len(output)
  <2>1. CASE packet' = output
    BY <1>2, <2>1
  <2>2. CASE \E length \in 0 .. Len(output) - 1 : packet' = SubSeq(output, 1, length)
    <3>1. PICK length \in 0 .. Len(output) - 1 : packet' = SubSeq(output, 1, length)
      BY <2>2
    <3> DEFINE part == SubSeq(output, 1, length)
    <3>2. \A i \in 1 .. length : output[i] \in Byte
      BY <1>2
    <3>3. /\ Len(part) = IF 1 <= length THEN length - 1 + 1 ELSE 0
          /\ \A i \in 1 .. length - 1 + 1 : part[i] = output[1 + i - 1]
      BY <1>2, <3>2, SubSeqProperties
    <3> HIDE DEF part
    <3>4. Len(part) = length
      BY <1>2, <3>3
    <3>5. \A i \in 1 .. length : i \in 1 .. length - 1 + 1 /\ 1 + i - 1 = i
      BY <1>2
    <3>6. \A i \in 1 .. Len(part) : part[i] = output[i]
      BY <3>3, <3>4, <3>5
    <3>7. Len(part) <= Len(output)
      BY <1>2, <3>4
    <3> QED BY <3>1, <3>6, <3>7 DEF part
  <2>3. CASE \E i \in DOMAIN output : \E byte : packet' = [output EXCEPT ![i] = byte]
    <3>1. PICK i \in DOMAIN output : \E byte : packet' = [output EXCEPT ![i] = byte]
      BY <2>3
    <3>2. PICK byte : packet' = [output EXCEPT ![i] = byte]
      BY <3>1
    <3>3. Len([output EXCEPT ![i] = byte]) = Len(output)
      BY <1>2
    <3> QED BY <3>2, <3>3
  <2> QED BY <1>1, <2>1, <2>2, <2>3
<1>4. ArrivedInv'
  BY <1>1, <1>3 DEF ArrivedInv, Genuine
<1>5. WrittenInv'
  BY <1>1 DEF WireInv, WrittenInv
<1> QED BY <1>1, <1>4, <1>5 DEF WireInv, ReadInv, RoundTrip, TruncationSeen, Accepted

LEMMA ParseWire ==
  ASSUME IInv, WireInv, Parse
  PROVE  WireInv'
<1>1. /\ phase \in {"parse", "parsing"} /\ phase' \in {"parsing", "done"} /\ built = "ok"
      /\ ValidArguments /\ UNCHANGED <<input, output, built, packet>>
  BY DEF Parse, HeaderRefused, ParseHeader, ParseOption, OptionRefused, EndRefused, ParseEnd,
         ParseReturns, builder, IInv, BuildInv
<1>2. WrittenInv' /\ ArrivedInv' /\ (Genuine' <=> Genuine)
  BY <1>1 DEF WireInv, WrittenInv, ArrivedInv, Genuine
<1>3. ReadInv'
  <2> SUFFICES ASSUME phase' = "parsing", Genuine
               PROVE  \E cuts : \E end : Reading(cuts, end)'
    BY <1>2 DEF ReadInv, Reading
  <2>1. ParseHeader \/ ParseOption
    BY DEF Parse, HeaderRefused, OptionRefused, EndRefused, ParseEnd, ParseReturns
  <2>2. CASE ParseHeader
    BY <1>1, <2>2, HeaderParsed DEF WireInv
  <2>3. CASE ParseOption
    <3>1. \E cuts : \E end : Reading(cuts, end)
      BY <2>3 DEF WireInv, ReadInv, ParseOption
    <3>2. PICK cuts : \E end : Reading(cuts, end)
      BY <3>1
    <3>3. PICK end : Reading(cuts, end)
      BY <3>2
    <3> QED BY <1>1, <2>3, <3>3, OptionParsed
  <2> QED BY <2>1, <2>2, <2>3
<1>4. CASE phase' # "done"
  BY <1>2, <1>3, <1>4 DEF WireInv, RoundTrip, TruncationSeen, Accepted
<1>5. CASE phase' = "done"
  <2>1. ASSUME packet = output
        PROVE  ParseEnd /\ \E cuts : \E end : Reading(cuts, end)
    <3>1. Genuine
      BY <2>1 DEF Genuine, IInv, TypeInv
    <3>2. HeaderComplete
      BY <1>1, <2>1, HeaderAccepted DEF WireInv
    <3>3. phase = "parsing"
      BY <1>1, <1>5, <3>2 DEF Parse, HeaderRefused, ParseHeader, ParseOption, OptionRefused,
         EndRefused, ParseEnd
    <3>4. PICK cuts : \E end : Reading(cuts, end)
      BY <3>1, <3>3 DEF WireInv, ReadInv
    <3>5. PICK end : Reading(cuts, end)
      BY <3>4
    <3>6. /\ MoreOptions => OptionComplete /\ Storable(option_number + OptionDelta)
          /\ ~MoreOptions => found_block1 /\ offset # Len(packet) - 1
      BY <1>1, <2>1, <3>5, OptionsAccepted
    <3>7. ParseEnd
      BY <1>5, <3>3, <3>6 DEF Parse, HeaderRefused, ParseHeader, ParseOption, OptionRefused,
         EndRefused
    <3> QED BY <3>5, <3>7
  <2>2. RoundTrip'
    <3> SUFFICES ASSUME packet = output PROVE result' = "ok" /\ parsed' = input.block
      BY <1>1 DEF RoundTrip
    <3>1. Genuine
      BY DEF Genuine, IInv, TypeInv
    <3>2. PICK cuts : \E end : Reading(cuts, end)
      BY <2>1
    <3>3. PICK end : Reading(cuts, end)
      BY <3>2
    <3>4. parsed' = input.block
      BY <2>1, <3>1, <3>3, EndParsed
    <3> QED BY <2>1, <3>4 DEF ParseEnd, ParseReturns
  <2>3. TruncationSeen'
    <3> SUFFICES ASSUME result' = "ok", Len(packet) < Len(output)
        PROVE  /\ parsed' # input.block
               /\ \E payload \in Prefixes(input.block.payload), size1 \in {Zero, input.block.size1} :
                    parsed' = [input.block EXCEPT !.payload = payload, !.size1 = size1]
      BY <1>1 DEF TruncationSeen, Accepted
    <3>1. ParseEnd
      BY <1>5 DEF Parse, HeaderRefused, ParseHeader, ParseOption, OptionRefused, EndRefused,
         ParseReturns
    <3>2. Genuine
      <4>1. Len(packet) \in Nat /\ Len(output) \in Nat
        BY DEF IInv, TypeInv
      <4>2. Len(packet) # Len(output)
        BY <4>1
      <4> QED BY <1>1, <4>2 DEF WireInv, ArrivedInv
    <3>3. PICK cuts : \E end : Reading(cuts, end)
      BY <3>1, <3>2 DEF WireInv, ReadInv, ParseEnd
    <3>4. PICK end : Reading(cuts, end)
      BY <3>3
    <3> QED BY <3>1, <3>2, <3>4, EndParsed
  <2> QED BY <1>2, <1>3, <2>2, <2>3 DEF WireInv
<1> QED BY <1>4, <1>5

LEMMA WireInvariance == Spec => []WireInv
<1>1. Init => WireInv
  BY DEF Init, WireInv, WrittenInv, ArrivedInv, ReadInv, RoundTrip, TruncationSeen, Accepted, Busy
<1>2. IInv /\ WireInv /\ [Next]_vars => WireInv'
  <2> SUFFICES ASSUME IInv, WireInv, [Next]_vars PROVE WireInv'
    OBVIOUS
  <2>1. CASE UNCHANGED vars
    BY <2>1 DEF WireInv, WrittenInv, ArrivedInv, ReadInv, Reading, Genuine, RoundTrip,
                TruncationSeen, Accepted, vars, builder, parser
  <2>2. CASE Next
    BY <2>2, BuildWire, WayWire, ParseWire DEF Next
  <2> QED BY <2>1, <2>2
<1> QED BY <1>1, <1>2, Invariance, PTL DEF Spec

\* What the builder returned OK for is parsed as the same block: every value of
\* every field, every path and every capacity that was enough.
THEOREM RoundTripAlways == Spec => []RoundTrip
BY WireInvariance, PTL DEF WireInv

\* A packet cut short anywhere is refused, or yields the header that was sent
\* and less of the payload or no size.
THEOREM TruncationSeenAlways == Spec => []TruncationSeen
BY WireInvariance, PTL DEF WireInv

-----------------------------------------------------------------------------
\* The room a path takes.

\* Every set of naturals has a least element: what an induction over the
\* segments of a path is made of.
Descent == {pair \in Nat \X Nat : pair[1] < pair[2]}
LEMMA Least ==
  ASSUME NEW T, T \subseteq Nat, T # {}
  PROVE  \E x \in T : \A y \in T : x <= y
<1>1. IsWellFoundedOn(Descent, Nat)
  BY NatLessThanWellFounded, Zenon DEF OpToRel, Descent
<1>2. PICK x \in T : \A y \in T : ~ (<<y, x>> \in Descent)
  BY <1>1, WFMin
<1>3. \A y \in T : ~(y < x)
  BY <1>2 DEF Descent
<1> QED BY <1>3

\* The bytes of the first k segments of a path.
Sums(path, sums) ==
  /\ sums \in [0 .. Len(path) -> Nat] /\ sums[0] = 0
  /\ \A k \in 1 .. Len(path) : sums[k] = sums[k - 1] + Len(path[k])

\* The function FlattenSeq is defined by recursion with; it exists.
Flat(path, k, g) == g = [i \in 1 .. k |-> IF i = 1 THEN path[i] ELSE g[i - 1] \o path[i]]
LEMMA Flattened ==
  ASSUME NEW path \in Seq(Seq(Byte)), NEW n \in Nat, n <= Len(path)
  PROVE  \E g : Flat(path, n, g)
<1> DEFINE Next1(g, i) == IF i = 1 THEN path[i] ELSE g[i - 1] \o path[i]
           Missing == {k \in Nat : ~\E g : Flat(path, k, g)}
<1>1. Missing = {}
  <2> SUFFICES ASSUME Missing # {} PROVE FALSE
    OBVIOUS
  <2>1. PICK k \in Missing : \A j \in Missing : k <= j
    <3>1. Missing \subseteq Nat
      OBVIOUS
    <3> HIDE DEF Missing
    <3> QED BY <3>1, Least
  <2>2. k \in Nat /\ ~\E g : Flat(path, k, g)
    OBVIOUS
  <2>3. k # 0
    <3> DEFINE none == [i \in 1 .. 0 |-> 0]
    <3>1. Flat(path, 0, none)
      BY DEF Flat
    <3> QED BY <2>2, <3>1
  <2>4. PICK g : Flat(path, k - 1, g)
    <3>1. k - 1 \in Nat /\ ~(k <= k - 1)
      BY <2>2, <2>3
    <3>2. k - 1 \notin Missing
      BY <2>1, <3>1
    <3> QED BY <3>1, <3>2
  <2> DEFINE h == [i \in 1 .. k |-> IF i < k THEN g[i] ELSE Next1(g, k)]
  <2>5. ASSUME NEW i \in 1 .. k PROVE h[i] = Next1(h, i)
    <3>1. i # 1 => h[i - 1] = g[i - 1]
      BY <2>2
    <3>2. Next1(h, i) = Next1(g, i)
      BY <3>1
    <3>3. i < k => g[i] = Next1(g, i)
      <4>1. i < k => i \in 1 .. k - 1
        BY <2>2
      <4>2. \A j \in 1 .. k - 1 : g[j] = Next1(g, j)
        BY <2>4 DEF Flat
      <4> QED BY <4>1, <4>2
    <3>4. h[i] = Next1(g, i)
      BY <2>2, <3>3
    <3> QED BY <3>2, <3>4
  <2>6. Flat(path, k, h)
    <3>1. h = [i \in 1 .. k |-> h[i]]
      OBVIOUS
    <3>2. h = [i \in 1 .. k |-> Next1(h, i)]
      <4> HIDE DEF h, Next1
      <4> QED BY <2>5, <3>1, Zenon
    <3> QED BY <3>2, Zenon DEF Flat
  <2> QED BY <2>2, <2>6
<1>2. n \notin Missing
  BY <1>1
<1>3. \E g : Flat(path, n, g)
  BY <1>2
<1> QED BY <1>3

LEMMA PathSums ==
  ASSUME NEW path \in Seq(Seq(Byte))
  PROVE  \E sums : Sums(path, sums) /\ sums[Len(path)] = Len(FlattenSeq(path))
<1> DEFINE n == Len(path)
           f == CHOOSE g : Flat(path, n, g)
<1>1. n \in Nat /\ \A i \in 1 .. n : path[i] \in Seq(Byte)
  OBVIOUS
<1>2. Flat(path, n, f)
  <2>1. \E g : Flat(path, n, g)
    BY <1>1, Flattened
  <2> QED BY <2>1
<1>3. n # 0 => FlattenSeq(path) = f[n]
  BY DEF FlattenSeq, Flat
<1> HIDE DEF f
<1>4. \A i \in 1 .. n : f[i] = IF i = 1 THEN path[i] ELSE f[i - 1] \o path[i]
  BY <1>2 DEF Flat
<1>5. \A i \in 1 .. n : f[i] \in Seq(Byte)
  <2> DEFINE Wrong == {i \in 1 .. n : f[i] \notin Seq(Byte)}
  <2> SUFFICES ASSUME Wrong # {} PROVE FALSE
    OBVIOUS
  <2>1. PICK k \in Wrong : \A j \in Wrong : k <= j
    <3>1. Wrong \subseteq Nat
      OBVIOUS
    <3> HIDE DEF Wrong
    <3> QED BY <3>1, Least
  <2>2. k \in 1 .. n /\ f[k] \notin Seq(Byte) /\ path[k] \in Seq(Byte)
    BY <1>1
  <2>3. k # 1
    BY <1>4, <2>2
  <2>4. k - 1 \in 1 .. n /\ ~(k <= k - 1)
    BY <1>1, <2>2, <2>3
  <2>5. f[k - 1] \in Seq(Byte)
    BY <2>1, <2>4
  <2>6. f[k] = f[k - 1] \o path[k]
    BY <1>4, <2>2, <2>3
  <2> QED BY <2>2, <2>5, <2>6, ConcatProperties
<1> DEFINE sums == [k \in 0 .. n |-> IF k = 0 THEN 0 ELSE Len(f[k])]
<1>6. sums \in [0 .. n -> Nat] /\ sums[0] = 0
  <2>1. \A k \in 0 .. n : k # 0 => k \in 1 .. n
    BY <1>1
  <2>2. \A k \in 1 .. n : Len(f[k]) \in Nat
    BY <1>5
  <2>3. 0 \in 0 .. n
    BY <1>1
  <2> HIDE DEF n
  <2> QED BY <2>1, <2>2, <2>3
<1>7. ASSUME NEW k \in 1 .. n PROVE sums[k] = sums[k - 1] + Len(path[k])
  <2>1. k \in 0 .. n /\ k - 1 \in 0 .. n /\ k # 0 /\ (k # 1 => k - 1 # 0 /\ k - 1 \in 1 .. n)
    BY <1>1
  <2>2. sums[k] = Len(f[k])
    BY <2>1
  <2>3. CASE k = 1
    <3>1. sums[k - 1] = 0 /\ f[k] = path[k] /\ Len(path[k]) \in Nat
      BY <1>1, <1>4, <2>1, <2>3
    <3> QED BY <2>2, <3>1
  <2>4. CASE k # 1
    <3>1. sums[k - 1] = Len(f[k - 1]) /\ f[k] = f[k - 1] \o path[k]
      BY <1>4, <2>1, <2>4
    <3>2. f[k - 1] \in Seq(Byte) /\ path[k] \in Seq(Byte)
      BY <1>1, <1>5, <2>1, <2>4
    <3> HIDE DEF sums
    <3>3. Len(f[k]) = Len(f[k - 1]) + Len(path[k])
      BY <3>1, <3>2, ConcatProperties
    <3> QED BY <2>2, <3>1, <3>3
  <2> QED BY <2>3, <2>4
<1>8. sums[n] = Len(FlattenSeq(path))
  <2>1. CASE n = 0
    <3>1. FlattenSeq(path) = path
      BY <2>1 DEF FlattenSeq
    <3> QED BY <1>6, <2>1, <3>1
  <2>2. CASE n # 0
    BY <1>1, <1>3, <2>2
  <2> QED BY <2>1, <2>2
<1> HIDE DEF sums
<1> QED BY <1>6, <1>7, <1>8 DEF Sums

LEMMA SumsRise ==
  ASSUME NEW path \in Seq(Seq(Byte)), NEW sums, Sums(path, sums), NEW k \in 0 .. Len(path)
  PROVE  sums[k] <= sums[Len(path)]
<1> DEFINE n == Len(path)
           Falls == {m \in 0 .. n - k : ~(sums[k] <= sums[k + m])}
<1>1. /\ n \in Nat /\ \A i \in 1 .. n : Len(path[i]) \in Nat
      /\ \A i \in 0 .. n : sums[i] \in Nat
      /\ \A i \in 1 .. n : sums[i] = sums[i - 1] + Len(path[i])
  <2>1. n \in Nat /\ \A i \in 1 .. n : path[i] \in Seq(Byte)
    OBVIOUS
  <2>2. \A i \in 1 .. n : Len(path[i]) \in Nat
    BY <2>1
  <2>3. \A i \in 0 .. n : sums[i] \in Nat
    BY Zenon DEF Sums
  <2>4. \A i \in 1 .. n : sums[i] = sums[i - 1] + Len(path[i])
    BY Zenon DEF Sums
  <2> QED BY <2>1, <2>2, <2>3, <2>4
<1> HIDE DEF n
<1>2. Falls = {}
  <2> SUFFICES ASSUME Falls # {} PROVE FALSE
    OBVIOUS
  <2>1. PICK m \in Falls : \A j \in Falls : m <= j
    <3>1. Falls \subseteq Nat
      OBVIOUS
    <3> HIDE DEF Falls
    <3> QED BY <3>1, Least
  <2>2. m \in 0 .. n - k /\ ~(sums[k] <= sums[k + m]) /\ k \in 0 .. n
    BY DEF n
  <2>3. m # 0
    <3>1. k + 0 = k /\ sums[k] \in Nat
      BY <1>1, <2>2
    <3> QED BY <2>2, <3>1
  <2>4. m - 1 \in 0 .. n - k /\ ~(m <= m - 1)
    BY <1>1, <2>2, <2>3
  <2>5. sums[k] <= sums[k + (m - 1)]
    BY <2>1, <2>4
  <2>6. k + m \in 1 .. n /\ (k + m) - 1 = k + (m - 1) /\ k + (m - 1) \in 0 .. n
    BY <1>1, <2>2, <2>4
  <2>7. /\ sums[k + m] = sums[k + (m - 1)] + Len(path[k + m])
        /\ Len(path[k + m]) \in Nat /\ sums[k + (m - 1)] \in Nat /\ sums[k] \in Nat
    BY <1>1, <2>2, <2>6
  <2> QED BY <2>2, <2>5, <2>7
<1>3. n - k \in 0 .. n - k /\ k + (n - k) = n
  BY <1>1 DEF n
<1>4. sums[k] <= sums[n]
  BY <1>2, <1>3
<1> QED BY <1>4 DEF n

-----------------------------------------------------------------------------
\* The room the whole packet takes, of a call of the pipeline.

\* An option whose number follows closely, with a value below 269 bytes.
Extra(v) == IF v < 13 THEN 0 ELSE 1
LEMMA EncodedRoom ==
  ASSUME NEW previous \in Nat, NEW number \in Nat, previous <= number, number - previous < 269,
         NEW value \in Seq(Byte), Len(value) < 269
  PROVE  /\ Encodable(Option(number, value))
         /\ Len(Encoded(previous, Option(number, value)))
              = 1 + Extra(number - previous) + Extra(Len(value)) + Len(value)
<1> DEFINE gap == number - previous
           dx == EncodeExtended(gap).extension
           lx == EncodeExtended(Len(value)).extension
           h == 16 * EncodeExtended(gap).nibble + EncodeExtended(Len(value)).nibble
<1>1. Option(number, value).number = number /\ Option(number, value).value = value
  BY DEF Option
<1>2. Encodable(Option(number, value))
  BY <1>1 DEF Encodable
<1>3. Encoded(previous, Option(number, value)) = <<h>> \o dx \o lx \o value
  BY <1>1 DEF Encoded
<1>4. gap \in 0 .. 268 /\ Len(value) \in 0 .. 268
  <2> DEFINE length == Len(value)
  <2>1. gap \in Nat /\ gap < 269 /\ length \in Nat /\ length < 269
    OBVIOUS
  <2> HIDE DEF gap, length
  <2>2. gap \in 0 .. 268 /\ length \in 0 .. 268
    BY <2>1
  <2> QED BY <2>2 DEF length
<1>5. \A v \in 0 .. 268 : LET x == EncodeExtended(v).extension
                          IN x \in Seq(Byte) /\ Len(x) = Extra(v)
  <2> SUFFICES ASSUME NEW v \in 0 .. 268
               PROVE  /\ EncodeExtended(v).extension \in Seq(Byte)
                      /\ Len(EncodeExtended(v).extension) = Extra(v)
    BY Zenon
  <2>1. CASE v < 13
    <3>1. EncodeExtended(v).extension = <<>>
      BY <2>1 DEF EncodeExtended
    <3>2. <<>> \in Seq(Byte) /\ Len(<<>>) = 0
      OBVIOUS
    <3> QED BY <2>1, <3>1, <3>2 DEF Extra
  <2>2. CASE v >= 13
    <3>1. EncodeExtended(v).extension = <<v - 13>> /\ v - 13 \in Byte
      BY <2>2 DEF EncodeExtended, Byte
    <3> DEFINE x == v - 13
               extension == <<x>>
    <3>2. x \in Byte => extension \in Seq(Byte) /\ Len(extension) = 1
      <4> HIDE DEF x
      <4> QED OBVIOUS
    <3>3. Extra(v) = 1
      BY <2>2 DEF Extra
    <3> QED BY <3>1, <3>2, <3>3
  <2> QED BY <2>1, <2>2
<1>6. /\ dx \in Seq(Byte) /\ Len(dx) = Extra(gap)
      /\ lx \in Seq(Byte) /\ Len(lx) = Extra(Len(value))
  BY <1>4, <1>5
<1>7. h \in Byte
  <2>1. EncodeExtended(gap).nibble \in 0 .. 14 /\ EncodeExtended(Len(value)).nibble \in 0 .. 14
    <3>1. \A v \in 0 .. 268 : v \in Nat /\ Extendable(v)
      BY SMT DEF Extendable
    <3> HIDE DEF gap
    <3> QED BY <1>4, <3>1, ExtendedBytes
  <2> DEFINE dn == EncodeExtended(gap).nibble
             ln == EncodeExtended(Len(value)).nibble
  <2>2. dn \in 0 .. 14 /\ ln \in 0 .. 14 /\ h = 16 * dn + ln
    BY <2>1
  <2> HIDE DEF dn, ln, h
  <2> QED BY <2>2 DEF Byte
<1> HIDE DEF gap, dx, lx, h
<1>8. Len(<<h>> \o dx \o lx \o value) = 1 + Len(dx) + Len(lx) + Len(value)
  <2> DEFINE first == <<h>>
  <2>1. first \in Seq(Byte) /\ Len(first) = 1
    BY <1>7
  <2> HIDE DEF first
  <2>2. first \in Seq(Byte) /\ dx \in Seq(Byte) /\ lx \in Seq(Byte)
    BY <1>6, <2>1
  <2>3. Len(first \o dx \o lx \o value) = Len(first) + Len(dx) + Len(lx) + Len(value)
    BY <2>2, FourParts
  <2> QED BY <2>1, <2>3 DEF first
<1> QED BY <1>2, <1>3, <1>6, <1>8 DEF gap

\* After k segments of so many bytes: each costs its bytes and one, and a long
\* one another.
Spent(bytes, k) == 8 + bytes + k + bytes \div 13
\* After an option with this number.
Filled(number) ==
  IF number = UriPath THEN 76 ELSE IF number = ContentFormat THEN 81
  ELSE IF number = Block1 THEN 87 ELSE 93

PathRoom(path, sums, k) ==
  /\ Sums(path, sums) /\ sums[Len(path)] = Len(FlattenSeq(path))
  /\ k \in 0 .. Len(path)
  /\ cursor = SubSeq(path, k + 1, Len(path))
  /\ Len(output) <= Spent(sums[k], k)
RoomInv ==
  FromPipeline =>
    /\ phase = "path" => \E sums : \E k : PathRoom(input.path, sums, k)
    /\ phase = "options" => Len(output) <= Filled(previous_option)
    /\ built \notin {"capacity", "range"}

LEMMA SpentBound ==
  ASSUME NEW path \in Seq(Seq(Byte)), NEW sums, Sums(path, sums),
         sums[Len(path)] = Len(FlattenSeq(path)), PathLength(path) <= ADAPTIVE_MAX_URI_PATH,
         NEW k \in 0 .. Len(path)
  PROVE  sums[k] \in Nat /\ sums[k] <= 64 /\ Spent(sums[k], k) <= 76
<1>1. sums[k] \in Nat /\ sums[Len(path)] \in Nat /\ Len(path) \in Nat
  BY DEF Sums
<1>2. sums[k] <= sums[Len(path)]
  BY SumsRise
<1>3. sums[Len(path)] + Len(path) - 1 <= 63
  BY DEF PathLength, ADAPTIVE_MAX_URI_PATH
<1>4. sums[k] + k <= 64
  BY <1>1, <1>2, <1>3
<1> DEFINE b == sums[k]
<1>5. b \in 0 .. 64 /\ b + k <= 64 /\ k \in Nat
  <2>1. b \in Nat /\ b + k <= 64 /\ k \in Nat
    BY <1>1, <1>4
  <2> HIDE DEF b
  <2> QED BY <2>1
<1> HIDE DEF b
<1>6. b \div 13 <= 4
  BY <1>5
<1>7. b \div 13 \in Int
  BY <1>5
<1>8. Spent(b, k) <= 76
  BY <1>5, <1>6, <1>7 DEF Spent
<1>9. b \in Nat /\ b <= 64
  BY <1>5
<1> QED BY <1>8, <1>9 DEF b

\* The next segment of the path, and the room it takes.
LEMMA SegmentRoom ==
  ASSUME IInv, FromPipeline, phase = "path", cursor # <<>>,
         NEW sums, NEW k, PathRoom(input.path, sums, k)
  PROVE  /\ k + 1 \in 0 .. Len(input.path)
         /\ Tail(cursor) = SubSeq(input.path, (k + 1) + 1, Len(input.path))
         /\ Len(output) <= Spent(sums[k + 1], k + 1)
         /\ Encodable(Segment)
         /\ Len(Encoded(previous_option, Segment)) \in Nat
         /\ Len(output) + Len(Encoded(previous_option, Segment)) <= Spent(sums[k + 1], k + 1)
<1> DEFINE path == input.path
           n == Len(path)
           segment == path[k + 1]
           after == sums[k + 1]
<1>1. /\ path \in Seq(Seq(Byte)) /\ n \in Nat /\ k \in 0 .. n
      /\ Sums(path, sums) /\ sums[n] = Len(FlattenSeq(path)) /\ PathLength(path) <= ADAPTIVE_MAX_URI_PATH
      /\ cursor = SubSeq(path, k + 1, n)
      /\ Len(output) <= Spent(sums[k], k)
  BY CallFields DEF IInv, PathRoom, FromPipeline
<1> HIDE DEF path
<1>2. k < n
  <2>1. k = n => SubSeq(path, k + 1, n) = <<>>
    BY <1>1
  <2> QED BY <1>1, <2>1
<1>3. k + 1 \in 1 .. n /\ k + 1 \in 0 .. n /\ (k + 1) - 1 = k
  BY <1>1, <1>2
<1>4. segment \in Seq(Byte) /\ Len(segment) \in Nat
  BY <1>1, <1>3
<1>5. Head(cursor) = segment /\ Tail(cursor) = SubSeq(path, (k + 1) + 1, n)
  <2>1. cursor \in Seq(Seq(Byte)) /\ Len(cursor) = n - k /\ \A i \in 1 .. n - k : cursor[i] = path[k + i]
    BY <1>1, <1>2
  <2>2. Head(cursor) = cursor[1] /\ 1 \in 1 .. n - k
    BY <1>1, <1>2, <2>1
  <2> DEFINE rest == SubSeq(path, (k + 1) + 1, n)
             tail == Tail(cursor)
  <2>3. /\ tail \in Seq(Seq(Byte)) /\ Len(tail) = (n - k) - 1
        /\ \A i \in 1 .. (n - k) - 1 : tail[i] = cursor[i + 1]
    BY <1>1, <1>2, <2>1
  <2>4. /\ rest \in Seq(Seq(Byte)) /\ Len(rest) = (n - k) - 1
        /\ \A i \in 1 .. (n - k) - 1 : rest[i] = path[(k + 1) + i]
    BY <1>1, <1>2
  <2> HIDE DEF rest, tail
  <2>5. \A i \in 1 .. Len(tail) : tail[i] = rest[i]
    <3>1. \A i \in 1 .. (n - k) - 1 : i + 1 \in 1 .. n - k /\ k + (i + 1) = (k + 1) + i
      BY <1>1
    <3>2. ASSUME NEW i \in 1 .. (n - k) - 1 PROVE tail[i] = rest[i]
      <4>1. tail[i] = cursor[i + 1] /\ rest[i] = path[(k + 1) + i]
        BY <2>3, <2>4
      <4>2. cursor[i + 1] = path[k + (i + 1)] /\ k + (i + 1) = (k + 1) + i
        BY <2>1, <3>1
      <4> QED BY <4>1, <4>2
    <3> QED BY <2>3, <3>2
  <2>6. tail = rest
    BY <2>3, <2>4, <2>5, SeqEqual
  <2> QED BY <2>1, <2>2, <2>6 DEF rest, tail
<1>6. after = sums[k] + Len(segment) /\ sums[k] \in Nat
  BY <1>1, <1>3 DEF Sums
<1>7. after \in Nat /\ after <= 64 /\ sums[k] <= 64
  BY <1>1, <1>3, SpentBound
<1>8. Len(segment) <= 64
  BY <1>4, <1>6, <1>7
<1>9. /\ Encodable(Segment)
      /\ Len(Encoded(previous_option, Segment)) = 1 + Extra(Len(segment)) + Len(segment)
  <2>1. previous_option \in {0, 11}
    BY DEF IInv, BuildInv, UriPath
  <2>2. /\ previous_option \in Nat /\ UriPath \in Nat /\ previous_option <= UriPath
        /\ UriPath - previous_option < 13 /\ UriPath - previous_option < 269
    BY <2>1 DEF UriPath
  <2>3. Extra(UriPath - previous_option) = 0
    BY <2>2 DEF Extra
  <2>4. Segment = Option(UriPath, segment) /\ Len(segment) < 269
    BY <1>4, <1>5, <1>8 DEF Segment
  <2>5. Extra(Len(segment)) \in Nat
    BY DEF Extra
  <2>6. segment \in Seq(Byte)
    BY <1>4
  <2> HIDE DEF segment
  <2>7. /\ Encodable(Option(UriPath, segment))
        /\ Len(Encoded(previous_option, Option(UriPath, segment)))
             = 1 + Extra(UriPath - previous_option) + Extra(Len(segment)) + Len(segment)
    BY <2>2, <2>4, <2>6, EncodedRoom
  <2> QED BY <2>3, <2>4, <2>5, <2>7
<1>10. Len(output) \in Nat
  BY DEF IInv, TypeInv
<1> DEFINE a == sums[k]
           s == Len(segment)
<1>11. /\ a \in 0 .. 64 /\ s \in 0 .. 64 /\ after = a + s
       /\ Len(output) <= 8 + a + k + a \div 13 /\ k \in Nat
  <2>1. /\ a \in Nat /\ a <= 64 /\ s \in Nat /\ s <= 64 /\ after = a + s /\ k \in Nat
        /\ Len(output) <= 8 + a + k + a \div 13
    BY <1>1, <1>4, <1>6, <1>7, <1>8 DEF Spent
  <2> HIDE DEF a, s, after
  <2> QED BY <2>1
<1> HIDE DEF a, s, after
<1>12. a \div 13 + Extra(s) <= (a + s) \div 13 /\ Extra(s) \in Nat
  BY <1>11 DEF Extra
<1>13. a \div 13 \in Int /\ (a + s) \div 13 \in Int
  BY <1>11
<1> DEFINE x == Extra(s)
           q == a \div 13
           r == (a + s) \div 13
           written == Len(output)
<1>14. /\ written <= Spent(after, k + 1)
       /\ 1 + x + s \in Nat
       /\ written + (1 + x + s) <= Spent(after, k + 1)
  <2>1. /\ q + x <= r /\ x \in Nat /\ q \in Int /\ r \in Int
        /\ written <= 8 + a + k + q /\ written \in Nat
    BY <1>10, <1>11, <1>12, <1>13
  <2>2. Spent(after, k + 1) = 8 + (a + s) + (k + 1) + r
    BY <1>11 DEF Spent
  <2> HIDE DEF x, q, r, written
  <2> QED BY <1>11, <2>1, <2>2
<1> QED BY <1>3, <1>5, <1>9, <1>14 DEF a, s, after, path

\* The rest of the call's options, at most four bytes each.
LEMMA OptionRoom ==
  ASSUME IInv, FromPipeline, phase = "options", pending # <<>>, Len(output) <= Filled(previous_option)
  PROVE  /\ Encodable(Head(pending))
         /\ Len(Encoded(previous_option, Head(pending))) \in Nat
         /\ Len(output) + Len(Encoded(previous_option, Head(pending))) <= Filled(Head(pending).number)
         /\ Filled(Head(pending).number) <= 93
<1>1. PICK number : /\ Head(pending) = Due(input.block, number)
                    /\ Follows(input.block, previous_option, number)
                    /\ number \in {ContentFormat, Block1, Size1}
  BY NextDue DEF IInv, BuildInv
<1>2. ValidArguments /\ TypeInv
  BY DEF IInv, BuildInv
<1> DEFINE value == ValueOf(input.block, number)
<1>3. value \in Seq(Byte) /\ Len(value) \in 0 .. 4
  BY <1>2, ValueFacts
<1>4. Head(pending) = Option(number, value) /\ Option(number, value).number = number
  BY <1>1 DEF Due, Option
<1>5. previous_option # 0
  BY DEF IInv, BuildInv, Remain, UriPath, ContentFormat, Block1, Size1
<1> HIDE DEF value
<1>6. \/ previous_option = 11 /\ number = 12
      \/ previous_option = 12 /\ number = 27
      \/ previous_option = 27 /\ number = 60
      \/ previous_option = 11 /\ number = 11
  BY <1>1, <1>5 DEF Follows, UriPath, ContentFormat, Block1, Size1
<1>7. number # 11
  BY <1>1 DEF ContentFormat, Block1, Size1
<1> DEFINE length == Len(value)
           x == Extra(length)
           e == Len(Encoded(previous_option, Option(number, value)))
           gap == Extra(number - previous_option)
<1>8. /\ previous_option \in Nat /\ number \in Nat /\ previous_option <= number
      /\ number - previous_option < 269 /\ length < 269
  <2>1. length \in 0 .. 4
    BY <1>3
  <2> HIDE DEF length
  <2>2. length < 269
    BY <2>1
  <2>3. /\ previous_option \in Nat /\ number \in Nat /\ previous_option <= number
        /\ number - previous_option < 269
    BY <1>6, <1>7
  <2> QED BY <2>2, <2>3
<1>9. /\ Encodable(Option(number, value))
      /\ Len(Encoded(previous_option, Option(number, value)))
           = 1 + Extra(number - previous_option) + Extra(Len(value)) + Len(value)
  BY <1>3, <1>8, EncodedRoom
<1>10. x = 0 /\ length \in 0 .. 4
  <2>1. length \in 0 .. 4
    BY <1>3
  <2> HIDE DEF length
  <2> QED BY <2>1 DEF Extra
<1>11. Filled(previous_option) + 1 + Extra(number - previous_option) + 4 = Filled(number)
       /\ Extra(number - previous_option) \in Nat /\ Filled(number) <= 93 /\ Filled(previous_option) \in Nat
  BY <1>6, <1>7 DEF Extra, Filled, UriPath, ContentFormat, Block1
<1>12. Len(output) \in Nat
  BY DEF IInv, TypeInv
<1>13. e = 1 + gap + x + length
  BY <1>9
<1> DEFINE before == Filled(previous_option)
           room == Filled(number)
           written == Len(output)
<1>14. /\ before + 1 + gap + 4 = room /\ gap \in Nat /\ room <= 93 /\ before \in Nat
       /\ written \in Nat /\ written <= before
  BY <1>11, <1>12
<1> HIDE DEF length, x, e, gap, before, room, written
<1>15. e \in Nat /\ written + e <= room
  BY <1>10, <1>13, <1>14
<1> QED BY <1>4, <1>9, <1>14, <1>15 DEF e, room, written

\* One step of the builder.
LEMMA RoomStep ==
  ASSUME IInv, RoomInv, Build, FromPipeline
  PROVE  RoomInv'
<1>1. /\ input.capacity = 1152 /\ Len(input.block.token) = 4
      /\ PathLength(input.path) <= ADAPTIVE_MAX_URI_PATH
      /\ Len(input.block.payload) <= adaptive_coap_block_size(input.block.szx)
  BY DEF FromPipeline, ADAPTIVE_MAX_COAP_PACKET
<1>2. /\ phase = "path" => \E sums : \E k : PathRoom(input.path, sums, k)
      /\ phase = "options" => Len(output) <= Filled(previous_option)
      /\ built \notin {"capacity", "range"}
  BY DEF RoomInv
<1>3. CASE BuildRefused
  BY <1>3 DEF BuildRefused, BuildReturns, RoomInv
<1>4. CASE BuildHeader
  <2>1. PICK sums : Sums(input.path, sums) /\ sums[Len(input.path)] = Len(FlattenSeq(input.path))
    BY CallFields, PathSums DEF IInv
  <2>2. Len(Header(input.block)) = 8
    BY <1>1, <1>4, HeaderFacts DEF BuildHeader, IInv
  <2>3. Len(input.path) \in Nat /\ SubSeq(input.path, 0 + 1, Len(input.path)) = input.path
    BY CallFields DEF IInv
  <2>4. Spent(sums[0], 0) = 8
    BY <2>1 DEF Sums, Spent
  <2>5. PathRoom(input.path, sums, 0)'
    BY <1>4, <2>1, <2>2, <2>3, <2>4 DEF BuildHeader, PathRoom, Sums
  <2> QED BY <1>2, <1>4, <2>5 DEF RoomInv, BuildHeader
<1>5. CASE SkipSlash
  <2>1. phase = "path" /\ cursor # <<>> /\ cursor' = Tail(cursor) /\ UNCHANGED <<phase, input, output, built>>
    BY <1>5 DEF SkipSlash
  <2>2. PICK sums : \E k : PathRoom(input.path, sums, k)
    BY <1>2, <2>1
  <2>3. PICK k : PathRoom(input.path, sums, k)
    BY <2>2
  <2>4. PathRoom(input.path, sums, k + 1)'
    BY <2>1, <2>3, SegmentRoom DEF PathRoom, Sums
  <2> QED BY <1>2, <2>1, <2>4 DEF RoomInv
<1>6. CASE AppendSegment
  <2>1. /\ phase = "path" /\ cursor # <<>> /\ cursor' = Tail(cursor) /\ append_option(Segment)
        /\ UNCHANGED <<phase, input, built>>
    BY <1>6 DEF AppendSegment
  <2>2. PICK sums : \E k : PathRoom(input.path, sums, k)
    BY <1>2, <2>1
  <2>3. PICK k : PathRoom(input.path, sums, k)
    BY <2>2
  <2>4. Head(cursor) \in Seq(Byte) /\ Follows(input.block, previous_option, UriPath)
    BY <2>1, SegmentDue
  <2>5. Len(output') = Len(output) + Len(Encoded(previous_option, Segment))
    BY <2>1, <2>4, OptionWritten DEF Segment, IInv
  <2>6. PathRoom(input.path, sums, k + 1)'
    <3>1. /\ k + 1 \in 0 .. Len(input.path)
          /\ Tail(cursor) = SubSeq(input.path, (k + 1) + 1, Len(input.path))
          /\ Len(output) + Len(Encoded(previous_option, Segment)) <= Spent(sums[k + 1], k + 1)
      BY <2>1, <2>3, SegmentRoom
    <3>2. input' = input /\ cursor' = Tail(cursor)
      BY <2>1
    <3> QED BY <2>3, <2>5, <3>1, <3>2 DEF PathRoom, Sums
  <2> QED BY <1>2, <2>1, <2>6 DEF RoomInv
<1>7. ASSUME SegmentDoesNotFit PROVE FALSE
  <2>1. phase = "path" /\ cursor # <<>> /\ ~Fits(Segment)
    BY <1>7 DEF SegmentDoesNotFit, DoesNotFit
  <2>2. PICK sums : \E k : PathRoom(input.path, sums, k)
    BY <1>2, <2>1
  <2>3. PICK k : PathRoom(input.path, sums, k)
    BY <2>2
  <2>4. /\ k + 1 \in 0 .. Len(input.path) /\ Encodable(Segment)
        /\ Len(Encoded(previous_option, Segment)) \in Nat /\ Len(output) \in Nat
        /\ Len(output) + Len(Encoded(previous_option, Segment)) <= Spent(sums[k + 1], k + 1)
    BY <2>1, <2>3, SegmentRoom DEF IInv, TypeInv
  <2>5. Spent(sums[k + 1], k + 1) <= 76 /\ sums[k + 1] \in Nat
    <3>1. /\ input.path \in Seq(Seq(Byte)) /\ Sums(input.path, sums)
          /\ sums[Len(input.path)] = Len(FlattenSeq(input.path))
          /\ PathLength(input.path) <= ADAPTIVE_MAX_URI_PATH
      BY <1>1, <2>3, CallFields DEF PathRoom, IInv
    <3> QED BY <2>4, <3>1, SpentBound
  <2>6. Spent(sums[k + 1], k + 1) \in Int
    BY <2>4, <2>5 DEF Spent
  <2> QED BY <1>1, <2>1, <2>4, <2>5, <2>6 DEF Fits
<1>8. CASE PathEnd
  <2>1. /\ phase = "path" /\ cursor = <<>> /\ previous_option = UriPath /\ phase' = "options"
        /\ UNCHANGED <<input, output, previous_option, built>>
    BY <1>8 DEF PathEnd
  <2>2. PICK sums : \E k : PathRoom(input.path, sums, k)
    BY <1>2, <2>1
  <2>3. PICK k : PathRoom(input.path, sums, k)
    BY <2>2
  <2>4. Spent(sums[k], k) <= 76 /\ sums[k] \in Nat /\ k \in Nat
    BY <1>1, <2>3, CallFields, SpentBound DEF PathRoom, IInv
  <2>5. Spent(sums[k], k) \in Int /\ Len(output) \in Nat
    BY <2>4 DEF Spent, IInv, TypeInv
  <2>6. Len(output) <= 76
    BY <2>3, <2>4, <2>5 DEF PathRoom
  <2>7. Len(output') <= Filled(previous_option')
    BY <2>1, <2>6 DEF Filled
  <2> QED BY <1>2, <2>1, <2>7 DEF RoomInv
<1>9. CASE PathRefused
  BY <1>9 DEF PathRefused, BuildReturns, RoomInv
<1>10. CASE AppendOption
  <2>1. /\ phase = "options" /\ pending # <<>> /\ append_option(Head(pending))
        /\ UNCHANGED <<phase, input, built>>
    BY <1>10 DEF AppendOption
  <2>2. Len(output) + Len(Encoded(previous_option, Head(pending))) <= Filled(Head(pending).number)
    BY <1>2, <2>1, OptionRoom
  <2>3. PICK number : /\ Head(pending) = Due(input.block, number)
                      /\ Follows(input.block, previous_option, number)
    BY <2>1, NextDue DEF IInv, BuildInv
  <2>4. ValueOf(input.block, number) \in Seq(Byte)
    BY <2>1, ValueFacts DEF IInv, BuildInv
  <2>5. /\ Len(output') = Len(output) + Len(Encoded(previous_option, Head(pending)))
        /\ previous_option' = Head(pending).number
    BY <2>1, <2>3, <2>4, OptionWritten DEF Due, IInv, append_option
  <2>6. Len(output') <= Filled(previous_option')
    BY <2>2, <2>5
  <2> QED BY <1>2, <2>1, <2>6 DEF RoomInv
<1>11. ASSUME OptionDoesNotFit PROVE FALSE
  <2>1. phase = "options" /\ pending # <<>> /\ ~Fits(Head(pending))
    BY <1>11 DEF OptionDoesNotFit, DoesNotFit
  <2>2. /\ Encodable(Head(pending)) /\ Filled(Head(pending).number) <= 93
        /\ Len(Encoded(previous_option, Head(pending))) \in Nat
        /\ Len(output) + Len(Encoded(previous_option, Head(pending))) <= Filled(Head(pending).number)
    BY <1>2, <2>1, OptionRoom
  <2>3. Filled(Head(pending).number) \in Int /\ Len(output) \in Nat
    BY DEF Filled, IInv, TypeInv
  <2> QED BY <1>1, <2>1, <2>2, <2>3 DEF Fits
<1>12. CASE AppendPayload
  BY <1>2, <1>12 DEF AppendPayload, RoomInv
<1>13. ASSUME PayloadDoesNotFit PROVE FALSE
  <2>1. phase = "options" /\ ~PayloadFits
    BY <1>13 DEF PayloadDoesNotFit
  <2>2. Len(output) <= 93
    <3>1. Len(output) <= Filled(previous_option)
      BY <1>2, <2>1
    <3>2. Filled(previous_option) \in {76, 81, 87, 93} /\ Len(output) \in Nat
      BY DEF Filled, IInv, TypeInv
    <3> QED BY <3>1, <3>2
  <2>3. Len(input.block.payload) <= 1024
    <3>1. input.block.szx \in 0 .. 6
      <4>1. ValidArguments
        BY <2>1 DEF IInv, BuildInv
      <4>2. input.block.szx <= 6
        BY <4>1 DEF ValidArguments
      <4>3. input.block.szx \in Byte
        BY CallFields, BlockFields DEF IInv
      <4> DEFINE z == input.block.szx
      <4>4. z \in Nat /\ z <= 6
        BY <4>2, <4>3 DEF Byte
      <4> HIDE DEF z
      <4>5. z \in 0 .. 6
        BY <4>4
      <4> QED BY <4>5 DEF z
    <3>2. adaptive_coap_block_size(input.block.szx) \in {16, 32, 64, 128, 256, 512, 1024}
      BY <3>1 DEF adaptive_coap_block_size
    <3>3. Len(input.block.payload) \in Nat
      BY CallFields DEF IInv
    <3> QED BY <1>1, <3>2, <3>3
  <2>4. Len(output) \in Nat /\ Len(input.block.payload) \in Nat
    BY CallFields DEF IInv, TypeInv
  <2> QED BY <1>1, <2>1, <2>2, <2>3, <2>4 DEF PayloadFits
<1> QED BY <1>3, <1>4, <1>5, <1>6, <1>7, <1>8, <1>9, <1>10, <1>11, <1>12, <1>13 DEF Build

\* The buffers of adaptive_pipeline_process hold every packet of a window: with
\* a path the configuration can hold, a token of four bytes and a record that
\* fits its block, no build fails for want of room.
THEOREM PipelineFitsAlways == Spec => []PipelineFits
<1>1. Init => RoomInv
  BY DEF Init, RoomInv, Busy
<1>2. IInv /\ RoomInv /\ [Next]_vars => RoomInv'
  <2> SUFFICES ASSUME IInv, RoomInv, [Next]_vars PROVE RoomInv'
    OBVIOUS
  <2>1. input' = input
    BY DEF Next, vars, builder, Build, BuildRefused, BuildHeader, SkipSlash, AppendSegment,
       SegmentDoesNotFit, DoesNotFit, PathEnd, PathRefused, AppendOption, OptionDoesNotFit,
       AppendPayload, PayloadDoesNotFit, BuildReturns, Carry, Truncate, Damage, Arrives, Parse,
       HeaderRefused, ParseHeader, ParseOption, OptionRefused, EndRefused, ParseEnd, ParseReturns
  <2>2. FromPipeline' = FromPipeline
    BY <2>1 DEF FromPipeline
  <2>3. CASE ~FromPipeline
    BY <2>2, <2>3 DEF RoomInv
  <2>4. CASE FromPipeline /\ Build
    BY <2>4, RoomStep
  <2>5. CASE Carry \/ Truncate \/ Damage \/ Parse
    <3>1. built' = built /\ phase' \notin {"path", "options"}
      BY <2>5 DEF Carry, Truncate, Damage, Arrives, builder, Parse, HeaderRefused, ParseHeader,
         ParseOption, OptionRefused, EndRefused, ParseEnd, ParseReturns
    <3> QED BY <2>2, <3>1 DEF RoomInv
  <2>6. CASE UNCHANGED vars
    BY <2>6 DEF RoomInv, PathRoom, FromPipeline, vars, builder
  <2> QED BY <2>3, <2>4, <2>5, <2>6 DEF Next
<1>3. RoomInv => PipelineFits
  BY DEF RoomInv, PipelineFits
<1> QED BY <1>1, <1>2, <1>3, Invariance, PTL DEF Spec

========================================================================
