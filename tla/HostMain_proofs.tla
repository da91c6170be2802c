---------------------------- MODULE HostMain_proofs ----------------------------
(***************************************************************************)
(* The host program, proved for all representation lengths, block          *)
(* exponents, numbers of windows and of failures: the segmentation adds    *)
(* up, whatever fails or is repeated the receiver completes whole windows  *)
(* in order, a call that returns OK completed its window, and main exits   *)
(* with what is true.                                                      *)
(***************************************************************************)
EXTENDS HostMain, FiniteSetTheorems, SequenceTheorems, TLAPS

Capacity == PlaintextCapacity(upload.szx)

\* The representation is cut into blocks of the capacity, and the loop is at
\* the start of one of them or at the end.
UploadCut ==
  /\ upload.window \in 1 .. MaxWindow /\ upload.window < next_window_id
  /\ upload.length \in Lengths /\ upload.szx \in Szx /\ upload.faint \in BOOLEAN
  /\ Capacity \in Nat \ {0} /\ upload.count \in Nat \ {0}
  /\ Capacity * (upload.count - 1) < upload.length
  /\ upload.length <= Capacity * upload.count
  /\ upload.number \in 0 .. upload.count
  /\ IF upload.number < upload.count
     THEN upload.offset = Capacity * upload.number
     ELSE upload.offset = upload.length

UploadInv ==
  /\ upload \in [window : 0 .. MaxWindow, length : Lengths \cup {0}, szx : Szx \cup {0},
                 count : Nat, number : Nat, offset : Nat, faint : BOOLEAN]
  /\ UploadCut \/ (upload = NoUpload /\ pc = "idle" /\ result # "OK" /\ packets = <<>>)
  /\ CallReturnedOk => upload.number = upload.count

\* Block n of the upload, and a packet that carries it.
PieceOf(n) == [boot |-> 0, window |-> upload.window, number |-> n, of |-> upload.count,
               faint |-> upload.faint]
HeaderOf(n) == [token |-> upload.window, number |-> n, more |-> n + 1 < upload.count]
Carries(packet, n) ==
  /\ packet.header = HeaderOf(n)
  /\ packet.record.key = ClientToServer("secret")
  /\ packet.record.sequence \in Nat
  /\ packet.record.aad = HeaderOf(n)
  /\ packet.record.plaintext = PieceOf(n)
  /\ packet.size1 = TotalProtected(upload.length, upload.count)

\* The packets of a call are its blocks in order, sealed with increasing
\* numbers, and while it runs or when it returned OK they are all it sent.
PacketsInv ==
  /\ packets \in Seq([message_id : 0 .. MessageIds - 1, header : Headers, record : Records,
                      record_length : Nat, size1 : Nat])
  /\ Len(packets) <= upload.count
  /\ \A i \in DOMAIN packets :
        /\ Carries(packets[i], i - 1)
        /\ packets[i].record.sequence < client_security.tx_sequence
        /\ \A j \in 1 .. i - 1 : packets[j].record.sequence < packets[i].record.sequence
  /\ pc = "sending" \/ CallReturnedOk =>
        /\ Len(packets) = upload.number
        /\ sent = upload.offset + upload.number * Overhead

\* The two ends share the key of their direction.
SecurityInv ==
  /\ client_security \in Contexts /\ server_security \in Contexts
  /\ client_security.tx_key = ClientToServer("secret")
  /\ server_security.rx_key = ClientToServer("secret")

\* A transfer is never of a later window than the upload, and holds the first
\* blocks of the upload when it is of its window.
TransferInv(transfer) ==
  /\ transfer \in [active : BOOLEAN, token : 0 .. MaxWindow, next_block : Nat,
                   representation : Seq(Pieces)]
  /\ transfer.token <= upload.window
  /\ transfer.token = upload.window =>
       /\ Len(transfer.representation) = transfer.next_block
       /\ \A i \in DOMAIN transfer.representation : transfer.representation[i] = PieceOf(i - 1)

\* The current window was completed.
Done == \E i \in DOMAIN completions : completions[i][1].window = upload.window

\* What was completed; once the window of the upload is, every one of its
\* packets would be a replay, and none is to follow.
CompletionsInv ==
  /\ completions \in Seq(Seq(Pieces))
  /\ CompletionsInOrder
  /\ \A i \in DOMAIN completions : completions[i][1].window <= upload.window
  /\ Done =>
       /\ server_security.rx_initialized
       /\ \A i \in DOMAIN packets : packets[i].record.sequence <= server_security.rx_highest
       /\ pc = "sending" => upload.number = upload.count
  /\ (pc = "sending" /\ upload.number = upload.count) \/ CallReturnedOk => Done

ControlInv ==
  /\ uri_path \in {"telemetry", "/"}
  /\ pc \in {"idle", "sending"} /\ (pc = "sending" => upload # NoUpload)
  /\ result \in Results \cup {"none", "ERR_ARGUMENT", "ERR_RANGE", "ERR_CRYPTO", "ERR_IO"}
  /\ next_window_id \in 1 .. MaxWindow + 1
  /\ next_message_id \in 0 .. MessageIds - 1
  /\ failures \in 0 .. MaxFailures

PipelineInv ==
  /\ ControlInv /\ UploadInv /\ PacketsInv /\ SecurityInv
  /\ TransferInv(receiver) /\ CompletionsInv

-----------------------------------------------------------------------------
\* Segmentation.

LEMMA BlockSizeInt == ASSUME NEW szx \in 0 .. 6 PROVE BlockSize(szx) \in Int
  BY DEF BlockSize

\* The number of blocks of a capacity a representation is cut into.
LEMMA BlockCountCuts ==
  ASSUME NEW length \in Nat \ {0}, NEW capacity \in Nat \ {0}
  PROVE  /\ BlockCount(length, capacity) \in Nat \ {0}
         /\ capacity * (BlockCount(length, capacity) - 1) < length
         /\ length <= capacity * BlockCount(length, capacity)
  BY DEF BlockCount

\* The block of the loop: full unless it is the last, and More says which; the
\* length check of adaptive_pipeline_process passes.
LEMMA NextBlock ==
  ASSUME UploadCut, upload.number < upload.count
  PROVE  /\ PlaintextLength(upload) \in Nat \ {0}
         /\ FillsBlock(Packet)
         /\ More <=> upload.number + 1 < upload.count
         /\ More => upload.offset + PlaintextLength(upload) = Capacity * (upload.number + 1)
         /\ ~More => upload.offset + PlaintextLength(upload) = upload.length
         /\ ~More => upload.number + 1 = upload.count
<1> DEFINE c == Capacity
           n == upload.number
           count == upload.count
           length == upload.length
<1>1. /\ c \in Nat \ {0} /\ count \in Nat \ {0} /\ n \in Nat /\ n < count
      /\ length \in Nat \ {0}
      /\ c * (count - 1) < length /\ length <= c * count
      /\ upload.offset = c * n
  <2>1. upload.length \in Nat \ {0}
    BY PipelineBounds DEF UploadCut
  <2>2. upload.count \in Nat \ {0} /\ upload.number \in Nat
    BY DEF UploadCut
  <2> QED BY <2>1, <2>2 DEF UploadCut
<1>2. PlaintextLength(upload) = IF length - c * n < c THEN length - c * n ELSE c
  BY <1>1 DEF PlaintextLength, Lesser, Capacity
<1>3. BlockSize(upload.szx) = c + Overhead
  <2>1. upload.szx \in 0 .. 6
    BY PipelineBounds DEF UploadCut
  <2> QED BY <2>1, BlockSizeInt DEF Capacity, PlaintextCapacity, Overhead
<1>4. More <=> n + 1 < count
  BY DEF More
<1> HIDE DEF c, n, count, length
<1>5. c * (n + 1) = c * n + c /\ c * n \in Nat
  BY <1>1
<1>6. CASE n + 1 < count
  <2>1. c * (n + 1) <= c * (count - 1)
    BY <1>1, <1>6
  <2>2. PlaintextLength(upload) = c
    BY <1>1, <1>2, <1>5, <2>1
  <2> QED BY <1>1, <1>3, <1>4, <1>5, <1>6, <2>2
      DEF FillsBlock, Packet, Header, Overhead, c, n, count, length
<1>7. CASE n + 1 = count
  <2>1. c * n < length /\ length <= c * n + c
    BY <1>1, <1>5, <1>7
  <2>2. PlaintextLength(upload) = length - c * n /\ PlaintextLength(upload) <= c
    BY <1>1, <1>2, <1>5, <2>1
  <2>3. ~More
    BY <1>1, <1>4, <1>7
  <2> QED BY <1>1, <1>3, <1>5, <1>7, <2>1, <2>2, <2>3
      DEF FillsBlock, Packet, Header, Overhead, c, n, count, length
<1> QED BY <1>1, <1>6, <1>7

\* The packet made for the block carries it.
LEMMA PacketCarries ==
  ASSUME SecurityInv
  PROVE  /\ Carries(Packet, upload.number)
         /\ Packet.record.sequence = client_security.tx_sequence
         /\ Packet.record_length = PlaintextLength(upload) + Overhead
  BY DEF SecurityInv, Contexts, Carries, Packet, Header, HeaderOf, More, Piece, PieceOf, Sealed, Aad

-----------------------------------------------------------------------------
\* The receiver, on a packet of the upload.

Current(header) == Started(receiver, header)
Filled(header, record) == Extended(Current(header), record.plaintext)

LEMMA CurrentFacts ==
  ASSUME TransferInv(receiver), UploadCut, NEW n \in 0 .. upload.count - 1
  PROVE  TransferInv(Current(HeaderOf(n)))
<1>1. CASE n = 0
  <2> DEFINE current == Current(HeaderOf(n))
  <2>1. current = [active |-> TRUE, token |-> upload.window, next_block |-> 0,
                   representation |-> <<>>]
    BY <1>1 DEF Current, Started, HeaderOf
  <2>2. current \in [active : BOOLEAN, token : 0 .. MaxWindow, next_block : Nat,
                     representation : Seq(Pieces)]
    BY <2>1 DEF UploadCut
  <2>3. current.token = upload.window /\ current.next_block = 0 /\ current.representation = <<>>
    BY <2>1
  <2> HIDE DEF current
  <2>4. upload.window <= upload.window
    BY DEF UploadCut
  <2>5. TransferInv(current)
    BY <2>2, <2>3, <2>4 DEF TransferInv
  <2> QED BY <2>5 DEF current
<1>2. CASE n # 0
  <2>1. Current(HeaderOf(n)) = receiver
    BY <1>2 DEF Current, Started, HeaderOf
  <2> QED BY <2>1
<1> QED BY <1>1, <1>2

\* An expected block extends the blocks received by the one it should be, and
\* with the last block they are the whole window.
LEMMA FilledFacts ==
  ASSUME TransferInv(receiver), UploadCut, NEW n \in 0 .. upload.count - 1,
         NEW packet, Carries(packet, n), Expected(Current(packet.header), packet.header)
  PROVE  LET filled == Filled(packet.header, packet.record)
         IN /\ TransferInv(filled) /\ TransferInv(Finished(filled))
            /\ Finished(filled).representation = filled.representation
            /\ filled.representation \in Seq(Pieces)
            /\ filled.representation[1].window = upload.window
            /\ ~MayOverflow(filled.representation)
            /\ ~packet.header.more => n + 1 = upload.count /\ Whole(filled.representation)
<1> DEFINE current == Current(HeaderOf(n))
           filled == Filled(packet.header, packet.record)
           old == current.representation
           new == filled.representation
<1>1. packet.header = HeaderOf(n) /\ packet.record.plaintext = PieceOf(n)
  BY DEF Carries
<1>2. TransferInv(current)
  BY CurrentFacts
<1>3. current.next_block = n /\ current.token = upload.window
  BY <1>1 DEF Expected, HeaderOf
<1>4. /\ old \in Seq(Pieces) /\ Len(old) = n
      /\ \A i \in 1 .. n : old[i] = PieceOf(i - 1)
  BY <1>2, <1>3 DEF TransferInv
<1>5. PieceOf(n) \in Pieces
  BY DEF UploadCut, PieceOf, Pieces, Windows
<1>6. filled = [current EXCEPT !.representation = Append(old, PieceOf(n)), !.next_block = n + 1]
  BY <1>1, <1>2, <1>3 DEF Filled, Extended, TransferInv
<1>7. /\ new = Append(old, PieceOf(n)) /\ filled.next_block = n + 1
      /\ filled.token = upload.window
      /\ filled \in [active : BOOLEAN, token : 0 .. MaxWindow, next_block : Nat,
                     representation : Seq(Pieces)]
  <2>1. current \in [active : BOOLEAN, token : 0 .. MaxWindow, next_block : Nat,
                     representation : Seq(Pieces)]
    BY <1>2 DEF TransferInv
  <2>2. Append(old, PieceOf(n)) \in Seq(Pieces) /\ n + 1 \in Nat
    BY <1>4, <1>5
  <2> HIDE DEF current, filled, old
  <2> QED BY <1>3, <1>6, <2>1, <2>2 DEF new
<1> HIDE DEF old, new, filled, current
<1>8. /\ new \in Seq(Pieces) /\ Len(new) = n + 1 /\ DOMAIN new = 1 .. n + 1
      /\ \A i \in 1 .. n : new[i] = old[i]
      /\ new[n + 1] = PieceOf(n)
  BY <1>4, <1>5, <1>7
<1>9. \A i \in 1 .. n + 1 : new[i] = PieceOf(i - 1)
  BY <1>4, <1>8
<1>10. upload.window <= upload.window
  BY DEF UploadCut
<1>11. TransferInv(filled)
  BY <1>7, <1>8, <1>9, <1>10 DEF TransferInv, new
<1>12. /\ Finished(filled).representation = new
       /\ TransferInv(Finished(filled))
  BY <1>7, <1>11 DEF Finished, TransferInv, new
<1>13. \A i \in DOMAIN new : /\ new[i].boot = 0 /\ new[i].window = upload.window
                             /\ new[i].number = i - 1 /\ new[i].of = upload.count
  BY <1>8, <1>9 DEF PieceOf
<1>14. OneWindow(new)
  BY <1>13 DEF OneWindow
<1>15. ~packet.header.more => n + 1 = upload.count /\ Whole(new)
  <2> SUFFICES ASSUME ~packet.header.more PROVE n + 1 = upload.count /\ Whole(new)
    OBVIOUS
  <2>1. n + 1 = upload.count
    <3>1. packet.header.more <=> n + 1 < upload.count
      <4>1. HeaderOf(n).more = (n + 1 < upload.count)
        BY DEF HeaderOf
      <4> QED BY <1>1, <4>1, Zenon
    <3>2. upload.count \in Nat \ {0} /\ n \in 0 .. upload.count - 1
      BY DEF UploadCut
    <3>3. ~(n + 1 < upload.count)
      BY <3>1, Zenon
    <3> QED BY <3>2, <3>3
  <2>2. new # <<>>
    BY <1>8
  <2> QED BY <1>8, <1>13, <1>14, <2>1, <2>2 DEF Whole
<1>16. new[1].window = upload.window
  BY <1>8, <1>13
<1> QED BY <1>8, <1>11, <1>12, <1>14, <1>15, <1>16 DEF MayOverflow, new, filled

\* What handling a packet of the upload can come to: of the verdicts only these
\* five, and what each means.
LEMMA DeliveryCases ==
  ASSUME TransferInv(receiver), UploadCut, NEW n \in 0 .. upload.count - 1,
         NEW packet, Carries(packet, n),
         NEW outcome \in Outcomes(receiver, server_security, packet.header, packet.record)
  PROVE  LET filled == Filled(packet.header, packet.record)
         IN \/ /\ outcome.verdict \in {"unexpected", "refused"}
               /\ outcome.transfer = Current(packet.header)
               /\ outcome.context = server_security
            \/ /\ Expected(Current(packet.header), packet.header)
               /\ ~Replayed(server_security, packet.record)
               /\ outcome.context = AfterOpen(server_security, packet.record)
               /\ \/ /\ outcome.verdict = "more" /\ packet.header.more
                     /\ outcome.transfer = filled
                  \/ /\ outcome.verdict = "decoded" /\ ~packet.header.more
                     /\ outcome.transfer = Finished(filled)
                  \/ /\ outcome.verdict = "undecodable" /\ ~packet.header.more
                     /\ outcome.transfer = filled
<1> DEFINE header == packet.header
           record == packet.record
           Outcome(verdict, t, c) == [verdict |-> verdict, transfer |-> t, context |-> c]
           current == Current(header)
           filled == Filled(header, record)
           opened == AfterOpen(server_security, record)
<1>1. CASE ~Expected(current, header)
  <2>1. outcome = Outcome("unexpected", current, server_security)
    BY <1>1 DEF Outcomes, Current
  <2> QED BY <2>1
<1>2. CASE Expected(current, header) /\ ~Opens(server_security, record, header)
  <2>1. outcome = Outcome("refused", current, server_security)
    BY <1>2 DEF Outcomes, Current, Aad
  <2> QED BY <2>1
<1>3. CASE Expected(current, header) /\ Opens(server_security, record, header)
  <2>1. outcome \in
          (IF MayOverflow(filled.representation)
           THEN {Outcome("overflow", current, opened)} ELSE {})
          \cup
          (IF header.more
           THEN {Outcome("more", filled, opened)}
           ELSE {IF ok THEN Outcome("decoded", Finished(filled), opened)
                       ELSE Outcome("undecodable", filled, opened) :
                   ok \in DecodeResults(filled.representation)})
    BY <1>3, Zenon DEF Outcomes, Current, Filled, Aad
  <2>2. ~MayOverflow(filled.representation)
    BY <1>3, FilledFacts
  <2>3. \/ header.more /\ outcome = Outcome("more", filled, opened)
        \/ ~header.more /\ outcome = Outcome("decoded", Finished(filled), opened)
        \/ ~header.more /\ outcome = Outcome("undecodable", filled, opened)
    <3> HIDE DEF Outcome, current, filled, opened, header, record
    <3> QED BY <2>1, <2>2
  <2>4. ~Replayed(server_security, record)
    BY <1>3 DEF Opens
  <2>5. CASE header.more /\ outcome = Outcome("more", filled, opened)
    BY <1>3, <2>4, <2>5
  <2>6. CASE ~header.more /\ outcome = Outcome("decoded", Finished(filled), opened)
    BY <1>3, <2>4, <2>6
  <2>7. CASE ~header.more /\ outcome = Outcome("undecodable", filled, opened)
    BY <1>3, <2>4, <2>7
  <2> QED BY <2>3, <2>5, <2>6, <2>7
<1> QED BY <1>1, <1>2, <1>3

\* Opening a record only raises the highest sequence number.
LEMMA OpenedContext ==
  ASSUME SecurityInv, NEW record, record.sequence \in Nat, ~Replayed(server_security, record)
  PROVE  LET context == AfterOpen(server_security, record)
         IN /\ context \in Contexts
            /\ context.rx_key = server_security.rx_key
            /\ context.rx_initialized /\ context.rx_highest = record.sequence
            /\ server_security.rx_initialized => server_security.rx_highest < record.sequence
<1> DEFINE context == AfterOpen(server_security, record)
<1>1. server_security \in Contexts
  BY DEF SecurityInv
<1>2. /\ context \in Contexts /\ context.rx_key = server_security.rx_key
      /\ context.rx_initialized = TRUE /\ context.rx_highest = record.sequence
  BY <1>1 DEF Contexts, AfterOpen
<1>3. server_security.rx_highest \in Nat /\ server_security.rx_initialized \in BOOLEAN
  BY <1>1 DEF Contexts
<1>4. server_security.rx_initialized => server_security.rx_highest < record.sequence
  BY <1>3 DEF Replayed
<1> HIDE DEF context
<1> QED BY <1>2, <1>4 DEF context

\* adaptive_receiver_accept on a packet of the upload: nothing is completed, or
\* the window of the upload is, by its last block, for the first time.
LEMMA AcceptFacts ==
  ASSUME SecurityInv, TransferInv(receiver), UploadCut, NEW n \in 0 .. upload.count - 1,
         NEW packet, Carries(packet, n), NEW value, Accept(packet, value)
  PROVE  /\ value \in Results
         /\ TransferInv(receiver')
         /\ server_security' \in Contexts
         /\ server_security'.rx_key = server_security.rx_key
         /\ server_security.rx_initialized =>
              /\ server_security'.rx_initialized
              /\ server_security.rx_highest <= server_security'.rx_highest
         /\ \/ completions' = completions /\ ~(value = "OK" /\ n + 1 = upload.count)
            \/ \E pieces \in Seq(Pieces) :
                 /\ completions' = Append(completions, pieces) /\ value = "OK"
                 /\ Whole(pieces) /\ pieces[1].window = upload.window
                 /\ n + 1 = upload.count
                 /\ ~Replayed(server_security, packet.record)
                 /\ server_security'.rx_initialized
                 /\ server_security'.rx_highest = packet.record.sequence
<1> DEFINE filled == Filled(packet.header, packet.record)
<1>1. PICK outcome \in Outcomes(receiver, server_security, packet.header, packet.record) :
        /\ value = ResultOf(outcome.verdict)
        /\ receiver' = outcome.transfer
        /\ server_security' = outcome.context
        /\ completions' = IF outcome.verdict = "decoded"
                          THEN Append(completions, outcome.transfer.representation)
                          ELSE completions
  BY DEF Accept
<1>2. packet.record.sequence \in Nat /\ packet.header = HeaderOf(n)
  BY DEF Carries
<1>3. packet.header.more <=> n + 1 < upload.count
  <2>1. HeaderOf(n).more = (n + 1 < upload.count)
    BY DEF HeaderOf
  <2> QED BY <1>2, <2>1, Zenon
<1>4. CASE /\ outcome.verdict \in {"unexpected", "refused"}
           /\ outcome.transfer = Current(packet.header)
           /\ outcome.context = server_security
  <2>1. TransferInv(receiver')
    BY <1>1, <1>2, <1>4, CurrentFacts
  <2>2. value \in Results /\ value # "OK"
    BY <1>1, <1>4 DEF ResultOf, Results
  <2>3. server_security.rx_highest <= server_security.rx_highest
    BY DEF SecurityInv, Contexts
  <2> QED BY <1>1, <1>4, <2>1, <2>2, <2>3 DEF SecurityInv
<1>5. ASSUME /\ Expected(Current(packet.header), packet.header)
             /\ ~Replayed(server_security, packet.record)
             /\ outcome.context = AfterOpen(server_security, packet.record)
      PROVE  /\ server_security' \in Contexts
             /\ server_security'.rx_key = server_security.rx_key
             /\ server_security.rx_initialized =>
                  /\ server_security'.rx_initialized
                  /\ server_security.rx_highest <= server_security'.rx_highest
             /\ server_security'.rx_initialized
             /\ server_security'.rx_highest = packet.record.sequence
             /\ TransferInv(filled) /\ TransferInv(Finished(filled))
             /\ Finished(filled).representation = filled.representation
             /\ filled.representation \in Seq(Pieces)
             /\ filled.representation[1].window = upload.window
             /\ ~packet.header.more => n + 1 = upload.count /\ Whole(filled.representation)
  <2> HIDE DEF filled
  <2>1. /\ TransferInv(filled) /\ TransferInv(Finished(filled))
        /\ Finished(filled).representation = filled.representation
        /\ filled.representation \in Seq(Pieces)
        /\ filled.representation[1].window = upload.window
        /\ ~packet.header.more => n + 1 = upload.count /\ Whole(filled.representation)
    BY <1>5, FilledFacts DEF filled
  <2>2. /\ server_security' \in Contexts
        /\ server_security'.rx_key = server_security.rx_key
        /\ server_security'.rx_initialized
        /\ server_security'.rx_highest = packet.record.sequence
        /\ server_security.rx_initialized => server_security.rx_highest < packet.record.sequence
    BY <1>1, <1>2, <1>5, OpenedContext
  <2>3. server_security.rx_initialized =>
          server_security.rx_highest <= server_security'.rx_highest
    BY <1>2, <2>2 DEF SecurityInv, Contexts
  <2> QED BY <2>1, <2>2, <2>3
<1> HIDE DEF filled
<1>6. CASE /\ Expected(Current(packet.header), packet.header)
           /\ ~Replayed(server_security, packet.record)
           /\ outcome.context = AfterOpen(server_security, packet.record)
           /\ outcome.verdict = "more" /\ packet.header.more
           /\ outcome.transfer = filled
  <2>1. value = "OK" /\ value \in Results /\ completions' = completions
    BY <1>1, <1>6 DEF ResultOf, Results
  <2>2. n + 1 # upload.count
    BY <1>3, <1>6
  <2> QED BY <1>1, <1>5, <1>6, <2>1, <2>2
<1>7. CASE /\ Expected(Current(packet.header), packet.header)
           /\ ~Replayed(server_security, packet.record)
           /\ outcome.context = AfterOpen(server_security, packet.record)
           /\ outcome.verdict = "decoded" /\ ~packet.header.more
           /\ outcome.transfer = Finished(filled)
  <2>1. value = "OK" /\ value \in Results
        /\ completions' = Append(completions, filled.representation)
    BY <1>1, <1>5, <1>7 DEF ResultOf, Results
  <2> QED BY <1>1, <1>5, <1>7, <2>1
<1>8. CASE /\ Expected(Current(packet.header), packet.header)
           /\ ~Replayed(server_security, packet.record)
           /\ outcome.context = AfterOpen(server_security, packet.record)
           /\ outcome.verdict = "undecodable" /\ ~packet.header.more
           /\ outcome.transfer = filled
  <2>1. value = "ERR_FORMAT" /\ value \in Results /\ completions' = completions
    BY <1>1, <1>8 DEF ResultOf, Results
  <2> QED BY <1>1, <1>5, <1>8, <2>1
<1> QED BY <1>4, <1>6, <1>7, <1>8, DeliveryCases DEF filled

\* A window completed for the first time is the latest of all.
LEMMA CompletedOnce ==
  ASSUME CompletionsInv, UploadCut, ~Done, NEW pieces \in Seq(Pieces), Whole(pieces),
         pieces[1].window = upload.window, completions' = Append(completions, pieces)
  PROVE  /\ completions' \in Seq(Seq(Pieces))
         /\ CompletionsInOrder'
         /\ \A i \in DOMAIN completions' : completions'[i][1].window <= upload.window
         /\ \E i \in DOMAIN completions' : completions'[i][1].window = upload.window
<1> DEFINE last == Len(completions) + 1
<1>1. completions \in Seq(Seq(Pieces)) /\ CompletionsInOrder
  BY DEF CompletionsInv
<1>2. ASSUME NEW i \in DOMAIN completions
      PROVE  completions[i][1].window \in Nat /\ completions[i][1].window < upload.window
  <2>1. completions[i] \in Seq(Pieces) /\ completions[i] # <<>>
    BY <1>1 DEF CompletionsInOrder, Whole
  <2>2. completions[i][1] \in Pieces
    BY <2>1
  <2>3. completions[i][1].window \in Nat
    BY <2>2 DEF Pieces, Windows
  <2>4. completions[i][1].window <= upload.window /\ completions[i][1].window # upload.window
    BY DEF CompletionsInv, Done
  <2> QED BY <2>3, <2>4 DEF UploadCut
<1>3. /\ completions' \in Seq(Seq(Pieces))
      /\ DOMAIN completions = 1 .. last - 1 /\ last \in Nat \ {0}
      /\ DOMAIN completions' = 1 .. last /\ completions'[last] = pieces
      /\ \A i \in 1 .. last - 1 : completions'[i] = completions[i]
  BY <1>1
<1> HIDE DEF last
<1>4. ASSUME NEW i \in 1 .. last
      PROVE  /\ Whole(completions'[i])
             /\ \A j \in 1 .. i - 1 : completions'[j][1].window < completions'[i][1].window
             /\ completions'[i][1].window <= upload.window
  <2>1. CASE i = last
    <3>1. completions'[i] = pieces
      BY <1>3, <2>1
    <3>2. upload.window <= upload.window
      BY DEF UploadCut
    <3>3. ASSUME NEW j \in 1 .. i - 1 PROVE completions'[j][1].window < upload.window
      <4>1. j \in DOMAIN completions /\ completions'[j] = completions[j]
        BY <1>3, <2>1
      <4> QED BY <1>2, <4>1
    <3> QED BY <3>1, <3>2, <3>3
  <2>2. CASE i # last
    <3>1. i \in DOMAIN completions /\ \A j \in 1 .. i - 1 : j \in DOMAIN completions
      BY <1>3, <2>2
    <3>2. /\ Whole(completions[i])
          /\ \A j \in 1 .. i - 1 : completions[j][1].window < completions[i][1].window
      BY <1>1, <3>1 DEF CompletionsInOrder
    <3>3. completions'[i] = completions[i] /\ \A j \in 1 .. i - 1 : completions'[j] = completions[j]
      BY <1>3, <3>1
    <3>4. completions[i][1].window <= upload.window
      BY <3>1 DEF CompletionsInv
    <3> QED BY <3>2, <3>3, <3>4
  <2> QED BY <2>1, <2>2
<1>5. CompletionsInOrder'
  BY <1>3, <1>4 DEF CompletionsInOrder
<1>6. last \in DOMAIN completions' /\ completions'[last][1].window = upload.window
  BY <1>3
<1> QED BY <1>3, <1>4, <1>5, <1>6

-----------------------------------------------------------------------------
\* The invariant is inductive.

LEMMA InitPipelineInv == Init => PipelineInv
<1> SUFFICES ASSUME Init PROVE PipelineInv
  OBVIOUS
<1>1. ControlInv
  BY PipelineBounds DEF Init, ControlInv
<1>2. UploadInv
  BY PipelineBounds DEF Init, UploadInv, NoUpload, CallReturnedOk
<1>3. PacketsInv
  BY DEF Init, PacketsInv, NoUpload, CallReturnedOk
<1>4. SecurityInv
  BY DEF Init, SecurityInv, Contexts, ClientContext, ServerContext, NewContext, Keys,
     ClientToServer, ServerToClient
<1>5. TransferInv(receiver)
  <2>1. receiver = [active |-> FALSE, token |-> 0, next_block |-> 0, representation |-> <<>>]
    BY DEF Init, IdleTransfer, NoToken
  <2>2. receiver \in [active : BOOLEAN, token : 0 .. MaxWindow, next_block : Nat,
                      representation : Seq(Pieces)]
    BY <2>1, PipelineBounds
  <2> QED BY <2>1, <2>2 DEF Init, TransferInv, NoUpload
<1>6. CompletionsInv
  BY DEF Init, CompletionsInv, CompletionsInOrder, Done, CallReturnedOk
<1> QED BY <1>1, <1>2, <1>3, <1>4, <1>5, <1>6 DEF PipelineInv

\* A transfer stays in order as long as the upload keeps its window and count.
LEMMA TransferStays ==
  ASSUME TransferInv(receiver'), upload'.window = upload.window, upload'.count = upload.count,
         upload'.faint = upload.faint
  PROVE  TransferInv(receiver)'
  BY DEF TransferInv, PieceOf

\* ... and when the upload goes to a later window.
LEMMA TransferOutdated ==
  ASSUME TransferInv(receiver), UNCHANGED receiver, upload.window \in Nat,
         upload'.window \in Nat, upload.window < upload'.window
  PROVE  TransferInv(receiver)'
  BY DEF TransferInv

\* The window of the upload is a number.
LEMMA UploadWindow == ASSUME UploadInv PROVE upload.window \in Nat /\ upload.count \in Nat
  BY DEF UploadInv

\* A call that ends before the block loop leaves the upload before it.
LEMMA EarlyReturnInv ==
  ASSUME PipelineInv, pc' = "idle", result' \in {"ERR_ARGUMENT", "ERR_RANGE"},
         packets' = <<>>, sent' = 0, failures' \in 0 .. MaxFailures,
         next_window_id' \in {next_window_id, next_window_id + 1},
         next_window_id' \in 1 .. MaxWindow + 1,
         UNCHANGED <<uri_path, next_message_id, upload, client_security, receiverVars>>
  PROVE  PipelineInv'
<1> USE DEF PipelineInv
<1>1. ControlInv'
  BY DEF ControlInv
<1>2. UploadInv'
  <2>1. ASSUME UploadCut PROVE UploadCut'
    BY <2>1 DEF UploadCut, ControlInv, Capacity
  <2> QED BY <2>1 DEF UploadInv, CallReturnedOk
<1>3. PacketsInv'
  <2>1. 0 <= upload.count
    BY UploadWindow
  <2> QED BY <2>1 DEF PacketsInv, CallReturnedOk
<1>4. SecurityInv'
  BY DEF SecurityInv, receiverVars
<1>5. TransferInv(receiver)'
  BY TransferStays DEF receiverVars
<1>6. CompletionsInv'
  BY DEF CompletionsInv, CompletionsInOrder, Done, CallReturnedOk, receiverVars
<1> QED BY <1>1, <1>2, <1>3, <1>4, <1>5, <1>6

LEMMA CallRefusedInv == ASSUME PipelineInv, CallRefused PROVE PipelineInv'
<1>1. failures' \in 0 .. MaxFailures /\ next_window_id' \in 1 .. MaxWindow + 1
  BY PipelineBounds DEF CallRefused, PipelineInv, ControlInv
<1> QED BY <1>1, EarlyReturnInv DEF CallRefused, Return

\* The call that enters the block loop.
LEMMA CallStartsInv ==
  ASSUME PipelineInv, NEW length \in Lengths, NEW szx \in Szx, NEW faint \in BOOLEAN,
         BlockSize(szx) > Overhead,
         pc' = "sending", next_window_id <= MaxWindow, next_window_id' = next_window_id + 1,
         packets' = <<>>, sent' = 0,
         upload' = [window |-> next_window_id, length |-> length, szx |-> szx,
                    count |-> BlockCount(length, PlaintextCapacity(szx)),
                    number |-> 0, offset |-> 0, faint |-> faint],
         UNCHANGED <<uri_path, result, next_message_id, client_security, receiverVars, failures>>
  PROVE  PipelineInv'
<1> DEFINE c == PlaintextCapacity(szx)
           count == BlockCount(length, c)
<1> USE DEF PipelineInv
<1>1. c \in Nat \ {0} /\ length \in Nat \ {0}
  <2>1. BlockSize(szx) \in Int
    BY PipelineBounds, BlockSizeInt
  <2> QED BY <2>1, PipelineBounds DEF PlaintextCapacity, Overhead
<1>2. count \in Nat \ {0} /\ c * (count - 1) < length /\ length <= c * count
  BY <1>1, BlockCountCuts
<1>3. next_window_id \in 1 .. MaxWindow /\ upload.window \in Nat /\ upload.window < next_window_id
  BY PipelineBounds, UploadWindow DEF ControlInv, UploadInv, UploadCut, NoUpload
<1>4. c * 0 = 0
  BY <1>1
<1> HIDE DEF c, count
<1>5. /\ upload'.window = next_window_id /\ upload'.length = length /\ upload'.szx = szx
      /\ upload'.count = count /\ upload'.number = 0 /\ upload'.offset = 0
      /\ upload'.faint = faint
  BY DEF c, count
<1>6. Capacity' = c
  BY <1>5 DEF Capacity, c
<1>7. UploadCut'
  BY <1>1, <1>2, <1>3, <1>4, <1>5, <1>6, PipelineBounds DEF UploadCut
<1>8. UploadInv'
  <2>1. upload' \in [window : 0 .. MaxWindow, length : Lengths \cup {0}, szx : Szx \cup {0},
                     count : Nat, number : Nat, offset : Nat, faint : BOOLEAN]
    BY <1>2, <1>3 DEF count, c
  <2> QED BY <1>7, <2>1 DEF UploadInv, CallReturnedOk
<1>9. ControlInv'
  <2>1. upload' # NoUpload
    BY <1>3, <1>5 DEF NoUpload
  <2> QED BY <1>3, <2>1, PipelineBounds DEF ControlInv
<1>10. PacketsInv'
  <2>1. packets' \in Seq([message_id : 0 .. MessageIds - 1, header : Headers, record : Records,
                          record_length : Nat, size1 : Nat])
    OBVIOUS
  <2> QED BY <1>2, <1>5, <2>1 DEF PacketsInv, CallReturnedOk, Overhead
<1>11. SecurityInv'
  BY DEF SecurityInv, receiverVars
<1>12. TransferInv(receiver)'
  BY <1>3, <1>5, TransferOutdated DEF receiverVars
<1>13. CompletionsInv'
  <2>1. ASSUME NEW i \in DOMAIN completions
        PROVE  completions[i][1].window \in Nat /\ completions[i][1].window < next_window_id
    <3>1. completions[i] \in Seq(Pieces) /\ completions[i] # <<>>
      BY DEF CompletionsInv, CompletionsInOrder, Whole
    <3>2. completions[i][1] \in Pieces
      BY <3>1
    <3>3. completions[i][1].window \in Nat
      BY <3>2 DEF Pieces, Windows
    <3> QED BY <1>3, <3>3 DEF CompletionsInv
  <2>2. ~Done'
    BY <1>3, <1>5, <2>1 DEF Done, receiverVars
  <2>3. CompletionsInOrder'
    BY DEF CompletionsInv, CompletionsInOrder, receiverVars
  <2>4. \A i \in DOMAIN completions' : completions'[i][1].window <= upload'.window
    BY <1>3, <1>5, <2>1 DEF receiverVars
  <2>5. upload'.number # upload'.count
    BY <1>2, <1>5
  <2> QED BY <2>2, <2>3, <2>4, <2>5 DEF CompletionsInv, CallReturnedOk, receiverVars
<1> QED BY <1>8, <1>9, <1>10, <1>11, <1>12, <1>13

LEMMA CallInv == ASSUME PipelineInv, Call PROVE PipelineInv'
<1>1. /\ pc = "idle" /\ next_window_id <= MaxWindow /\ next_window_id' = next_window_id + 1
      /\ packets' = <<>> /\ sent' = 0
      /\ UNCHANGED <<uri_path, next_message_id, client_security, receiverVars>>
  BY DEF Call
<1>2. CASE /\ failures < MaxFailures /\ failures' = failures + 1
           /\ Return("ERR_RANGE") /\ UNCHANGED upload
  <2>1. failures' \in 0 .. MaxFailures /\ next_window_id' \in 1 .. MaxWindow + 1
    BY <1>1, <1>2, PipelineBounds DEF PipelineInv, ControlInv
  <2> QED BY <1>1, <1>2, <2>1, EarlyReturnInv DEF Return
<1>3. ASSUME NEW length \in Lengths, NEW szx \in Szx, UNCHANGED failures,
             BlockSize(szx) <= Overhead, Return("ERR_RANGE"), UNCHANGED upload
      PROVE  PipelineInv'
  <2>1. failures' \in 0 .. MaxFailures /\ next_window_id' \in 1 .. MaxWindow + 1
    BY <1>1, <1>3, PipelineBounds DEF PipelineInv, ControlInv
  <2> QED BY <1>1, <1>3, <2>1, EarlyReturnInv DEF Return
<1>4. ASSUME NEW length \in Lengths, NEW szx \in Szx, NEW faint \in BOOLEAN,
             UNCHANGED <<failures, result>>,
             BlockSize(szx) > Overhead, pc' = "sending",
             upload' = [window |-> next_window_id, length |-> length, szx |-> szx,
                        count |-> BlockCount(length, PlaintextCapacity(szx)),
                        number |-> 0, offset |-> 0, faint |-> faint]
      PROVE  PipelineInv'
  BY <1>1, <1>4, CallStartsInv
<1> QED BY <1>2, <1>3, <1>4 DEF Call

LEMMA CompleteInv == ASSUME PipelineInv, Complete PROVE PipelineInv'
<1> USE DEF PipelineInv, Complete, Return
<1>1. ControlInv'
  BY DEF ControlInv, Results
<1>2. UploadInv'
  <2>1. UploadCut
    BY DEF UploadInv
  <2>2. UploadCut'
    BY <2>1 DEF UploadCut, Capacity
  <2> QED BY <2>2 DEF UploadInv, CallReturnedOk
<1>3. PacketsInv'
  BY DEF PacketsInv, CallReturnedOk, Carries, HeaderOf, PieceOf, history
<1>4. SecurityInv'
  BY DEF SecurityInv, receiverVars
<1>5. TransferInv(receiver)'
  BY TransferStays DEF receiverVars
<1>6. CompletionsInv'
  BY DEF CompletionsInv, CompletionsInOrder, Done, CallReturnedOk, receiverVars, history
<1> QED BY <1>1, <1>2, <1>3, <1>4, <1>5, <1>6

\* In the block loop a window is cut, and what a block consumes is counted.
LEMMA StartBlockFacts ==
  ASSUME PipelineInv, StartBlock
  PROVE  /\ UploadCut /\ upload.number \in 0 .. upload.count - 1
         /\ ~Done
         /\ next_message_id' \in 0 .. MessageIds - 1
         /\ client_security' \in Contexts
         /\ client_security'.tx_key = client_security.tx_key
         /\ client_security.tx_sequence \in Nat
         /\ client_security'.tx_sequence = client_security.tx_sequence + 1
<1> USE DEF PipelineInv, StartBlock
<1>1. UploadCut
  BY DEF UploadInv
<1>2. upload.number \in 0 .. upload.count - 1
  BY <1>1 DEF UploadCut
<1>3. ~Done
  BY <1>2 DEF CompletionsInv
<1>4. next_message_id' \in 0 .. MessageIds - 1
  BY PipelineBounds DEF ControlInv, NextMessageId
<1>5. /\ client_security' \in Contexts
      /\ client_security'.tx_key = client_security.tx_key
      /\ client_security.tx_sequence \in Nat
      /\ client_security'.tx_sequence = client_security.tx_sequence + 1
  BY DEF SecurityInv, Contexts, AfterSeal
<1> QED BY <1>1, <1>2, <1>3, <1>4, <1>5

\* A call that ends between the counters and the transport.
LEMMA UnsentReturnsInv ==
  ASSUME PipelineInv, StartBlock, pc' = "idle", result' \in {"ERR_CRYPTO", "ERR_FORMAT"},
         failures' \in 0 .. MaxFailures, UNCHANGED <<upload, receiverVars, history>>
  PROVE  PipelineInv'
<1> USE DEF PipelineInv
<1>1. /\ UploadCut /\ ~Done
      /\ next_message_id' \in 0 .. MessageIds - 1
      /\ client_security' \in Contexts
      /\ client_security'.tx_key = client_security.tx_key
      /\ client_security.tx_sequence \in Nat
      /\ client_security'.tx_sequence = client_security.tx_sequence + 1
  BY StartBlockFacts
<1>2. UNCHANGED <<next_window_id, upload, receiverVars, packets, sent>>
  BY DEF StartBlock, history
<1>3. ControlInv'
  BY <1>1, <1>2 DEF ControlInv, StartBlock, Results
<1>4. UploadInv'
  <2>1. UploadCut'
    BY <1>1, <1>2 DEF UploadCut, Capacity
  <2> QED BY <1>2, <2>1 DEF UploadInv, CallReturnedOk
<1>5. PacketsInv'
  <2>1. \A i \in DOMAIN packets : packets[i].record.sequence < client_security'.tx_sequence
    <3>1. \A i \in DOMAIN packets : packets[i].record.sequence \in Nat
                                  /\ packets[i].record.sequence < client_security.tx_sequence
      BY Zenon DEF PacketsInv, Carries
    <3> HIDE DEF PipelineInv
    <3> QED BY <1>1, <3>1
  <2>2. /\ packets' = packets /\ upload' = upload
        /\ pc' = "idle" /\ result' # "OK"
    BY <1>2
  <2>3. ~ (pc' = "sending" \/ CallReturnedOk')
    BY <2>2 DEF CallReturnedOk
  <2>4. \A i \in DOMAIN packets : Carries(packets[i], i - 1)' <=> Carries(packets[i], i - 1)
    BY <2>2, Zenon DEF Carries, HeaderOf, PieceOf
  <2> QED BY <2>1, <2>2, <2>3, <2>4, Zenon DEF PacketsInv
<1>6. SecurityInv'
  BY <1>1, <1>2 DEF SecurityInv, receiverVars
<1>7. TransferInv(receiver)'
  BY <1>2, TransferStays DEF receiverVars
<1>8. CompletionsInv'
  BY <1>1, <1>2 DEF CompletionsInv, CompletionsInOrder, Done, CallReturnedOk, receiverVars
<1> QED BY <1>3, <1>4, <1>5, <1>6, <1>7, <1>8

LEMMA SealFailsInv == ASSUME PipelineInv, SealFails PROVE PipelineInv'
<1>1. failures' \in 0 .. MaxFailures
  BY PipelineBounds DEF SealFails, PipelineInv, ControlInv
<1> QED BY <1>1, UnsentReturnsInv DEF SealFails, Return

LEMMA BuildFailsInv == ASSUME PipelineInv, BuildFails PROVE PipelineInv'
<1>1. failures' \in 0 .. MaxFailures
  BY DEF BuildFails, PipelineInv, ControlInv
<1> QED BY <1>1, UnsentReturnsInv DEF BuildFails, Return

\* The history of packets with the packet of the loop's block.
LEMMA PacketSent ==
  ASSUME PipelineInv, StartBlock, Sends(Packet)
  PROVE  /\ packets' \in Seq([message_id : 0 .. MessageIds - 1, header : Headers,
                              record : Records, record_length : Nat, size1 : Nat])
         /\ Len(packets') = upload.number + 1
         /\ packets'[upload.number + 1] = Packet
         /\ \A i \in DOMAIN packets' :
              /\ Carries(packets'[i], i - 1)
              /\ packets'[i].record.sequence < client_security'.tx_sequence
              /\ packets'[i].record.sequence <= Packet.record.sequence
              /\ \A j \in 1 .. i - 1 : packets'[j].record.sequence < packets'[i].record.sequence
         /\ sent' = upload.offset + PlaintextLength(upload) + (upload.number + 1) * Overhead
<1> DEFINE Packets == [message_id : 0 .. MessageIds - 1, header : Headers, record : Records,
                       record_length : Nat, size1 : Nat]
           n == upload.number
<1> USE DEF PipelineInv
<1>1. /\ UploadCut /\ n \in 0 .. upload.count - 1
      /\ client_security.tx_sequence \in Nat
      /\ client_security'.tx_sequence = client_security.tx_sequence + 1
  BY StartBlockFacts
<1>2. /\ Carries(Packet, n) /\ Packet.record.sequence = client_security.tx_sequence
      /\ Packet.record_length = PlaintextLength(upload) + Overhead
  BY PacketCarries
<1>3. PlaintextLength(upload) \in Nat
  BY <1>1, NextBlock DEF StartBlock
<1>4. Packet \in Packets
  <2>1. HeaderOf(n) \in Headers /\ PieceOf(n) \in Pieces
    BY <1>1 DEF HeaderOf, Headers, PieceOf, Pieces, Windows, UploadCut
  <2>2. Packet.record \in Records
    BY <1>1, <2>1 DEF Packet, Header, HeaderOf, More, Piece, PieceOf, Sealed, Aad, Records,
       SecurityInv, Contexts
  <2>3. Packet.header \in Headers
    BY <1>2, <2>1 DEF Carries
  <2>4. TotalProtected(upload.length, upload.count) \in Nat
    <3>1. upload.length \in Nat /\ upload.count \in Nat
      BY <1>1, PipelineBounds DEF UploadCut
    <3> QED BY <3>1 DEF TotalProtected, Overhead
  <2>5. Packet.message_id \in 0 .. MessageIds - 1 /\ Packet.record_length \in Nat
    BY <1>2, <1>3 DEF Packet, ControlInv, Overhead
  <2> QED BY <2>2, <2>3, <2>4, <2>5 DEF Packet
<1>5. /\ packets \in Seq(Packets) /\ Len(packets) = n
      /\ sent = upload.offset + n * Overhead
      /\ \A i \in 1 .. n :
           /\ Carries(packets[i], i - 1)
           /\ packets[i].record.sequence < client_security.tx_sequence
           /\ \A j \in 1 .. i - 1 : packets[j].record.sequence < packets[i].record.sequence
  <2>1. pc = "sending" /\ PacketsInv
    BY DEF StartBlock
  <2>2. Len(packets) = n /\ sent = upload.offset + n * Overhead
    BY <2>1, Zenon DEF PacketsInv
  <2>3. DOMAIN packets = 1 .. n
    BY <2>1, <2>2 DEF PacketsInv
  <2> QED BY <2>1, <2>2, <2>3, Zenon DEF PacketsInv
<1> HIDE DEF Packets, n
<1>6. /\ packets' \in Seq(Packets) /\ Len(packets') = n + 1 /\ packets'[n + 1] = Packet
      /\ DOMAIN packets' = 1 .. n + 1
      /\ \A i \in 1 .. n : packets'[i] = packets[i]
  BY <1>4, <1>5 DEF Sends
<1>7. n \in Nat
  BY <1>1
<1>8. ASSUME NEW i \in 1 .. n + 1
      PROVE  /\ Carries(packets'[i], i - 1)
             /\ packets'[i].record.sequence < client_security'.tx_sequence
             /\ packets'[i].record.sequence <= Packet.record.sequence
             /\ \A j \in 1 .. i - 1 : packets'[j].record.sequence < packets'[i].record.sequence
  <2>1. CASE i = n + 1
    <3>1. \A j \in 1 .. n : packets'[j].record.sequence < Packet.record.sequence
      BY <1>2, <1>5, <1>6
    <3> QED BY <1>1, <1>2, <1>6, <1>7, <2>1, <3>1
  <2>2. CASE i # n + 1
    <3>1. i \in 1 .. n /\ \A j \in 1 .. i - 1 : j \in 1 .. n
      BY <1>7, <2>2
    <3>2. packets[i].record.sequence \in Nat
      BY <1>5, <3>1 DEF Carries
    <3>3. /\ Carries(packets'[i], i - 1)
          /\ packets'[i].record.sequence < client_security.tx_sequence
          /\ packets'[i].record.sequence \in Nat
          /\ \A j \in 1 .. i - 1 : packets'[j].record.sequence < packets'[i].record.sequence
      BY <1>5, <1>6, <3>1, <3>2, Zenon
    <3> HIDE DEF PipelineInv
    <3> QED BY <1>1, <1>2, <3>3
  <2> QED BY <2>1, <2>2
<1>9. sent' = upload.offset + PlaintextLength(upload) + (n + 1) * Overhead
  <2>1. upload.offset \in Nat
    BY DEF UploadInv
  <2>2. sent' = upload.offset + n * Overhead + (PlaintextLength(upload) + Overhead)
    BY <1>2, <1>5 DEF Sends
  <2> HIDE DEF PipelineInv
  <2> QED BY <1>3, <1>7, <2>1, <2>2 DEF Overhead
<1> QED BY <1>6, <1>8, <1>9 DEF Packets, n

\* The receiver after the packet of the loop's block.
LEMMA Received ==
  ASSUME PipelineInv, StartBlock, Sends(Packet), NEW value, Accept(Packet, value),
         upload'.window = upload.window, upload'.count = upload.count,
         upload'.faint = upload.faint
  PROVE  /\ value \in Results
         /\ SecurityInv' /\ TransferInv(receiver)'
         /\ completions' \in Seq(Seq(Pieces)) /\ CompletionsInOrder'
         /\ \A i \in DOMAIN completions' : completions'[i][1].window <= upload'.window
         /\ Done' => /\ server_security'.rx_initialized
                     /\ \A i \in DOMAIN packets' :
                          packets'[i].record.sequence <= server_security'.rx_highest
                     /\ upload.number + 1 = upload.count
         /\ value = "OK" /\ upload.number + 1 = upload.count => Done'
<1> USE DEF PipelineInv
<1> DEFINE n == upload.number
<1>1. /\ UploadCut /\ n \in 0 .. upload.count - 1 /\ ~Done
      /\ client_security' \in Contexts
      /\ client_security'.tx_key = client_security.tx_key
  BY StartBlockFacts
<1>2. Carries(Packet, n)
  BY PacketCarries
<1> HIDE DEF n
<1>3. /\ value \in Results
      /\ TransferInv(receiver')
      /\ server_security' \in Contexts
      /\ server_security'.rx_key = server_security.rx_key
      /\ \/ completions' = completions /\ ~(value = "OK" /\ n + 1 = upload.count)
         \/ \E pieces \in Seq(Pieces) :
              /\ completions' = Append(completions, pieces)
              /\ Whole(pieces) /\ pieces[1].window = upload.window
              /\ n + 1 = upload.count
              /\ server_security'.rx_initialized
              /\ server_security'.rx_highest = Packet.record.sequence
  BY <1>1, <1>2, AcceptFacts
<1>4. SecurityInv' /\ TransferInv(receiver)'
  BY <1>1, <1>3, TransferStays DEF SecurityInv
<1>5. CASE completions' = completions /\ ~(value = "OK" /\ n + 1 = upload.count)
  <2>1. ~Done'
    BY <1>1, <1>5 DEF Done
  <2>2. completions' \in Seq(Seq(Pieces)) /\ CompletionsInOrder'
    BY <1>5 DEF CompletionsInv, CompletionsInOrder
  <2>3. \A i \in DOMAIN completions' : completions'[i][1].window <= upload'.window
    BY <1>5 DEF CompletionsInv
  <2> QED BY <1>3, <1>4, <1>5, <2>1, <2>2, <2>3 DEF n
<1>6. CASE \E pieces \in Seq(Pieces) :
             /\ completions' = Append(completions, pieces)
             /\ Whole(pieces) /\ pieces[1].window = upload.window
             /\ n + 1 = upload.count
             /\ server_security'.rx_initialized
             /\ server_security'.rx_highest = Packet.record.sequence
  <2>1. /\ completions' \in Seq(Seq(Pieces))
        /\ CompletionsInOrder'
        /\ \A i \in DOMAIN completions' : completions'[i][1].window <= upload.window
        /\ \E i \in DOMAIN completions' : completions'[i][1].window = upload.window
    BY <1>1, <1>6, CompletedOnce
  <2>2. Done'
    BY <2>1 DEF Done
  <2>3. \A i \in DOMAIN packets' : packets'[i].record.sequence <= server_security'.rx_highest
    BY <1>6, PacketSent
  <2> QED BY <1>3, <1>4, <1>6, <2>1, <2>2, <2>3 DEF n
<1> QED BY <1>3, <1>5, <1>6

\* The call ends with the block, delivered or not.
LEMMA SentReturnsInv ==
  ASSUME PipelineInv, StartBlock, Sends(Packet), pc' = "idle",
         result' \in (Results \cup {"ERR_IO"}) \ {"OK"}, failures' \in 0 .. MaxFailures,
         UNCHANGED upload, UNCHANGED receiverVars \/ \E value \in Results : Accept(Packet, value)
  PROVE  PipelineInv'
<1> USE DEF PipelineInv
<1>1. /\ UploadCut /\ upload.number \in 0 .. upload.count - 1 /\ ~Done
      /\ next_message_id' \in 0 .. MessageIds - 1
      /\ client_security' \in Contexts
      /\ client_security'.tx_key = client_security.tx_key
  BY StartBlockFacts
<1>2. UNCHANGED <<uri_path, next_window_id>>
  BY DEF StartBlock
<1>3. ControlInv'
  BY <1>1, <1>2 DEF ControlInv
<1>4. UploadInv'
  <2>1. UploadCut'
    BY <1>1, <1>2 DEF UploadCut, Capacity
  <2> QED BY <2>1 DEF UploadInv, CallReturnedOk
<1>5. PacketsInv'
  <2>1. upload.number + 1 <= upload.count
    BY <1>1 DEF UploadCut
  <2> QED BY <2>1, PacketSent DEF PacketsInv, CallReturnedOk, Carries, HeaderOf, PieceOf
<1>6. CASE UNCHANGED receiverVars
  <2>1. SecurityInv'
    BY <1>1, <1>6 DEF SecurityInv, receiverVars
  <2>2. TransferInv(receiver)'
    BY <1>6, TransferStays DEF receiverVars
  <2>3. CompletionsInv'
    BY <1>1, <1>6 DEF CompletionsInv, CompletionsInOrder, Done, CallReturnedOk, receiverVars
  <2> QED BY <1>3, <1>4, <1>5, <2>1, <2>2, <2>3
<1>7. ASSUME NEW value \in Results, Accept(Packet, value)
      PROVE  PipelineInv'
  <2>1. SecurityInv' /\ TransferInv(receiver)'
    BY <1>7, Received
  <2>2. CompletionsInv'
    BY <1>7, Received DEF CompletionsInv, CallReturnedOk
  <2> QED BY <1>3, <1>4, <1>5, <2>1, <2>2
<1> QED BY <1>6, <1>7

LEMMA SendFailsInv == ASSUME PipelineInv, SendFails PROVE PipelineInv'
<1>1. failures' \in 0 .. MaxFailures
  BY PipelineBounds DEF SendFails, PipelineInv, ControlInv
<1> QED BY <1>1, SentReturnsInv DEF SendFails, Deliver, Return, Results

\* The block was accepted: the loop moves on.
LEMMA SendAcceptedInv ==
  ASSUME PipelineInv, StartBlock, Sends(Packet), Accept(Packet, "OK"),
         upload' = [upload EXCEPT !.number = @ + 1, !.offset = @ + PlaintextLength(upload)],
         UNCHANGED <<pc, result, failures>>
  PROVE  PipelineInv'
<1> USE DEF PipelineInv
<1> DEFINE n == upload.number
<1>1. /\ UploadCut /\ n \in 0 .. upload.count - 1 /\ ~Done
      /\ next_message_id' \in 0 .. MessageIds - 1
      /\ client_security' \in Contexts
      /\ client_security'.tx_key = client_security.tx_key
  BY StartBlockFacts
<1>2. pc = "sending" /\ n < upload.count /\ UNCHANGED <<uri_path, next_window_id>>
  BY DEF StartBlock
<1>3. /\ PlaintextLength(upload) \in Nat \ {0}
      /\ More <=> n + 1 < upload.count
      /\ More => upload.offset + PlaintextLength(upload) = Capacity * (n + 1)
      /\ ~More => upload.offset + PlaintextLength(upload) = upload.length
      /\ ~More => n + 1 = upload.count
  BY <1>1, <1>2, NextBlock
<1>4. upload \in [window : 0 .. MaxWindow, length : Lengths \cup {0}, szx : Szx \cup {0},
                  count : Nat, number : Nat, offset : Nat, faint : BOOLEAN]
  BY DEF UploadInv
<1>5. /\ upload'.window = upload.window /\ upload'.length = upload.length
      /\ upload'.faint = upload.faint
      /\ upload'.szx = upload.szx /\ upload'.count = upload.count
      /\ upload'.number = n + 1 /\ upload'.offset = upload.offset + PlaintextLength(upload)
      /\ upload' \in [window : 0 .. MaxWindow, length : Lengths \cup {0}, szx : Szx \cup {0},
                      count : Nat, number : Nat, offset : Nat, faint : BOOLEAN]
  <2>1. PlaintextLength(upload) \in Nat
    BY <1>3
  <2>2. upload' = [upload EXCEPT !.number = n + 1,
                                 !.offset = upload.offset + PlaintextLength(upload)]
    OBVIOUS
  <2>3. n + 1 \in Nat /\ upload.offset + PlaintextLength(upload) \in Nat
    BY <1>4, <2>1
  <2> HIDE DEF n, PipelineInv
  <2> QED BY <1>4, <2>2, <2>3
<1>6. Capacity' = Capacity
  BY <1>5 DEF Capacity
<1>7. UploadCut'
  <2>1. n + 1 \in 0 .. upload.count
    BY <1>1 DEF UploadCut
  <2>2. IF n + 1 < upload.count
        THEN upload'.offset = Capacity * (n + 1)
        ELSE upload'.offset = upload.length
    BY <1>3, <1>5
  <2> HIDE DEF n
  <2> QED BY <1>1, <1>2, <1>5, <1>6, <2>1, <2>2 DEF UploadCut
<1>8. UploadInv'
  BY <1>2, <1>5, <1>7 DEF UploadInv, CallReturnedOk
<1>9. ControlInv'
  <2>1. upload' # NoUpload
    BY <1>1, <1>5 DEF NoUpload, UploadCut
  <2> QED BY <1>1, <1>2, <2>1 DEF ControlInv
<1>10. PacketsInv'
  <2>1. n + 1 <= upload.count
    BY <1>1 DEF UploadCut
  <2>2. sent' = upload'.offset + upload'.number * Overhead
    BY <1>5, PacketSent
  <2> QED BY <1>2, <1>5, <2>1, <2>2, PacketSent
      DEF PacketsInv, CallReturnedOk, Carries, HeaderOf, PieceOf
<1>11. SecurityInv' /\ TransferInv(receiver)'
  BY <1>5, Received
<1>12. CompletionsInv'
  BY <1>2, <1>5, Received DEF CompletionsInv, CallReturnedOk
<1> QED BY <1>8, <1>9, <1>10, <1>11, <1>12

LEMMA SendBlockInv == ASSUME PipelineInv, SendBlock PROVE PipelineInv'
<1>1. StartBlock /\ Sends(Packet) /\ UNCHANGED failures
  BY DEF SendBlock
<1>2. PICK value \in Results :
        /\ Accept(Packet, value)
        /\ IF value = "OK"
           THEN /\ upload' = [upload EXCEPT !.number = @ + 1,
                                            !.offset = @ + PlaintextLength(upload)]
                /\ UNCHANGED <<pc, result>>
           ELSE Return(value) /\ UNCHANGED upload
  BY DEF SendBlock
<1>3. CASE value = "OK"
  BY <1>1, <1>2, <1>3, SendAcceptedInv
<1>4. CASE value # "OK"
  <2>1. failures' \in 0 .. MaxFailures
    BY <1>1 DEF PipelineInv, ControlInv
  <2> QED BY <1>1, <1>2, <1>4, <2>1, SentReturnsInv DEF Return
<1> QED BY <1>3, <1>4

\* A packet of the call once more: what was completed makes it a replay.
LEMMA RepeatInv == ASSUME PipelineInv, Repeat PROVE PipelineInv'
<1> USE DEF PipelineInv
<1>1. PICK k \in DOMAIN packets : \E value \in Results : Accept(packets[k], value)
  BY DEF Repeat, Deliver, Range
<1>2. PICK value \in Results : Accept(packets[k], value)
  BY <1>1
<1> DEFINE packet == packets[k]
<1>3. /\ failures' \in 0 .. MaxFailures
      /\ UNCHANGED <<uri_path, pc, result, next_window_id, next_message_id, upload,
                     client_security, packets, sent>>
  BY PipelineBounds DEF Repeat, ControlInv, callVars, history
<1>4. /\ k \in Nat \ {0} /\ k <= Len(packets) /\ Len(packets) <= upload.count
      /\ DOMAIN packets = 1 .. Len(packets) /\ Len(packets) \in Nat /\ upload.count \in Nat
  BY UploadWindow DEF PacketsInv
<1>5. UploadCut
  BY <1>4 DEF UploadInv
<1>6. k - 1 \in 0 .. upload.count - 1 /\ Carries(packet, k - 1)
  BY <1>4 DEF PacketsInv
<1>7. Done => Replayed(server_security, packet.record)
  BY DEF CompletionsInv, Replayed
<1> HIDE DEF packet
<1>8. /\ TransferInv(receiver')
      /\ server_security' \in Contexts
      /\ server_security'.rx_key = server_security.rx_key
      /\ server_security.rx_initialized =>
           /\ server_security'.rx_initialized
           /\ server_security.rx_highest <= server_security'.rx_highest
      /\ \/ completions' = completions
         \/ \E pieces \in Seq(Pieces) :
              /\ completions' = Append(completions, pieces)
              /\ Whole(pieces) /\ pieces[1].window = upload.window
              /\ (k - 1) + 1 = upload.count
              /\ ~Replayed(server_security, packet.record)
              /\ server_security'.rx_initialized
              /\ server_security'.rx_highest = packet.record.sequence
  BY <1>2, <1>5, <1>6, AcceptFacts DEF packet
<1>9. ControlInv'
  BY <1>3 DEF ControlInv
<1>10. UploadInv'
  <2>1. UploadCut'
    BY <1>3, <1>5 DEF UploadCut, Capacity
  <2> QED BY <1>3, <2>1 DEF UploadInv, CallReturnedOk
<1>11. PacketsInv'
  BY <1>3 DEF PacketsInv, CallReturnedOk, Carries, HeaderOf, PieceOf
<1>12. SecurityInv' /\ TransferInv(receiver)'
  BY <1>3, <1>8, TransferStays DEF SecurityInv
<1>13. CASE completions' = completions
  <2>1. Done' => Done
    BY <1>3, <1>13 DEF Done
  <2>2. CompletionsInOrder'
    BY <1>13 DEF CompletionsInv, CompletionsInOrder
  <2>3. ASSUME Done'
        PROVE  /\ server_security'.rx_initialized
               /\ \A i \in DOMAIN packets' :
                    packets'[i].record.sequence <= server_security'.rx_highest
               /\ pc' = "sending" => upload'.number = upload'.count
    <3>1. /\ server_security.rx_initialized
          /\ \A i \in DOMAIN packets : packets[i].record.sequence <= server_security.rx_highest
          /\ pc = "sending" => upload.number = upload.count
      BY <2>1, <2>3 DEF CompletionsInv
    <3>2. \A i \in DOMAIN packets : packets[i].record.sequence \in Nat
      BY DEF PacketsInv, Carries
    <3>3. server_security.rx_highest \in Nat /\ server_security'.rx_highest \in Nat
      BY <1>8 DEF SecurityInv, Contexts
    <3> HIDE DEF PipelineInv
    <3> QED BY <1>3, <1>8, <3>1, <3>2, <3>3
  <2>4. (pc' = "sending" /\ upload'.number = upload'.count) \/ CallReturnedOk' => Done'
    BY <1>3, <1>13 DEF CompletionsInv, CallReturnedOk, Done
  <2>5. CompletionsInv'
    BY <1>3, <1>13, <2>2, <2>3, <2>4 DEF CompletionsInv
  <2> QED BY <1>9, <1>10, <1>11, <1>12, <2>5
<1>14. ASSUME NEW pieces \in Seq(Pieces),
              completions' = Append(completions, pieces),
              Whole(pieces), pieces[1].window = upload.window,
              (k - 1) + 1 = upload.count,
              ~Replayed(server_security, packet.record),
              server_security'.rx_initialized,
              server_security'.rx_highest = packet.record.sequence
       PROVE  PipelineInv'
  <2>1. k = Len(packets) /\ k = upload.count
    BY <1>4, <1>14
  <2>2. /\ completions' \in Seq(Seq(Pieces))
        /\ CompletionsInOrder'
        /\ \A i \in DOMAIN completions' : completions'[i][1].window <= upload.window
        /\ \E i \in DOMAIN completions' : completions'[i][1].window = upload.window
    BY <1>5, <1>7, <1>14, CompletedOnce
  <2>3. Done'
    BY <1>3, <2>2 DEF Done
  <2>4. \A i \in DOMAIN packets : packets[i].record.sequence <= packet.record.sequence
    <3>1. ASSUME NEW i \in DOMAIN packets
          PROVE  packets[i].record.sequence <= packet.record.sequence
      <4>1. packet.record.sequence \in Nat
        BY DEF PacketsInv, Carries, packet
      <4>2. CASE i = k
        BY <4>1, <4>2 DEF packet
      <4>3. CASE i # k
        <5>1. i \in 1 .. k - 1
          BY <1>4, <2>1, <4>3
        <5>2. packets[i].record.sequence < packet.record.sequence
          BY <5>1 DEF PacketsInv, packet
        <5>3. packets[i].record.sequence \in Nat
          BY DEF PacketsInv, Carries
        <5> QED BY <4>1, <5>2, <5>3
      <4> QED BY <4>2, <4>3
    <3> QED BY <3>1
  <2>5. pc = "sending" => upload.number = upload.count
    BY <2>1 DEF PacketsInv
  <2>6. CompletionsInv'
    BY <1>3, <1>14, <2>2, <2>3, <2>4, <2>5 DEF CompletionsInv
  <2> QED BY <1>9, <1>10, <1>11, <1>12, <2>6
<1> QED BY <1>8, <1>13, <1>14

LEMMA NextPipelineInv == PipelineInv /\ [Next]_vars => PipelineInv'
<1> SUFFICES ASSUME PipelineInv, [Next]_vars PROVE PipelineInv'
  OBVIOUS
<1>1. CASE UNCHANGED vars
  <2> USE <1>1 DEF PipelineInv, vars, callVars, receiverVars, history
  <2>1. ControlInv' /\ SecurityInv'
    BY DEF ControlInv, SecurityInv
  <2>2. UploadInv'
    BY DEF UploadInv, UploadCut, Capacity, CallReturnedOk
  <2>3. PacketsInv'
    BY DEF PacketsInv, CallReturnedOk, Carries, HeaderOf, PieceOf
  <2>4. TransferInv(receiver)'
    BY TransferStays
  <2>5. CompletionsInv'
    BY DEF CompletionsInv, CompletionsInOrder, Done, CallReturnedOk
  <2> QED BY <2>1, <2>2, <2>3, <2>4, <2>5
<1> QED BY <1>1, CallRefusedInv, CallInv, SendBlockInv, CompleteInv, SealFailsInv, BuildFailsInv,
           SendFailsInv, RepeatInv DEF Next, Process

LEMMA SpecPipelineInv == Spec => []PipelineInv
  BY InitPipelineInv, NextPipelineInv, PTL DEF Spec

-----------------------------------------------------------------------------
\* What the pipeline promises, whoever calls it.

\* The first piece of a completed window is one.
LEMMA CompletedWindowTyped ==
  ASSUME PipelineInv, NEW i \in DOMAIN completions
  PROVE  completions[i][1].window \in Nat
<1>1. completions[i] \in Seq(Pieces) /\ completions[i] # <<>>
  BY DEF PipelineInv, CompletionsInv, CompletionsInOrder, Whole
<1>2. completions[i][1] \in Pieces
  BY <1>1
<1> QED BY <1>2 DEF Pieces, Windows

\* Every block adaptive_pipeline_process makes fills its Block1 size unless it
\* is the last, so its length check never fails a call, and a call that returns
\* OK sent as many bytes as every packet announced.
THEOREM SegmentsAddUpAlways == Spec => []SegmentsAddUp
<1>1. PipelineInv => TypeOK
  BY DEF PipelineInv, ControlInv, UploadInv, PacketsInv, SecurityInv, TransferInv,
     CompletionsInv, TypeOK
<1>2. PipelineInv => BlocksFilled
  <2> SUFFICES ASSUME PipelineInv, pc = "sending", upload.number < upload.count
               PROVE  FillsBlock(Packet) /\ PlaintextLength(upload) > 0
    BY DEF BlocksFilled
  <2>1. UploadCut
    BY DEF PipelineInv, UploadInv
  <2> QED BY <2>1, NextBlock
<1>3. PipelineInv => SizesAddUp
  <2> SUFFICES ASSUME PipelineInv, CallReturnedOk
               PROVE  /\ upload.offset = upload.length
                      /\ Len(packets) = upload.count
                      /\ \A i \in DOMAIN packets : packets[i].size1 = sent
    BY DEF SizesAddUp
  <2>1. UploadCut /\ upload.number = upload.count
    BY DEF PipelineInv, UploadInv, CallReturnedOk
  <2>2. upload.offset = upload.length
    BY <2>1 DEF UploadCut
  <2>3. Len(packets) = upload.count /\ sent = TotalProtected(upload.length, upload.count)
    BY <2>1, <2>2 DEF PipelineInv, PacketsInv, TotalProtected
  <2> QED BY <2>2, <2>3 DEF PipelineInv, PacketsInv, Carries
<1>4. PipelineInv => SegmentsAddUp
  BY <1>1, <1>2, <1>3 DEF SegmentsAddUp
<1> QED BY <1>4, SpecPipelineInv, PTL

\* A call that returned OK made adaptive_receiver_accept decode its window
\* exactly once, also when the transport repeats packets.
THEOREM OkMeansCompleteAlways == Spec => []OkMeansComplete
<1>1. PipelineInv => OkMeansComplete
  <2> DEFINE Of == {i \in DOMAIN completions : completions[i][1].window = upload.window}
  <2> SUFFICES ASSUME PipelineInv, CallReturnedOk PROVE Cardinality(Of) = 1
    BY DEF OkMeansComplete
  <2>1. PICK k \in DOMAIN completions : completions[k][1].window = upload.window
    BY DEF PipelineInv, CompletionsInv, Done
  <2>2. ASSUME NEW i \in DOMAIN completions, NEW j \in 1 .. i - 1
        PROVE  completions[j][1].window # completions[i][1].window
    <3>1. completions[j][1].window < completions[i][1].window
      BY DEF PipelineInv, CompletionsInv, CompletionsInOrder
    <3> QED BY <3>1, CompletedWindowTyped
  <2>3. ASSUME NEW i \in Of PROVE i = k
    <3>1. DOMAIN completions \subseteq Nat \ {0}
      BY DEF PipelineInv, CompletionsInv
    <3>2. ~(i < k) /\ ~(k < i)
      BY <2>1, <2>2, <3>1
    <3> QED BY <2>1, <3>1, <3>2
  <2>4. Of = {k}
    BY <2>1, <2>3
  <2> QED BY <2>4, FS_Singleton
<1> QED BY <1>1, SpecPipelineInv, PTL

\* adaptive_receiver_accept completes whole windows only, each at most once and
\* in the order of the calls, whatever fails and is repeated.
THEOREM CompletionsInOrderAlways == Spec => []CompletionsInOrder
<1>1. PipelineInv => CompletionsInOrder
  BY DEF PipelineInv, CompletionsInv
<1> QED BY <1>1, SpecPipelineInv, PTL

-----------------------------------------------------------------------------
\* The program around it.

Beginning == {"options", "configuration", "security", "pipeline"}

\* The current call completed its window.
Completed == (pc = "sending" /\ upload.number = upload.count) \/ CallReturnedOk

\* As many windows are completed as steps were made, and one more by the call
\* in progress when its last block was accepted.
ProgramInv ==
  /\ steps \in Nat /\ step \in Nat
  /\ stage \in Beginning => pc = "idle" /\ completions = <<>> /\ step = 0
  /\ stage = "loop" => pc = "idle" /\ Len(completions) = step /\ step <= steps
  /\ stage = "calling" => /\ before = step /\ step < steps
                          /\ Len(completions) = IF Completed THEN before + 1 ELSE before
  /\ exit_status = 0 => stage = "exit" /\ Len(completions) = steps
  /\ stage \in {"options", "configuration", "security"} => sessions = "none"
  /\ SessionsDestroyed

\* Every program calls the pipeline as its own specification allows.
LEMMA MainStepsPipeline == [MainNext]_allVars => [Next]_vars
  BY DEF MainNext, Options, LoadConfiguration, PairSessions, InitPipeline, CallProcess, InCall,
     CallReturns, LoopEnds, LibraryCalls, Next, Process, allVars, vars

THEOREM MainRunsPipeline == MainSpec => Spec
<1>1. MainInit => Init
  BY DEF MainInit
<1> QED BY <1>1, MainStepsPipeline, PTL DEF MainSpec, Spec

\* A block completes the window if it is the last and accepted, and nothing
\* else does.
LEMMA SendBlockCompletes ==
  ASSUME PipelineInv, SendBlock
  PROVE  /\ Len(completions') = IF Completed' THEN Len(completions) + 1 ELSE Len(completions)
         /\ ~Completed
<1> DEFINE n == upload.number
<1>1. PICK value \in Results :
        /\ Accept(Packet, value)
        /\ IF value = "OK"
           THEN /\ upload' = [upload EXCEPT !.number = @ + 1,
                                            !.offset = @ + PlaintextLength(upload)]
                /\ UNCHANGED <<pc, result>>
           ELSE Return(value) /\ UNCHANGED upload
  BY DEF SendBlock
<1>2. StartBlock
  BY DEF SendBlock
<1>3. UploadCut /\ n \in 0 .. upload.count - 1
  BY <1>2, StartBlockFacts
<1>4. Carries(Packet, n)
  BY PacketCarries DEF PipelineInv
<1>5. ~Completed
  BY <1>2, <1>3 DEF StartBlock, Completed, CallReturnedOk
<1>6. Completed' <=> value = "OK" /\ n + 1 = upload.count
  <2>1. CASE value = "OK"
    <3>1. upload'.number = n + 1 /\ upload'.count = upload.count /\ pc' = "sending"
      BY <1>1, <1>2, <2>1 DEF PipelineInv, UploadInv, StartBlock
    <3> QED BY <2>1, <3>1 DEF Completed, CallReturnedOk
  <2>2. CASE value # "OK"
    BY <1>1, <2>2 DEF Completed, CallReturnedOk, Return
  <2> QED BY <2>1, <2>2
<1> HIDE DEF n
<1>7. \/ completions' = completions /\ ~(value = "OK" /\ n + 1 = upload.count)
      \/ \E pieces \in Seq(Pieces) :
           /\ completions' = Append(completions, pieces)
           /\ value = "OK" /\ n + 1 = upload.count
  BY <1>1, <1>3, <1>4, AcceptFacts DEF PipelineInv
<1>8. completions \in Seq(Seq(Pieces))
  BY DEF PipelineInv, CompletionsInv
<1>9. CASE completions' = completions /\ ~(value = "OK" /\ n + 1 = upload.count)
  BY <1>5, <1>6, <1>9
<1>10. ASSUME NEW pieces \in Seq(Pieces), completions' = Append(completions, pieces),
              value = "OK", n + 1 = upload.count
       PROVE  Completed' /\ Len(completions') = Len(completions) + 1
  BY <1>6, <1>8, <1>10
<1> QED BY <1>5, <1>7, <1>9, <1>10

LEMMA InitProgramInv == MainInit => ProgramInv
  BY DEF MainInit, Init, ProgramInv, Beginning, SessionsDestroyed, Running

\* Before the loop and at its end nothing happens in the pipeline.
LEMMA OutsideInv ==
  ASSUME ProgramInv, UNCHANGED vars,
         Options \/ LoadConfiguration \/ PairSessions \/ InitPipeline \/ LoopEnds
  PROVE  ProgramInv'
<1>1. UNCHANGED <<pc, result, upload, completions>>
  BY DEF vars, callVars, receiverVars
<1>2. CASE Options
  <2>1. \A number \in Requested : Narrowed(number) \in Nat
    BY MainBounds DEF Narrowed
  <2> QED BY <1>1, <1>2, <2>1 DEF ProgramInv, Options, Exits, Beginning, SessionsDestroyed
<1>3. CASE LoadConfiguration
  BY <1>1, <1>3 DEF ProgramInv, LoadConfiguration, Exits, Beginning, SessionsDestroyed
<1>4. CASE PairSessions
  BY <1>1, <1>4 DEF ProgramInv, PairSessions, Exits, Beginning, SessionsDestroyed
<1>5. CASE InitPipeline
  BY <1>1, <1>5 DEF ProgramInv, InitPipeline, CleansUp, Exits, Beginning, SessionsDestroyed
<1>6. CASE LoopEnds
  BY <1>1, <1>6 DEF ProgramInv, LoopEnds, CleansUp, Exits, Beginning, SessionsDestroyed
<1> QED BY <1>2, <1>3, <1>4, <1>5, <1>6

LEMMA CallProcessInv == ASSUME ProgramInv, PipelineInv, CallProcess PROVE ProgramInv'
<1>1. /\ stage = "loop" /\ step < steps /\ before' = Len(completions) /\ stage' = "calling"
      /\ UNCHANGED <<steps, step, sessions, exit_status, completions>> /\ Call
  BY DEF CallProcess, Call, receiverVars
<1>2. ~Completed'
  <2>1. PipelineInv'
    BY <1>1, CallInv
  <2>2. CASE pc' = "sending"
    <3>1. upload'.number = 0
      BY <1>1, <2>2 DEF Call, Return
    <3>2. UploadCut'
      BY <2>1, <2>2 DEF PipelineInv, UploadInv
    <3>3. upload'.count # 0
      BY <3>2 DEF UploadCut
    <3> QED BY <2>2, <3>1, <3>3 DEF Completed, CallReturnedOk
  <2>3. CASE pc' # "sending"
    BY <1>1, <2>3 DEF Call, Return, Completed, CallReturnedOk
  <2> QED BY <2>2, <2>3
<1> QED BY <1>1, <1>2 DEF ProgramInv, Beginning, SessionsDestroyed

LEMMA InCallInv == ASSUME ProgramInv, PipelineInv, InCall PROVE ProgramInv'
<1>1. stage = "calling" /\ pc = "sending" /\ UNCHANGED mainVars
  BY DEF InCall
<1>2. Len(completions') = IF Completed' THEN before + 1 ELSE before
  <2>1. Len(completions) = IF Completed THEN before + 1 ELSE before
    BY <1>1 DEF ProgramInv
  <2>2. CASE SendBlock
    BY <2>1, <2>2, SendBlockCompletes
  <2>3. CASE SealFails
    <3>1. ~Done /\ completions' = completions
      BY <2>3, StartBlockFacts DEF SealFails, receiverVars
    <3>2. ~Completed
      BY <3>1 DEF PipelineInv, CompletionsInv, Completed
    <3>3. ~Completed'
      BY <2>3 DEF SealFails, Return, Completed, CallReturnedOk
    <3> QED BY <2>1, <3>1, <3>2, <3>3
  <2>4. CASE Complete
    BY <2>1, <2>4 DEF Complete, Return, Completed, CallReturnedOk, receiverVars
  <2>5. CASE BuildFails
    <3>1. ~Done /\ completions' = completions
      BY <2>5, StartBlockFacts DEF BuildFails, receiverVars
    <3>2. ~Completed
      BY <3>1 DEF PipelineInv, CompletionsInv, Completed
    <3>3. ~Completed'
      BY <2>5 DEF BuildFails, Return, Completed, CallReturnedOk
    <3> QED BY <2>1, <3>1, <3>2, <3>3
  <2> QED BY <2>2, <2>3, <2>4, <2>5 DEF InCall
<1> QED BY <1>1, <1>2 DEF ProgramInv, mainVars, Beginning, SessionsDestroyed

LEMMA CallReturnsInv == ASSUME ProgramInv, CallReturns PROVE ProgramInv'
<1>1. UNCHANGED <<pc, result, upload, completions>>
  BY DEF CallReturns, vars, callVars, receiverVars
<1>2. result = "OK" => Len(completions) = before + 1
  BY DEF CallReturns, ProgramInv, Completed, CallReturnedOk
<1>3. Len(completions) = before + 1 /\ stage = "calling" => SampleCount = WindowSize
  BY DEF SampleCount, ProgramInv
<1> QED BY <1>1, <1>2, <1>3
    DEF ProgramInv, CallReturns, CleansUp, Exits, Beginning, SessionsDestroyed

LEMMA StepProgramInv == ProgramInv /\ PipelineInv /\ [MainNext]_allVars => ProgramInv'
<1> SUFFICES ASSUME ProgramInv, PipelineInv, [MainNext]_allVars PROVE ProgramInv'
  OBVIOUS
<1>1. CASE UNCHANGED allVars
  BY <1>1 DEF ProgramInv, Completed, CallReturnedOk, SessionsDestroyed, allVars, vars, callVars,
     receiverVars, mainVars
<1>2. CASE LibraryCalls
  BY <1>2 DEF LibraryCalls, ProgramInv, Beginning, SessionsDestroyed, mainVars
<1>3. CASE Options \/ LoadConfiguration \/ PairSessions \/ InitPipeline \/ LoopEnds
  <2>1. UNCHANGED vars
    BY <1>3 DEF Options, LoadConfiguration, PairSessions, InitPipeline, LoopEnds
  <2> QED BY <1>3, <2>1, OutsideInv
<1> QED BY <1>1, <1>2, <1>3, CallProcessInv, InCallInv, CallReturnsInv DEF MainNext

\* main exits with status 0 only when it sent as many windows as steps were to
\* be made and its receiver completed them all, and with no session alive.
THEOREM ExitsCleanAlways == MainSpec => []ExitsClean
<1>1. MainSpec => []PipelineInv
  BY MainRunsPipeline, SpecPipelineInv, PTL
<1>2. MainSpec => []ProgramInv
  BY <1>1, InitProgramInv, StepProgramInv, PTL DEF MainSpec
<1>3. PipelineInv /\ ProgramInv => ExitsClean
  BY DEF PipelineInv, CompletionsInv, CompletionsInOrder, ProgramInv, ExitsClean,
     ExitZeroMeansAll, SessionsDestroyed
<1> QED BY <1>1, <1>2, <1>3, PTL

=============================================================================
