-------------------------- MODULE Telemetry_proofs --------------------------
(***************************************************************************)
(* What the server decodes, and what it accepts, for any number of blocks, *)
(* windows, faults and reboots; and, while the server does not reboot,     *)
(* that it accepts no record twice, decodes whole representations only,    *)
(* however often the node reboots and reuses its window ids and sequence   *)
(* numbers, has decoded every window the node counts as uploaded, and so   *)
(* offers the service of TelemetryService.                                 *)
(***************************************************************************)
EXTENDS Telemetry, TLAPS

-----------------------------------------------------------------------------
\* The inductive invariant.

\* The counter of the node is the number of blocks it has sent at most, and
\* inside a window the last request sent is the one it waits for.
NodeInv ==
  /\ client_security.tx_key = ClientToServer(TestSeed)
  /\ client_security.tx_sequence <=
       MaxBlocks * (window_id - 1) + (IF pc = "blocked" THEN block_number + 1 ELSE 0)
  /\ pc = "blocked" =>
       /\ window_id <= MaxWindow
       /\ block_number < block_count
       /\ client_security.tx_sequence > 0

\* A header says what the record carries.
RequestsTrue ==
  \A request \in requests :
     /\ request.record.aad = request.header
     /\ request.header.token = request.record.plaintext.window
     /\ request.header.number = request.record.plaintext.number
     /\ request.header.more <=>
          request.record.plaintext.number + 1 < request.record.plaintext.of
     /\ request.record.plaintext.number < request.record.plaintext.of

\* Requests lie in the node's past.
RequestsPast ==
  \A request \in requests :
     /\ request.record.plaintext.boot <= node_boot
     /\ request.record.plaintext.boot = node_boot =>
          /\ request.record.sequence < client_security.tx_sequence
          /\ request.record.plaintext.window <= window_id
          /\ request.record.plaintext.window = window_id =>
               pc = "blocked" /\ request.record.plaintext.of = block_count

\* The blocks of one window of one boot are cut from one representation.
OneCut ==
  \A r1, r2 \in requests :
     /\ r1.record.plaintext.boot = r2.record.plaintext.boot
     /\ r1.record.plaintext.window = r2.record.plaintext.window
     => r1.record.plaintext.of = r2.record.plaintext.of

Sent(piece) == \E request \in requests : request.record.plaintext = piece

\* What is being reassembled, and what was decoded, are blocks that were sent,
\* of the window of the token, numbered from zero.
InSequence(pieces) ==
  \A j \in DOMAIN pieces :
     Sent(pieces[j]) /\ pieces[j].number = j - 1 /\ pieces[j].window = pieces[1].window

TransferOK(t) ==
  /\ t.next_block = Len(t.representation)
  /\ InSequence(t.representation)
  /\ t.representation # <<>> => t.token = t.representation[1].window

TransferInv == TransferOK(transfer)

\* Nothing is decoded before its last block.
DecodedOK(pieces) ==
  /\ pieces # <<>>
  /\ InSequence(pieces)
  /\ pieces[Len(pieces)].of = Len(pieces)

DecodedInv == \A i \in DOMAIN decoded : DecodedOK(decoded[i])

IInv ==
  /\ TypeOK /\ NodeInv /\ RequestsTrue /\ RequestsPast /\ OneCut
  /\ TransferInv /\ DecodedInv

-----------------------------------------------------------------------------
\* The types a step of the server produces.

Transfers == [active : BOOLEAN, token : Windows \cup {NoToken},
              next_block : 0 .. MaxBlocks, representation : Seq(Pieces)]

Codes == Successes \cup Refusals

LEMMA IdleTypes ==
  /\ IdleTransfer \in Transfers
  /\ ServerContext(TestSeed) \in Contexts
  /\ ClientContext(TestSeed) \in Contexts
<1>1. 0 \in SequenceNumbers /\ 0 \in 0 .. MaxBlocks
  <2>1. MaxBlocks * MaxWindow \in Nat
    BY BoundsAssumption
  <2> QED BY <2>1, BoundsAssumption DEF SequenceNumbers
<1> QED
  BY <1>1, BoundsAssumption
  DEF IdleTransfer, Transfers, Contexts, ServerContext, ClientContext, NewContext, Keys,
      ClientToServer, ServerToClient

LEMMA StatusCodes == \A verdict \in Verdicts : StatusCode(verdict) \in Codes
  BY DEF Verdicts, Authenticated, StatusCode, Codes, Successes, Refusals

Current(header) == Started(transfer, header)
Filled(header, record) == Extended(Current(header), record.plaintext)

LEMMA CurrentFacts ==
  ASSUME IInv, NEW header \in Headers
  PROVE  Current(header) \in Transfers /\ TransferOK(Current(header))
<1>1. transfer \in Transfers
  BY DEF IInv, TypeOK, Transfers
<1>2. Current(header) \in Transfers
  BY <1>1, BoundsAssumption DEF Current, Started, Transfers, Headers
<1>3. TransferOK(Current(header))
  BY DEF Current, IInv, TransferInv, TransferOK, Started, InSequence
<1> QED BY <1>2, <1>3

\* An expected, authentic block continues the representation, and a last block
\* completes it.
LEMMA FilledFacts ==
  ASSUME IInv, NEW request \in requests, NEW header \in Headers,
         Expected(Current(header), header), Opens(server_security, request.record, header)
  PROVE  /\ header = request.header
         /\ request.record.plaintext.number = Len(Current(header).representation)
         /\ Filled(header, request.record).representation =
              Append(Current(header).representation, request.record.plaintext)
         /\ Filled(header, request.record) \in Transfers
         /\ TransferOK(Filled(header, request.record))
         /\ ~header.more => DecodedOK(Filled(header, request.record).representation)
<1> DEFINE piece == request.record.plaintext
           current == Current(header)
           filled == Filled(header, request.record)
           old == current.representation
           new == filled.representation
           n == Len(old)
<1>1. piece \in Pieces /\ current \in Transfers /\ TransferOK(current)
  BY CurrentFacts DEF IInv, TypeOK, Records
<1>2. header = request.header
  BY DEF Opens, Authentic, IInv, RequestsTrue
<1>3. /\ piece.number = n /\ piece.window = current.token
      /\ piece.number < piece.of
      /\ ~header.more => piece.of = n + 1
  BY <1>1, <1>2 DEF Expected, IInv, RequestsTrue, TransferOK, Pieces
<1>4. /\ old \in Seq(Pieces) /\ n \in Nat /\ new = Append(old, piece)
      /\ filled = [current EXCEPT !.representation = new, !.next_block = n + 1]
  BY <1>1 DEF Filled, Extended, Transfers, TransferOK
<1>5. /\ new \in Seq(Pieces) /\ new # <<>> /\ Len(new) = n + 1
      /\ new[n + 1] = piece
      /\ \A j \in 1 .. n : new[j] = old[j]
      /\ DOMAIN new = 1 .. n + 1 /\ DOMAIN old = 1 .. n
  BY <1>1, <1>4
<1>6. filled \in Transfers
  <2>1. n + 1 \in 0 .. MaxBlocks
    BY <1>1, <1>3, BoundsAssumption DEF Pieces
  <2> HIDE DEF current, new, filled
  <2> QED BY <1>1, <1>4, <1>5, <2>1 DEF Transfers
<1>7. InSequence(new) /\ new[1].window = current.token
  <2>1. Sent(piece)
    BY DEF Sent
  <2>2. CASE n = 0
    BY <1>3, <1>4, <1>5, <2>1, <2>2 DEF InSequence
  <2>3. CASE n # 0
    <3>1. old # <<>> /\ 1 \in 1 .. n /\ new[1] = old[1] /\ old[1].window = current.token
      BY <1>1, <1>4, <1>5, <2>3 DEF TransferOK
    <3> QED BY <1>1, <1>3, <1>4, <1>5, <2>1, <3>1 DEF TransferOK, InSequence
  <2> QED BY <2>2, <2>3, <1>4
<1>8. filled.token = current.token /\ filled.next_block = n + 1
  BY <1>1, <1>4 DEF Transfers
<1>9. TransferOK(filled)
  BY <1>5, <1>7, <1>8 DEF TransferOK
<1>10. ~header.more => DecodedOK(new)
  BY <1>3, <1>5, <1>7 DEF DecodedOK
<1> QED BY <1>2, <1>3, <1>4, <1>6, <1>9, <1>10

LEMMA FinishedFacts ==
  ASSUME NEW t \in Transfers, TransferOK(t)
  PROVE  /\ Finished(t) \in Transfers /\ TransferOK(Finished(t))
         /\ Finished(t).representation = t.representation
<1>1. /\ Finished(t).representation = t.representation
      /\ Finished(t).next_block = t.next_block
      /\ Finished(t).token = t.token
      /\ Finished(t) \in Transfers
  BY DEF Finished, Transfers
<1> QED BY <1>1 DEF TransferOK

\* The three ways to handle a block: not expected or not authentic, authentic
\* and dropped, authentic and stored.
LEMMA OutcomeCases ==
  ASSUME NEW header, NEW record,
         NEW outcome \in Outcomes(transfer, server_security, header, record)
  PROVE  \/ /\ outcome.verdict \in {"unexpected", "refused"}
            /\ outcome.transfer = Current(header)
            /\ outcome.context = server_security
         \/ /\ Expected(Current(header), header)
            /\ Opens(server_security, record, header)
            /\ outcome.context = AfterOpen(server_security, record)
            /\ \/ /\ outcome.verdict = "overflow"
                  /\ MayOverflow(Filled(header, record).representation)
                  /\ outcome.transfer = Current(header)
               \/ /\ outcome.verdict = "more" /\ header.more
                  /\ outcome.transfer = Filled(header, record)
               \/ /\ outcome.verdict = "decoded" /\ ~header.more
                  /\ outcome.transfer = Finished(Filled(header, record))
               \/ /\ outcome.verdict = "undecodable" /\ ~header.more
                  /\ FALSE \in DecodeResults(Filled(header, record).representation)
                  /\ outcome.transfer = Filled(header, record)
<1> DEFINE Outcome(verdict, t, c) == [verdict |-> verdict, transfer |-> t, context |-> c]
           current == Current(header)
           filled == Filled(header, record)
           opened == AfterOpen(server_security, record)
<1>1. CASE ~Expected(current, header)
  <2>1. outcome = Outcome("unexpected", current, server_security)
    BY <1>1 DEF Outcomes, Current
  <2> QED BY <2>1
<1>2. CASE Expected(current, header) /\ ~Opens(server_security, record, header)
  <2>1. outcome = Outcome("refused", current, server_security)
    BY <1>2 DEF Outcomes, Current, Aad
  <2> QED BY <2>1
<1>3. CASE Expected(current, header) /\ Opens(server_security, record, header)
  <2>1. \/ MayOverflow(filled.representation) /\ outcome = Outcome("overflow", current, opened)
        \/ header.more /\ outcome = Outcome("more", filled, opened)
        \/ ~header.more /\ outcome = Outcome("decoded", Finished(filled), opened)
        \/ /\ ~header.more /\ FALSE \in DecodeResults(filled.representation)
           /\ outcome = Outcome("undecodable", filled, opened)
    <3>1. outcome \in
            (IF MayOverflow(filled.representation)
             THEN {Outcome("overflow", current, opened)} ELSE {})
            \cup
            (IF header.more
             THEN {Outcome("more", filled, opened)}
             ELSE {IF ok THEN Outcome("decoded", Finished(filled), opened)
                         ELSE Outcome("undecodable", filled, opened) :
                     ok \in DecodeResults(filled.representation)})
      BY <1>3, Zenon DEF Outcomes, Current, Filled, Aad
    <3>2. DecodeResults(filled.representation) \subseteq BOOLEAN
      BY DEF DecodeResults
    <3> HIDE DEF Outcome, current, filled, opened
    <3> QED BY <3>1, <3>2
  <2>2. CASE MayOverflow(filled.representation) /\ outcome = Outcome("overflow", current, opened)
    BY <1>3, <2>2
  <2>3. CASE header.more /\ outcome = Outcome("more", filled, opened)
    BY <1>3, <2>3
  <2>4. CASE ~header.more /\ outcome = Outcome("decoded", Finished(filled), opened)
    BY <1>3, <2>4
  <2>5. CASE /\ ~header.more /\ FALSE \in DecodeResults(filled.representation)
             /\ outcome = Outcome("undecodable", filled, opened)
    BY <1>3, <2>5
  <2> QED BY <2>1, <2>2, <2>3, <2>4, <2>5
<1> QED BY <1>1, <1>2, <1>3

\* Whatever handling a block comes to, the transfer it leaves is in order, and
\* what it decodes ends with a last block.
LEMMA OutcomeFacts ==
  ASSUME IInv,
         NEW request \in requests, NEW header \in Headers,
         NEW outcome \in Outcomes(transfer, server_security, header, request.record)
  PROVE  /\ outcome.verdict \in Verdicts
         /\ outcome.context \in Contexts
         /\ outcome.transfer \in Transfers
         /\ TransferOK(outcome.transfer)
         /\ outcome.verdict = "decoded" => DecodedOK(outcome.transfer.representation)
<1> DEFINE record == request.record
<1>1. server_security \in Contexts /\ AfterOpen(server_security, record) \in Contexts
  BY DEF IInv, TypeOK, Records, AfterOpen, Contexts
<1>2. CASE outcome.transfer = Current(header) /\ outcome.verdict # "decoded"
  BY <1>1, <1>2, OutcomeCases, CurrentFacts DEF Verdicts, Authenticated
<1>3. CASE /\ Expected(Current(header), header)
           /\ Opens(server_security, record, header)
           /\ outcome.transfer \in {Filled(header, record), Finished(Filled(header, record))}
  <2>1. /\ Filled(header, record) \in Transfers /\ TransferOK(Filled(header, record))
        /\ ~header.more => DecodedOK(Filled(header, record).representation)
    BY <1>3, FilledFacts
  <2>2. /\ outcome.transfer \in Transfers /\ TransferOK(outcome.transfer)
        /\ outcome.transfer.representation = Filled(header, record).representation
    BY <1>3, <2>1, FinishedFacts
  <2>3. /\ outcome.verdict \in Verdicts
        /\ outcome.context \in Contexts
        /\ outcome.verdict = "decoded" => ~header.more
    BY <1>1, OutcomeCases DEF Verdicts, Authenticated
  <2> QED BY <2>1, <2>2, <2>3, Zenon
<1>4. \/ outcome.transfer = Current(header) /\ outcome.verdict # "decoded"
      \/ /\ Expected(Current(header), header)
         /\ Opens(server_security, record, header)
         /\ outcome.transfer \in {Filled(header, record), Finished(Filled(header, record))}
  BY OutcomeCases
<1> QED BY <1>2, <1>3, <1>4, Zenon

-----------------------------------------------------------------------------
\* Induction.

\* What was in order stays in order while requests accumulate.
LEMMA InSequenceStays ==
  ASSUME requests \subseteq requests'
  PROVE  \A pieces : InSequence(pieces) => InSequence(pieces)'
  BY DEF InSequence, Sent

LEMMA TransferStays ==
  ASSUME requests \subseteq requests', UNCHANGED <<transfer, decoded>>, TransferInv, DecodedInv
  PROVE  TransferInv' /\ DecodedInv'
  BY InSequenceStays DEF TransferInv, DecodedInv, TransferOK, DecodedOK

\* A window's blocks fit the sequence numbers set aside for it.
LEMMA SequenceRoom ==
  ASSUME NEW window \in 1 .. MaxWindow, NEW number \in 0 .. MaxBlocks - 1
  PROVE  /\ MaxBlocks * (window - 1) \in Nat
         /\ MaxBlocks * (window - 1) + number + 1 <= MaxBlocks * window
         /\ MaxBlocks * window <= MaxBlocks * MaxWindow
         /\ MaxBlocks * MaxWindow \in Nat
<1>1. MaxBlocks \in Nat /\ MaxWindow \in Nat /\ window \in Nat /\ window - 1 \in Nat
  BY BoundsAssumption
<1>2. MaxBlocks * (window - 1) \in Nat /\ MaxBlocks * MaxWindow \in Nat
  BY <1>1
<1>3. MaxBlocks * (window - 1) + MaxBlocks = MaxBlocks * window
  BY <1>1
<1>4. MaxBlocks * window <= MaxBlocks * MaxWindow
  <2>1. PICK k \in Nat : MaxWindow = window + k
    <3>1. MaxWindow - window \in Nat /\ MaxWindow = window + (MaxWindow - window)
      BY <1>1
    <3> QED BY <3>1
  <2>2. MaxBlocks * MaxWindow = MaxBlocks * window + MaxBlocks * k /\ MaxBlocks * k \in Nat
    BY <1>1, <2>1
  <2> QED BY <1>1, <2>2
<1> QED BY <1>1, <1>2, <1>3, <1>4

LEMMA InitIInv == Init => IInv
<1> SUFFICES ASSUME Init PROVE IInv
  OBVIOUS
<1>1. TypeOK
  <2>1. /\ node_boot \in Boots /\ window_id \in 1 .. MaxWindow + 1
        /\ block_number \in 0 .. MaxBlocks - 1 /\ block_count \in 0 .. MaxBlocks
        /\ server_boot \in 0 .. MaxServerReboots /\ faults \in 0 .. MaxFaults
    BY BoundsAssumption DEF Init, Boots
  <2>2. faint \in BOOLEAN /\ pc \in {"wait", "blocked"}
    BY DEF Init
  <2>3. /\ client_security \in Contexts /\ server_security \in Contexts
        /\ transfer \in Transfers
    BY IdleTypes DEF Init
  <2>4. accepted \in Seq(Records) /\ decoded \in Seq(Seq(Pieces))
    BY DEF Init
  <2>5. /\ requests \subseteq [header : Headers, record : Records]
        /\ responses \subseteq [id : Boots \X SequenceNumbers, code : Successes \cup Refusals]
        /\ confirmed \subseteq Boots \X Windows
    BY Zenon DEF Init
  <2> QED BY <2>1, <2>2, <2>3, <2>4, <2>5, Zenon DEF TypeOK, Transfers
<1>2. NodeInv
  BY BoundsAssumption DEF Init, NodeInv, ClientContext, NewContext
<1>3. RequestsTrue /\ RequestsPast /\ OneCut /\ DecodedInv
  BY DEF Init, RequestsTrue, RequestsPast, OneCut, DecodedInv
<1>4. TransferInv
  BY DEF Init, TransferInv, TransferOK, IdleTransfer, InSequence
<1> QED BY <1>1, <1>2, <1>3, <1>4 DEF IInv

LEMMA SendBlockIInv ==
  ASSUME IInv, NEW count \in 1 .. MaxBlocks, NEW number \in 0 .. MaxBlocks - 1,
         NEW scaleless \in BOOLEAN, number < count, window_id \in Windows,
         client_security.tx_sequence <= MaxBlocks * (window_id - 1) + number,
         \A request \in requests :
            request.record.plaintext.boot = node_boot
            /\ request.record.plaintext.window = window_id
              => request.record.plaintext.of = count,
         SendBlock(number, count, scaleless),
         UNCHANGED <<node_boot, window_id, serverVars, responses, faults, historyVars>>
  PROVE  IInv'
<1> DEFINE header == [token |-> window_id, number |-> number, more |-> number + 1 < count]
           piece == [boot |-> node_boot, window |-> window_id, number |-> number, of |-> count,
                     faint |-> scaleless]
           new == [header |-> header, record |-> Sealed(client_security, Aad(header), piece)]
<1>1. /\ requests' = requests \cup {new}
      /\ client_security' = AfterSeal(client_security)
      /\ block_number' = number /\ block_count' = count /\ faint' = scaleless
      /\ pc' = "blocked"
  BY DEF SendBlock
<1>2. /\ client_security \in Contexts
      /\ client_security.tx_sequence \in Nat
      /\ client_security.tx_sequence < MaxBlocks * MaxWindow
      /\ client_security.tx_sequence + 1 <= MaxBlocks * (window_id - 1) + (number + 1)
      /\ client_security.tx_sequence + 1 \in SequenceNumbers
  <2>1. client_security \in Contexts /\ client_security.tx_sequence \in SequenceNumbers
    BY DEF IInv, TypeOK, Contexts
  <2> DEFINE before == MaxBlocks * (window_id - 1)
             after == MaxBlocks * window_id
             room == MaxBlocks * MaxWindow
  <2>2. window_id \in 1 .. MaxWindow
    BY DEF Windows
  <2>3. /\ before \in Nat /\ room \in Nat
        /\ before + number + 1 <= after /\ after <= room
    BY <2>2, SequenceRoom
  <2>4. after \in Nat
    BY <2>2, BoundsAssumption
  <2>5. client_security.tx_sequence \in 0 .. room /\ client_security.tx_sequence <= before + number
    BY <2>1 DEF SequenceNumbers
  <2>6. SequenceNumbers = 0 .. room
    BY DEF SequenceNumbers
  <2> HIDE DEF before, after, room
  <2>7. /\ client_security.tx_sequence \in Nat
        /\ client_security.tx_sequence < room
        /\ client_security.tx_sequence + 1 <= before + (number + 1)
        /\ client_security.tx_sequence + 1 \in SequenceNumbers
    BY <2>3, <2>4, <2>5, <2>6
  <2> QED BY <2>1, <2>7 DEF before, room
<1>3. /\ header \in Headers /\ piece \in Pieces
      /\ new.record \in Records
      /\ new.header = header
      /\ new.record.aad = header /\ new.record.plaintext = piece
      /\ new.record.sequence = client_security.tx_sequence
  <2>1. header \in Headers /\ piece \in Pieces
    BY DEF Headers, Pieces, IInv, TypeOK
  <2> HIDE DEF header, piece
  <2> QED BY <1>2, <2>1 DEF Sealed, Aad, Records, Contexts
<1>4. /\ client_security' \in Contexts
      /\ client_security'.tx_sequence = client_security.tx_sequence + 1
      /\ client_security'.tx_key = client_security.tx_key
  BY <1>1, <1>2 DEF AfterSeal, Contexts
<1>5. new \in [header : Headers, record : Records]
  BY <1>3
<1> HIDE DEF new
<1>6. TypeOK'
  <2>1. requests' \subseteq [header : Headers, record : Records]
    BY <1>1, <1>5 DEF IInv, TypeOK
  <2> QED BY <1>1, <1>4, <2>1, BoundsAssumption
          DEF IInv, TypeOK, serverVars, historyVars, Windows
<1>7. NodeInv'
  <2>1. client_security'.tx_sequence > 0 /\ window_id <= MaxWindow
    BY <1>2, <1>4, BoundsAssumption DEF Windows
  <2>2. client_security'.tx_sequence <= MaxBlocks * (window_id - 1) + (number + 1)
    BY <1>2, <1>4
  <2> QED BY <1>1, <1>4, <2>1, <2>2 DEF IInv, NodeInv
<1>8. RequestsTrue'
  <2>1. /\ header.token = piece.window /\ header.number = piece.number
        /\ header.more = (piece.number + 1 < piece.of)
        /\ piece.number < piece.of
    OBVIOUS
  <2> HIDE DEF header, piece
  <2> QED BY <1>1, <1>3, <2>1 DEF IInv, RequestsTrue
<1>9. RequestsPast'
  <2>1. node_boot \in Nat /\ window_id \in Nat
    BY DEF IInv, TypeOK, Boots, Windows
  <2> SUFFICES ASSUME NEW request \in requests'
               PROVE  /\ request.record.plaintext.boot <= node_boot
                      /\ request.record.plaintext.boot = node_boot =>
                           /\ request.record.sequence < client_security.tx_sequence + 1
                           /\ request.record.plaintext.window <= window_id
                           /\ request.record.plaintext.window = window_id =>
                                request.record.plaintext.of = count
    BY <1>1, <1>4 DEF RequestsPast
  <2>2. CASE request = new
    BY <1>2, <1>3, <2>1, <2>2
  <2>3. CASE request \in requests
    <3>1. request.record.sequence \in Nat
      BY <2>3 DEF IInv, TypeOK, Records, SequenceNumbers
    <3> QED BY <1>2, <2>3, <3>1 DEF IInv, RequestsPast
  <2> QED BY <1>1, <2>2, <2>3
<1>10. OneCut'
  BY <1>1, <1>3 DEF IInv, OneCut
<1>11. TransferInv' /\ DecodedInv'
  BY <1>1, TransferStays DEF IInv, serverVars, historyVars
<1> QED BY <1>6, <1>7, <1>8, <1>9, <1>10, <1>11 DEF IInv

\* The facts of EndWindow all four ways out of a window share.
LEMMA EndWindowIInv ==
  ASSUME IInv, pc = "blocked", EndWindow,
         faults' \in 0 .. MaxFaults, confirmed' \subseteq Boots \X Windows,
         UNCHANGED <<accepted, decoded>>
  PROVE  IInv'
<1> USE DEF EndWindow
<1>1. /\ window_id \in 1 .. MaxWindow /\ block_number \in 0 .. MaxBlocks - 1
      /\ client_security \in Contexts /\ client_security.tx_sequence \in Nat
  BY DEF IInv, TypeOK, NodeInv, Contexts, SequenceNumbers
<1>2. TypeOK'
  <2>1. window_id' \in 1 .. MaxWindow + 1 /\ pc' \in {"wait", "blocked"}
    BY <1>1, BoundsAssumption
  <2> QED BY <2>1 DEF IInv, TypeOK, serverVars
<1>3. NodeInv'
  <2>1. client_security.tx_sequence <= MaxBlocks * (window_id - 1) + (block_number + 1)
    BY DEF IInv, NodeInv
  <2> DEFINE before == MaxBlocks * (window_id - 1)
             after == MaxBlocks * window_id
  <2>2. before \in Nat /\ after \in Nat /\ before + block_number + 1 <= after
    BY <1>1, SequenceRoom, BoundsAssumption
  <2>3. MaxBlocks * (window_id' - 1) = after
    BY <1>1
  <2>4. client_security.tx_sequence <= before + (block_number + 1)
    BY <2>1
  <2> HIDE DEF before, after
  <2>5. client_security.tx_sequence <= after + 0
    BY <1>1, <2>2, <2>4
  <2> QED BY <2>3, <2>5 DEF IInv, NodeInv
<1>4. RequestsTrue' /\ OneCut'
  BY DEF IInv, RequestsTrue, OneCut
<1>5. RequestsPast'
  <2>1. /\ window_id \in Nat
        /\ \A request \in requests : request.record.plaintext.window \in Nat
    BY <1>1 DEF IInv, TypeOK, Records, Pieces, Windows
  <2>2. ASSUME NEW request \in requests
        PROVE  /\ request.record.plaintext.boot <= node_boot
               /\ request.record.plaintext.boot = node_boot =>
                    /\ request.record.sequence < client_security.tx_sequence
                    /\ request.record.plaintext.window < window_id + 1
    BY <2>1 DEF IInv, RequestsPast
  <2> QED BY <2>1, <2>2 DEF RequestsPast
<1>6. TransferInv' /\ DecodedInv'
  BY TransferStays DEF IInv, serverVars
<1> QED BY <1>2, <1>3, <1>4, <1>5, <1>6 DEF IInv

LEMMA NodeRebootIInv == IInv /\ NodeReboot => IInv'
<1> SUFFICES ASSUME IInv, NodeReboot PROVE IInv'
  OBVIOUS
<1> USE DEF NodeReboot, IInv
<1>1. node_boot \in Boots /\ node_boot + 1 \in Boots
  BY BoundsAssumption DEF TypeOK, Boots
<1>2. TypeOK'
  <2>1. /\ node_boot' \in Boots /\ window_id' \in 1 .. MaxWindow + 1
        /\ block_number' \in 0 .. MaxBlocks - 1 /\ block_count' \in 0 .. MaxBlocks
    BY <1>1, BoundsAssumption
  <2>2. faint' \in BOOLEAN /\ pc' \in {"wait", "blocked"}
    OBVIOUS
  <2>3. client_security' \in Contexts
    BY IdleTypes
  <2>4. UNCHANGED <<server_boot, transfer, server_security, requests, responses, faults,
                    accepted, decoded, confirmed>>
    BY DEF serverVars, networkVars, historyVars
  <2> QED BY <2>1, <2>2, <2>3, <2>4 DEF TypeOK
<1>3. NodeInv'
  <2>1. MaxBlocks * (1 - 1) = 0
    BY BoundsAssumption
  <2> QED BY <2>1 DEF NodeInv, ClientContext, NewContext
<1>4. RequestsTrue' /\ OneCut'
  BY DEF RequestsTrue, OneCut, networkVars
<1>5. RequestsPast'
  <2>1. /\ node_boot \in Nat
        /\ \A request \in requests : request.record.plaintext.boot \in Nat
    BY <1>1 DEF TypeOK, Records, Pieces, Boots
  <2>2. \A request \in requests : request.record.plaintext.boot < node_boot + 1
    BY <2>1 DEF RequestsPast
  <2> QED BY <2>1, <2>2 DEF RequestsPast, networkVars
<1>6. TransferInv' /\ DecodedInv'
  BY TransferStays DEF serverVars, networkVars, historyVars
<1> QED BY <1>2, <1>3, <1>4, <1>5, <1>6

LEMMA ServerRebootIInv == IInv /\ ServerReboot => IInv'
<1> SUFFICES ASSUME IInv, ServerReboot PROVE IInv'
  OBVIOUS
<1> USE DEF ServerReboot, IInv
<1>1. TypeOK'
  BY IdleTypes, BoundsAssumption DEF TypeOK, nodeVars, networkVars, historyVars, Transfers
<1>2. NodeInv' /\ RequestsTrue' /\ RequestsPast' /\ OneCut'
  BY DEF NodeInv, RequestsTrue, RequestsPast, OneCut, nodeVars, networkVars
<1>3. TransferInv'
  BY DEF TransferInv, TransferOK, IdleTransfer, InSequence
<1>4. DecodedInv'
  BY InSequenceStays DEF DecodedInv, DecodedOK, networkVars, historyVars
<1> QED BY <1>1, <1>2, <1>3, <1>4

LEMMA DeliverIInv ==
  ASSUME IInv, NEW request \in requests, NEW header \in Headers,
         Deliver(header, request.record), faults' \in 0 .. MaxFaults
  PROVE  IInv'
<1> DEFINE record == request.record
<1>1. PICK outcome \in Outcomes(transfer, server_security, header, record) :
        /\ transfer' = outcome.transfer
        /\ server_security' = outcome.context
        /\ Respond(record, StatusCode(outcome.verdict))
        /\ accepted' = IF outcome.verdict \in Authenticated
                       THEN Append(accepted, record) ELSE accepted
        /\ decoded' = IF outcome.verdict = "decoded"
                      THEN Append(decoded, outcome.transfer.representation) ELSE decoded
  BY DEF Deliver, Handle
<1>2. UNCHANGED <<nodeVars, server_boot, requests, confirmed>>
  BY DEF Deliver
<1>3. /\ outcome.verdict \in Verdicts
      /\ outcome.context \in Contexts
      /\ outcome.transfer \in Transfers
      /\ TransferOK(outcome.transfer)
      /\ outcome.verdict = "decoded" => DecodedOK(outcome.transfer.representation)
  BY OutcomeFacts
<1>4. record \in Records /\ Id(record) \in Boots \X SequenceNumbers
  BY DEF IInv, TypeOK, Records, Pieces, Id
<1> HIDE DEF record
<1>5. TypeOK'
  <2>1. responses' \subseteq [id : Boots \X SequenceNumbers, code : Successes \cup Refusals]
    BY <1>1, <1>3, <1>4, StatusCodes DEF Respond, Codes, IInv, TypeOK
  <2>2. accepted' \in Seq(Records)
    BY <1>1, <1>4 DEF IInv, TypeOK
  <2>3. decoded' \in Seq(Seq(Pieces))
    <3>1. outcome.transfer.representation \in Seq(Pieces)
      BY <1>3 DEF Transfers
    <3> QED BY <1>1, <3>1 DEF IInv, TypeOK
  <2> QED BY <1>1, <1>2, <1>3, <2>1, <2>2, <2>3 DEF IInv, TypeOK, nodeVars, Transfers
<1>6. NodeInv' /\ RequestsTrue' /\ RequestsPast' /\ OneCut'
  BY <1>2 DEF IInv, NodeInv, RequestsTrue, RequestsPast, OneCut, nodeVars
<1>7. \A pieces : InSequence(pieces) => InSequence(pieces)'
  BY <1>2, InSequenceStays
<1>8. TransferInv'
  BY <1>1, <1>3, <1>7 DEF TransferInv, TransferOK
<1>9. DecodedInv'
  <2>1. decoded \in Seq(Seq(Pieces))
    BY DEF IInv, TypeOK
  <2>2. \A i \in DOMAIN decoded' : DecodedOK(decoded'[i])
    BY <1>1, <1>3, <2>1 DEF IInv, DecodedInv
  <2> QED BY <1>7, <2>2 DEF DecodedInv, DecodedOK
<1> QED BY <1>5, <1>6, <1>8, <1>9 DEF IInv

LEMMA NextIInv == IInv /\ [Next]_vars => IInv'
<1> SUFFICES ASSUME IInv, [Next]_vars PROVE IInv'
  OBVIOUS
<1>1. CASE NodeStart
  <2>1. PICK count \in 1 .. MaxBlocks, scaleless \in BOOLEAN : SendBlock(0, count, scaleless)
    BY <1>1 DEF NodeStart
  <2>2. /\ pc = "wait" /\ window_id \in Windows
        /\ UNCHANGED <<node_boot, window_id, serverVars, responses, faults, historyVars>>
    BY <1>1 DEF NodeStart, IInv, TypeOK, Windows
  <2>3. client_security.tx_sequence <= MaxBlocks * (window_id - 1) + 0
    BY <2>2 DEF IInv, NodeInv
  <2>4. \A request \in requests :
          ~(request.record.plaintext.boot = node_boot /\ request.record.plaintext.window = window_id)
    BY <2>2 DEF IInv, RequestsPast
  <2>5. 0 \in 0 .. MaxBlocks - 1 /\ 0 < count
    BY BoundsAssumption
  <2> QED BY <2>1, <2>2, <2>3, <2>4, <2>5, SendBlockIInv
<1>2. CASE NodeNextBlock
  <2> DEFINE number == block_number + 1
  <2>1. /\ pc = "blocked" /\ number < block_count /\ SendBlock(number, block_count, faint)
        /\ UNCHANGED <<node_boot, window_id, serverVars, responses, faults, historyVars>>
    BY <1>2 DEF NodeNextBlock, BlocksLeft
  <2>2. /\ window_id \in Windows /\ block_count \in 1 .. MaxBlocks /\ number \in 0 .. MaxBlocks - 1
        /\ faint \in BOOLEAN
    BY <2>1, BoundsAssumption DEF IInv, TypeOK, NodeInv, Windows
  <2>3. client_security.tx_sequence <= MaxBlocks * (window_id - 1) + number
    BY <2>1 DEF IInv, NodeInv
  <2>4. \A request \in requests :
          request.record.plaintext.boot = node_boot /\ request.record.plaintext.window = window_id
            => request.record.plaintext.of = block_count
    BY DEF IInv, RequestsPast
  <2> HIDE DEF number
  <2> QED BY <2>1, <2>2, <2>3, <2>4, SendBlockIInv
<1>3. CASE NodeFinish
  <2>1. confirmed' \subseteq Boots \X Windows /\ faults' \in 0 .. MaxFaults
    BY <1>3 DEF NodeFinish, IInv, TypeOK, NodeInv, Windows
  <2> QED BY <1>3, <2>1, EndWindowIInv DEF NodeFinish
<1>4. CASE NodeGiveUp
  BY <1>4, EndWindowIInv DEF NodeGiveUp, historyVars, IInv, TypeOK
<1>5. CASE NodeTimeout
  <2>1. faults' \in 0 .. MaxFaults
    BY <1>5, BoundsAssumption DEF NodeTimeout, IInv, TypeOK
  <2> QED BY <1>5, <2>1, EndWindowIInv DEF NodeTimeout, historyVars, IInv, TypeOK
<1>6. CASE NodeReboot
  BY <1>6, NodeRebootIInv
<1>7. CASE ServerReboot
  BY <1>7, ServerRebootIInv
<1>8. CASE Arrive
  <2>1. PICK request \in requests : Deliver(request.header, request.record) /\ UNCHANGED faults
    BY <1>8 DEF Arrive
  <2>2. request.header \in Headers /\ faults' \in 0 .. MaxFaults
    BY <2>1 DEF IInv, TypeOK
  <2> QED BY <2>1, <2>2, DeliverIInv
<1>9. CASE ArriveStray
  <2>1. PICK request \in requests :
           /\ faults < MaxFaults /\ faults' = faults + 1
           /\ Deliver(request.header, request.record)
    BY <1>9 DEF ArriveStray
  <2>2. request.header \in Headers /\ faults' \in 0 .. MaxFaults
    BY <2>1, BoundsAssumption DEF IInv, TypeOK
  <2> QED BY <2>1, <2>2, DeliverIInv
<1>10. CASE ArriveDamaged
  <2>1. PICK request \in requests, header \in Headers :
           /\ faults < MaxFaults /\ faults' = faults + 1
           /\ Deliver(header, request.record)
    BY <1>10 DEF ArriveDamaged
  <2>2. faults' \in 0 .. MaxFaults
    BY <2>1, BoundsAssumption DEF IInv, TypeOK
  <2> QED BY <2>1, <2>2, DeliverIInv
<1>11. CASE ArriveMalformed
  <2>1. PICK request \in requests :
           /\ faults < MaxFaults /\ faults' = faults + 1
           /\ Respond(request.record, "4.00 Bad Request")
           /\ UNCHANGED <<nodeVars, serverVars, requests, historyVars>>
    BY <1>11 DEF ArriveMalformed
  <2>2. Id(request.record) \in Boots \X SequenceNumbers /\ faults' \in 0 .. MaxFaults
    <3>1. request.record \in Records
      BY DEF IInv, TypeOK
    <3>2. Id(request.record) \in Boots \X SequenceNumbers
      BY <3>1 DEF Records, Pieces, Id
    <3>3. faults \in 0 .. MaxFaults
      BY DEF IInv, TypeOK
    <3>4. faults < MaxFaults /\ faults' = faults + 1
      BY <2>1
    <3>5. faults' \in 0 .. MaxFaults
      BY <3>3, <3>4, BoundsAssumption
    <3> QED BY <3>2, <3>5
  <2>3. responses' \subseteq [id : Boots \X SequenceNumbers, code : Successes \cup Refusals]
    <3>1. "4.00 Bad Request" \in Successes \cup Refusals
      BY DEF Refusals
    <3> DEFINE response == [id |-> Id(request.record), code |-> "4.00 Bad Request"]
    <3>2. response \in [id : Boots \X SequenceNumbers, code : Successes \cup Refusals]
      BY <2>2, <3>1
    <3>3. responses' = responses \cup {response}
      BY <2>1 DEF Respond
    <3> HIDE DEF response
    <3> QED BY <3>2, <3>3 DEF IInv, TypeOK
  <2>4. TypeOK'
    BY <2>1, <2>2, <2>3 DEF IInv, TypeOK, nodeVars, serverVars, historyVars
  <2>5. NodeInv' /\ RequestsTrue' /\ RequestsPast' /\ OneCut'
    BY <2>1 DEF IInv, NodeInv, RequestsTrue, RequestsPast, OneCut, nodeVars
  <2> QED BY <2>1, <2>4, <2>5, TransferStays DEF IInv, serverVars, historyVars
<1>12. CASE NodeSkip
  <2>1. faults' \in 0 .. MaxFaults
    BY <1>12, BoundsAssumption DEF NodeSkip, IInv, TypeOK
  <2>2. UNCHANGED <<nodeVars, serverVars, requests, responses, historyVars>>
    BY <1>12 DEF NodeSkip
  <2>3. TypeOK'
    BY <2>1, <2>2 DEF IInv, TypeOK, nodeVars, serverVars, historyVars
  <2>4. NodeInv' /\ RequestsTrue' /\ RequestsPast' /\ OneCut'
    BY <2>2 DEF IInv, NodeInv, RequestsTrue, RequestsPast, OneCut, nodeVars
  <2> QED BY <2>2, <2>3, <2>4, TransferStays DEF IInv, serverVars, historyVars
<1>13. CASE UNCHANGED vars
  <2> USE <1>13 DEF vars, nodeVars, serverVars, networkVars, historyVars
  <2>1. TypeOK'
    BY DEF IInv, TypeOK
  <2>2. NodeInv' /\ RequestsTrue' /\ RequestsPast' /\ OneCut'
    BY DEF IInv, NodeInv, RequestsTrue, RequestsPast, OneCut
  <2> QED BY <2>1, <2>2, TransferStays DEF IInv
<1> QED
  BY <1>1, <1>2, <1>3, <1>4, <1>5, <1>6, <1>7, <1>8, <1>9, <1>10, <1>11, <1>12, <1>13
  DEF Next, NodeStep, OutOfWindows

LEMMA SpecIInv == Spec => []IInv
  BY InitIInv, NextIInv, PTL DEF Spec

-----------------------------------------------------------------------------
\* The theorems.

\* No counter of either mote leaves its range.
THEOREM TypeCorrect == Spec => []TypeOK
<1>1. IInv => TypeOK
  BY DEF IInv
<1> QED BY <1>1, SpecIInv, PTL

\* Blocks decoded by telemetry_post_handler as one representation are numbered
\* completely and in order and are of one window id, however often either mote
\* rebooted and whatever the network did.
THEOREM DecodingInSequence == Spec => []DecodedInSequence
<1>1. IInv => DecodedInSequence
  <2> SUFFICES ASSUME IInv, NEW i \in DOMAIN decoded, NEW j \in DOMAIN decoded[i]
               PROVE  /\ decoded[i][j].number = j - 1
                      /\ decoded[i][j].window = decoded[i][1].window
                      /\ decoded[i][j].boot = decoded[i][1].boot
                           => decoded[i][j].of = decoded[i][1].of
    BY DEF DecodedInSequence
  <2>1. DecodedOK(decoded[i]) /\ decoded[i] \in Seq(Pieces)
    BY DEF IInv, DecodedInv, TypeOK
  <2>2. 1 \in DOMAIN decoded[i]
    BY <2>1 DEF DecodedOK
  <2>3. /\ Sent(decoded[i][j]) /\ Sent(decoded[i][1])
        /\ decoded[i][j].number = j - 1
        /\ decoded[i][j].window = decoded[i][1].window
    BY <2>1, <2>2 DEF DecodedOK, InSequence
  <2> QED BY <2>3 DEF Sent, IInv, OneCut
<1> QED BY <1>1, SpecIInv, PTL

\* Blocks of one window that were sent by a node that never rebooted, up to the
\* last one, are one whole representation.
LEMMA SteadyIsWhole ==
  ASSUME MaxNodeReboots = 0, IInv, NEW pieces \in Seq(Pieces), DecodedOK(pieces)
  PROVE  Whole(pieces)
<1> DEFINE n == Len(pieces)
<1>1. n \in DOMAIN pieces /\ pieces # <<>> /\ DOMAIN pieces = 1 .. n
  BY DEF DecodedOK
<1>2. \A j \in DOMAIN pieces :
        /\ Sent(pieces[j]) /\ pieces[j].boot = 0 /\ pieces[j].number = j - 1
        /\ pieces[j].window = pieces[1].window
  <2>1. \A j \in DOMAIN pieces : pieces[j] \in Pieces
    OBVIOUS
  <2>2. \A j \in DOMAIN pieces : pieces[j].boot = 0
    BY <2>1 DEF Pieces, Boots
  <2> QED BY <2>2 DEF DecodedOK, InSequence
<1>3. OneWindow(pieces)
  BY <1>2 DEF OneWindow
<1>4. \A j \in DOMAIN pieces : pieces[j].of = n
  <2> SUFFICES ASSUME NEW j \in DOMAIN pieces PROVE pieces[j].of = pieces[n].of
    BY DEF DecodedOK
  <2> QED BY <1>1, <1>2 DEF Sent, IInv, OneCut
<1> QED BY <1>1, <1>2, <1>3, <1>4 DEF Whole

\* While the node does not reboot, whatever telemetry_post_handler decodes is
\* one complete representation of one window, however often the server reboots.
THEOREM DecodingWhole == MaxNodeReboots = 0 => (Spec => []DecodedWhole)
<1> SUFFICES ASSUME MaxNodeReboots = 0 PROVE Spec => []DecodedWhole
  OBVIOUS
<1>1. IInv => DecodedWhole
  <2> SUFFICES ASSUME IInv, NEW i \in DOMAIN decoded PROVE Whole(decoded[i])
    BY DEF DecodedWhole
  <2>1. DecodedOK(decoded[i]) /\ decoded[i] \in Seq(Pieces)
    BY DEF IInv, DecodedInv, TypeOK
  <2> QED BY <2>1, SteadyIsWhole
<1> QED BY <1>1, SpecIInv, PTL

-----------------------------------------------------------------------------
(***************************************************************************)
(* The server that does not reboot.                                        *)
(*                                                                         *)
(* The argument.  The node sends block n > 0 only after the server         *)
(* accepted block n - 1 of the same boot under the sequence number just    *)
(* below.  The server accepts rising sequence numbers only, so between the *)
(* two it accepts nothing: the block before it in the buffer is the one    *)
(* the node sent before it.                                                *)
(***************************************************************************)

\* The inductive invariant.

\* Records are accepted in rising order, up to the replay window.
AcceptedOrdered ==
  /\ \A i, j \in DOMAIN accepted : i < j => accepted[i].sequence < accepted[j].sequence
  /\ accepted # <<>> =>
       /\ server_security.rx_initialized
       /\ accepted[Len(accepted)].sequence = server_security.rx_highest

\* The node never sends two requests under one boot and sequence number.
OneRequest == \A r1, r2 \in requests : Id(r1.record) = Id(r2.record) => r1 = r2

AcceptedSent == \A i \in DOMAIN accepted : \E request \in requests : request.record = accepted[i]

\* A response of success is for a record that was accepted.
SuccessAccepted ==
  \A response \in responses :
     response.code \in Successes => \E i \in DOMAIN accepted : Id(accepted[i]) = response.id

\* The request the node waits for was sent, and is the block its loop is at.
Waiting ==
  pc = "blocked" =>
    \E request \in requests :
       /\ request.record.sequence = client_security.tx_sequence - 1
       /\ request.record.plaintext =
            [boot |-> node_boot, window |-> window_id, number |-> block_number, of |-> block_count,
             faint |-> faint]

\* A block is sent when the one before it was accepted.
Precedes(before, record) ==
  /\ before.sequence + 1 = record.sequence
  /\ before.plaintext.boot = record.plaintext.boot
  /\ before.plaintext.window = record.plaintext.window

Preceded ==
  \A request \in requests :
     request.record.plaintext.number > 0 =>
       \E i \in DOMAIN accepted : Precedes(accepted[i], request.record)

\* What is being reassembled is of one window of one boot, and ends with the
\* record accepted last.
TransferOne ==
  /\ OneWindow(transfer.representation)
  /\ transfer.representation # <<>> /\ transfer.active =>
       /\ accepted # <<>>
       /\ accepted[Len(accepted)].plaintext =
            transfer.representation[Len(transfer.representation)]

DecodedOne == \A i \in DOMAIN decoded : OneWindow(decoded[i])

WindowDecoded(window) ==
  \E i \in DOMAIN decoded : Whole(decoded[i]) /\ WindowOf(decoded[i]) = window

\* A response of success is for a request that was sent; if that was the last
\* block of its window, the window was decoded.
LastBlockDecoded(record) ==
  record.plaintext.number + 1 = record.plaintext.of
    => WindowDecoded(<<record.plaintext.boot, record.plaintext.window>>)

SuccessDecoded ==
  \A response \in responses :
     response.code \in Successes =>
       \E request \in requests :
          Id(request.record) = response.id /\ LastBlockDecoded(request.record)

ConfirmedInv == \A window \in confirmed : WindowDecoded(window)

OrderInv ==
  /\ IInv
  /\ AcceptedOrdered /\ OneRequest /\ AcceptedSent /\ SuccessAccepted /\ Waiting /\ Preceded
  /\ TransferOne /\ DecodedOne /\ SuccessDecoded /\ ConfirmedInv

-----------------------------------------------------------------------------
\* The server.

LEMMA AcceptedTypes ==
  ASSUME OrderInv
  PROVE  /\ accepted \in Seq(Records)
         /\ DOMAIN accepted = 1 .. Len(accepted) /\ Len(accepted) \in Nat
         /\ \A i \in DOMAIN accepted : accepted[i].sequence \in Nat
         /\ server_security.rx_highest \in Nat
         /\ \A request \in requests : request.record.sequence \in Nat
<1>1. SequenceNumbers \subseteq Nat
  BY DEF SequenceNumbers
<1>2. accepted \in Seq(Records) /\ server_security \in Contexts /\ requests \subseteq [header : Headers, record : Records]
  BY DEF OrderInv, IInv, TypeOK
<1>3. /\ DOMAIN accepted = 1 .. Len(accepted) /\ Len(accepted) \in Nat
      /\ \A i \in DOMAIN accepted : accepted[i] \in Records
  BY <1>2
<1> QED BY <1>1, <1>2, <1>3 DEF Records, Contexts

\* The block before an authentic one in the buffer is the record accepted
\* last, and was sent just before it.
LEMMA ContinuesWindow ==
  ASSUME OrderInv, NEW request \in requests, NEW header \in Headers,
         Expected(Current(header), header), Opens(server_security, request.record, header)
  PROVE  OneWindow(Filled(header, request.record).representation)
<1> DEFINE piece == request.record.plaintext
           old == Current(header).representation
           n == Len(old)
           new == Filled(header, request.record).representation
<1>1. /\ header = request.header /\ piece.number = n /\ new = Append(old, piece)
      /\ header.number = n
  BY FilledFacts DEF OrderInv, IInv, RequestsTrue
<1>2. old \in Seq(Pieces) /\ n \in Nat /\ piece \in Pieces
  <2>1. Current(header) \in Transfers
    BY CurrentFacts DEF OrderInv
  <2>2. old \in Seq(Pieces)
    BY <2>1 DEF Transfers
  <2>3. piece \in Pieces
    BY DEF OrderInv, IInv, TypeOK, Records
  <2> QED BY <2>2, <2>3
<1>3. /\ DOMAIN new = 1 .. n + 1 /\ new[n + 1] = piece
      /\ \A j \in 1 .. n : new[j] = old[j]
      /\ DOMAIN old = 1 .. n
  BY <1>1, <1>2
<1>4. CASE n = 0
  BY <1>3, <1>4 DEF OneWindow
<1>5. CASE n > 0
  <2>1. /\ Current(header) = transfer /\ transfer.active /\ old # <<>>
        /\ OneWindow(old) /\ accepted # <<>>
        /\ accepted[Len(accepted)].plaintext = old[n]
    BY <1>1, <1>2, <1>5 DEF Current, Started, Expected, OrderInv, TransferOne
  <2>2. PICK i \in DOMAIN accepted : Precedes(accepted[i], request.record)
    BY <1>1, <1>5 DEF OrderInv, Preceded
  <2> DEFINE last == Len(accepted)
  <2>3. /\ server_security.rx_initialized
        /\ accepted[last].sequence < request.record.sequence
    <3>1. /\ server_security.rx_initialized
          /\ accepted[last].sequence = server_security.rx_highest
      BY <2>1 DEF OrderInv, AcceptedOrdered
    <3>2. ~(request.record.sequence <= server_security.rx_highest)
      BY <3>1 DEF Opens, Replayed
    <3> QED BY <3>1, <3>2, AcceptedTypes
  <2>4. i = last
    <3>1. i \in 1 .. last /\ last \in Nat /\ last \in DOMAIN accepted
      BY <2>1, AcceptedTypes
    <3>2. accepted[i].sequence \in Nat /\ accepted[last].sequence \in Nat
          /\ request.record.sequence \in Nat
      BY <3>1, AcceptedTypes
    <3>3. i < last => accepted[i].sequence < accepted[last].sequence
      BY <3>1 DEF OrderInv, AcceptedOrdered
    <3> QED BY <2>2, <2>3, <3>1, <3>2, <3>3 DEF Precedes
  <2>5. old[n].boot = piece.boot /\ old[n].window = piece.window
    BY <2>1, <2>2, <2>4 DEF Precedes
  <2>6. n \in 1 .. n
    BY <1>2, <1>5
  <2>7. \A j \in 1 .. n + 1 : new[j].boot = piece.boot /\ new[j].window = piece.window
    <3> SUFFICES ASSUME NEW j \in 1 .. n + 1
                 PROVE  new[j].boot = piece.boot /\ new[j].window = piece.window
      OBVIOUS
    <3>1. CASE j \in 1 .. n
      <4>1. old[j].boot = old[n].boot /\ old[j].window = old[n].window
        BY <1>2, <2>1, <2>6, <3>1 DEF OneWindow
      <4>2. new[j] = old[j]
        BY <1>3, <3>1
      <4> QED BY <2>5, <4>1, <4>2
    <3>2. CASE j = n + 1
      BY <1>3, <3>2
    <3> QED BY <1>2, <3>1, <3>2
  <2> QED BY <1>3, <2>7 DEF OneWindow
<1> QED BY <1>2, <1>4, <1>5

\* A representation of one window that ends with a last block is whole.
LEMMA OneIsWhole ==
  ASSUME IInv, NEW pieces \in Seq(Pieces), DecodedOK(pieces), OneWindow(pieces)
  PROVE  Whole(pieces)
<1> DEFINE n == Len(pieces)
<1>1. n \in DOMAIN pieces /\ DOMAIN pieces = 1 .. n /\ pieces # <<>>
  BY DEF DecodedOK
<1>2. \A j \in DOMAIN pieces : Sent(pieces[j]) /\ pieces[j].number = j - 1
  BY DEF DecodedOK, InSequence
<1>3. \A j \in DOMAIN pieces : pieces[j].of = n
  <2> SUFFICES ASSUME NEW j \in DOMAIN pieces PROVE pieces[j].of = pieces[n].of
    BY DEF DecodedOK
  <2>1. pieces[j].boot = pieces[n].boot /\ pieces[j].window = pieces[n].window
    BY <1>1 DEF OneWindow
  <2> QED BY <1>1, <1>2, <2>1 DEF Sent, IInv, OneCut
<1> QED BY <1>1, <1>2, <1>3 DEF Whole

\* Handling a block: one that is not accepted leaves no more than an emptied
\* buffer, one that is accepted is stored, and a last one is decoded or found
\* undecodable.
LEMMA OrderOutcome ==
  ASSUME OrderInv, NEW request \in requests, NEW header \in Headers,
         NEW outcome \in Outcomes(transfer, server_security, header, request.record)
  PROVE  \/ /\ outcome.verdict \notin Authenticated
            /\ outcome.context = server_security
            /\ outcome.transfer.representation = <<>> \/ outcome.transfer = transfer
         \/ /\ outcome.verdict \in {"more", "decoded", "undecodable"}
            /\ Opens(server_security, request.record, header)
            /\ outcome.context = AfterOpen(server_security, request.record)
            /\ outcome.transfer.representation # <<>>
            /\ outcome.transfer.representation[Len(outcome.transfer.representation)] =
                 request.record.plaintext
            /\ OneWindow(outcome.transfer.representation)
            /\ outcome.verdict = "decoded" => Whole(outcome.transfer.representation)
            /\ outcome.verdict = "more" =>
                 request.record.plaintext.number + 1 # request.record.plaintext.of
<1> DEFINE record == request.record
           filled == Filled(header, record)
           rep == filled.representation
<1>1. CASE outcome.verdict \in {"unexpected", "refused"}
  <2>1. outcome.transfer = Current(header) /\ outcome.context = server_security
    BY <1>1, OutcomeCases
  <2>2. Current(header) = transfer \/ Current(header).representation = <<>>
    BY DEF Current, Started
  <2> QED BY <1>1, <2>1, <2>2 DEF Authenticated
<1>2. CASE /\ Expected(Current(header), header)
           /\ Opens(server_security, record, header)
  <2>1. /\ header = request.header
        /\ rep = Append(Current(header).representation, record.plaintext)
        /\ filled \in Transfers /\ TransferOK(filled)
        /\ ~header.more => DecodedOK(rep)
    BY <1>2, FilledFacts DEF OrderInv
  <2>2. OneWindow(rep)
    BY <1>2, ContinuesWindow
  <2>3. rep \in Seq(Pieces) /\ rep # <<>> /\ rep[Len(rep)] = record.plaintext
    <3>1. Current(header).representation \in Seq(Pieces) /\ record.plaintext \in Pieces
      <4>1. Current(header) \in Transfers
        BY CurrentFacts DEF OrderInv
      <4>2. record \in Records
        BY DEF OrderInv, IInv, TypeOK
      <4> QED BY <4>1, <4>2 DEF Transfers, Records
    <3> QED BY <2>1, <3>1
  <2>4. ~header.more => Whole(rep)
    BY <2>1, <2>2, <2>3, OneIsWhole DEF OrderInv
  <2>5. header.more => record.plaintext.number + 1 # record.plaintext.of
    <3>1. record.plaintext.number \in Nat /\ record.plaintext.of \in Nat
      BY DEF OrderInv, IInv, TypeOK, Records, Pieces
    <3> QED BY <2>1, <3>1 DEF OrderInv, IInv, RequestsTrue
  <2>6. ~MayOverflow(rep)
    BY <2>2 DEF MayOverflow
  <2>7. Finished(filled).representation = rep
    BY <2>1, FinishedFacts
  <2>8. CASE outcome.verdict = "more" /\ header.more /\ outcome.transfer = filled
              /\ outcome.context = AfterOpen(server_security, record)
    BY <1>2, <2>2, <2>3, <2>5, <2>8
  <2>9. CASE outcome.verdict = "decoded" /\ ~header.more /\ outcome.transfer = Finished(filled)
              /\ outcome.context = AfterOpen(server_security, record)
    BY <1>2, <2>2, <2>3, <2>4, <2>7, <2>9
  <2>10. CASE outcome.verdict = "undecodable" /\ outcome.transfer = filled
              /\ outcome.context = AfterOpen(server_security, record)
    BY <1>2, <2>2, <2>3, <2>10
  <2>11. \/ outcome.verdict \in {"unexpected", "refused"}
         \/ /\ outcome.verdict = "more" /\ header.more /\ outcome.transfer = filled
            /\ outcome.context = AfterOpen(server_security, record)
         \/ /\ outcome.verdict = "decoded" /\ ~header.more /\ outcome.transfer = Finished(filled)
            /\ outcome.context = AfterOpen(server_security, record)
         \/ /\ outcome.verdict = "undecodable" /\ outcome.transfer = filled
            /\ outcome.context = AfterOpen(server_security, record)
    <3>1. \/ outcome.verdict \in {"unexpected", "refused"}
          \/ /\ outcome.context = AfterOpen(server_security, record)
             /\ \/ MayOverflow(rep)
                \/ /\ outcome.verdict = "more" /\ header.more
                   /\ outcome.transfer = filled
                \/ /\ outcome.verdict = "decoded" /\ ~header.more
                   /\ outcome.transfer = Finished(filled)
                \/ /\ outcome.verdict = "undecodable"
                   /\ outcome.transfer = filled
      BY OutcomeCases, Zenon
    <3> HIDE DEF filled, rep, record
    <3> QED BY <2>6, <3>1, Zenon
  <2> QED BY <1>1, <2>8, <2>9, <2>10, <2>11, Zenon
<1>3. \/ outcome.verdict \in {"unexpected", "refused"}
      \/ /\ Expected(Current(header), header)
         /\ Opens(server_security, record, header)
  BY OutcomeCases
<1> QED BY <1>1, <1>2, <1>3, Zenon

-----------------------------------------------------------------------------
\* Induction.

LEMMA ServerSideStays ==
  ASSUME OrderInv, UNCHANGED <<transfer, server_security, accepted, decoded>>,
         requests \subseteq requests'
  PROVE  AcceptedOrdered' /\ AcceptedSent' /\ TransferOne' /\ DecodedOne'
<1>1. AcceptedOrdered' /\ TransferOne' /\ DecodedOne'
  BY DEF OrderInv, AcceptedOrdered, TransferOne, DecodedOne
<1>2. AcceptedSent'
  BY DEF OrderInv, AcceptedSent
<1> QED BY <1>1, <1>2

\* What was decoded stays decoded.
LEMMA AnswersStay ==
  ASSUME SuccessDecoded, ConfirmedInv, requests \subseteq requests',
         UNCHANGED <<responses, decoded>>
  PROVE  SuccessDecoded' /\ (confirmed' = confirmed => ConfirmedInv')
  BY DEF SuccessDecoded, ConfirmedInv, LastBlockDecoded, WindowDecoded

\* A malformed arrival is not answered with success.
LEMMA MalformedAnswer ==
  ASSUME SuccessDecoded, ConfirmedInv, NEW record, Respond(record, "4.00 Bad Request"),
         UNCHANGED <<requests, decoded, confirmed>>
  PROVE  SuccessDecoded' /\ ConfirmedInv'
<1> DEFINE response == [id |-> Id(record), code |-> "4.00 Bad Request"]
<1>1. responses' = responses \cup {response} /\ response.code \notin Successes
  BY DEF Respond, Successes
<1> HIDE DEF response
<1>2. SuccessDecoded'
  BY <1>1 DEF SuccessDecoded, LastBlockDecoded, WindowDecoded
<1>3. ConfirmedInv'
  BY DEF ConfirmedInv, WindowDecoded
<1> QED BY <1>2, <1>3

\* The window a node finishes was decoded: the request it waited for is the
\* one that was answered, and it is the last block.
LEMMA FinishDecoded ==
  ASSUME IInv, OneRequest, Waiting, SuccessDecoded, NodeFinish
  PROVE  WindowDecoded(<<node_boot, window_id>>)
<1>1. PICK code \in Successes : Answered(code)
  BY DEF NodeFinish
<1>2. PICK answered \in requests :
        Id(answered.record) = CurrentId /\ LastBlockDecoded(answered.record)
  BY <1>1 DEF Answered, SuccessDecoded
<1>3. PICK waited \in requests :
        /\ waited.record.sequence = client_security.tx_sequence - 1
        /\ waited.record.plaintext =
             [boot |-> node_boot, window |-> window_id, number |-> block_number, of |-> block_count,
              faint |-> faint]
  BY DEF NodeFinish, Waiting
<1>4. waited = answered
  <2>1. Id(waited.record) = CurrentId
    BY <1>3 DEF Id, CurrentId
  <2> QED BY <1>2, <2>1 DEF OneRequest
<1>5. block_number + 1 = block_count
  BY DEF NodeFinish, BlocksLeft, IInv, NodeInv, TypeOK
<1> QED BY <1>2, <1>3, <1>4, <1>5 DEF LastBlockDecoded

\* The answer to a block: when a success for a last block means that its window
\* was decoded, it is so for every answer.
LEMMA DeliverAnswers ==
  ASSUME IInv, SuccessDecoded, ConfirmedInv, NEW request \in requests, NEW header \in Headers,
         NEW outcome \in Outcomes(transfer, server_security, header, request.record),
         Respond(request.record, StatusCode(outcome.verdict)),
         decoded' = IF outcome.verdict = "decoded"
                    THEN Append(decoded, outcome.transfer.representation) ELSE decoded,
         UNCHANGED <<requests, confirmed>>,
         /\ StatusCode(outcome.verdict) \in Successes
         /\ request.record.plaintext.number + 1 = request.record.plaintext.of
         => /\ outcome.verdict = "decoded"
            /\ Whole(outcome.transfer.representation)
            /\ WindowOf(outcome.transfer.representation)
                 = <<request.record.plaintext.boot, request.record.plaintext.window>>
  PROVE  /\ SuccessDecoded' /\ ConfirmedInv'
         /\ \A i \in DOMAIN decoded : i \in DOMAIN decoded' /\ decoded'[i] = decoded[i]
         /\ \A i \in DOMAIN decoded' :
              i \in DOMAIN decoded \/ decoded'[i] = outcome.transfer.representation
<1> DEFINE record == request.record
           rep == outcome.transfer.representation
           response == [id |-> Id(record), code |-> StatusCode(outcome.verdict)]
           Last == record.plaintext.number + 1 = record.plaintext.of
           window == <<record.plaintext.boot, record.plaintext.window>>
<1>1. /\ \A i \in DOMAIN decoded : i \in DOMAIN decoded' /\ decoded'[i] = decoded[i]
      /\ \A i \in DOMAIN decoded' : i \in DOMAIN decoded \/ decoded'[i] = rep
      /\ outcome.verdict = "decoded" => \E i \in DOMAIN decoded' : decoded'[i] = rep
  <2>1. rep \in Seq(Pieces) /\ decoded \in Seq(Seq(Pieces))
    <3>1. outcome.transfer \in Transfers
      BY OutcomeFacts
    <3> QED BY <3>1 DEF Transfers, IInv, TypeOK
  <2>2. CASE outcome.verdict # "decoded"
    BY <2>2
  <2>3. CASE outcome.verdict = "decoded"
    <3> DEFINE m == Len(decoded)
    <3>1. decoded' = Append(decoded, rep) /\ m \in Nat /\ DOMAIN decoded = 1 .. m
      BY <2>1, <2>3
    <3>2. /\ DOMAIN decoded' = 1 .. m + 1 /\ decoded'[m + 1] = rep
          /\ \A i \in 1 .. m : decoded'[i] = decoded[i]
      BY <2>1, <3>1
    <3> HIDE DEF m, rep
    <3> QED BY <3>1, <3>2
  <2> QED BY <2>2, <2>3
<1>2. \A w : WindowDecoded(w) => WindowDecoded(w)'
  BY <1>1 DEF WindowDecoded
<1>3. response.code \in Successes /\ Last => WindowDecoded(window)'
  <2> SUFFICES ASSUME response.code \in Successes, Last PROVE WindowDecoded(window)'
    OBVIOUS
  <2>1. outcome.verdict = "decoded" /\ Whole(rep) /\ WindowOf(rep) = window
    OBVIOUS
  <2> QED BY <1>1, <2>1 DEF WindowDecoded
<1>4. responses' = responses \cup {response} /\ response.id = Id(record)
  BY DEF Respond
<1>5. response.code \in Successes => LastBlockDecoded(record)'
  BY <1>3 DEF LastBlockDecoded
<1> HIDE DEF response
<1>6. SuccessDecoded'
  <2>1. ASSUME NEW old \in responses, old.code \in Successes
        PROVE  \E q \in requests : Id(q.record) = old.id /\ LastBlockDecoded(q.record)'
    <3>1. PICK q \in requests : Id(q.record) = old.id /\ LastBlockDecoded(q.record)
      BY <2>1 DEF SuccessDecoded
    <3>2. LastBlockDecoded(q.record)'
      BY <1>2, <3>1 DEF LastBlockDecoded
    <3> QED BY <3>1, <3>2
  <2> QED BY <1>4, <1>5, <2>1 DEF SuccessDecoded
<1>7. ConfirmedInv'
  BY <1>2 DEF ConfirmedInv
<1> QED BY <1>1, <1>6, <1>7

\* The block the node waits for, once answered with success, was accepted.
LEMMA AnsweredAccepted ==
  ASSUME OrderInv, pc = "blocked", NEW code \in Successes, Answered(code)
  PROVE  \E i \in DOMAIN accepted :
           /\ accepted[i].sequence + 1 = client_security.tx_sequence
           /\ accepted[i].plaintext =
                [boot |-> node_boot, window |-> window_id, number |-> block_number, of |-> block_count,
             faint |-> faint]
<1>1. PICK i \in DOMAIN accepted : Id(accepted[i]) = CurrentId
  BY DEF Answered, OrderInv, SuccessAccepted
<1>2. PICK sent \in requests : sent.record = accepted[i]
  BY DEF OrderInv, AcceptedSent
<1>3. PICK waited \in requests :
        /\ waited.record.sequence = client_security.tx_sequence - 1
        /\ waited.record.plaintext =
             [boot |-> node_boot, window |-> window_id, number |-> block_number, of |-> block_count,
             faint |-> faint]
  BY DEF OrderInv, Waiting
<1>4. Id(waited.record) = CurrentId
  BY <1>3 DEF Id, CurrentId
<1>5. waited.record = accepted[i]
  BY <1>1, <1>2, <1>4 DEF OrderInv, OneRequest
<1>6. client_security.tx_sequence \in Nat
  BY DEF OrderInv, IInv, TypeOK, Contexts, SequenceNumbers
<1> QED BY <1>3, <1>5, <1>6

LEMMA SendBlockOrder ==
  ASSUME OrderInv, NEW count, NEW number, NEW scaleless,
         SendBlock(number, count, scaleless),
         number > 0 =>
           \E i \in DOMAIN accepted :
             /\ accepted[i].sequence + 1 = client_security.tx_sequence
             /\ accepted[i].plaintext.boot = node_boot
             /\ accepted[i].plaintext.window = window_id,
         UNCHANGED <<node_boot, window_id, serverVars, responses, faults, historyVars>>
  PROVE  /\ AcceptedOrdered' /\ OneRequest' /\ AcceptedSent' /\ SuccessAccepted' /\ Waiting'
         /\ Preceded' /\ TransferOne' /\ DecodedOne' /\ SuccessDecoded' /\ ConfirmedInv'
<1> DEFINE header == [token |-> window_id, number |-> number, more |-> number + 1 < count]
           piece == [boot |-> node_boot, window |-> window_id, number |-> number, of |-> count,
                     faint |-> scaleless]
           new == [header |-> header, record |-> Sealed(client_security, Aad(header), piece)]
<1>1. /\ requests' = requests \cup {new}
      /\ client_security' = AfterSeal(client_security)
      /\ block_number' = number /\ block_count' = count /\ faint' = scaleless
      /\ pc' = "blocked"
  BY DEF SendBlock
<1>2. /\ client_security \in Contexts /\ client_security.tx_sequence \in Nat
      /\ \A request \in requests : request.record.sequence \in Nat
  BY AcceptedTypes DEF OrderInv, IInv, TypeOK, Contexts, SequenceNumbers
<1>3. client_security'.tx_sequence - 1 = client_security.tx_sequence
  BY <1>1, <1>2 DEF AfterSeal, Contexts
<1>4. /\ new.record.plaintext = piece
      /\ new.record.sequence = client_security.tx_sequence
  BY DEF Sealed
<1>5. /\ piece.boot = node_boot /\ piece.window = window_id /\ piece.number = number
  OBVIOUS
<1> HIDE DEF new, header
<1>6. OneRequest'
  <2>1. \A request \in requests : Id(request.record) # Id(new.record)
    BY <1>2, <1>4, <1>5 DEF OrderInv, IInv, RequestsPast, Id
  <2> QED BY <1>1, <2>1 DEF OrderInv, OneRequest
<1>7. Waiting'
  BY <1>1, <1>3, <1>4 DEF Waiting
<1>8. Preceded'
  <2>1. number > 0 => \E i \in DOMAIN accepted : Precedes(accepted[i], new.record)
    BY <1>4, <1>5 DEF Precedes
  <2>2. accepted' = accepted
    BY DEF historyVars
  <2> HIDE DEF piece
  <2> QED BY <1>1, <1>4, <1>5, <2>1, <2>2 DEF OrderInv, Preceded
<1>9. SuccessAccepted' /\ SuccessDecoded' /\ ConfirmedInv'
  BY <1>1, AnswersStay DEF OrderInv, SuccessAccepted, historyVars
<1> QED BY <1>1, <1>6, <1>7, <1>8, <1>9, ServerSideStays DEF serverVars, historyVars

\* An accepted record goes behind everything accepted before.
LEMMA AcceptOrder ==
  ASSUME OrderInv, NEW request \in requests, NEW header,
         Opens(server_security, request.record, header),
         accepted' = Append(accepted, request.record),
         server_security' = AfterOpen(server_security, request.record),
         requests' = requests
  PROVE  /\ AcceptedOrdered' /\ AcceptedSent'
         /\ \A i \in DOMAIN accepted : i \in DOMAIN accepted' /\ accepted'[i] = accepted[i]
         /\ accepted' # <<>> /\ Len(accepted') \in DOMAIN accepted'
         /\ accepted'[Len(accepted')] = request.record
         /\ \A i \in DOMAIN accepted' : i \in DOMAIN accepted \/ accepted'[i] = request.record
<1> DEFINE record == request.record
           n == Len(accepted)
<1>1. /\ n \in Nat /\ DOMAIN accepted = 1 .. n /\ DOMAIN accepted' = 1 .. n + 1
      /\ Len(accepted') = n + 1 /\ accepted' # <<>>
      /\ accepted'[n + 1] = record
      /\ \A i \in 1 .. n : accepted'[i] = accepted[i]
      /\ \A i \in 1 .. n : accepted[i].sequence \in Nat
      /\ record.sequence \in Nat
  <2>1. record \in Records
    BY DEF OrderInv, IInv, TypeOK
  <2> QED BY <2>1, AcceptedTypes
<1>2. /\ server_security'.rx_initialized /\ server_security'.rx_highest = record.sequence
  BY DEF AfterOpen, OrderInv, IInv, TypeOK, Contexts
<1>3. \A i \in 1 .. n : accepted[i].sequence < record.sequence
  <2> SUFFICES ASSUME NEW i \in 1 .. n PROVE accepted[i].sequence < record.sequence
    OBVIOUS
  <2>1. n \in 1 .. n /\ accepted # <<>>
    BY <1>1
  <2>2. /\ server_security.rx_initialized
        /\ accepted[n].sequence = server_security.rx_highest
        /\ i < n => accepted[i].sequence < accepted[n].sequence
    BY <1>1, <2>1 DEF OrderInv, AcceptedOrdered
  <2>3. ~(record.sequence <= server_security.rx_highest)
    BY <2>2 DEF Opens, Replayed
  <2>4. accepted[i].sequence \in Nat /\ accepted[n].sequence \in Nat
    BY <1>1, <2>1
  <2> QED BY <1>1, <2>1, <2>2, <2>3, <2>4
<1>4. AcceptedOrdered'
  <2>1. ASSUME NEW i \in 1 .. n + 1, NEW j \in 1 .. n + 1, i < j
        PROVE  accepted'[i].sequence < accepted'[j].sequence
    <3>1. i \in 1 .. n
      BY <1>1, <2>1
    <3>2. CASE j = n + 1
      BY <1>1, <1>3, <3>1, <3>2
    <3>3. CASE j \in 1 .. n
      <4>1. accepted[i].sequence < accepted[j].sequence
        BY <1>1, <2>1, <3>1, <3>3 DEF OrderInv, AcceptedOrdered
      <4> QED BY <1>1, <3>1, <3>3, <4>1
    <3> QED BY <1>1, <3>2, <3>3
  <2> QED BY <1>1, <1>2, <2>1 DEF AcceptedOrdered
<1>5. AcceptedSent'
  <2> SUFFICES ASSUME NEW i \in 1 .. n + 1
               PROVE  \E sent \in requests : sent.record = accepted'[i]
    BY <1>1 DEF AcceptedSent
  <2>1. CASE i \in 1 .. n
    BY <1>1, <2>1 DEF OrderInv, AcceptedSent
  <2>2. CASE i = n + 1
    BY <1>1, <2>2
  <2> QED BY <1>1, <2>1, <2>2
<1> QED BY <1>1, <1>4, <1>5

LEMMA DeliverOrder ==
  ASSUME OrderInv, NEW request \in requests, NEW header \in Headers,
         Deliver(header, request.record)
  PROVE  /\ AcceptedOrdered' /\ OneRequest' /\ AcceptedSent' /\ SuccessAccepted' /\ Waiting'
         /\ Preceded' /\ TransferOne' /\ DecodedOne' /\ SuccessDecoded' /\ ConfirmedInv'
<1> DEFINE record == request.record
<1>1. PICK outcome \in Outcomes(transfer, server_security, header, record) :
        /\ transfer' = outcome.transfer
        /\ server_security' = outcome.context
        /\ Respond(record, StatusCode(outcome.verdict))
        /\ accepted' = IF outcome.verdict \in Authenticated
                       THEN Append(accepted, record) ELSE accepted
        /\ decoded' = IF outcome.verdict = "decoded"
                      THEN Append(decoded, outcome.transfer.representation) ELSE decoded
  BY DEF Deliver, Handle
<1> DEFINE rep == outcome.transfer.representation
<1>2. UNCHANGED <<nodeVars, requests, confirmed>>
  BY DEF Deliver
<1>3. OneRequest' /\ Waiting'
  BY <1>2 DEF OrderInv, OneRequest, Waiting, nodeVars
<1>4. outcome.verdict \in Verdicts
  BY OutcomeFacts DEF OrderInv
<1>5. /\ SuccessDecoded' /\ ConfirmedInv'
      /\ \A i \in DOMAIN decoded' : i \in DOMAIN decoded \/ decoded'[i] = rep
      /\ \A i \in DOMAIN decoded : decoded'[i] = decoded[i]
  <2>1. ASSUME StatusCode(outcome.verdict) \in Successes,
               record.plaintext.number + 1 = record.plaintext.of
        PROVE  /\ outcome.verdict = "decoded" /\ Whole(rep)
               /\ WindowOf(rep) = <<record.plaintext.boot, record.plaintext.window>>
    <3>1. outcome.verdict \in {"more", "decoded"}
      BY <1>4, <2>1 DEF Verdicts, Authenticated, StatusCode, Successes
    <3>2. /\ outcome.verdict = "decoded"
          /\ rep # <<>> /\ rep[Len(rep)] = record.plaintext
          /\ OneWindow(rep) /\ Whole(rep)
      BY <2>1, <3>1, OrderOutcome DEF Authenticated
    <3>3. rep \in Seq(Pieces)
      <4>1. outcome.transfer \in Transfers
        BY OutcomeFacts DEF OrderInv
      <4> QED BY <4>1 DEF Transfers
    <3>4. 1 \in DOMAIN rep /\ Len(rep) \in DOMAIN rep
      BY <3>2, <3>3
    <3>5. /\ rep[1].boot = record.plaintext.boot
          /\ rep[1].window = record.plaintext.window
      BY <3>2, <3>4 DEF OneWindow
    <3> QED BY <3>2, <3>5 DEF WindowOf
  <2> QED BY <1>1, <1>2, <2>1, DeliverAnswers DEF OrderInv
<1>6. CASE /\ outcome.verdict \notin Authenticated
           /\ outcome.context = server_security
           /\ rep = <<>> \/ outcome.transfer = transfer
  <2>1. accepted' = accepted /\ decoded' = decoded /\ server_security' = server_security
    BY <1>1, <1>6 DEF Authenticated
  <2>2. AcceptedOrdered' /\ AcceptedSent' /\ DecodedOne' /\ Preceded'
    BY <1>2, <2>1 DEF OrderInv, AcceptedOrdered, AcceptedSent, DecodedOne, Preceded
  <2>3. TransferOne'
    <3>1. CASE rep = <<>>
      BY <1>1, <3>1 DEF TransferOne, OneWindow
    <3>2. CASE outcome.transfer = transfer
      BY <1>1, <2>1, <3>2 DEF OrderInv, TransferOne
    <3> QED BY <1>6, <3>1, <3>2
  <2>4. SuccessAccepted'
    <3>1. StatusCode(outcome.verdict) \notin Successes
      BY <1>4, <1>6 DEF Verdicts, Authenticated, StatusCode, Successes
    <3> DEFINE code == StatusCode(outcome.verdict)
    <3>2. responses' = responses \cup {[id |-> Id(record), code |-> code]}
      BY <1>1 DEF Respond
    <3> HIDE DEF code
    <3> QED BY <2>1, <3>1, <3>2 DEF OrderInv, SuccessAccepted, code
  <2> QED BY <1>3, <1>5, <2>2, <2>3, <2>4
<1>7. CASE /\ outcome.verdict \in {"more", "decoded", "undecodable"}
           /\ Opens(server_security, record, header)
           /\ outcome.context = AfterOpen(server_security, record)
           /\ rep # <<>> /\ rep[Len(rep)] = record.plaintext
           /\ OneWindow(rep)
  <2>1. /\ accepted' = Append(accepted, record)
        /\ server_security' = AfterOpen(server_security, record)
    BY <1>1, <1>7 DEF Authenticated
  <2>2. /\ AcceptedOrdered' /\ AcceptedSent'
        /\ \A i \in DOMAIN accepted : i \in DOMAIN accepted' /\ accepted'[i] = accepted[i]
        /\ accepted' # <<>> /\ Len(accepted') \in DOMAIN accepted'
        /\ accepted'[Len(accepted')] = record
        /\ \A i \in DOMAIN accepted' : i \in DOMAIN accepted \/ accepted'[i] = record
    BY <1>2, <1>7, <2>1, AcceptOrder
  <2>3. TransferOne'
    BY <1>1, <1>7, <2>2 DEF TransferOne
  <2>4. SuccessAccepted'
    <3> DEFINE response == [id |-> Id(record), code |-> StatusCode(outcome.verdict)]
    <3>1. responses' = responses \cup {response} /\ response.id = Id(record)
      BY <1>1 DEF Respond
    <3> HIDE DEF response
    <3> QED BY <2>2, <3>1 DEF OrderInv, SuccessAccepted
  <2>5. Preceded'
    BY <1>2, <2>2 DEF OrderInv, Preceded
  <2>6. DecodedOne'
    BY <1>5, <1>7 DEF OrderInv, DecodedOne
  <2> QED BY <1>3, <1>5, <2>2, <2>3, <2>4, <2>5, <2>6
<1> QED BY <1>6, <1>7, OrderOutcome

LEMMA EndWindowOrder ==
  ASSUME OrderInv, EndWindow, ConfirmedInv', UNCHANGED <<accepted, decoded>>
  PROVE  /\ AcceptedOrdered' /\ OneRequest' /\ AcceptedSent' /\ SuccessAccepted' /\ Waiting'
         /\ Preceded' /\ TransferOne' /\ DecodedOne' /\ SuccessDecoded' /\ ConfirmedInv'
<1> USE DEF EndWindow
<1>1. OneRequest' /\ SuccessAccepted' /\ SuccessDecoded' /\ Preceded'
  BY AnswersStay DEF OrderInv, OneRequest, SuccessAccepted, Preceded
<1>2. Waiting'
  BY DEF Waiting
<1> QED BY <1>1, <1>2, ServerSideStays DEF serverVars

LEMMA InitOrder == Init => OrderInv
<1> SUFFICES ASSUME Init PROVE OrderInv
  OBVIOUS
<1>1. IInv
  BY InitIInv
<1>2. AcceptedOrdered /\ OneRequest /\ AcceptedSent /\ SuccessAccepted /\ Waiting /\ Preceded
  BY DEF Init, AcceptedOrdered, OneRequest, AcceptedSent, SuccessAccepted, Waiting, Preceded
<1>3. TransferOne /\ DecodedOne /\ SuccessDecoded /\ ConfirmedInv
  BY DEF Init, TransferOne, IdleTransfer, OneWindow, DecodedOne, SuccessDecoded, ConfirmedInv
<1> QED BY <1>1, <1>2, <1>3 DEF OrderInv

LEMMA NextOrder == MaxServerReboots = 0 /\ OrderInv /\ [Next]_vars => OrderInv'
<1> SUFFICES ASSUME MaxServerReboots = 0, OrderInv, [Next]_vars PROVE OrderInv'
  OBVIOUS
<1>1. IInv'
  BY NextIInv DEF OrderInv
<1> SUFFICES /\ AcceptedOrdered' /\ OneRequest' /\ AcceptedSent' /\ SuccessAccepted' /\ Waiting'
             /\ Preceded' /\ TransferOne' /\ DecodedOne' /\ SuccessDecoded' /\ ConfirmedInv'
  BY <1>1 DEF OrderInv
<1>2. CASE NodeStart
  <2>1. PICK count \in 1 .. MaxBlocks, scaleless \in BOOLEAN : SendBlock(0, count, scaleless)
    BY <1>2 DEF NodeStart
  <2>2. UNCHANGED <<node_boot, window_id, serverVars, responses, faults, historyVars>>
    BY <1>2 DEF NodeStart
  <2>3. ~(0 > 0)
    OBVIOUS
  <2> QED BY <2>1, <2>2, <2>3, SendBlockOrder
<1>3. CASE NodeNextBlock
  <2>1. /\ pc = "blocked" /\ SendBlock(block_number + 1, block_count, faint)
        /\ UNCHANGED <<node_boot, window_id, serverVars, responses, faults, historyVars>>
        /\ \E code \in Successes : Answered(code)
    BY <1>3 DEF NodeNextBlock
  <2>2. \E i \in DOMAIN accepted :
          /\ accepted[i].sequence + 1 = client_security.tx_sequence
          /\ accepted[i].plaintext.boot = node_boot
          /\ accepted[i].plaintext.window = window_id
    BY <2>1, AnsweredAccepted
  <2> QED BY <2>1, <2>2, SendBlockOrder
<1>4. CASE NodeFinish
  <2>1. /\ pc = "blocked" /\ EndWindow /\ UNCHANGED <<accepted, decoded>>
        /\ confirmed' = confirmed \cup {<<node_boot, window_id>>}
    BY <1>4 DEF NodeFinish
  <2>3. WindowDecoded(<<node_boot, window_id>>)
    BY <1>4, FinishDecoded DEF OrderInv
  <2>4. \A window \in confirmed' : WindowDecoded(window)
    BY <2>1, <2>3 DEF OrderInv, ConfirmedInv
  <2>5. ConfirmedInv'
    BY <2>1, <2>4 DEF ConfirmedInv, WindowDecoded
  <2> QED BY <2>1, <2>5, EndWindowOrder
<1>5. CASE NodeGiveUp
  BY <1>5, EndWindowOrder, AnswersStay DEF NodeGiveUp, EndWindow, historyVars, OrderInv
<1>6. CASE NodeTimeout
  BY <1>6, EndWindowOrder, AnswersStay DEF NodeTimeout, EndWindow, historyVars, OrderInv
<1>7. CASE NodeReboot
  <2>1. OneRequest' /\ SuccessAccepted' /\ Preceded' /\ Waiting'
    BY <1>7 DEF NodeReboot, OrderInv, OneRequest, SuccessAccepted, Preceded, Waiting,
       networkVars, historyVars
  <2> QED BY <1>7, <2>1, ServerSideStays, AnswersStay
          DEF NodeReboot, serverVars, networkVars, historyVars, OrderInv
<1>8. CASE ServerReboot
  BY <1>8 DEF ServerReboot, OrderInv, IInv, TypeOK
<1>9. CASE Arrive \/ ArriveStray \/ ArriveDamaged
  <2>1. PICK request \in requests, header \in Headers : Deliver(header, request.record)
    <3>1. \A request \in requests : request.header \in Headers
      BY DEF OrderInv, IInv, TypeOK
    <3> QED BY <1>9, <3>1 DEF Arrive, ArriveStray, ArriveDamaged
  <2> QED BY <2>1, DeliverOrder
<1>10. CASE ArriveMalformed
  <2>1. PICK request \in requests :
           /\ Respond(request.record, "4.00 Bad Request")
           /\ UNCHANGED <<nodeVars, serverVars, requests, historyVars>>
    BY <1>10 DEF ArriveMalformed
  <2>2. OneRequest' /\ Waiting' /\ Preceded'
    BY <2>1 DEF OrderInv, OneRequest, Waiting, Preceded, nodeVars, historyVars
  <2>3. SuccessAccepted'
    <3> DEFINE response == [id |-> Id(request.record), code |-> "4.00 Bad Request"]
    <3>1. responses' = responses \cup {response} /\ response.code \notin Successes
      BY <2>1 DEF Respond, Successes
    <3> HIDE DEF response
    <3> QED BY <2>1, <3>1 DEF OrderInv, SuccessAccepted, historyVars
  <2>4. SuccessDecoded' /\ ConfirmedInv'
    BY <2>1, MalformedAnswer DEF OrderInv, historyVars
  <2> QED BY <2>1, <2>2, <2>3, <2>4, ServerSideStays DEF serverVars, historyVars
<1>11. CASE NodeSkip \/ UNCHANGED vars
  <2>1. UNCHANGED <<nodeVars, serverVars, requests, responses, historyVars>>
    BY <1>11 DEF NodeSkip, vars, networkVars
  <2>2. OneRequest' /\ Waiting' /\ Preceded' /\ SuccessAccepted'
    BY <2>1 DEF OrderInv, OneRequest, Waiting, Preceded, SuccessAccepted, nodeVars, historyVars
  <2> QED BY <2>1, <2>2, ServerSideStays, AnswersStay DEF serverVars, historyVars, OrderInv
<1> QED
  BY <1>2, <1>3, <1>4, <1>5, <1>6, <1>7, <1>8, <1>9, <1>10, <1>11
  DEF Next, NodeStep, OutOfWindows

LEMMA SpecOrder == MaxServerReboots = 0 => (Spec => []OrderInv)
<1> SUFFICES ASSUME MaxServerReboots = 0 PROVE Spec => []OrderInv
  OBVIOUS
<1>1. OrderInv /\ [Next]_vars => OrderInv'
  BY NextOrder
<1> QED BY <1>1, InitOrder, PTL DEF Spec

-----------------------------------------------------------------------------
\* The theorems.

\* What README.md:103-104 says of telemetry_post_handler holds as long as the
\* server does not reboot: no record is accepted twice.
THEOREM AcceptedOnce == MaxServerReboots = 0 => (Spec => []ReplaysRejected)
<1> SUFFICES ASSUME MaxServerReboots = 0 PROVE Spec => []ReplaysRejected
  OBVIOUS
<1>1. OrderInv => ReplaysRejected
  <2> SUFFICES ASSUME OrderInv, NEW i \in DOMAIN accepted, NEW j \in DOMAIN accepted,
                      accepted[i] = accepted[j]
               PROVE  i = j
    BY DEF ReplaysRejected
  <2>1. /\ i \in Nat /\ j \in Nat
        /\ accepted[i].sequence \in Nat /\ accepted[j].sequence \in Nat
    BY AcceptedTypes
  <2>2. /\ i < j => accepted[i].sequence < accepted[j].sequence
        /\ j < i => accepted[j].sequence < accepted[i].sequence
    BY DEF OrderInv, AcceptedOrdered
  <2> QED BY <2>1, <2>2
<1> QED BY <1>1, SpecOrder, PTL

\* While the server does not reboot, telemetry_post_handler decodes complete
\* representations of one window of one boot only, although a rebooted node
\* reuses its tokens and its sequence numbers under the same key.
THEOREM DecodingWholeAcrossNodeReboots == MaxServerReboots = 0 => (Spec => []DecodedWhole)
<1> SUFFICES ASSUME MaxServerReboots = 0 PROVE Spec => []DecodedWhole
  OBVIOUS
<1>1. OrderInv => DecodedWhole
  <2> SUFFICES ASSUME OrderInv, NEW i \in DOMAIN decoded PROVE Whole(decoded[i])
    BY DEF DecodedWhole
  <2>1. decoded[i] \in Seq(Pieces) /\ DecodedOK(decoded[i]) /\ OneWindow(decoded[i])
    BY DEF OrderInv, IInv, TypeOK, DecodedInv, DecodedOne
  <2> QED BY <2>1, OneIsWhole DEF OrderInv
<1> QED BY <1>1, SpecOrder, PTL

\* While the server does not reboot, a window whose every block was answered
\* with a 2.xx response (response_handler) was decoded, complete.
THEOREM ConfirmedMeansDecoded == MaxServerReboots = 0 => (Spec => []ConfirmedDecoded)
<1> SUFFICES ASSUME MaxServerReboots = 0 PROVE Spec => []ConfirmedDecoded
  OBVIOUS
<1>1. OrderInv => ConfirmedDecoded
  BY DEF OrderInv, ConfirmedInv, ConfirmedDecoded, WindowDecoded
<1> QED BY <1>1, SpecOrder, PTL

-----------------------------------------------------------------------------
\* The refinement of TelemetryService: a decoded upload is Deliver, NodeFinish
\* is Confirm, everything else a stutter.

\* Within one boot of the node windows, and blocks within a window, rise with
\* the sequence numbers they are sealed under.
RequestsRising ==
  \A r1, r2 \in requests :
     /\ r1.record.plaintext.boot = r2.record.plaintext.boot
     /\ r1.record.sequence < r2.record.sequence
     => /\ r1.record.plaintext.window <= r2.record.plaintext.window
        /\ r1.record.plaintext.window = r2.record.plaintext.window
             => r1.record.plaintext.number < r2.record.plaintext.number

\* Of the window it is uploading, the node has sent no block past the current.
SentUpTo ==
  pc = "blocked" =>
    \A request \in requests :
       /\ request.record.plaintext.boot = node_boot
       /\ request.record.plaintext.window = window_id
       => request.record.plaintext.number <= block_number

\* What was decoded ends with a block that was accepted.
DecodedAccepted ==
  \A i \in DOMAIN decoded :
    \E k \in DOMAIN accepted : accepted[k].plaintext = decoded[i][Len(decoded[i])]

ServiceInv == RequestsRising /\ SentUpTo /\ DecodedAccepted

LEMMA SendBlockService ==
  ASSUME OrderInv, ServiceInv, NEW count, NEW number \in Nat, NEW scaleless,
         SendBlock(number, count, scaleless),
         \A request \in requests :
            /\ request.record.plaintext.boot = node_boot
            /\ request.record.plaintext.window = window_id
            => request.record.plaintext.number < number,
         UNCHANGED <<node_boot, window_id, serverVars, responses, faults, historyVars>>
  PROVE  ServiceInv'
<1> DEFINE header == [token |-> window_id, number |-> number, more |-> number + 1 < count]
           piece == [boot |-> node_boot, window |-> window_id, number |-> number, of |-> count,
                     faint |-> scaleless]
           new == [header |-> header, record |-> Sealed(client_security, Aad(header), piece)]
<1>1. /\ requests' = requests \cup {new}
      /\ block_number' = number /\ pc' = "blocked"
  BY DEF SendBlock
<1>2. /\ new.record.plaintext.boot = node_boot /\ new.record.plaintext.window = window_id
      /\ new.record.plaintext.number = number
      /\ new.record.sequence = client_security.tx_sequence
  BY DEF Sealed
<1> HIDE DEF new, header, piece
<1>3. ASSUME NEW request \in requests, request.record.plaintext.boot = node_boot
      PROVE  /\ request.record.sequence < client_security.tx_sequence
             /\ request.record.plaintext.window <= window_id
  BY <1>3 DEF OrderInv, IInv, RequestsPast
<1>4. /\ client_security.tx_sequence \in Nat
      /\ \A request \in requests :
            request.record.sequence \in Nat /\ request.record.plaintext.number \in Nat
  <2>1. /\ client_security \in Contexts
        /\ \A request \in requests : request.record.plaintext \in Pieces
    BY DEF OrderInv, IInv, TypeOK, Records
  <2> QED BY <2>1, AcceptedTypes DEF Contexts, SequenceNumbers, Pieces
<1>5. RequestsRising'
  <2> SUFFICES ASSUME NEW r1 \in requests', NEW r2 \in requests',
                      r1.record.plaintext.boot = r2.record.plaintext.boot,
                      r1.record.sequence < r2.record.sequence
               PROVE  /\ r1.record.plaintext.window <= r2.record.plaintext.window
                      /\ r1.record.plaintext.window = r2.record.plaintext.window
                           => r1.record.plaintext.number < r2.record.plaintext.number
    BY DEF RequestsRising
  <2>1. CASE r1 \in requests /\ r2 \in requests
    BY <2>1 DEF ServiceInv, RequestsRising
  <2>2. CASE r1 \in requests /\ r2 = new
    BY <1>2, <1>3, <2>2
  <2>3. CASE r1 = new
    <3>1. \A r \in requests' : r.record.plaintext.boot = node_boot
                                => ~(client_security.tx_sequence < r.record.sequence)
      BY <1>1, <1>2, <1>3, <1>4
    <3> QED BY <1>2, <2>3, <3>1
  <2> QED BY <1>1, <2>1, <2>2, <2>3
<1>6. SentUpTo'
  BY <1>1, <1>2, <1>4 DEF SentUpTo
<1>7. DecodedAccepted'
  BY DEF historyVars, ServiceInv, DecodedAccepted
<1> QED BY <1>5, <1>6, <1>7 DEF ServiceInv

\* What is delivered, as the refinement mapping reads it.
Delivered == [i \in DOMAIN decoded |-> WindowOf(decoded[i])]

\* A window that is decoded is newer than every one of its boot decoded before:
\* their last blocks were accepted earlier, so under lower sequence numbers.
LEMMA DecodedNewest ==
  ASSUME OrderInv, ServiceInv, NEW request \in requests,
         request.record.plaintext.number + 1 = request.record.plaintext.of,
         \A k \in DOMAIN accepted : accepted[k].sequence < request.record.sequence,
         NEW i \in DOMAIN decoded,
         WindowOf(decoded[i])[1] = request.record.plaintext.boot
  PROVE  WindowOf(decoded[i])[2] < request.record.plaintext.window
<1> DEFINE piece == request.record.plaintext
           n == Len(decoded[i])
           last == decoded[i][n]
<1>1. /\ decoded[i] \in Seq(Pieces) /\ DecodedOK(decoded[i]) /\ OneWindow(decoded[i])
  BY DEF OrderInv, IInv, TypeOK, DecodedInv, DecodedOne
<1>2. /\ 1 \in DOMAIN decoded[i] /\ n \in DOMAIN decoded[i] /\ n \in Nat
      /\ last.number = n - 1 /\ last.of = n
  BY <1>1 DEF DecodedOK, InSequence
<1>3. last.boot = piece.boot /\ WindowOf(decoded[i])[2] = last.window
  BY <1>1, <1>2 DEF OneWindow, WindowOf
<1>4. PICK k \in DOMAIN accepted : accepted[k].plaintext = last
  BY DEF ServiceInv, DecodedAccepted
<1>5. PICK sent \in requests : sent.record = accepted[k]
  BY DEF OrderInv, AcceptedSent
<1> HIDE DEF last
<1>6. /\ last.window <= piece.window
      /\ last.window = piece.window => last.number < piece.number
  BY <1>3, <1>4, <1>5 DEF ServiceInv, RequestsRising
<1>7. last.window = piece.window => last.of = piece.of
  BY <1>3, <1>4, <1>5 DEF OrderInv, IInv, OneCut
<1>8. /\ piece.number \in Nat /\ piece.of \in Nat /\ piece.window \in Nat
      /\ last.window \in Nat
  <2>1. \A r \in requests : r.record.plaintext \in Pieces
    BY DEF OrderInv, IInv, TypeOK, Records
  <2> QED BY <1>4, <1>5, <2>1 DEF Pieces, Windows
<1> QED BY <1>2, <1>3, <1>6, <1>7, <1>8

LEMMA DeliverService ==
  ASSUME OrderInv, ServiceInv, NEW request \in requests, NEW header \in Headers,
         Deliver(header, request.record)
  PROVE  /\ DecodedAccepted'
         /\ \/ UNCHANGED <<decoded, confirmed>>
            \/ Service!Deliver(request.record.plaintext.boot, request.record.plaintext.window)
<1> DEFINE record == request.record
<1>1. PICK outcome \in Outcomes(transfer, server_security, header, record) :
        /\ transfer' = outcome.transfer
        /\ server_security' = outcome.context
        /\ Respond(record, StatusCode(outcome.verdict))
        /\ accepted' = IF outcome.verdict \in Authenticated
                       THEN Append(accepted, record) ELSE accepted
        /\ decoded' = IF outcome.verdict = "decoded"
                      THEN Append(decoded, outcome.transfer.representation) ELSE decoded
  BY DEF Deliver, Handle
<1> DEFINE rep == outcome.transfer.representation
           m == Len(decoded)
<1>2. UNCHANGED <<requests, confirmed>>
  BY DEF Deliver
<1>3. CASE outcome.verdict \notin Authenticated
  <2>1. accepted' = accepted /\ decoded' = decoded
    BY <1>1, <1>3 DEF Authenticated
  <2> QED BY <1>2, <2>1 DEF ServiceInv, DecodedAccepted
<1>4. CASE /\ outcome.verdict \in {"more", "decoded", "undecodable"}
           /\ Opens(server_security, record, header)
           /\ outcome.context = AfterOpen(server_security, record)
           /\ rep # <<>> /\ rep[Len(rep)] = record.plaintext
           /\ OneWindow(rep)
           /\ outcome.verdict = "decoded" => Whole(rep)
  <2>1. /\ AcceptedOrdered'
        /\ \A k \in DOMAIN accepted : k \in DOMAIN accepted' /\ accepted'[k] = accepted[k]
        /\ Len(accepted') \in DOMAIN accepted'
        /\ accepted'[Len(accepted')] = record
    BY <1>1, <1>2, <1>4, AcceptOrder DEF Authenticated
  <2>2. CASE outcome.verdict # "decoded"
    <3>1. decoded' = decoded
      BY <1>1, <2>2
    <3> QED BY <1>2, <2>1, <3>1 DEF ServiceInv, DecodedAccepted
  <2>3. CASE outcome.verdict = "decoded"
    <3>1. rep \in Seq(Pieces) /\ decoded \in Seq(Seq(Pieces))
      <4>1. outcome.transfer \in Transfers
        BY OutcomeFacts DEF OrderInv
      <4> QED BY <4>1 DEF Transfers, OrderInv, IInv, TypeOK
    <3>2. /\ m \in Nat /\ DOMAIN decoded = 1 .. m /\ DOMAIN decoded' = 1 .. m + 1
          /\ decoded'[m + 1] = rep /\ \A i \in 1 .. m : decoded'[i] = decoded[i]
      BY <1>1, <2>3, <3>1
    <3>3. /\ 1 \in DOMAIN rep /\ Len(rep) \in DOMAIN rep
          /\ record.plaintext.number + 1 = record.plaintext.of
      <4>1. rep \in Seq(Pieces) /\ rep # <<>> /\ rep[Len(rep)] = record.plaintext /\ Whole(rep)
        BY <1>4, <2>3, <3>1
      <4> HIDE DEF rep
      <4>2. 1 \in DOMAIN rep /\ Len(rep) \in DOMAIN rep /\ Len(rep) \in Nat
        BY <4>1
      <4>3. rep[Len(rep)].number = Len(rep) - 1 /\ rep[Len(rep)].of = Len(rep)
        BY <4>1, <4>2 DEF Whole
      <4> QED BY <4>1, <4>2, <4>3
    <3>4. WindowOf(rep) = <<record.plaintext.boot, record.plaintext.window>>
      <4>1. rep[1].boot = record.plaintext.boot /\ rep[1].window = record.plaintext.window
        BY <1>4, <3>3 DEF OneWindow
      <4> QED BY <4>1 DEF WindowOf
    <3> HIDE DEF m, rep
    <3>5. DecodedAccepted'
      <4> SUFFICES ASSUME NEW i \in 1 .. m + 1
                   PROVE  \E k \in DOMAIN accepted' :
                            accepted'[k].plaintext = decoded'[i][Len(decoded'[i])]
        BY <3>2 DEF DecodedAccepted
      <4>1. CASE i \in 1 .. m
        <5>1. PICK k \in DOMAIN accepted : accepted[k].plaintext = decoded[i][Len(decoded[i])]
          BY <3>2, <4>1 DEF ServiceInv, DecodedAccepted
        <5> QED BY <2>1, <3>2, <4>1, <5>1
      <4>2. CASE i = m + 1
        BY <1>4, <2>1, <3>2, <4>2
      <4> QED BY <3>2, <4>1, <4>2
    <3>6. \A k \in DOMAIN accepted : accepted[k].sequence < record.sequence
      <4> SUFFICES ASSUME NEW k \in DOMAIN accepted PROVE accepted[k].sequence < record.sequence
        OBVIOUS
      <4>1. /\ server_security.rx_initialized
            /\ accepted[k].sequence <= server_security.rx_highest
        <5>1. /\ k \in 1 .. Len(accepted) /\ Len(accepted) \in Nat /\ accepted # <<>>
              /\ \A i \in 1 .. Len(accepted) : accepted[i].sequence \in Nat
          BY AcceptedTypes
        <5>2. k = Len(accepted) \/ k < Len(accepted)
          BY <5>1
        <5> QED BY <5>1, <5>2 DEF OrderInv, AcceptedOrdered
      <4>2. ~(record.sequence <= server_security.rx_highest)
        BY <1>4, <4>1 DEF Opens, Replayed
      <4> QED BY <4>1, <4>2, AcceptedTypes
    <3>7. ASSUME NEW i \in DOMAIN Delivered, Delivered[i][1] = record.plaintext.boot
          PROVE  Delivered[i][2] < record.plaintext.window
      BY <3>3, <3>6, <3>7, DecodedNewest DEF Delivered
    <3>8. Delivered' = Append(Delivered, <<record.plaintext.boot, record.plaintext.window>>)
      BY <3>2, <3>4 DEF Delivered
    <3>9. Service!Deliver(record.plaintext.boot, record.plaintext.window) <=>
            /\ \A i \in DOMAIN Delivered :
                 Delivered[i][1] = record.plaintext.boot
                   => Delivered[i][2] < record.plaintext.window
            /\ Delivered' = Append(Delivered, <<record.plaintext.boot, record.plaintext.window>>)
            /\ UNCHANGED confirmed
      BY DEF Service!Deliver, Delivered
    <3> QED BY <1>2, <3>5, <3>7, <3>8, <3>9
  <2> QED BY <1>4, <2>2, <2>3
<1> QED BY <1>3, <1>4, OrderOutcome

LEMMA FinishService ==
  ASSUME OrderInv, NodeFinish
  PROVE  Service!Confirm(node_boot, window_id)
<1>1. decoded' = decoded /\ confirmed' = confirmed \cup {<<node_boot, window_id>>}
  BY DEF NodeFinish
<1>3. WindowDecoded(<<node_boot, window_id>>)
  BY FinishDecoded DEF OrderInv
<1>4. Service!Contains(Delivered, <<node_boot, window_id>>)
  BY <1>3 DEF WindowDecoded, Delivered, Service!Contains
<1>5. Service!Confirm(node_boot, window_id) <=>
        /\ Service!Contains(Delivered, <<node_boot, window_id>>)
        /\ confirmed' = confirmed \cup {<<node_boot, window_id>>}
        /\ UNCHANGED Delivered
  BY DEF Service!Confirm, Delivered
<1> QED BY <1>1, <1>4, <1>5 DEF Delivered

LEMMA InitService == Init => ServiceInv /\ Service!ServiceInit
  BY DEF Init, ServiceInv, RequestsRising, SentUpTo, DecodedAccepted, Service!ServiceInit

LEMMA NextService ==
  MaxServerReboots = 0 /\ OrderInv /\ ServiceInv /\ [Next]_vars
    => ServiceInv' /\ [Service!ServiceNext]_(Service!serviceVars)
<1> SUFFICES ASSUME MaxServerReboots = 0, OrderInv, ServiceInv, [Next]_vars
             PROVE  ServiceInv' /\ [Service!ServiceNext]_(Service!serviceVars)
  OBVIOUS
<1>1. ASSUME UNCHANGED <<decoded, confirmed>> PROVE UNCHANGED Service!serviceVars
  BY <1>1 DEF Service!serviceVars
<1>2. CASE NodeStart
  <2>1. PICK count \in 1 .. MaxBlocks, scaleless \in BOOLEAN : SendBlock(0, count, scaleless)
    BY <1>2 DEF NodeStart
  <2>2. /\ pc = "wait"
        /\ UNCHANGED <<node_boot, window_id, serverVars, responses, faults, historyVars>>
    BY <1>2 DEF NodeStart
  <2>3. \A request \in requests :
          ~(request.record.plaintext.boot = node_boot /\ request.record.plaintext.window = window_id)
    BY <2>2 DEF OrderInv, IInv, RequestsPast
  <2> QED BY <1>1, <2>1, <2>2, <2>3, SendBlockService DEF historyVars
<1>3. CASE NodeNextBlock
  <2>1. /\ pc = "blocked" /\ SendBlock(block_number + 1, block_count, faint)
        /\ UNCHANGED <<node_boot, window_id, serverVars, responses, faults, historyVars>>
    BY <1>3 DEF NodeNextBlock
  <2>2. /\ block_number \in Nat /\ block_number + 1 \in Nat
        /\ \A request \in requests : request.record.plaintext.number \in Nat
    BY DEF OrderInv, IInv, TypeOK, Records, Pieces
  <2>3. \A request \in requests :
          /\ request.record.plaintext.boot = node_boot
          /\ request.record.plaintext.window = window_id
          => request.record.plaintext.number < block_number + 1
    BY <2>1, <2>2 DEF ServiceInv, SentUpTo
  <2> QED BY <1>1, <2>1, <2>2, <2>3, SendBlockService DEF historyVars
<1>4. ASSUME pc' = "wait", UNCHANGED <<requests, accepted, decoded>> PROVE ServiceInv'
  BY <1>4 DEF ServiceInv, RequestsRising, SentUpTo, DecodedAccepted
<1>5. CASE NodeFinish
  <2>1. node_boot \in Boots /\ window_id \in Windows
    BY <1>5 DEF NodeFinish, OrderInv, IInv, TypeOK, NodeInv, Windows
  <2>2. Service!ServiceNext
    BY <1>5, <2>1, FinishService DEF Service!ServiceNext
  <2> QED BY <1>4, <1>5, <2>2 DEF NodeFinish, EndWindow
<1>6. CASE NodeGiveUp \/ NodeTimeout \/ NodeReboot
  BY <1>1, <1>4, <1>6
  DEF NodeGiveUp, NodeTimeout, NodeReboot, EndWindow, networkVars, historyVars
<1>7. CASE ServerReboot
  BY <1>7 DEF ServerReboot, OrderInv, IInv, TypeOK
<1>8. CASE Arrive \/ ArriveStray \/ ArriveDamaged
  <2>1. PICK request \in requests, header \in Headers : Deliver(header, request.record)
    <3>1. \A request \in requests : request.header \in Headers
      BY DEF OrderInv, IInv, TypeOK
    <3> QED BY <1>8, <3>1 DEF Arrive, ArriveStray, ArriveDamaged
  <2>2. RequestsRising' /\ SentUpTo'
    BY <2>1 DEF Deliver, nodeVars, ServiceInv, RequestsRising, SentUpTo
  <2>3. request.record.plaintext.boot \in Boots /\ request.record.plaintext.window \in Windows
    BY DEF OrderInv, IInv, TypeOK, Records, Pieces
  <2> QED BY <1>1, <2>1, <2>2, <2>3, DeliverService DEF ServiceInv, Service!ServiceNext
<1>9. CASE ArriveMalformed \/ NodeSkip \/ UNCHANGED vars
  <2>1. UNCHANGED <<nodeVars, requests, historyVars>>
    BY <1>9 DEF ArriveMalformed, NodeSkip, vars, networkVars
  <2> QED BY <1>1, <2>1
          DEF ServiceInv, RequestsRising, SentUpTo, DecodedAccepted, nodeVars, historyVars
<1> QED BY <1>2, <1>3, <1>5, <1>6, <1>7, <1>8, <1>9 DEF Next, NodeStep, OutOfWindows

\* While the server does not reboot the system delivers the windows of each
\* boot of the node at most once and in the order they were sampled, and the
\* node takes no undelivered window for uploaded.
THEOREM ImplementsService == MaxServerReboots = 0 => (Spec => ServiceSpec)
<1> SUFFICES ASSUME MaxServerReboots = 0 PROVE Spec => ServiceSpec
  OBVIOUS
<1>1. OrderInv /\ [Next]_vars => OrderInv'
  BY NextOrder
<1>2. OrderInv /\ ServiceInv /\ [Next]_vars
        => ServiceInv' /\ [Service!ServiceNext]_(Service!serviceVars)
  BY NextService
<1> QED BY <1>1, <1>2, InitOrder, InitService, PTL
        DEF Spec, ServiceSpec, Service!ServiceSpec

-----------------------------------------------------------------------------
(***************************************************************************)
(* The server that reboots, and a node that does not.                      *)
(*                                                                         *)
(* After a reboot of the server nothing orders what it accepts.  But every *)
(* block it can be sent is of the one boot of the node, so a last block it *)
(* accepts completes the representation, and its answer is the success the *)
(* node is waiting for.                                                    *)
(***************************************************************************)

AnswerInv ==
  IInv /\ OneRequest /\ Waiting /\ SuccessDecoded /\ ConfirmedInv

LEMMA SendBlockAnswer ==
  ASSUME AnswerInv, NEW count, NEW number, NEW scaleless,
         SendBlock(number, count, scaleless),
         UNCHANGED <<node_boot, window_id, serverVars, responses, faults, historyVars>>
  PROVE  OneRequest' /\ Waiting' /\ SuccessDecoded' /\ ConfirmedInv'
<1> DEFINE header == [token |-> window_id, number |-> number, more |-> number + 1 < count]
           piece == [boot |-> node_boot, window |-> window_id, number |-> number, of |-> count,
                     faint |-> scaleless]
           new == [header |-> header, record |-> Sealed(client_security, Aad(header), piece)]
<1>1. /\ requests' = requests \cup {new}
      /\ client_security' = AfterSeal(client_security)
      /\ block_number' = number /\ block_count' = count /\ faint' = scaleless
      /\ pc' = "blocked"
  BY DEF SendBlock
<1>2. /\ client_security \in Contexts /\ client_security.tx_sequence \in Nat
      /\ \A request \in requests : request.record.sequence \in Nat
  BY DEF AnswerInv, IInv, TypeOK, Contexts, Records, SequenceNumbers
<1>3. client_security'.tx_sequence - 1 = client_security.tx_sequence
  BY <1>1, <1>2 DEF AfterSeal, Contexts
<1>4. /\ new.record.plaintext = piece
      /\ new.record.sequence = client_security.tx_sequence
  BY DEF Sealed
<1>5. piece.boot = node_boot
  OBVIOUS
<1> HIDE DEF new, header
<1>6. OneRequest'
  <2>1. \A request \in requests : Id(request.record) # Id(new.record)
    BY <1>2, <1>4, <1>5 DEF AnswerInv, IInv, RequestsPast, Id
  <2> QED BY <1>1, <2>1 DEF AnswerInv, OneRequest
<1>7. Waiting'
  BY <1>1, <1>3, <1>4 DEF Waiting
<1>8. SuccessDecoded' /\ ConfirmedInv'
  BY <1>1, AnswersStay DEF AnswerInv, historyVars
<1> QED BY <1>6, <1>7, <1>8

LEMMA FinishAnswer ==
  ASSUME AnswerInv, NodeFinish
  PROVE  OneRequest' /\ Waiting' /\ SuccessDecoded' /\ ConfirmedInv'
<1>1. WindowDecoded(<<node_boot, window_id>>)
  BY FinishDecoded DEF AnswerInv
<1>2. /\ UNCHANGED <<requests, responses, decoded>> /\ pc' = "wait"
      /\ confirmed' = confirmed \cup {<<node_boot, window_id>>}
  BY DEF NodeFinish, EndWindow
<1>3. ConfirmedInv'
  BY <1>1, <1>2 DEF AnswerInv, ConfirmedInv, WindowDecoded
<1>4. OneRequest' /\ Waiting'
  BY <1>2 DEF AnswerInv, OneRequest, Waiting
<1>5. SuccessDecoded'
  BY <1>2, AnswersStay DEF AnswerInv
<1> QED BY <1>3, <1>4, <1>5

\* A success in answer to a last block comes with a decoded window.
LEMMA SuccessOutcome ==
  ASSUME MaxNodeReboots = 0, IInv, NEW request \in requests, NEW header \in Headers,
         NEW outcome \in Outcomes(transfer, server_security, header, request.record),
         StatusCode(outcome.verdict) \in Successes,
         request.record.plaintext.number + 1 = request.record.plaintext.of
  PROVE  /\ outcome.verdict = "decoded"
         /\ Whole(outcome.transfer.representation)
         /\ WindowOf(outcome.transfer.representation)
              = <<request.record.plaintext.boot, request.record.plaintext.window>>
<1> DEFINE record == request.record
           filled == Filled(header, record)
           rep == filled.representation
<1>1. outcome.verdict \in {"more", "decoded"}
  BY OutcomeFacts DEF Verdicts, Authenticated, StatusCode, Successes
<1>2. /\ Expected(Current(header), header) /\ Opens(server_security, record, header)
      /\ \/ outcome.verdict = "more" /\ header.more
         \/ /\ outcome.verdict = "decoded" /\ ~header.more
            /\ outcome.transfer = Finished(filled)
  BY <1>1, OutcomeCases
<1>3. /\ header = request.header
      /\ rep = Append(Current(header).representation, record.plaintext)
      /\ filled \in Transfers /\ TransferOK(filled)
      /\ ~header.more => DecodedOK(rep)
  BY <1>2, FilledFacts
<1>4. ~header.more
  <2>1. record.plaintext.number \in Nat /\ record.plaintext.of \in Nat
    BY DEF IInv, TypeOK, Records, Pieces
  <2> QED BY <1>3, <2>1 DEF IInv, RequestsTrue
<1>5. outcome.verdict = "decoded" /\ outcome.transfer.representation = rep
  BY <1>2, <1>3, <1>4, FinishedFacts
<1>6. rep \in Seq(Pieces) /\ Whole(rep)
  BY <1>3, <1>4, SteadyIsWhole DEF Transfers
<1>7. rep[Len(rep)] = record.plaintext /\ 1 \in DOMAIN rep /\ Len(rep) \in DOMAIN rep
  <2>1. Current(header).representation \in Seq(Pieces) /\ record.plaintext \in Pieces
    <3>1. Current(header) \in Transfers /\ record \in Records
      BY CurrentFacts DEF IInv, TypeOK
    <3> QED BY <3>1 DEF Transfers, Records
  <2> QED BY <1>3, <2>1
<1>8. rep[1].boot = record.plaintext.boot /\ rep[1].window = record.plaintext.window
  BY <1>6, <1>7 DEF Whole, OneWindow
<1> QED BY <1>5, <1>6, <1>8 DEF WindowOf

LEMMA DeliverAnswer ==
  ASSUME MaxNodeReboots = 0, AnswerInv, NEW request \in requests, NEW header \in Headers,
         Deliver(header, request.record)
  PROVE  OneRequest' /\ Waiting' /\ SuccessDecoded' /\ ConfirmedInv'
<1>1. PICK outcome \in Outcomes(transfer, server_security, header, request.record) :
        /\ Respond(request.record, StatusCode(outcome.verdict))
        /\ decoded' = IF outcome.verdict = "decoded"
                      THEN Append(decoded, outcome.transfer.representation) ELSE decoded
  BY DEF Deliver, Handle
<1>2. UNCHANGED <<nodeVars, requests, confirmed>>
  BY DEF Deliver
<1>3. OneRequest' /\ Waiting'
  BY <1>2 DEF AnswerInv, OneRequest, Waiting, nodeVars
<1>4. SuccessDecoded' /\ ConfirmedInv'
  BY <1>1, <1>2, SuccessOutcome, DeliverAnswers DEF AnswerInv
<1> QED BY <1>3, <1>4

LEMMA InitAnswer == Init => AnswerInv
<1> SUFFICES ASSUME Init PROVE AnswerInv
  OBVIOUS
<1> QED BY InitIInv DEF Init, AnswerInv, OneRequest, Waiting, SuccessDecoded, ConfirmedInv

LEMMA NextAnswer == MaxNodeReboots = 0 /\ AnswerInv /\ [Next]_vars => AnswerInv'
<1> SUFFICES ASSUME MaxNodeReboots = 0, AnswerInv, [Next]_vars PROVE AnswerInv'
  OBVIOUS
<1>1. IInv'
  BY NextIInv DEF AnswerInv
<1> SUFFICES OneRequest' /\ Waiting' /\ SuccessDecoded' /\ ConfirmedInv'
  BY <1>1 DEF AnswerInv
<1>2. CASE NodeStart \/ NodeNextBlock
  <2>1. \E count, number, scaleless : SendBlock(number, count, scaleless)
    BY <1>2 DEF NodeStart, NodeNextBlock
  <2>2. UNCHANGED <<node_boot, window_id, serverVars, responses, faults, historyVars>>
    BY <1>2 DEF NodeStart, NodeNextBlock
  <2> QED BY <2>1, <2>2, SendBlockAnswer
<1>3. CASE NodeFinish
  BY <1>3, FinishAnswer
<1>4. CASE NodeGiveUp \/ NodeTimeout
  <2>1. pc' = "wait" /\ UNCHANGED <<requests, responses, decoded, confirmed>>
    BY <1>4 DEF NodeGiveUp, NodeTimeout, EndWindow, historyVars
  <2>2. OneRequest' /\ Waiting'
    BY <2>1 DEF AnswerInv, OneRequest, Waiting
  <2> QED BY <2>1, <2>2, AnswersStay DEF AnswerInv
<1>5. CASE NodeReboot
  <2>1. node_boot \in 0 .. 0
    BY DEF AnswerInv, IInv, TypeOK, Boots
  <2> QED BY <1>5, <2>1 DEF NodeReboot
<1>6. CASE ServerReboot \/ NodeSkip \/ UNCHANGED vars
  <2>1. UNCHANGED <<nodeVars, requests, responses, historyVars>>
    BY <1>6 DEF ServerReboot, NodeSkip, vars, networkVars
  <2>2. OneRequest' /\ Waiting'
    BY <2>1 DEF AnswerInv, OneRequest, Waiting, nodeVars
  <2> QED BY <2>1, <2>2, AnswersStay DEF AnswerInv, historyVars
<1>7. CASE Arrive \/ ArriveStray \/ ArriveDamaged
  <2>1. PICK request \in requests, header \in Headers : Deliver(header, request.record)
    <3>1. \A request \in requests : request.header \in Headers
      BY DEF AnswerInv, IInv, TypeOK
    <3> QED BY <1>7, <3>1 DEF Arrive, ArriveStray, ArriveDamaged
  <2> QED BY <2>1, DeliverAnswer
<1>8. CASE ArriveMalformed
  <2>1. PICK request \in requests :
           /\ Respond(request.record, "4.00 Bad Request")
           /\ UNCHANGED <<nodeVars, serverVars, requests, historyVars>>
    BY <1>8 DEF ArriveMalformed
  <2>2. SuccessDecoded' /\ ConfirmedInv'
    BY <2>1, MalformedAnswer DEF AnswerInv, historyVars
  <2>3. OneRequest' /\ Waiting'
    BY <2>1 DEF AnswerInv, OneRequest, Waiting, nodeVars
  <2> QED BY <2>2, <2>3
<1> QED
  BY <1>2, <1>3, <1>4, <1>5, <1>6, <1>7, <1>8 DEF Next, NodeStep, OutOfWindows

\* While the node does not reboot, a window whose every block was answered with
\* a 2.xx response (response_handler) was decoded, complete, however often the
\* server rebooted in between.
THEOREM ConfirmedMeansDecodedAcrossServerReboots ==
  MaxNodeReboots = 0 => (Spec => []ConfirmedDecoded)
<1> SUFFICES ASSUME MaxNodeReboots = 0 PROVE Spec => []ConfirmedDecoded
  OBVIOUS
<1>1. AnswerInv /\ [Next]_vars => AnswerInv'
  BY NextAnswer
<1>2. AnswerInv => ConfirmedDecoded
  BY DEF AnswerInv, ConfirmedInv, ConfirmedDecoded, WindowDecoded
<1> QED BY <1>1, <1>2, InitAnswer, PTL DEF Spec

=============================================================================
