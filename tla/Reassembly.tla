----------------------------- MODULE Reassembly -----------------------------
(***************************************************************************)
(* The reassembly of a Block1 upload, as operators on the receiver's       *)
(* transfer state and security context.  The Contiki server keeps the      *)
(* transfer in static variables, the host receiver in adaptive_receiver_t; *)
(* the two run the same algorithm and differ in what they answer.          *)
(*                                                                         *)
(* The bytes of a block's plaintext are abstracted to the piece they are:  *)
(* block number "number" of the "of" blocks of the representation that     *)
(* boot "boot" of the node encoded for window "window".  Of the header of  *)
(* the representation one thing is kept: it is "faint" when the samples    *)
(* were so close to zero that the scale, a double, was written as 0.0f.    *)
(***************************************************************************)
EXTENDS SecureRecord, Sequences

\* Zeroed memory: no transfer, a token of length zero.
NoToken == 0
IdleTransfer ==
  [active |-> FALSE, token |-> NoToken, next_block |-> 0,
   representation |-> <<>>]

\* Mutants of Started: the old blocks stay in the buffer; a transfer in
\* progress is not given up for a new one.
StartedKeepingBlocks(transfer, header) ==
  IF header.number = 0
  THEN [transfer EXCEPT !.active = TRUE, !.token = header.token, !.next_block = 0]
  ELSE transfer
StartedWhenIdle(transfer, header) ==
  IF header.number = 0 /\ ~transfer.active
  THEN [active |-> TRUE, token |-> header.token, next_block |-> 0,
        representation |-> <<>>]
  ELSE transfer

\* Block 0 starts a transfer, dropping whatever was being reassembled.
Started(transfer, header) ==
  IF header.number = 0
  THEN [active |-> TRUE, token |-> header.token, next_block |-> 0,
        representation |-> <<>>]
  ELSE transfer

Expected(transfer, header) ==
  /\ transfer.active
  /\ header.number = transfer.next_block
  /\ header.token = transfer.token

Extended(transfer, piece) ==
  [transfer EXCEPT !.representation = Append(@, piece),
                   !.next_block = @ + 1]

Finished(transfer) == [transfer EXCEPT !.active = FALSE]

-----------------------------------------------------------------------------

\* All pieces come from one representation.
OneWindow(pieces) ==
  \A i, j \in DOMAIN pieces :
     /\ pieces[i].boot = pieces[j].boot
     /\ pieces[i].window = pieces[j].window

\* The pieces are one complete representation, in order.
Whole(pieces) ==
  /\ pieces # <<>>
  /\ OneWindow(pieces)
  /\ \A i \in DOMAIN pieces :
        pieces[i].number = i - 1 /\ pieces[i].of = Len(pieces)

\* adaptive_codec_encode never writes more than ADAPTIVE_MAX_REPRESENTATION
\* bytes, the receiver's capacity: only pieces of different representations
\* can overflow it, and whether they do depends on sizes left out here.
MayOverflow(pieces) == ~OneWindow(pieces)

\* adaptive_codec_decode accepts what adaptive_codec_encode wrote, unless its
\* scale is 0.0f.  Of any other byte string it checks a header and a CRC that
\* covers the pair stream only, so it may accept or refuse it.
DecodeResults(pieces) == IF Whole(pieces) THEN {~pieces[1].faint} ELSE BOOLEAN

-----------------------------------------------------------------------------

\* adaptive_pipeline_build_aad copies the header fields that vary here; type,
\* method, Block1 exponent and content format are fixed within a transfer.
Aad(header) == header

\* What handling one well-formed block can come to: the verdict, the transfer
\* and the security context it leaves.  The context advances with the
\* authentication, before the block is known to fit.
Outcomes(transfer, context, header, record) ==
  LET current == Started(transfer, header)
      filled == Extended(current, record.plaintext)
      opened == AfterOpen(context, record)
      Outcome(verdict, t, c) == [verdict |-> verdict, transfer |-> t, context |-> c]
      Overflow == IF MayOverflow(filled.representation)
                  THEN {Outcome("overflow", current, opened)} ELSE {}
      Stored == IF header.more
                THEN {Outcome("more", filled, opened)}
                ELSE {IF ok THEN Outcome("decoded", Finished(filled), opened)
                            ELSE Outcome("undecodable", filled, opened) :
                        ok \in DecodeResults(filled.representation)}
  IN IF ~Expected(current, header) THEN {Outcome("unexpected", current, context)}
     ELSE IF ~Opens(context, record, Aad(header)) THEN {Outcome("refused", current, context)}
     ELSE Overflow \cup Stored

\* The verdicts on a block that was authenticated.
Authenticated == {"overflow", "more", "decoded", "undecodable"}
Verdicts == Authenticated \cup {"unexpected", "refused"}

=============================================================================
