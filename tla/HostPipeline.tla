---------------------------- MODULE HostPipeline ----------------------------
(***************************************************************************)
(* The host program: adaptive_pipeline_process segments, seals and sends   *)
(* one window per call through a transport callback, and                   *)
(* adaptive_receiver_accept reassembles at the other end of it             *)
(* (loopback_send in main.c).  A call may fail at every step, leaving both *)
(* ends wherever they are; the next call starts from there.                *)
(***************************************************************************)
EXTENDS Reassembly, SequencesExt

CONSTANTS
  Lengths,         \* representation lengths the encoder may produce
  Szx,             \* Block1 exponents the configuration gives the states
  MessageIds,      \* number of message ids; 2^16 in the code
  MaxWindow,       \* bound: calls that consume a window id
  MaxFailures      \* bound: failing encodes, seals and sends

ASSUME PipelineBounds ==
  /\ Lengths \subseteq Nat \ {0}
  /\ Szx \subseteq 0 .. 6
  /\ MessageIds \in Nat \ {0}
  /\ MaxWindow \in Nat /\ MaxFailures \in Nat

VARIABLES
  uri_path,          \* the path of the configuration, one with segments or none
  pc,                \* "idle" between calls, "sending" inside the block loop
  result,            \* what the last call returned
  next_window_id,
  next_message_id,
  upload,            \* the locals of the call in progress
  client_security,
  receiver,          \* adaptive_receiver_t's reassembly
  server_security,
  failures,          \* failures spent
  packets,           \* history: the packets of this call, in order
  sent,              \* history: the bytes of their records
  completions        \* history: the representations COMPLETE was returned for

callVars == <<uri_path, pc, result, next_window_id, next_message_id, upload, client_security>>
receiverVars == <<receiver, server_security, completions>>
history == <<packets, sent>>
vars == <<callVars, receiverVars, failures, history>>

-----------------------------------------------------------------------------
\* Segmentation.

Overhead == 25     \* version, sequence number and tag

BlockSize(szx) == 2 ^ (szx + 4)
PlaintextCapacity(szx) == BlockSize(szx) - Overhead
BlockCount(length, capacity) == (length + capacity - 1) \div capacity
\* Mutant of TotalProtected: the overhead is counted once.
OverheadOnce(length, count) == length + Overhead
TotalProtected(length, count) == length + count * Overhead

Lesser(a, b) == IF a < b THEN a ELSE b
PlaintextLength(u) == Lesser(u.length - u.offset, PlaintextCapacity(u.szx))

NoUpload == [window |-> 0, length |-> 0, szx |-> 0, count |-> 0, number |-> 0, offset |-> 0,
             faint |-> FALSE]

-----------------------------------------------------------------------------
\* adaptive_pipeline_process up to the block loop.

Return(value) == pc' = "idle" /\ result' = value

\* The sample count or the metrics are refused: nothing has happened yet.
CallRefused ==
  /\ pc = "idle"
  /\ failures < MaxFailures
  /\ failures' = failures + 1
  /\ Return("ERR_ARGUMENT")
  /\ packets' = <<>> /\ sent' = 0
  /\ UNCHANGED <<uri_path, next_window_id, next_message_id, upload, client_security,
                 receiverVars>>

Call ==
  /\ pc = "idle"
  /\ next_window_id <= MaxWindow
  /\ next_window_id' = next_window_id + 1
  /\ packets' = <<>> /\ sent' = 0
  /\ UNCHANGED <<uri_path, next_message_id, client_security, receiverVars>>
  /\ \/ \* adaptive_codec_encode fails
        /\ failures < MaxFailures
        /\ failures' = failures + 1
        /\ Return("ERR_RANGE")
        /\ UNCHANGED upload
     \/ \E length \in Lengths, szx \in Szx, faint \in BOOLEAN :
          /\ UNCHANGED failures
          /\ \/ /\ BlockSize(szx) <= Overhead
                /\ Return("ERR_RANGE")
                /\ UNCHANGED upload
             \/ /\ BlockSize(szx) > Overhead
                /\ pc' = "sending"
                /\ UNCHANGED result
                /\ upload' =
                     [window |-> next_window_id, length |-> length, szx |-> szx,
                      count |-> BlockCount(length, PlaintextCapacity(szx)),
                      number |-> 0, offset |-> 0, faint |-> faint]

-----------------------------------------------------------------------------
\* The receiver.

\* What adaptive_receiver_accept returns; loopback_send makes COMPLETE OK.
ResultOf(verdict) ==
  CASE verdict \in {"more", "decoded"} -> "OK"
    [] verdict \in {"unexpected", "undecodable"} -> "ERR_FORMAT"
    [] verdict = "refused" -> "ERR_INTEGRITY"
    [] verdict = "overflow" -> "ERR_CAPACITY"

\* adaptive_receiver_accept on a packet that parses.
Accept(packet, value) ==
  \E outcome \in Outcomes(receiver, server_security, packet.header, packet.record) :
     /\ value = ResultOf(outcome.verdict)
     /\ receiver' = outcome.transfer
     /\ server_security' = outcome.context
     /\ completions' = IF outcome.verdict = "decoded"
                       THEN Append(completions, outcome.transfer.representation)
                       ELSE completions

Results == {"OK", "ERR_FORMAT", "ERR_INTEGRITY", "ERR_CAPACITY"}

\* ... whatever it returns.
Deliver(packet) == \E value \in Results : Accept(packet, value)

-----------------------------------------------------------------------------
\* One pass of the block loop.

\* Mutant of More: off by one.
MoreTooLong == upload.number < upload.count
More == upload.number + 1 < upload.count

Header == [token |-> upload.window, number |-> upload.number, more |-> More]
Piece == [boot |-> 0, window |-> upload.window, number |-> upload.number, of |-> upload.count,
          faint |-> upload.faint]
Packet ==
  [message_id |-> next_message_id,
   header |-> Header,
   record |-> Sealed(client_security, Aad(Header), Piece),
   record_length |-> PlaintextLength(upload) + Overhead,
   size1 |-> TotalProtected(upload.length, upload.count)]

\* The uint16_t counter wraps.
NextMessageId(id) == (id + 1) % MessageIds

\* The message id and the sequence number are consumed whatever follows.
StartBlock ==
  /\ pc = "sending"
  /\ upload.number < upload.count
  /\ next_message_id' = NextMessageId(next_message_id)
  /\ client_security' = AfterSeal(client_security)
  /\ UNCHANGED <<uri_path, next_window_id>>

SealFails ==
  /\ StartBlock
  /\ failures < MaxFailures
  /\ failures' = failures + 1
  /\ Return("ERR_CRYPTO")
  /\ UNCHANGED <<upload, receiverVars, history>>

\* The check on the record length that guards against a wrong overhead; it
\* fails the call with ERR_FORMAT.
FillsBlock(packet) ==
  /\ packet.record_length <= BlockSize(upload.szx)
  /\ packet.header.more => packet.record_length = BlockSize(upload.szx)

\* adaptive_coap_build_block1 refuses a path without segments; no packet of the
\* pipeline is too large for it.
HasSegments == uri_path # "/"

BuildFails ==
  /\ StartBlock
  /\ FillsBlock(Packet)
  /\ ~HasSegments
  /\ Return("ERR_FORMAT")
  /\ UNCHANGED <<upload, receiverVars, failures, history>>

Sends(packet) ==
  /\ packets' = Append(packets, packet)
  /\ sent' = sent + packet.record_length

\* The transport delivers the packet, and fails the call when the receiver
\* does.
SendBlock ==
  /\ StartBlock
  /\ FillsBlock(Packet) /\ HasSegments
  /\ Sends(Packet)
  /\ \E value \in Results :
        /\ Accept(Packet, value)
        /\ IF value = "OK"
           THEN /\ upload' = [upload EXCEPT !.number = @ + 1,
                                            !.offset = @ + PlaintextLength(upload)]
                /\ UNCHANGED <<pc, result>>
           ELSE Return(value) /\ UNCHANGED upload
  /\ UNCHANGED failures

\* The transport fails without delivering, or after having delivered.
SendFails ==
  /\ StartBlock
  /\ FillsBlock(Packet) /\ HasSegments
  /\ failures < MaxFailures
  /\ failures' = failures + 1
  /\ Sends(Packet)
  /\ \/ UNCHANGED receiverVars
     \/ Deliver(Packet)
  /\ Return("ERR_IO")
  /\ UNCHANGED upload

\* The transport presents a packet of the call a second time.
Repeat ==
  /\ failures < MaxFailures
  /\ failures' = failures + 1
  /\ \E packet \in Range(packets) : Deliver(packet)
  /\ UNCHANGED <<callVars, history>>

Complete ==
  /\ pc = "sending"
  /\ upload.number = upload.count
  /\ Return("OK")
  /\ UNCHANGED <<uri_path, next_window_id, next_message_id, upload, client_security,
                 receiverVars, failures, history>>

-----------------------------------------------------------------------------

\* adaptive_config_validate accepts the path "/".
Init ==
  /\ uri_path \in {"telemetry", "/"}
  /\ pc = "idle"
  /\ result = "none"
  /\ next_window_id = 1
  /\ next_message_id = 1 % MessageIds
  /\ upload = NoUpload
  /\ client_security = ClientContext("secret")
  /\ receiver = IdleTransfer
  /\ server_security = ServerContext("secret")
  /\ failures = 0
  /\ packets = <<>> /\ sent = 0
  /\ completions = <<>>

Process == Call \/ SendBlock \/ BuildFails \/ Complete

Next == CallRefused \/ Process \/ SealFails \/ SendFails \/ Repeat

Spec == Init /\ [][Next]_vars

-----------------------------------------------------------------------------
\* Properties.

Windows == 1 .. MaxWindow
Headers == [token : Windows, number : Nat, more : BOOLEAN]
Pieces == [boot : {0}, window : Windows, number : Nat, of : Nat \ {0}, faint : BOOLEAN]
Records == [key : Keys({"secret"}), sequence : Nat, aad : Headers, plaintext : Pieces]
Contexts == [tx_key : Keys({"secret"}), rx_key : Keys({"secret"}), tx_sequence : Nat,
             rx_highest : Nat, rx_initialized : BOOLEAN]

\* Every variable keeps its type.
TypeOK ==
  /\ uri_path \in {"telemetry", "/"}
  /\ pc \in {"idle", "sending"}
  /\ result \in Results \cup {"none", "ERR_ARGUMENT", "ERR_RANGE", "ERR_CRYPTO", "ERR_IO"}
  /\ next_window_id \in 1 .. MaxWindow + 1
  /\ next_message_id \in 0 .. MessageIds - 1
  /\ upload \in [window : 0 .. MaxWindow, length : Lengths \cup {0}, szx : Szx \cup {0},
                 count : Nat, number : Nat, offset : Nat, faint : BOOLEAN]
  /\ client_security \in Contexts
  /\ receiver \in [active : BOOLEAN, token : 0 .. MaxWindow, next_block : Nat,
                   representation : Seq(Pieces)]
  /\ server_security \in Contexts
  /\ failures \in 0 .. MaxFailures
  /\ packets \in Seq([message_id : 0 .. MessageIds - 1, header : Headers, record : Records,
                      record_length : Nat, size1 : Nat])
  /\ completions \in Seq(Seq(Pieces))

\* docs/ARCHITECTURE.md:75: every non-final protected payload has exactly the
\* selected Block1 size, and the final one carries something and fits, so the
\* length check of adaptive_pipeline_process never fails a call.
BlocksFilled ==
  pc = "sending" /\ upload.number < upload.count
    => FillsBlock(Packet) /\ PlaintextLength(upload) > 0

CallReturnedOk == pc = "idle" /\ result = "OK"

\* A call that returns OK sent the whole representation in block_count
\* packets, whose payloads add up to the Size1 every one of them announced.
SizesAddUp ==
  CallReturnedOk =>
    /\ upload.offset = upload.length
    /\ Len(packets) = upload.count
    /\ \A i \in DOMAIN packets : packets[i].size1 = sent

\* Message ids wrap inside their field, blocks are filled, and sizes add up, for
\* every length and exponent: the arithmetic of the segmentation.
SegmentsAddUp == TypeOK /\ BlocksFilled /\ SizesAddUp

\* What main.c:189-191 tests after every call: one that returned OK made the
\* receiver decode exactly its window, once.
OkMeansComplete ==
  CallReturnedOk =>
    Cardinality({i \in DOMAIN completions : completions[i][1].window = upload.window}) = 1

\* Whatever failed or was repeated, the receiver completes whole windows only,
\* each at most once, in order.
CompletionsInOrder ==
  \A i \in DOMAIN completions :
     /\ Whole(completions[i])
     /\ \A j \in 1 .. i - 1 : completions[j][1].window < completions[i][1].window

=============================================================================
