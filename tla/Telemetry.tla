------------------------------ MODULE Telemetry ------------------------------
(***************************************************************************)
(* The deployed system: adaptive-node uploading windows to adaptive-server *)
(* over CoAP Block1, stop and wait, with a network that loses, repeats,    *)
(* delays and damages requests and loses responses, and with either mote   *)
(* rebooting.  Both motes build their security session from the same fixed *)
(* seed at every boot.                                                     *)
(***************************************************************************)
EXTENDS Reassembly, FiniteSets

CONSTANTS
  MaxBlocks,         \* bound: blocks per window
  MaxWindow,         \* bound: window_id values a boot of the node goes through
  MaxFaint,          \* bound: windows so close to zero that their scale is lost
  MaxFaults,         \* bound: skipped windows, timeouts, stray, damaged and
                     \* malformed arrivals
  MaxNodeReboots,    \* bound: reboots of the node
  MaxServerReboots   \* bound: reboots of the server

ASSUME BoundsAssumption ==
  /\ MaxBlocks \in Nat \ {0}
  /\ MaxWindow \in Nat \ {0}
  /\ MaxFaint \in Nat
  /\ MaxFaults \in Nat
  /\ MaxNodeReboots \in Nat
  /\ MaxServerReboots \in Nat

VARIABLES
  node_boot,        \* reboots of the node so far
  pc,               \* "wait" for the timer, "blocked" in COAP_BLOCKING_REQUEST
  window_id,
  block_number,
  block_count,
  faint,            \* the scale of the representation being sent is 0.0f
  client_security,
  server_boot,      \* reboots of the server so far
  transfer,         \* transfer_active, active_token, next_block, representation
  server_security,
  requests,         \* every request ever put on the air
  responses,        \* every response ever put on the air
  faults,           \* faults spent
  accepted,         \* history: the records the server opened, in order
  decoded,          \* history: the representations it decoded, in order
  confirmed         \* history: <<boot, window>> whose upload the node saw succeed

nodeVars == <<node_boot, pc, window_id, block_number, block_count, faint, client_security>>
serverVars == <<server_boot, transfer, server_security>>
networkVars == <<requests, responses, faults>>
historyVars == <<accepted, decoded, confirmed>>
vars == <<nodeVars, serverVars, networkVars, historyVars>>

-----------------------------------------------------------------------------
\* Messages.

\* ADAPTIVE_TEST_SEED, the same in both firmwares and at every boot.
TestSeed == "ADAPTIVE_TEST_SEED"

Windows == 1 .. MaxWindow
Boots == 0 .. MaxNodeReboots
SequenceNumbers == 0 .. MaxBlocks * MaxWindow    \* bound: sealed records per boot

Headers == [token : Windows, number : 0 .. MaxBlocks - 1, more : BOOLEAN]

\* Mutant of Successes: the upper bound of the class is not tested.
AnyResponse == {"2.31 Continue", "2.04 Changed", "4.00 Bad Request",
                "4.01 Unauthorized", "4.08 Request Entity Incomplete"}

\* response_handler: class 2.xx is success.
Successes == {"2.31 Continue", "2.04 Changed"}
Refusals == {"4.00 Bad Request", "4.01 Unauthorized",
             "4.08 Request Entity Incomplete"}

\* The CoAP message layer pairs a response with its request by message id
\* and token; a record of one boot of the node identifies both.
Id(record) == <<record.plaintext.boot, record.sequence>>

CurrentId == <<node_boot, client_security.tx_sequence - 1>>

Answered(code) == [id |-> CurrentId, code |-> code] \in responses

-----------------------------------------------------------------------------
\* The node.

\* Mutant of BlocksLeft: the loop runs once more, on an empty remainder.
BlocksLeftTooLong(number, count) == number <= count
\* The condition of the inner loop, in blocks.
BlocksLeft(number, count) == number < count

\* One pass of the inner loop up to COAP_BLOCKING_REQUEST: cut block "number",
\* seal it under its header, send it.
SendBlock(number, count, scaleless) ==
  LET header == [token |-> window_id, number |-> number, more |-> number + 1 < count]
      piece == [boot |-> node_boot, window |-> window_id, number |-> number, of |-> count,
                faint |-> scaleless]
  IN /\ requests' = requests \cup
           {[header |-> header,
             record |-> Sealed(client_security, Aad(header), piece)]}
     /\ client_security' = AfterSeal(client_security)
     /\ block_number' = number
     /\ block_count' = count
     /\ faint' = scaleless
     /\ pc' = "blocked"

\* The windows sent whose scale is 0.0f.
FaintWindows ==
  {<<piece.boot, piece.window>> :
     piece \in {request.record.plaintext : request \in {r \in requests : r.record.plaintext.faint}}}

\* The timer expires; the HMM state and the data decide the number of blocks
\* and the scale.
NodeStart ==
  /\ pc = "wait"
  /\ window_id <= MaxWindow
  /\ \E count \in 1 .. MaxBlocks, scaleless \in BOOLEAN :
        /\ scaleless => Cardinality(FaintWindows) < MaxFaint
        /\ SendBlock(0, count, scaleless)
  /\ UNCHANGED <<node_boot, window_id, serverVars, responses, faults, historyVars>>

\* The metrics are not finite, the encoder fails or the state's block cannot
\* hold a record: nothing is sent and the window id is kept.
NodeSkip ==
  /\ pc = "wait"
  /\ window_id <= MaxWindow
  /\ faults < MaxFaults
  /\ faults' = faults + 1
  /\ UNCHANGED <<nodeVars, serverVars, requests, responses, historyVars>>

NodeNextBlock ==
  /\ pc = "blocked"
  /\ \E code \in Successes : Answered(code)
  /\ BlocksLeft(block_number + 1, block_count)
  /\ SendBlock(block_number + 1, block_count, faint)
  /\ UNCHANGED <<node_boot, window_id, serverVars, responses, faults, historyVars>>

\* The tail of the outer loop, reached by finishing the window or by break.
EndWindow ==
  /\ window_id' = window_id + 1
  /\ pc' = "wait"
  /\ UNCHANGED <<node_boot, block_number, block_count, faint, client_security,
                 serverVars, requests, responses>>

NodeFinish ==
  /\ pc = "blocked"
  /\ \E code \in Successes : Answered(code)
  /\ ~BlocksLeft(block_number + 1, block_count)
  /\ EndWindow
  /\ confirmed' = confirmed \cup {<<node_boot, window_id>>}
  /\ UNCHANGED <<faults, accepted, decoded>>

NodeGiveUp ==
  /\ pc = "blocked"
  /\ \E code \in Refusals : Answered(code)
  /\ EndWindow
  /\ UNCHANGED <<faults, historyVars>>

\* The CoAP layer ran out of retransmissions: response_handler never sets
\* response_ok.
NodeTimeout ==
  /\ pc = "blocked"
  /\ faults < MaxFaults
  /\ faults' = faults + 1
  /\ EndWindow
  /\ UNCHANGED historyVars

NodeReboot ==
  /\ node_boot < MaxNodeReboots
  /\ node_boot' = node_boot + 1
  /\ pc' = "wait"
  /\ window_id' = 1
  /\ block_number' = 0
  /\ block_count' = 0
  /\ faint' = FALSE
  /\ client_security' = ClientContext(TestSeed)
  /\ UNCHANGED <<serverVars, networkVars, historyVars>>

-----------------------------------------------------------------------------
\* The server.

Respond(record, code) ==
  responses' = responses \cup {[id |-> Id(record), code |-> code]}

StatusCode(verdict) ==
  CASE verdict = "unexpected" -> "4.08 Request Entity Incomplete"
    [] verdict \in {"refused", "overflow"} -> "4.01 Unauthorized"
    [] verdict = "more" -> "2.31 Continue"
    [] verdict = "decoded" -> "2.04 Changed"
    [] verdict = "undecodable" -> "4.00 Bad Request"

\* telemetry_post_handler on a well-formed request.
Handle(header, record) ==
  \E outcome \in Outcomes(transfer, server_security, header, record) :
     /\ transfer' = outcome.transfer
     /\ server_security' = outcome.context
     /\ Respond(record, StatusCode(outcome.verdict))
     /\ accepted' = IF outcome.verdict \in Authenticated
                    THEN Append(accepted, record) ELSE accepted
     /\ decoded' = IF outcome.verdict = "decoded"
                   THEN Append(decoded, outcome.transfer.representation) ELSE decoded

ServerReboot ==
  /\ server_boot < MaxServerReboots
  /\ server_boot' = server_boot + 1
  /\ transfer' = IdleTransfer
  /\ server_security' = ServerContext(TestSeed)
  /\ UNCHANGED <<nodeVars, networkVars, historyVars>>

-----------------------------------------------------------------------------
\* The network.

Deliver(header, record) ==
  /\ Handle(header, record)
  /\ UNCHANGED <<nodeVars, server_boot, requests, confirmed>>

Outstanding(request) ==
  /\ pc = "blocked"
  /\ Id(request.record) = CurrentId
  /\ \A code \in Successes \cup Refusals : ~Answered(code)

\* The request the node is blocked on arrives for the first time.
Arrive ==
  \E request \in requests :
     /\ Outstanding(request)
     /\ Deliver(request.header, request.record)
     /\ UNCHANGED faults

\* A request arrives again (its response was lost, so the node retransmitted
\* it) or arrives after the node stopped waiting for it.
ArriveStray ==
  \E request \in requests :
     /\ ~Outstanding(request)
     /\ faults < MaxFaults
     /\ faults' = faults + 1
     /\ Deliver(request.header, request.record)

\* A request arrives with its header damaged.
ArriveDamaged ==
  \E request \in requests, header \in Headers :
     /\ header # request.header
     /\ faults < MaxFaults
     /\ faults' = faults + 1
     /\ Deliver(header, request.record)

\* A request arrives so damaged that the handler refuses it unread.
ArriveMalformed ==
  \E request \in requests :
     /\ faults < MaxFaults
     /\ faults' = faults + 1
     /\ Respond(request.record, "4.00 Bad Request")
     /\ UNCHANGED <<nodeVars, serverVars, requests, historyVars>>

-----------------------------------------------------------------------------

Init ==
  /\ node_boot = 0
  /\ pc = "wait"
  /\ window_id = 1
  /\ block_number = 0
  /\ block_count = 0
  /\ faint = FALSE
  /\ client_security = ClientContext(TestSeed)
  /\ server_boot = 0
  /\ transfer = IdleTransfer
  /\ server_security = ServerContext(TestSeed)
  /\ requests = {}
  /\ responses = {}
  /\ faults = 0
  /\ accepted = <<>>
  /\ decoded = <<>>
  /\ confirmed = {}

\* The bound MaxWindow stops the node, which in truth never stops.
OutOfWindows ==
  /\ pc = "wait"
  /\ window_id > MaxWindow
  /\ UNCHANGED vars

NodeStep == NodeStart \/ NodeNextBlock \/ NodeFinish \/ NodeGiveUp

Next ==
  \/ NodeStep \/ NodeSkip \/ NodeTimeout \/ NodeReboot
  \/ ServerReboot
  \/ Arrive \/ ArriveStray \/ ArriveDamaged \/ ArriveMalformed
  \/ OutOfWindows

Spec == Init /\ [][Next]_vars

\* The node's process runs whenever its timer or a response wakes it, and the
\* CoAP layer retransmits a confirmable request until it is answered.
Fairness == WF_vars(NodeStep) /\ WF_vars(Arrive)
FairSpec == Spec /\ Fairness

-----------------------------------------------------------------------------
\* Properties.

Pieces == [boot : Boots, window : Windows, number : 0 .. MaxBlocks - 1, of : 1 .. MaxBlocks,
           faint : BOOLEAN]

Records == [key : Keys({TestSeed}), sequence : SequenceNumbers,
            aad : Headers, plaintext : Pieces]

Contexts == [tx_key : Keys({TestSeed}), rx_key : Keys({TestSeed}),
             tx_sequence : SequenceNumbers, rx_highest : SequenceNumbers,
             rx_initialized : BOOLEAN]

\* Every variable keeps its type; no counter of either mote leaves the range
\* its loop gives it.
TypeOK ==
  /\ node_boot \in Boots
  /\ pc \in {"wait", "blocked"}
  /\ window_id \in 1 .. MaxWindow + 1
  /\ block_number \in 0 .. MaxBlocks - 1
  /\ block_count \in 0 .. MaxBlocks
  /\ faint \in BOOLEAN
  /\ client_security \in Contexts
  /\ server_boot \in 0 .. MaxServerReboots
  /\ transfer \in [active : BOOLEAN, token : Windows \cup {NoToken},
                   next_block : 0 .. MaxBlocks, representation : Seq(Pieces)]
  /\ server_security \in Contexts
  /\ requests \subseteq [header : Headers, record : Records]
  /\ responses \subseteq [id : Boots \X SequenceNumbers, code : Successes \cup Refusals]
  /\ faults \in 0 .. MaxFaults
  /\ accepted \in Seq(Records)
  /\ decoded \in Seq(Seq(Pieces))
  /\ confirmed \subseteq Boots \X Windows

\* telemetry_post_handler never decodes blocks of different windows, or of
\* different boots of the node, as one representation, nor an incomplete one.
DecodedWhole == \A i \in DOMAIN decoded : Whole(decoded[i])

\* Even when both motes rebooted, so that records of the node's first boot are
\* accepted among those of its second, what is decoded as one representation
\* has its block numbers complete and in order and a single window id: the
\* header fields bound by the AAD and the token test leave only the boot open.
DecodedInSequence ==
  \A i \in DOMAIN decoded : \A j \in DOMAIN decoded[i] :
     /\ decoded[i][j].number = j - 1
     /\ decoded[i][j].window = decoded[i][1].window
     /\ decoded[i][j].boot = decoded[i][1].boot => decoded[i][j].of = decoded[i][1].of

WindowOf(pieces) == <<pieces[1].boot, pieces[1].window>>

\* A window the node counts as uploaded (every block answered with a 2.xx
\* response) was decoded by the server, complete, even when the node or the
\* server rebooted in between, though not when both did (response_handler,
\* telemetry_post_handler).
ConfirmedDecoded ==
  \A window \in confirmed :
     \E i \in DOMAIN decoded : Whole(decoded[i]) /\ WindowOf(decoded[i]) = window

\* The system implements TelemetryService: at-most-once delivery, in the order
\* of sampling, and no false confirmation.
Service ==
  INSTANCE TelemetryService WITH
    Boots <- Boots, Windows <- Windows, confirmed <- confirmed,
    delivered <- [i \in DOMAIN decoded |-> WindowOf(decoded[i])]
ServiceSpec == Service!ServiceSpec

\* No fault and no reboot is left to happen.
Quiet ==
  /\ faults = MaxFaults
  /\ node_boot = MaxNodeReboots
  /\ server_boot = MaxServerReboots

Decodes(window) == \E i \in DOMAIN decoded : WindowOf(decoded[i]) = <<node_boot, window>>

\* The decoder refuses what the encoder wrote for the window.
SentFaint(window) == <<node_boot, window>> \in FaintWindows

\* Lost responses, abandoned windows, refused blocks and representations that
\* do not decode never desynchronise the two motes for good: once the network
\* behaves, every further window the node starts is decoded, unless its own
\* scale was written as 0.0f (NodeStart, telemetry_post_handler).
QuietWindowsDecoded ==
  \A window \in Windows :
     (Quiet /\ pc = "wait" /\ window_id = window)
     ~> (Decodes(window) \/ SentFaint(window))

\* A rebooted node seals with sequence numbers the server has already seen
\* and is refused; the outage lasts at most rx_highest + 1 windows, because
\* every window it tries consumes at least one sequence number.  From then on
\* every window is decoded unless its own scale was written as 0.0f, also
\* after one that was refused for its scale when it was complete.
OutageEnds ==
  \A window \in Windows :
     (Quiet /\ pc = "wait" /\ window_id = window
        /\ window > server_security.rx_highest + 1)
     ~> (Decodes(window) \/ SentFaint(window))

\* What README.md:103-104 says of the server: a record it accepted is not
\* accepted again.
ReplaysRejected ==
  \A i, j \in DOMAIN accepted : accepted[i] = accepted[j] => i = j

=============================================================================
