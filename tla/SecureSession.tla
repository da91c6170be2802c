---------------------------- MODULE SecureSession ----------------------------
(***************************************************************************)
(* A pair of adaptive_security_session_t over the ML-KEM provider: both    *)
(* directions, sealing that fails after its sequence number is consumed,   *)
(* records repeated, reordered, lost, reflected to their sender or         *)
(* presented under another header, sessions destroyed and paired again     *)
(* under a fresh shared secret.                                            *)
(***************************************************************************)
EXTENDS SecureRecord, Sequences, SequencesExt

CONSTANTS
  Client, Server,  \* the two ends
  Headers,         \* the associated data a caller may bind
  MaxSequence,     \* bound: seals per context; the code's counter is 64 bits
  MaxMessages,     \* bound: records sealed by either end over all pairings
  MaxPairings      \* bound: sessions paired

ASSUME EndsDiffer == Client # Server
ASSUME SessionBounds ==
  MaxSequence \in Nat /\ MaxMessages \in Nat /\ MaxPairings \in Nat

VARIABLES
  pairings,   \* secrets agreed on so far; the current one is the last
  live,       \* the ends whose session holds a context
  context,    \* context[end], all zeros when the end is not live
  wire,       \* every record ever handed to a transport
  issued,     \* history: issued[end], headers of the records it sealed
  opened      \* history: opened[end], the records it opened

vars == <<pairings, live, context, wire, issued, opened>>

Ends == {Client, Server}
Peer(end) == IF end = Client THEN Server ELSE Client

\* memset 0 before free; no key is the zero key.
NoSecret == 0
NewContextOf(end, secret) ==
  IF end = Client THEN ClientContext(secret) ELSE ServerContext(secret)
Destroyed == NewContext(ClientToServer(NoSecret), ClientToServer(NoSecret))

-----------------------------------------------------------------------------

\* adaptive_security_oqs_pair, successful: a fresh encapsulation gives both
\* ends a new secret.  When it fails both sessions keep what they had.
Pair ==
  /\ pairings < MaxPairings
  /\ pairings' = pairings + 1
  /\ live' = Ends
  /\ context' = [end \in Ends |-> NewContextOf(end, pairings + 1)]
  /\ UNCHANGED <<wire, issued, opened>>

\* adaptive_security_session_destroy; seal and open then refuse.
Destroy(end) ==
  /\ end \in live
  /\ live' = live \ {end}
  /\ context' = [context EXCEPT ![end] = Destroyed]
  /\ UNCHANGED <<pairings, wire, issued, opened>>

CanSeal(end) == end \in live /\ context[end].tx_sequence < MaxSequence

\* The plaintext stands for the message: the how-manyeth of its sender it is.
Seal(end, aad) ==
  LET record == Sealed(context[end], aad, Len(issued[end]) + 1)
  IN /\ CanSeal(end)
     /\ Len(issued[end]) < MaxMessages
     /\ context' = [context EXCEPT ![end] = AfterSeal(@)]
     /\ wire' = wire \cup {record}
     /\ issued' = [issued EXCEPT ![end] = Append(@, aad)]
     /\ UNCHANGED <<pairings, live, opened>>

\* A cipher operation fails: the caller gets no record, the sequence number
\* is gone all the same.
SealFails(end) ==
  /\ CanSeal(end)
  /\ context' = [context EXCEPT ![end] = AfterSeal(@)]
  /\ UNCHANGED <<pairings, live, wire, issued, opened>>

\* Any record may arrive at either end, any number of times, under any header.
Open(end, record, aad) ==
  /\ end \in live
  /\ Opens(context[end], record, aad)
  /\ context' = [context EXCEPT ![end] = AfterOpen(@, record)]
  /\ opened' = [opened EXCEPT ![end] =
       Append(@, [sequence |-> record.sequence, key |-> record.key,
                  position |-> record.plaintext, header |-> aad])]
  /\ UNCHANGED <<pairings, live, wire, issued>>

\* ERR_FORMAT, ERR_REPLAY, ERR_CAPACITY and ERR_INTEGRITY leave no trace.
OpenRefused(end, record, aad) ==
  /\ end \in live
  /\ ~Opens(context[end], record, aad)
  /\ UNCHANGED vars

-----------------------------------------------------------------------------

Init ==
  /\ pairings = 0
  /\ live = {}
  /\ context = [end \in Ends |-> Destroyed]
  /\ wire = {}
  /\ issued = [end \in Ends |-> <<>>]
  /\ opened = [end \in Ends |-> <<>>]

Next ==
  \/ Pair
  \/ \E end \in Ends :
        \/ Destroy(end)
        \/ SealFails(end)
        \/ \E aad \in Headers : Seal(end, aad)
        \/ \E record \in wire, aad \in Headers :
              Open(end, record, aad) \/ OpenRefused(end, record, aad)

Spec == Init /\ [][Next]_vars

-----------------------------------------------------------------------------
\* Properties.

Secrets == 0 .. MaxPairings

Contexts == [tx_key : Keys(Secrets), rx_key : Keys(Secrets), tx_sequence : 0 .. MaxSequence,
             rx_highest : 0 .. MaxSequence, rx_initialized : BOOLEAN]

Records == [key : Keys(Secrets), sequence : 0 .. MaxSequence, aad : Headers,
            plaintext : Nat \ {0}]

Openings == [key : Keys(Secrets), sequence : 0 .. MaxSequence, position : Nat \ {0},
             header : Headers]

\* Every variable keeps its type.
TypeOK ==
  /\ pairings \in Secrets
  /\ live \subseteq Ends
  /\ context \in [Ends -> Contexts]
  /\ wire \subseteq Records
  /\ issued \in [Ends -> Seq(Headers)]
  /\ opened \in [Ends -> Seq(Openings)]

\* No key ever encrypts two records under one sequence number, which is the
\* nonce of AES-GCM (oqs_seal), whatever fails, is destroyed or paired again.
NoncesUnique ==
  \A r1, r2 \in wire : r1.key = r2.key /\ r1.sequence = r2.sequence => r1 = r2

\* A record opens at most once, and the records of one key open in the order
\* they were sealed (the rx_highest test of oqs_open and test_open).
OpenedInOrder ==
  \A end \in Ends : \A i, j \in DOMAIN opened[end] :
     i < j /\ opened[end][i].key = opened[end][j].key
       => opened[end][i].sequence < opened[end][j].sequence

\* The replay window never runs ahead of what was opened: nothing an end was
\* handed makes it refuse a record of its peer that is newer than every one
\* it has opened under that key.
NoLockout ==
  \A end \in live : \A record \in wire :
     /\ record.key = context[end].rx_key
     /\ \A i \in DOMAIN opened[end] :
           opened[end][i].key = record.key => opened[end][i].sequence < record.sequence
     => Opens(context[end], record, record.aad)

\* The pair of sessions implements an ordered, at-most-once, authentic channel
\* in each direction.
Channel ==
  INSTANCE OrderedChannel WITH
    sent <- issued,
    received <- [end \in Ends |-> [i \in DOMAIN opened[end] |->
                   [position |-> opened[end][i].position,
                    header |-> opened[end][i].header]]]
ChannelSpec == Channel!ChannelSpec

=============================================================================
