------------------------ MODULE SecureSession_proofs ------------------------
(***************************************************************************)
(* Nonce uniqueness, in-order at-most-once opening and freedom from        *)
(* lockout of SecureSession, and its refinement of OrderedChannel, for any *)
(* number of records and pairings.                                         *)
(***************************************************************************)
EXTENDS SecureSession, TLAPS

\* The key end seals with, and the one it opens with, under a secret.
TxKey(end, secret) == IF end = Client THEN ClientToServer(secret) ELSE ServerToClient(secret)
RxKey(end, secret) == IF end = Client THEN ServerToClient(secret) ELSE ClientToServer(secret)

\* A live end holds the keys of the latest pairing.
KeysCurrent ==
  \A end \in live :
     /\ context[end].tx_key = TxKey(end, pairings)
     /\ context[end].rx_key = RxKey(end, pairings)

\* No record, sent or opened, is of a pairing to come.
SecretsPast ==
  /\ \A record \in wire : record.key[1] <= pairings
  /\ \A end \in Ends : \A i \in DOMAIN opened[end] : opened[end][i].key[1] <= pairings

\* An end's counter is past every number it has sealed under its key.
SealedBelow ==
  \A end \in live : \A record \in wire :
     record.key = context[end].tx_key => record.sequence < context[end].tx_sequence

\* The replay window covers what was opened under the current key, and was
\* moved there by an opened record.
WindowCovers ==
  \A end \in live : \A i \in DOMAIN opened[end] :
     opened[end][i].key = context[end].rx_key
       => context[end].rx_initialized /\ opened[end][i].sequence <= context[end].rx_highest

WindowEarned ==
  \A end \in live :
     context[end].rx_initialized =>
       \E i \in DOMAIN opened[end] :
          /\ opened[end][i].key = context[end].rx_key
          /\ opened[end][i].sequence = context[end].rx_highest

IInv ==
  /\ TypeOK /\ KeysCurrent /\ SecretsPast /\ SealedBelow
  /\ WindowCovers /\ WindowEarned
  /\ NoncesUnique /\ OpenedInOrder

-----------------------------------------------------------------------------

LEMMA KeyFacts ==
  ASSUME NEW secret, NEW end \in Ends
  PROVE  /\ TxKey(end, secret)[1] = secret
         /\ RxKey(end, secret)[1] = secret
         /\ NewContextOf(end, secret).tx_key = TxKey(end, secret)
         /\ NewContextOf(end, secret).rx_key = RxKey(end, secret)
         /\ \A other \in Ends : TxKey(other, secret) = TxKey(end, secret) => other = end
  BY EndsDiffer DEF Ends, TxKey, RxKey, NewContextOf, NewContext, ClientContext, ServerContext,
     ClientToServer, ServerToClient

LEMMA NewContextType ==
  ASSUME NEW secret \in Secrets, NEW end \in Ends
  PROVE  NewContextOf(end, secret) \in Contexts
  BY SessionBounds DEF Secrets, Contexts, Keys, NewContextOf, NewContext, ClientContext,
     ServerContext, ClientToServer, ServerToClient

LEMMA InitIInv == Init => IInv
<1> SUFFICES ASSUME Init PROVE IInv
  OBVIOUS
<1>1. Destroyed \in Contexts
  BY SessionBounds DEF Destroyed, NewContext, Contexts, Keys, ClientToServer, NoSecret, Secrets
<1>2. TypeOK
  BY <1>1, SessionBounds DEF Init, TypeOK, Secrets
<1>3. KeysCurrent /\ SecretsPast /\ SealedBelow /\ WindowCovers /\ WindowEarned
  BY DEF Init, KeysCurrent, SecretsPast, SealedBelow, WindowCovers, WindowEarned
<1>4. NoncesUnique /\ OpenedInOrder
  BY DEF Init, NoncesUnique, OpenedInOrder
<1> QED BY <1>2, <1>3, <1>4 DEF IInv

LEMMA PairIInv == IInv /\ Pair => IInv'
<1> SUFFICES ASSUME IInv, Pair PROVE IInv'
  OBVIOUS
<1> USE DEF Pair, IInv
<1>1. pairings \in Secrets /\ pairings + 1 \in Secrets /\ pairings \in Nat
  BY SessionBounds DEF TypeOK, Secrets
<1>2. TypeOK'
  BY <1>1, NewContextType DEF TypeOK
<1>3. KeysCurrent'
  BY KeyFacts DEF KeysCurrent
<1>4. SecretsPast'
  <2>1. \A record \in wire : record.key[1] <= pairings + 1
    BY <1>1 DEF SecretsPast, TypeOK, Records, Keys, Secrets
  <2>2. \A end \in Ends : \A i \in DOMAIN opened[end] : opened[end][i].key[1] <= pairings + 1
    <3> SUFFICES ASSUME NEW end \in Ends, NEW i \in DOMAIN opened[end]
                 PROVE  opened[end][i].key[1] <= pairings + 1
      OBVIOUS
    <3>1. opened[end][i] \in Openings
      BY DEF TypeOK
    <3>2. opened[end][i].key[1] <= pairings /\ opened[end][i].key[1] \in Nat
      BY <3>1 DEF SecretsPast, Openings, Keys, Secrets
    <3> QED BY <3>2, <1>1
  <2> QED BY <2>1, <2>2 DEF SecretsPast
<1>5. SealedBelow'
  <2> SUFFICES ASSUME NEW end \in Ends, NEW record \in wire,
                      record.key = context'[end].tx_key
               PROVE  FALSE
    BY DEF SealedBelow
  <2>1. record.key[1] = pairings + 1
    BY KeyFacts
  <2> QED BY <2>1, <1>1 DEF SecretsPast
<1>6. WindowCovers' /\ WindowEarned'
  <2>1. \A end \in Ends : ~context'[end].rx_initialized
    BY DEF NewContextOf, ClientContext, ServerContext, NewContext
  <2>2. \A end \in Ends : \A i \in DOMAIN opened[end] :
           opened[end][i].key # context'[end].rx_key
    BY <1>1, KeyFacts DEF SecretsPast
  <2> QED BY <2>1, <2>2 DEF WindowCovers, WindowEarned
<1>7. NoncesUnique' /\ OpenedInOrder'
  BY DEF NoncesUnique, OpenedInOrder
<1> QED BY <1>2, <1>3, <1>4, <1>5, <1>6, <1>7

LEMMA DestroyIInv == ASSUME NEW end \in Ends PROVE IInv /\ Destroy(end) => IInv'
<1> SUFFICES ASSUME IInv, Destroy(end) PROVE IInv'
  OBVIOUS
<1> USE DEF Destroy, IInv
<1>1. Destroyed \in Contexts
  BY SessionBounds DEF Destroyed, NewContext, Contexts, Keys, ClientToServer, NoSecret, Secrets
<1>2. TypeOK'
  BY <1>1 DEF TypeOK
<1>3. \A other \in live' : other \in live /\ context'[other] = context[other]
  BY DEF TypeOK
<1>4. KeysCurrent' /\ SecretsPast' /\ SealedBelow'
  BY <1>3 DEF KeysCurrent, SecretsPast, SealedBelow
<1>5. WindowCovers' /\ WindowEarned'
  BY <1>3 DEF WindowCovers, WindowEarned
<1>6. NoncesUnique' /\ OpenedInOrder'
  BY DEF NoncesUnique, OpenedInOrder
<1> QED BY <1>2, <1>4, <1>5, <1>6

\* Consuming a sequence number, with or without a record to show for it.
LEMMA AfterSealFacts ==
  ASSUME NEW end \in Ends, TypeOK, CanSeal(end),
         context' = [context EXCEPT ![end] = AfterSeal(@)]
  PROVE  /\ context' \in [Ends -> Contexts]
         /\ context'[end].tx_sequence = context[end].tx_sequence + 1
         /\ \A other \in Ends :
              /\ other # end => context'[other] = context[other]
              /\ context'[other].tx_key = context[other].tx_key
              /\ context'[other].rx_key = context[other].rx_key
              /\ context'[other].rx_highest = context[other].rx_highest
              /\ context'[other].rx_initialized = context[other].rx_initialized
<1>1. context \in [Ends -> Contexts] /\ context[end] \in Contexts
  BY DEF TypeOK
<1>2. AfterSeal(context[end]) \in Contexts
  <2>1. context[end].tx_sequence + 1 \in 0 .. MaxSequence
    BY <1>1, SessionBounds DEF Contexts, CanSeal
  <2> QED BY <1>1, <2>1 DEF AfterSeal, Contexts
<1>3. /\ AfterSeal(context[end]).tx_sequence = context[end].tx_sequence + 1
      /\ AfterSeal(context[end]).tx_key = context[end].tx_key
      /\ AfterSeal(context[end]).rx_key = context[end].rx_key
      /\ AfterSeal(context[end]).rx_highest = context[end].rx_highest
      /\ AfterSeal(context[end]).rx_initialized = context[end].rx_initialized
  BY <1>1 DEF AfterSeal, Contexts
<1>4. /\ context' \in [Ends -> Contexts]
      /\ context'[end] = AfterSeal(context[end])
      /\ \A other \in Ends : other # end => context'[other] = context[other]
  BY <1>1, <1>2
<1> HIDE DEF AfterSeal
<1> QED BY <1>3, <1>4

LEMMA SealFailsIInv == ASSUME NEW end \in Ends PROVE IInv /\ SealFails(end) => IInv'
<1> SUFFICES ASSUME IInv, SealFails(end) PROVE IInv'
  OBVIOUS
<1> USE DEF SealFails, IInv
<1>0. /\ context' \in [Ends -> Contexts]
      /\ context'[end].tx_sequence = context[end].tx_sequence + 1
      /\ \A other \in Ends :
           /\ other # end => context'[other] = context[other]
           /\ context'[other].tx_key = context[other].tx_key
           /\ context'[other].rx_key = context[other].rx_key
           /\ context'[other].rx_highest = context[other].rx_highest
           /\ context'[other].rx_initialized = context[other].rx_initialized
  BY AfterSealFacts
<1>1. TypeOK'
  BY <1>0 DEF TypeOK
<1>2. live \subseteq Ends
  BY DEF TypeOK
<1>3. KeysCurrent' /\ SecretsPast'
  BY <1>0, <1>2 DEF KeysCurrent, SecretsPast
<1>4. SealedBelow'
  <2> SUFFICES ASSUME NEW other \in live, NEW record \in wire,
                      record.key = context'[other].tx_key
               PROVE  record.sequence < context'[other].tx_sequence
    BY DEF SealedBelow
  <2>1. record.sequence < context[other].tx_sequence
    BY <1>0, <1>2 DEF SealedBelow
  <2>2. record.sequence \in Nat /\ context[other].tx_sequence \in Nat
    BY <1>2 DEF TypeOK, Records, Contexts
  <2> QED BY <1>0, <1>2, <2>1, <2>2
<1>5. WindowCovers' /\ WindowEarned'
  BY <1>0, <1>2 DEF WindowCovers, WindowEarned
<1>6. NoncesUnique' /\ OpenedInOrder'
  BY DEF NoncesUnique, OpenedInOrder
<1> QED BY <1>1, <1>3, <1>4, <1>5, <1>6

LEMMA SealIInv ==
  ASSUME NEW end \in Ends, NEW aad \in Headers PROVE IInv /\ Seal(end, aad) => IInv'
<1> SUFFICES ASSUME IInv, Seal(end, aad) PROVE IInv'
  OBVIOUS
<1> DEFINE new == Sealed(context[end], aad, Len(issued[end]) + 1)
<1>1. /\ CanSeal(end)
      /\ context' = [context EXCEPT ![end] = AfterSeal(@)]
      /\ wire' = wire \cup {new}
      /\ issued' = [issued EXCEPT ![end] = Append(@, aad)]
      /\ UNCHANGED <<pairings, live, opened>>
  BY DEF Seal
<1>2. /\ new.key = context[end].tx_key /\ new.sequence = context[end].tx_sequence
      /\ new \in Records
  <2>1. context[end] \in Contexts /\ issued[end] \in Seq(Headers)
    BY DEF IInv, TypeOK
  <2>2. Len(issued[end]) + 1 \in Nat \ {0}
    BY <2>1
  <2> QED BY <2>1, <2>2 DEF Sealed, Contexts, Records
<1> HIDE DEF new
<1> USE DEF IInv
<1>3. live \subseteq Ends /\ end \in live
  BY <1>1 DEF TypeOK, CanSeal
<1>0. /\ context' \in [Ends -> Contexts]
      /\ context'[end].tx_sequence = context[end].tx_sequence + 1
      /\ \A other \in Ends :
           /\ other # end => context'[other] = context[other]
           /\ context'[other].tx_key = context[other].tx_key
           /\ context'[other].rx_key = context[other].rx_key
           /\ context'[other].rx_highest = context[other].rx_highest
           /\ context'[other].rx_initialized = context[other].rx_initialized
  BY <1>1, AfterSealFacts
<1>4. TypeOK'
  BY <1>0, <1>1, <1>2 DEF TypeOK
<1>5. KeysCurrent'
  BY <1>1, <1>3, <1>0 DEF KeysCurrent
<1>6. SecretsPast'
  <2>1. new.key[1] <= pairings
    BY <1>2, <1>3, KeyFacts, SessionBounds DEF KeysCurrent, TypeOK, Secrets
  <2> QED BY <1>1, <2>1 DEF SecretsPast
<1>7. SealedBelow'
  <2> SUFFICES ASSUME NEW other \in live, NEW record \in wire',
                      record.key = context'[other].tx_key
               PROVE  record.sequence < context'[other].tx_sequence
    BY <1>1 DEF SealedBelow
  <2>1. record.key = context[other].tx_key
    BY <1>1, <1>3, <1>0
  <2>2. /\ context[other].tx_sequence \in Nat
        /\ context[end].tx_sequence \in Nat
        /\ record.sequence \in Nat
    BY <1>1, <1>2, <1>3 DEF TypeOK, Records, Contexts
  <2>3. CASE record \in wire
    <3>1. record.sequence < context[other].tx_sequence
      BY <2>1, <2>3 DEF SealedBelow
    <3> QED BY <3>1, <2>2, <1>1, <1>3, <1>0
  <2>4. CASE record = new
    <3>1. other = end
      BY <2>4, <2>1, <1>2, <1>3, KeyFacts DEF KeysCurrent
    <3> QED BY <3>1, <2>4, <2>2, <1>1, <1>2, <1>0
  <2> QED BY <1>1, <2>3, <2>4
<1>8. WindowCovers' /\ WindowEarned'
  BY <1>1, <1>3, <1>0 DEF WindowCovers, WindowEarned
<1>9. NoncesUnique'
  <2>1. \A record \in wire : record.key = new.key => record.sequence # new.sequence
    <3> SUFFICES ASSUME NEW record \in wire, record.key = new.key,
                        record.sequence = new.sequence
                 PROVE  FALSE
      OBVIOUS
    <3>1. record.sequence < context[end].tx_sequence
      BY <1>2, <1>3 DEF SealedBelow
    <3>2. context[end].tx_sequence \in Nat
      BY <1>3 DEF TypeOK, Contexts
    <3> QED BY <3>1, <3>2, <1>2
  <2> QED BY <1>1, <2>1 DEF NoncesUnique
<1>10. OpenedInOrder'
  BY <1>1 DEF OpenedInOrder
<1> QED BY <1>4, <1>5, <1>6, <1>7, <1>8, <1>9, <1>10

LEMMA OpenIInv ==
  ASSUME NEW end \in Ends, NEW record \in wire, NEW aad \in Headers
  PROVE  IInv /\ Open(end, record, aad) => IInv'
<1> SUFFICES ASSUME IInv, Open(end, record, aad) PROVE IInv'
  OBVIOUS
<1> DEFINE new == [sequence |-> record.sequence, key |-> record.key,
                   position |-> record.plaintext, header |-> aad]
<1>1. /\ end \in live
      /\ Opens(context[end], record, aad)
      /\ context' = [context EXCEPT ![end] = AfterOpen(@, record)]
      /\ opened' = [opened EXCEPT ![end] = Append(@, new)]
      /\ UNCHANGED <<pairings, live, wire, issued>>
  BY DEF Open
<1>2. /\ new.key = record.key /\ new.sequence = record.sequence
      /\ new \in Openings
  BY DEF IInv, TypeOK, Records, Openings
<1> HIDE DEF new
<1> USE DEF IInv
<1>3. live \subseteq Ends
  BY DEF TypeOK
<1>4. /\ context' \in [Ends -> Contexts]
      /\ context'[end].rx_initialized
      /\ context'[end].rx_highest = record.sequence
      /\ \A other \in Ends :
           /\ other # end => context'[other] = context[other]
           /\ context'[other].tx_key = context[other].tx_key
           /\ context'[other].rx_key = context[other].rx_key
           /\ context'[other].tx_sequence = context[other].tx_sequence
  BY <1>1 DEF TypeOK, AfterOpen, Contexts, Records
<1>5. /\ opened[end] \in Seq(Openings)
      /\ opened' \in [Ends -> Seq(Openings)]
      /\ \A other \in Ends : other # end => opened'[other] = opened[other]
      /\ opened'[end] = Append(opened[end], new)
  BY <1>1, <1>2 DEF TypeOK
<1> DEFINE n == Len(opened[end])
<1>6. /\ n \in Nat
      /\ DOMAIN opened[end] = 1 .. n
      /\ DOMAIN opened'[end] = 1 .. n + 1
      /\ opened'[end][n + 1] = new
      /\ \A i \in 1 .. n : opened'[end][i] = opened[end][i] /\ opened[end][i] \in Openings
  BY <1>2, <1>5
<1> HIDE DEF n
<1>7. record.key = context[end].rx_key
  BY <1>1 DEF Opens, Authentic
\* Everything opened before under this key is older.
<1>8. \A i \in 1 .. n : opened[end][i].key = record.key
                          => opened[end][i].sequence < record.sequence
  <2> SUFFICES ASSUME NEW i \in 1 .. n, opened[end][i].key = record.key
               PROVE  opened[end][i].sequence < record.sequence
    OBVIOUS
  <2>1. context[end].rx_initialized /\ opened[end][i].sequence <= context[end].rx_highest
    BY <1>1, <1>6, <1>7 DEF WindowCovers
  <2>2. ~(record.sequence <= context[end].rx_highest)
    BY <1>1, <2>1 DEF Opens, Replayed
  <2>3. record.sequence \in Nat
    BY DEF TypeOK, Records
  <2>4. context[end].rx_highest \in Nat
    BY DEF TypeOK, Contexts
  <2>5. opened[end][i].sequence \in Nat
    BY <1>6 DEF Openings
  <2> QED BY <2>1, <2>2, <2>3, <2>4, <2>5
<1>9. TypeOK'
  BY <1>1, <1>4, <1>5 DEF TypeOK
<1>10. KeysCurrent' /\ SealedBelow'
  BY <1>1, <1>3, <1>4 DEF KeysCurrent, SealedBelow
<1>11. SecretsPast'
  <2>1. record.key[1] <= pairings
    BY DEF SecretsPast
  <2>2. \A i \in DOMAIN opened'[end] : opened'[end][i].key[1] <= pairings
    BY <2>1, <1>2, <1>6 DEF SecretsPast
  <2> QED BY <2>2, <1>1, <1>5 DEF SecretsPast
<1>12. WindowCovers'
  <2> SUFFICES ASSUME NEW other \in live, NEW i \in DOMAIN opened'[other],
                      opened'[other][i].key = context'[other].rx_key
               PROVE  /\ context'[other].rx_initialized
                      /\ opened'[other][i].sequence <= context'[other].rx_highest
    BY <1>1 DEF WindowCovers
  <2>1. CASE other # end
    BY <2>1, <1>3, <1>4, <1>5 DEF WindowCovers
  <2>2. CASE other = end /\ i \in 1 .. n
    <3>1. opened[end][i].sequence < record.sequence
      BY <2>2, <1>4, <1>6, <1>7, <1>8
    <3>2. opened[end][i].sequence \in Nat /\ record.sequence \in Nat
      BY <2>2, <1>6 DEF TypeOK, Records, Openings
    <3> QED BY <2>2, <3>1, <3>2, <1>4, <1>6
  <2>3. CASE other = end /\ i = n + 1
    <3>1. record.sequence \in Nat
      BY DEF TypeOK, Records
    <3> QED BY <2>3, <3>1, <1>2, <1>4, <1>6
  <2> QED BY <2>1, <2>2, <2>3, <1>6
<1>13. WindowEarned'
  <2> SUFFICES ASSUME NEW other \in live, context'[other].rx_initialized
               PROVE  \E i \in DOMAIN opened'[other] :
                         /\ opened'[other][i].key = context'[other].rx_key
                         /\ opened'[other][i].sequence = context'[other].rx_highest
    BY <1>1 DEF WindowEarned
  <2>1. CASE other # end
    <3>1. other \in Ends /\ opened'[other] = opened[other] /\ context'[other] = context[other]
      BY <2>1, <1>3, <1>4, <1>5
    <3> QED BY <3>1 DEF WindowEarned
  <2>2. CASE other = end
    <3>1. n + 1 \in DOMAIN opened'[end]
      BY <1>6
    <3>2. /\ opened'[end][n + 1].key = context'[end].rx_key
          /\ opened'[end][n + 1].sequence = context'[end].rx_highest
      BY <1>2, <1>4, <1>6, <1>7
    <3> QED BY <2>2, <3>1, <3>2
  <2> QED BY <2>1, <2>2
<1>14. NoncesUnique'
  BY <1>1 DEF NoncesUnique
<1>15. OpenedInOrder'
  <2> SUFFICES ASSUME NEW other \in Ends,
                      NEW i \in DOMAIN opened'[other], NEW j \in DOMAIN opened'[other],
                      i < j, opened'[other][i].key = opened'[other][j].key
               PROVE  opened'[other][i].sequence < opened'[other][j].sequence
    BY DEF OpenedInOrder
  <2>1. CASE other # end
    BY <2>1, <1>5 DEF OpenedInOrder
  <2>2. CASE other = end /\ j \in 1 .. n
    <3>1. i \in 1 .. n
      BY <2>2, <1>6
    <3> QED BY <2>2, <3>1, <1>6 DEF OpenedInOrder
  <2>3. CASE other = end /\ j = n + 1
    <3>1. i \in 1 .. n
      BY <2>3, <1>6
    <3> QED BY <2>3, <3>1, <1>2, <1>6, <1>8
  <2> QED BY <2>1, <2>2, <2>3, <1>6
<1> QED BY <1>9, <1>10, <1>11, <1>12, <1>13, <1>14, <1>15

LEMMA NextIInv == IInv /\ [Next]_vars => IInv'
<1>1. ASSUME IInv, UNCHANGED vars PROVE IInv'
  BY <1>1 DEF vars, IInv, TypeOK, KeysCurrent, SecretsPast, SealedBelow, WindowCovers,
     WindowEarned, NoncesUnique, OpenedInOrder
<1>2. ASSUME IInv, Next PROVE IInv'
  BY <1>1, <1>2, PairIInv, DestroyIInv, SealFailsIInv, SealIInv, OpenIInv
     DEF Next, OpenRefused
<1> QED BY <1>1, <1>2

LEMMA SpecIInv == Spec => []IInv
  BY InitIInv, NextIInv, PTL DEF Spec

\* Every variable of the session pair keeps its type.
THEOREM TypeCorrect == Spec => []TypeOK
<1>1. IInv => TypeOK
  BY DEF IInv
<1> QED BY <1>1, SpecIInv, PTL

\* No key ever seals two records under one sequence number (oqs_seal).
THEOREM NoncesNeverRepeat == Spec => []NoncesUnique
<1>1. IInv => NoncesUnique
  BY DEF IInv
<1> QED BY <1>1, SpecIInv, PTL

\* Records of one key open at most once, in the order of sealing (oqs_open).
THEOREM OpeningOrdered == Spec => []OpenedInOrder
<1>1. IInv => OpenedInOrder
  BY DEF IInv
<1> QED BY <1>1, SpecIInv, PTL

\* Nothing an end is handed makes it refuse a newer record of its peer.
THEOREM NeverLockedOut == Spec => []NoLockout
<1>1. IInv => NoLockout
  <2> SUFFICES ASSUME IInv, NEW end \in live, NEW record \in wire,
                      record.key = context[end].rx_key,
                      \A i \in DOMAIN opened[end] :
                         opened[end][i].key = record.key
                           => opened[end][i].sequence < record.sequence
               PROVE  Opens(context[end], record, record.aad)
    BY DEF NoLockout
  <2>1. Authentic(context[end], record, record.aad)
    BY DEF Authentic
  <2>2. ~Replayed(context[end], record)
    <3> SUFFICES ASSUME context[end].rx_initialized,
                        record.sequence <= context[end].rx_highest
                 PROVE  FALSE
      BY DEF Replayed
    <3>1. context[end].rx_highest < record.sequence
      BY DEF IInv, WindowEarned
    <3>2. record.sequence \in Nat /\ context[end].rx_highest \in Nat
      BY DEF IInv, TypeOK, Records, Contexts
    <3> QED BY <3>1, <3>2
  <2> QED BY <2>1, <2>2 DEF Opens
<1> QED BY <1>1, SpecIInv, PTL

-----------------------------------------------------------------------------
\* The pair of sessions implements the channel: Seal is Send, Open is Receive,
\* and everything else is a stutter.  What Open delivers is tied to what was
\* sealed through the records on the wire.

Direction(end) == IF end = Client THEN "client_to_server" ELSE "server_to_client"

\* A record carries a message its sender issued.
WireIssued ==
  \A record \in wire : \A end \in Ends :
     record.key[2] = Direction(end) =>
       /\ record.plaintext \in DOMAIN issued[end]
       /\ issued[end][record.plaintext] = record.aad

\* In each direction messages are sealed in order: pairing after pairing, and
\* by sequence number within one.
WireOrdered ==
  \A r1, r2 \in wire :
     /\ r1.key[2] = r2.key[2]
     /\ r1.key[1] < r2.key[1] \/ (r1.key = r2.key /\ r1.sequence < r2.sequence)
     => r1.plaintext < r2.plaintext

\* What an end opened was on the wire, from its peer.
OpenedFromWire ==
  \A end \in Ends : \A i \in DOMAIN opened[end] :
     /\ opened[end][i].key[2] = Direction(Peer(end))
     /\ \E record \in wire :
          /\ record.key = opened[end][i].key
          /\ record.sequence = opened[end][i].sequence
          /\ record.plaintext = opened[end][i].position

ChannelInv == WireIssued /\ WireOrdered /\ OpenedFromWire

LEMMA EndFacts ==
  ASSUME NEW end \in Ends, NEW secret
  PROVE  /\ Peer(end) \in Ends /\ Peer(Peer(end)) = end
         /\ TxKey(end, secret)[2] = Direction(end)
         /\ RxKey(end, secret) = TxKey(Peer(end), secret)
         /\ \A other \in Ends : Direction(other) = Direction(end) => other = end
  BY EndsDiffer DEF Ends, Peer, TxKey, RxKey, Direction, ClientToServer, ServerToClient

\* A key is its secret and its direction.
LEMMA KeyParts ==
  ASSUME NEW k1 \in Keys(Secrets), NEW k2 \in Keys(Secrets)
  PROVE  /\ k1[1] = k2[1] /\ k1[2] = k2[2] => k1 = k2
         /\ k1[1] \in Nat
  BY DEF Keys, Secrets

LEMMA InitChannelInv == Init => ChannelInv
  BY DEF Init, ChannelInv, WireIssued, WireOrdered, OpenedFromWire

\* The new record is of the latest pairing and above all others of its key.
LEMMA SealChannelInv ==
  ASSUME IInv, ChannelInv, NEW end \in Ends, NEW aad \in Headers, Seal(end, aad)
  PROVE  ChannelInv'
<1> DEFINE record == Sealed(context[end], aad, Len(issued[end]) + 1)
           n == Len(issued[end])
<1>1. /\ end \in live /\ wire' = wire \cup {record}
      /\ issued' = [issued EXCEPT ![end] = Append(@, aad)] /\ opened' = opened
  BY DEF Seal, CanSeal
<1>2. /\ record.key = TxKey(end, pairings) /\ record.key[1] = pairings
      /\ record.key[2] = Direction(end)
      /\ record.sequence = context[end].tx_sequence /\ record.plaintext = n + 1
      /\ record.aad = aad
  BY <1>1, KeyFacts, EndFacts DEF Sealed, IInv, KeysCurrent
<1> HIDE DEF record
<1>3. /\ issued[end] \in Seq(Headers) /\ n \in Nat /\ DOMAIN issued[end] = 1 .. n
      /\ DOMAIN issued'[end] = 1 .. n + 1 /\ issued'[end][n + 1] = aad
      /\ \A i \in 1 .. n : issued'[end][i] = issued[end][i]
      /\ \A other \in Ends : other # end => issued'[other] = issued[other]
  BY <1>1 DEF IInv, TypeOK
<1> HIDE DEF n
<1>4. ASSUME NEW r \in wire, r.key[2] = Direction(end)
      PROVE  /\ r.plaintext \in 1 .. n
             /\ ~(pairings < r.key[1])
             /\ r.key = record.key => r.sequence < record.sequence
  <2>1. r.plaintext \in 1 .. n
    BY <1>3, <1>4 DEF ChannelInv, WireIssued
  <2>2. r.key[1] <= pairings /\ r.key[1] \in Nat /\ pairings \in Nat
    BY KeyParts DEF IInv, SecretsPast, TypeOK, Records, Secrets
  <2>3. r.key = record.key => r.sequence < record.sequence
    BY <1>1, <1>2, KeyFacts DEF IInv, SealedBelow, KeysCurrent
  <2> QED BY <2>1, <2>2, <2>3
<1>5. WireIssued'
  <2> SUFFICES ASSUME NEW r \in wire', NEW other \in Ends, r.key[2] = Direction(other)
               PROVE  r.plaintext \in DOMAIN issued'[other] /\ issued'[other][r.plaintext] = r.aad
    BY DEF WireIssued
  <2>1. CASE r = record
    <3>1. other = end
      BY <1>2, <2>1, EndFacts
    <3> QED BY <1>2, <1>3, <2>1, <3>1
  <2>2. CASE r # record /\ other = end
    <3>1. r \in wire
      BY <1>1, <2>2
    <3>2. r.plaintext \in 1 .. n /\ issued[end][r.plaintext] = r.aad
      BY <1>4, <2>2, <3>1 DEF ChannelInv, WireIssued
    <3> QED BY <1>3, <2>2, <3>2
  <2>3. CASE r # record /\ other # end
    <3>1. r \in wire
      BY <1>1, <2>3
    <3> QED BY <1>3, <2>3, <3>1 DEF ChannelInv, WireIssued
  <2> QED BY <2>1, <2>2, <2>3
<1>6. WireOrdered'
  <2> SUFFICES ASSUME NEW r1 \in wire', NEW r2 \in wire',
                      r1.key[2] = r2.key[2],
                      r1.key[1] < r2.key[1] \/ (r1.key = r2.key /\ r1.sequence < r2.sequence)
               PROVE  r1.plaintext < r2.plaintext
    BY DEF WireOrdered
  <2>1. CASE r1 \in wire /\ r2 \in wire
    BY <2>1 DEF ChannelInv, WireOrdered
  <2>2. CASE r1 \in wire /\ r2 = record
    BY <1>2, <1>3, <1>4, <2>2
  <2>3. CASE r1 = record /\ r2 \in wire
    <3>1. ~(pairings < r2.key[1]) /\ (r2.key = record.key => r2.sequence < record.sequence)
      BY <1>2, <1>4, <2>3
    <3>2. record.sequence \in Nat /\ r2.sequence \in Nat
      BY <1>2, <2>3 DEF IInv, TypeOK, Contexts, Records
    <3> QED BY <1>2, <2>3, <3>1, <3>2
  <2>4. CASE r1 = record /\ r2 = record
    <3>1. record.sequence \in Nat /\ pairings \in Nat
      BY <1>2 DEF IInv, TypeOK, Contexts, Secrets
    <3> QED BY <1>2, <2>4, <3>1
  <2> QED BY <1>1, <2>1, <2>2, <2>3, <2>4
<1>7. OpenedFromWire'
  BY <1>1 DEF ChannelInv, OpenedFromWire
<1> QED BY <1>5, <1>6, <1>7 DEF ChannelInv

\* What Open appends, and where it came from: a record of the latest pairing,
\* sealed by the peer under the header the caller presents.
LEMMA OpenFacts ==
  ASSUME IInv, ChannelInv, NEW end \in Ends, NEW record \in wire, NEW aad \in Headers,
         Open(end, record, aad)
  PROVE  LET new == [sequence |-> record.sequence, key |-> record.key,
                     position |-> record.plaintext, header |-> aad]
             n == Len(opened[end])
         IN /\ n \in Nat /\ DOMAIN opened[end] = 1 .. n /\ DOMAIN opened'[end] = 1 .. n + 1
            /\ opened' = [opened EXCEPT ![end] = Append(@, new)]
            /\ opened'[end][n + 1] = new
            /\ \A i \in 1 .. n : opened'[end][i] = opened[end][i]
            /\ \A other \in Ends : other # end => opened'[other] = opened[other]
            /\ new.key = RxKey(end, pairings) /\ new.key[1] = pairings
            /\ new.key[2] = Direction(Peer(end))
            /\ record.plaintext \in DOMAIN issued[Peer(end)]
            /\ issued[Peer(end)][record.plaintext] = aad
<1> DEFINE new == [sequence |-> record.sequence, key |-> record.key,
                   position |-> record.plaintext, header |-> aad]
<1>1. /\ end \in live /\ record.key = context[end].rx_key /\ record.aad = aad
      /\ opened' = [opened EXCEPT ![end] = Append(@, new)]
  BY DEF Open, Opens, Authentic
<1>2. new \in Openings
  BY DEF IInv, TypeOK, Records, Openings
<1>3. record.key = RxKey(end, pairings) /\ new.key = record.key
  BY <1>1 DEF IInv, KeysCurrent
<1> HIDE DEF new
<1>4. opened \in [Ends -> Seq(Openings)]
  BY DEF IInv, TypeOK
<1>5. /\ Len(opened[end]) \in Nat /\ DOMAIN opened[end] = 1 .. Len(opened[end])
      /\ DOMAIN opened'[end] = 1 .. Len(opened[end]) + 1
      /\ opened'[end][Len(opened[end]) + 1] = new
      /\ \A i \in 1 .. Len(opened[end]) : opened'[end][i] = opened[end][i]
      /\ \A other \in Ends : other # end => opened'[other] = opened[other]
  BY <1>1, <1>2, <1>4
<1>6. /\ record.key[1] = pairings /\ record.key[2] = Direction(Peer(end))
  BY <1>3, KeyFacts, EndFacts
<1>7. /\ record.plaintext \in DOMAIN issued[Peer(end)]
      /\ issued[Peer(end)][record.plaintext] = aad
  BY <1>1, <1>6, EndFacts DEF ChannelInv, WireIssued
<1> QED BY <1>1, <1>3, <1>5, <1>6, <1>7 DEF new

LEMMA OpenChannelInv ==
  ASSUME IInv, ChannelInv, NEW end \in Ends, NEW record \in wire, NEW aad \in Headers,
         Open(end, record, aad)
  PROVE  ChannelInv'
<1> DEFINE new == [sequence |-> record.sequence, key |-> record.key,
                   position |-> record.plaintext, header |-> aad]
           n == Len(opened[end])
<1>1. /\ n \in Nat /\ DOMAIN opened[end] = 1 .. n /\ DOMAIN opened'[end] = 1 .. n + 1
      /\ opened'[end][n + 1] = new
      /\ \A i \in 1 .. n : opened'[end][i] = opened[end][i]
      /\ \A other \in Ends : other # end => opened'[other] = opened[other]
      /\ new.key[2] = Direction(Peer(end))
  BY OpenFacts
<1>2. new.key = record.key /\ new.sequence = record.sequence /\ new.position = record.plaintext
  OBVIOUS
<1>3. wire' = wire /\ issued' = issued
  BY DEF Open
<1> HIDE DEF new, n
<1>4. OpenedFromWire'
  <2> SUFFICES ASSUME NEW other \in Ends, NEW i \in DOMAIN opened'[other]
               PROVE  /\ opened'[other][i].key[2] = Direction(Peer(other))
                      /\ \E r \in wire : /\ r.key = opened'[other][i].key
                                        /\ r.sequence = opened'[other][i].sequence
                                        /\ r.plaintext = opened'[other][i].position
    BY <1>3 DEF OpenedFromWire
  <2>1. CASE other # end
    <3>1. opened'[other] = opened[other]
      BY <1>1, <2>1
    <3> QED BY <3>1 DEF ChannelInv, OpenedFromWire
  <2>2. CASE other = end /\ i = n + 1
    BY <1>1, <1>2, <2>2
  <2>3. CASE other = end /\ i \in 1 .. n
    <3>1. opened'[other][i] = opened[end][i] /\ i \in DOMAIN opened[end]
      BY <1>1, <2>3
    <3> QED BY <2>3, <3>1 DEF ChannelInv, OpenedFromWire
  <2> QED BY <1>1, <2>1, <2>2, <2>3
<1> QED BY <1>3, <1>4 DEF ChannelInv, WireIssued, WireOrdered

LEMMA NextChannelInv == IInv /\ ChannelInv /\ [Next]_vars => ChannelInv'
<1>1. ASSUME ChannelInv, UNCHANGED <<wire, issued, opened>> PROVE ChannelInv'
  BY <1>1 DEF ChannelInv, WireIssued, WireOrdered, OpenedFromWire
<1>2. ASSUME UNCHANGED vars \/ Pair \/ \E end \in Ends : Destroy(end) \/ SealFails(end)
      PROVE  UNCHANGED <<wire, issued, opened>>
  BY <1>2 DEF vars, Pair, Destroy, SealFails
<1>3. ASSUME NEW end \in Ends, NEW record \in wire, NEW aad \in Headers,
             OpenRefused(end, record, aad)
      PROVE  UNCHANGED <<wire, issued, opened>>
  BY <1>3 DEF OpenRefused, vars
<1> QED BY <1>1, <1>2, <1>3, SealChannelInv, OpenChannelInv DEF Next

LEMMA SpecChannelInv == Spec => [](IInv /\ ChannelInv)
  BY InitIInv, NextIInv, InitChannelInv, NextChannelInv, PTL DEF Spec

\* The channel's received messages, as the refinement mapping reads them.
Messages(openings) ==
  [i \in DOMAIN openings |-> [position |-> openings[i].position, header |-> openings[i].header]]
Received == [end \in Ends |-> Messages(opened[end])]

LEMMA SealSends ==
  ASSUME NEW end \in Ends, NEW aad \in Headers, Seal(end, aad)
  PROVE  Channel!Send(end, aad)
<1>1. issued' = [issued EXCEPT ![end] = Append(@, aad)] /\ opened' = opened
  BY DEF Seal
<1> QED BY <1>1 DEF Channel!Send

\* The last message an end received is older than the record it opens: of an
\* earlier pairing, or below the replay window.
LEMMA LastOlder ==
  ASSUME IInv, ChannelInv, NEW end \in Ends, NEW record \in wire, NEW aad \in Headers,
         Open(end, record, aad), Len(opened[end]) # 0
  PROVE  opened[end][Len(opened[end])].position < record.plaintext
<1> DEFINE new == [sequence |-> record.sequence, key |-> record.key,
                   position |-> record.plaintext, header |-> aad]
           n == Len(opened[end])
           last == opened[end][n]
<1>1. /\ n \in Nat /\ DOMAIN opened[end] = 1 .. n /\ DOMAIN opened'[end] = 1 .. n + 1
      /\ opened'[end][n + 1] = new
      /\ \A i \in 1 .. n : opened'[end][i] = opened[end][i]
      /\ new.key[1] = pairings
      /\ new.key[2] = Direction(Peer(end))
  BY OpenFacts
<1>2. n \in DOMAIN opened[end] /\ opened'[end][n] = last
  BY <1>1
<1>3. IInv'
  BY OpenIInv
<1>4. new.key = record.key /\ new.sequence = record.sequence
  OBVIOUS
<1> HIDE DEF n, last, new
<1>5. last.key = record.key => last.sequence < record.sequence
  <2>1. n \in DOMAIN opened'[end] /\ n + 1 \in DOMAIN opened'[end] /\ n < n + 1
    BY <1>1, <1>2
  <2> QED BY <1>1, <1>2, <1>3, <1>4, <2>1 DEF IInv, OpenedInOrder
<1>6. last.key[2] = record.key[2] /\ last.key[1] <= pairings
  BY <1>1, <1>2, <1>4 DEF last, IInv, SecretsPast, ChannelInv, OpenedFromWire
<1>7. PICK r \in wire : /\ r.key = last.key /\ r.sequence = last.sequence
                        /\ r.plaintext = last.position
  BY <1>2 DEF last, ChannelInv, OpenedFromWire
<1>8. r.key \in Keys(Secrets) /\ record.key \in Keys(Secrets) /\ pairings \in Nat
  BY DEF IInv, TypeOK, Records, Secrets
<1>9. r.key[1] < record.key[1] \/ (r.key = record.key /\ r.sequence < record.sequence)
  <2>1. r.key[1] < record.key[1] \/ r.key[1] = record.key[1]
    BY <1>1, <1>6, <1>7, <1>8, <1>4, KeyParts
  <2>2. r.key[1] = record.key[1] => r.key = record.key
    BY <1>6, <1>7, <1>8, KeyParts
  <2> QED BY <1>5, <1>7, <2>1, <2>2
<1> QED BY <1>6, <1>7, <1>9 DEF last, n, ChannelInv, WireOrdered

LEMMA OpenReceives ==
  ASSUME IInv, ChannelInv, NEW end \in Ends, NEW record \in wire, NEW aad \in Headers,
         Open(end, record, aad)
  PROVE  /\ record.plaintext \in DOMAIN issued[Peer(end)]
         /\ Channel!Receive(end, record.plaintext)
<1> DEFINE new == [sequence |-> record.sequence, key |-> record.key,
                   position |-> record.plaintext, header |-> aad]
           n == Len(opened[end])
           message == [position |-> record.plaintext, header |-> issued[Peer(end)][record.plaintext]]
<1>1. /\ n \in Nat /\ DOMAIN opened[end] = 1 .. n /\ DOMAIN opened'[end] = 1 .. n + 1
      /\ opened'[end][n + 1] = new
      /\ \A i \in 1 .. n : opened'[end][i] = opened[end][i]
      /\ \A other \in Ends : other # end => opened'[other] = opened[other]
      /\ record.plaintext \in DOMAIN issued[Peer(end)]
      /\ issued[Peer(end)][record.plaintext] = aad
  BY OpenFacts
<1>2. issued' = issued
  BY DEF Open
<1>3. n # 0 => opened[end][n].position < record.plaintext
  BY LastOlder
<1> HIDE DEF n
<1>4. Messages(opened'[end]) = Append(Messages(opened[end]), message)
  <2>1. new.position = record.plaintext /\ new.header = aad
    OBVIOUS
  <2> HIDE DEF new
  <2> QED BY <1>1, <2>1 DEF Messages
<1>5. Received' = [Received EXCEPT ![end] = Append(@, message)]
  <2>1. ASSUME NEW other \in Ends, other # end
        PROVE  Messages(opened'[other]) = Messages(opened[other])
    <3>1. opened'[other] = opened[other]
      BY <1>1, <2>1
    <3> QED BY <3>1
  <2>2. Received' = [other \in Ends |-> Messages(opened'[other])]
    BY DEF Received, Messages
  <2> HIDE DEF new, message
  <2> QED BY <1>4, <2>1, <2>2 DEF Received
<1>6. Received[end] # <<>> => Channel!Last(Received[end]).position < record.plaintext
  <2>1. DOMAIN Received[end] = 1 .. n /\ Len(Received[end]) = n
    BY <1>1 DEF Received, Messages
  <2>2. n = 0 => Received[end] = <<>>
    BY <1>1 DEF Received, Messages
  <2>3. n # 0 => Received[end][n].position = opened[end][n].position
    BY <1>1 DEF Received, Messages
  <2> QED BY <1>3, <2>1, <2>2, <2>3 DEF Channel!Last
<1>7. Channel!Peer(end) = Peer(end)
  BY DEF Channel!Peer, Peer
<1>8. Channel!Receive(end, record.plaintext) <=>
        /\ Received[end] # <<>> => Channel!Last(Received[end]).position < record.plaintext
        /\ Received' = [Received EXCEPT ![end] = Append(@,
             [position |-> record.plaintext,
              header |-> issued[Channel!Peer(end)][record.plaintext]])]
        /\ UNCHANGED issued
  BY DEF Channel!Receive, Received, Messages
<1> QED BY <1>1, <1>2, <1>5, <1>6, <1>7, <1>8

LEMMA NextImplementsChannel ==
  IInv /\ ChannelInv /\ [Next]_vars => [Channel!ChannelNext]_(Channel!channelVars)
<1>1. ASSUME UNCHANGED vars \/ Pair \/ \E end \in Ends : Destroy(end) \/ SealFails(end)
      PROVE  UNCHANGED Channel!channelVars
  BY <1>1 DEF vars, Pair, Destroy, SealFails, Channel!channelVars
<1>2. ASSUME NEW end \in Ends, NEW record \in wire, NEW aad \in Headers,
             OpenRefused(end, record, aad)
      PROVE  UNCHANGED Channel!channelVars
  BY <1>2 DEF OpenRefused, vars, Channel!channelVars
<1>3. ASSUME NEW end \in Ends, NEW aad \in Headers, Seal(end, aad) PROVE Channel!ChannelNext
  BY <1>3, SealSends DEF Channel!ChannelNext, Channel!Ends, Ends
<1>4. ASSUME IInv, ChannelInv, NEW end \in Ends, NEW record \in wire, NEW aad \in Headers,
             Open(end, record, aad)
      PROVE  Channel!ChannelNext
  <2>1. Channel!Peer(end) = Peer(end)
    BY DEF Channel!Peer, Peer
  <2> QED BY <1>4, <2>1, OpenReceives DEF Channel!ChannelNext, Channel!Ends, Ends
<1> QED BY <1>1, <1>2, <1>3, <1>4 DEF Next

\* The session pair implements an ordered, at-most-once, authentic channel in
\* each direction (adaptive_security_seal and adaptive_security_open).
THEOREM ImplementsChannel == Spec => ChannelSpec
<1>1. Init => Channel!ChannelInit
  BY DEF Init, Channel!ChannelInit, Channel!Ends, Ends
<1> QED BY <1>1, SpecChannelInv, NextImplementsChannel, PTL
    DEF Spec, ChannelSpec, Channel!ChannelSpec

=============================================================================
