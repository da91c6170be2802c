---------------------------- MODULE SecureRecord ----------------------------
(***************************************************************************)
(* The record layer behind adaptive_security_session_t, as operators on a  *)
(* direction-pair context (test_context_t in src/src/security_test.c; the  *)
(* ML-KEM provider keeps the same four fields and takes the same           *)
(* decisions in the same order).  Encryption is abstracted to the promise  *)
(* of an authenticated cipher: a record remembers the key, the associated  *)
(* data and the plaintext it was sealed with, and opens only under the     *)
(* same key and associated data, undamaged.                                *)
(***************************************************************************)
EXTENDS Naturals

\* The two directional keys derived from one secret: the seed of the test
\* provider, or the outcome of one ML-KEM exchange.
ClientToServer(secret) == <<secret, "client_to_server">>
ServerToClient(secret) == <<secret, "server_to_client">>

Keys(secrets) == secrets \X {"client_to_server", "server_to_client"}

\* A calloc'ed context: counters at zero, nothing received yet.
NewContext(tx, rx) ==
  [tx_key |-> tx, rx_key |-> rx, tx_sequence |-> 0,
   rx_highest |-> 0, rx_initialized |-> FALSE]

ClientContext(secret) == NewContext(ClientToServer(secret), ServerToClient(secret))
ServerContext(secret) == NewContext(ServerToClient(secret), ClientToServer(secret))

\* What seal returns for plaintext, and the context it leaves behind.
Sealed(context, aad, plaintext) ==
  [key |-> context.tx_key, sequence |-> context.tx_sequence,
   aad |-> aad, plaintext |-> plaintext]

\* Mutant of AfterSeal: the number is not consumed.
AfterSealKept(context) == context
AfterSeal(context) == [context EXCEPT !.tx_sequence = @ + 1]

\* Mutants of Replayed: the highest number opens again, nothing is refused,
\* the next number is refused too.
ReplayedBelow(context, record) ==
  context.rx_initialized /\ record.sequence < context.rx_highest
NeverReplayed(context, record) == FALSE
ReplayedUpToNext(context, record) ==
  context.rx_initialized /\ record.sequence <= context.rx_highest + 1

\* The replay window is one number: anything at or below it is refused.
Replayed(context, record) ==
  context.rx_initialized /\ record.sequence <= context.rx_highest

\* Mutant of Authentic: the associated data is not part of the tag.
AuthenticKeyOnly(context, record, aad) == record.key = context.rx_key

Authentic(context, record, aad) ==
  record.key = context.rx_key /\ record.aad = aad

Opens(context, record, aad) ==
  ~Replayed(context, record) /\ Authentic(context, record, aad)

\* Mutant of AfterOpen: the next number expected is stored, not the last seen.
AfterOpenNext(context, record) ==
  [context EXCEPT !.rx_highest = record.sequence + 1, !.rx_initialized = TRUE]

AfterOpen(context, record) ==
  [context EXCEPT !.rx_highest = record.sequence, !.rx_initialized = TRUE]

=============================================================================
