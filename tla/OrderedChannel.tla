--------------------------- MODULE OrderedChannel ---------------------------
(***************************************************************************)
(* What a pair of security sessions promises the code above it: each end   *)
(* receives some of the messages its peer sent, under the header they were *)
(* sent with, each at most once and in the order they were sent.           *)
(***************************************************************************)
EXTENDS Naturals, Sequences, SequencesExt

CONSTANTS Headers, Client, Server

VARIABLES
  sent,       \* sent[end]: the headers of the messages it sent, in order
  received    \* received[end]: the messages it received, in order, as
              \* [position, header] with position an index of the peer's sent

Ends == {Client, Server}
Peer(end) == IF end = Client THEN Server ELSE Client

channelVars == <<sent, received>>

ChannelInit ==
  /\ sent = [end \in Ends |-> <<>>]
  /\ received = [end \in Ends |-> <<>>]

Send(end, header) ==
  /\ sent' = [sent EXCEPT ![end] = Append(@, header)]
  /\ UNCHANGED received

Receive(end, position) ==
  /\ received[end] # <<>> => Last(received[end]).position < position
  /\ received' = [received EXCEPT ![end] =
       Append(@, [position |-> position, header |-> sent[Peer(end)][position]])]
  /\ UNCHANGED sent

ChannelNext ==
  \E end \in Ends :
     \/ \E header \in Headers : Send(end, header)
     \/ \E position \in DOMAIN sent[Peer(end)] : Receive(end, position)

ChannelSpec == ChannelInit /\ [][ChannelNext]_channelVars

=============================================================================
