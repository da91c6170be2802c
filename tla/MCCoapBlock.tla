----------------------------- MODULE MCCoapBlock -----------------------------
(***************************************************************************)
(* Instances of CoapBlock: calls around every boundary of the encodings,   *)
(* the largest packets of the pipeline, and a few small packets each byte  *)
(* of which is changed to every value.                                     *)
(***************************************************************************)
EXTENDS CoapBlock

String(length, byte) == [i \in 1 .. length |-> byte]

\* The numbers on both sides of each change of length, as four bytes.
Numbers == {Zero, <<0, 0, 0, 1>>, <<0, 0, 0, 255>>, <<0, 0, 1, 0>>, <<0, 0, 255, 255>>,
            <<0, 1, 0, 0>>, <<0, 255, 255, 255>>, <<1, 0, 0, 0>>, <<255, 255, 255, 255>>}
BlockNumbers == {0, 1, 15, 16, 4095, 4096, 1048575, 1048576}

Telemetry == String(9, 116)
Format42 == <<0, 0, 0, 42>>
Sent == [type |-> 0, code |-> 2, message_id |-> 4660, token |-> <<0, 0, 1, 2>>,
         block_number |-> 1, more |-> 1, szx |-> 2, content_format |-> Format42,
         size1 |-> <<0, 0, 1, 90>>, payload |-> <<255, 7>>]
Call(block, path, capacity) == [block |-> block, path |-> path, capacity |-> capacity]
Largest == ADAPTIVE_MAX_COAP_PACKET

NumberCalls ==
  {Call([Sent EXCEPT !.content_format = format, !.size1 = size1, !.szx = szx],
        <<Telemetry>>, Largest) :
     format \in Numbers, size1 \in Numbers, szx \in {0, 6}}
  \cup {Call([Sent EXCEPT !.block_number = number, !.more = more, !.szx = szx],
             <<Telemetry>>, Largest) :
     number \in BlockNumbers, more \in {0, 1}, szx \in {0, 6, 7}}
TokenCalls ==
  {Call([Sent EXCEPT !.token = String(length, 9), !.type = type, !.payload = String(payload, 255)],
        <<Telemetry>>, 64) : length \in {0, 1, 4, 8, 9}, type \in 0 .. 3, payload \in 0 .. 2}
PathCalls ==
  {Call(Sent, path, Largest) :
     path \in {<<>>, <<<<>>>>, <<<<>>, <<>>>>, <<<<>>, Telemetry>>, <<Telemetry, <<>>>>,
               <<Telemetry, <<>>, Telemetry>>}
              \cup {<<String(length, 97), Telemetry>> :
                      length \in {1, 12, 13, 14, 268, 269, 270, 600, 65804, 65805}}}
CapacityCalls ==
  {Call([Sent EXCEPT !.payload = String(payload, 1)], <<Telemetry>>, capacity) :
     payload \in {0, 1, 4}, capacity \in 0 .. 34}

\* The longest paths the configuration holds, with records that fill a block.
PipelineCalls ==
  {Call([Sent EXCEPT !.szx = szx, !.payload = String(2 ^ (szx + 4), 5), !.content_format = format,
                     !.block_number = 4095, !.size1 = <<0, 0, 9, 9>>], path, Largest) :
     szx \in {0, 6}, format \in {Format42, <<255, 255, 255, 255>>},
     path \in {<<String(63, 97)>>, [i \in 1 .. 32 |-> <<97>>], <<String(49, 97), String(13, 98)>>}}

Few == {Call([Sent EXCEPT !.content_format = format, !.payload = <<7>>], <<<<97>>>>, Largest) :
          format \in {Format42, <<0, 1, 0, 42>>}}
       \cup {Call([Sent EXCEPT !.block_number = 0, !.more = 0, !.size1 = Zero],
                  <<<<97>>>>, Largest)}

SomeCalls ==
  NumberCalls \cup TokenCalls \cup PathCalls \cup CapacityCalls \cup PipelineCalls \cup Few

=============================================================================
