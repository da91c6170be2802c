------------------------------- MODULE MCCodec -------------------------------
(***************************************************************************)
(* Windows of 8 and 16 coefficients, a few of them varied over zero, small *)
(* and large magnitudes of both signs, one full window of 256, and counts  *)
(* the transform refuses; and windows of many other lengths, for the       *)
(* transform alone.  The filter is one of the integers modulo 97.          *)
(***************************************************************************)
EXTENDS Codec, TLC

Tap == <<52, 96, 63, 10, 1, 40, 85, 55>>
LowModulo97 == [k \in Taps |-> Tap[k + 1]]

Window(count, varied) == [i \in 0 .. count - 1 |-> IF i \in DOMAIN varied THEN varied[i] ELSE 0]
Call(window, levels, bits, threshold, capacity) ==
  [window |-> window, levels |-> levels, quant_bits |-> bits, threshold |-> threshold,
   capacity |-> capacity, state |-> 3, window_id |-> 7]

SomeCalls ==
  {Call(Window(8, varied), 1, bits, threshold, ADAPTIVE_MAX_REPRESENTATION) :
     varied \in [{0, 3, 5} -> {0, -2, 9}], bits \in {2, 4, 15}, threshold \in {-1, 0, 2, 6}}
  \cup {Call(Window(8, (0 :> -20000) @@ (6 :> size)), 1, bits, 2, capacity) :
     size \in {-2, 9, 10000}, bits \in {4, 15}, capacity \in {31, 32, 35, 36}}
  \cup {Call(Window(16, varied), levels, bits, 0, ADAPTIVE_MAX_REPRESENTATION) :
     varied \in [{2, 15} -> {0, 5, -7}], levels \in {1, 2}, bits \in {2, 4}}
  \cup {Call(Window(count, 4 :> 3), levels, 2, 0, ADAPTIVE_MAX_REPRESENTATION) :
     count \in {7, 8, 9, 12, 16, 18, 20, 24, 32, 36, 40, 48, 64}, levels \in 1 .. 4}
  \cup {Call([i \in 0 .. 255 |-> i - 1000], 3, 15, -1, ADAPTIVE_MAX_REPRESENTATION)}

=============================================================================
