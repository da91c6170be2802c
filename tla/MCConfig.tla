------------------------------- MODULE MCConfig -------------------------------
(***************************************************************************)
(* Config with numbers on both sides of every test, and, for an unsigned,  *)
(* numbers that do not fit it.  "-1" is read by strtoul as the largest     *)
(* word; 36 is no power of two, although three levels can be shifted out   *)
(* of it.                                                                  *)
(***************************************************************************)
EXTENDS Config, TLC

SmallInputs ==
  ("wavelet.window_size" :> {0, 8, 36, 64, 256, 512, 2 ^ WordBits - 1})
  @@ ("wavelet.levels" :> {0, 1, 5, 6, WordBits, UnsignedRange + 1, 2 ^ WordBits - 1})
  @@ ("policy.quant_bits" :> {1, 2, 15, 16, UnsignedRange + 10})
  @@ ("policy.block_szx" :> {0, 6, 7, 258})
  @@ ("hmm.initial" :> {-100, 0, 50})
  @@ ("hmm.transition" :> {-1, 0})
  @@ ("rest" :> {0, 1})
=============================================================================
