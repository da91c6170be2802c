----------------------------- MODULE MCNormalizer -----------------------------
(***************************************************************************)
(* Metrics that jump between zero, ten and a hundred, in both directions,  *)
(* and a hook that returns no number for one.                              *)
(***************************************************************************)
EXTENDS Normalizer, TLC

Metric(loss, goodput) == ("LOSS" :> loss) @@ ("GOODPUT" :> goodput)
SomeInputs == {Metric(0, 0), Metric(40, 400), Metric(400, 40), Metric(NotFinite, 40)}
SomeEpsilons == {-1, 0, 1, 40}

=============================================================================
