---------------------------- MODULE MCHmmLearning ----------------------------
(***************************************************************************)
(* Instances of HmmLearning: the zeros of the default prior, a prior that  *)
(* has nothing but its diagonal, and one whose congestion never lasts.     *)
(***************************************************************************)
EXTENDS HmmLearning

DefaultPrior ==
  (States \X States) \ ((Relaxed \X {"RECOVERY"}) \cup ({"CONGESTED"} \X {"GOOD", "NORMAL"}))
Diagonal == {<<s, s>> : s \in States}
Restless == DefaultPrior \ {<<"CONGESTED", "CONGESTED">>}

Configured(prior, n, d, smoothing) ==
  [prior |-> prior, forgetting |-> <<n, d>>, smoothing |-> smoothing]

SomeConfigurations ==
  {Configured(prior, 1, 2, smoothing) :
     prior \in {DefaultPrior, Diagonal, Restless}, smoothing \in BOOLEAN}
  \cup {Configured(DefaultPrior, 3, 5, smoothing) : smoothing \in BOOLEAN}

=============================================================================
