------------------------- MODULE MCProjectLifecycle -------------------------
(***************************************************************************)
(* Instances of ProjectLifecycle: a plan of one task, a chain of three     *)
(* gates with QA and integrity at its end, one tick or two.                *)
(***************************************************************************)
EXTENDS ProjectLifecycle, TLC

ThreeGates == <<"build", "qa", "integrity">>
NoTwins == [t \in {} |-> "build"]
TwinOfBuild == [t \in {"build2"} |-> "build"]

\* Ticks are told apart by nothing but what they have read.
Symmetry == Permutations(Tick)
=============================================================================
