--------------------------- MODULE MCGeneratedApp ---------------------------
(***************************************************************************)
(* GeneratedApp for TLC: the shapes that differ in what they run.          *)
(***************************************************************************)
EXTENDS GeneratedApp, TLC

CONSTANTS c1, c2, r1, r2

Device == [backend |-> FALSE, auth |-> FALSE, realtime |-> FALSE,
           noun |-> "plain", acts |-> 5, faults |-> 0]
Shop == [Device EXCEPT !.backend = TRUE, !.noun = "keyword"]
Board == [Device EXCEPT !.backend = TRUE, !.realtime = TRUE]
Shaky == [Board EXCEPT !.acts = 4, !.faults = 1]
Clinic == [Board EXCEPT !.auth = TRUE, !.acts = 4]

AllShapes == {Device, Shop, Board, Shaky, Clinic}
LiveShapes == {Board}
LocalShapes == {Device}

Symmetry == Permutations({c1, c2}) \cup Permutations({r1, r2})
=============================================================================
