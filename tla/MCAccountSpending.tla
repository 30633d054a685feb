------------------------- MODULE MCAccountSpending -------------------------
(***************************************************************************)
(* What keeps MAULI within the account's day: the budget of AccountBudget  *)
(* and the idle gate of CronTick.  The code keeps no state in common, so   *)
(* one of them moves in a behaviour and the other stays where it began.    *)
(***************************************************************************)
EXTENDS AccountBudget, CronTick, TLC

CONSTANTS i1, i2, p1, p2
VARIABLES part

MCBounds == {[midnights |-> 1, faults |-> 0], [midnights |-> 0, faults |-> 1]}
Twins == Permutations({i1, i2}) \cup Permutations({p1, p2})

MCInit ==
  /\ part \in {"budget", "gate"}
  /\ Init /\ GateInit
  /\ part = "budget" => minute = 0
  /\ part = "gate" => left.midnights = 1
MCNext ==
  /\ part' = part
  /\ \/ part = "budget" /\ Next /\ UNCHANGED gateVars
     \/ part = "gate" /\ GateNext /\ UNCHANGED vars
MCSpec == MCInit /\ [][MCNext]_<<vars, gateVars, part>>
=============================================================================
