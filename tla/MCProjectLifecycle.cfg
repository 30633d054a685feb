\* One tick at a time, a cut, restart, write lost or other fault at any moment, a founder
\* that decides once.
SPECIFICATION FairSpec
CONSTANTS
  Work = {"app"}
  GATES <- ThreeGates
  Twin = {"build2"}
  TwinType <- TwinOfBuild
  Tick = {k1}
  NoTick = NoTick
  MaxLanes = 1
  MaxFaults = 1
  MaxVerdicts = 1
INVARIANTS
  ParkedCommandsWait
  DeliveredMeansDone
PROPERTIES
  DeliveryIsKept
  GatesComeInOrder
  CommandEnds
