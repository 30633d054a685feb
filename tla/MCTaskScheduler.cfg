SPECIFICATION FairSpec
CONSTANTS
  t1 = t1
  t2 = t2
  x = x
  y = y
  Task = {t1, t2}
  Agent = {x, y}
  NoTask = NoTask
  NoAgent = NoAgent
  MaxLanes = 2
  Capable <- MCCapable
  Plans <- MCPlans
  MaxAttempts = 2
  MaxInfra = 1
  Lease = 1
  Beat = 1
  Gap = 1
  Timeout = 2
  Grace = 1
  Stalled = 1
  MaxFaults = 1
INVARIANTS OneRunPerTask
PROPERTIES LiveRunIsKept CompletedIsKept EverythingSettles
CHECK_DEADLOCK FALSE
