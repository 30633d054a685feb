SPECIFICATION FairSpec
CONSTANTS
  p = p
  q = q
  Project = {p}
  Elsewhere = Elsewhere
  NoUrl = NoUrl
  Version = 2
  Caller = {c1}
  Limit = 1
  Faults = 1
INVARIANTS DeliveredWasRun
PROPERTIES EveryProjectGetsARun
CHECK_DEADLOCK FALSE
