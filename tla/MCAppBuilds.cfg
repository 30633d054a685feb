CONSTANTS
  Isolate = {w1, w2}
  File = {index, script}
  Index = index
  MaxBuilds = 2
  MaxAttempts = 2
  MaxFaults = 1
SYMMETRY Symmetric
SPECIFICATION Spec
INVARIANTS
  NewestGoesOn
  AloneIsWhole
  OfferedHasApp
CHECK_DEADLOCK FALSE
