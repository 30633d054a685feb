SPECIFICATION MCSpec
CONSTANTS
  i1 = i1
  i2 = i2
  p1 = p1
  p2 = p2
  Isolate = {i1, i2}
  NoOne = NoOne
  Put = {p1, p2}
  Limit = 2
  Critical = 2
  Guard = 1
  Safety = 2
  Bounds <- MCBounds
  Worker = {w1, w2}
  Slot = {s1, s2}
  Sweep = 3
  Dirty = 2
  Dead = 5
  Cooldown = 2
  Faults = 1
  Commands = 2
INVARIANTS NeverCountedTwice NothingSlipsPast WorkIsNeverWedged FreshWorkIsQuick
SYMMETRY Twins
CHECK_DEADLOCK FALSE
