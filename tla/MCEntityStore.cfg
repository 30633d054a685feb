SPECIFICATION CreatedSpec
CONSTANTS
  Isolate = {i1, i2}
  Nobody = Nobody
  Field = {f1, f2}
  Derived = {f1}
  MaxPuts = 3
  MaxRetries = 2
  MaxClock = 2
  MaxFaults = 1
  MaxEvents = 4
INVARIANTS CurrentCopyIsTrue
PROPERTIES VersionAdvances NothingOldComesBack
SYMMETRY Symmetry
CHECK_DEADLOCK FALSE
