SPECIFICATION FairLockSpec
CONSTANTS
  Session = {s1, s2}
  NoSession = NoSession
  Lease = 4
  Beat = 1
  Budget = 6
INVARIANTS OverlapOnlyAfterLapse
PROPERTIES ImplementsExclusiveLease NoPermanentHold
CHECK_DEADLOCK FALSE
