CONSTANTS
  Draft <- MCDraft
  MaxArtifacts = 2
  MaxEdits = 1
  MaxRuns = 2
SPECIFICATION DeliverySpec
INVARIANTS
  PassedGatesDeliver
  DeliveredIsSound
CHECK_DEADLOCK FALSE
