CONSTANTS
  CodeJob = {run}
  Contract = {k1, k2}
  FileAttempts = 3
  MaxRounds = 1
  QuotaLimit = 2
  MaxHangs = 1
SPECIFICATION GenerationSpec
INVARIANTS
  ShippedIsSound
  OutageCostsNothing
PROPERTIES
  GenerationEnds
