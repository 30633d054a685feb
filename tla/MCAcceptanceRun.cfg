CONSTANTS
  Command <- MCCommand
  App <- MCApp
  Credential <- MCCredential
  LostCall <- Call
  Page <- MCPage
  MaxControls = 2
  Socket = {t1, t2, t3}
  Product <- MCProduct
  MaxWrites = 4
  Plan <- MCPlan
  Build <- MCBuild
  MaxAttempts = 1
  MaxHangs = 1
SPECIFICATION MCSpec
SYMMETRY Twins
INVARIANTS
  PassedIsTrue
  OwedIsRecorded
  PerfectAppPasses
  VerdictIsTrue
  ShimIsD1
  EveryWriteOnce
  JourneyIsTrue
