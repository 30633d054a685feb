CONSTANTS
  Project = {shop, diary}
  Schema = {s1, s2}
  Deployer = {d1, d2}
  Limit = 3
  MaxDeploys = 4
  MaxHygiene = 1
SYMMETRY Symmetric
SPECIFICATION Spec
INVARIANTS
  LiveDatabaseStays
  TablesMatch
