SPECIFICATION SchemaFairSpec
CONSTANTS
  Program = {p1, p2}
  N = 2
  Engine = {"sqlite", "mysql"}
  MaxLaunches = 3
CHECK_DEADLOCK FALSE
INVARIANTS
  VersionsTellTables
PROPERTIES
  UpMeansCurrent
  ResetMeansEmpty
  VersionsPromise
  CommandsEnd
