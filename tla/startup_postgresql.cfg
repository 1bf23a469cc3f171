SPECIFICATION StartupSpec
CONSTANTS
  Dialect = "postgresql"
  Copy = {"x1", "x2", "x3"}
  OwnedTables = {"t1", "t2"}
  MaxCopyDeaths = 1
INVARIANT NobodyCollides
CHECK_DEADLOCK FALSE
