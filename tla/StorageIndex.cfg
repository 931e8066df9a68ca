SPECIFICATION Spec
CONSTANTS
  a = a
  b = b
  Rows = {a, b}
  MaxBatch = 2
  Indexed = TRUE
  Statements = {"insert", "delete", "delete_all", "update", "flush", "vacuum"}
  GateAnswers = {TRUE, FALSE}
  WalCheckpointLen = 5
  FlushThreshold = 3
  PageCapacity = 2
  MaxStatements = 4
  MaxCrashes = 1
PROPERTIES AlwaysReturns
INVARIANTS CheckDecidesUniqueness UniqueUntainted IndexExact IndexScanExact
CHECK_DEADLOCK FALSE
