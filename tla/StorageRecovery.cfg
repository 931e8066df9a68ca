SPECIFICATION Spec
CONSTANTS
  a = a
  b = b
  Rows = {a, b}
  MaxBatch = 2
  Indexed = FALSE
  Statements = {"insert", "delete", "delete_all", "update", "flush", "vacuum"}
  GateAnswers = {TRUE, FALSE}
  WalCheckpointLen = 5
  FlushThreshold = 3
  PageCapacity = 1
  MaxStatements = 4
  MaxCrashes = 2
SYMMETRY RowSymmetry
INVARIANTS RecoveryExact StartFailsOnlyTorn
PROPERTIES LogDeletedWhenCovered
CHECK_DEADLOCK FALSE
