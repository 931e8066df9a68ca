SPECIFICATION Spec
CONSTANTS
  a = a
  b = b
  Rows = {a, b}
  MaxBatch = 2
  Indexed = FALSE
  Statements = {"insert", "flush"}
  GateAnswers = {TRUE}
  WalCheckpointLen = 9
  FlushThreshold = 9
  PageCapacity = 2
  MaxStatements = 4
  MaxCrashes = 1
SYMMETRY RowSymmetry
INVARIANTS Durable
CHECK_DEADLOCK FALSE
