SPECIFICATION Spec
CONSTANTS
  f1 = f1
  Followers = {f1}
  MaxWrites = 2
  MaxBatch = 5
  MaxLag = 3
  MaxApplied = 3
  MaxFlushes = 1
  MaxRejects = 1
  MaxFaults = 1
  Limit <- Limits
INVARIANTS ConfirmedExact
PROPERTIES GateHolds CatchesUp
CHECK_DEADLOCK FALSE
