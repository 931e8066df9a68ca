SPECIFICATION Spec
CONSTANTS
  FlushThreshold = 2
  PageCapacity = 1
  MergeThreshold = 4
  FirstSegments = 3
  MaxRows = 8
  MaxDeletes = 2
  MaxVacuums = 1
  MaxPasses = 1
  MaxCrashes = 1
INVARIANTS  ManifestComplete IdsResolve
CHECK_DEADLOCK FALSE
