SPECIFICATION Spec
CONSTANTS
  MaxKey = 3
  Keys <- KeyRange
  Capacity = 2
  MaxRows = 5
  FirstRows = 2
  MaxCrashes = 1
  OutOfDate = OutOfDate
INVARIANTS TreeShape RangeScanExact CleanMeansComplete
PROPERTY ImplementsIndex
CHECK_DEADLOCK FALSE
