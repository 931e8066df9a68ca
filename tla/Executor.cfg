SPECIFICATION Spec
CONSTANTS
  Null = Null
  Err = Err
  NoEntry = NoEntry
  NoRange = NoRange
  NoSel = NoSel
  Half = 2
  FirstSize = 2
  BitmapPercent = 70
  RunLength = 1
  ByteBits = 3
  ChunkSize = 8
  PageCapacity = 3
  Cases <- MCCases
INVARIANTS AnswerExact FailsOnlyOnError ProbingReaches IndexChoosesSame
PROPERTY LockReleased
CHECK_DEADLOCK FALSE
