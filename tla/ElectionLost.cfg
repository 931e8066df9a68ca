SPECIFICATION Spec
CONSTANTS
  n1 = n1
  n2 = n2
  n3 = n3
  None = None
  Nodes = {n1, n2, n3}
  BootLeader = n1
  Lsn <- LsnThree
  VoteReplies = FALSE
  MaxTerm = 2
  MaxInFlight = 3
  MaxRestarts = 1
  MaxWork = 3
INVARIANT WinnerBecomesLeader
CHECK_DEADLOCK FALSE
