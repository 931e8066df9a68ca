SPECIFICATION Spec
CONSTANTS
  n1 = n1
  n2 = n2
  n3 = n3
  None = None
  Nodes = {n1, n2, n3}
  BootLeader = None
  Lsn <- LsnThree
  VoteReplies = TRUE
  MaxTerm = 2
  MaxInFlight = 3
  MaxRestarts = 1
  MaxWork = 2
SYMMETRY EqualPeers
INVARIANTS ElectedOnce WinnerNotBehind
CHECK_DEADLOCK FALSE
