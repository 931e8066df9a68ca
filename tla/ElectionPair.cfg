SPECIFICATION Spec
CONSTANTS
  n1 = n1
  n2 = n2
  n3 = n3
  None = None
  Nodes = {n1, n2}
  BootLeader = n1
  Lsn <- LsnPair
  VoteReplies = FALSE
  MaxTerm = 3
  MaxInFlight = 3
  MaxRestarts = 2
  MaxWork = 5
INVARIANTS WritesFollowRole
PROPERTIES PersistedTermGrows SurvivorTakesOver
CHECK_DEADLOCK FALSE
