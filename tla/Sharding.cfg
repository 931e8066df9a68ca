CONSTANTS
  Null = Null
  NoAddr = NoAddr
  a1 = a1
  a2 = a2
  a3 = a3
  b1 = b1
  b2 = b2
  c1 = c1
  Group <- Nodes
  Configured <- Leaders
  Announced <- Loopback
  FirstMap <- TwoPartitions
  Extra <- NewPartition
  Keys <- MCKeys
  MaxRows = 2
  MaxStatements = 4
  MaxFaults = 2
  MaxCrashes = 1
  MaxFailovers = 2
  MaxTrouble = 2
SPECIFICATION Spec
SYMMETRY Followers
INVARIANTS AckedVisible OneCopy PruneComplete RoutesToLeader
CHECK_DEADLOCK FALSE
