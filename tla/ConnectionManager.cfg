SPECIFICATION FairSpec
CONSTANTS
  alive = alive
  dead = dead
  Peers = {alive, dead}
  Bootstrap = {alive, dead}
  Rounds = {r1}
  Priority <- AliveFirst
  MaxDialingPeers = 1
  MaxConnections = 1
  MaxBootstrapPeers = 1
  AutoRecovery = TRUE
  MaxCalls = 1
  MaxReads = 1
  MaxUpsets = 1
  Reachable = {alive}
INVARIANT DialsAreBounded
PROPERTIES QueuedAreDialed NodeReconnects
