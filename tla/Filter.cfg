CONSTANTS
  p1 = p1
  p2 = p2
  d1 = d1
  topic = topic
  Peers = {p1, p2}
  Silent = {}
  Decoders = {d1}
  ContentTopic <- OneTopic
  NumPeersToUse = 1
  PingsBeforeRenewed = 2
  Overlapping = FALSE
  MaxSubscriptions = 2
  MaxCalls = 2
  MaxOperations = 3
  MaxFaults = 1
SPECIFICATION Spec
INVARIANT HeardOnce
PROPERTY EventuallyServed
CHECK_DEADLOCK FALSE
