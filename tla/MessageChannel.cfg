SPECIFICATION Spec
CONSTANTS
  alice = alice  bob = bob  carol = carol
  first = first  second = second  third = third  hello = hello
  Participants = {alice, bob}
  Payloads = {first, second}
  EphemeralPayloads = {hello}
  Authors <- OneAuthor
  IdRank <- Rank
  CausalHistorySize = 1
  PossibleAcksThreshold = 2
  LostTimeout = 0
  EnableRepair = FALSE
  FalsePositives = {}
  Outcomes = {"success", "failure"}
  Lossy = FALSE
  MaxCalls = 4
  MaxTasks = 1
  MaxSending = 2
  MaxTime = 0
  BufferSize = 2
  MaxRepairRequests = 1
  NoSender = NoSender
  ReqDelay <- RequestDelay
  RespDelay <- ResponseDelay
  SameGroup <- SingleGroup
INVARIANTS UniqueTimestamps DependenciesPrecede
PROPERTY ImplementsBroadcast
