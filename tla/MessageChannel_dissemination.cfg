SPECIFICATION FairSpec
CONSTANTS
  alice = alice  bob = bob  carol = carol
  first = first  second = second  third = third  hello = hello
  Participants = {alice, bob}
  Payloads = {first, second, third}
  EphemeralPayloads = {}
  Authors <- AliceOnly
  IdRank <- Rank
  CausalHistorySize = 1
  PossibleAcksThreshold = 2
  LostTimeout = 0
  EnableRepair = FALSE
  FalsePositives = {}
  Outcomes = {"success"}
  Lossy = FALSE
  MaxCalls = 3
  MaxTasks = 1
  MaxSending = 1
  MaxTime = 0
  BufferSize = 2
  MaxRepairRequests = 1
  NoSender = NoSender
  ReqDelay <- RequestDelay
  RespDelay <- ResponseDelay
  SameGroup <- SingleGroup
PROPERTY Dissemination
