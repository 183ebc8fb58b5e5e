SPECIFICATION Spec
CONSTANTS
  alice = alice  bob = bob  carol = carol
  first = first  second = second  third = third  hello = hello
  Participants = {alice, bob}
  Payloads = {first, second}
  EphemeralPayloads = {}
  Authors <- AliceOnly
  IdRank <- Rank
  CausalHistorySize = 1
  PossibleAcksThreshold = 2
  LostTimeout = 1
  EnableRepair = TRUE
  FalsePositives = {}
  Outcomes = {"success"}
  Lossy = TRUE
  MaxCalls = 3
  MaxTasks = 1
  MaxSending = 1
  MaxTime = 2
  BufferSize = 2
  MaxRepairRequests = 1
  NoSender = NoSender
  ReqDelay <- RequestDelay
  RespDelay <- ResponseDelay
  SameGroup <- SingleGroup
INVARIANTS HistoryJustified RepairsNotReceived
