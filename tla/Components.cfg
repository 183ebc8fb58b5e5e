SPECIFICATION ComponentsSpec
CONSTANTS
  a = a  b = b  c = c  d = d
  me = me  peer = peer
  alice = alice  bob = bob  topic = topic  pubsub = pubsub  another = another
  n1 = n1  n2 = n2
  root = root  west = west  east = east  leaf1 = leaf1  leaf2 = leaf2
  Messages <- Stamped
  IdRank <- Rank
  MaxLength = 2
  MaxItems = 3
  MaxPushed = 8
  Self = me
  NoSender = NoSender
  Entries <- Three
  BufferSize = 2
  MaxRepairRequests = 1
  ReqDelay <- RequestDelay
  RespDelay <- ResponseDelay
  SameGroup <- SingleGroup
  MaxBatch = 2
  MaxTime = 1
  Zero = Zero  Undefined = Undefined  Version1 = Version1
  Scalars = {Zero, a}
  MaxFields = 2
  Unknown = 99
  SdsMessages <- SomeSdsMessages
  Encoders <- SomeEncoders
  EncodedSize <- Size
  Decoders <- SomeDecoders
  SUCCESS = SUCCESS  REJECTED = REJECTED
  RlnErrors = {"rln"}
  MaxMessages = 1
  MaxEncodings = 3
  MaxClock = 2
  Links <- SomeLinks
  FilterPeers = {n1}
  LightPushPeers = {n1, another}
  Assessments = {1, 2}
  None = None
  StreamUsers = {n1, n2, me}
  MaxStreams = 2
  MaxConnections = 1
  Nodes = {n1, n2}
  Unset = Unset  NoInfo = NoInfo
  ShardPeers = {n1, n2}
  CodecsOf <- Speaks
  ShardInfos <- ShardAnswers
  RecordInfos <- ShardRecords
  Mounted = {"relay", "store", "lightPush"}
  Waits = {{}, {"store", "lightPush"}, {"filter"}}
  Words = 4
  ListLimit = 2
  VectorBits = 3
  Trees = {root}
  TxtRecords <- SomeRecords
  FormerPeers = {n1}
  Walks = {1, 2}
  MaxGet = 2
  MaxErrors = 2
  MaxTriggers = 2
  Nobody = Nobody
  Servers = {n1}
  Answers <- SomeAnswers
  QueryIds = {1, 2, 3}
  MaxStops = 2
  NoShards = NoShards
INVARIANTS SetOfFirstStamps NewestEverPushed NothingLost WhatIsSentIsReceived
INVARIANTS HashesAgree SuccessMeansAccepted HealthyHasPeers SharedOnlyWithCreator
INVARIANTS OnStoredShards ResolvedByEvents QueriesBounded
PROPERTIES AnswersAccounted EventuallyAsked EventuallyAnswered WalksEnd
CHECK_DEADLOCK FALSE
