SPECIFICATION HalvesSpec
CONSTANTS
  first = first
  a = a  b = b  c = c
  Messages = {first}
  MaxRetryAttempts = 2
  MaxCalls = 2
  MaxAcks = 2
  MaxStarts = 3
  MaxSyncing = 1
  Contents = {a, b, c}
  DependsOn <- Dependencies
  Hinted = {a}
  Stored = {a}
  MayTimeOut = TRUE
  MaxQueries = 1
  MaxTasks = 2
  MaxSessions = 2
INVARIANTS RetriesBounded NoTaskTwice QuietAfterStop
INVARIANTS CountedOnce FirstSessionReported MissingIsWanted
PROPERTIES  WantedRetrieved
CHECK_DEADLOCK FALSE
