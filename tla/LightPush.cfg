SPECIFICATION FairSpec
CONSTANTS
  near = near  far = far  first = first  filter = filter
  Peers = {near, far}
  Messages = {first}
  Others = {filter}
  Requesters = {first, filter}
  NumPeersToUse = 1
  MaxAttempts = 2
  MaxConcurrent = 1
  MaxStarts = 2
INVARIANTS LockedAvailable InProgressCounted AttemptsBounded
PROPERTY TasksEnd
