SPECIFICATION FairSpec
CONSTANTS
  N = 4
  StatusOf <- MCStatusOf
  ByUrl <- MCByUrl
  Clients = {c1}
  HISTORY_MAX = 4
  BUFFER_MAX_EVENTS = 2
  QUEUE_MAXSIZE = 2
  SEEN_MAX = 4
  MaxFaults = 2
INVARIANTS
  TypeOK
  NoDuplicates
  NothingSlipsThrough
  StreamInOrder
PROPERTIES
  StreamEnds
