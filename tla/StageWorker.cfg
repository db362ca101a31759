SPECIFICATION FairSpec
CONSTANTS
  Workers = {w1, w2}
  NoWorker = NoWorker
  N = 3
  Malformed <- MCMalformed
  MaxAttempts = 2
  MaxFaults = 2
INVARIANTS
  NoSilentLoss
  InOrder
  RedeliveryNeedsFault
PROPERTIES
  OffsetMovesByOne
  PartitionDrains
  ImplementsPromise
