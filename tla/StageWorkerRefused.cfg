SPECIFICATION Spec
CONSTANTS
  Workers = {w1}
  NoWorker = NoWorker
  N = 2
  Malformed <- MCMalformed
  MaxAttempts = 2
  MaxFaults = 1
INVARIANT NoLostWork
