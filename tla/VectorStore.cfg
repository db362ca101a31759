SPECIFICATION FairSpec
CONSTANTS
  Workers = {w1, w2}
  NoWorker = none
  Docs = {"d1", "d2"}
  Batches = 2
  MaxFaults = 1
  Requests <- MCRequests
INVARIANTS
  RaceFailsOncePerWorker
PROPERTIES
  IndexedBecomesSearchable
