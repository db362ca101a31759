SPECIFICATION FairSpec
CONSTANTS
  q1 = q1
  q2 = q2
  u1 = u1
  u2 = u2
  d1 = d1
  c1 = c1
  Requests = {q1, q2}
  Urls = {u1, u2}
  Docs = {d1}
  Colls = {c1}
  UrlOf <- MCUrlOf
  DocOf <- MCDocOf
  CollOf <- MCOneColl
  ForceOf <- MCForceOf
  BatchesOf <- MCBatches
  Workers <- MCWorkers
  MaxAttempts <- MCMaxAttempts
  MaxFaults <- MCFaults
  MaxReplays = 1
INVARIANTS
  TypeOK
  RequestsConserved
  EventsFollowStore
  IndexedIsAccepted
  SkippedWasAccepted
PROPERTIES
  StatusRegressesByRaceOnly
  EveryRequestEnds
