SPECIFICATION FairSpec
CONSTANTS
  Chunks = {k1, k2}
  Colls = {c1, c2}
  CDC_DELETE_BATCH = 2
  Attempts = 2
  MaxFaults = 2
INVARIANTS
  OrphansHaveAnEvent
PROPERTIES
  LivePointsStay
  OrphansGoAway
