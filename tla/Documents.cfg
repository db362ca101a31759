SPECIFICATION Spec
CONSTANTS
  Workers = {w1, w2}
  MaxRows = 3
  MaxCalls = 3
  MaxFaults = 2
CHECK_DEADLOCK FALSE
INVARIANTS
  FailsByFaultOnly
  IndexedHasPoints
PROPERTIES
  SaveTextIsAtomic
