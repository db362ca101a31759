SPECIFICATION PersistentSpec
CONSTANTS
  Messages = {"bad", "empty", "good", "garbled"}
  Kind <- MCKind
  Partitions = {1, 2}
  PartOf <- MCPartOf
  Dead <- MCDead
  Operators = {o1, o2}
  NoOperator = none
  Limit = 2
  MaxFaults = 3
INVARIANTS
  LettersConserved
PROPERTIES
  RunEnds
  ReachableLettersPutBack
