SPECIFICATION ApiFairSpec
CONSTANTS
  Requests = {r1}
  MaxOutages = 2
INVARIANTS
  AnsweredIsAccepted
PROPERTIES
  TasksComeBack
  StopEnds
