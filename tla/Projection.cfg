SPECIFICATION FairSpec
CONSTANTS
  Projectors = {a, b}
  NoProjector = NoProjector
  HISTORY_MAX = 2
  MaxEvents = 3
  MaxFaults = 1
INVARIANTS
  HistoryIsTheTimeline
  CommittedIsRecorded
  ProgressConverges
PROPERTIES
  IndexedStays
  EventsAreProjected
