SPECIFICATION CSpec
CONSTANTS
  Vods = {a, b}
  Lives = {x}
  None = None
  End = 2
  MaxRequests = 3
  MaxFaults = 2
INVARIANTS
  CurrentNamesFile
  ParkedPlaceSaved
PROPERTIES
  WatchedIsRecorded
  RequestsEnd
  TransitionEnds
CHECK_DEADLOCK FALSE
