SPECIFICATION CSpec
CONSTANTS
  Vods = {a, b}
  Lives = {x}
  None = None
  End = 2
  MaxRequests = 3
  MaxFaults = 0
INVARIANTS
  LiveNeverParked
CHECK_DEADLOCK FALSE
