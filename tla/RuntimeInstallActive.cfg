SPECIFICATION Spec
CONSTANTS
  Releases = {c1, c2}
  None = None
  MaxFaults = 0
  MaxInstalls = 2
INVARIANTS
  ActiveMeansRunning
CHECK_DEADLOCK FALSE
