SPECIFICATION ASpec
CONSTANTS
  Items = {"i", "j"}
  Requests = {"p", "q"}
  NoHolder = "nobody"
  KeyOf <- MCKeyOf
  MaxWrites = 2
  Movers = {h1, h2}
  Sources = {s1, s2}
  Clips = {s2}
  MaxMoves = 2
  NoSource = NoSource
  MaxRevision = 2
  Jobs = {"page"}
  Askers = {t1, t2}
  Resolvers = {r1, r2}
  MaxRefreshes = 2
  Timers = {d1, d2, d3}
  NoTimer = NoTimer
  MaxGestures = 4
  MaxOutages = 1
INVARIANTS
  ReadIsCurrent
  MovedBeforePaused
PROPERTIES
  RequestWritesKept
  EventuallyResolved
  HeldButtonReleased
CHECK_DEADLOCK FALSE
