SPECIFICATION ServicesSpec
CONSTANTS
  Pages = {p1, p2}
  Targets = {"a", "b"}
  PlayerOf <- MCPlayerOf
  Streams = {"u", "v", "w"}
  Private = {"w"}
  StreamKey <- MCStreamKey
  Cooldown = 2
  MaxClock = 3
  Workers = {"w1", "w2"}
  Candidates = 2
  MaxCrashes = 1
  Lookers = {l1, l2}
  Titles = {m1, m2}
  Parts = {"parts"}
  Occurrences = {o1, o2, o3}
  None = None
  MaxEpisode = 2
  Buttons <- MCButtons
  Mapped = {"ok", "a"}
  Pointers = {"f", "g"}
  MaxHold = 1
  MaxNow = 1
  Works = {d1, d2}
  Candidate = {"x"}
  Hunters = {t1, t2}
  NegativeTtl = 2
  TriedPages = 1
  MaxTicks = 2
  Captures = {r1, r2}
  Statements <- MCStatements
  MaxEdits = 2
  Packages = {k1, k2}
  Configs = {"c1", "c2"}
  Guards = {g1, g2}
  Media = {n1, n2}
  Flushers = {f1, f2}
  Nothing = Nothing
  BatchLimit = 2
  RetryBase = 1
  RetryCap = 2
  MaxSends = 2
  MaxSecond = 2
INVARIANTS
  ServicesTypeOK
  ProtectedLeftAlone
  SpoiledNeedsOverlap
  RecordsKept
  NegativeIsFresh
  AnnouncedOnce
  DownIsHeld
  DecisionIsTrue
  SnapshotIsOneVersion
  
  NewestReachesTrakt
CHECK_DEADLOCK FALSE
