SPECIFICATION FairSpec
CONSTANTS
  Sessions = {s1}
  Conns = {c1, c2}
  Workers = {w1, w2}
  EventWorker = ew
  Scores = {0, 50}
  None = None
  Unknown = Unknown
  RollingCount = 2
  MeanThreshold = 30
  MaxThreshold = 50
  MaxWindows = 2
  BatchWindows = 2
  MaxFrames = 2
INVARIANTS
  NoVerdictLost
PROPERTIES
  WindowsResolve
  VerdictsDelivered
CHECK_DEADLOCK FALSE
