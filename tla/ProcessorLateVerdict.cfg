SPECIFICATION Spec
CONSTANTS
  Sessions = {s1}
  Conns = {c1}
  Workers = {w1, w2}
  EventWorker = ew
  Scores = {0, 50}
  None = None
  Unknown = Unknown
  RollingCount = 2
  MeanThreshold = 30
  MaxThreshold = 50
  MaxWindows = 2
  BatchWindows = 2
  MaxFrames = 2

INVARIANT EndedSessionQueuesNothing
CHECK_DEADLOCK FALSE
