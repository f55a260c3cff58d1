SPECIFICATION Spec
CONSTANTS
  Sessions = {s1}
  Conns = {c1}
  Workers = {w1, w2}
  EventWorker = ew
  Scores = {0, 40, 50}
  None = None
  Unknown = Unknown
  RollingCount = 2
  MeanThreshold = 30
  MaxThreshold = 50
  MaxWindows = 3
  BatchWindows = 3
  MaxFrames = 2
SYMMETRY WorkerSymmetry
INVARIANTS
  TypeOK
  ReleasedInWindowOrder
  DecisionsFollowPolicy
  TerminateOnce
PROPERTIES
  EndedSessionFrozen
  ImplementsVerdictStream
CHECK_DEADLOCK FALSE
