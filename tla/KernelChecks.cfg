SPECIFICATION Spec
CONSTANTS
  f = f
  g = g
  h = h
  None = None
  Torn = Torn
  SafeName <- SafeNames
  Canonical <- Itself
  Compact <- Itself
  Contained <- Parts
  Codes = {1, 2, 3}
  Functions <- FunctionsOfCode
  Names = {f, h}
  Workers = {w1, w2}
  CodeLimit = 1
  MaxLaunches = 2
INVARIANTS
  OwnKernelUnlessOverwritten
  NoGapsOnceReady
  
PROPERTIES
  EndedSessionLearnsNothing
CHECK_DEADLOCK FALSE
