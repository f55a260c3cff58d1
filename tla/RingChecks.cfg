SPECIFICATION FairSpec
CONSTANTS
  Producers = {p1, p2}
  Drainer = drainer
  Main = main
  Capacity = 2
  MaxBatch = 2
  Sizes = {3}
  MaxCalls = 3
  None = None
INVARIANTS
  EveryDropCounted
  CopiesOwnedOnce
  ThreadOrderKept
PROPERTIES
  ImplementsEventQueue
  HooksNeverWait
