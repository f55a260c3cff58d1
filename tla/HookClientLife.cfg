SPECIFICATION FairSpec
CONSTANTS
  Capacity = 3
  MaxBatch = 2
  MaxEvents = 4
  MaxDials = 3
  MaxStats = 2
INVARIANTS
  IntroducedFirst
  WrittenOnceInOrder
  StoppedBeforeShutdown

  
CHECK_DEADLOCK FALSE
