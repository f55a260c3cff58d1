SPECIFICATION FairSpec
CONSTANTS
  s1 = s1
  s2 = s2
  c1 = c1
  c2 = c2
  Sessions = {s1, s2}
  Conns = {c1, c2}
  Owner <- TwoClients
  Kinds = {"code", "launch"}
  QueueSize = 1
  VerdictSize = 1
  MaxBatch = 2
  MaxUnsent = 1
  MaxFrames = 2
  MaxVerdicts = 0
  None = None
PROPERTIES
  ProcessorNeverBlocks
