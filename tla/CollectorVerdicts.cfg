SPECIFICATION Spec
CONSTANTS
  s1 = s1
  s2 = s2
  c1 = c1
  c2 = c2
  Sessions = {s1}
  Conns = {c1, c2}
  Owner <- Reconnect
  Kinds = {"process_info", "launch"}
  QueueSize = 1
  VerdictSize = 1
  MaxBatch = 1
  MaxUnsent = 2
  MaxFrames = 3
  MaxVerdicts = 2
  None = None
INVARIANTS
  VerdictFindsClientUnlessStale
