SPECIFICATION PartsSpec
CONSTANTS
  Parts = {"loops", "texts", "chunks", "verdicts", "samples", "splits", "kernels",
           "windows", "build", "captures",
           "registry", "frames"}
  NoAnswer = NoAnswer
  f = f
  g = g
  h = h
  x = x
  Listings <- ShortListings
  KernelTables <- TwoKernels
  LaunchLists <- ShortLaunchLists
  TextLengths = {1, 2, 3, 4, 5, 6, 7, 8, 9, 10, 11, 12}
  WindowSizes = {2, 3, 4, 5}
  CaptureTexts <- ShortCaptures
  SampleRuns <- SmallRuns
  CapturedSets <- SomeCaptures
  WindowCounts <- UnevenCounts
  SplitRatios <- UnevenRatios
  SafeNames <- DirectoryNames
  CanonicalNames <- SameNames
  CompactNames <- SameNames
  ContainedNames <- PartsOfNames
  CodeEvents <- FiveCodes
  Dumps <- FourDumps
  ToolSets <- Disassemblers
  KernelLaunches <- ShortKernelLaunches
  Groups = {g1, g2}
  Kernels = {1, 2}
  Launches <- MixedLaunches
  Budget = 3
  UseGate = TRUE
  Threshold = 65
  MaxLaunches = 6
  None = None
  SmallKernel = 2
  MinRegion = 2
  TargetRegion = 2
  MaxRegion = 3
  NoTarget = NoTarget
  TokenBudget = 6
  LoopBudget = 5
  ShortKernel = 2
  GateRatio = 50
  NoText = NoText
  LabelIds = {0, 1, 2}
  MiningId = 1
  BenignId = 0
  TopK = 2
  MaxThreshold = 90
  TopKThreshold = 60
  MeanThreshold = 50
  Error = Error
  WindowSec = 3
  StepSec = 2
  IntervalSec = 1
  MinRatio = 80
  NoTime = NoTime
  NoPid = NoPid
  SplitError = SplitError
  Absent = Absent
  Captures = {1, 2, 3, 4, 5, 6}
  Base <- OneWorkload
  Prefix <- IdPrefixes
  Kind <- Outcomes
  Builders = {1, 2}
  BuildOptions <- CommandLines
  MaxBuilds = 2
  NoCapture = 0
  PlannedRuns = 2
  MaxCommands = 2
  MaxCaptures = 2
  Other = Other
  AppThreads = {t1, t2}
  Owners = {h1, h2}
  KernelHandles = {k1}
  MaxLoads = 2
  MaxEvents = 2
  Unknown = Unknown
  FrameSizes = {1, 3}
  HeaderUnits = 2
  MaxWritten = 3
  TooLarge = TooLarge
SYMMETRY StreamSymmetry
INVARIANTS
  KeepsLongestSuffix
  EachCompositionOnce
  
  MainLoopIsLoop
  WindowTextFits
  
  SampleWindowsComplete
  GroupsStayWhole
  ResolvedKernelIsOwn
  NothingHalfBuilt
  ManifestHoldsOwnRuns
  LaunchNamesItsCode
  FramesIntact
CHECK_DEADLOCK FALSE
