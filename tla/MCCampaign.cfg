SPECIFICATION Spec
CONSTANTS
  Inputs = {init, i1}
  Seeds = {i1}
  DefaultSeed = init
  NoHash = NoHash
  Feedbacks = {"MockBitmapCoverage"}
  MaxIterations = 1
  MaxRuns = 2
  Unreadable = Unreadable
  NoDescr = NoDescr
  MaxEntries = 6
  MaxDiskFaults = 1
  MaxCrashes = 1
  Modes = {"stdin"}
  Lengths = {1}
  PipeCapacity = 1
  MaxOps = 1
  Deadline = 1
  MaxExecFaults = 1
INVARIANTS
  DeliveredCrashOnDisk
  SeedsOncePerProcess
  UnrunKeptOnlyIfTold
PROPERTIES
  ImplementsFuzzLoop
  CampaignEnds
CHECK_DEADLOCK FALSE
