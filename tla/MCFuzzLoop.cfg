SPECIFICATION Spec
CONSTANTS
  Inputs = {init, i1, i2}
  Seeds = {i1}
  DefaultSeed = init
  NoHash = NoHash
  Feedbacks = {"MockBitmapCoverage", "UniqueInput"}
  MaxIterations = 2
  MaxRuns = 2
  MaxFaults = 2
INVARIANTS
  TypeOK
  FeedbackSeesThisExecution
  KnownMatchesCorpus
  FeedbackAddsOnce
  EveryCrashIsKept
  CrashAddsOnlyRepeats
  CorpusNeverEmpty
PROPERTY CampaignEnds
CHECK_DEADLOCK FALSE
