SPECIFICATION AnySpec
CONSTANTS
  NumObservers = 2
  Modes = {"stdin", "file"}
  Lengths = {0, 1, 2, 3}
  PipeCapacity = 2
  MaxOps = 3
  Deadline = 2
  MaxFaults = 2
INVARIANTS
  TypeOK
  NoStrayTarget
  TempFileScope
  VerdictIsTrue
  NoFalseTimeout
  DeliveredCrashReported
  PanicIsCrash
PROPERTIES
  ImplementsExecutor
  FittingExecuteReturns
CHECK_DEADLOCK FALSE
