SPECIFICATION Spec
CONSTANTS
  NumObservers = 1
  Modes = {"stdin"}
  Lengths = {1}
  PipeCapacity = 2
  MaxOps = 1
  Deadline = 2
  MaxFaults = 0
INVARIANT TargetCrashReported
