SPECIFICATION Spec
CONSTANTS
  NumObservers = 1
  Modes = {"stdin"}
  Lengths = {3}
  PipeCapacity = 2
  MaxOps = 1
  Deadline = 2
  MaxFaults = 0
PROPERTY ExecuteReturns
CHECK_DEADLOCK FALSE
