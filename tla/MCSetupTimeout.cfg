SPECIFICATION Spec
CONSTANTS
  Programs = {"app", "other"}
  Arguments <- MCArguments
  Timeouts = {0, 500}
  Iterations = {0, 7}
  Keys = {"", "default_dummy", "elsewhere"}
INVARIANT TimeoutByPrecedence
CHECK_DEADLOCK FALSE
