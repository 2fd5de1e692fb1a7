SPECIFICATION Spec
CONSTANTS
  Fields <- MCFields
  Default <- MCDefault
  Objects <- MCObjects
  Undecodable = Undecodable
  Printable = {"x", "~"}
  max_mutation_depth = 3
  MinI64 <- MCMinI64
  MaxI64 = 4
  MaxU64 = 9
  Delta = 2
  MaxCalls = 3
INVARIANTS
  TypeOK
  FlipChangesOneByte
PROPERTIES
  DeepLeavesStay
  EndOfI64IsABarrier
  NonFiniteFloats
CHECK_DEADLOCK FALSE
