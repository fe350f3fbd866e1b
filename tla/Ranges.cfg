SPECIFICATION Spec
CONSTANTS
  W = 4
  Functions <- Pass
INVARIANTS
  TypeOK
  Covered
  NoneUnknown
  FixpointReached
PROPERTIES
  LeftAlone
  Terminates
CHECK_DEADLOCK FALSE
