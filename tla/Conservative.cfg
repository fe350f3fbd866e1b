SPECIFICATION Spec
CONSTANTS
  W = 4
  Functions <- LateBody
INVARIANT Covered
CHECK_DEADLOCK FALSE
