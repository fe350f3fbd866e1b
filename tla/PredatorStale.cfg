SPECIFICATION Spec
CONSTANTS
  Outputs <- SomeOutputs
  LineOnly <- NoColumn
  Users <- TwoPointers
  Earlier <- Success
INVARIANT FailureSaysMaybe
CHECK_DEADLOCK FALSE
