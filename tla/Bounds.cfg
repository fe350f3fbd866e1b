SPECIFICATION Spec
CONSTANTS
  W = 3
  Objects <- FourObjects
  MaxTargets = 2
  RealSize <- Sizes
  Ranges <- OneOrTwoBytes
  RangedChecks <- BothChecks
INVARIANTS
  UncheckedMeansValid
  OneCheckEach
  PassedMeansValid
  RightList
  FailMeansInvalid
CHECK_DEADLOCK FALSE
