SPECIFICATION Spec
CONSTANTS
  Outputs <- SomeOutputs
  LineOnly <- NoColumn
  Users <- TwoPointers
  Earlier <- NoSuccess
INVARIANTS
  TrueMeansAnalysed
  OkMeansAllReports
PROPERTY Ends
CHECK_DEADLOCK FALSE
