SPECIFICATION Spec
CONSTANTS
  W = 4
  Bits <- Widths
  Bounds <- Ends
  Opcodes = {"add", "sub", "mul", "sdiv", "trunc"}
INVARIANTS
  NoOverflowUnseen
  AlarmMeansOverflow
  FalseIsRight
CHECK_DEADLOCK FALSE
