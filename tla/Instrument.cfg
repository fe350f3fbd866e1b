SPECIFICATION Spec
CONSTANTS
  Functions <- Order
  Programs <- TwoFunctions
  Omitted <- Skipped
  Reachable <- EitherReach
  Facts <- PlainFacts
  Globals <- OneGlobal
  Setups <- AllSetups
INVARIANTS
  TypeOK
  ProgramKept
  FrameBracket
  LeakCheckIffAllocates
  AccessesChecked
  CheckedObjectsRegistered
  MarkedUnlessVetoed
  DoneMeansLinkable
PROPERTIES
  Terminates
CHECK_DEADLOCK FALSE
