SPECIFICATION Spec
CONSTANTS
  HeapAddr <- ThreeHeap
  StackAddr <- OneStack
  GlobalAddr <- OneGlobal
  MaxSize = 2
  MaxDepth = 1
  MallocReuse = "exact"
  ReallocReuse = "none"
  Frames = TRUE
  ScopeEnd = TRUE
  ScopeStart = TRUE
INVARIANTS
  TypeOK
  HeapMirrored
  GlobalsMirrored
  DerefVerdicts
  FreeVerdicts
  ReallocVerdicts
  LeakVerdict
CHECK_DEADLOCK FALSE
