SPECIFICATION Spec
CONSTANTS
  HeapAddr <- ThreeHeap
  StackAddr <- OneStack
  GlobalAddr <- Empty
  MaxSize = 2
  MaxDepth = 1
  MallocReuse = "exact"
  ReallocReuse = "exact"
  Frames = TRUE
  ScopeEnd = TRUE
  ScopeStart = TRUE
INVARIANTS
  ReallocAlarmMeansFreed
CHECK_DEADLOCK FALSE
