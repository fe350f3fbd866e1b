SPECIFICATION Spec
CONSTANTS
  HeapAddr <- Empty
  StackAddr <- ThreeStack
  GlobalAddr <- Empty
  MaxSize = 2
  MaxDepth = 3
  MallocReuse = "exact"
  ReallocReuse = "none"
  Frames = TRUE
  ScopeEnd = TRUE
  ScopeStart = TRUE
INVARIANTS
  StackMirrored
  ReturnDropsOwnFrame
CHECK_DEADLOCK FALSE
