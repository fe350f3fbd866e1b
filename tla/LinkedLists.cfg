SPECIFICATION Spec
CONSTANTS
  n1 = n1
  n2 = n2
  n3 = n3
  n4 = n4
  Nodes <- FourNodes
  Ids = {1, 2}
  Sizes = {1, 2}
  MaxFlag = 2
SYMMETRY Permuted
INVARIANTS
  WellLinked
PROPERTY ImplementsLists
CHECK_DEADLOCK FALSE
