SPECIFICATION Spec
CONSTANTS
  MaxEdges = 5
  Graphs <- SmallGraphs
INVARIANT TypeOK
PROPERTIES
  ComponentsInOrder
  AllListed
CHECK_DEADLOCK FALSE
