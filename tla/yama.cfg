SPECIFICATION YamaSpec
CONSTANTS
  n1 = n1
  n2 = n2
  n3 = n3
  j1 = j1
  j2 = j2
  None = None
  Node = {n1, n2, n3}
  NumBlocks = 3
  Base = 1
  MaxCarga = 1
  MaxHistorico = 1
CHECK_DEADLOCK FALSE
INVARIANTS  Even 
PROPERTIES ImplementsInOrder PlanEnds
