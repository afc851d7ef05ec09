SPECIFICATION FairSpec
CONSTANTS
  n1 = n1
  n2 = n2
  n3 = n3
  j1 = j1
  None = None
  Node = {n1, n2, n3}
  Job = {j1}
  NumBlocks = 2
  Copies <- Chained
  AnyFails = FALSE
  MaxFaults = 2
CHECK_DEADLOCK FALSE
INVARIANTS LoadsReleased LoadsAddUp GlobalIsExact
PROPERTIES JobsEnd
