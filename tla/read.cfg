SPECIFICATION FairSpec
CONSTANTS
  n1 = n1
  n2 = n2
  NoLoc = NoLoc
  NoBlock = NoBlock
  NoFile = NoFile
  Node = {n1, n2}
  BlockSize = 6
  Chunk = 3
  MaxLines = 4
  MaxSize = 18
  Files <- SomeFiles
  CopyOf <- Placement
  MaxReads = 2
  MaxDrops = 2
  MaxStarts = 1
CHECK_DEADLOCK FALSE
INVARIANTS ReadsWhole
PROPERTIES ReadEnds
