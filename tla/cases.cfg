SPECIFICATION CaseSpec
CONSTANTS
  n1 = n1
  n2 = n2
  w1 = w1
  w2 = w2
  f1 = f1
  f2 = f2
  main = main
  NoNode = NoNode
  Nobody = Nobody
  NoFile = NoFile
  NoMsg = NoMsg
  Blank = Blank
  Garbage = Garbage
  Console = main
  Storer = {w1}
  File = {f1, f2}
  Node = {n1, n2}
  Total <- TwoEach
  NumBlocks <- OneBlock
  Base <- OwnName
  MaxBlocks = 1
  Wants <- Contended
  ConsoleOps = {"cpfrom", "rm", "rmblock"}
  MaxCmds = 2
  MaxDrops = 0
CHECK_DEADLOCK FALSE
INVARIANTS KeepsACopy  
PROPERTIES EntriesAreStable
