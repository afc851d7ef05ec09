SPECIFICATION StoresSpec
CONSTANTS
  n1 = n1
  n2 = n2
  n3 = n3
  w1 = w1
  w2 = w2
  f1 = f1
  f2 = f2
  main = main
  NoNode = NoNode
  Nobody = Nobody
  NoFile = NoFile
  NoMsg = NoMsg
  Blank = Blank
  Garbage = Garbage
  Console = main
  Storer = {w1, w2}
  File = {f1, f2}
  Node <- TwoNodes
  Total <- ThreeEach
  NumBlocks <- TwoBlocks
  Base <- OwnName
  MaxBlocks = 2
  Wants <- OwnPath
  ConsoleOps = {"cpfrom"}
  MaxCmds = 1
  MaxDrops = 0
CHECK_DEADLOCK FALSE
INVARIANTS NoSharing BlocksMarked FreeIsComplement MirrorsApart WaiterIsOwner NothingSentAfterUnmap ReadsBack
PROPERTIES StoreAnswered
