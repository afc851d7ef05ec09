SPECIFICATION FairSpec
CONSTANTS
  n1 = n1
  n2 = n2
  n3 = n3
  w1 = w1
  w2 = w2
  f1 = f1
  f2 = f2
  main = main
  NoNode = NoNode
  Nobody = Nobody
  NoFile = NoFile
  NoMsg = NoMsg
  Blank = Blank
  Garbage = Garbage
  Console = main
  Storer = {w1}
  File = {f1}
  Node <- TwoNodes
  Total <- OneThree
  NumBlocks <- TwoBlocks
  Base <- OwnName
  MaxBlocks = 2
  Wants <- Anything
  ConsoleOps = {"cpfrom"}
  MaxCmds = 0
  MaxDrops = 0
CHECK_DEADLOCK FALSE
PROPERTIES StoreAnswered
