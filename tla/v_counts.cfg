SPECIFICATION Spec
CONSTANTS
  n1 = n1
  n2 = n2
  f1 = f1
  f2 = f2
  None = None
  Node = {n1, n2}
  File = {f1, f2}
  Total = 2
  Commands = {"format", "store", "rm", "rmblock", "cpblock"}
  DiesAt = {}
  Strangers = FALSE
  MaxCmds = 4
  MaxEnds = 2
CHECK_DEADLOCK FALSE
PROPERTIES QuitKeepsAllCounts
