SPECIFICATION Spec
CONSTANTS
  n1 = n1
  n2 = n2
  f1 = f1
  f2 = f2
  None = None
  Node = {n1, n2}
  File = {f1, f2}
  Total = 2
  Commands = {"format", "store", "rm", "rmblock", "cpblock"}
  DiesAt = {"idle", "mirror", "add", "rm"}
  Strangers = TRUE
  MaxCmds = 3
  MaxEnds = 2
CHECK_DEADLOCK FALSE
INVARIANTS RefusalsSurvived
