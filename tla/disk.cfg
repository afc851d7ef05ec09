SPECIFICATION DiskSpec
CONSTANTS
  n1 = n1
  n2 = n2
  d1 = d1
  d2 = d2
  f1 = f1
  f2 = f2
  None = None
  Root = Root
  NoName = NoName
  Node = {n1, n2}
  File = {f1, f2}
  Total = 2
  Commands = {"format", "store", "rm", "rmblock", "cpblock"}
  DiesAt = {"idle", "mirror", "add", "rm"}
  Strangers = TRUE
  MaxCmds = 5
  MaxEnds = 2
  Name = {d1, d2}
  Suffix <- Itself
  MaxSize = 4
  MaxOnDisk = 4
  MaxLen = 2
  IntoItself = FALSE
  CrashAt = {"idle", "move"}
CHECK_DEADLOCK FALSE
INVARIANTS SiblingsApart StartsUp
PROPERTIES  QuitKeepsState DeathLosesOneMark
SYMMETRY Sym
