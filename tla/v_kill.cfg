SPECIFICATION FairSpec
CONSTANTS
  n1 = n1
  n2 = n2
  NoHilo = NoHilo
  Node = {n1, n2}
  NumHilos = 3
  NodoDe <- MostOnOne
  Limit = 3
  MaxLost = 2
CHECK_DEADLOCK FALSE
PROPERTIES KillReturns
