SPECIFICATION FairBoth
CONSTANTS
  n1 = n1
  n2 = n2
  t1 = t1
  t2 = t2
  t3 = t3
  l1 = l1
  l2 = l2
  g = g
  s = s
  None = None
  NoHilo = NoHilo
  Node = {n1, n2}
  NumHilos = 4
  NodoDe <- MostOnOne
  Limit = 3
  MaxLost = 2
  Request <- TheRequests
  Op <- TheOp
  At <- TheAt
  Block <- TheBlock
  Bytes <- TheBytes
  DataBin <- TheData
  BlockSize = 4
  Page = 4
  Jobs <- TheJobs
  MaxSeconds = 2
  MaxDraws = 5
  MaxKills = 1
CHECK_DEADLOCK FALSE
INVARIANTS KilledIsSilent PermitsKept  
PROPERTIES  Answered
