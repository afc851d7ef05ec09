SPECIFICATION SharedSpec
CONSTANTS
  r1 = r1
  r2 = r2
  h1 = h1
  h2 = h2
  NoMsg = NoMsg
  Nobody = Nobody
  None = None
  Null = Null
  Torn = Torn
  Requester = {r1, r2}
  Handler = {h1, h2}
  Kinds = {"ping", "put", "get"}
  MaxAsks = 2
  MaxDrops = 1
CHECK_DEADLOCK FALSE
INVARIANTS  ReceivedAsSent
PROPERTIES   ImplementsList AllReceived
