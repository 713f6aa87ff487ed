SPECIFICATION HSpec
CONSTANTS
  c1 = c1
  c2 = c2
  x1 = x1
  x2 = x2
  v1 = v1
  Conns = {c1}
  NoConn = NoConn
  Cursors = {x1}
  NoCursor = NoCursor
  Uses <- Shared
  KeyIds = {1, 2}
  SubkeyIds = {1}
  Values = {v1}
  SentinelValue = SentinelValue
  NoValue = NoValue
  Unset = Unset
  Ops = {"Put", "Get", "Write"}
  ReqTables = {0, 1}
  OddLens = {}
  Loadable <- EmptyOnly
  PositionedClients = FALSE
INVARIANT PutThenWriteLands
CHECK_DEADLOCK FALSE
