SPECIFICATION Spec
CONSTANTS
  c1 = c1
  c2 = c2
  c3 = c3
  x1 = x1
  x2 = x2
  v1 = v1
  Conns = {c1}
  NoConn = NoConn
  Cursors = {x1}
  NoCursor = NoCursor
  Uses <- Shared
  KeyIds = {1, 2}
  SubkeyIds = {1}
  Values = {v1}
  SentinelValue = SentinelValue
  NoValue = NoValue
  Unset = Unset
  Ops = {"Append", "Get"}
  ReqTables = {0}
  OddLens = {}
  Loadable <- EmptyOnly
  PositionedClients = FALSE
INVARIANT AppendSurvives
CHECK_DEADLOCK FALSE
