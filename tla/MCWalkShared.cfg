SPECIFICATION WSpec
CONSTANTS
  c1 = c1
  c2 = c2
  c3 = c3
  x1 = x1
  v1 = v1
  Conns = {c1, c2, c3}
  NoConn = NoConn
  Cursors = {x1}
  NoCursor = NoCursor
  Uses <- Shared
  KeyIds = {1, 2}
  SubkeyIds = {1}
  Values = {v1}
  SentinelValue = SentinelValue
  NoValue = NoValue
  Unset = Unset
  Ops = {"Write", "First", "Next", "NextDup", "NextNoDup", "DeleteCurrent"}
  ReqTables = {0, 1}
  OddLens = {}
  Loadable <- AccountAndStorages
  PositionedClients = TRUE
SYMMETRY Symmetry
PROPERTIES WalkComplete
CHECK_DEADLOCK FALSE
