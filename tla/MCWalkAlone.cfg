SPECIFICATION WSpec
CONSTANTS
  c1 = c1
  c2 = c2
  c3 = c3
  x1 = x1
  v1 = v1
  Conns = {c1}
  NoConn = NoConn
  Cursors = {x1}
  NoCursor = NoCursor
  Uses <- Shared
  KeyIds = {1, 2}
  SubkeyIds = {1, 2}
  Values = {v1}
  SentinelValue = SentinelValue
  NoValue = NoValue
  Unset = Unset
  Ops = {"Get", "Put", "Delete", "Write", "First", "Last", "Seek", "SeekExact", "Next", "Prev", "Current", "Upsert", "Insert", "Append", "DeleteCurrent", "NextDup", "NextNoDup", "SeekByKeySubkey", "DeleteCurrentDuplicates", "AppendDup", "NextDupVal", "DropCursor"}
  ReqTables = {0, 1, 2}
  OddLens = {1, 45}
  Loadable <- Several
  PositionedClients = FALSE
PROPERTIES WalkComplete RefinesService
CHECK_DEADLOCK FALSE
