SPECIFICATION FairSpec
CONSTANTS
  c1 = c1
  c2 = c2
  c3 = c3
  x1 = x1
  x2 = x2
  v1 = v1
  Conns = {c1, c2}
  NoConn = NoConn
  Cursors = {x1, x2}
  NoCursor = NoCursor
  Uses <- Private
  KeyIds = {1}
  SubkeyIds = {1}
  Values = {v1}
  SentinelValue = SentinelValue
  NoValue = NoValue
  Unset = Unset
  Ops = {"Get", "Put", "Delete", "Write", "First", "SeekExact", "Next", "Prev", "Current", "Upsert", "Insert", "Append", "DeleteCurrent", "NextDup", "SeekByKeySubkey", "AppendDup", "DeleteCurrentDuplicates"}
  ReqTables = {1}
  OddLens = {}
  Loadable <- OneStorage
  PositionedClients = TRUE
PROPERTIES EveryRequestAnswered RefinesService
