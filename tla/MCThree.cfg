SPECIFICATION Spec
CONSTANTS
  c1 = c1
  c2 = c2
  c3 = c3
  x1 = x1
  x2 = x2
  v1 = v1
  Conns = {c1, c2, c3}
  NoConn = NoConn
  Cursors = {x1}
  NoCursor = NoCursor
  Uses <- Shared
  KeyIds = {1}
  SubkeyIds = {}
  Values = {v1}
  SentinelValue = SentinelValue
  NoValue = NoValue
  Unset = Unset
  Ops = {"Get", "Put", "Delete", "Write", "First", "Last", "Seek", "SeekExact", "Next", "Prev", "Current", "Upsert", "Insert", "Append", "DeleteCurrent"}
  ReqTables = {0}
  OddLens = {}
  Loadable <- SomeAccounts
  PositionedClients = FALSE
SYMMETRY Symmetry
INVARIANTS TypeOK Exclusion MapExclusion StableReads PendingBelongsToUnfinished
PROPERTIES FlushIsForeign StuckFreezesDatabase RefinesService
CHECK_DEADLOCK FALSE
