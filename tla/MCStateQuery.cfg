SPECIFICATION Spec
CONSTANTS
  Parts = {p, q}
  Lengths = {9, 49, 50, 74, 130, 154, 210, 211}
  Words = 16
  MaxHeight = 6
  KeepRecent = 2
INVARIANTS ProofsMatchRequest ProofsOfOneVersion  DecodesWholeMessages
CHECK_DEADLOCK FALSE
