SPECIFICATION Spec
CONSTANTS
  BufferBytes = 92
  MaxUnread = 95
INVARIANTS CompleteIsAccepted AcceptedIsComplete CutRequestsRefused ProposedIsAccepted RelayKeepsFields
CHECK_DEADLOCK FALSE
