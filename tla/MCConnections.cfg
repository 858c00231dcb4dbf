CONSTANTS
  MaxConns = 3
  Talkers <- Talking
  MaxRequests <- OneRequest
  MaxTimeouts = 2
SPECIFICATION Spec
INVARIANTS
  NoOrphanSocket
  ReadGuarded
  TimersOwned
PROPERTIES
  ClosedIsInert
  ImplementsSessions
  SilentConnectionsEnd
  WritesEnd
CHECK_DEADLOCK FALSE
