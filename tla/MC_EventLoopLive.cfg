CONSTANTS
  c1 = c1  c2 = c2
  Conn <- MCConn
  Fd <- MCFd
  ListenFd = 3
  MaxPieces = 4
  EmptyRequests = FALSE
  Resets = FALSE
SPECIFICATION Spec
PROPERTIES
  RequestsAnswered
  HangUpIsNoticed
CHECK_DEADLOCK FALSE
