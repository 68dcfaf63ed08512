CONSTANTS
  c1 = c1  c2 = c2
  Conn <- MCConn
  Fd <- MCFd
  ListenFd = 3
  MaxPieces = 2
  EmptyRequests = FALSE
  Resets = TRUE
SPECIFICATION Spec
INVARIANT
  ReadyIsActedOn
CHECK_DEADLOCK FALSE
