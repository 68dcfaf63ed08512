CONSTANTS
  c1 = c1  c2 = c2
  Conn <- MCConn
  Fd <- MCFd
  ListenFd = 3
  MaxPieces = 4
  EmptyRequests = TRUE
  Resets = TRUE
SYMMETRY MCSymmetry
SPECIFICATION Spec
INVARIANTS
  TypeOK
  LoopStopsForAReason
  InterestKept
  RequestsConserved
CHECK_DEADLOCK FALSE
