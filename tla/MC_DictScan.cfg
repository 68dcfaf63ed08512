CONSTANTS
  k1 = k1  k2 = k2  v1 = v1
  NullPtr = NullPtr
  Key <- MCKey
  Value <- MCValue
  Hash <- MCHash
  InitialSize = 1
  MaxDoublings = 3
  MaxRequest = 8
  Requests <- MCRequests
  ForceRatio = 1
  RehashBatch <- MCBatch
  MaxIterators = 0
  CursorBits = 3
SPECIFICATION ScanSpec
INVARIANT
  ScanVisitsAllUnlessStrayed
PROPERTY
  ScanEnds
