CONSTANTS
  k1 = k1  k2 = k2  k3 = k3  v1 = v1  v2 = v2  addr1 = addr1  addr2 = addr2
  Key <- MCKey
  Value <- MCValue
  Hash <- MCHash
  NullPtr = NullPtr
  Freed = Freed
  TableAddress <- MCTableAddress
  Walk <- MCWalk
  InitialSize = 1
  MaxDoublings = 3
  MaxRequest = 8
SPECIFICATION Spec
PROPERTY WalksReturn
CHECK_DEADLOCK FALSE
