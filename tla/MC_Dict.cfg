CONSTANTS
  k1 = k1  k2 = k2  v1 = v1  v2 = v2
  NullPtr = NullPtr
  Key <- MCKey
  Value <- MCValue
  Hash <- MCHash
  InitialSize = 1
  MaxDoublings = 2
  MaxRequest = 4
  Requests <- MCRequests
  ForceRatio = 1
  RehashBatch <- MCBatch
  MaxIterators = 1
SPECIFICATION Spec
INVARIANTS
  TypeOK
  TablesConsistent
  LoopsEnd
PROPERTIES
  ImplementsMap
  IteratorsPauseRehash
  CallsKeepTheirPromise
