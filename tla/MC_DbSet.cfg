CONSTANTS
  k1 = k1  k2 = k2
  Name <- MCName
  Text <- MCText
  SharedText <- MCSharedText
  SharedObject <- MCSharedObject
  Stored <- MCStored
  Container <- MCContainer
  KeyObject <- MCKeyObject
  ValueObject <- MCValueObject
  MaxTime = 2
  Deadline <- MCDeadline
  MaxLeak = 1
SPECIFICATION Spec
PROPERTY
  SetStores
CHECK_DEADLOCK FALSE
