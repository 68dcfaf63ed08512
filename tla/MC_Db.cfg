CONSTANTS
  k1 = k1  k2 = k2
  Name <- MCName
  Text <- MCTwoTexts
  SharedText <- MCSharedText
  SharedObject <- MCSharedObject
  Stored <- MCStoredTwo
  Container <- MCContainer
  KeyObject <- MCKeyObject
  ValueObject <- MCValueObject
  MaxTime = 1
  Deadline <- MCDeadline
  MaxLeak = 1
SPECIFICATION Spec
SYMMETRY MCSymmetry
INVARIANTS
  TypeOK
  DeadlinesHaveKeys
  NoDangling
PROPERTIES
  OthersUntouched
  LeaksOnlyWhereKnown
  NothingGoesEarly
CHECK_DEADLOCK FALSE
