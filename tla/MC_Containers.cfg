CONSTANTS
  a1 = a1  a2 = a2  a3 = a3
  Address <- MCAddress
  MaxLevel = 3
  ListMax = 4
  ListValue <- MCListValue
  Count <- MCCount
  Reach <- MCReach
  SetIntsetMax = 3
  SetValue <- MCSetValue
  Member <- MCMember
  Score <- MCScore
  ReadBack <- MCReadBack
  Ranges <- MCRanges
SYMMETRY MCSymmetry
SPECIFICATION Spec
INVARIANTS
  TypeOK
  ListsDoAsTold
  ZsetSound
  ZsetQueries
PROPERTIES
  SetsDoAsTold
CHECK_DEADLOCK FALSE
