CONSTANTS
  k1 = k1  k2 = k2  k3 = k3
  Key <- MCKey
  PoolSize = 2
  maxmemory = 2
  Resolution = 2
  ClockMax = 1
  UnsignedMax = 3
  MaxTime = 4
  OtherSizes <- MCOtherSizes
SPECIFICATION Spec
INVARIANTS
  TypeOK
  PoolSound
  OldestGoesFirst
  EnoughIsFreed
  DeadlinesFollowKeys
PROPERTY
  EvictionEnds
CHECK_DEADLOCK FALSE
