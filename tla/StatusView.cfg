\* Two identities, one caller that logs them in, a daemon that ends and starts again.
SPECIFICATION FairStatusSpec
CONSTANTS
  i1 = i1  i2 = i2  c1 = c1  c2 = c2  w = w
  Id = {i1, i2}
  Unmanaged = {}
  NoId = NoId
  Caller = {c1}
  NoCaller = NoCaller
  Command = w
  MaxBurst = 1
  Window = 2
  Lifetimes <- MCLifetimes
  MaxTime = 5
  MaxLogins = 2
  MaxStarts = 1
  Names <- MCNames
  Second = 3
  Minute = 2
PROPERTIES
  ShownUsable
  DeadShownExpired
  StatusNeverBlocks
  WatchCatchesUp
