\* Two identities kept alive by the loop while a client uses the store.
SPECIFICATION TimelySpec
CONSTANTS
  i1 = i1  i2 = i2  c1 = c1  lp = lp
  Id = {i1, i2}
  Unmanaged = {}
  NoId = NoId
  Caller = {c1, lp}
  NoCaller = NoCaller
  Loop = lp
  Interval = 4
  MaxDelay = 1
  MaxBurst = 3
  Window = 1
  Lifetimes <- LongLifetimes
  MaxTime = 13
  MaxLogins = 4
SYMMETRY Symm
VIEW View
INVARIANTS
  KeptAlive
