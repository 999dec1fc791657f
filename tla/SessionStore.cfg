\* One identity, three callers, a full window and its slide.
SPECIFICATION Spec
CONSTANTS
  i1 = i1  i2 = i2  u = u  c1 = c1  c2 = c2  c3 = c3
  Id = {i1}
  Unmanaged = {}
  NoId = NoId
  Caller = {c1, c2, c3}
  NoCaller = NoCaller
  MaxBurst = 2
  Window = 2
  Lifetimes <- MCLifetimes
  MaxTime = 5
  MaxLogins = 4
SYMMETRY Symm
INVARIANTS
  StoreInv
  BurstCeiling
  OneRecoveryPerSession
PROPERTIES
  DeadNeverServed
  SessionMonotone
  
