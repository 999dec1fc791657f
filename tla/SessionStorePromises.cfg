\* The store implements the authority, and each call returns.
SPECIFICATION FairSpec
CONSTANTS
  i1 = i1  i2 = i2  u = u  c1 = c1  c2 = c2  c3 = c3
  Id = {i1}
  Unmanaged = {u}
  NoId = NoId
  Caller = {c1, c2, c3}
  NoCaller = NoCaller
  MaxBurst = 1
  Window = 1
  Lifetimes <- MCLifetimes
  MaxTime = 3
  MaxLogins = 3
PROPERTIES
  ImplementsAuthority
  EveryCallReturns
\* The clock stops at its bound; a call stuck there shows as a call that never returns.
CHECK_DEADLOCK FALSE
