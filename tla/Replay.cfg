\* One managed identity, a second caller at the daemon, a daemon that may end twice.
SPECIFICATION ReplaySpec
CONSTANTS
  i1 = i1  i2 = i2  anon = anon  u = u  c1 = c1  c2 = c2
  Id = {i1}
  Unmanaged = {anon, u}
  NoId = NoId
  Caller = {c1, c2}
  NoCaller = NoCaller
  Command = c1
  Anon = anon
  BadMethod = "B@D"
  MaxBurst = 1
  Window = 2
  Lifetimes <- MCLifetimes
  MaxTime = 3
  MaxLogins = 2
  MaxStarts = 1
  AsLists <- MCAsLists
  Files <- MCFiles
  Statuses = {200, 403}
  CutStatuses = {403}
VIEW ReplayView
INVARIANTS
  MatrixComplete
  
  
  OneIdentityPerCell
  RunNeverRegresses
  OneSessionPerIdentity
