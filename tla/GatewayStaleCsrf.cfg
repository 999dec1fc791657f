\* A token fetch that is in flight while another request reauthenticates.
SPECIFICATION GatewaySpec
CONSTANTS
  i1 = i1  u = u  r1 = r1  r2 = r2  r3 = r3
  Id = {i1}
  Unmanaged = {}
  NoId = NoId
  Caller = {r1, r2}
  NoCaller = NoCaller
  MaxBurst = 3
  Window = 2
  Lifetimes <- NoExpiry
  MaxTime = 2
  MaxLogins = 0
  Method = {"GET", "POST"}
  Idempotent = {"GET"}
  Covered = {"POST"}
  CsrfTTL = 1
  RequireToken = TRUE
  SingleSession = FALSE
  MaxRevokes = 1
  MaxFailures = 0
  MaxFalseAlarms = 0
INVARIANTS
  StaleTokenDropped
