\* Two requests: revoked sessions, failing logins, false alarms, expiry, a full window.
SPECIFICATION GatewaySpec
CONSTANTS
  i1 = i1  u = u  r1 = r1  r2 = r2  r3 = r3
  Id = {i1}
  Unmanaged = {u}
  NoId = NoId
  Caller = {r1, r2}
  NoCaller = NoCaller
  MaxBurst = 2
  Window = 2
  Lifetimes <- ShortLifetime
  MaxTime = 3
  MaxLogins = 0
  Method = {"PUT", "POST"}
  Idempotent = {"PUT"}
  Covered = {"PUT", "POST"}
  CsrfTTL = 1
  RequireToken = TRUE
  SingleSession = FALSE
  MaxRevokes = 2
  MaxFailures = 1
  MaxFalseAlarms = 1
SYMMETRY Symm
INVARIANTS
  GatewayInv
  AtMostOnce
  RetryUsesNewSession
  Transparent
  LogoutNotWedged
