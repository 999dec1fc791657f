\* A form login whose answer is a redirect that sets the session cookie.
SPECIFICATION RecipeSpec
CONSTANTS
  Kinds <- AllKinds
  Steps <- CsrfFlow
  CsrfVar = "csrf"
  ExpiresIn <- Lifetimes
  Quarter = 64
  Second = 4
  MaxRequests = 2
INVARIANT FormCapturesLogin
