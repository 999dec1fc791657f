\* Logins and renewals of the four recipe types.
SPECIFICATION RecipeSpec
CONSTANTS
  Kinds <- AllKinds
  Steps <- CsrfFlow
  CsrfVar = "csrf"
  ExpiresIn <- Lifetimes
  Quarter = 64
  Second = 4
  MaxRequests = 5
INVARIANTS
  RecipeInv
  OneFlow
  RefreshTokenCurrent
  PasswordIsLastResort
  ExpiryAhead
PROPERTY LoginEnds
