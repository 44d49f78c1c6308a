\* Rotations and claims running through a revocation.
CONSTANTS
  Requests = {r1, r2, r3, r4}
  Appliances = {a1}
  Groups = {g1}
  Labels = {l1}
  NULL = NULL
  Ops = {"Register", "Claim", "RotateSecret", "Revoke"}
  InCluster = TRUE
  MaxInFlight = 2
  TicksPerSecond = 1
  MaxTime = 0
  MaxHostnameLabelAttempts = 2
  ClaimTokenExpiry = 1
  ExchangeCodeExpiry = 1
SPECIFICATION Spec
SYMMETRY RequestSymmetry
INVARIANT RevocationIsFinal
\* The instance ends when its requests are used up.
CHECK_DEADLOCK FALSE
