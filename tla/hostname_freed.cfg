\* Registering again after a revocation, one request at a time.
CONSTANTS
  Requests = {r1, r2, r3}
  Appliances = {a1, a2}
  Groups = {g1}
  Labels = {l1}
  NULL = NULL
  Ops = {"Register", "Revoke"}
  InCluster = TRUE
  MaxInFlight = 1
  TicksPerSecond = 1
  MaxTime = 0
  MaxHostnameLabelAttempts = 2
  ClaimTokenExpiry = 1
  ExchangeCodeExpiry = 1
SPECIFICATION Spec
SYMMETRY EntitySymmetry
INVARIANT HostnameIsFreed
\* The instance ends when its requests are used up.
CHECK_DEADLOCK FALSE
