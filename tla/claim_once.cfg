\* Two claims of one appliance with one token, in different seconds.
CONSTANTS
  Requests = {r1, r2, r3}
  Appliances = {a1}
  Groups = {g1}
  Labels = {l1}
  NULL = NULL
  Ops = {"Register", "Claim"}
  InCluster = TRUE
  MaxInFlight = 2
  TicksPerSecond = 1
  MaxTime = 1
  MaxHostnameLabelAttempts = 2
  ClaimTokenExpiry = 1
  ExchangeCodeExpiry = 1
SPECIFICATION Spec
SYMMETRY RequestSymmetry
INVARIANT ClaimSucceedsOnce
\* The instance ends when its requests are used up.
CHECK_DEADLOCK FALSE
