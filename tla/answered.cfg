\* Two appliances of two groups, each presented the other's credentials, two
\* requests at a time to every endpoint.
CONSTANTS
  Requests = {r1, r2, r3, r4, r5}
  Appliances = {a1, a2, a3, a4}
  Groups = {g1, g2}
  Labels = {l1, l2, l3}
  NULL = NULL
  Ops = {"Register", "Enroll", "Claim", "EnrollRedeem", "RotateSecret", "RotateOwnSecret", "Revoke"}
  InCluster = TRUE
  MaxInFlight = 2
  TicksPerSecond = 1
  MaxTime = 1
  MaxHostnameLabelAttempts = 2
  ClaimTokenExpiry = 0
  ExchangeCodeExpiry = 0
SPECIFICATION FairNeighboursSpec
INVARIANT TypeOK
INVARIANT ChangesAreEntitled
PROPERTY EveryRequestAnswered
\* The instance ends when its requests are used up.
CHECK_DEADLOCK FALSE
