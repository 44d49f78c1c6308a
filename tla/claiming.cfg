\* Claims, redemptions and revocations around the expiry of the credential.
CONSTANTS
  Requests = {r1, r2, r3, r4}
  Appliances = {a1}
  Groups = {g1}
  Labels = {l1}
  NULL = NULL
  Ops = {"Register", "Enroll", "Claim", "EnrollRedeem", "Revoke"}
  InCluster = TRUE
  MaxInFlight = 2
  TicksPerSecond = 1
  MaxTime = 1
  MaxHostnameLabelAttempts = 2
  ClaimTokenExpiry = 0
  ExchangeCodeExpiry = 0
SPECIFICATION TimedSpec
SYMMETRY TimedSymmetry
INVARIANT ClaimSucceedsOnceInOrder
INVARIANT SameSecondClaimsExclude
INVARIANT LateClaimFails
INVARIANT AnsweredCanClaim
PROPERTY PendingKeepsCredentials
\* The instance ends when its requests are used up.
CHECK_DEADLOCK FALSE
