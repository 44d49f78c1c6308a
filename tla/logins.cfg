\* Logins to two appliances beside rotations and revocations.
CONSTANTS
  Requests = {r1, r2, r3, r4, r5}
  Appliances = {a1, a2}
  Groups = {g1}
  Labels = {l1, l2}
  NULL = NULL
  Ops = {"RotateSecret", "RotateOwnSecret", "Revoke"}
  Logins = {c1, c2}
  LoginOps = {"CreateLoginCode", "RedeemLoginCode", "CheckAccess"}
  Users = {u1}
  InCluster = TRUE
  MaxInFlight = 1
  TicksPerSecond = 1
  MaxTime = 0
  MaxHostnameLabelAttempts = 1
  ClaimTokenExpiry = 1
  ExchangeCodeExpiry = 1
  MaxLoginsInFlight = 1
SPECIFICATION EnrolledSpec
SYMMETRY LoginSymmetry
INVARIANT StaleSecretGetsNothing
INVARIANT RevokedIsCutOff
INVARIANT GrantIsEntitled
\* The instance ends when its requests and logins are used up.
CHECK_DEADLOCK FALSE
