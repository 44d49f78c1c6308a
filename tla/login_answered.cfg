\* Logins around the expiry of a code, with a pruning and a member leaving; a
\* tick is half a second, so that an expiry has a fraction to lose.
CONSTANTS
  Requests = {r1, r2}
  Appliances = {a1}
  Groups = {g1}
  Labels = {l1}
  NULL = NULL
  Ops = {}
  Logins = {c1, c2, c3}
  LoginOps = {"CreateLoginCode", "RedeemLoginCode"}
  Users = {u1}
  InCluster = TRUE
  MaxInFlight = 1
  TicksPerSecond = 2
  MaxTime = 1
  MaxHostnameLabelAttempts = 1
  ClaimTokenExpiry = 1
  ExchangeCodeExpiry = 0
  MaxLoginsInFlight = 3
SPECIFICATION FairEnrolledSpec
INVARIANT LoginTypeOK
INVARIANT LoginCodeUsedOnce
INVARIANT LiveCodeIsRedeemable
INVARIANT GrantIsCurrent
PROPERTY EveryLoginAnswered
PROPERTY CodesAreSingleUse
\* The instance ends when its requests and logins are used up.
CHECK_DEADLOCK FALSE
