\* The listings of two groups and of services, off cluster.
CONSTANTS
  Requests = {r1, r2, r3}
  Appliances = {a1}
  Groups = {g1, g2}
  Labels = {l1}
  NULL = NULL
  Ops = {"Register", "Enroll", "Claim", "EnrollRedeem", "Revoke"}
  Listings = {x1}
  InCluster = FALSE
  MaxInFlight = 2
  TicksPerSecond = 1
  MaxTime = 0
  MaxHostnameLabelAttempts = 1
  ClaimTokenExpiry = 1
  ExchangeCodeExpiry = 1
  PluginRateSeconds = 1
  PluginRateBurst = 1
  PollSeconds = 1
  MaxOtherCalls = 0
SPECIFICATION FleetSpec
SYMMETRY FleetSymmetry
INVARIANT GroupListingIsOwn
INVARIANT AnswersAreListed
INVARIANT ChangesAreEntitled
INVARIANT LatestIssueIsLive
INVARIANT ActiveHasSecret
\* The instance ends when its requests, listings and calls are used up.
CHECK_DEADLOCK FALSE
