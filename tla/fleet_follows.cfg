\* A claim and a revocation, polls that fail and an overloaded limiter.
CONSTANTS
  Requests = {r1, r2, r3}
  Appliances = {a1}
  Groups = {g1}
  Labels = {l1}
  NULL = NULL
  Ops = {"Register", "Claim", "Revoke"}
  Listings = {}
  InCluster = TRUE
  MaxInFlight = 1
  TicksPerSecond = 1
  MaxTime = 0
  MaxHostnameLabelAttempts = 1
  ClaimTokenExpiry = 1
  ExchangeCodeExpiry = 1
  PluginRateSeconds = 1
  PluginRateBurst = 1
  PollSeconds = 1
  MaxOtherCalls = 1
SPECIFICATION FairFleetSpec
INVARIANT FleetTypeOK
INVARIANT PollsAloneAreServed
INVARIANT AnswersAreListed
PROPERTY FleetFollows
\* The instance ends when its requests, listings and calls are used up.
CHECK_DEADLOCK FALSE
