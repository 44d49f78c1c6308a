\* The limiter of the source over the stretches of a minute; names of up to
\* seven characters, cut after four; lists of up to five, headers of up to three.
CONSTANTS
  PluginRateSeconds = 5
  PluginRateBurst = 2
  MaxElapsed = 60
  MaxRestarts = 2
  MaxNamePart = 4
  MaxName = 7
  MaxList = 5
  MaxHeader = 3
SPECIFICATION PartsSpec
INVARIANT RateIsBounded
INVARIANT LabelIsDnsSafe
INVARIANT LabelKeepsWords
INVARIANT ListedTokensAreValid
\* The instance ends with the longest name or header.
CHECK_DEADLOCK FALSE
