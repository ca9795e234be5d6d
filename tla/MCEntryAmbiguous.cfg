\* Ambiguous outcomes and dying tasks against expiry, late, repeated and lost events, rotation.
CONSTANTS
  t1 = t1
  t2 = t2
  Tokens <- MCTokens
  TradeIds <- MCIds
  OrderIds <- MCIds
  NoOrder = 0
  Sizes <- MCSizes
  Stamps <- MCStamps
  QUANTUM = 2
  I64_MAX = 6
  FillSize = 3
  MaxSubmits = 2
  Interim <- NoInterim
  MaxSells = 0
  Markets <- TwoMarkets
  UNKNOWN_SUBMIT_EXPIRE = 1
  PENDING_SUBMIT_EXPIRE = 2
  REQUEST_TIMEOUT = 1
  MayBeUnknown = TRUE
  MayPanic = TRUE
  MayDisconnect = TRUE
  MayBeMalformed = TRUE
  MayFail <- NoSide
  SettlesInOrder = TRUE
  MaxRepeats = 1
  MaxTime = 3
  LastClaim = 1
SPECIFICATION FairFlowSpec
CHECK_DEADLOCK FALSE
PROPERTY ExpiryLeavesLiveSubmits
PROPERTY AmbiguousStaysMatchable
PROPERTY ClaimsSettle
PROPERTY GoneClaimsStayGone
