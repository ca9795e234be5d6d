\* Quotes with and without an ask, a full ring, round trips on both sides of the ceiling.
CONSTANTS
  yes = yes
  no = no
  Tokens <- OneSide
  Asks <- MaybeAsk
  Edges <- FewEdges
  Rtts <- FewRtts
  MAX_QUOTE_AGE = 1
  QUOTE_HISTORY_CAP = 2
  POLY_DRIFT_WINDOW = 2
  BLOCK_UP_TICKS = 2
  BLOCK_DOWN_TICKS = 3
  SAFETY_BPS = 3
  BPS = 2
  MIN_CLEAN_EDGE_TICKS = 1
  RTT_CEILING = 8
  RTT_WEIGHT = 8
  UpdatesPerWindow = 3
  MaxInFlight = 2
  MaxTime = 3
SPECIFICATION Spec
CHECK_DEADLOCK FALSE
PROPERTY DriftSinceFirstBlocks
PROPERTY EdgeCoversFlight
INVARIANT EwmaAmongSamples
PROPERTY CeilingLatches
