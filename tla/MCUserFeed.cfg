\* Rotations against connects, failed writes and closed connections.
CONSTANTS
  Markets = 4
  MaxDrops = 3
SPECIFICATION FairFeedSpec
CHECK_DEADLOCK FALSE
INVARIANT TypeOK
INVARIANT SettledMeansSubscribed
INVARIANT TrustedIsLive
PROPERTY EveryMarketIsReached
