\* Up to four raw levels in any order with three kept, every ask without depth, bids at both ends.
CONSTANTS
  Missing = Missing
  Unreadable = Unreadable
  I32_MAX = 100000
  MIN_SIZE = 100
  MIN_MAKER = 100
  LevelPrices <- FivePrices
  LevelSizes <- FewSizes
  ChangedAsks <- AllTicks
  Launches <- FewLaunches
  Bids <- SomeBids
  Holdings <- FewHoldings
  LEVELS = 3
  DepthConfigs <- SomeConfigs
  MaxRaw = 4
SPECIFICATION Spec
CHECK_DEADLOCK FALSE
INVARIANT CutoffCovers
INVARIANT BodyIsExact
INVARIANT IntentIsSigned
INVARIANT SellIsPriced
INVARIANT LeastOvershoot
INVARIANT OverrunOnlyAtGaps
