\* The documented cap, at every ask without depth, under every policy.
CONSTANTS
  Missing = Missing
  Unreadable = Unreadable
  I32_MAX = 100000
  MIN_SIZE = 100
  MIN_MAKER = 100
  LevelPrices <- FivePrices
  LevelSizes <- FewSizes
  ChangedAsks <- AllTicks
  Launches <- FewLaunches
  Bids <- SomeBids
  Holdings <- FewHoldings
  LEVELS = 3
  DepthConfigs <- SomeConfigs
  MaxRaw = 0
SPECIFICATION Spec
CHECK_DEADLOCK FALSE
INVARIANT OverrunCapped
