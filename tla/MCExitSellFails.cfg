\* A matched SELL fails to settle and its shares come back.
CONSTANTS
  t1 = t1
  Tokens <- MCTokens
  TradeIds <- MCIds
  OrderIds <- MCIds
  NoOrder = 0
  Sizes <- MCSizes
  Stamps <- MCStamps
  QUANTUM = 2
  I64_MAX = 100
  MaxSubmits = 0
  SLIPPAGE_TICKS = 1
  EXIT_DROP_TICKS = 1
  EXIT_ARM_TICKS = 1
  EXIT_STOP_TICKS = 1
  EXIT_EDGE_TICKS = 0
  EXIT_HOLD = 1
  Books <- OneBook
  Ticks <- TwoTicks
  Fairs <- ModelSays
  Pressures <- AllPressures
  MayDisconnect = FALSE
  MayBeMalformed = FALSE
  MayFail <- BothSides
  SettlesInOrder = TRUE
  Interim <- NoInterim
  MaxRepeats = 0
  FillSize = 3
  BuysInOrder = TRUE
  MaxBuys = 1
  MaxSells = 1
  MaxInFlight = 1
  MaxTime = 1
  LastBuy = 0
SPECIFICATION ExitSpec
CHECK_DEADLOCK FALSE
INVARIANT SellableIsTracked
