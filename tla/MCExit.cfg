\* Lost and repeated events, a second BUY, SELLs that overlap, rotation and resolution before signing.
CONSTANTS
  t1 = t1
  Tokens <- MCTokens
  TradeIds <- MCIds
  OrderIds <- MCIds
  NoOrder = 0
  Sizes <- MCSizes
  Stamps <- MCStamps
  QUANTUM = 2
  I64_MAX = 100
  MaxSubmits = 0
  SLIPPAGE_TICKS = 1
  EXIT_DROP_TICKS = 1
  EXIT_ARM_TICKS = 1
  EXIT_STOP_TICKS = 1
  EXIT_EDGE_TICKS = 0
  EXIT_HOLD = 1
  Books <- OneThenNone
  Ticks <- TwoTicks
  Fairs <- ModelSays
  Pressures <- EitherWay
  MayDisconnect = TRUE
  MayBeMalformed = TRUE
  MayFail <- NoSide
  SettlesInOrder = TRUE
  Interim <- NoInterim
  MaxRepeats = 1
  FillSize = 3
  BuysInOrder = TRUE
  MaxBuys = 2
  MaxSells = 1
  MaxInFlight = 2
  MaxTime = 1
  LastBuy = 0
SPECIFICATION ExitSpec
CHECK_DEADLOCK FALSE
PROPERTY SellsAreCurrent
INVARIANT SellableIsTracked
INVARIANT SupportedIsHeld
