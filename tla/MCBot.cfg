\* A repeated event, two BUYs that may fail, each leaving dust, a rotation that leaves orders and positions behind.
CONSTANTS
  t1 = t1
  Tokens <- MCTokens
  TradeIds <- MCIds
  OrderIds <- MCIds
  NoOrder = 0
  Sizes <- MCSizes
  Stamps <- MCStamps
  QUANTUM = 3
  I64_MAX = 8
  FillSize = 4
  MaxSubmits = 2
  Interim <- NoInterim
  MaxSells = 2
  MaxInFlight = 1
  MaxRepeats = 1
  Books <- OneThenNone
  Markets <- TokensOfBooks
  Ticks <- OneTick
  Fairs <- NoModel
  Pressures <- Unknown
  SLIPPAGE_TICKS = 1
  EXIT_DROP_TICKS = 1
  EXIT_ARM_TICKS = 1
  EXIT_STOP_TICKS = 1
  EXIT_EDGE_TICKS = 0
  EXIT_HOLD = 1
  UNKNOWN_SUBMIT_EXPIRE = 1
  PENDING_SUBMIT_EXPIRE = 1
  REQUEST_TIMEOUT = 0
  MayBeUnknown = FALSE
  MayPanic = FALSE
  MayDisconnect = FALSE
  MayBeMalformed = FALSE
  MayFail <- BuySide
  SettlesInOrder = TRUE
  MaxTime = 2
  LastClaim = 1
SPECIFICATION FairBotSpec
CHECK_DEADLOCK FALSE
PROPERTY ImplementsEntryFlow
PROPERTY ImplementsExitFlow
PROPERTY HeldIsCleared
