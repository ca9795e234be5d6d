\* Definite HTTP outcomes, each event once; trades may fail; two markets, BUYs and SELLs.
CONSTANTS
  t1 = t1
  t2 = t2
  Tokens <- MCTokens
  TradeIds <- MCIds
  OrderIds <- MCIds
  NoOrder = 0
  Sizes <- MCSizes
  Stamps <- MCStamps
  QUANTUM = 2
  I64_MAX = 6
  FillSize = 3
  MaxSubmits = 2
  Interim <- NoInterim
  MaxSells = 2
  Markets <- TwoMarkets
  UNKNOWN_SUBMIT_EXPIRE = 1
  PENDING_SUBMIT_EXPIRE = 2
  REQUEST_TIMEOUT = 1
  MayBeUnknown = FALSE
  MayPanic = FALSE
  MayDisconnect = FALSE
  MayBeMalformed = FALSE
  MayFail <- BothSides
  SettlesInOrder = TRUE
  MaxRepeats = 0
  MaxTime = 2
  LastClaim = 1
SPECIFICATION FlowSpec
CHECK_DEADLOCK FALSE
INVARIANT OpenSubmitBlocks
INVARIANT TypeOK
PROPERTY ImplementsTradeLedger
INVARIANT BalanceIsVenueTruth
