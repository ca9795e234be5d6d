\* A ring a slot short of a window, samples late, early and repeated.
CONSTANTS
  Books <- FewBooks
  Delays <- FewDelays
  Quotes <- FewQuotes
  Probs <- FewProbs
  SCALE = 4
  STRIKE = 21
  MAX_LAG = 1
  MIN_WINDOW = 1
  MAX_WINDOW = 3
  MAX_SPREAD = 2
  MIN_MOVE = 2
  MIN_ABS_OFI = 1
  MIN_IMBALANCE = 1
  MIN_TOTAL_QTY = 1
  MIN_EDGE = 5
  ENTRY_SLIPPAGE = 3
  MAX_QUOTE_AGE = 1
  MIN_TTE = 1
  MIN_BUY_LIMIT = 35
  MAX_BUY_LIMIT = 65
  MAX_SAMPLES = 3
  EndTs = 5
  MaxTime = 4
  MaxSamplesSeen = 4
SPECIFICATION SignalSpec
CHECK_DEADLOCK FALSE
INVARIANT WindowIsOfStrike
INVARIANT BuyFollowsPressure
INVARIANT EntryAgreesWithExit
