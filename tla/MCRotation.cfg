\* Binance samples, fresh, late or absent, and Gamma outages of half a window, over two rotations.
CONSTANTS
  WINDOW = 8
  PREFETCH = 2
  RETRY = 1
  PERIOD = 3
  GAMMA_LATENCY = 1
  PUBLISHED_AHEAD = 10
  MAX_OUTAGE = 4
  ANCHOR_WINDOW = 1
  LATE_DISCOVERY = 1
  MAX_LATE = 3
  HORIZON = 2
  MIN_ANCHOR_SAMPLES = 2
  LAGS <- FreshOrOld
  START = 7
  MaxTime = 32
SPECIFICATION Spec
CHECK_DEADLOCK FALSE
INVARIANT StrikeIsOfMarketOpen
INVARIANT NoEarlyPromotion
PROPERTY MarketOnlyAdvances
INVARIANT Recovered
INVARIANT NeverBothWait
