\* Two markets, two connections lost, books that move and empty meanwhile.
CONSTANTS
  Markets = 2
  Tops <- SomeTops
  MaxDrops = 2
  MaxMoves = 2
SPECIFICATION FairSpec
CHECK_DEADLOCK FALSE
INVARIANT QuoteIsOfMarket
INVARIANT ActiveUntilResolved
INVARIANT QuoteIsVenues
PROPERTY EveryMarketIsQuoted
