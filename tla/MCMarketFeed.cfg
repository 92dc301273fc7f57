SPECIFICATION FairSpec
CONSTANTS
  MarketIds <- MCMarketIds
  ReconnectBase = 1
  ReconnectMax = 3
  MaxSequence = 2
  MaxFailures = 2
CHECK_DEADLOCK FALSE
INVARIANTS
  TypeOK
  NewestComesLast
PROPERTY CatchesUp
