SPECIFICATION Spec
CONSTANTS
  Prices = {1, 2}
  RestConfigured = TRUE
  BinanceStale = 0
  CoingeckoStale = 1
  PollInterval = 1
  MaxBackoff = 2
  MaxTime = 2
  MaxQueue = 2
  MarketIds = {"m1", "m2"}
  FairYes <- MCFairYes
  Enabled = {"m1"}
  Books <- MCBooks
  TakerFeeEstimate = 10
  SlippageEstimate = 10
  ExecutionBuffer = 10
  MinNetEdge = 19
CHECK_DEADLOCK FALSE
PROPERTY OutageSurvived
