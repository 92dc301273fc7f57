SPECIFICATION FairSystemSpec
CONSTANTS
  RunModes = {"guarded_live"}
  Markets = {"m1"}
  Quotes <- MCOneQuote
  Lot = 1
  SlippageBps = 0
  RetryAttempts = 1
  RetryBackoff = 1
  OrderWindow = 1
  ErrorWindow = 3
  MaxOrdersPerSec = 2
  MaxErrorRatePerMin = 1
  MaxOpenOrders = 2
  MaxOrderNotional = 1
  MaxMarketExposure = 10
  DailyLossLimit = 4
  HourlyLossLimit = 3
  WsDisconnectKillAfter = 3
  LatencyKillSwitch = 3
  MinFillRatio = 20
  MaxTime = 2
  MaxCalls = 2
  ApiKeys = {TRUE}
  ClientIds = {TRUE, FALSE}
  WebhookUrl = TRUE
  ReconcileInterval = 1
CHECK_DEADLOCK FALSE
INVARIANTS
  SystemTypeOK
  OnlyStraysAreUnknown
PROPERTIES
  ReportsWereTrue
  LastingDifferenceReported
