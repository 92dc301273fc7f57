SPECIFICATION Spec
CONSTANTS
  RunModes = {"paper"}
  Markets = {"m1"}
  Quotes <- MCOneQuote
  Lot = 1
  SlippageBps = 0
  RetryAttempts = 1
  RetryBackoff = 1
  OrderWindow = 1
  ErrorWindow = 3
  MaxOrdersPerSec = 2
  MaxErrorRatePerMin = 1
  MaxOpenOrders = 2
  MaxOrderNotional = 6
  MaxMarketExposure = 10
  DailyLossLimit = 4
  HourlyLossLimit = 3
  WsDisconnectKillAfter = 1
  LatencyKillSwitch = 1
  MinFillRatio = 20
  MaxTime = 3
  MaxCalls = 3
CHECK_DEADLOCK FALSE
PROPERTY SilenceStops
