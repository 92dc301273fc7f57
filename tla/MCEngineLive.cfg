SPECIFICATION FairSpec
CONSTANTS
  RunModes = {"guarded_live"}
  Markets = {"m1"}
  Quotes <- MCOneQuote
  Lot = 1
  SlippageBps = 0
  RetryAttempts = 2
  RetryBackoff = 1
  OrderWindow = 1
  ErrorWindow = 2
  MaxOrdersPerSec = 2
  MaxErrorRatePerMin = 1
  MaxOpenOrders = 3
  MaxOrderNotional = 6
  MaxMarketExposure = 10
  DailyLossLimit = 4
  HourlyLossLimit = 3
  WsDisconnectKillAfter = 1
  LatencyKillSwitch = 1
  MinFillRatio = 20
  MaxTime = 3
  MaxCalls = 4
CHECK_DEADLOCK FALSE
INVARIANTS
  TypeOK
  OpenOrdersBounded
  PendingIsInFlight
  LostAnswerStops
  RequestsBounded
PROPERTIES
  ImplementsOrderGate
  OnlyRetriesWhenKilled
  PendingSettles
