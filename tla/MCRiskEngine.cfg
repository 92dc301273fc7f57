SPECIFICATION Spec
CONSTANTS
  OrderWindow = 1
  ErrorWindow = 2
  MaxOrdersPerSec = 2
  MaxCancelPerSec = 1
  MaxErrorRatePerMin = 1
  MaxOpenOrders = 2
  MaxOrderNotional = 2
  MaxMarketExposure = 4
  DailyLossLimit = 3
  HourlyLossLimit = 2
  WsDisconnectKillAfter = 2
  LatencyKillSwitch = 1
  MinFillRatio = 50
  Sizes = {1}
  Latencies = {1, 2}
  MaxTime = 4
  MaxCalls = 4
  Readings <- MCReadings
INVARIANTS
  TypeOK
  OrderRateBounded
  ErrorBurstKills
PROPERTIES
  ImplementsOrderGate
  ImplementsCancelGate
