SPECIFICATION Spec
CONSTANTS
  Families = {trend, reversion}
  trend = trend
  reversion = reversion
  InitialEquity = 1000
  Slippage = 1
  CommissionPct = 1
  Prices <- MCPrices
  KillSwitchEnabled = TRUE
  MaxTradesPerDay = 3
  MaxOpenPositions = 2
  MaxConsecutiveLosses = 2
  MaxDailyLossPct = 10
  MaxTotalDrawdownPct = 10
  MaxRiskPerTradePct = 5
  MaxTotalExposurePct = 50
  MinOrderNotional = 100
  MaxOrderNotional = 250
  StopPcts <- MCStops
  DefaultStopPct = 1
  DefaultTakeProfitPct = 20
  MaxCandidates = 2
  MaxSessions = 2
  Symbols = {btc, eth}
  btc = btc
  eth = eth
  MaxBar = 1
  MaxRuns = 1
SYMMETRY MCSymmetry
INVARIANTS
  TypeOK
  IntentsOnce
  RiskNeverUndercounts
  StopsHonoured
  BrokerBooks
PROPERTIES
  KilledActsOnNothing
CHECK_DEADLOCK FALSE
