SPECIFICATION FairSpec
CONSTANTS
  Families = {trend, reversion}
  trend = trend
  reversion = reversion
  InitialEquity = 1000
  Slippage = 1
  CommissionPct = 1
  Prices <- MCPrices
  KillSwitchEnabled = TRUE
  MaxTradesPerDay = 3
  MaxOpenPositions = 2
  MaxConsecutiveLosses = 2
  MaxDailyLossPct = 10
  MaxTotalDrawdownPct = 10
  MaxRiskPerTradePct = 5
  MaxTotalExposurePct = 50
  MinOrderNotional = 100
  MaxOrderNotional = 250
  StopPcts <- MCStops
  DefaultStopPct = 1
  DefaultTakeProfitPct = 20
  MaxCandidates = 1
  MaxSessions = 2
  Symbols = {btc}
  btc = btc
  MaxBar = 2
  MaxRuns = 2
PROPERTIES
  RunStops
  ImplementsDesk
CHECK_DEADLOCK FALSE
