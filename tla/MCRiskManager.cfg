\* Limits small enough that each of them is reached within the bound.
SPECIFICATION Spec
CONSTANTS
  Symbols = {1, 2}
  InitialEquity = 1000
  KillSwitchEnabled = TRUE
  MaxTradesPerDay = 4
  MaxOpenPositions = 2
  MaxConsecutiveLosses = 3
  MaxDailyLossPct = 4
  MaxTotalDrawdownPct = 9
  MaxRiskPerTradePct = 1
  MaxTotalExposurePct = 25
  MinOrderNotional = 20
  MaxOrderNotional = 200
  Pnls <- MCPnls
  Sizes <- MCSizes
  StopPcts <- MCStops
  PnlBound = 80
  TradeBound = 5
INVARIANTS
  TypeOK
  SizeWithinLimits
  DayCountersAgree
PROPERTIES
  PeakIsHighWater
  LimitsLiftedOnlyByReset
