SPECIFICATION Spec
CONSTANTS
  SwitchDrawdownPct = 10
  SwitchDailyLossPct = 5
  SwitchLosses = 2
  SwitchEquities = {0, 90, 95, 96, 100}
  TrailBound = 3
  TradeIds = {1, 2, 3}
  LedgerSymbols = {1, 2}
  MaxClock = 2
  RowBound = 3
  Strategies = {1, 2}
  TradeBound = 1
  Base <- MCBase
  Overrides <- MCOverrides
  Targets <- MCTargets
  PortfolioSymbols = {1, 2, 3}
  InitialCapital = 200
  RiskPct = 2
  MaxExposurePct = 30
  MaxPositions = 2
  MaxDailyLossPct = 10
  MaxDrawdownPct = 15
  Equities = {0, 200}
  Stops = {2, 10}
  PortfolioPnls <- MCPnls
  CapitalBound = 300
  SpotSymbols = {1, 2}
  SpotUniverses <- MCUniverses
  Funds = 120
  SpotPrices = {10, 31}
  SpotRules <- MCRules
  TradeQuote = 30
  MaxLiveOrders = 2
  Cooldown = 2
  MaxAttempts = 2
  MaxCalls = 3
  SpotTime = 2
  BitunixRules = {"fine", "coarse"}
  ClockSkews <- MCSkews
  Tolerance = 1
  MaxCommands = 2
  Providers = {1}
  Capacity = 2
  QuotaWindow = 3
  Costs = {1, 2}
  QuotaTime = 6
  ScanUniverses <- MCScanUniverses
  ScanFilters <- MCScanFilters
  QuoteVolumes <- MCQuoteVolumes
  Books <- MCBooks
  Histories <- MCHistories
  MinHistory = 2
  LiveMinVolume = 10
  LiveMaxSpread = 20
  LiveMaxAtr = 5
  Pulled = {"1m", "5m"}
  Origin = 1200
  FeedTime = 1590
  FeedSteps = {60, 270}
  FetchLimit = 3
  MaxPulls = 2
  MsThreshold = 100000
  AlphaPrices = {6, 100}
  Atrs = {0, 2, 4, 80}
  Marks = {4, 90, 110}
  SignalDirections = {"LONG"}
  Entries = {1000, 1004, 1006}
  MaxSignals = 2
  RowSignals <- MCSignals
  RowPnls <- MCRowPnls
  AuditLimits = {1, 2}
  AuditThresholds = {50}
  MinTrades = 2
  MaxTrades = 3
  MaxBlocked = 1
  RoutePrices = {1000, 1030}
  BarLength = 2
  RouteTime = 8
  RouteWindow = 4
  MinBars = 3
  Slow = 2
  Fast = 1
  AtrPeriod = 2
  RsiPeriod = 2
  ReturnsBack = 2
  FullWindow = 8
  StaleAfter = 2
  StrategyMaps <- MCStrategyMaps
  RouterGates <- MCGates
  RegimesTold = {"", "RANGE"}
  TrendLookback = 3
  VolLookback = 3
  AdxPeriod = 2
INVARIANTS TypeOK SwitchesHold TradesSurviveCrashes LedgerAgrees OrdersWithinLimits
   MarketDataIsHonest DecisionsHold
PROPERTY ClosedForGood
CHECK_DEADLOCK FALSE
