SPECIFICATION Spec
CONSTANTS
  Campaigns = {1}
  Manual = {3, 4}
  Periods <- MCPeriods
  Hashes = {"h"}
  Metrics <- MCMetrics
  DiscoveryGates <- MCDiscoveryGates
  ConfirmationGates <- MCConfirmationGates
  Candidates <- MCCandidates
  Spans <- MCSpans
  GateInputs <- MCInputs
  Hypotheses = 1
  MaxAdvances = 2
  Tickets = {0, 1}
  Types = {"FillReceived", "TradeClosed"}
  Payloads = {1, 2}
  Values = {0, 1}
  BlockedFamilies = {1}
  BlockReasons = {1, 2}
  StoreTime = 1
  QueryLimit = 1
  MaxEvents = 2
  MaxBlocked = 2
  DatasetOrigin = 1000
  Strides <- MCStrides
  DatasetBars = 5
  MaxFaults = 1
  Warmup = 3
  DatasetBarsPerDay = 2
  DstDays = {501}
  Shares <- MCShares
  SplitGap = 1
  MinSplit = 3
  Interval = 2
  Ranges <- MCRanges
  PageLimit = 2
  LastStamp = 6
  MaxSnapshots = 2
INVARIANTS TypeOK BacktestsBalance BooksAndReviewsAgree VerdictsHold HistoryIsHonest
CHECK_DEADLOCK FALSE
