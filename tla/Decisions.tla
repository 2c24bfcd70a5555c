----------------------------- MODULE Decisions ------------------------------
(***************************************************************************)
(* The components that decide what may be asked for or traded, and those   *)
(* that answer from what was read or recorded: the read quota, the scanner *)
(* and the candle feed, the alpha families, the parity gate, the strategy  *)
(* router and the journal's audit queries.                                 *)
(* They share no state; MCOperations runs them next to the others.         *)
(***************************************************************************)
EXTENDS Integers, Sequences

CONSTANTS
  Providers, Capacity, QuotaWindow, Costs, QuotaTime,
  ScanUniverses, ScanFilters, QuoteVolumes, Books, Histories,
  MinHistory, LiveMinVolume, LiveMaxSpread, LiveMaxAtr,
  Pulled, Origin, FeedTime, FeedSteps, FetchLimit, MaxPulls, MsThreshold,
  AlphaPrices, Atrs, Marks,
  SignalDirections, Entries, MaxSignals,
  RowSignals, RowPnls, AuditLimits, AuditThresholds, MinTrades, MaxTrades, MaxBlocked,
  RoutePrices, BarLength, RouteTime, RouteWindow, MinBars, Slow, Fast, AtrPeriod, RsiPeriod,
  ReturnsBack, FullWindow, StaleAfter, StrategyMaps, RouterGates, RegimesTold,
  TrendLookback, VolLookback, AdxPeriod

VARIABLES
  quotaClock, events, granted, hint,
  mode, kill, pairs, filters, running, todo, stage, cache, counters, snapshots, allFailed,
  unit, now, pulls, table, answer, dropped,
  market, alphas, stopPct,
  trades, vetoed,
  same, signals, given, parity,
  barClock, bars, context, decision

quotaVars == <<quotaClock, events, granted, hint>>
scanVars == <<mode, kill, pairs, filters, running, todo, stage, cache, counters, snapshots, allFailed>>
feedVars == <<unit, now, pulls, table, answer, dropped>>
familiesVars == <<market, alphas, stopPct>>
auditVars == <<trades, vetoed>>
parityVars == <<same, signals, given, parity>>
routingVars == <<barClock, bars, context, decision>>

Quota == INSTANCE ReadQuota WITH
  Window <- QuotaWindow, MaxTime <- QuotaTime, now <- quotaClock

Scan == INSTANCE Scanning WITH Universes <- ScanUniverses, Filters <- ScanFilters

Feed == INSTANCE CandleFeed WITH MaxTime <- FeedTime, Steps <- FeedSteps, Limit <- FetchLimit

Alpha == INSTANCE AlphaFamilies WITH Prices <- AlphaPrices, answer <- alphas

Parity == INSTANCE ParityGate WITH Directions <- SignalDirections, report <- parity

Audit == INSTANCE JournalAudit WITH
  Signals <- RowSignals, Pnls <- RowPnls, Limits <- AuditLimits,
  Thresholds <- AuditThresholds, blocked <- vetoed

Routing == INSTANCE StrategyRouting WITH
  Prices <- RoutePrices, MaxTime <- RouteTime, Window <- RouteWindow, Gates <- RouterGates,
  now <- barClock

ASSUME RequestsAssumption == Quota!QuotaAssumption
ASSUME ReadingsAssumption == Scan!ScanAssumption /\ Feed!FeedAssumption
ASSUME DecisionsAssumption == Alpha!AlphaAssumption
ASSUME RowsAssumption == Audit!AuditAssumption
ASSUME RoutesAssumption == Routing!RoutingAssumption

=============================================================================
