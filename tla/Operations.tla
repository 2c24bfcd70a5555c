----------------------------- MODULE Operations -----------------------------
(***************************************************************************)
(* The components around the trading loops that keep records, take         *)
(* trading rights away or place orders: the two kill switches, the trade   *)
(* files and the ledger, the strategy selector and the live gate, the      *)
(* paper portfolio, the spot loop's orders and the Bitunix clients.  They  *)
(* share no state; MCOperations runs them next to the others.              *)
(***************************************************************************)
EXTENDS Integers, Sequences

CONSTANTS
  SwitchDrawdownPct, SwitchDailyLossPct, SwitchLosses, SwitchEquities, TrailBound,
  TradeIds,
  LedgerSymbols, MaxClock, RowBound,
  Strategies, TradeBound,
  Base, Overrides, Targets,
  PortfolioSymbols, InitialCapital, RiskPct, MaxExposurePct, MaxPositions, MaxDailyLossPct,
  MaxDrawdownPct, Equities, Stops, PortfolioPnls, CapitalBound,
  SpotSymbols, SpotUniverses, Funds, SpotPrices, SpotRules, TradeQuote, MaxLiveOrders, Cooldown,
  MaxAttempts, MaxCalls, SpotTime,
  BitunixRules, ClockSkews, Tolerance, MaxCommands

VARIABLES
  active, reason, peak, dailyStart, lossStreak, seen, last,
  level, trail,
  entries, order, file, index, writing, recorded, exited, torn,
  clock, idsSeen, rows, held, priced, recovery,
  config, saved, readable, vouched, fileVouched, astray,
  sources, credentials, settings, gates,
  capital, positions, dailyPnl, peakEquity, approved, topEquity, dayStart,
  connector, configured, orderClock, free, sent, tradedAt, call, calls, orders, blind,
  listing, skew, listed, booked, catalog, offset, command, tried, outcome

switchVars == <<active, reason, peak, dailyStart, lossStreak, seen, last>>
levelsVars == <<level, trail>>
filesVars == <<entries, order, file, index, writing, recorded, exited, torn>>
ledgerVars == <<clock, idsSeen, rows, held, priced, recovery>>
selectorVars == <<config, saved, readable, vouched, fileVouched, astray>>
readinessVars == <<sources, credentials, settings, gates>>
portfolioVars == <<capital, positions, dailyPnl, peakEquity, approved, topEquity, dayStart>>
spotVars == <<connector, configured, orderClock, free, sent, tradedAt, call, calls, orders, blind>>
bitunixVars == <<listing, skew, listed, booked, catalog, offset, command, tried, outcome>>

Switch == INSTANCE KillSwitch WITH
  MaxDrawdownPct <- SwitchDrawdownPct, MaxDailyLossPct <- SwitchDailyLossPct,
  MaxConsecutive <- SwitchLosses, Equities <- SwitchEquities

Levels == INSTANCE KillSwitchLevels

Files == INSTANCE TradeFiles

Ledger == INSTANCE TradeLedger WITH Symbols <- LedgerSymbols, report <- recovery

Selector == INSTANCE StrategySelector

Readiness == INSTANCE LiveReadiness WITH running <- settings, report <- gates

Portfolio == INSTANCE PortfolioManager WITH
  Symbols <- PortfolioSymbols, Pnls <- PortfolioPnls, granted <- approved

Spot == INSTANCE SpotOrders WITH
  Symbols <- SpotSymbols, Universes <- SpotUniverses, Prices <- SpotPrices, Rules <- SpotRules,
  MaxTime <- SpotTime, now <- orderClock

Bitunix == INSTANCE BitunixClients WITH
  Rules <- BitunixRules, Skews <- ClockSkews, orders <- booked, cache <- catalog

ASSUME SwitchesAssumption == Switch!KillSwitchAssumption /\ Levels!TrailAssumption
ASSUME OrdersAssumption ==
  Portfolio!PortfolioAssumption /\ Spot!SpotAssumption /\ Bitunix!BitunixAssumption

=============================================================================
