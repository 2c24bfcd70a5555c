---------------------------- MODULE MCOperations ----------------------------
(* The components around the trading loops that share no state with one    *)
(* another, on small instances: kill switches, trade journals, portfolio,  *)
(* configuration, market data and order path. The first state picks one of *)
(* them, part, and only its steps are taken, so the run is the union of    *)
(* the runs of the parts and not their product.                            *)
EXTENDS Operations, Decisions

VARIABLE part

Signal(symbol, side, text) == [symbol |-> symbol, side |-> side, reason |-> text]

\* What the journal is given to record.
MCSignals == {Signal("A", "buy", "cross"), Signal("B", "sell", "sin motivo")}
MCRowPnls == {-3, 0, 4}

Target(id, type, enabled) == [id |-> id, type |-> type, enabled |-> enabled]
Rule(open, quote, trade, volume) ==
  [open |-> open, quote |-> quote, minTrade |-> trade, minVolume |-> volume]

\* The exchanges of a session, and what its markets ask of an order.
MCUniverses ==
  {<<Target("binance", "spot", TRUE), Target("bitunix", "spot", FALSE),
     Target("bitunix", "futures", TRUE)>>,
   <<Target("bitunix", "spot", TRUE), Target("binance", "spot", FALSE)>>,
   <<>>, <<Target("kraken", "spot", TRUE)>>}
MCRules == {Rule(TRUE, "USDT", 50, 1), Rule(TRUE, "USDT", 10, 6), Rule(FALSE, "USDT", 10, 1)}
MCPnls == {-100, 100}

\* The configuration files, what other sources override, and the exchanges.
MCBase == [mode |-> "paper", live |-> FALSE, understood |-> TRUE, confirm |-> TRUE,
           kill |-> TRUE, sandbox |-> TRUE, riskLive |-> FALSE, exchangeId |-> "sim"]
MCOverrides == {<<"mode", "live">>, <<"mode", "shadow_live">>, <<"live", TRUE>>,
                <<"kill", FALSE>>, <<"exchangeId", "real">>, <<"sandbox", FALSE>>}
MCTargets == {[id |-> "sim", enabled |-> TRUE, sandbox |-> TRUE],
              [id |-> "real", enabled |-> TRUE, sandbox |-> FALSE],
              [id |-> "off", enabled |-> FALSE, sandbox |-> FALSE]}

Filter(volume, spread, low, high) ==
  [minVolume |-> volume, maxSpread |-> spread, minAtr |-> low, maxAtr |-> high]
Candle(high, low, close) == [high |-> high, low |-> low, close |-> close]

\* Missing and NaN of Scanning.
NoNumber == -2000
NotANumber == -1000

\* What the exchange may answer a scan.
MCScanUniverses == {<<1, 2>>, <<1, 1>>, <<>>}
MCScanFilters == {Filter(1, 10, 1, 8), Filter(8, 60, 2, 4), Filter(12, 60, 2, 4)}
MCQuoteVolumes == {NoNumber, NotANumber, -5, 9, 50}
MCBooks == {<<NoNumber, 100>>, <<0, 0>>, <<1000, 1001>>, <<1000, 1002>>}
MCHistories ==
  {<<Candle(101, 99, 100)>>, <<Candle(101, 99, 100), Candle(102, 99, 100)>>,
   <<Candle(101, 99, 100), Candle(110, 103, 100)>>}

Entry(enabled, state, regimes, priority) ==
  [enabled |-> enabled, status |-> state, regimes |-> regimes, priority |-> priority]

\* What the router may choose from.
MCStrategyMaps ==
  {<<>>,
   <<Entry(TRUE, "CONFIRMED", {"TREND_UP"}, 0), Entry(TRUE, "CONFIRMED", {}, -20),
     Entry(TRUE, "CONFIRMED", {"TREND_UP", "RANGE", "HIGH_VOLATILITY"}, 0),
     Entry(TRUE, "PENDING", {}, 50), Entry(FALSE, "CONFIRMED", {}, 60)>>}

Gate(confirmed, match, quality, fresh) ==
  [confirmed |-> confirmed, match |-> match, quality |-> quality, fresh |-> fresh]

\* The router's default gates, and none.
MCGates == {Gate(TRUE, TRUE, 50, TRUE), Gate(FALSE, FALSE, 0, FALSE)}

\* The local clock is right or three seconds ahead.
MCSkews == {-3, 0}

-----------------------------------------------------------------------------

Parts == {"switch", "levels", "files", "ledger", "audit", "portfolio", "spot", "selector",
          "readiness", "parity", "scan", "quota", "feed", "routing", "bitunix", "families"}

\* A part whose Init leaves a choice starts in one state while another part
\* is looked at.
Init ==
  /\ part \in Parts
  /\ Switch!Init /\ Levels!Init /\ Files!Init /\ Ledger!Init /\ Audit!Init
  /\ Portfolio!Init /\ Spot!Init /\ Selector!Init /\ Readiness!Init /\ Quota!Init
  /\ Parity!Init /\ Feed!Init /\ Scan!Init /\ Routing!Init /\ Bitunix!Init
  /\ part # "parity" => ~given /\ \A h \in DOMAIN same : ~same[h]
  /\ part # "feed" => unit = 1000
  /\ part # "scan" => mode = "paper" /\ kill /\ pairs = <<>> /\ filters.minVolume = 1
  /\ part # "bitunix" => listing = "fine"
  /\ IF part = "families" THEN Alpha!Init
     ELSE market = Alpha!AnyMarket /\ alphas = {} /\ stopPct = {}

\* The other parts stay as they are.
Others ==
  /\ UNCHANGED part
  /\ IF part = "switch" THEN TRUE ELSE UNCHANGED switchVars
  /\ IF part = "levels" THEN TRUE ELSE UNCHANGED levelsVars
  /\ IF part = "files" THEN TRUE ELSE UNCHANGED filesVars
  /\ IF part = "ledger" THEN TRUE ELSE UNCHANGED ledgerVars
  /\ IF part = "audit" THEN TRUE ELSE UNCHANGED auditVars
  /\ IF part = "portfolio" THEN TRUE ELSE UNCHANGED portfolioVars
  /\ IF part = "spot" THEN TRUE ELSE UNCHANGED spotVars
  /\ IF part = "selector" THEN TRUE ELSE UNCHANGED selectorVars
  /\ IF part = "readiness" THEN TRUE ELSE UNCHANGED readinessVars
  /\ IF part = "parity" THEN TRUE ELSE UNCHANGED parityVars
  /\ IF part = "scan" THEN TRUE ELSE UNCHANGED scanVars
  /\ IF part = "quota" THEN TRUE ELSE UNCHANGED quotaVars
  /\ IF part = "feed" THEN TRUE ELSE UNCHANGED feedVars
  /\ IF part = "routing" THEN TRUE ELSE UNCHANGED routingVars
  /\ IF part = "bitunix" THEN TRUE ELSE UNCHANGED bitunixVars
  /\ IF part = "families" THEN TRUE ELSE UNCHANGED familiesVars

SwitchStep == part = "switch" /\ Switch!Next /\ Others
LevelsStep == part = "levels" /\ Levels!Next /\ Others
FilesStep == part = "files" /\ Files!Next /\ Others
LedgerStep == part = "ledger" /\ Ledger!Next /\ Others
AuditStep == part = "audit" /\ Audit!Next /\ Others
PortfolioStep == part = "portfolio" /\ Portfolio!Next /\ Others
SpotStep == part = "spot" /\ Spot!Next /\ Others
SelectorStep == part = "selector" /\ Selector!Next /\ Others
ReadinessStep == part = "readiness" /\ Readiness!Next /\ Others
ParityStep == part = "parity" /\ Parity!Next /\ Others
ScanStep == part = "scan" /\ Scan!Next /\ Others
QuotaStep == part = "quota" /\ Quota!Next /\ Others
FeedStep == part = "feed" /\ Feed!Next /\ Others
RoutingStep == part = "routing" /\ Routing!Next /\ Others
BitunixStep == part = "bitunix" /\ Bitunix!Next /\ Others
FamiliesStep == part = "families" /\ Alpha!Next /\ Others

Next ==
  \/ SwitchStep \/ LevelsStep \/ FilesStep \/ LedgerStep \/ AuditStep \/ PortfolioStep
  \/ SpotStep \/ SelectorStep \/ ReadinessStep \/ ParityStep \/ ScanStep \/ QuotaStep
  \/ FeedStep \/ RoutingStep \/ BitunixStep \/ FamiliesStep

vars == <<part, switchVars, levelsVars, filesVars, ledgerVars, auditVars, portfolioVars,
  spotVars, selectorVars, readinessVars, parityVars, scanVars, quotaVars, feedVars,
  routingVars, bitunixVars, familiesVars>>

Spec == Init /\ [][Next]_vars

TypeOK ==
  /\ part \in Parts
  /\ Switch!TypeOK /\ Levels!TypeOK /\ Files!TypeOK /\ Ledger!TypeOK /\ Audit!TypeOK
  /\ Portfolio!TypeOK /\ Spot!TypeOK /\ Selector!TypeOK /\ Readiness!TypeOK
  /\ Parity!TypeOK /\ Scan!TypeOK /\ Quota!TypeOK /\ Feed!TypeOK /\ Routing!TypeOK
  /\ Bitunix!TypeOK /\ Alpha!TypeOK

-----------------------------------------------------------------------------
(* Properties: what each part promises, by what would break if it failed.  *)

\* No drawdown limit is evaded by deactivating, resetting or winning in
\* between; alarms only take trading rights away, and a halted switch is left
\* by a named decision alone (paper/kill_switch.py, kill_switch_v2.py).
SwitchesHold == Switch!Safe /\ Levels!Safe

\* No crash between the two writes of a paper trade loses it or reopens an
\* exit (paper/trade_journal.py).
TradesSurviveCrashes == Files!Safe

\* Reconciliation and recovery write off no live position, identifiers never
\* collide, and the audit queries over the journal's rows agree with one
\* another (observability/journal.py, paper/reconciliation.py).
LedgerAgrees == Ledger!Safe /\ Audit!Safe

\* A closed row stays closed, and each start-up reconciliation leaves fewer
\* orphans (observability/journal.py, paper/reconciliation.py).
ClosedForGood == Ledger!ClosedForGood

\* Exposure, cap, cooldown and balance hold with retries, lost replies and
\* closings between a size and its opening, and a command becomes at most one
\* order (paper/portfolio_manager.py, the spot path and the place-order
\* command of app.py, exchange_connector.py, bitunix.py, bitunix_futures.py).
OrdersWithinLimits == Portfolio!Safe /\ Spot!Safe /\ Bitunix!Safe

\* No strategy trades that nobody gave a status that may trade and nobody
\* deactivated since, and no process goes live on settings that did not arm it
\* (config, execution/live_gate.py, paper/strategy_selector.py).
NothingArmsItself == Selector!Safe /\ Readiness!Safe

\* Candles handed on as complete are, every pair of a scan is accounted for,
\* and no window of reads exceeds the quota (market_data, storage/
\* ohlcv_store.py, scanner).
MarketDataIsHonest == Scan!Safe /\ Quota!Safe /\ Feed!Safe

\* A context is rebuilt from later data as it was, the router takes the best
\* of the allowed, a family's stop protects what it proposes, and parity
\* passes only between equal signals (research/asset_intelligence, families,
\* strategy_router.py, paper/parity_gate.py, signal_adapter.py).
DecisionsHold == Routing!Safe /\ Alpha!Safe /\ Parity!Safe

=============================================================================
