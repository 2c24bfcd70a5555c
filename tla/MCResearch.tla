----------------------------- MODULE MCResearch -----------------------------
(* The research side on small instances: backtests with their evidence,    *)
(* campaigns and qualification, event stores, downloads and checks of      *)
(* historical data, review of closed trades. As in MCOperations the first  *)
(* state picks one part and only its steps are taken.                      *)
EXTENDS Integers, Sequences

CONSTANTS
  Campaigns, Manual, Periods, Hashes, Metrics, DiscoveryGates, ConfirmationGates,
  Candidates, Spans, GateInputs, Hypotheses, MaxAdvances,
  Tickets, Types, Payloads, Values, BlockedFamilies, BlockReasons, StoreTime, QueryLimit,
  MaxEvents, MaxBlocked,
  DatasetOrigin, Strides, DatasetBars, MaxFaults, Warmup, DatasetBarsPerDay, DstDays, Shares,
  SplitGap, MinSplit,
  Interval, Ranges, PageLimit, LastStamp, MaxSnapshots

VARIABLES
  part,
  bar, equity, peak, entry, trades, curve, worst, cash, folds,
  ts, candles, todo, bookEquity, mtm, bookPeak, bookWorst, positions, admission, finished,
  bookCash,
  experiments, consumed, granted, reports, status,
  frozen, result, audited, queue, verdict,
  value, events, last, appended, blocked,
  dataset,
  reviewed, reference, results, quarantined,
  clock, gaps, fetch, writing, files, taken

backtestVars == <<bar, equity, peak, entry, trades, curve, worst, cash, folds>>
portfolioVars == <<ts, candles, todo, bookEquity, mtm, bookPeak, bookWorst, positions, admission,
                   finished, bookCash>>
campaignVars == <<experiments, consumed, granted, reports, status>>
qualificationVars == <<frozen, result, audited, queue, verdict>>
storeVars == <<value, events, last, appended, blocked>>
datasetVars == <<dataset>>
reviewVars == <<reviewed, reference, results, quarantined>>
snapshotVars == <<clock, gaps, fetch, writing, files, taken>>

vars == <<part, backtestVars, portfolioVars, campaignVars, qualificationVars, storeVars,
          datasetVars, reviewVars, snapshotVars>>

\* Two short runs, for what is aggregated over runs, with less capital than the
\* auditor assumes; and one long one, with more, where fees may eat a gain up.
Runs == INSTANCE BacktestEvidence WITH
  Capital <- 8000, Closes <- {1000, 1200}, Quantities <- {1, 2}, SlippageBps <- 100,
  Tiers <- <<<<1500, 100>>, <<3000, 50>>>>, MaxBars <- 3, MaxFolds <- 2,
  BarsPerDay <- 2, FeeBps <- 100, MaxFeeBps <- 100, MaxSlippageBps <- 200

LongRun == INSTANCE BacktestEvidence WITH
  Capital <- 12000, Closes <- {1000, 1030, 1200}, Quantities <- {1, 2}, SlippageBps <- 100,
  Tiers <- <<<<1500, 100>>, <<3000, 50>>>>, MaxBars <- 5, MaxFolds <- 1,
  BarsPerDay <- 2, FeeBps <- 100, MaxFeeBps <- 100, MaxSlippageBps <- 200

Candle(low, high, close) == [low |-> low, high |-> high, close |-> close]

Portfolio == INSTANCE PortfolioBacktest WITH
  Symbols <- <<1, 2, 3>>, Candles <- {Candle(99, 101, 100), Candle(94, 101, 97)},
  Risks <- {-20, 5}, Capital <- 10000, RiskBps <- 100, MaxPositions <- 2,
  MaxDailyLossPct <- 1, MaxConsecutiveLosses <- 2, Slip <- 1, CommissionBps <- 10, MaxTs <- 2,
  equity <- bookEquity, peak <- bookPeak, worst <- bookWorst, cash <- bookCash

Period(from, to) == [symbol |-> "a", timeframe |-> "5m", from |-> from, to |-> to]
Result(count, expectation, factor, profit, depth) ==
  [trades |-> count, expR |-> expectation, pf |-> factor, pnl |-> profit, drawdown |-> depth]

MCPeriods == {Period(0, 2), Period(1, 3), Period(2, 3)}
MCMetrics == {Result(30, 10, 200, 5, 1000), Result(25, 6, 110, 5, 1200)}
MCDiscoveryGates == Result(30, 10, 100, 0, 1000)
MCConfirmationGates == Result(20, 5, 100, 0, 1500)

Campaign == INSTANCE ResearchCampaigns WITH Windows <- Periods

\* Inputs of the gates: one that passes them all, and that one with one
\* thing wrong or, for a set, missing, on the side of one gate or the other.
PassingRun ==
  [evidence |-> {"HISTORICAL_MARKET_REAL"}, quality |-> {TRUE},
   backtest |-> {[trades |-> 1, calculated |-> TRUE]}, reconciled |-> TRUE, audit |-> TRUE,
   hashValid |-> TRUE, effects |-> {}, dataset |-> {"HISTORICAL_MARKET_REAL"}]
PassingMarket ==
  [class |-> "HISTORICAL_MARKET_REAL", provenance |-> {TRUE}, checksum |-> TRUE, quality |-> TRUE,
   accounting |-> TRUE, granted |-> {"engine", "risk", "methodology", "freeze", "restart", "calendar"}]
FlawedRuns ==
  {[PassingRun EXCEPT !.evidence = e] : e \in {{}, {"SYNTHETIC"}, {"HISTORICAL_FIXTURE"}}}
  \cup {[PassingRun EXCEPT !.quality = q] : q \in {{}, {FALSE}}}
  \cup {[PassingRun EXCEPT !.backtest = t] :
          t \in {{}, {[trades |-> 0, calculated |-> TRUE]}, {[trades |-> 1, calculated |-> FALSE]}}}
  \cup {[PassingRun EXCEPT !.dataset = d] : d \in {{}, {"SYNTHETIC"}}}
  \cup {[PassingRun EXCEPT !.effects = e] : e \in {{"live"}, {"paper"}}}
  \cup {[PassingRun EXCEPT !.reconciled = FALSE], [PassingRun EXCEPT !.audit = FALSE],
         [PassingRun EXCEPT !.hashValid = FALSE]}
FlawedMarkets ==
  {[PassingMarket EXCEPT !.class = c] : c \in {"HISTORICAL_FIXTURE", "PAPER_REALTIME"}}
  \cup {[PassingMarket EXCEPT !.checksum = FALSE], [PassingMarket EXCEPT !.quality = FALSE],
         [PassingMarket EXCEPT !.accounting = FALSE], [PassingMarket EXCEPT !.provenance = {}],
         [PassingMarket EXCEPT !.granted = @ \ {"restart"}]}

\* Both told that the data is paper data, or that it failed its checks.
MCInputs ==
  {[run |-> r, market |-> PassingMarket] : r \in {PassingRun} \cup FlawedRuns}
  \cup {[run |-> PassingRun, market |-> m] : m \in FlawedMarkets}
  \cup {[run |-> [PassingRun EXCEPT !.evidence = {"PAPER_REALTIME"}],
         market |-> [PassingMarket EXCEPT !.class = "PAPER_REALTIME"]],
        [run |-> [PassingRun EXCEPT !.quality = {FALSE}],
         market |-> [PassingMarket EXCEPT !.quality = FALSE]]}
Span(symbol, from, to) == [symbol |-> symbol, from |-> from, to |-> to]

MCCandidates == {[code |-> 1, risk |-> 1], [code |-> 1, risk |-> 2]}
MCSpans == {Span("a", 0, 2), Span("a", 1, 3), Span("a", 2, 3), Span("b", 0, 2)}

Qualify == INSTANCE Qualification WITH Windows <- Spans, Inputs <- GateInputs

Stores == INSTANCE EventStores WITH
  Families <- BlockedFamilies, Reasons <- BlockReasons, MaxTime <- StoreTime, Limit <- QueryLimit

MCStrides == {-1, 0, 1, 2}
MCShares == {<<33, 33>>, <<50, 50>>, <<10, 90>>, <<100, 33>>}

Dataset == INSTANCE DatasetChecks WITH
  Origin <- DatasetOrigin, MaxBars <- DatasetBars, BarsPerDay <- DatasetBarsPerDay,
  Gap <- SplitGap, bars <- dataset

Trade(entered, family, side, from, to, fee, pnl) ==
  [entered |-> entered, family |-> family, side |-> side, entry |-> from, exit |-> to,
   quantity |-> 1, fee |-> fee, pnl |-> pnl]

\* The fourth trade reports a gain on a loss, the fifth has no entry price.
Review == INSTANCE TradeReview WITH
  Trades <- {Trade(3, "m", "buy", 100, 120, 2, 18), Trade(1, "m", "buy", 108, 100, 0, -8),
             Trade(2, "t", "sell", 100, 80, 0, -20), Trade(2, "m", "sell", 100, 80, 2, 18),
             Trade(4, "t", "buy", 0, 100, 0, 100)},
  References <- {100}, MonthLength <- 2, MaxTrades <- 4, trades <- reviewed

MCRanges == {<<0, 5>>, <<2, 6>>, <<4, 4>>}

Snapshots == INSTANCE KlineSnapshots WITH Limit <- PageLimit, MaxTime <- LastStamp

ASSUME VerdictsAssumption == Campaign!CampaignAssumption /\ Qualify!QualificationAssumption
ASSUME HistoryAssumption ==
  Stores!StoreAssumption /\ Dataset!DatasetAssumption /\ Snapshots!SnapshotAssumption
ASSUME Review!ReviewAssumption

-----------------------------------------------------------------------------

Parts == {"backtest", "longrun", "portfolio", "campaign", "qualification", "stores", "dataset", "review",
          "snapshots"}

\* The payloads have one value while another part is looked at.
Init ==
  /\ part \in Parts
  /\ (IF part = "longrun" THEN LongRun!Init ELSE Runs!Init)
  /\ Portfolio!Init /\ Campaign!Init /\ Qualify!Init /\ Dataset!Init
  /\ Review!Init /\ Stores!Init
  /\ part # "stores" => \A p \in DOMAIN value : value[p] = 0
  /\ Snapshots!Init
  /\ part # "snapshots" => clock = 0 /\ gaps = {}

\* The other parts stay as they are.
Others ==
  /\ UNCHANGED part
  /\ IF part \in {"backtest", "longrun"} THEN TRUE ELSE UNCHANGED backtestVars
  /\ IF part = "portfolio" THEN TRUE ELSE UNCHANGED portfolioVars
  /\ IF part = "campaign" THEN TRUE ELSE UNCHANGED campaignVars
  /\ IF part = "qualification" THEN TRUE ELSE UNCHANGED qualificationVars
  /\ IF part = "stores" THEN TRUE ELSE UNCHANGED storeVars
  /\ IF part = "dataset" THEN TRUE ELSE UNCHANGED datasetVars
  /\ IF part = "review" THEN TRUE ELSE UNCHANGED reviewVars
  /\ IF part = "snapshots" THEN TRUE ELSE UNCHANGED snapshotVars

BacktestStep == part = "backtest" /\ Runs!Next /\ Others
LongRunStep == part = "longrun" /\ LongRun!Next /\ Others
PortfolioStep == part = "portfolio" /\ Portfolio!Next /\ Others
CampaignStep == part = "campaign" /\ Campaign!Next /\ Others
QualificationStep == part = "qualification" /\ Qualify!Next /\ Others
StoresStep == part = "stores" /\ Stores!Next /\ Others
DatasetStep == part = "dataset" /\ Dataset!Next /\ Others
ReviewStep == part = "review" /\ Review!Next /\ Others
SnapshotsStep == part = "snapshots" /\ Snapshots!Next /\ Others

Next ==
  \/ BacktestStep \/ LongRunStep \/ PortfolioStep \/ CampaignStep \/ QualificationStep
  \/ StoresStep \/ DatasetStep \/ ReviewStep \/ SnapshotsStep

Spec == Init /\ [][Next]_vars

TypeOK ==
  /\ part \in Parts
  /\ (IF part = "longrun" THEN LongRun!TypeOK ELSE Runs!TypeOK) /\ Portfolio!TypeOK /\ Campaign!TypeOK /\ Qualify!TypeOK
  /\ Stores!TypeOK /\ Dataset!TypeOK /\ Review!TypeOK /\ Snapshots!TypeOK

-----------------------------------------------------------------------------
(* Properties: what each part promises, by what would break if it failed.  *)

\* The engine's equity, trades, curve, reports and evidence tell one story of
\* the same fills, and the gates refuse another one (backtesting,
\* research/backtest_evidence.py, cost_integrity.py, quant_auditor_v021.py).
BacktestsBalance ==
  IF part = "longrun" THEN LongRun!Safe /\ LongRun!EvidenceSafe ELSE Runs!Safe /\ Runs!EvidenceSafe

\* The portfolio backtest's admission controller mirrors its positions and its
\* equity is accounted for; closed trades are quarantined and broken down
\* without loss (research/portfolio_backtest.py, admission.py, stability.py,
\* paper/validation.py).
BooksAndReviewsAgree == Portfolio!Safe /\ Review!Safe

\* Fresh data is untouched, a verdict is paid for with a consumed period, and
\* only the frozen candidate is confirmed (research/registry.py, campaign.py,
\* validation.py, confirmation.py, gates.py).
VerdictsHold == Campaign!Safe /\ Qualify!Safe

\* A verified event chain is the one that was appended, queries agree with
\* their counts, checks of a series agree with one another, and a download
\* has no holes and is described by what is saved beside it (storage/
\* event_store.py, research/event_store.py, data_integrity.py, calendar.py,
\* market_provenance.py).
HistoryIsHonest == Stores!Safe /\ Dataset!Safe /\ Snapshots!Safe

=============================================================================
