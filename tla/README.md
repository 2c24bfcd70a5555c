# Formal models of the trading bot

TLA+ specifications of the parts of `trading_bot` that decide whether, when and
how much to trade, the TLC runs that check them on small instances, and proofs
checked by TLAPS. Paths below are relative to the repository; the
implementation is `src/trading_bot/`, abbreviated `tb/`.

    tlasany PaperSession.tla
    tlc -workers 2 -config MCPaperSession.cfg MCPaperSession
    tlapm OperationsProofs.tla

## 1. The system

The bot scans pairs, turns candles into alphas, passes each alpha through an
idempotency guard and a risk manager, and executes it on a simulated broker
(paper) or on an exchange (live). Everything that trades is one asyncio task per
process; what interleaves with it runs at its awaits only.

| Component | State | Operations | Hard behaviour | What makes it correct |
|---|---|---|---|---|
| Paper broker `tb/paper/broker.py` | open positions by symbol, closed trades, equity, fill counters | execute_signal, check_positions, check_positions_ohlc, reconcile_session | one symbol opened, flipped, stopped and re-opened in any order; a candle that hits stop and target | money and fills are accounted for; reasons are honest |
| Risk manager `tb/risk/manager.py` | equity and its peak, results and trades of the day, loss streak, registered positions, kill switch | check_signal (pure), record_trade_result, add/remove_position, reset_daily, activate_kill_switch | limits reached exactly; counters written by several methods | a granted size respects the limits; limits are lifted only by the reset |
| Idempotency guard `tb/execution/idempotency.py` | set of client order ids | is_duplicate, register | the same bar seen by several sessions, a cancelled session | an intent is acted on once |
| Paper session loop `tb/paper/paper_orchestrator.py`, `harness.py` | running, sessions completed | run, run_session | kill switch, settings and cancellation at every await; results fed back into risk | see section 4 |
| Paper cycle `tb/paper/paper_cycle.py`, `signal_adapter.py`, `candidate_portfolio.py` | none of its own | run_cycle | equity synchronised once, candidates processed one after another | composition of guard, risk, broker |
| Scanner `tb/scanner/` | mode, running flag, counters, cache of one iteration | scan_once | a pair that raises half-way; a symbol listed twice; NaN from an exchange | every pair is accounted for; one reading per pair; live limits never looser |
| Kill switches `tb/paper/kill_switch.py`, `kill_switch_v2.py` | active flag, level, peak, streaks, history | activate, deactivate, check, reset_daily, escalate, reset | deactivation keeps the peak; explicit targets beside the escalation | no drawdown is forgiven; alarms only take rights away |
| Paper trade journal `tb/paper/trade_journal.py` | entry files, index file | record_signal, record_exit, load | crash inside or between the writes; one unreadable file | what was recorded is found again; exits stay exits |
| Reconciliation, recovery `tb/paper/reconciliation.py`, `startup_recovery.py`, `tb/observability/journal.py` | rows of the SQLite journal against the broker's memory | record_open, record_close, reconcile, recover | two openings within a millisecond; orphans of earlier processes | no live position is written off; each pass leaves fewer orphans |
| Audit queries `tb/observability/journal.py` | the same rows, and blocked signals | entry decisions, win rates by reason, strategy, pair | limits applied before a filter | lists, counts and alarms agree |
| Live loop `tb/app.py` | trade cases, cooldowns, order counters | spot and futures cycle, place-order | lost replies, stale positions, caps, restarts | no second order, no forgotten position, results in the right case |
| Exchange clients `tb/market_data/exchange_connector.py`, `bitunix.py`, `bitunix_futures.py` | catalog, clock offset, rate-limit and retry state | create_order, fetch_market_rules, signed requests | retries of an accepted order; a clock that is off | one id for all attempts; a command is at most one order |
| Quota `tb/market_data/quota.py` | timestamps in a window | check, consume, remaining | the edge of the window | never more than the quota in any window |
| Candle feed `tb/market_data/`, `tb/storage/ohlcv_store.py` | stored bars | pull, upsert, closed-candle filter, higher-timeframe state | a bar pulled while it forms; seconds and milliseconds | complete means final |
| Router, contexts, families, parity `tb/research/`, `tb/paper/parity_gate.py` | none between cycles | build a context, route, generate, check | the forming bar; rules written by copying | replays are exact; stops are on the losing side |
| Portfolio manager, selector `tb/paper/` | positions, exposure, capital; strategy files | size, open, close; register, activate, restart | a size used after others closed; a file lost, edited or not written | exposure bounded; nothing withdrawn trades again by itself |
| Configuration and live gate `tb/config/`, `tb/execution/live_gate.py` | settings of the process | load, validate, gate | several sources of one setting | nothing is live that was not armed everywhere |
| Backtests `tb/backtesting/`, `tb/research/portfolio_backtest.py`, `backtest_evidence.py` | equity, positions, trades, curve, admission counters | the bar loop, metrics, gates | several books of the same fills | the books agree |
| Campaigns, qualification `tb/research/` | registry rows, consumed periods, queue, frozen candidate | preregister, discover, confirm, freeze | a window granted and used later, by several campaigns | only fresh data confirms, only what was frozen is confirmed |
| Event stores, datasets, downloads, reviews | hash chain, SQLite rows, files, trades | append, query, page, snapshot, quarantine | a payload that changes; torn writes; gaps | verified means unchanged; a snapshot describes its data |
| Indicators, charts, reports, strategy generation | none that a loop keeps | numeric functions, text, I/O | - | out of scope, see section 7 |

How they interact: `PaperOrchestrator.run` checks its gates and awaits
`PaperSessionRunner.run_session`. That awaits the scanner, copies the broker's
equity into the risk manager, awaits the candle histories and then, without
another await, walks the candidates (guard, adapter, `check_signal`,
`execute_signal`), reconciles the broker against the prices the scan returned and
walks the closed trades into `record_trade_result`. The risk manager and the
broker are shared objects, mutated by direct calls.

The live loop is a separate command of `tb/app.py`. It shares no memory with the
paper loop: it calls the exchange client and writes trade cases into the SQLite
journal, and what interleaves with it is the exchange (positions that close by
themselves), an operator's `place-order` and the end of its own process.
`PROJECT.json` lists every component and, under `hazards`, every place where this can go wrong.

## 2. Modules

| Module | Models | Abstraction |
|---|---|---|
| `PaperBroker` | the broker class | whole ticks and money units; slippage is a fixed number of ticks against the trader; divisions round down |
| `RiskManager` | the risk manager class | percentages and money are integers; `check_signal` is the pair of operators `Approves`, `Notional` |
| `PaperSession` | orchestrator, session, cycle, guard | composes instances `B` of `PaperBroker` and `R` of `RiskManager` over its own variables |
| `TradingDesk` | what the loop promises from outside | abstract: intents acted on once, one position per symbol, an opposite intent only closes, nothing is opened once halted |
| `LiveFutures` | the live futures loop of `app.py`, its trade cases, and the exchange as the loop sees it | which pairs are active, in which direction and with which margin is any choice; sizes and prices are left out |
| `KillSwitch`, `KillSwitchLevels` | the two kill switches of `tb/paper/` | equities and percentages are integers; reasons are labels |
| `TradeFiles` | the paper journal's files | a write is truncation and completion; a file is absent, cut or holds a state |
| `TradeLedger`, `JournalAudit` | the SQLite journal, its reconciliation and recovery; its audit queries | a row is its identifier, symbol and state, or what the queries read |
| `PortfolioManager` | sizes, exposure and loss limits | money in whole units; no sign of capital or size is checked, as in the code |
| `SpotOrders`, `BitunixClients` | the spot path of the live loop with its connector; the Bitunix clients and `place-order` | the exchange knows an order by its client identifier; requests and replies are lost |
| `StrategySelector`, `LiveReadiness` | strategies registered with any status, and their files over edits, failed writes and restarts; settings, their sources and the live gate | a setting is a member of a small set; an edited file keeps the `strategy_id` it is named after |
| `Scanning`, `ReadQuota`, `CandleFeed` | market data | NaN is a value every comparison with which is false; a bar is its open time and how much of it had traded |
| `StrategyRouting`, `AlphaFamilies`, `ParityGate` | asset contexts and the router; the six families and the adapter's stop; the comparison of signals | indicators are inputs, as the families accept them from their caller |
| `Backtest`, `BacktestEvidence`, `PortfolioBacktest` | the engines, and what is computed from their trades | whole minor units; a strategy is any source of orders |
| `ResearchCampaigns`, `Qualification` | registry, campaigns, confirmation, gates | equal hashes are equal values; metrics are one passing and one failing record |
| `EventStores`, `DatasetChecks`, `KlineSnapshots`, `TradeReview` | event logs, checks of candle series, historical downloads, quarantine and breakdowns | a hash or checksum is the sequence of what it was computed from |
| `Operations`, `Decisions` | the instances whose constants stay open, so that theorems hold for every value of them: kill switches, journals, selector, live gate, portfolio, spot and Bitunix orders; quota, scanner, candle feed, families, parity gate, router, audit queries | no behaviour of their own |
| `MCOperations`, `MCResearch` | the sums of the components around the loops, see *Sums*; `MCOperations` extends `Operations` and `Decisions` | |
| `MCPaperBroker`, `MCRiskManager`, `MCPaperSession`, `MCLiveFutures` | constants and symmetry of the runs; four documented statements the code does not keep | |
| `Induction` | induction on numbers and over subsets, what a sum over a finite set computes, and order by rank | lemmas only |
| `PaperBrokerProofs`, `RiskManagerProofs`, `PaperSessionProofs`, `LiveFuturesProofs` | theorems about the modules they are named for | |
| `OperationsProofs`, `DecisionsProofs`, `ResearchProofs` | invariants of the components; theorems about the specifications of the two sums | |

Operators marked *Faulty variant* in the comment above them are not part of a specification. Each is a plausible bug of the
definition that follows it; putting it in that definition's place must break a
property, and `PROJECT.json` says which.

### PaperBroker

`positions` is `_positions` (the dict's insertion order is `openedAt`),
`closedTrades` is `_closed`, `fillsOpened` and `fillsClosed` are the two fill
counters. `execute_signal` has three outcomes, one action each: `CloseOpposite`
(a signal against the held side closes, and does *not* open the other side),
`SkipDuplicate`, `OpenPosition`. `check_positions` is `CheckPosition` per
position, `check_positions_ohlc` is `CheckPositionOhlc` under both policies.
Opening costs no equity; closing books both commissions (`NetPnl`).

### RiskManager

One operator per gate of `check_signal`, in the code's order; the order matters
for the reason reported only, so `Blocked` is their disjunction. The
percentage of the daily loss gate is taken of the *current* equity, as in the code.

### PaperSession

`phase` is the task's program counter. `scan`, `history` and `sleep` are its
awaits; there, and when stopped, `ActivateKillSwitch`, `ChangeSettings`,
`NewBar` and `Cancel` may happen. `decide`, `reconcile` and `record` contain no
await, so nothing else runs there; they are split into one step per candidate,
position or trade to keep each step readable.

- `ScanCompletes` returns for each symbol a price, the placeholder of a filtered
  pair (`Inactive`), or nothing (`Absent`), and copies the broker's equity.
- `HistoryRead` chooses any alphas of any family for active symbols, on bars up to the
  latest one at the session's start, and any `MaxCandidates` of them.
- `IntentOf` is the key `intent_cloid` hashes: the family (its `strategy_id`), symbol,
  direction and bar. Another family on the same bar is another intent.
- `DropCandidate`, `FlipCloses`, `OrderOpens` are the outcomes for a candidate.
- `BeginReconcile`/`ReconcilePosition`, `BeginRecord`/`RecordTrade`,
  `EndSession` or `SessionRaises` (an archive or report that cannot be written).
- Results of a session are local variables of the code: `ForgetLocals`.

The router and the alpha families are replaced by *any* result they could
return, so what is checked does not depend on them. `executions` is a history
variable that the code does not have.

### LiveFutures

The loop is one thread, so `phase` is its program counter, with a value in front
of each call that something else can happen before. One iteration:

| phase | code | actions |
|---|---|---|
| idle | mode, order cap, scan, active pairs (`app.py` 888-923) | `Begin` |
| stale, closing, settle | `_close_stale_futures_positions`, `flash_close_position`, `_mark_trade_case_closed_from_position` | `FindStale`, `NoneStale`, `FlashClose`, `FlashCloseUnheard`, `Settle` |
| positions | read the positions, `_reconcile_open_trade_cases_with_positions`, stop if any is open | `ReadPositions` |
| margin | choose a pair out of cooldown, `_create_futures_trade_case` | `CreateCase` |
| place, failed | `place_order`, `_mark_trade_case_order_rejected` | `OrderAccepted`, `OrderRefused`, `MarkRejected` |
| accepted | read the symbol's positions, mark the case open, count the order | `ConfirmOpen` |

`Abandon` is any exception (or nothing to do) between these: the loop catches it
and begins again. `Restart` is the end of the process at any point: the SQLite
cases survive, `orders_sent` and the cooldowns do not. An exception while a closed
position is settled leaves the close uncounted, as `Abandon` in phase `settle` shows.
`save_outcome` commits an INSERT and an UPDATE one after the other
(`tb/trade_journal/store.py:183-206`); the two are one step here, so a process that ends
exactly between them, leaving an open case with an outcome, is not modelled. `ExchangeCloses` is a take
profit, a stop, a liquidation or a close by hand, at any time; `OperatorOpens` is
`place-order` from another process. The exchange is external and modelled from
the calls: an accepted market order is a position, although the read right after it may
not list it yet; a reply may be lost after the exchange acted. `requests`
and `unheard` are history variables.

The cases of two positions on one symbol: the code builds a dictionary by symbol,
so the position listed last hides the other (`Views`).

### Sums

The components of `MCOperations` and `MCResearch` share no state at run time, so
their product would only multiply states. Each of the two modules is a sum: the
first state picks a `part`, and only that part's steps are taken. The
run explores the union of the parts' state spaces, every property is a
conjunction with one conjunct per part it concerns, and an action of a part
fires exactly as it would alone. In each of them the actions are the methods
of the class of the same name:

- *Journals.* `TradeFiles` splits each write of the paper journal in two, so
  `Crash` can leave a file cut; `Load` is the next start. In `TradeLedger` a
  statement is committed at once, and `Restart` loses the broker's memory and
  the set of identifiers, not the rows.
- *Orders.* In `SpotOrders` a call is in one of `Select`, `Accepted`, `Lost`
  and `Raised`: the connector posts the same client order id again while
  attempts are left, and the exchange may have booked it already. `blind` are
  the calls that raised although an order may exist: neither the counter nor
  the cooldown knows of them. `BitunixClients` has the single repetition after
  a refused time stamp, with the clock offset fetched anew.
- *Market data.* `Scanning` visits the pairs in order and reads through the
  cache of its iteration; each read may fail. In `CandleFeed` the clock
  advances between pulls, so a bar is stored while it forms and replaced later,
  unless that pull came corrupt.
- *Selector and gate.* `StrategySelector` offers `Register` every status, ACTIVE too, as
  `register_strategy` checks none; each method's write may fail and leave the older
  file; `EditFile` is an operator's edit, of any status. `vouched` records on whose word
  a strategy may trade.
- *Decisions.* `StrategyRouting` builds a context at one time and compares it
  with the one built from the later series; `signed` says that the caller gave a
  `data_fingerprint`, without which the registry refuses the context. `Gates` are the
  `RouterGates` the router may be configured with, `RegimesTold` the regimes a caller
  may pass to override the context's. `AlphaFamilies` asks all families
  and the adapter about one market.
- *Research.* `Backtest` carries `cash`, a second book written only by fills.
  `BacktestEvidence` keeps the auditor's own starting capital of 10000
  (`AssumedCapital`), whatever the run had; the adapter's gross profit factor, which parts
  the trades by the sign of their net result; and both branches of the cost gate, for
  fills and for records. `PortfolioBacktest` has structural stops on either side of
  the entry, as `risk_price` takes a magnitude.
  The inputs of the gates of `Qualification` are arguments of separate calls
  and independent of one another (`RunInputs`, `MarketInputs`): the flags of
  `gates.py` are True by default and nothing compares them with what the operational gate was told.
  `ResearchCampaigns` interleaves controllers between `CheckFreshData` and
  `RunPhase`. `KlineSnapshots` downloads by pages from an exchange with gaps
  and writes the files of a snapshot one by one.

## 3. Runs

| Run | Module | Bounds | Properties |
|---|---|---|---|
| broker | MCPaperBroker | 2 symbols, 3 fills, 2 prices, 2 sizes | TypeOK, EquityLedger, FillsAccountedFor, ExitReasonIsHonest, OneTradePerClose |
| risk | MCRiskManager | 2 symbols, 3 results, abs. weekly result <= 80, <= 5 trades a day | TypeOK, SizeWithinLimits, DayCountersAgree, PeakIsHighWater, LimitsLiftedOnlyByReset |
| session | MCPaperSession | 2 symbols, 2 families, 2 sessions, 1 bar, 1 run | TypeOK, IntentsOnce, RiskNeverUndercounts, StopsHonoured, BrokerBooks, KilledActsOnNothing |
| session_fair | MCPaperSession | 1 symbol, 2 families, 2 sessions, 2 bars, 2 runs | RunStops, ImplementsDesk |
| live | MCLiveFutures | 2 symbols, cap 2, 2 cases, 1 operator position, 1 restart | TypeOK, OneBotPosition, OneOpenCase, ResultsGoToTheirCase, CapBoundsRequests, JournalKnowsPositions, CasesEndOnce |
| live_fair | MCLiveFutures | 1 symbol, cap 2, 2 cases, 1 restart | ClosedOrCapped |
| operations | MCOperations | 16 parts, see below | TypeOK, SwitchesHold, TradesSurviveCrashes, LedgerAgrees, OrdersWithinLimits, NothingArmsItself, MarketDataIsHonest, DecisionsHold, ClosedForGood |
| research | MCResearch | 9 parts, see below | TypeOK, BacktestsBalance, BooksAndReviewsAgree, VerdictsHold, HistoryIsHonest |
| recount | MCPaperSession | 1 symbol, 3 sessions | violates RiskCountsTradesOnce |
| kill_gate | MCPaperSession | 1 symbol, 2 sessions | violates KillSwitchGatesSessions |
| exit_price | MCPaperSession | 1 symbol, 2 sessions | violates ExitsAtMarketPrice |
| live_cap | MCLiveFutures | 1 symbol, cap 1 | violates ClosesAreReconciled |

Why the bounds are enough for the interesting cases:

- *broker*: prices 80 and 120 with 10% levels mean that a position opened at
  either price is stopped or reaches its target at the other, and a candle from
  80 to 120 hits both. Three fills let one symbol be opened, closed and opened
  again while the other holds a position. Size 0 reaches the fallback of 1% of
  the equity. Symbols are interchangeable, so symmetry is sound.
- *risk*: the policy is so tight that every gate, the clamp to the minimum, the
  clamp to the maximum and the cut to the remaining exposure occur.
  `PnlBound`, `TradeBound` only bound counters.
- *session*: two sessions are needed for a repeated intent, for a position held
  across sessions and for trades of an earlier session; two symbols for
  candidates that compete inside one cycle. One bar makes the second session see
  the intents of the first, two families make two intents of one bar. `session_fair` has the second bar and a second
  call of `run()`.
- *live*: two cases are the least for an open case and an order on its way, for
  a second order after a restart, and for a result that could go to the wrong
  case; two symbols let a position be stale while another pair is active, one
  operator position lets two positions share a symbol. Cap 2 is reached by an
  order and a close. Symbols, and the two directions, are interchangeable, so
  symmetry is sound; `live_fair` checks liveness and uses none.
- *operations*: three trade files are the least for an index that forgets one
  and keeps others; two symbols and three rows for two orphans of one symbol;
  three portfolio symbols for a position limit of two; three calls, two
  attempts and a cooldown of two for an order repeated within a call, across
  calls and across symbols; universes with a disabled and an unsupported
  target; router gates at their defaults and away from them, with and without a
  regime from the caller; a volume that is missing, NaN and negative; six ticks of quota time
  for two windows of three; 1m and 5m bars over six and a half minutes from an
  exact boundary, in seconds and in milliseconds; a market below one
  cent and one of a dime, for the floor under a stop.
- *research*: one backtest with less capital than the auditor assumes and one with more;
  five bars hold two trades and an order on the last bar, two
  quantities make a sell that closes another amount than was bought, two tiers
  put entry and exit at different rates; three symbols for two positions; three
  overlapping periods; one passing input, each single flaw on the side of one gate alone and
  flaws both were told of; five bars with one fault for the dataset checks; two pages and two
  snapshots, the second over the first, for the downloads.
- `CHECK_DEADLOCK FALSE` in the broker, session, live, operations and research configurations: after
  `MaxFills` with no position, after the last run, once the order cap is
  reached and the restarts are used up, or when a part's bound is reached, nothing is left to do.

## 4. What the runs show

### The paper session

- **IntentsOnce**: no intent (family, symbol, direction, bar) is acted on twice while the
  process lives, over sessions, cancelled sessions and a second `run()`; and
  each one acted on is one opening fill or one close by signal. Another family may act on the
  same bar, also after the position of the first was stopped.
- **RiskNeverUndercounts**: whenever other code can look, the risk manager has
  counted at least the trades and at least the losing streak that the broker
  had. It counts *more* (finding `recount`), so these two limits may come early,
  never late. The same is not true of the daily loss: a win counted again can
  hide a later loss, and the equity and its peak are inflated until the next
  sync, the peak for good.
- **StopsHonoured**: when a session reports, no position remains that the prices
  of its own scan drove to its stop or target, also if it was opened or left over
  by that session's own cycle, and also when the kill switch is on.
- **BrokerBooks**: ledger and fills hold under the loop.
- **KilledActsOnNothing**: once the kill switch is on nothing is opened or
  reversed, even in the cycle that was already under way at an await; stops and
  targets still close.
- **RunStops** (liveness): a run with `max_sessions` set stops.
- **ImplementsDesk**: every step of the loop is a step of `TradingDesk` or a
  stutter, with `book` the sides of the held positions, `acted` the guard's ids
  and `halted` the kill switch.

Fairness: `FairSpec` is weak fairness of `Loop`, the steps of the task itself.
The event loop keeps scheduling it, each network call has a timeout, each
exception is caught or ends the run, and `asyncio.sleep` ends. Nothing is assumed
of the environment (`Run`, `ActivateKillSwitch`, `ChangeSettings`, `NewBar`,
`Cancel`). `max_sessions=None`, which never stops by itself, is not modelled.

### The live loop

- **OneBotPosition**: the bot never holds two positions of its own. No counter
  guards this: neither the cap nor the cases survive a lost reply or a restart
  intact. It rests on the read in the same iteration that must show no position.
- **OneOpenCase**: at most one case is open, none while an order is on its way.
- **ResultsGoToTheirCase**: results are written to the newest open case of the
  *symbol*, and positions are attached by symbol and side. Without an operator
  this always finds the right case, whatever was lost. With an operator's
  position on the same symbol it need not: the premise `ManualPositions = {}` is
  necessary, and a hazard records it.
- **CapBoundsRequests**: between iterations, what the exchange took from this
  process is what was counted plus what it did not hear of. Closes count too. A
  lost reply is not counted, so the cap is exceeded by exactly those.
- **JournalKnowsPositions**: only a lost reply, a restart or an operator leaves a
  held position whose case is not open. (All three do: the case then says
  `order_rejected` or `pending_order` for ever, as reconciliation reads open
  cases only.)
- **CasesEndOnce**: a case that has ended is never written again, an open one is
  only closed.
- **ClosedOrCapped** (liveness): an open case whose position is gone is closed in
  the end, unless the process reaches its order cap first.

Fairness of its `FairSpec`: weak fairness of `Iteration` (the loop goes on), and
strong fairness of `Begin` with an active pair, `NoneStale` and `ReadPositions`:
pairs become active again and again, and calls that can succeed do not fail for
ever. This is what the loop needs from the market and the network to do
anything at all; without it each iteration may be abandoned.

### Operations

- **SwitchesHold**: an equity a check let pass is within the drawdown limit of
  every equity an earlier check saw, whatever was deactivated, reset or won in
  between; a level's history is unbroken, alarms only take rights away, and a
  halted switch is left by `reset` or a targeted activation alone. That a
  target may also *lower* the level is what the code does; the docstring of
  `deactivate` names `reset` alone as the way out.
- **TradesSurviveCrashes**: a crash between the writes of a call loses no trade
  that was recorded before; a recorded exit never reopens, even over damaged
  files; and a file outlives an index that forgot it. A crash *inside* a write
  does lose trades for the next start: `torn` is the premise.
- **LedgerAgrees**, **ClosedForGood**: no reconciliation writes off a position
  the broker holds, identifiers never collide within a process, the recovery report names every
  open trade once, closed rows stay closed and every pass that finds orphans
  leaves fewer, so repeating it ends. The audit shows the newest decisions there
  are, and its counts, lists, totals and alarms agree.
- **OrdersWithinLimits**: a call becomes at most one order however often it is
  retried; every order beyond cap or cooldown stands beside a call that raised or
  is still under way (the spot path counts nothing when a reply is lost);
  the bot never spends more than it has; exposure and position limits hold though sizes
  are used later than computed. They bound from above: with the capital used up or
  negative the portfolio manager grants sizes that are zero or negative (a hazard).
- **NothingArmsItself**: a strategy trades only if its last registration, or the file it was
  last read from, gave it a status that may trade (READY, ACTIVE, SUSPENDED), or it was
  deactivated since, over failed writes, lost and edited files and restarts. Nothing
  is stronger in the code: `register_strategy` and the loader take any status,
  and `deactivate_strategy` makes any strategy one that may be activated. No
  combination of sources starts a live process that was not armed in every place.
- **MarketDataIsHonest**: pairs of a scan are accounted for (a pair whose second
  read fails is counted active *and* as an error, which the property states); no
  window grants more than the quota and the retry hint suffices; a bar handed
  out as complete holds its whole period, but for two named exceptions.
- **DecisionsHold**: a context rebuilt later is the one built then, unless a bar
  was forming; what an agent built is refused for a missing fingerprint or timestamp
  only; the router's choice is the first of the best its gates admit in the regime in force,
  and it stays out only for a reason that holds; each
  family's stop but the volatility family's is on the losing side; parity passes only between equal sets of signals.

### Research

- **BacktestsBalance**: equity is what the fills left plus the cost of the open
  position; the report's drawdown is the curve's; canonical accounting, cost gate
  and auditor accept the books of an honest run and refuse a forgotten or
  doubled fee. Two limits of the code are part of the statement: given records, the cost gate
  may refuse honest trades that went out dearer than they went in, and the auditor's
  drawdown is bounded by the curve's only when the run had at most the capital it assumes.
- **BooksAndReviewsAgree**: the admission controller mirrors the positions; the
  breakdowns of closed trades are partitions; the quarantine is exact.
- **VerdictsHold**: data handed out as fresh shares no bar with a period consumed
  before; a verdict has a consumed period and the metrics it follows from; only
  the frozen candidate on a disjoint window is confirmed; the gates agree where they were
  told the same evidence class, quality and reconciliation, and need not otherwise.
- **HistoryIsHonest**: the chain verifies exactly while nothing changed; queries
  agree with counts; the two dataset checkers differ only where they mean to; a
  download without an error has every candle there was, and a snapshot that loads is described by its metadata.

No fairness is assumed in these two runs; their properties are safety.

### Findings

1. `recount`: each session records all trades since the process started in the
   risk manager again (`tb/paper/harness.py:322`, `tb/paper/broker.py:395`).
2. `kill_gate`: sessions start although the kill switch is engaged, contrary to
   the docstring of `run()` (`tb/paper/paper_orchestrator.py:131`). No order
   is approved in them, as KilledActsOnNothing shows.
3. `exit_price`: a filtered pair's placeholder price 0 closes a held position
   (`tb/scanner/scanner.py:606`, `tb/paper/broker.py:385`).
4. `live_cap`: the order cap is checked before the stale closes and the
   reconciliation (`tb/app.py:897`), so with the default `--max-live-orders 1` a
   position that closes after the first order is never reconciled by that process.

Further disagreements between code and text that TLC shows on these models, not
kept as runs of their own:

- `tb/market_data/timeframe.py:3` says a 5m strategy must refuse 1m candles; with
  stamps in milliseconds a step of one minute is 60000, which the check takes for
  seconds, so it abstains and admits them (`CandleFeed!MinutesAreRefused` is violated).
- `tb/market_data/htf_pit.py:18` demands a state from a bar that was over; with
  stamps in milliseconds the period is added in seconds, so a bar that is still
  forming is picked (`CandleFeed!HtfPointInTime` is violated; `HtfStateIsCausal`
  is what holds).
- The spot client's `fetch_market_rules` documents that a missing symbol raises,
  while `get_symbol` answers with a fabricated fallback (`BitunixClients`).
- The stop of a LONG has a floor of 0.01, which is above the entry on a market
  below a cent; the property of `AlphaFamilies` names the exception. The adapter
  uses 1% for every SHORT although its docstring names the structural distance,
  and the volatility family's Keltner stop may lie on the winning side.
- `reset_daily` of the risk manager has no caller, and the paper loop registers
  no position with it: after the daily trade limit the loop never trades again,
  and the exposure limit sees an empty book. `weekly_pnl` is kept
  (`DayCountersAgree`), but no gate reads it, nor `max_asset_exposure_pct`
  (`docs/risk-policy.md:27`, `:32`).

## 5. What is proved

Every theorem is about the specification a run checks and holds for every value
of that module's constants under these assumptions, which TLC evaluates in the runs:

| Assumption | Says | Why the code justifies it |
|---|---|---|
| `BrokerAssumption` | prices exceed the slippage, amounts are integers | slippage is a few basis points of the price |
| `PolicyAssumption` | the bounds of `risk.yaml` | enforced by the pydantic model |
| `SessionAssumption` | the two above; the default stop and target and the number of candidates are positive, runs and sessions are counted | defaults in `tb/paper/`, settings of the loop |
| `LiveAssumption` | the cap is positive | required by the command line |
| `SwitchesAssumption` | limits are positive; the drawdown limit is at most 100 or no equity is negative | see *Switches* below |
| `OrdersAssumption` | amounts, attempts, cooldown are natural numbers, universes are sequences | types of the settings |
| `RequestsAssumption` | capacity, window and costs of the quota are positive | defaults of `quota.py`, a call costs at least one |
| `DecisionsAssumption` | there are prices, all positive, and ATRs, none negative; marks of indicators are integers | what indicators of prices are |
| `RowsAssumption` | limits are positive, results and thresholds integers, counts natural numbers, no recorded reason is empty | `journal.py` labels a row without a reason; the limit defaults to 500 and nothing in the repository passes another |
| `RoutesAssumption` | periods are positive and below the bars a context needs, prices are positive, a strategy map is a sequence of entries, gates are records of their four settings | `MIN_BARS` in `features.py`; types of `RouterGates` |
| `ReadingsAssumption` | readings, filters and volumes are integers or missing; timeframes pulled are known ones; `_MS_EPOCH_THRESHOLD` tells seconds from milliseconds as far back as bars are pulled | types of the settings; the comment on that constant says what it is for |
| `HistoryAssumption` | bounds and limits are natural numbers, a page holds a candle, shares are pairs of percentages; a candle lasts longer than one tick of the exchange's clock | types of the settings; a candle lasts a minute or more, a tick is a millisecond |
| `VerdictsAssumption` | windows begin and end at integers; inputs of the gates have the types of their arguments | time stamps in milliseconds; the signatures in `qualification.py` and `gates.py` |

| Theorem | Statement |
|---|---|
| PaperBrokerProofs!TypeCorrect | `Spec => []TypeOK` |
| PaperBrokerProofs!LedgerBalances | `Spec => []EquityLedger` |
| PaperBrokerProofs!FillsBalance | `Spec => []FillsAccountedFor` |
| PaperBrokerProofs!HistoryAppends | `Spec => OneTradePerClose` |
| PaperBrokerProofs!ReasonsHonest | `Spec => ExitReasonIsHonest` |
| RiskManagerProofs!TypeCorrect | `Spec => []TypeOK` |
| RiskManagerProofs!CountersAgree | `Spec => []DayCountersAgree` |
| RiskManagerProofs!PeakHolds | `Spec => PeakIsHighWater` |
| RiskManagerProofs!LimitsHold | `Spec => LimitsLiftedOnlyByReset` |
| RiskManagerProofs!SizesGranted | `Spec => []SizeWithinLimits` |
| PaperSessionProofs!TypeCorrect | `Spec => []TypeOK` |
| PaperSessionProofs!BooksBalance | `Spec => []BrokerBooks` |
| PaperSessionProofs!ActedOnce | `Spec => []IntentsOnce` |
| PaperSessionProofs!KilledStaysOut | `Spec => KilledActsOnNothing` |
| PaperSessionProofs!StopsKept | `Spec => []StopsHonoured` |
| PaperSessionProofs!RiskHears | `Spec => []RiskNeverUndercounts` |
| PaperSessionProofs!DeskImplemented | `Spec => ImplementsDesk` |
| LiveFuturesProofs!TypeCorrect | `Spec => []TypeOK` |
| LiveFuturesProofs!OneCaseOpen | `Spec => []OneOpenCase` |
| LiveFuturesProofs!OneOwnPosition | `Spec => []OneBotPosition` |
| LiveFuturesProofs!CapBounds | `Spec => []CapBoundsRequests` |
| LiveFuturesProofs!EndOnce | `Spec => CasesEndOnce` |
| LiveFuturesProofs!OwnResults | `Spec => []ResultsGoToTheirCase` |
| LiveFuturesProofs!JournalKnows | `Spec => []JournalKnowsPositions` |
| OperationsProofs!SwitchesSafe | `Spec => []SwitchesHold` |
| OperationsProofs!TradesKept | `Spec => []TradesSurviveCrashes` |
| OperationsProofs!LivePositionsKept | `Spec => []Ledger!Safe` |
| OperationsProofs!LedgerHolds | `Spec => []LedgerAgrees` |
| OperationsProofs!RowsStayClosed | `Spec => ClosedForGood` |
| OperationsProofs!NothingGoesLiveUnarmed | `Spec => []NothingArmsItself` |
| OperationsProofs!OrdersKeepLimits | `Spec => []OrdersWithinLimits` |
| OperationsProofs!ReadsKeepTheQuota | `Spec => []Quota!Safe` |
| OperationsProofs!MarketDataHolds | `Spec => []MarketDataIsHonest` |
| OperationsProofs!DecisionsAreSound | `Spec => []DecisionsHold` |
| ResearchProofs!VerdictsAreEarned | `Spec => []VerdictsHold` |
| ResearchProofs!HistoryHolds | `Spec => []HistoryIsHonest` |

*Steps.* `StepCases` of each of the loops' modules reduces `[Next]_vars` to the few ways a step
can touch the state (a position opened, one closed for one of three reasons,
nothing), each with typed arguments. Every preservation proof splits on it.

*Induction over data.* The induction theorems of the library take an operator and
cannot be instantiated by the provers. `Induction` derives from
well-foundedness, which is stated about sets, what the proofs need instead: a set of
numbers that holds 0 and with each number the next one (`NatInduct`), and a
family of subsets of a finite set (`SubsetInduct`). From these it shows what the fold
behind a sum over a finite set computes: it exists, its type, that any
element may be taken out, that sums over disjoint sets add up (`SumDisjoint`), and
that the sums of the groups of a partition add up to the whole (`SumParts`).

*Order without sorting.* What a recursive sort returns cannot be proved here, so the modules
the theorems are about order by *rank*: an element's place is the number of elements ahead of
it (`Ahead`), and the sorted sequence is the one that has each element at its place.
`Ranked` shows that different keys give every place to exactly one element, and
`TakenByRank` that the first places are the newest ones, which is what a query with a limit returns.

### Broker and risk manager

*Ledger.* `LedgerInv` says that a
function of partial sums over the closed trades exists and that every such
function ends in `equity - InitialEquity`. Both halves survive an append
(`SumsExtend`, `SumsRestrict`): extend a witness by one point, or restrict
a longer one. `RealizedIsASum` ties the definition of `RealizedPnl` to a witness.

*Fills.* `FillsAccountedFor` counts sets and is not inductive. `FillsInv` is:
fill numbers of positions and trades are pairwise different, lie in
`1 .. fillsOpened`, and cover it. `FillsCounted` derives the counted form
by the bijection between a set of numbered things and its numbers.

*Reasons.* `NetPnlMonotone`: the result of a position of non-negative quantity
is monotone in the closing price, so comparing prices compares results. The
broker's fallback size can give a negative quantity when the equity is
negative; the property excludes it and a hazard records it.

*Counters, limits, sizes.* `DayCountersAgree` is inductive with `TypeOK`. The peak
needs the invariant that it is at least the equity and at least zero. For
`SizesGranted` the registered exposure, a sum over the positions, has to be
an amount: `SumTyped`.

### The paper session

The session drives instances of the broker and of the risk manager, and every step of it
is a step of theirs or leaves them alone, so the
broker's invariants are those of `PaperBrokerProofs`, cited through the
instance. On top of them: `IntentsOnce` needs that the executions and the
guard's identifiers correspond one to one and that each execution has its fill or
its close; `StopsHonoured` that a position still to be reconciled is the
only one that may stand beyond its stop; `RiskNeverUndercounts` that between the
close of a trade and the walk over the closed trades the difference is what that
walk still has before it, which is a statement about the losing streak of a
sequence's tail. `DeskImplemented` maps initial states to initial states and
each action to a step of `TradingDesk` or a stutter, from the same invariants.

### The live loop

The lemmas up to `CreateTyped` say once how each update of `cases` and
`positions` changes them, `PositionsKept`, `DealsKept` and `PositionAttached` say it
of every step. The invariants build on one another: `BelowCap` (an iteration under
way is below the cap) for the types; `OneOpenCase` is inductive, because the read
in front of an order closes every case without a position; `Alone` (no
position of the bot from that read to the order) for `OneBotPosition`;
`Accounted` adds the request under way to the sum; `TargetPending` makes the
target of an order a case nobody decided yet. `Owners` (what is held belongs to
the only case that is open or under way) needs both one open case and one
position, and carries `ResultsGoToTheirCase`; with `Matching` (a position and its
case agree on symbol and side, so reconciliation keeps the case) it carries
`Known`, the strengthening of `JournalKnowsPositions`.

### The components around the loops

`OperationsProofs` and `DecisionsProofs` have for each component an invariant, that it
holds at the start, that every step of the component keeps it, and that it implies the
promise. `PartsStep`, at the end of `OperationsProofs`, shows that a step of the sum is a
step of each component or leaves it alone; the theorems follow. The inductive invariants:

- *Switches.* `SwitchInv`: the peak dominates every equity seen, and the last one let
  pass is within the limit of the *current* peak. It is inductive because the drawdown is
  monotone in the peak (`DrawdownGrows`), and that needs a limit of at most 100
  percent or equities that are not negative: with a limit of 150 and an equity
  of -60 a higher peak makes the drawdown in percent smaller. The
  proof found the condition; the constructor does not ask for it.
  `LevelsInv`: the history is the path of the level.
- *Files.* `FilesInv`: memory and file differ only for the trade being written, and
  unless a write was torn, only the file being cut is unreadable and every recorded
  trade is in the index.
- *Ledger.* `LedgerInv`: a held position is an open row of its symbol, and
  identifiers not yet used are new because sequence numbers of this process only grow.
  `RowsStayClosed` adds that a pass over orphans removes at least one from a finite set.
- *Selector, live gate.* `SelectorInv`: a strategy whose status may trade, in memory or in its
  file, is vouched for there. `ReadinessInv`: running settings are the accepted
  ones of the sources. `LoaderCoversTheGate` first failed to be proved: with no
  exchange configured at all the gate reports `EXCHANGE` though the loader accepts the settings.
  The property names that case now.
- *Portfolio.* `PortfolioInv`: no position, nor the size that waits for its opening, is
  larger than its share of the largest equity a size was computed from, and there is room for
  that size whatever closes; sizes may be negative. Exposure is the sum over the positions
  (`SumRemove`), at most as many shares as positions are allowed.
- *Spot.* `SpotInv`: client identifiers of the orders are those of calls already
  begun; every order beyond cap and cooldown is the one of a call in `blind` or still
  under way; the money spent is the sum over the orders.
- *Bitunix.* `BitunixInv`: a command under way has no order booked under its
  identifier yet, and the offset in use is the one its synchronisation found.
- *Quota.* `QueueInv`: the queue holds the end of what was granted, and nothing before
  it is younger than a window. With `Spaced` (grants a capacity apart are
  at least a window apart) every window is within the quota.
- *Scanner.* `ScanInv`: what is still to be visited is the end of the universe, snapshots
  are those of some of the pairs gone through, in their order; readings of the iteration's cache only
  grow, and an active snapshot is what they make it and passed every filter; the
  counters add up to the pairs gone through.
- *Feed.* `FeedInv`: each stored row opens at a multiple of its period, within what
  a pull reached; there is one row per time, and one that was closed when it was pulled is
  whole. The gap the feed infers from a series is the median of equal steps.
- *Families.* `AlphaInv`: the answer is what the family proposes about this market; the
  rest is a case per family, on the sides of its channel.
- *Parity.* `ParityInv`: the report compares the signals as they are now. Missing
  signals are counted by their positions; the keys of some signals are never more than
  the signals (`KeysCounted`), so none missing means every key is on the other side.
- *Audit.* `AuditInv`: every row has an instant of its own and the tables hold their
  kinds. Cutting each table to its newest rows and then both together keeps what one
  cut would keep (`NewestTwice`). The groups of a breakdown partition the closed
  rows, so their counts and results add up (`SumParts`, `SumCounts`), and a rate is
  below a threshold when a weighted sum of its rows is negative (`RateWeighs`): with
  every group at the threshold the whole is at it too.
- *Router.* `RoutingInv`: bars are in the order of time and begin at multiples of their
  length. `ReplayIsExact` is then inductive, since a trade touches no bar that was over
  when the context was built. `Best` is a recursive function over the map, and that
  it ends in the first of the best is an induction with `NatInduct`; contradictory
  labels are separated by the sign of one spread.

### Research

`CampaignInv` (in `ResearchProofs`): a grant is apart from everything consumed when it was
given *and* from every report of its own campaign, and the two reports of a campaign are apart
from one another. Freshness alone is not inductive: a controller may use a grant after
others consumed, and nothing stops it from asking for a grant after each phase; what
makes the confirmation disjoint is that the report of one phase is among the
consumed periods when the next grant is given (`CheckKeeps`), and that a phase uses its grant
up (`RunPhaseKeeps`). `QualifyInv`: there is at most one frozen
candidate, none without which a result exists, and a result says of it what was
compared; a verdict belongs to the result that still stands and was computed from its own
  inputs, so the gates agree on what both were told.

*History.* `StoresInv`: the digest of an event is what was appended up to it and it
names the one before, so a change anywhere shows; a query returns the newest by rank, and
the counts of the reasons add up by `SumParts`. `SeriesInv`: a
series is typed and starts at its origin. The four checks are lemmas about any
such series: equal steps by `NatInduct`, the checksum by counting positions from the end, the
extremes of a day by `Ranked`, the split by shares that are monotone. `SnapInv`: a
download is in range, in order, before its cursor, and has every candle below the cursor. That holds across a page
only because no candle opens one tick after another: the cursor is the last one plus one
tick. What is still to be written is the end of the three files of one
snapshot, and while the first one is written the checksum file is empty until its metadata is there.

### Only model-checked

- `RunStops` and `ClosedOrCapped`: liveness under fairness.
- `TypeOK` of `operations` and `research`. Those of the components above are
  parts of the invariants; the others follow with theirs.
- `BacktestsBalance`, `BooksAndReviewsAgree`: they say what folds over the bars and the trades of a
  backtest compute. That is an induction per operator, see the plan.

## 6. Plan

Done: paper trading (broker, risk, session, desk), the live loop (futures and
spot), the components around them and the research side; as theorems every safety
property of the four loops' modules, the refinement of the desk, and of the two sums
the switches, journals, orders, settings, market data, decisions, verdicts and history. Left are proofs, in this order:

1. `PortfolioBacktest!AdmissionMirrorsPositions`, `TradeReview`: sums over sets, within reach of `Induction`.
2. `TypeOK` of the two sums.
3. `BacktestsBalance`, with a lemma for each fold over the bars.

## 7. Not modelled, and why

- Indicators, cross-sectional and marginal statistics, Sharpe and Sortino ratios:
  numeric functions on floats without state; families and router take any value.
- `strategies/` and `market_structure/`: no loop calls them.
- `research/strategy_engineer.py`, the sandbox and the LLM guard: decisions about
  the text of generated code.
- Signing, HTTP, websockets, charts, dashboards, report layout, YAML parsing: I/O
  and formatting. A read that fails and a reply that is lost are modelled.
- The argument parser and printing of `app.py`, and the start script: wiring.
- Rounding of floats: integers stand for them, so no property depends on
  how a division rounds. Where rounding is the point (parity prices, metrics) inputs avoid the half.
- A restart of the paper loop: guard, broker and risk manager live in memory
  only, so a new process is `Init`. Journals, selector and live loop restart as actions.
- `LiveTradingGate` is not wired into `app.py`, `ValidationPipeline` does not ask
  whether a window was consumed, and the admission controller's daily reset has
  no caller: modelled as the code has it, no property claims more.
- `max_sessions=None`, a paper loop that never stops by itself.
