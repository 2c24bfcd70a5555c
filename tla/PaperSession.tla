---------------------------- MODULE PaperSession ---------------------------
(***************************************************************************)
(* The paper-trading loop: PaperOrchestrator.run drives sessions of        *)
(* PaperSessionRunner, each of which scans, decides through                *)
(* PaperCycleEngine (idempotency -> RiskManager -> PaperBroker), reconciles*)
(* the broker against the scan and feeds the results back into the risk    *)
(* manager.                                                                *)
(*                                                                         *)
(* One asyncio task runs all of it.  phase says where it is; other code    *)
(* (an operator, a settings change, a cancellation) runs only where the    *)
(* task awaits, so the loops over candidates, positions and trades are     *)
(* steps that nothing interleaves with.  Nothing is persisted: a new       *)
(* process starts in Init.                                                 *)
(***************************************************************************)
EXTENDS Integers, Sequences, FiniteSets

CONSTANTS
  Symbols,
  Families,              \* alpha families, the strategy_id of an intent
  InitialEquity, Slippage, CommissionPct, Prices,
  KillSwitchEnabled, MaxTradesPerDay, MaxOpenPositions, MaxConsecutiveLosses,
  MaxDailyLossPct, MaxTotalDrawdownPct, MaxRiskPerTradePct,
  MaxTotalExposurePct, MinOrderNotional, MaxOrderNotional,
  StopPcts,              \* structural stop distances of LONG alphas
  DefaultStopPct,        \* the adapter's stop when it cannot use the alpha's
  DefaultTakeProfitPct,
  MaxCandidates,         \* build_portfolio(max_candidates)
  MaxSessions,           \* PaperOrchestrator(max_sessions)
  MaxBar,                \* bound: bars the market produces
  MaxRuns                \* bound: calls of PaperOrchestrator.run

VARIABLES
  positions, closedTrades, brokerEquity, fillsOpened, fillsClosed,
  riskEquity, peakEquity, dailyPnl, weeklyPnl, tradesToday,
  consecutiveLosses, openPositions, killSwitchActive,
  phase,                 \* where the task is
  gateOpen,              \* runtime.mode = paper and enable_paper_trading
  runs,                  \* calls of run() so far
  sessions,              \* status.sessions_completed
  bar,                   \* timestamp of the market's latest bar
  sessionBar,            \* the latest bar when the session started
  snap,                  \* scanner result: symbol |-> last_price
  alphas,                \* symbol |-> the alpha its family generated
  candidates,            \* symbols the decision loop has still to visit
  toCheck,               \* positions reconcile has still to visit
  nextRecord,            \* closed trade to record next in the risk manager
  sentCloids,            \* IdempotencyGuard._sent_cloids
  executions             \* history: the intents the broker acted on, in order

brokerVars == <<positions, closedTrades, brokerEquity, fillsOpened, fillsClosed>>
riskVars == <<riskEquity, peakEquity, dailyPnl, weeklyPnl, tradesToday,
              consecutiveLosses, openPositions, killSwitchActive>>
sessionVars == <<sessionBar, snap, alphas, candidates, toCheck, nextRecord>>
intentVars == <<sentCloids, executions>>
vars == <<brokerVars, riskVars, sessionVars, intentVars, phase, gateOpen, runs, sessions, bar>>

B == INSTANCE PaperBroker WITH
       equity <- brokerEquity, Sizes <- {}, Pcts <- {}, MaxFills <- 0
R == INSTANCE RiskManager WITH
       equity <- riskEquity, Pnls <- {}, Sizes <- {}, PnlBound <- 0, TradeBound <- 0

ASSUME SessionAssumption ==
  /\ B!BrokerAssumption
  /\ R!PolicyAssumption
  /\ {DefaultStopPct, DefaultTakeProfitPct, MaxCandidates} \subseteq Nat \ {0}
  /\ {MaxSessions, MaxRuns} \subseteq Nat
  /\ MaxBar \in Nat \ {0}

Inactive == 0          \* last_price of a snapshot the filters rejected
Absent == -1           \* the pair raised: no snapshot at all
Directions == {"LONG", "SHORT"}
NoSnapshots == [s \in Symbols |-> Absent]
NoAlpha ==
  [family |-> "none", direction |-> "NONE", price |-> 0, stopPct |-> 0, ts |-> 0]
AlphasOn(bars) ==
  [family : Families, direction : Directions, price : Prices \cup {0}, stopPct : StopPcts, ts : bars]
Intent == [symbol : Symbols, family : Families, direction : Directions, ts : Nat]

NoAlphas == [s \in Symbols |-> NoAlpha]

Awaits == {"scan", "history", "sleep"}
Phases == Awaits \cup {"stopped", "gate", "decide", "reconcile", "record"}

TypeOK ==
  /\ B!TypeOK /\ R!TypeOK
  /\ phase \in Phases
  /\ gateOpen \in BOOLEAN
  /\ runs \in Nat /\ sessions \in Nat /\ bar \in Nat /\ sessionBar \in Nat
  /\ nextRecord \in Nat \ {0}
  /\ snap \in [Symbols -> Prices \cup {Inactive, Absent}]
  /\ alphas \in [Symbols -> AlphasOn(Nat) \cup {NoAlpha}]
  /\ candidates \subseteq Symbols
  /\ toCheck \subseteq Symbols
  /\ sentCloids \subseteq Intent
  /\ executions \in Seq(Intent)

Init ==
  /\ B!Init /\ R!Init
  /\ phase = "stopped"
  /\ gateOpen \in BOOLEAN
  /\ runs = 0 /\ sessions = 0 /\ bar = 1 /\ sessionBar = 0 /\ nextRecord = 1
  /\ snap = NoSnapshots /\ alphas = NoAlphas
  /\ candidates = {} /\ toCheck = {}
  /\ sentCloids = {} /\ executions = <<>>

---------------------------------------------------------------------------
(* PaperOrchestrator.run                                                   *)

Run ==
  /\ phase = "stopped" /\ gateOpen /\ runs < MaxRuns
  /\ phase' = "gate"
  /\ runs' = runs + 1
  /\ UNCHANGED <<brokerVars, riskVars, sessionVars, intentVars, gateOpen, sessions, bar>>

StopAtGate ==
  /\ phase = "gate"
  /\ ~gateOpen \/ sessions >= MaxSessions
  /\ phase' = "stopped"
  /\ UNCHANGED <<brokerVars, riskVars, sessionVars, intentVars, gateOpen, runs, sessions, bar>>

BeginSession ==
  /\ phase = "gate" /\ gateOpen /\ sessions < MaxSessions
  /\ phase' = "scan"
  /\ sessionBar' = bar
  /\ UNCHANGED <<brokerVars, riskVars, intentVars, gateOpen, runs, sessions, bar,
                 snap, alphas, candidates, toCheck, nextRecord>>

Wake ==
  /\ phase = "sleep"
  /\ phase' = "gate"
  /\ UNCHANGED <<brokerVars, riskVars, sessionVars, intentVars, gateOpen, runs, sessions, bar>>

---------------------------------------------------------------------------
(* PaperSessionRunner.run_session                                          *)

\* The session's results are local variables: they end with it.
ForgetLocals ==
  /\ snap' = NoSnapshots /\ alphas' = NoAlphas
  /\ candidates' = {} /\ toCheck' = {}
  /\ nextRecord' = 1 /\ sessionBar' = 0

\* _sync_risk_equity: the risk manager takes over the broker's equity.
SyncRiskEquity ==
  /\ riskEquity' = brokerEquity
  /\ peakEquity' = R!Larger(peakEquity, brokerEquity)

\* The scan ends and the decision cycle begins, up to its first await.
ScanCompletes ==
  /\ phase = "scan"
  /\ snap' \in [Symbols -> Prices \cup {Inactive, Absent}]
  /\ SyncRiskEquity
  /\ phase' = "history"
  /\ UNCHANGED <<brokerVars, intentVars, gateOpen, runs, sessions, bar,
                 dailyPnl, weeklyPnl, tradesToday, consecutiveLosses, openPositions,
                 killSwitchActive, sessionBar, alphas, candidates, toCheck, nextRecord>>

\* build_portfolio keeps one candidate per asset and the MaxCandidates best
\* scores; scores are data, so any such choice.
Portfolios(A) ==
  {C \in SUBSET A : Cardinality(C) = R!Smaller(Cardinality(A), MaxCandidates)}

\* What context, router and family may make of the history: at most one alpha
\* reaches the portfolio per active symbol, on a bar not newer than the session.
Generations ==
  {g \in [Symbols -> AlphasOn(1 .. sessionBar) \cup {NoAlpha}] :
     \A s \in Symbols : g[s] # NoAlpha => snap[s] \in Prices}

\* Every history read has returned or failed.
HistoryRead ==
  /\ phase = "history"
  /\ \E generated \in Generations :
       /\ alphas' = generated
       /\ candidates' \in Portfolios({s \in Symbols : generated[s] # NoAlpha})
  /\ phase' = "decide"
  /\ UNCHANGED <<brokerVars, riskVars, intentVars, gateOpen, runs, sessions, bar,
                 sessionBar, snap, toCheck, nextRecord>>

---------------------------------------------------------------------------
(* PaperCycleEngine.run_cycle_sync, one candidate per step, by score:      *)
(* in any order.                                                           *)

NextCandidate(s) == phase = "decide" /\ s \in candidates

IntentOf(s) == [symbol |-> s, family |-> alphas[s].family,
                direction |-> alphas[s].direction, ts |-> alphas[s].ts]
\* Faulty variant of SideOf: the alpha's direction is not adapted.
SideOfRaw(s) == alphas[s].direction
SideOf(s) == IF alphas[s].direction = "LONG" THEN "buy" ELSE "sell"

\* alpha_signal_to_signal uses the structural stop only below the price, so
\* never for a SHORT.
StopOf(s) == IF alphas[s].direction = "LONG" THEN alphas[s].stopPct ELSE DefaultStopPct

IsDuplicate(s) == IntentOf(s) \in sentCloids
Adaptable(s) == alphas[s].price > 0
\* Faulty variant of RiskApproves: what closes a position needs no approval.
RiskApprovesOpens(s) ==
  s \in DOMAIN positions \/ R!Approves(alphas[s].price, StopOf(s))
RiskApproves(s) == R!Approves(alphas[s].price, StopOf(s))

DropCandidate(s) ==
  /\ NextCandidate(s)
  /\ \/ IsDuplicate(s)
     \/ ~Adaptable(s)
     \/ ~RiskApproves(s)
     \/ s \in DOMAIN positions /\ B!SkipDuplicate(s, SideOf(s))
  /\ candidates' = candidates \ {s}
  /\ UNCHANGED <<brokerVars, riskVars, intentVars, phase, gateOpen, runs, sessions, bar,
                 sessionBar, snap, alphas, toCheck, nextRecord>>

Executable(s) ==
  /\ NextCandidate(s)
  /\ ~IsDuplicate(s) /\ Adaptable(s) /\ RiskApproves(s)

\* Faulty variant of Register: the intent is not registered.
RegisterNothing(s) ==
  /\ UNCHANGED sentCloids
  /\ executions' = Append(executions, IntentOf(s))
Register(s) ==
  /\ sentCloids' = sentCloids \cup {IntentOf(s)}
  /\ executions' = Append(executions, IntentOf(s))

FlipCloses(s) ==
  /\ Executable(s)
  /\ B!CloseOpposite(s, SideOf(s), alphas[s].price)
  /\ Register(s)
  /\ candidates' = candidates \ {s}
  /\ UNCHANGED <<riskVars, phase, gateOpen, runs, sessions, bar,
                 sessionBar, snap, alphas, toCheck, nextRecord>>

OrderOpens(s) ==
  /\ Executable(s)
  /\ B!OpenPosition(s, SideOf(s), alphas[s].price, R!Notional(StopOf(s)),
                    StopOf(s), DefaultTakeProfitPct)
  /\ Register(s)
  /\ candidates' = candidates \ {s}
  /\ UNCHANGED <<riskVars, phase, gateOpen, runs, sessions, bar,
                 sessionBar, snap, alphas, toCheck, nextRecord>>

---------------------------------------------------------------------------
(* PaperBroker.reconcile_session, one position per step                    *)

\* Faulty variant of BeginReconcile: a halted session checks no position.
BeginReconcileUnlessKilled ==
  /\ phase = "decide" /\ candidates = {}
  /\ phase' = "reconcile"
  /\ toCheck' = {s \in DOMAIN positions : ~killSwitchActive}
  /\ alphas' = NoAlphas
  /\ UNCHANGED <<brokerVars, riskVars, intentVars, gateOpen, runs, sessions, bar,
                 sessionBar, snap, candidates, nextRecord>>

BeginReconcile ==
  /\ phase = "decide" /\ candidates = {}
  /\ phase' = "reconcile"
  /\ toCheck' = DOMAIN positions
  /\ alphas' = NoAlphas
  /\ UNCHANGED <<brokerVars, riskVars, intentVars, gateOpen, runs, sessions, bar,
                 sessionBar, snap, candidates, nextRecord>>

ReconcilePosition(s) ==
  /\ phase = "reconcile"
  /\ s \in toCheck
  /\ \A t \in toCheck : positions[s].openedAt <= positions[t].openedAt
  /\ \/ snap[s] = Absent /\ UNCHANGED brokerVars
     \/ snap[s] # Absent /\ B!CheckPosition(s, snap[s])
  /\ toCheck' = toCheck \ {s}
  /\ UNCHANGED <<riskVars, intentVars, phase, gateOpen, runs, sessions, bar,
                 sessionBar, snap, alphas, candidates, nextRecord>>

\* Faulty variant of BeginRecord: only the latest trade is recorded.
BeginRecordAtLast ==
  /\ phase = "reconcile" /\ toCheck = {}
  /\ phase' = "record"
  /\ nextRecord' = R!Larger(1, Len(closedTrades))
  /\ UNCHANGED <<brokerVars, riskVars, intentVars, gateOpen, runs, sessions, bar,
                 sessionBar, snap, alphas, candidates, toCheck>>

\* _record_closed_trades_in_risk walks execution_summary.closed_trades, which
\* is the broker's whole list and not the trades of this session.
BeginRecord ==
  /\ phase = "reconcile" /\ toCheck = {}
  /\ phase' = "record"
  /\ nextRecord' = 1
  /\ UNCHANGED <<brokerVars, riskVars, intentVars, gateOpen, runs, sessions, bar,
                 sessionBar, snap, alphas, candidates, toCheck>>

RecordTrade ==
  /\ phase = "record" /\ nextRecord <= Len(closedTrades)
  /\ R!RecordTradeResult(closedTrades[nextRecord].pnl)
  /\ nextRecord' = nextRecord + 1
  /\ UNCHANGED <<brokerVars, intentVars, phase, gateOpen, runs, sessions, bar,
                 sessionBar, snap, alphas, candidates, toCheck>>

\* Faulty variant of EndSession: the session is not counted.
EndSessionUncounted ==
  /\ phase = "record" /\ nextRecord > Len(closedTrades)
  /\ phase' = "sleep"
  /\ ForgetLocals
  /\ UNCHANGED <<brokerVars, riskVars, intentVars, gateOpen, runs, sessions, bar>>

EndSession ==
  /\ phase = "record" /\ nextRecord > Len(closedTrades)
  /\ sessions' = sessions + 1
  /\ phase' = IF sessions + 1 >= MaxSessions THEN "stopped" ELSE "sleep"
  /\ ForgetLocals
  /\ UNCHANGED <<brokerVars, riskVars, intentVars, gateOpen, runs, bar>>

\* The archive or the report cannot be written: the exception leaves run().
SessionRaises ==
  /\ phase = "record" /\ nextRecord > Len(closedTrades)
  /\ phase' = "stopped"
  /\ ForgetLocals
  /\ UNCHANGED <<brokerVars, riskVars, intentVars, gateOpen, runs, sessions, bar>>

---------------------------------------------------------------------------
(* Code that runs while the task awaits, or while it is stopped            *)

ActivateKillSwitch ==
  /\ phase \in Awaits \cup {"stopped"} /\ ~killSwitchActive
  /\ R!ActivateKillSwitch
  /\ UNCHANGED <<brokerVars, sessionVars, intentVars, phase, gateOpen, runs, sessions, bar>>

ChangeSettings ==
  /\ phase \in Awaits \cup {"stopped"}
  /\ gateOpen' = ~gateOpen
  /\ UNCHANGED <<brokerVars, riskVars, sessionVars, intentVars, phase, runs, sessions, bar>>

NewBar ==
  /\ phase \in Awaits \cup {"stopped"} /\ bar < MaxBar
  /\ bar' = bar + 1
  /\ UNCHANGED <<brokerVars, riskVars, sessionVars, intentVars, phase, gateOpen, runs, sessions>>

\* asyncio.CancelledError at an await: the finally clause only clears running.
Cancel ==
  /\ phase \in Awaits
  /\ phase' = "stopped"
  /\ ForgetLocals
  /\ UNCHANGED <<brokerVars, riskVars, intentVars, gateOpen, runs, sessions, bar>>

Loop ==
  \/ StopAtGate \/ BeginSession \/ Wake
  \/ ScanCompletes \/ HistoryRead
  \/ \E s \in Symbols : DropCandidate(s) \/ FlipCloses(s) \/ OrderOpens(s)
  \/ BeginReconcile \/ (\E s \in Symbols : ReconcilePosition(s))
  \/ BeginRecord \/ RecordTrade
  \/ EndSession \/ SessionRaises

Environment == Run \/ ActivateKillSwitch \/ ChangeSettings \/ NewBar \/ Cancel

Next == Loop \/ Environment

Spec == Init /\ [][Next]_vars

\* The event loop keeps scheduling the task, and the awaits return: every
\* fetch has a timeout and asyncio.sleep ends.
FairSpec == Spec /\ WF_vars(Loop)

---------------------------------------------------------------------------

\* An intent (symbol, family, direction, bar) is acted on at most once while
\* the process lives, over any number of sessions, cancelled ones included;
\* another family may act on the same bar of the same symbol.  Each intent acted
\* on is one opening fill or one close by the opposite signal
\* (idempotency.py:12 "ensure exactly-once execution"; paper_cycle.py:295-346).
IntentsOnce ==
  /\ \A i, j \in DOMAIN executions : executions[i] = executions[j] => i = j
  /\ Len(executions) = fillsOpened +
       Cardinality({i \in DOMAIN closedTrades : closedTrades[i].reason = "signal"})

\* Whenever the task awaits or has stopped, the risk manager has heard of every
\* closed trade: its trade count and its losing streak are at least the true
\* ones, so those two limits are never reached late (harness.py:311-326).
LossesReach(k) ==
  \A i \in Len(closedTrades) - k + 1 .. Len(closedTrades) : closedTrades[i].pnl < 0
RiskNeverUndercounts ==
  phase \in Awaits \cup {"stopped", "gate"} =>
    /\ tradesToday >= Len(closedTrades)
    /\ \A k \in 1 .. Len(closedTrades) : LossesReach(k) => consecutiveLosses >= k

\* When the session reports, no position is left that the prices of its own
\* scan had driven to its stop or its target, whatever the decision cycle did
\* in between and whether or not the kill switch is on (broker.py:381-390).
StopsHonoured ==
  phase = "record" =>
    \A s \in DOMAIN positions : snap[s] \in Prices =>
      /\ ~B!StopHit(positions[s], snap[s], snap[s])
      /\ ~B!TargetHit(positions[s], snap[s], snap[s])

\* The broker's books still balance, and each fill is one position or one
\* trade, when its methods are called by the loop (broker.py:185, harness.py:173).
BrokerBooks == B!EquityLedger /\ B!FillsAccountedFor

\* Once the kill switch is on nothing is opened or reversed, even in the cycle
\* that was already under way; only stops and targets still close positions
\* (risk-policy.md:59-62, manager.py:89).
KilledActsOnNothing ==
  [][ killSwitchActive =>
        /\ UNCHANGED <<executions, fillsOpened>>
        /\ \A s \in DOMAIN positions : s \in DOMAIN positions' \/ snap[s] # Absent
    ]_vars

\* A run with max_sessions set stops, whatever is scanned, cancelled or
\* switched on the way (paper_orchestrator.py:142-163).
RunStops == []<>(phase = "stopped")

\* The loop implements the desk: every step of it is a step of TradingDesk or
\* leaves book, intents and halt alone (paper_cycle.py:275-348, broker.py:125-275).
Desk == INSTANCE TradingDesk WITH
          Timestamps <- 0 .. MaxBar,
          book <- [s \in DOMAIN positions |->
                     IF positions[s].side = "buy" THEN "LONG" ELSE "SHORT"],
          acted <- sentCloids,
          halted <- killSwitchActive
ImplementsDesk == Desk!Spec

============================================================================
