---------------------------- MODULE RiskManager ----------------------------
(***************************************************************************)
(* trading_bot/risk/manager.py: the authority every order must pass.       *)
(*                                                                         *)
(* check_signal changes nothing: it is the operator Approves together with *)
(* Notional, the size it grants.  The mutating methods are the actions.    *)
(* Money is a whole number of cents-like units, a percentage a whole       *)
(* number; the code's floats differ from this by rounding only.            *)
(***************************************************************************)
EXTENDS Integers, FiniteSetsExt, Functions

CONSTANTS
  Symbols,               \* the tradable symbols
  InitialEquity,
  KillSwitchEnabled,     \* risk.kill_switch_enabled: is the switch armed?
  MaxTradesPerDay,
  MaxOpenPositions,
  MaxConsecutiveLosses,
  MaxDailyLossPct,
  MaxTotalDrawdownPct,
  MaxRiskPerTradePct,
  MaxTotalExposurePct,
  MinOrderNotional,
  MaxOrderNotional,
  Pnls, Sizes, StopPcts, \* what callers pass to the methods
  PnlBound, TradeBound   \* bounds: |weeklyPnl| and tradesToday in this Spec

\* Bounds the pydantic model puts on risk.yaml (config/risk.py:26-40).
ASSUME PolicyAssumption ==
  /\ InitialEquity \in Int
  /\ KillSwitchEnabled \in BOOLEAN
  /\ {MaxTradesPerDay, MaxOpenPositions, MaxConsecutiveLosses} \subseteq Nat \ {0}
  /\ {MaxDailyLossPct, MaxTotalDrawdownPct, MaxRiskPerTradePct, MaxTotalExposurePct}
       \subseteq Nat \ {0}
  /\ MinOrderNotional \in Nat \ {0}
  /\ MaxOrderNotional \in Nat
  /\ MinOrderNotional <= MaxOrderNotional
  /\ Pnls \subseteq Int /\ Sizes \subseteq Nat /\ {PnlBound, TradeBound} \subseteq Nat
  /\ StopPcts \subseteq Nat \ {0}

VARIABLES
  equity,
  peakEquity,
  dailyPnl,
  weeklyPnl,
  tradesToday,
  consecutiveLosses,
  openPositions,         \* symbol |-> notional, as add_position registered it
  killSwitchActive

riskVars == <<equity, peakEquity, dailyPnl, weeklyPnl, tradesToday,
              consecutiveLosses, openPositions, killSwitchActive>>

Larger(a, b) == IF a >= b THEN a ELSE b
Smaller(a, b) == IF a <= b THEN a ELSE b

TypeOK ==
  /\ equity \in Int /\ peakEquity \in Int
  /\ dailyPnl \in Int /\ weeklyPnl \in Int
  /\ tradesToday \in Nat /\ consecutiveLosses \in Nat
  /\ DOMAIN openPositions \subseteq Symbols
  /\ openPositions \in [DOMAIN openPositions -> Nat]
  /\ killSwitchActive \in BOOLEAN

Init ==
  /\ equity = InitialEquity
  /\ peakEquity = Larger(0, InitialEquity)
  /\ dailyPnl = 0 /\ weeklyPnl = 0
  /\ tradesToday = 0 /\ consecutiveLosses = 0
  /\ openPositions = [s \in {} |-> 0]
  /\ killSwitchActive = FALSE

---------------------------------------------------------------------------
(* check_signal: the gates, then the size.                                 *)

KillSwitchGate == killSwitchActive \/ ~KillSwitchEnabled
TradeCountGate == tradesToday >= MaxTradesPerDay
OpenPositionsGate == Cardinality(DOMAIN openPositions) >= MaxOpenPositions
LossStreakGate == consecutiveLosses >= MaxConsecutiveLosses
DailyLossGate == dailyPnl < 0 /\ -dailyPnl * 100 >= equity * MaxDailyLossPct
DrawdownGate ==
  peakEquity > 0 /\ (peakEquity - equity) * 100 >= MaxTotalDrawdownPct * peakEquity

Blocked ==
  \/ KillSwitchGate \/ TradeCountGate \/ OpenPositionsGate
  \/ LossStreakGate \/ DailyLossGate \/ DrawdownGate

Exposure == FoldFunction(+, 0, openPositions)

\* Faulty variant of Notional: the exposure already taken is not looked at.
NotionalUncut(stopPct) ==
  Larger(MinOrderNotional,
         Smaller((equity * MaxRiskPerTradePct) \div stopPct, MaxOrderNotional))

\* risk_amount / stop distance, clamped to the order limits, then cut to
\* what the total exposure leaves.
Notional(stopPct) ==
  LET riskBased == (equity * MaxRiskPerTradePct) \div stopPct
      clamped   == Larger(MinOrderNotional, Smaller(riskBased, MaxOrderNotional))
      remaining == (equity * MaxTotalExposurePct) \div 100 - Exposure
  IN  Smaller(clamped, remaining)

Approves(price, stopPct) ==
  /\ ~Blocked
  /\ price > 0
  /\ Notional(stopPct) >= MinOrderNotional

---------------------------------------------------------------------------

ActivateKillSwitch ==
  /\ killSwitchActive' = TRUE
  /\ UNCHANGED <<equity, peakEquity, dailyPnl, weeklyPnl, tradesToday,
                 consecutiveLosses, openPositions>>

\* Faulty variant of LossStreak: a win takes one loss off the streak.
LossStreakDecaying(pnl) ==
  IF pnl < 0 THEN consecutiveLosses + 1 ELSE consecutiveLosses - 1

LossStreak(pnl) == IF pnl < 0 THEN consecutiveLosses + 1 ELSE 0

RecordTradeResult(pnl) ==
  /\ tradesToday' = tradesToday + 1
  /\ dailyPnl' = dailyPnl + pnl
  /\ weeklyPnl' = weeklyPnl + pnl
  /\ equity' = equity + pnl
  /\ peakEquity' = Larger(peakEquity, equity + pnl)
  /\ consecutiveLosses' = LossStreak(pnl)
  /\ UNCHANGED <<openPositions, killSwitchActive>>

AddPosition(s, notional) ==
  /\ openPositions' = [x \in DOMAIN openPositions \cup {s} |->
                         IF x = s THEN notional ELSE openPositions[x]]
  /\ UNCHANGED <<equity, peakEquity, dailyPnl, weeklyPnl, tradesToday,
                 consecutiveLosses, killSwitchActive>>

RemovePosition(s) ==
  /\ openPositions' = [x \in DOMAIN openPositions \ {s} |-> openPositions[x]]
  /\ UNCHANGED <<equity, peakEquity, dailyPnl, weeklyPnl, tradesToday,
                 consecutiveLosses, killSwitchActive>>

\* Faulty variants of ResetDaily: the streak survives the day; the drawdown is
\* measured anew each day; the new day releases the kill switch.
ResetDailyKeepingStreak ==
  /\ dailyPnl' = 0 /\ tradesToday' = 0
  /\ UNCHANGED <<equity, peakEquity, weeklyPnl, consecutiveLosses, openPositions,
                 killSwitchActive>>
ResetDailyRebasing ==
  /\ dailyPnl' = 0 /\ tradesToday' = 0 /\ consecutiveLosses' = 0
  /\ peakEquity' = equity
  /\ UNCHANGED <<equity, weeklyPnl, openPositions, killSwitchActive>>
ResetDailyReleasing ==
  /\ dailyPnl' = 0 /\ tradesToday' = 0 /\ consecutiveLosses' = 0
  /\ killSwitchActive' = FALSE
  /\ UNCHANGED <<equity, peakEquity, weeklyPnl, openPositions>>

ResetDaily ==
  /\ dailyPnl' = 0
  /\ tradesToday' = 0
  /\ consecutiveLosses' = 0
  /\ UNCHANGED <<equity, peakEquity, weeklyPnl, openPositions, killSwitchActive>>

---------------------------------------------------------------------------
(* The class on its own: any caller, any order of calls.                   *)

Next ==
  \/ ActivateKillSwitch
  \/ \E pnl \in Pnls :
       /\ weeklyPnl + pnl \in -PnlBound .. PnlBound
       /\ tradesToday < TradeBound
       /\ RecordTradeResult(pnl)
  \/ \E s \in Symbols, n \in Sizes : AddPosition(s, n)
  \/ \E s \in Symbols : RemovePosition(s)
  \/ ResetDaily

Spec == Init /\ [][Next]_riskVars

---------------------------------------------------------------------------

\* Whatever the history of results, positions and resets, a size check_signal
\* grants lies between the order limits, and together with the registered
\* exposure stays inside the total exposure limit; so a manager whose equity
\* is not positive grants nothing (risk/manager.py:167-192).
SizeWithinLimits ==
  \A stop \in StopPcts : Approves(1, stop) =>
    /\ Notional(stop) \in MinOrderNotional .. MaxOrderNotional
    /\ (Exposure + Notional(stop)) * 100 <= equity * MaxTotalExposurePct
    /\ equity > 0

\* The counters describe one and the same account: the streak of losses is no
\* longer than the day's trades, a day without trades has no result, and the
\* week's result is what the equity moved by, over any number of daily resets
\* (risk/manager.py:206-239).
DayCountersAgree ==
  /\ consecutiveLosses <= tradesToday
  /\ tradesToday = 0 => dailyPnl = 0
  /\ weeklyPnl = equity - InitialEquity

\* Drawdown is measured from a peak that no equity has exceeded, and the peak
\* never comes down, not even on the daily reset (risk/manager.py:212).
PeakIsHighWater ==
  [][peakEquity' >= peakEquity /\ peakEquity' >= equity']_riskVars

\* The trade-count limit, once reached, is lifted only by the reset of the
\* whole day, and the kill switch by nothing at all ("Cannot be undone
\* programmatically", risk/manager.py:78).
LimitsLiftedOnlyByReset ==
  [][ /\ TradeCountGate /\ ~TradeCountGate' =>
           tradesToday' = 0 /\ dailyPnl' = 0 /\ consecutiveLosses' = 0
      /\ killSwitchActive => Blocked' ]_riskVars

============================================================================
