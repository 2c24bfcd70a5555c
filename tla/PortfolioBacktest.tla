-------------------------- MODULE PortfolioBacktest --------------------------
(***************************************************************************)
(* The multi-symbol backtest of research (research/portfolio_backtest.py)  *)
(* with its admission controller (research/admission.py).  Time advances   *)
(* over the union of the symbols' timestamps: open positions are checked   *)
(* against their stops, the book is marked, and then every symbol that has *)
(* a candle may open a position, in the order of the symbols.              *)
(*                                                                         *)
(* A symbol may have no candle at a timestamp; time starts once each has   *)
(* the two candles before its first signal.  The alpha families are any    *)
(* source of signals; of the signals of one symbol at one timestamp only   *)
(* the first admitted one changes anything, so one is considered.          *)
(***************************************************************************)
EXTENDS Integers, Sequences, FiniteSets, Functions

CONSTANTS
  Symbols,               \* a sequence
  Candles,               \* [low, high, close]
  Risks,                 \* how far the structural stop is on the losing side, or below 0
                         \* on the winning one: a signal may have it on either
  Capital, RiskBps, MaxPositions, MaxDailyLossPct, MaxConsecutiveLosses,
  Slip,                  \* slippage per unit
  CommissionBps,
  MaxTs                  \* bound: timestamps

VARIABLES
  ts, candles,           \* timestamp, and the candles there are at it
  todo,                  \* symbols whose signals are still to be generated
  equity, mtm, peak, worst,
  positions,             \* by symbol
  admission,             \* open_positions, daily_pnl and consecutive_losses
  finished,
  cash                   \* history: what fills paid and received

portfolioVars == <<ts, candles, todo, equity, mtm, peak, worst, positions, admission, finished,
                   cash>>

Total(amounts) == FoldFunction(+, 0, amounts)
Larger(a, b) == IF a >= b THEN a ELSE b
Smaller(a, b) == IF a <= b THEN a ELSE b
Magnitude(x) == IF x < 0 THEN -x ELSE x
Commission(notional) == (notional * CommissionBps) \div 10000
Sign(dir) == IF dir = "LONG" THEN 1 ELSE -1
Empty == [s \in {} |-> 0]
Without(f, S) == [s \in DOMAIN f \ S |-> f[s]]
With(f, k, v) == [s \in DOMAIN f \cup {k} |-> IF s = k THEN v ELSE f[s]]

Init ==
  /\ ts = 0 /\ candles = Empty /\ todo = <<>>
  /\ equity = Capital /\ mtm = Capital /\ peak = Capital /\ worst = 0
  /\ positions = Empty /\ finished = FALSE /\ cash = Capital
  /\ admission = [open |-> Empty, dailyPnl |-> 0, losses |-> 0]

---------------------------------------------------------------------------
(* Stops, closing and marking to market.                                   *)

Hit(p, c) ==
  IF p.dir = "LONG" THEN c.low <= p.stop \/ c.high >= p.target
  ELSE c.high >= p.stop \/ c.low <= p.target

\* A stop closes at the close of the bar; slippage moves the exit and is
\* charged again as a cost, and the commission is on the notional of the entry.
ExitPrice(p, close) == close - Sign(p.dir) * Slip
NetPnl(p, close) ==
  Sign(p.dir) * (ExitPrice(p, close) - p.entry) * p.qty - Commission(p.notional) - Slip * p.qty

\* Faulty variant of RecordCloses: the controller is not told of a loss.
RecordWinsOnly(S, now) ==
  LET won == {s \in S : NetPnl(positions[s], now[s].close) >= 0}
  IN  [admission EXCEPT !.open = Without(@, won),
                        !.dailyPnl = @ + Total([s \in won |-> NetPnl(positions[s], now[s].close)]),
                        !.losses = IF won = {} THEN @ ELSE 0]

\* The closes are recorded in the order the positions were opened: with one of
\* each outcome the count of losses depends on it.
Rank(s) == CHOOSE i \in DOMAIN Symbols : Symbols[i] = s
OpenedBefore(a, b) ==
  \/ positions[a].ts < positions[b].ts
  \/ positions[a].ts = positions[b].ts /\ Rank(a) < Rank(b)
RecordCloses(S, now) ==
  LET lost == {s \in S : NetPnl(positions[s], now[s].close) < 0}
      run == IF lost = S THEN admission.losses + Cardinality(S)
             ELSE Cardinality({s \in lost : \A w \in S \ lost : OpenedBefore(w, s)})
  IN  [admission EXCEPT !.open = Without(@, S),
                        !.dailyPnl = @ + Total([s \in S |-> NetPnl(positions[s], now[s].close)]),
                        !.losses = run]

Proceeds(S, now) ==
  Total([s \in S |-> NetPnl(positions[s], now[s].close) + positions[s].entry * positions[s].qty])

\* A position without a candle at this timestamp is left out of the mark.
Step(now) ==
  /\ todo = <<>> /\ ts < MaxTs /\ ~finished /\ DOMAIN now # {}
  /\ LET closing == {s \in DOMAIN positions \cap DOMAIN now : Hit(positions[s], now[s])}
         gain == Total([s \in closing |-> NetPnl(positions[s], now[s].close)])
         kept == Without(positions, closing)
         floating == Total([s \in DOMAIN kept \cap DOMAIN now |->
                            Sign(kept[s].dir) * (now[s].close - kept[s].entry) * kept[s].qty])
     IN  /\ positions' = kept /\ equity' = equity + gain
         /\ admission' = RecordCloses(closing, now)
         /\ cash' = cash + Proceeds(closing, now)
         /\ mtm' = equity + gain + floating
  /\ peak' = Larger(peak, mtm')
  /\ worst' = Larger(worst, IF peak' > 0 THEN (1000 * (peak' - mtm')) \div peak' ELSE 0)
  /\ ts' = ts + 1 /\ candles' = now
  /\ todo' = SelectSeq(Symbols, LAMBDA s : s \in DOMAIN now)
  /\ UNCHANGED finished

---------------------------------------------------------------------------
(* Admission and sizing.                                                   *)

MaxPerDirection == Larger(1, MaxPositions \div 2)

Admitted(s, dir) ==
  /\ Cardinality(DOMAIN admission.open) < MaxPositions
  /\ s \notin DOMAIN admission.open
  /\ Cardinality({o \in DOMAIN admission.open : admission.open[o] = dir}) < MaxPerDirection
  /\ admission.dailyPnl < 0 => -100 * admission.dailyPnl < MaxDailyLossPct * Capital
  /\ admission.losses < MaxConsecutiveLosses

\* The risk budget over the risk of a unit, at most 95% of the marked equity.
Notional(entry, risk) ==
  Smaller(((mtm * RiskBps) \div (10000 * Magnitude(risk))) * entry, (mtm * 95) \div 100)

Open(dir, risk) ==
  /\ todo # <<>> /\ risk # 0
  /\ LET s == Head(todo)
         entry == candles[s].close + Sign(dir) * Slip
         notional == Notional(candles[s].close, risk)
         qty == notional \div entry
     IN  /\ s \notin DOMAIN positions /\ Admitted(s, dir) /\ notional > 0
         /\ positions' = With(positions, s,
              [dir |-> dir, ts |-> ts, entry |-> entry, qty |-> qty, notional |-> notional,
               stop |-> candles[s].close - Sign(dir) * risk,
               target |-> candles[s].close + Sign(dir) * ((candles[s].close * 2) \div 100)])
         /\ equity' = equity - Commission(notional)
         /\ cash' = cash - Commission(notional) - entry * qty
         /\ admission' = [admission EXCEPT !.open = With(@, s, dir)]
  /\ todo' = Tail(todo)
  /\ UNCHANGED <<ts, candles, mtm, peak, worst, finished>>

\* No signal, or none admitted.
Pass ==
  /\ todo # <<>> /\ todo' = Tail(todo)
  /\ UNCHANGED <<ts, candles, equity, mtm, peak, worst, positions, admission, finished, cash>>

\* What is still open closes at the last timestamp, if it has a candle there;
\* the controller is not told any more.
Finish ==
  /\ ts > 0 /\ todo = <<>> /\ ~finished
  /\ LET closing == DOMAIN positions \cap DOMAIN candles
     IN  /\ positions' = Without(positions, closing)
         /\ equity' = equity + Total([s \in closing |-> NetPnl(positions[s], candles[s].close)])
         /\ cash' = cash + Proceeds(closing, candles)
  /\ finished' = TRUE
  /\ UNCHANGED <<ts, candles, todo, mtm, peak, worst, admission>>

Next ==
  \/ \E S \in SUBSET Range(Symbols) : \E now \in [S -> Candles] : Step(now)
  \/ \E dir \in {"LONG", "SHORT"}, risk \in Risks : Open(dir, risk)
  \/ Pass \/ Finish

Spec == Init /\ [][Next]_portfolioVars

TypeOK ==
  /\ ts \in 0..MaxTs /\ equity \in Int /\ mtm \in Int /\ worst \in Nat
  /\ DOMAIN positions \subseteq Range(Symbols) /\ finished \in BOOLEAN

---------------------------------------------------------------------------
(* Properties.                                                             *)

\* The controller knows the positions there are, each with its direction.
AdmissionMirrorsPositions ==
  ~finished => /\ DOMAIN admission.open = DOMAIN positions
               /\ \A s \in DOMAIN positions : admission.open[s] = positions[s].dir

\* Never more positions than allowed, nor more of one direction.
PositionsLimited ==
  /\ Cardinality(DOMAIN positions) <= MaxPositions
  /\ \A d \in {"LONG", "SHORT"} :
       Cardinality({s \in DOMAIN positions : positions[s].dir = d}) <= MaxPerDirection

\* Equity is the money the fills left plus what the open positions cost; the
\* realised part of it is what the controller counts, less the entry fees.
EquityIsAccounted ==
  /\ equity = cash + Total([s \in DOMAIN positions |-> positions[s].entry * positions[s].qty])
  /\ ~finished => equity <= Capital + admission.dailyPnl

\* A position was sized within the risk budget, and the share, of an equity the
\* book has been marked at, whichever side of the entry its stop is on.
PositionsWithinBudget ==
  \A s \in DOMAIN positions :
    LET p == positions[s]
        reference == p.entry - Sign(p.dir) * Slip
    IN  /\ p.entry * p.qty <= p.notional /\ 100 * p.notional <= 95 * peak
        /\ 10000 * p.notional * Magnitude(reference - p.stop) <= RiskBps * peak * reference

Safe ==
  /\ AdmissionMirrorsPositions /\ PositionsLimited /\ EquityIsAccounted /\ PositionsWithinBudget
=============================================================================
