------------------------------ MODULE Backtest ------------------------------
(***************************************************************************)
(* The single-symbol backtest (trading_bot/backtesting/): the replay loop  *)
(* of BacktestEngine.run, its fills, and the reports made from a run: the  *)
(* canonical accounting and the equity reconstruction of research/, and    *)
(* the walk-forward aggregate.                                             *)
(*                                                                         *)
(* A strategy is any source of market orders: at every bar it buys, sells  *)
(* or does nothing, in any of the given quantities, as its protocol        *)
(* allows.  Money is a whole number of minor units.                        *)
(***************************************************************************)
EXTENDS Integers, Sequences, FiniteSets, Functions

CONSTANTS
  Capital,
  Closes, Quantities,    \* what a bar closes at, what an order asks for
  SlippageBps,
  Tiers,                 \* <<max notional, rate in bps>>, ascending
  MaxBars, MaxFolds      \* bounds: bars of a run, runs

VARIABLES
  bar, equity, peak,
  entry,                 \* pending_entry_fill, or None; its qty is the position
  trades, curve, worst,  \* equity_curve and the largest drawdown in it
  cash,                  \* history: what the fills paid and received
  folds                  \* FoldReports of the finished runs

backtestVars == <<bar, equity, peak, entry, trades, curve, worst, cash, folds>>

None == [qty |-> 0, price |-> 0, fee |-> 0]
Infinite == -1           \* profit_factor without a loss

Larger(a, b) == IF a >= b THEN a ELSE b
Magnitude(x) == IF x < 0 THEN -x ELSE x
SumOf(s) == FoldFunction(+, 0, s)
Over(Op(_), s) == [i \in DOMAIN s |-> Op(s[i])]

Init ==
  /\ bar = 0 /\ equity = Capital /\ peak = Capital /\ entry = None
  /\ trades = <<>> /\ curve = <<>> /\ worst = 0 /\ cash = Capital /\ folds = <<>>

---------------------------------------------------------------------------
(* Fills.                                                                  *)

Slippage(close) == (close * SlippageBps) \div 10000

\* The first tier that reaches the notional, or the last one.
Commission(notional) ==
  LET reaching == {i \in DOMAIN Tiers : notional <= Tiers[i][1]}
      tier == IF reaching = {} THEN Len(Tiers)
              ELSE CHOOSE i \in reaching : \A j \in reaching : i <= j
  IN  (notional * Tiers[tier][2]) \div 10000

BuyFill(qty, close) ==
  LET price == close + Slippage(close)
  IN  [qty |-> qty, price |-> price, fee |-> Commission(price * qty),
       slip |-> Slippage(close), at |-> bar]
SellFill(qty, close) ==
  LET price == close - Slippage(close)
  IN  [qty |-> qty, price |-> price, fee |-> Commission(price * qty),
       slip |-> Slippage(close), at |-> bar]

Floating(close) == IF entry.qty > 0 THEN (close - entry.price) * entry.qty ELSE 0

\* Every bar is marked to market before the strategy sees it, so what an order
\* of the last bar costs is in no point of the curve.
Mark(close) ==
  LET marked == equity + Floating(close)
  IN  /\ peak' = Larger(peak, marked)
      /\ curve' = Append(curve, marked)
      /\ worst' = Larger(worst, IF peak' > 0 THEN (1000 * (peak' - marked)) \div peak' ELSE 0)
      /\ bar' = bar + 1

Running == bar < MaxBars /\ Len(folds) < MaxFolds

\* No order, or one the position does not allow: ignored.
Hold(close) ==
  /\ Running /\ Mark(close)
  /\ UNCHANGED <<equity, entry, trades, cash, folds>>

Buy(qty, close) ==
  /\ Running /\ entry.qty = 0 /\ Mark(close)
  /\ LET fill == BuyFill(qty, close)
     IN  /\ entry' = fill
         /\ equity' = equity - fill.fee
         /\ cash' = cash - fill.price * qty - fill.fee
  /\ UNCHANGED <<trades, folds>>

EnginePnl(t) == t.exit.price * t.exit.qty - t.entry.price * t.entry.qty - t.exit.fee

\* Faulty variant of Sell: the fee of the entry is charged again with the trade.
SellFeeTwice(qty, close) ==
  /\ Running /\ entry.qty > 0 /\ Mark(close)
  /\ LET fill  == SellFill(qty, close)
         trade == [entry |-> entry, exit |-> fill]
     IN  /\ trades' = Append(trades, trade)
         /\ equity' = equity + EnginePnl(trade) - entry.fee
         /\ cash' = cash + fill.price * qty - fill.fee
         /\ entry' = None
  /\ UNCHANGED folds

\* A sell closes the position whatever quantity it asks for.
Sell(qty, close) ==
  /\ Running /\ entry.qty > 0 /\ Mark(close)
  /\ LET fill  == SellFill(qty, close)
         trade == [entry |-> entry, exit |-> fill]
     IN  /\ trades' = Append(trades, trade)
         /\ equity' = equity + EnginePnl(trade)
         /\ cash' = cash + fill.price * qty - fill.fee
         /\ entry' = None
  /\ UNCHANGED folds

---------------------------------------------------------------------------
(* Metrics of a run and the aggregate over runs.                           *)

Wins == SelectSeq(Over(EnginePnl, trades), LAMBDA p : p > 0)
Losses == SelectSeq(Over(EnginePnl, trades), LAMBDA p : p <= 0)
GrossLoss == Magnitude(SumOf(Losses))
ProfitFactor ==
  IF trades = <<>> THEN 0
  ELSE IF GrossLoss > 0 THEN (100 * SumOf(Wins)) \div GrossLoss ELSE Infinite

FoldReport == [final |-> equity, trades |-> Len(trades), profitFactor |-> ProfitFactor]

\* Faulty variant of EndRun: the next run goes on with the curve of the last.
EndRunKeepCurve ==
  /\ bar > 0 /\ Len(folds) < MaxFolds
  /\ folds' = Append(folds, FoldReport)
  /\ bar' = 0 /\ equity' = Capital /\ peak' = Capital /\ entry' = None
  /\ trades' = <<>> /\ worst' = 0 /\ cash' = Capital /\ UNCHANGED curve

\* The run is over; walk-forward starts the next one from the capital.
EndRun ==
  /\ bar > 0 /\ Len(folds) < MaxFolds
  /\ folds' = Append(folds, FoldReport)
  /\ bar' = 0 /\ equity' = Capital /\ peak' = Capital /\ entry' = None
  /\ trades' = <<>> /\ curve' = <<>> /\ worst' = 0 /\ cash' = Capital

Finite(values) == SelectSeq(values, LAMBDA v : v # Infinite)
Bound(S, Best(_, _)) == CHOOSE x \in S : \A y \in S : Best(x, y)

\* Sums stand for the means: a mean is the sum over the count.
MetricAggregate(values) ==
  LET f == Finite(values)
  IN  IF f = <<>> THEN [n |-> 0, sum |-> 0, min |-> 0, max |-> 0]
      ELSE [n |-> Len(f), sum |-> SumOf(f),
            min |-> Bound(Range(f), LAMBDA x, y : x <= y),
            max |-> Bound(Range(f), LAMBDA x, y : x >= y)]

Aggregate ==
  [folds |-> Len(folds),
   pnl |-> SumOf([i \in DOMAIN folds |-> folds[i].final - Capital]),
   profitable |-> Cardinality({i \in DOMAIN folds : folds[i].final > Capital}),
   profitFactor |-> MetricAggregate([i \in DOMAIN folds |-> folds[i].profitFactor])]

---------------------------------------------------------------------------
(* The canonical accounting and the equity reconstruction of a run.        *)

GrossMove(t) == (t.exit.price - t.entry.price) * t.entry.qty
CanonicalNet(t) == GrossMove(t) - t.entry.fee - t.exit.fee
Reconciled(t) ==
  1000 * Magnitude(CanonicalNet(t) - (EnginePnl(t) - t.entry.fee))
    < Larger(10, Magnitude(CanonicalNet(t)) + 1)

TotalNet == SumOf(Over(CanonicalNet, trades))
EquityReconciled ==
  100 * Magnitude(TotalNet - (equity - Capital)) < Larger(1, 2 * Magnitude(TotalNet) + 1)

Costs(t) == t.entry.fee + t.exit.fee + t.entry.slip + t.exit.slip
Reconstructed == Capital + SumOf(Over(EnginePnl, trades)) - SumOf(Over(Costs, trades))

Next ==
  \/ \E c \in Closes : Hold(c) \/ \E q \in Quantities : Buy(q, c) \/ Sell(q, c)
  \/ EndRun

Spec == Init /\ [][Next]_backtestVars

TypeOK ==
  /\ bar \in 0..MaxBars /\ equity \in Int /\ peak \in Nat /\ entry.qty \in Nat
  /\ Len(trades) <= bar /\ Len(curve) = bar /\ worst \in Nat /\ Len(folds) <= MaxFolds

---------------------------------------------------------------------------
(* Properties.                                                             *)

\* Equity is the money the fills left plus what the open position cost, and
\* the trades and entry fees explain it to the last unit.
BooksBalance ==
  /\ equity = cash + entry.price * entry.qty
  /\ equity = Capital + SumOf(Over(EnginePnl, trades))
                - SumOf(Over(LAMBDA t : t.entry.fee, trades)) - entry.fee

\* Canonical accounting flags exactly the trades that closed another quantity
\* than they opened, and a flat run without such a trade reconciles.
ReconciliationCatchesMismatches ==
  /\ \A i \in DOMAIN trades : Reconciled(trades[i]) <=> trades[i].entry.qty = trades[i].exit.qty
  /\ entry.qty = 0 /\ (\A i \in DOMAIN trades : Reconciled(trades[i])) => EquityReconciled

\* The drawdown of the report is the deepest fall of the curve below an earlier
\* point of it, or below the capital.
DrawdownIsTheCurves ==
  LET points == <<Capital>> \o curve
  IN  \A i, j \in DOMAIN points :
        i <= j /\ points[i] > 0 => worst >= (1000 * (points[i] - points[j])) \div points[i]

\* The reconstruction never promises more than a flat run ended with.
ReconstructionIsConservative == entry.qty = 0 => Reconstructed <= equity

\* The mean of a metric lies between its extremes, no run is profitable on a
\* loss overall, and only runs without a losing trade drop out.
AggregateIsBracketed ==
  LET a == Aggregate  m == a.profitFactor
  IN  /\ m.n * m.min <= m.sum /\ m.sum <= m.n * m.max
      /\ m.n = a.folds - Cardinality({i \in DOMAIN folds : folds[i].profitFactor = Infinite})
      /\ a.pnl > 0 => a.profitable > 0

Safe ==
  /\ BooksBalance /\ ReconciliationCatchesMismatches /\ DrawdownIsTheCurves
  /\ ReconstructionIsConservative /\ AggregateIsBracketed
=============================================================================
