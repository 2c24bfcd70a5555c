-------------------------- MODULE BacktestEvidence --------------------------
(***************************************************************************)
(* What the research side makes of a finished backtest: the metrics of the *)
(* canonical calculator and of the evidence adapter, the metrics per day,  *)
(* the cost sanity gate and the accounting integrity gate.  All of them    *)
(* are computed from the trades of the engine, in module Backtest.         *)
(***************************************************************************)
EXTENDS Backtest

CONSTANTS
  BarsPerDay,
  FeeBps,                \* the commission rate the gates are told
  MaxFeeBps, MaxSlippageBps

---------------------------------------------------------------------------
(* Metrics.  A ratio is a pair <<numerator, denominator>>.                 *)

Where(Test(_), s) == SelectSeq(s, Test)
Nets == Over(CanonicalNet, trades)
Moves == Over(GrossMove, trades)
Won(x) == x > 0
Lost(x) == x <= 0

\* Faulty variant of NetProfitFactor: the fees are added instead of taken off.
NetProfitFactorFeesAdded ==
  LET fees == Over(LAMBDA t : GrossMove(t) + t.entry.fee + t.exit.fee, trades)
  IN  <<SumOf(Where(Won, fees)), Magnitude(SumOf(Where(Lost, fees)))>>

NetProfitFactor == <<SumOf(Where(Won, Nets)), Magnitude(SumOf(Where(Lost, Nets)))>>
GrossProfitFactor == <<SumOf(Where(Won, Moves)), Magnitude(SumOf(Where(Lost, Moves)))>>
WinRate == <<Len(Where(Won, Nets)), Len(trades)>>

\* The adapter and the auditor part the trades by the sign of the net result
\* for the gross factor too: a gross gain that fees ate up counts as a loss.
FactorOf(amounts) ==
  LET wins == {i \in DOMAIN trades : Won(Nets[i])}
  IN  <<SumOf([i \in wins |-> amounts[i]]),
        SumOf([i \in DOMAIN trades \ wins |-> Magnitude(amounts[i])])>>
AdapterGrossFactor == FactorOf(Moves)
AdapterNetFactor == FactorOf(Nets)

\* The adapter calls this gross, but it is made of the net result: the win
\* rate times the mean win, less the loss rate times the mean loss.
GrossExpectancy ==
  <<SumOf(Where(Won, Nets)) - SumOf(Over(Magnitude, Where(Lost, Nets))), Len(trades)>>
NetExpectancy == <<SumOf(Nets), Len(trades)>>

Day(t) == t.exit.at \div BarsPerDay
DayTrades(d) == Where(LAMBDA t : Day(t) = d, trades)

\* One entry per day with a trade, so a day without one is in no count.
DailyMetrics ==
  [d \in {Day(trades[i]) : i \in DOMAIN trades} |->
     LET nets == Over(CanonicalNet, DayTrades(d))
     IN  [trades |-> Len(nets), net |-> SumOf(nets),
          wins |-> Len(Where(Won, nets)), losses |-> Len(Where(Lost, nets))]]
ZeroTradeDays == Cardinality({d \in DOMAIN DailyMetrics : DailyMetrics[d].trades = 0})

---------------------------------------------------------------------------
(* The gates.                                                              *)

Notional(fill, qty) == fill.price * qty
TotalFees == SumOf(Over(LAMBDA t : t.entry.fee + t.exit.fee, trades))
Turnover ==
  SumOf(Over(LAMBDA t : Notional(t.entry, t.entry.qty) + Notional(t.exit, t.entry.qty), trades))

\* Within a tenth of the rate, or one basis point if that is more.
FeesReconcile(fees) ==
  Turnover > 0 =>
    10 * Magnitude(10000 * fees - FeeBps * Turnover) < Larger(10, FeeBps) * Turnover

AccountingIntegrity(fees) ==
  /\ \A i \in DOMAIN trades : Reconciled(trades[i])
  /\ EquityReconciled
  /\ 1000 * Magnitude(equity - (Capital + TotalNet))
       < Larger(10, Magnitude(Capital + TotalNet))
  /\ FeesReconcile(fees)
  /\ Turnover > 0 \/ trades = <<>>

\* The sanity gate takes the engine's fills or the adapter's records of them.
\* A record has the fees of both legs, split evenly here, and the slippage of
\* the whole quantity where a fill has that of a unit.  Fees are in halves.
FillCosts(t) ==
  [entry |-> 2 * t.entry.fee, exit |-> 2 * t.exit.fee, slip |-> t.entry.slip + t.exit.slip]
RecordCosts(t) ==
  LET fees == t.entry.fee + t.exit.fee
  IN  [entry |-> fees, exit |-> fees, slip |-> (t.entry.slip + t.exit.slip) * t.entry.qty]

\* It doubles the entry notional where the other gate adds the exit's, and
\* allows as much again as the rate.
EntryTurnover == SumOf(Over(LAMBDA t : 2 * Notional(t.entry, t.entry.qty), trades))
CostSanity(costs) ==
  LET fees  == SumOf(Over(LAMBDA k : k.entry + k.exit, costs))
      slips == SumOf(Over(LAMBDA k : k.slip, costs))
  IN  trades # <<>> =>
        /\ \A i \in DOMAIN trades :
             /\ costs[i].entry >= 0 /\ costs[i].exit >= 0
             /\ 10000 * costs[i].entry
                  <= 2 * MaxFeeBps * Notional(trades[i].entry, trades[i].entry.qty)
        /\ slips >= 0
        /\ EntryTurnover > 0 =>
             /\ Magnitude(10000 * fees - 2 * FeeBps * EntryTurnover) < 2 * FeeBps * EntryTurnover
             /\ 10000 * slips <= MaxSlippageBps * EntryTurnover

---------------------------------------------------------------------------
(* The auditor: its own metrics of the records, and what it compares.      *)

\* It assumes this capital, whatever the engine was given.
AssumedCapital == 10000
AuditedEquity(n) == AssumedCapital + SumOf(SubSeq(Nets, 1, n))
AuditedDrawdown(n) ==
  Bound({IF AuditedEquity(i) <= 0 \/ j < i THEN 0
         ELSE (1000 * (AuditedEquity(i) - AuditedEquity(j))) \div AuditedEquity(i) :
           i, j \in 0..n}, LAMBDA x, y : x >= y)

\* A profit factor of 0 beside a winning trade fails, but blocks nothing.
Reconstruction == [n |-> Len(trades), wins |-> WinRate[1], net |-> TotalNet]
AuditPasses(claim, operational) == claim = Reconstruction /\ operational

---------------------------------------------------------------------------
(* Properties.                                                             *)

\* Every sell closed the quantity that was bought.
Even == \A i \in DOMAIN trades : trades[i].entry.qty = trades[i].exit.qty

AtMost(p, q) ==          \* p <= q, where more than 0 over 0 is infinite, and 0 over 0 is 0
  IF p[1] = 0 \/ q[2] = 0 THEN p[1] = 0 \/ q[1] > 0 ELSE p[2] # 0 /\ p[1] * q[2] <= q[1] * p[2]

\* Fees only hurt: net figures never look better than gross ones, the engine
\* never counts fewer wins of even trades than the canonical result, and both
\* names of the expectancy stand for the net one.  The adapter's gross factor
\* never flatters: it is the canonical one, or a lower one as soon as fees made
\* a loss of a gross gain, and only then can it be below the net factor.
FeesOnlyHurt ==
  /\ AtMost(NetProfitFactor, GrossProfitFactor)
  /\ AdapterNetFactor = NetProfitFactor
  /\ IF \E i \in DOMAIN trades : GrossMove(trades[i]) > 0 /\ CanonicalNet(trades[i]) <= 0
     THEN AtMost(AdapterGrossFactor, GrossProfitFactor)
     ELSE AdapterGrossFactor = GrossProfitFactor
  /\ Even => Len(Wins) >= WinRate[1]
  /\ GrossExpectancy = NetExpectancy

\* The days tell the whole run: no trade is lost or counted twice.
DaysTellTheRun ==
  LET days == DailyMetrics
      Total(Field(_)) == SumOf([d \in DOMAIN days |-> Field(days[d])])
  IN  /\ Total(LAMBDA m : m.trades) = Len(trades) /\ Total(LAMBDA m : m.net) = TotalNet
      /\ Total(LAMBDA m : m.wins) = WinRate[1]
      /\ \A d \in DOMAIN days : days[d].wins + days[d].losses = days[d].trades
      /\ ZeroTradeDays = 0

\* Both gates accept the books of a flat run whose sells closed what was bought
\* at one rate; the accounting gate refuses them with a leg's fees forgotten
\* or with every fee charged twice.  The sanity gate, given the records of the
\* same fills, refuses them only when a trade went out dearer than it went in.
GatesKnowTheBooks ==
  LET OneRate(t) == /\ Notional(t.entry, t.entry.qty) <= Tiers[1][1]
                    /\ Notional(t.exit, t.exit.qty) <= Tiers[1][1]
  IN  entry.qty = 0 /\ Even /\ (\A i \in DOMAIN trades : OneRate(trades[i])) =>
        /\ AccountingIntegrity(TotalFees) /\ CostSanity(Over(FillCosts, trades))
        /\ CostSanity(Over(RecordCosts, trades)) \/ \E i \in DOMAIN trades : GrossMove(trades[i]) > 0
        /\ trades # <<>> =>
             /\ ~AccountingIntegrity(2 * TotalFees)
             /\ ~AccountingIntegrity(SumOf(Over(LAMBDA t : t.exit.fee, trades)))

\* The auditor, who sees only closed trades, finds no deeper fall in money than
\* the engine's curve, up to an order of the last bar, which the curve has not;
\* and no deeper drawdown in parts of the peak unless it assumes less capital
\* than the run had.  It refuses the engine's own result for the net one as
\* soon as a fee was paid.
AuditWithinTheCurve ==
  LET settled == Cardinality({i \in DOMAIN trades : trades[i].exit.at < bar - 1})
      points  == <<Capital>> \o curve
  IN  /\ Even =>
           /\ \A j \in 0..settled : \A i \in 0..j : \E n \in DOMAIN points : \E m \in 1..n :
                AuditedEquity(i) - AuditedEquity(j) <= points[m] - points[n]
           /\ Capital <= AssumedCapital => AuditedDrawdown(settled) <= worst
      /\ AuditPasses(Reconstruction, TRUE)
      /\ (\E i \in DOMAIN trades : trades[i].entry.fee > 0) /\ Even =>
           ~AuditPasses([Reconstruction EXCEPT !.net = SumOf(Over(EnginePnl, trades))], TRUE)

EvidenceSafe == FeesOnlyHurt /\ DaysTellTheRun /\ GatesKnowTheBooks /\ AuditWithinTheCurve
=============================================================================
