-------------------------- MODULE PortfolioManager --------------------------
(***************************************************************************)
(* trading_bot/paper/portfolio_manager.py: sizes, exposure and loss limits *)
(* of the paper portfolio.  compute_position_size only reads; its caller   *)
(* holds the answer (granted) until open_position, and positions close in  *)
(* between.  Percentages and money are whole numbers.  Nothing looks at    *)
(* the sign of the capital: losses may leave none, or less, and a size     *)
(* computed from less than none is negative and may be granted.            *)
(* topEquity and dayStart are history variables: the largest equity a size *)
(* was computed from, and the capital at the last reset_daily.             *)
(***************************************************************************)
EXTENDS Integers, FiniteSets, Functions

CONSTANTS
  Symbols, InitialCapital,
  RiskPct, MaxExposurePct, MaxPositions, MaxDailyLossPct, MaxDrawdownPct,
  Equities,              \* what callers pass as current_equity; 0 stands for none
  Stops, Pnls,
  CapitalBound           \* bound: capital above, and its loss below the initial one

PortfolioAssumption ==
  /\ {InitialCapital, RiskPct, MaxExposurePct, MaxPositions, MaxDailyLossPct,
      MaxDrawdownPct, CapitalBound} \subseteq Nat \ {0}
  /\ Equities \subseteq Nat /\ Stops \subseteq Int /\ Pnls \subseteq Int

VARIABLES capital, positions, dailyPnl, peakEquity, granted, topEquity, dayStart

portfolioVars == <<capital, positions, dailyPnl, peakEquity, granted, topEquity, dayStart>>

TypeOK ==
  /\ {capital, dailyPnl, peakEquity, topEquity, dayStart} \subseteq Int
  /\ DOMAIN positions \subseteq Symbols
  /\ \A s \in DOMAIN positions : positions[s] \in Int
  /\ granted \subseteq [symbol : Symbols, notional : Int] /\ Cardinality(granted) <= 1

Init ==
  /\ capital = InitialCapital /\ peakEquity = InitialCapital
  /\ positions = [s \in {} |-> 0]
  /\ dailyPnl = 0 /\ dayStart = InitialCapital
  /\ granted = {} /\ topEquity = 0

Total == FoldFunction(+, 0, positions)

\* An equity of 0 is taken for an absent one: the stored capital is used.
EquityUsed(e) == IF e = 0 THEN capital ELSE e

Notional(equity, stop) ==
  LET byRisk == (equity * RiskPct) \div stop
      cap    == (equity * MaxExposurePct) \div 100
  IN  IF byRisk > cap THEN cap ELSE byRisk

\* Faulty variant of Fits: a full portfolio is noticed one position late.
FitsLate(equity, notional) ==
  /\ Cardinality(DOMAIN positions) <= MaxPositions
  /\ (Total + notional) * 100 <= equity * MaxExposurePct * MaxPositions

Fits(equity, notional) ==
  /\ Cardinality(DOMAIN positions) < MaxPositions
  /\ (Total + notional) * 100 <= equity * MaxExposurePct * MaxPositions

ComputePositionSize(s, e, stop) ==
  LET equity == EquityUsed(e) IN
  /\ stop > 0
  /\ Fits(equity, Notional(equity, stop))
  /\ granted' = {[symbol |-> s, notional |-> Notional(equity, stop)]}
  /\ topEquity' = IF equity > topEquity THEN equity ELSE topEquity
  /\ UNCHANGED <<capital, positions, dailyPnl, peakEquity, dayStart>>

\* A symbol already open is refused.
OpenPosition ==
  \E g \in granted :
    /\ positions' = IF g.symbol \in DOMAIN positions THEN positions
                    ELSE [s \in DOMAIN positions \cup {g.symbol} |->
                            IF s = g.symbol THEN g.notional ELSE positions[s]]
    /\ granted' = {}
    /\ UNCHANGED <<capital, dailyPnl, peakEquity, topEquity, dayStart>>

\* A symbol that is not open has nothing to remove; its PnL counts all the same.
ClosePosition(s, pnl) ==
  /\ capital + pnl \in (InitialCapital - CapitalBound)..CapitalBound
  /\ positions' = [x \in DOMAIN positions \ {s} |-> positions[x]]
  /\ capital' = capital + pnl
  /\ dailyPnl' = dailyPnl + pnl
  /\ peakEquity' = IF capital' > peakEquity THEN capital' ELSE peakEquity
  /\ UNCHANGED <<granted, topEquity, dayStart>>

ResetDaily ==
  /\ dailyPnl' = 0 /\ dayStart' = capital
  /\ UNCHANGED <<capital, positions, peakEquity, granted, topEquity>>

Next ==
  \/ \E s \in Symbols :
       \/ \E e \in Equities, stop \in Stops : ComputePositionSize(s, e, stop)
       \/ \E pnl \in Pnls : ClosePosition(s, pnl)
  \/ OpenPosition \/ ResetDaily

Spec == Init /\ [][Next]_portfolioVars

\* check_risk_limits for the stored capital; daily losses are a share of the
\* initial capital.
WithinRiskLimits ==
  /\ (peakEquity - capital) * 100 < peakEquity * MaxDrawdownPct
  /\ dailyPnl < 0 => -dailyPnl * 100 < InitialCapital * MaxDailyLossPct

---------------------------------------------------------------------------

(* However grants, openings and closings interleave, the portfolio holds   *)
(* no more positions than allowed and no more notional than the exposure   *)
(* limit of the largest equity a size was computed from: nothing when no   *)
(* size was computed from a positive one.                                  *)
ExposureLimited ==
  /\ Cardinality(DOMAIN positions) <= MaxPositions
  /\ Total * 100 <= topEquity * MaxExposurePct * MaxPositions

(* The day's result is what the capital gained since the day began, and    *)
(* the peak never lies below the capital.                                  *)
DayAgreesWithCapital == capital = dayStart + dailyPnl /\ capital <= peakEquity

Safe == ExposureLimited /\ DayAgreesWithCapital

============================================================================
