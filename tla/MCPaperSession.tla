--------------------------- MODULE MCPaperSession --------------------------
(* PaperSession on a price that falls or recovers, so that a position      *)
(* opened at either price is stopped or reaches its target at the other;   *)
(* and three statements of the documentation the loop does not keep.       *)
EXTENDS PaperSession, TLC

MCPrices == {80, 120}
MCStops == {10}
MCSymmetry == Permutations(Symbols) \cup Permutations(Families)

---------------------------------------------------------------------------

\* "Keeps daily-loss / consecutive-loss / trade-count limits live with the
\* paper broker's realized results" (harness.py:314): between sessions the risk
\* manager has counted the trades the broker closed and summed their results.
RiskCountsTradesOnce ==
  phase = "sleep" =>
    /\ tradesToday = Len(closedTrades)
    /\ dailyPnl = B!RealizedPnl(closedTrades)

\* "Gates before every session (fail closed): [...] the kill switch must not be
\* engaged." (paper_orchestrator.py:128-131).
KillSwitchGatesSessions ==
  [][phase = "gate" /\ phase' = "scan" => ~killSwitchActive]_vars

\* "Simulates fills at market price with configurable slippage."
\* (broker.py:84): no position is closed at a price the market never had.
ExitsAtMarketPrice ==
  \A i \in DOMAIN closedTrades :
    \E p \in Prices : closedTrades[i].exit \in {p - Slippage, p + Slippage}

============================================================================
