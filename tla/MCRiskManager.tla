--------------------------- MODULE MCRiskManager ---------------------------
(* RiskManager under any caller, with a policy small enough that every     *)
(* limit is reached.                                                       *)
EXTENDS RiskManager

MCPnls == {-40, -20, 20}
MCSizes == {60, 150}
MCStops == {1, 4, 50}

============================================================================
