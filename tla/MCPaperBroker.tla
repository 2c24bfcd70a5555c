--------------------------- MODULE MCPaperBroker ---------------------------
(* PaperBroker on two interchangeable symbols and a price that falls or    *)
(* recovers: every stop and every target is reached from the other price.  *)
EXTENDS PaperBroker, TLC

MCPrices == {80, 120}
MCSizes == {0, 500}
MCPcts == {10}
MCSymmetry == Permutations(Symbols)

============================================================================
