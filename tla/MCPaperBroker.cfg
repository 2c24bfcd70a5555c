\* Two symbols and three fills: one symbol can be opened, closed and opened
\* again while the other holds a position.
SPECIFICATION Spec
CONSTANTS
  Symbols = {btc, eth}
  btc = btc
  eth = eth
  InitialEquity = 30000
  Slippage = 1
  CommissionPct = 1
  Prices <- MCPrices
  Sizes <- MCSizes
  Pcts <- MCPcts
  MaxFills = 3
SYMMETRY MCSymmetry
INVARIANTS
  TypeOK
  EquityLedger
  FillsAccountedFor
PROPERTIES
  ExitReasonIsHonest
  OneTradePerClose
CHECK_DEADLOCK FALSE
