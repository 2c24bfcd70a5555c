\* Two cases and a position of the operator's; the order cap is reached by an
\* order and a close.
SPECIFICATION Spec
CONSTANTS
  Symbols = {btc, eth}
  btc = btc
  eth = eth
  Directions = {LONG, SHORT}
  LONG = LONG
  SHORT = SHORT
  MaxLiveOrders = 2
  MaxCases = 2
  MaxManual = 1
  MaxRestarts = 1
SYMMETRY MCSymmetry
INVARIANTS
  TypeOK
  OneBotPosition
  OneOpenCase
  ResultsGoToTheirCase
  CapBoundsRequests
  JournalKnowsPositions
PROPERTIES
  CasesEndOnce
CHECK_DEADLOCK FALSE
