\* --max-live-orders at its default.
SPECIFICATION FairSpec
CONSTANTS
  Symbols = {btc}
  btc = btc
  Directions = {LONG, SHORT}
  LONG = LONG
  SHORT = SHORT
  MaxLiveOrders = 1
  MaxCases = 1
  MaxManual = 0
  MaxRestarts = 0
PROPERTY ClosesAreReconciled
CHECK_DEADLOCK FALSE
