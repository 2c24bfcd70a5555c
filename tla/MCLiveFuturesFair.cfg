\* One symbol and a restart, on an account only the bot trades on.
SPECIFICATION FairSpec
CONSTANTS
  Symbols = {btc}
  btc = btc
  Directions = {LONG, SHORT}
  LONG = LONG
  SHORT = SHORT
  MaxLiveOrders = 2
  MaxCases = 2
  MaxManual = 0
  MaxRestarts = 1
PROPERTY ClosedOrCapped
CHECK_DEADLOCK FALSE
