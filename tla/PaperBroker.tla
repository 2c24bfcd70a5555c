---------------------------- MODULE PaperBroker ----------------------------
(***************************************************************************)
(* trading_bot/paper/broker.py: the simulated broker of the paper session. *)
(*                                                                         *)
(* Prices are whole ticks and money whole units.  The multiplicative       *)
(* slippage is Slippage ticks against the trader and divisions round down: *)
(* the properties depend on who pays and when, not on the exact rate.      *)
(* A position remembers the fill that opened it (openedAt): the dict       *)
(* _positions iterates in that order.                                      *)
(***************************************************************************)
EXTENDS Integers, Sequences, FiniteSets

CONSTANTS
  Symbols,
  InitialEquity,
  Slippage,          \* ticks lost on each fill
  CommissionPct,     \* percent of the notional paid on each fill
  Prices,            \* market prices, in ticks
  Sizes, Pcts,       \* notionals and stop/target percentages of the signals
  MaxFills           \* bound: fills this Spec opens

ASSUME BrokerAssumption ==
  /\ InitialEquity \in Int
  /\ Slippage \in Nat
  /\ CommissionPct \in Nat
  /\ Prices \subseteq Nat
  /\ \A p \in Prices : p > Slippage
  /\ Sizes \subseteq Nat /\ Pcts \subseteq Nat
  /\ MaxFills \in Nat

VARIABLES
  positions,         \* symbol |-> open position; at most one per symbol
  closedTrades,
  equity,
  fillsOpened,
  fillsClosed

brokerVars == <<positions, closedTrades, equity, fillsOpened, fillsClosed>>

Sides == {"buy", "sell"}

Position ==
  [side : Sides, entry : Int, quantity : Int, notional : Int,
   stopPct : Int, targetPct : Int, commission : Int, openedAt : Nat]

ClosedTrade ==
  [symbol : Symbols, side : Sides, exit : Int, pnl : Int,
   reason : {"stop_loss", "take_profit", "signal"}, openedAt : Nat]

TypeOK ==
  /\ DOMAIN positions \subseteq Symbols
  /\ positions \in [DOMAIN positions -> Position]
  /\ closedTrades \in Seq(ClosedTrade)
  /\ equity \in Int
  /\ fillsOpened \in Nat /\ fillsClosed \in Nat

Init ==
  /\ positions = [s \in {} |-> {}]
  /\ closedTrades = <<>>
  /\ equity = InitialEquity
  /\ fillsOpened = 0 /\ fillsClosed = 0

---------------------------------------------------------------------------

Commission(notional) == (notional * CommissionPct) \div 100

StopPrice(p) ==
  IF p.side = "buy" THEN (p.entry * (100 - p.stopPct)) \div 100
                    ELSE (p.entry * (100 + p.stopPct)) \div 100

TargetPrice(p) ==
  IF p.side = "buy" THEN (p.entry * (100 + p.targetPct)) \div 100
                    ELSE (p.entry * (100 - p.targetPct)) \div 100

\* PaperPosition.check_exit on one price, and its counterpart on a candle.
StopHit(p, high, low) ==
  IF p.side = "buy" THEN low <= StopPrice(p) ELSE high >= StopPrice(p)
\* Faulty variant of TargetHit: shorts are marked like longs.
TargetHitAsLong(p, high, low) == high >= TargetPrice(p)
TargetHit(p, high, low) ==
  IF p.side = "buy" THEN high >= TargetPrice(p) ELSE low <= TargetPrice(p)

EntryPrice(side, price) == IF side = "buy" THEN price + Slippage ELSE price - Slippage
ExitPrice(side, price)  == IF side = "buy" THEN price - Slippage ELSE price + Slippage

\* True-net result: both commissions are paid when the position closes.
NetPnl(p, price) ==
  LET exit  == ExitPrice(p.side, price)
      gross == IF p.side = "buy" THEN (exit - p.entry) * p.quantity
                                 ELSE (p.entry - exit) * p.quantity
  IN  gross - p.commission - Commission(p.notional)

TradeOf(s, price, reason) ==
  LET p == positions[s]
  IN  [symbol |-> s, side |-> p.side, exit |-> ExitPrice(p.side, price),
       pnl |-> NetPnl(p, price), reason |-> reason, openedAt |-> p.openedAt]

\* Faulty variant of ClosePosition: only the latest trade is kept.
ClosePositionForgetting(s, price, reason) ==
  /\ positions' = [x \in DOMAIN positions \ {s} |-> positions[x]]
  /\ closedTrades' = <<TradeOf(s, price, reason)>>
  /\ fillsClosed' = fillsClosed + 1
  /\ equity' = equity + NetPnl(positions[s], price)
  /\ UNCHANGED fillsOpened

ClosePosition(s, price, reason) ==
  /\ positions' = [x \in DOMAIN positions \ {s} |-> positions[x]]
  /\ closedTrades' = Append(closedTrades, TradeOf(s, price, reason))
  /\ fillsClosed' = fillsClosed + 1
  /\ equity' = equity + NetPnl(positions[s], price)
  /\ UNCHANGED fillsOpened

---------------------------------------------------------------------------
(* execute_signal: exactly one of the three outcomes applies.              *)

\* Faulty variant of CloseOpposite: a reason no report knows.
CloseOppositeAsFlip(s, side, price) ==
  /\ s \in DOMAIN positions
  /\ positions[s].side # side
  /\ ClosePosition(s, price, "flip")

CloseOpposite(s, side, price) ==
  /\ s \in DOMAIN positions
  /\ positions[s].side # side
  /\ ClosePosition(s, price, "signal")

SkipDuplicate(s, side) ==
  /\ s \in DOMAIN positions
  /\ positions[s].side = side
  /\ UNCHANGED brokerVars

NewPosition(side, price, size, stopPct, targetPct) ==
  LET notional == IF size <= 0 THEN equity \div 100 ELSE size
      fill     == EntryPrice(side, price)
  IN  [side |-> side, entry |-> fill, quantity |-> notional \div fill,
       notional |-> notional,
       stopPct   |-> IF stopPct = 0 THEN 1 ELSE stopPct,
       targetPct |-> IF targetPct = 0 THEN 2 ELSE targetPct,
       commission |-> Commission(notional),
       openedAt |-> fillsOpened + 1]

Put(s, p) ==
  positions' = [x \in DOMAIN positions \cup {s} |-> IF x = s THEN p ELSE positions[x]]

\* Faulty variants of OpenPosition: the entry commission is paid at once (and
\* again when the position closes); a held position is overwritten.
OpenPositionPaying(s, side, price, size, stopPct, targetPct) ==
  LET p == NewPosition(side, price, size, stopPct, targetPct)
  IN  /\ s \notin DOMAIN positions
      /\ Put(s, p)
      /\ fillsOpened' = fillsOpened + 1
      /\ equity' = equity - p.commission
      /\ UNCHANGED <<closedTrades, fillsClosed>>
OpenPositionOver(s, side, price, size, stopPct, targetPct) ==
  /\ Put(s, NewPosition(side, price, size, stopPct, targetPct))
  /\ fillsOpened' = fillsOpened + 1
  /\ UNCHANGED <<closedTrades, equity, fillsClosed>>

OpenPosition(s, side, price, size, stopPct, targetPct) ==
  /\ s \notin DOMAIN positions
  /\ Put(s, NewPosition(side, price, size, stopPct, targetPct))
  /\ fillsOpened' = fillsOpened + 1
  /\ UNCHANGED <<closedTrades, equity, fillsClosed>>

ExecuteSignal(s, side, price, size, stopPct, targetPct) ==
  \/ CloseOpposite(s, side, price)
  \/ SkipDuplicate(s, side)
  \/ OpenPosition(s, side, price, size, stopPct, targetPct)

---------------------------------------------------------------------------
(* check_positions and check_positions_ohlc, for one symbol of the map     *)
(* they are given; a call with several symbols is these steps one after    *)
(* the other, in the order the positions were opened.                      *)

CheckPosition(s, price) ==
  /\ s \in DOMAIN positions
  /\ \/ /\ StopHit(positions[s], price, price)
        /\ ClosePosition(s, price, "stop_loss")
     \/ /\ ~StopHit(positions[s], price, price)
        /\ TargetHit(positions[s], price, price)
        /\ ClosePosition(s, price, "take_profit")
     \/ /\ ~StopHit(positions[s], price, price)
        /\ ~TargetHit(positions[s], price, price)
        /\ UNCHANGED brokerVars

CheckPositionOhlc(s, high, low, policy) ==
  /\ s \in DOMAIN positions
  /\ LET p       == positions[s]
         stop    == StopHit(p, high, low)
         target  == TargetHit(p, high, low)
         stopped == stop /\ (policy = "stop_first" \/ ~target)
     IN  \/ stopped /\ ClosePosition(s, StopPrice(p), "stop_loss")
         \/ ~stopped /\ target /\ ClosePosition(s, TargetPrice(p), "take_profit")
         \/ ~stop /\ ~target /\ UNCHANGED brokerVars

---------------------------------------------------------------------------
(* The class on its own: any signals, prices and candles, in any order.    *)

Next ==
  \E s \in Symbols :
    \/ /\ fillsOpened < MaxFills
       /\ \E side \in Sides, price \in Prices, size \in Sizes,
             stopPct \in Pcts, targetPct \in Pcts :
            ExecuteSignal(s, side, price, size, stopPct, targetPct)
    \/ \E price \in Prices : CheckPosition(s, price)
    \/ \E high, low \in Prices, policy \in {"stop_first", "tp_first"} :
         low <= high /\ CheckPositionOhlc(s, high, low, policy)

Spec == Init /\ [][Next]_brokerVars

---------------------------------------------------------------------------
(* What reconcile_session reports as realized_pnl.                         *)

RealizedPnl(trades) ==
  LET upTo[n \in 0 .. Len(trades)] ==
        IF n = 0 THEN 0 ELSE upTo[n - 1] + trades[n].pnl
  IN  upTo[Len(trades)]

\* "equity == initial_equity + sum(ClosedTrade.pnl)" (broker.py:185, 203):
\* opening a position costs nothing, closing one moves the equity by exactly
\* the result that is reported, commissions of both fills included.
EquityLedger == equity = InitialEquity + RealizedPnl(closedTrades)

\* Every opening fill is accounted for exactly once: it is a position that is
\* still open or one closed trade, never both, never neither
\* (the counters of broker.py:181 and 237 against the two collections).
FillsAccountedFor ==
  LET open   == {positions[s].openedAt : s \in DOMAIN positions}
      closed == {closedTrades[i].openedAt : i \in DOMAIN closedTrades}
  IN  /\ open \cap closed = {}
      /\ open \cup closed = 1 .. fillsOpened
      /\ Cardinality(open) = Cardinality(DOMAIN positions)
      /\ Cardinality(closed) = Len(closedTrades)
      /\ fillsClosed = Len(closedTrades)

\* The reported reason tells the truth, for both sides and for both ways of
\* marking a position: a "stop_loss" is never better than the stop level paid,
\* a "take_profit" never worse than the target level (broker.py:51-63, 320-363).
\* Not of a negative quantity, which the 1% fallback of broker.py:161 gives
\* once the equity is negative.
ExitReasonIsHonest ==
  [][ \A s \in DOMAIN positions : s \notin DOMAIN positions' =>
        LET p     == positions[s]
            trade == closedTrades'[Len(closedTrades')]
        IN  p.quantity >= 0 =>
              /\ trade.reason = "stop_loss" => trade.pnl <= NetPnl(p, StopPrice(p))
              /\ trade.reason = "take_profit" => trade.pnl >= NetPnl(p, TargetPrice(p))
    ]_brokerVars

\* History is append-only: a step that closes appends one trade for a
\* position it removes, and no step rewrites an earlier trade or re-opens a
\* symbol that holds a position (broker.py:146, 205, 236).
OneTradePerClose ==
  [][ \/ UNCHANGED closedTrades
      \/ \E s \in DOMAIN positions :
           /\ s \notin DOMAIN positions'
           /\ Len(closedTrades') = Len(closedTrades) + 1
           /\ SubSeq(closedTrades', 1, Len(closedTrades)) = closedTrades
           /\ closedTrades'[Len(closedTrades')].openedAt = positions[s].openedAt
    ]_brokerVars

============================================================================
