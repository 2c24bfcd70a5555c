-------------------------- MODULE PaperBrokerProofs -------------------------
(***************************************************************************)
(* Theorems about PaperBroker for every set of symbols, prices and sizes,  *)
(* any slippage and commission, and any number of fills.                   *)
(***************************************************************************)
EXTENDS PaperBroker, FiniteSetTheorems, TLAPS

---------------------------------------------------------------------------
(* Types                                                                   *)

\* Closing a position of a well-typed broker leaves it well typed.
LEMMA ClosePositionTyped ==
  ASSUME TypeOK, BrokerAssumption,
         NEW s \in DOMAIN positions, NEW price \in Int,
         NEW reason \in {"stop_loss", "take_profit", "signal"},
         ClosePosition(s, price, reason)
  PROVE  TypeOK'
<1>1. positions[s] \in Position
  BY DEF TypeOK
<1>2. NetPnl(positions[s], price) \in Int
  BY <1>1 DEF NetPnl, ExitPrice, Commission, Position, Sides, BrokerAssumption
<1>3. TradeOf(s, price, reason) \in ClosedTrade
  <2>1. s \in Symbols
    BY DEF TypeOK
  <2>2. positions[s].side \in Sides /\ positions[s].openedAt \in Nat
    BY <1>1 DEF Position
  <2>3. ExitPrice(positions[s].side, price) \in Int
    BY DEF ExitPrice, BrokerAssumption
  <2> QED BY <1>2, <2>1, <2>2, <2>3 DEF TradeOf, ClosedTrade
<1>4. closedTrades' \in Seq(ClosedTrade)
  BY <1>3 DEF ClosePosition, TypeOK
<1>5. /\ DOMAIN positions' \subseteq Symbols
      /\ positions' \in [DOMAIN positions' -> Position]
  BY DEF ClosePosition, TypeOK
<1>6. equity' \in Int /\ fillsOpened' \in Nat /\ fillsClosed' \in Nat
  BY <1>2 DEF ClosePosition, TypeOK
<1> QED BY <1>4, <1>5, <1>6 DEF TypeOK

\* Stop and target levels are prices one can close at.
LEMMA LevelsTyped ==
  ASSUME NEW p \in Position
  PROVE  StopPrice(p) \in Int /\ TargetPrice(p) \in Int
BY DEF Position, Sides, StopPrice, TargetPrice

\* Opening a position keeps the types, whatever the order asks.
LEMMA OpenPositionTyped ==
  ASSUME TypeOK, BrokerAssumption,
         NEW s \in Symbols, NEW side \in Sides, NEW price \in Prices,
         NEW size \in Int, NEW stopPct \in Int, NEW targetPct \in Int,
         OpenPosition(s, side, price, size, stopPct, targetPct)
  PROVE  TypeOK'
<1>1. EntryPrice(side, price) \in Nat /\ EntryPrice(side, price) > 0
  BY DEF BrokerAssumption, EntryPrice, Sides
<1> DEFINE notional == IF size <= 0 THEN equity \div 100 ELSE size
<1>2. notional \in Int
  BY DEF TypeOK
<1>3. notional \div EntryPrice(side, price) \in Int /\ Commission(notional) \in Int
  <2> HIDE DEF notional
  <2> QED BY <1>1, <1>2 DEF Commission, BrokerAssumption
<1>4. NewPosition(side, price, size, stopPct, targetPct) \in Position
  <2>1. /\ (IF stopPct = 0 THEN 1 ELSE stopPct) \in Int
        /\ (IF targetPct = 0 THEN 2 ELSE targetPct) \in Int
        /\ fillsOpened + 1 \in Nat
    BY DEF TypeOK
  <2>2. NewPosition(side, price, size, stopPct, targetPct) =
          [side |-> side, entry |-> EntryPrice(side, price),
           quantity |-> notional \div EntryPrice(side, price),
           notional |-> notional,
           stopPct |-> IF stopPct = 0 THEN 1 ELSE stopPct,
           targetPct |-> IF targetPct = 0 THEN 2 ELSE targetPct,
           commission |-> Commission(notional), openedAt |-> fillsOpened + 1]
    BY DEF NewPosition
  <2> HIDE DEF notional
  <2> QED BY <1>1, <1>2, <1>3, <2>1, <2>2 DEF Position
<1>5. /\ DOMAIN positions' \subseteq Symbols
      /\ positions' \in [DOMAIN positions' -> Position]
  BY <1>4 DEF OpenPosition, Put, TypeOK
<1> QED BY <1>5 DEF OpenPosition, TypeOK

Reasons == {"stop_loss", "take_profit", "signal"}

\* A position is marked out on the right side of its levels.
Marked(p, price, reason) ==
  /\ reason = "stop_loss" =>
       IF p.side = "buy" THEN price <= StopPrice(p) ELSE price >= StopPrice(p)
  /\ reason = "take_profit" =>
       IF p.side = "buy" THEN price >= TargetPrice(p) ELSE price <= TargetPrice(p)

\* Every step of the broker closes one position it holds, opens one position
\* on a symbol that has none, or changes nothing.
LEMMA StepCases ==
  ASSUME TypeOK, BrokerAssumption, [Next]_brokerVars
  PROVE  \/ UNCHANGED brokerVars
         \/ \E s \in DOMAIN positions, price \in Int, reason \in Reasons :
              ClosePosition(s, price, reason) /\ Marked(positions[s], price, reason)
         \/ \E s \in Symbols, side \in Sides, price \in Prices,
               size \in Int, stopPct \in Int, targetPct \in Int :
              OpenPosition(s, side, price, size, stopPct, targetPct)
<1> DEFINE Closes == \E s \in DOMAIN positions, price \in Int, reason \in Reasons :
                       ClosePosition(s, price, reason) /\ Marked(positions[s], price, reason)
           Opens == \E s \in Symbols, side \in Sides, price \in Prices,
                       size \in Int, stopPct \in Int, targetPct \in Int :
                      OpenPosition(s, side, price, size, stopPct, targetPct)
           Stays == UNCHANGED brokerVars
<1> SUFFICES ASSUME Next PROVE Stays \/ Closes \/ Opens
  OBVIOUS
<1> PICK s \in Symbols :
      \/ \E side \in Sides, price \in Prices, size \in Sizes,
            stopPct \in Pcts, targetPct \in Pcts :
           ExecuteSignal(s, side, price, size, stopPct, targetPct)
      \/ \E price \in Prices : CheckPosition(s, price)
      \/ \E high, low \in Prices, policy \in {"stop_first", "tp_first"} :
           CheckPositionOhlc(s, high, low, policy)
  BY DEF Next
<1>1. ASSUME NEW side \in Sides, NEW price \in Prices, NEW size \in Sizes,
             NEW stopPct \in Pcts, NEW targetPct \in Pcts,
             ExecuteSignal(s, side, price, size, stopPct, targetPct)
      PROVE  Stays \/ Closes \/ Opens
  <2>1. price \in Int /\ size \in Int /\ stopPct \in Int /\ targetPct \in Int
    BY DEF BrokerAssumption
  <2>2. CASE CloseOpposite(s, side, price)
    BY <2>1, <2>2 DEF CloseOpposite, Reasons, Marked
  <2>3. CASE SkipDuplicate(s, side)
    BY <2>3 DEF SkipDuplicate
  <2>4. CASE OpenPosition(s, side, price, size, stopPct, targetPct)
    BY <2>1, <2>4
  <2> QED BY <1>1, <2>2, <2>3, <2>4 DEF ExecuteSignal
<1>2. ASSUME NEW price \in Prices, CheckPosition(s, price)
      PROVE  Stays \/ Closes \/ Opens
  <2>1. price \in Int
    BY DEF BrokerAssumption
  <2>2. s \in DOMAIN positions
    BY <1>2 DEF CheckPosition
  <2>3. CASE StopHit(positions[s], price, price) /\ ClosePosition(s, price, "stop_loss")
    <3>1. Marked(positions[s], price, "stop_loss")
      BY <2>3 DEF Marked, StopHit
    <3> QED BY <2>1, <2>2, <2>3, <3>1 DEF Reasons
  <2>4. CASE TargetHit(positions[s], price, price) /\ ClosePosition(s, price, "take_profit")
    <3>1. Marked(positions[s], price, "take_profit")
      BY <2>4 DEF Marked, TargetHit
    <3> QED BY <2>1, <2>2, <2>4, <3>1 DEF Reasons
  <2> QED BY <1>2, <2>3, <2>4 DEF CheckPosition
<1>3. ASSUME NEW high \in Prices, NEW low \in Prices,
             NEW policy \in {"stop_first", "tp_first"},
             CheckPositionOhlc(s, high, low, policy)
      PROVE  Stays \/ Closes \/ Opens
  <2>1. s \in DOMAIN positions
    BY <1>3 DEF CheckPositionOhlc
  <2>2. \/ ClosePosition(s, StopPrice(positions[s]), "stop_loss")
        \/ ClosePosition(s, TargetPrice(positions[s]), "take_profit")
        \/ UNCHANGED brokerVars
    BY <1>3 DEF CheckPositionOhlc
  <2>3. StopPrice(positions[s]) \in Int /\ TargetPrice(positions[s]) \in Int
    BY <2>1, LevelsTyped DEF TypeOK
  <2>4. /\ Marked(positions[s], StopPrice(positions[s]), "stop_loss")
        /\ Marked(positions[s], TargetPrice(positions[s]), "take_profit")
    BY <2>3 DEF Marked
  <2> QED BY <2>1, <2>2, <2>3, <2>4 DEF Reasons
<1> QED BY <1>1, <1>2, <1>3

\* The broker's state keeps its types: every position and every closed trade
\* carries whole amounts, whatever is executed, checked or closed.
THEOREM TypeCorrect == Spec => []TypeOK
<1> USE BrokerAssumption
<1>1. Init => TypeOK
  BY DEF Init, TypeOK, BrokerAssumption
<1>2. TypeOK /\ [Next]_brokerVars => TypeOK'
  <2> SUFFICES ASSUME TypeOK, [Next]_brokerVars PROVE TypeOK'
    OBVIOUS
  <2>1. CASE UNCHANGED brokerVars
    BY <2>1 DEF TypeOK, brokerVars
  <2>2. ASSUME NEW s \in DOMAIN positions, NEW price \in Int, NEW reason \in Reasons,
               ClosePosition(s, price, reason)
        PROVE  TypeOK'
    BY <2>2, ClosePositionTyped DEF Reasons
  <2>3. ASSUME NEW s \in Symbols, NEW side \in Sides, NEW price \in Prices,
               NEW size \in Int, NEW stopPct \in Int, NEW targetPct \in Int,
               OpenPosition(s, side, price, size, stopPct, targetPct)
        PROVE  TypeOK'
    BY <2>3, OpenPositionTyped
  <2> QED BY <2>1, <2>2, <2>3, StepCases
<1> QED BY <1>1, <1>2, PTL DEF Spec

---------------------------------------------------------------------------
(* The ledger                                                              *)

\* S[n] is the result of the first n trades.
SumsUp(S, trades) ==
  S = [n \in 0 .. Len(trades) |-> IF n = 0 THEN 0 ELSE S[n - 1] + trades[n].pnl]

\* The sum is defined by recursion over a list that only grows, so both facts
\* are kept step by step: partial sums exist, and all of them end in what the
\* equity has gained.
LedgerInv ==
  /\ \E S : SumsUp(S, closedTrades)
  /\ \A S : SumsUp(S, closedTrades) => S[Len(closedTrades)] = equity - InitialEquity

\* The realized result is the last of the running sums over the trades.
LEMMA RealizedIsASum ==
  ASSUME NEW trades, \E S : SumsUp(S, trades)
  PROVE  \E S : SumsUp(S, trades) /\ RealizedPnl(trades) = S[Len(trades)]
<1> DEFINE T == CHOOSE S : SumsUp(S, trades)
<1>1. SumsUp(T, trades)
  OBVIOUS
<1>2. RealizedPnl(trades) = T[Len(trades)]
  BY DEF RealizedPnl, SumsUp
<1> QED BY <1>1, <1>2

\* Appending a trade extends the partial sums by one.
LEMMA SumsExtend ==
  ASSUME NEW trades \in Seq(ClosedTrade), NEW trade \in ClosedTrade,
         NEW S, SumsUp(S, trades)
  PROVE  \E X : SumsUp(X, Append(trades, trade))
<1> DEFINE more == Append(trades, trade)
           X == [n \in 0 .. Len(trades) + 1 |->
                   IF n = Len(trades) + 1 THEN S[Len(trades)] + trade.pnl ELSE S[n]]
<1>1. /\ Len(trades) \in Nat /\ Len(more) = Len(trades) + 1
      /\ more[Len(trades) + 1] = trade
      /\ \A n \in 1 .. Len(trades) : more[n] = trades[n]
  OBVIOUS
<1>2. \A n \in 0 .. Len(trades) :
        S[n] = IF n = 0 THEN 0 ELSE S[n - 1] + trades[n].pnl
  BY DEF SumsUp
<1>3. ASSUME NEW n \in 0 .. Len(more)
      PROVE  X[n] = IF n = 0 THEN 0 ELSE X[n - 1] + more[n].pnl
  <2>1. CASE n = Len(trades) + 1
    BY <1>1, <2>1
  <2>2. CASE n # Len(trades) + 1
    BY <1>1, <1>2, <2>2
  <2> QED BY <2>1, <2>2
<1>4. X = [n \in 0 .. Len(more) |-> IF n = 0 THEN 0 ELSE X[n - 1] + more[n].pnl]
  <2>1. DOMAIN X = 0 .. Len(more) /\ X = [n \in DOMAIN X |-> X[n]]
    BY <1>1
  <2> HIDE DEF X
  <2> QED BY <1>3, <2>1
<1>5. SumsUp(X, more)
  BY <1>4 DEF SumsUp
<1> QED BY <1>5

\* Partial sums of a longer list are, cut short, those of the shorter one.
LEMMA SumsRestrict ==
  ASSUME NEW trades \in Seq(ClosedTrade), NEW trade \in ClosedTrade,
         NEW X, SumsUp(X, Append(trades, trade))
  PROVE  \E S : /\ SumsUp(S, trades)
                /\ X[Len(trades) + 1] = S[Len(trades)] + trade.pnl
<1> DEFINE more == Append(trades, trade)
           S == [n \in 0 .. Len(trades) |-> X[n]]
<1>1. /\ Len(trades) \in Nat /\ Len(more) = Len(trades) + 1
      /\ more[Len(trades) + 1] = trade
      /\ \A n \in 1 .. Len(trades) : more[n] = trades[n]
  OBVIOUS
<1>2. \A n \in 0 .. Len(more) : X[n] = IF n = 0 THEN 0 ELSE X[n - 1] + more[n].pnl
  BY DEF SumsUp
<1>3. \A n \in 0 .. Len(trades) :
        S[n] = IF n = 0 THEN 0 ELSE S[n - 1] + trades[n].pnl
  BY <1>1, <1>2
<1>4. SumsUp(S, trades)
  <2>1. DOMAIN S = 0 .. Len(trades)
        /\ S = [n \in DOMAIN S |-> S[n]]
    OBVIOUS
  <2> HIDE DEF S
  <2> QED BY <1>3, <2>1 DEF SumsUp
<1>5. X[Len(trades) + 1] = S[Len(trades)] + trade.pnl
  BY <1>1, <1>2
<1> QED BY <1>4, <1>5

\* An account starts with its books balanced.
LEMMA InitLedger ==
  ASSUME Init, BrokerAssumption
  PROVE  LedgerInv
<1>1. closedTrades = <<>> /\ equity = InitialEquity /\ Len(closedTrades) = 0
  BY DEF Init
<1>2. 0 .. 0 = {0}
  OBVIOUS
<1>3. SumsUp([n \in {0} |-> 0], closedTrades)
  BY <1>1, <1>2 DEF SumsUp
<1>4. ASSUME NEW S, SumsUp(S, closedTrades)
      PROVE  S[0] = 0
  BY <1>1, <1>2, <1>4 DEF SumsUp
<1>5. equity - InitialEquity = 0
  BY <1>1 DEF BrokerAssumption
<1> QED BY <1>1, <1>3, <1>4, <1>5 DEF LedgerInv

\* Closing moves the result of a position from open to realized and keeps the
\* books balanced.
LEMMA CloseKeepsLedger ==
  ASSUME TypeOK, BrokerAssumption, LedgerInv,
         NEW s \in DOMAIN positions, NEW price \in Int, NEW reason \in Reasons,
         ClosePosition(s, price, reason)
  PROVE  LedgerInv'
<1> DEFINE trade == TradeOf(s, price, reason)
<1>1. /\ closedTrades' = Append(closedTrades, trade)
      /\ equity' = equity + trade.pnl
  BY DEF ClosePosition, TradeOf
<1>2. trade \in ClosedTrade /\ trade.pnl \in Int
  <2>1. TypeOK'
    BY ClosePositionTyped DEF Reasons
  <2>2. trade = closedTrades'[Len(closedTrades) + 1]
        /\ Len(closedTrades) + 1 \in DOMAIN closedTrades'
    BY <1>1, <2>1 DEF TypeOK
  <2> HIDE DEF trade
  <2>3. trade \in ClosedTrade
    BY <2>1, <2>2 DEF TypeOK
  <2> QED BY <2>3 DEF ClosedTrade
<1> HIDE DEF trade
<1>3. closedTrades \in Seq(ClosedTrade) /\ Len(closedTrades') = Len(closedTrades) + 1
  BY <1>1 DEF TypeOK
<1>4. \E X : SumsUp(X, closedTrades')
  BY <1>1, <1>2, <1>3, SumsExtend DEF LedgerInv
<1>5. ASSUME NEW X, SumsUp(X, closedTrades')
      PROVE  X[Len(closedTrades')] = equity' - InitialEquity
  <2>1. PICK S : /\ SumsUp(S, closedTrades)
                 /\ X[Len(closedTrades) + 1] = S[Len(closedTrades)] + trade.pnl
    BY <1>1, <1>2, <1>3, <1>5, SumsRestrict
  <2>2. S[Len(closedTrades)] = equity - InitialEquity
    BY <2>1 DEF LedgerInv
  <2>3. X[Len(closedTrades')] = (equity - InitialEquity) + trade.pnl
    BY <1>3, <2>1, <2>2
  <2>4. (equity - InitialEquity) + trade.pnl = (equity + trade.pnl) - InitialEquity
    BY <1>2 DEF TypeOK, BrokerAssumption
  <2> QED BY <1>1, <2>3, <2>4
<1>6. LedgerInv' <=> (/\ \E S : SumsUp(S, closedTrades')
                      /\ \A S : SumsUp(S, closedTrades') =>
                                  S[Len(closedTrades')] = equity' - InitialEquity)
  BY DEF LedgerInv, SumsUp
<1> QED BY <1>4, <1>5, <1>6

\* What the balanced books say of the equity.
LEMMA LedgerGives ==
  ASSUME TypeOK, BrokerAssumption, LedgerInv
  PROVE  EquityLedger
<1>1. PICK S : SumsUp(S, closedTrades) /\ RealizedPnl(closedTrades) = S[Len(closedTrades)]
  BY RealizedIsASum DEF LedgerInv
<1>2. RealizedPnl(closedTrades) = equity - InitialEquity
  BY <1>1 DEF LedgerInv
<1> QED BY <1>2 DEF TypeOK, BrokerAssumption, EquityLedger

\* equity == initial_equity + sum(ClosedTrade.pnl), at every moment.
THEOREM LedgerBalances == Spec => []EquityLedger
<1> USE BrokerAssumption
<1>1. Init => LedgerInv
  BY InitLedger
<1>2. TypeOK /\ LedgerInv /\ [Next]_brokerVars => LedgerInv'
  <2> SUFFICES ASSUME TypeOK, LedgerInv, [Next]_brokerVars PROVE LedgerInv'
    OBVIOUS
  <2>1. CASE UNCHANGED <<closedTrades, equity>>
    BY <2>1 DEF LedgerInv, SumsUp
  <2>2. ASSUME NEW s \in DOMAIN positions, NEW price \in Int, NEW reason \in Reasons,
               ClosePosition(s, price, reason)
        PROVE  LedgerInv'
    BY <2>2, CloseKeepsLedger
  <2>3. ASSUME NEW s \in Symbols, NEW side \in Sides, NEW price \in Prices,
               NEW size \in Int, NEW stopPct \in Int, NEW targetPct \in Int,
               OpenPosition(s, side, price, size, stopPct, targetPct)
        PROVE  LedgerInv'
    BY <2>1, <2>3 DEF OpenPosition
  <2>4. CASE UNCHANGED brokerVars
    BY <2>1, <2>4 DEF brokerVars
  <2> QED BY <2>2, <2>3, <2>4, StepCases
<1>3. TypeOK /\ LedgerInv => EquityLedger
  BY LedgerGives
<1> QED BY <1>1, <1>2, <1>3, TypeCorrect, PTL DEF Spec

---------------------------------------------------------------------------
(* The fills                                                               *)

\* Fills are numbered in order, and a number names one open position or one
\* closed trade: what FillsAccountedFor says without counting.
FillsInv ==
  /\ IsFiniteSet(DOMAIN positions)
  /\ \A s \in DOMAIN positions : positions[s].openedAt \in 1 .. fillsOpened
  /\ \A i \in DOMAIN closedTrades : closedTrades[i].openedAt \in 1 .. fillsOpened
  /\ \A s, t \in DOMAIN positions :
       positions[s].openedAt = positions[t].openedAt => s = t
  /\ \A i, j \in DOMAIN closedTrades :
       closedTrades[i].openedAt = closedTrades[j].openedAt => i = j
  /\ \A s \in DOMAIN positions, i \in DOMAIN closedTrades :
       positions[s].openedAt # closedTrades[i].openedAt
  /\ \A f \in 1 .. fillsOpened :
       \/ \E s \in DOMAIN positions : positions[s].openedAt = f
       \/ \E i \in DOMAIN closedTrades : closedTrades[i].openedAt = f
  /\ fillsClosed = Len(closedTrades)

\* A closing adds one trade and one fill.
LEMMA CloseKeepsFills ==
  ASSUME TypeOK, FillsInv, NEW s \in DOMAIN positions, NEW price, NEW reason,
         ClosePosition(s, price, reason)
  PROVE  FillsInv'
<1> DEFINE trade == TradeOf(s, price, reason)
           n == Len(closedTrades)
<1>1. trade.openedAt = positions[s].openedAt
  BY DEF TradeOf
<1> HIDE DEF trade
<1>2. /\ n \in Nat
      /\ DOMAIN closedTrades = 1 .. n
      /\ closedTrades' = Append(closedTrades, trade)
      /\ DOMAIN closedTrades' = 1 .. n + 1 /\ Len(closedTrades') = n + 1
      /\ closedTrades'[n + 1] = trade
      /\ \A i \in 1 .. n : closedTrades'[i] = closedTrades[i]
  BY DEF ClosePosition, TypeOK, trade
<1>3. /\ DOMAIN positions' = DOMAIN positions \ {s}
      /\ \A x \in DOMAIN positions' : positions'[x] = positions[x]
      /\ fillsOpened' = fillsOpened /\ fillsClosed' = fillsClosed + 1
  BY DEF ClosePosition
<1>4. IsFiniteSet(DOMAIN positions')
  BY <1>3, FS_RemoveElement DEF FillsInv
<1>5. \A i \in DOMAIN closedTrades' : closedTrades'[i].openedAt \in 1 .. fillsOpened'
  BY <1>1, <1>2, <1>3 DEF FillsInv
<1>6. \A i, j \in DOMAIN closedTrades' :
        closedTrades'[i].openedAt = closedTrades'[j].openedAt => i = j
  <2> SUFFICES ASSUME NEW i \in 1 .. n + 1, NEW j \in 1 .. n + 1,
                      closedTrades'[i].openedAt = closedTrades'[j].openedAt
               PROVE  i = j
    BY <1>2
  <2>1. CASE i \in 1 .. n /\ j \in 1 .. n
    BY <1>2, <2>1 DEF FillsInv
  <2>2. CASE i = n + 1 \/ j = n + 1
    BY <1>1, <1>2, <2>2 DEF FillsInv
  <2> QED BY <1>2, <2>1, <2>2
<1>7. \A x \in DOMAIN positions', i \in DOMAIN closedTrades' :
        positions'[x].openedAt # closedTrades'[i].openedAt
  BY <1>1, <1>2, <1>3 DEF FillsInv
<1>8. ASSUME NEW f \in 1 .. fillsOpened'
      PROVE  \/ \E x \in DOMAIN positions' : positions'[x].openedAt = f
             \/ \E i \in DOMAIN closedTrades' : closedTrades'[i].openedAt = f
  <2>1. CASE \E x \in DOMAIN positions : positions[x].openedAt = f
    BY <1>1, <1>2, <1>3, <2>1
  <2>2. CASE \E i \in DOMAIN closedTrades : closedTrades[i].openedAt = f
    BY <1>2, <2>2
  <2> QED BY <1>3, <2>1, <2>2 DEF FillsInv
<1>9. fillsClosed' = Len(closedTrades')
  BY <1>2, <1>3 DEF FillsInv
<1> QED BY <1>3, <1>4, <1>5, <1>6, <1>7, <1>8, <1>9 DEF FillsInv

\* An opening adds one position and one fill.
LEMMA OpenKeepsFills ==
  ASSUME TypeOK, FillsInv, NEW s, NEW side, NEW price, NEW size, NEW stopPct,
         NEW targetPct, OpenPosition(s, side, price, size, stopPct, targetPct)
  PROVE  FillsInv'
<1> DEFINE p == NewPosition(side, price, size, stopPct, targetPct)
<1>1. p.openedAt = fillsOpened + 1
  BY DEF NewPosition
<1> HIDE DEF p
<1>2. /\ s \notin DOMAIN positions
      /\ DOMAIN positions' = DOMAIN positions \cup {s}
      /\ positions'[s] = p
      /\ \A x \in DOMAIN positions : positions'[x] = positions[x]
      /\ fillsOpened' = fillsOpened + 1 /\ fillsOpened \in Nat
      /\ UNCHANGED <<closedTrades, fillsClosed>>
  BY DEF OpenPosition, Put, TypeOK, p
<1>3. IsFiniteSet(DOMAIN positions')
  BY <1>2, FS_AddElement DEF FillsInv
<1>4. \A x \in DOMAIN positions' : positions'[x].openedAt \in 1 .. fillsOpened'
  BY <1>1, <1>2 DEF FillsInv
<1>5. \A i \in DOMAIN closedTrades' : closedTrades'[i].openedAt \in 1 .. fillsOpened'
  BY <1>2 DEF FillsInv
<1>6. \A x, t \in DOMAIN positions' :
        positions'[x].openedAt = positions'[t].openedAt => x = t
  BY <1>1, <1>2 DEF FillsInv
<1>7. \A x \in DOMAIN positions', i \in DOMAIN closedTrades' :
        positions'[x].openedAt # closedTrades'[i].openedAt
  BY <1>1, <1>2 DEF FillsInv
<1>8. ASSUME NEW f \in 1 .. fillsOpened'
      PROVE  \/ \E x \in DOMAIN positions' : positions'[x].openedAt = f
             \/ \E i \in DOMAIN closedTrades' : closedTrades'[i].openedAt = f
  <2>1. CASE f = fillsOpened + 1
    BY <1>1, <1>2, <2>1
  <2>2. CASE f # fillsOpened + 1
    <3>1. f \in 1 .. fillsOpened
      BY <1>2, <2>2
    <3> QED BY <1>2, <3>1 DEF FillsInv
  <2> QED BY <2>1, <2>2
<1>9. /\ fillsClosed' = Len(closedTrades')
      /\ \A i, j \in DOMAIN closedTrades' :
           closedTrades'[i].openedAt = closedTrades'[j].openedAt => i = j
  BY <1>2 DEF FillsInv
<1> QED BY <1>3, <1>4, <1>5, <1>6, <1>7, <1>8, <1>9 DEF FillsInv

\* A one-to-one naming of a finite set has as many names as elements.
LEMMA NamesCount ==
  ASSUME NEW S, IsFiniteSet(S), NEW f, DOMAIN f = S, f = [x \in S |-> f[x]],
         \A x, y \in S : f[x] = f[y] => x = y
  PROVE  Cardinality({f[x] : x \in S}) = Cardinality(S)
<1> DEFINE T == {f[x] : x \in S}
<1>1. f \in Bijection(S, T)
  BY DEF Bijection, Injection, Surjection, IsInjective
<1>2. ExistsBijection(S, T)
  BY <1>1 DEF ExistsBijection
<1> QED BY <1>2, FS_Bijection

\* What the invariant says of the number of fills.
LEMMA FillsCounted == TypeOK /\ FillsInv => FillsAccountedFor
<1> SUFFICES ASSUME TypeOK, FillsInv PROVE FillsAccountedFor
  OBVIOUS
<1> DEFINE open   == {positions[s].openedAt : s \in DOMAIN positions}
           closed == {closedTrades[i].openedAt : i \in DOMAIN closedTrades}
           F == [s \in DOMAIN positions |-> positions[s].openedAt]
           G == [i \in DOMAIN closedTrades |-> closedTrades[i].openedAt]
<1>1. open \cap closed = {}
  BY DEF FillsInv
<1>2. open \cup closed = 1 .. fillsOpened
  BY DEF FillsInv
<1>3. Cardinality(open) = Cardinality(DOMAIN positions)
  <2>1. open = {F[s] : s \in DOMAIN positions}
    OBVIOUS
  <2>2. Cardinality({F[s] : s \in DOMAIN positions}) = Cardinality(DOMAIN positions)
    <3>1. \A s, t \in DOMAIN positions : F[s] = F[t] => s = t
      BY DEF FillsInv
    <3>2. DOMAIN F = DOMAIN positions /\ F = [s \in DOMAIN positions |-> F[s]]
      OBVIOUS
    <3> HIDE DEF F
    <3> QED BY <3>1, <3>2, NamesCount DEF FillsInv
  <2> QED BY <2>1, <2>2
<1>4. Cardinality(closed) = Len(closedTrades)
  <2>1. DOMAIN closedTrades = 1 .. Len(closedTrades) /\ Len(closedTrades) \in Nat
    BY DEF TypeOK
  <2>2. /\ IsFiniteSet(DOMAIN closedTrades)
        /\ Cardinality(DOMAIN closedTrades) = Len(closedTrades)
    <3> DEFINE n == Len(closedTrades)
    <3>1. n \in Int /\ 1 \in Int
      BY <2>1
    <3> HIDE DEF n
    <3>2. /\ IsFiniteSet(1 .. n)
          /\ Cardinality(1 .. n) = IF 1 > n THEN 0 ELSE n - 1 + 1
      BY <3>1, FS_Interval
    <3>3. n \in Nat
      BY <2>1 DEF n
    <3>4. (IF 1 > n THEN 0 ELSE n - 1 + 1) = n
      BY <3>3
    <3> QED BY <2>1, <3>2, <3>4 DEF n
  <2>3. closed = {G[i] : i \in DOMAIN closedTrades}
    OBVIOUS
  <2>4. Cardinality({G[i] : i \in DOMAIN closedTrades}) = Cardinality(DOMAIN closedTrades)
    <3>1. \A i, j \in DOMAIN closedTrades : G[i] = G[j] => i = j
      BY DEF FillsInv
    <3>2. DOMAIN G = DOMAIN closedTrades /\ G = [i \in DOMAIN closedTrades |-> G[i]]
      OBVIOUS
    <3> HIDE DEF G
    <3> QED BY <2>2, <3>1, <3>2, NamesCount
  <2> QED BY <2>2, <2>3, <2>4
<1> QED BY <1>1, <1>2, <1>3, <1>4 DEF FillsAccountedFor, FillsInv

\* Every opening fill is at every moment one open position or one closed trade.
THEOREM FillsBalance == Spec => []FillsAccountedFor
<1> USE BrokerAssumption
<1>1. Init => FillsInv
  BY FS_EmptySet DEF Init, FillsInv
<1>2. TypeOK /\ FillsInv /\ [Next]_brokerVars => FillsInv'
  <2> SUFFICES ASSUME TypeOK, FillsInv, [Next]_brokerVars PROVE FillsInv'
    OBVIOUS
  <2>1. CASE UNCHANGED brokerVars
    BY <2>1 DEF FillsInv, brokerVars
  <2> QED BY <2>1, StepCases, CloseKeepsFills, OpenKeepsFills
<1> QED BY <1>1, <1>2, TypeCorrect, FillsCounted, PTL DEF Spec

---------------------------------------------------------------------------
(* What a step may do                                                      *)

\* A close at a price no better than a level earns no more than the level.
LEMMA NetPnlMonotone ==
  ASSUME BrokerAssumption, NEW p \in Position, p.quantity >= 0,
         NEW price \in Int, NEW level \in Int
  PROVE  /\ (IF p.side = "buy" THEN price <= level ELSE price >= level) =>
              NetPnl(p, price) <= NetPnl(p, level)
         /\ (IF p.side = "buy" THEN price >= level ELSE price <= level) =>
              NetPnl(p, price) >= NetPnl(p, level)
<1>1. \A a, b, q \in Int : q >= 0 /\ a <= b => a * q <= b * q
  OBVIOUS
<1> DEFINE gain(x) == IF p.side = "buy" THEN x - Slippage - p.entry
                                        ELSE p.entry - (x + Slippage)
<1>2. p.quantity \in Int /\ p.entry \in Int /\ p.commission \in Int /\ Slippage \in Int
  BY DEF Position, BrokerAssumption
<1>3. Commission(p.notional) \in Int
  BY DEF Position, Commission, BrokerAssumption
<1>4. gain(price) \in Int /\ gain(level) \in Int
  BY <1>2
<1>5. \A x \in {price, level} :
        NetPnl(p, x) = gain(x) * p.quantity - p.commission - Commission(p.notional)
  BY DEF NetPnl, ExitPrice
<1>6. ASSUME IF p.side = "buy" THEN price <= level ELSE price >= level
      PROVE  NetPnl(p, price) <= NetPnl(p, level)
  <2>1. gain(price) <= gain(level)
    BY <1>2, <1>6
  <2> HIDE DEF gain
  <2>2. gain(price) * p.quantity <= gain(level) * p.quantity
    BY <1>1, <1>2, <1>4, <2>1
  <2> QED BY <1>2, <1>3, <1>4, <1>5, <2>2
<1>7. ASSUME IF p.side = "buy" THEN price >= level ELSE price <= level
      PROVE  NetPnl(p, price) >= NetPnl(p, level)
  <2>1. gain(level) <= gain(price)
    BY <1>2, <1>7
  <2> HIDE DEF gain
  <2>2. gain(level) * p.quantity <= gain(price) * p.quantity
    BY <1>1, <1>2, <1>4, <2>1
  <2> QED BY <1>2, <1>3, <1>4, <1>5, <2>2
<1> QED BY <1>6, <1>7

\* The trade a closing step appends, and the position it takes away.
LEMMA CloseAppends ==
  ASSUME TypeOK, NEW s \in DOMAIN positions, NEW price, NEW reason,
         ClosePosition(s, price, reason)
  PROVE  /\ \A x \in DOMAIN positions : x \notin DOMAIN positions' <=> x = s
         /\ Len(closedTrades') = Len(closedTrades) + 1
         /\ SubSeq(closedTrades', 1, Len(closedTrades)) = closedTrades
         /\ closedTrades'[Len(closedTrades')] = TradeOf(s, price, reason)
<1> DEFINE trade == TradeOf(s, price, reason)
<1>1. closedTrades' = Append(closedTrades, trade)
  BY DEF ClosePosition
<1> HIDE DEF trade
<1>2. closedTrades \in Seq(ClosedTrade)
  BY DEF TypeOK
<1>3. /\ Len(closedTrades') = Len(closedTrades) + 1
      /\ closedTrades'[Len(closedTrades')] = trade
      /\ SubSeq(closedTrades', 1, Len(closedTrades)) = closedTrades
  BY <1>1, <1>2
<1> QED BY <1>3 DEF ClosePosition, trade

\* The history of closed trades is append-only.
THEOREM HistoryAppends == Spec => OneTradePerClose
<1> USE BrokerAssumption
<1> DEFINE A == \/ UNCHANGED closedTrades
                \/ \E s \in DOMAIN positions :
                     /\ s \notin DOMAIN positions'
                     /\ Len(closedTrades') = Len(closedTrades) + 1
                     /\ SubSeq(closedTrades', 1, Len(closedTrades)) = closedTrades
                     /\ closedTrades'[Len(closedTrades')].openedAt = positions[s].openedAt
<1>1. TypeOK /\ [Next]_brokerVars => A
  <2> SUFFICES ASSUME TypeOK, [Next]_brokerVars PROVE A
    OBVIOUS
  <2>1. ASSUME NEW s \in DOMAIN positions, NEW price \in Int, NEW reason \in Reasons,
               ClosePosition(s, price, reason)
        PROVE  A
    <3>1. TradeOf(s, price, reason).openedAt = positions[s].openedAt
      BY DEF TradeOf
    <3> QED BY <2>1, <3>1, CloseAppends
  <2>2. CASE UNCHANGED closedTrades
    BY <2>2
  <2> QED BY <2>1, <2>2, StepCases DEF OpenPosition, brokerVars
<1> QED BY <1>1, TypeCorrect, PTL DEF Spec, OneTradePerClose

\* A stop never reports more than its level, a target never less.
THEOREM ReasonsHonest == Spec => ExitReasonIsHonest
<1> USE BrokerAssumption
<1> DEFINE A ==
      \A s \in DOMAIN positions : s \notin DOMAIN positions' =>
        LET p     == positions[s]
            trade == closedTrades'[Len(closedTrades')]
        IN  p.quantity >= 0 =>
              /\ trade.reason = "stop_loss" => trade.pnl <= NetPnl(p, StopPrice(p))
              /\ trade.reason = "take_profit" => trade.pnl >= NetPnl(p, TargetPrice(p))
<1>1. TypeOK /\ [Next]_brokerVars => A
  <2> SUFFICES ASSUME TypeOK, [Next]_brokerVars PROVE A
    OBVIOUS
  <2>1. ASSUME NEW s \in DOMAIN positions, NEW price \in Int, NEW reason \in Reasons,
               ClosePosition(s, price, reason), Marked(positions[s], price, reason)
        PROVE  A
    <3> DEFINE p == positions[s]
    <3>1. /\ TradeOf(s, price, reason).reason = reason
          /\ TradeOf(s, price, reason).pnl = NetPnl(p, price)
      BY DEF TradeOf
    <3>2. p \in Position /\ StopPrice(p) \in Int /\ TargetPrice(p) \in Int
      BY LevelsTyped DEF TypeOK
    <3>3. p.quantity >= 0 =>
            /\ reason = "stop_loss" => NetPnl(p, price) <= NetPnl(p, StopPrice(p))
            /\ reason = "take_profit" => NetPnl(p, price) >= NetPnl(p, TargetPrice(p))
      <4> HIDE DEF p
      <4>1. Marked(p, price, reason)
        BY <2>1 DEF p
      <4> QED BY <3>2, <4>1, NetPnlMonotone DEF Marked
    <3> QED BY <2>1, <3>1, <3>3, CloseAppends
  <2>2. CASE DOMAIN positions \subseteq DOMAIN positions'
    BY <2>2
  <2> QED BY <2>1, <2>2, StepCases DEF OpenPosition, Put, brokerVars
<1> QED BY <1>1, TypeCorrect, PTL DEF Spec, ExitReasonIsHonest

============================================================================
