------------------------- MODULE PaperSessionProofs -------------------------
(***************************************************************************)
(* Theorems about PaperSession for every set of symbols and prices, every  *)
(* risk policy the configuration accepts, any number of sessions, bars and *)
(* runs.  What the broker and the risk manager do on their own comes from  *)
(* their own proofs.                                                       *)
(***************************************************************************)
EXTENDS PaperSession, FiniteSetTheorems, TLAPS

BP == INSTANCE PaperBrokerProofs WITH
        equity <- brokerEquity, Sizes <- {}, Pcts <- {}, MaxFills <- 0
RP == INSTANCE RiskManagerProofs WITH
        equity <- riskEquity, Pnls <- {}, Sizes <- {}, PnlBound <- 0, TradeBound <- 0

---------------------------------------------------------------------------
(* The broker and the risk manager the loop uses are those of the proofs.  *)

Reasons == {"stop_loss", "take_profit", "signal"}

\* The instances of the libraries are the libraries themselves.
LEMMA SameCardinality ==
  /\ \A S : Cardinality(S) = B!Cardinality(S)
  /\ \A S : Cardinality(S) = BP!Cardinality(S)
  /\ \A S : IsFiniteSet(S) <=> RP!IsFiniteSet(S)
BY DEF Cardinality, B!Cardinality, BP!Cardinality, IsFiniteSet, RP!IsFiniteSet

\* The broker that is proved about is the broker of the session.
LEMMA SameBroker ==
  /\ B!BrokerAssumption <=> BP!BrokerAssumption
  /\ B!TypeOK <=> BP!TypeOK
  /\ B!TypeOK' <=> BP!TypeOK'
  /\ B!Init <=> BP!Init
  /\ B!EquityLedger <=> BP!EquityLedger
  /\ B!FillsAccountedFor <=> BP!FillsAccountedFor
<1>1. B!BrokerAssumption <=> BP!BrokerAssumption
  BY DEF B!BrokerAssumption, BP!BrokerAssumption
<1>2. /\ B!TypeOK <=> BP!TypeOK
      /\ B!TypeOK' <=> BP!TypeOK'
  BY DEF B!TypeOK, BP!TypeOK, B!Position, BP!Position, B!ClosedTrade, BP!ClosedTrade,
         B!Sides, BP!Sides
<1>3. B!Init <=> BP!Init
  BY DEF B!Init, BP!Init
<1>4. B!EquityLedger <=> BP!EquityLedger
  BY DEF B!EquityLedger, BP!EquityLedger, B!RealizedPnl, BP!RealizedPnl
<1>5. B!FillsAccountedFor <=> BP!FillsAccountedFor
  <2> DEFINE open   == {positions[s].openedAt : s \in DOMAIN positions}
             closed == {closedTrades[i].openedAt : i \in DOMAIN closedTrades}
             Balance == /\ open \cap closed = {}
                        /\ open \cup closed = 1 .. fillsOpened
                        /\ Cardinality(open) = Cardinality(DOMAIN positions)
                        /\ Cardinality(closed) = Len(closedTrades)
                        /\ fillsClosed = Len(closedTrades)
  <2>1. B!FillsAccountedFor <=> Balance
    BY SameCardinality DEF B!FillsAccountedFor
  <2>2. BP!FillsAccountedFor <=> Balance
    BY SameCardinality DEF BP!FillsAccountedFor
  <2> QED BY <2>1, <2>2
<1> QED BY <1>1, <1>2, <1>3, <1>4, <1>5

\* What closing a position keeps.
LEMMA BrokerCloses ==
  ASSUME B!TypeOK, NEW s \in DOMAIN positions, NEW price \in Int, NEW reason \in Reasons,
         B!ClosePosition(s, price, reason)
  PROVE  /\ B!TypeOK'
         /\ BP!LedgerInv => BP!LedgerInv'
         /\ BP!FillsInv => BP!FillsInv'
<1>1. BP!TypeOK /\ BP!BrokerAssumption /\ reason \in BP!Reasons
  BY SameBroker, SessionAssumption DEF SessionAssumption, Reasons, BP!Reasons
<1>2. BP!ClosePosition(s, price, reason)
  BY DEF B!ClosePosition, BP!ClosePosition, B!TradeOf, BP!TradeOf, B!NetPnl, BP!NetPnl,
         B!ExitPrice, BP!ExitPrice, B!Commission, BP!Commission
<1>3. BP!TypeOK'
  BY <1>1, <1>2, BP!ClosePositionTyped DEF Reasons
<1>4. BP!LedgerInv => BP!LedgerInv'
  BY <1>1, <1>2, BP!CloseKeepsLedger
<1>5. BP!FillsInv => BP!FillsInv'
  BY <1>1, <1>2, BP!CloseKeepsFills
<1> QED BY <1>3, <1>4, <1>5, SameBroker

\* What opening a position keeps.
LEMMA BrokerOpens ==
  ASSUME B!TypeOK, NEW s \in Symbols, NEW side \in B!Sides, NEW price \in Prices,
         NEW size \in Int, NEW stopPct \in Int, NEW targetPct \in Int,
         B!OpenPosition(s, side, price, size, stopPct, targetPct)
  PROVE  /\ B!TypeOK'
         /\ BP!LedgerInv => BP!LedgerInv'
         /\ BP!FillsInv => BP!FillsInv'
<1>1. BP!TypeOK /\ BP!BrokerAssumption /\ side \in BP!Sides
  BY SameBroker, SessionAssumption DEF SessionAssumption, B!Sides, BP!Sides
<1>2. BP!OpenPosition(s, side, price, size, stopPct, targetPct)
  BY DEF B!OpenPosition, BP!OpenPosition, B!Put, BP!Put, B!NewPosition, BP!NewPosition,
         B!EntryPrice, BP!EntryPrice, B!Commission, BP!Commission
<1>3. BP!TypeOK'
  BY <1>1, <1>2, BP!OpenPositionTyped
<1>4. BP!LedgerInv => BP!LedgerInv'
  BY <1>2 DEF BP!OpenPosition, BP!LedgerInv, BP!SumsUp
<1>5. BP!FillsInv => BP!FillsInv'
  BY <1>1, <1>2, BP!OpenKeepsFills
<1> QED BY <1>3, <1>4, <1>5, SameBroker

\* Nothing registers a position with the risk manager, so its size is a number.
NoneRegistered == DOMAIN openPositions = {}

\* The size the risk manager grants is a number.
LEMMA SizeTyped ==
  ASSUME R!TypeOK, NoneRegistered, NEW stop \in Nat \ {0}
  PROVE  R!Notional(stop) \in Int
<1>1. RP!TypeOK /\ RP!PolicyAssumption
  BY SessionAssumption DEF R!TypeOK, RP!TypeOK, SessionAssumption, R!PolicyAssumption,
     RP!PolicyAssumption
<1>2. RP!Exposure \in Nat
  <2>1. RP!IsFiniteSet(DOMAIN openPositions)
    BY FS_EmptySet, SameCardinality DEF NoneRegistered
  <2> QED BY <1>1, <2>1, RP!ExposureTyped
<1>3. R!Exposure = RP!Exposure
  BY DEF R!Exposure, R!FoldFunction, R!FoldFunctionOnSet, R!MapThenFoldSet,
         RP!Exposure, RP!FoldFunction, RP!FoldFunctionOnSet, RP!MapThenFoldSet
<1>4. /\ riskEquity \in Int /\ MaxRiskPerTradePct \in Int /\ MaxTotalExposurePct \in Int
      /\ MinOrderNotional \in Int /\ MaxOrderNotional \in Int
  BY SessionAssumption DEF SessionAssumption, R!PolicyAssumption, R!TypeOK
<1> DEFINE risked == riskEquity * MaxRiskPerTradePct
           allowed == riskEquity * MaxTotalExposurePct
<1>5. risked \in Int /\ allowed \in Int
  BY <1>4
<1> HIDE DEF risked, allowed
<1>6. risked \div stop \in Int /\ allowed \div 100 - R!Exposure \in Int
  BY <1>2, <1>3, <1>5
<1>7. R!Notional(stop) =
        R!Smaller(R!Larger(MinOrderNotional, R!Smaller(risked \div stop, MaxOrderNotional)),
                  allowed \div 100 - R!Exposure)
  BY DEF R!Notional, risked, allowed
<1> QED BY <1>4, <1>6, <1>7 DEF R!Smaller, R!Larger

---------------------------------------------------------------------------
(* What a step may do to the broker, the intents and the risk manager      *)

\* The decision loop acts on a candidate only with an intent nobody acted on,
\* while the manager approves.
LEMMA ExecutableSane ==
  ASSUME TypeOK, NEW s \in Symbols, Executable(s)
  PROVE  /\ alphas[s].price \in Prices /\ alphas[s].price \in Int
         /\ StopOf(s) \in Nat \ {0}
         /\ SideOf(s) \in B!Sides
         /\ IntentOf(s) \in Intent /\ IntentOf(s) \notin sentCloids
         /\ ~killSwitchActive
<1>1. alphas[s] \in AlphasOn(Nat)
  <2>1. alphas[s] \in AlphasOn(Nat) \cup {NoAlpha}
    BY DEF TypeOK
  <2>2. alphas[s] # NoAlpha
    BY DEF Executable, Adaptable, NoAlpha
  <2> QED BY <2>1, <2>2
<1>2. /\ alphas[s].direction \in Directions /\ alphas[s].price \in Prices \cup {0}
      /\ alphas[s].stopPct \in StopPcts /\ alphas[s].ts \in Nat
      /\ alphas[s].family \in Families
  BY <1>1 DEF AlphasOn
<1>3. Prices \subseteq Nat /\ StopPcts \subseteq Nat \ {0} /\ DefaultStopPct \in Nat \ {0}
  BY SessionAssumption DEF SessionAssumption, B!BrokerAssumption, R!PolicyAssumption
<1>4. alphas[s].price > 0
  BY DEF Executable, Adaptable
<1>5. ~killSwitchActive
  BY DEF Executable, RiskApproves, R!Approves, R!Blocked, R!KillSwitchGate
<1>6. IntentOf(s) \notin sentCloids
  BY DEF Executable, IsDuplicate
<1>7. IntentOf(s) \in Intent
  BY <1>2 DEF IntentOf, Intent
<1>8. alphas[s].price \in Prices /\ alphas[s].price \in Int
  <2>1. alphas[s].price # 0
    BY <1>4
  <2>2. alphas[s].price \in Prices
    BY <1>2, <2>1, Zenon
  <2>3. alphas[s].price \in Nat
    BY <1>3, <2>2, Zenon
  <2> QED BY <2>2, <2>3
<1>9. StopOf(s) \in Nat \ {0} /\ SideOf(s) \in B!Sides
  BY <1>2, <1>3 DEF StopOf, SideOf, B!Sides
<1> QED BY <1>5, <1>6, <1>7, <1>8, <1>9

\* The three ways a step trades: a signal reverses a position, a signal opens
\* one, a stop or a target closes one.
Flips(s) ==
  /\ Executable(s) /\ Register(s) /\ UNCHANGED riskVars
  /\ s \in DOMAIN positions /\ positions[s].side # SideOf(s)
  /\ B!ClosePosition(s, alphas[s].price, "signal")
Opens(s) ==
  /\ Executable(s) /\ Register(s) /\ UNCHANGED riskVars
  /\ B!OpenPosition(s, SideOf(s), alphas[s].price, R!Notional(StopOf(s)),
                    StopOf(s), DefaultTakeProfitPct)
Leaves(s, reason) ==
  /\ phase = "reconcile" /\ s \in DOMAIN positions /\ snap[s] # Absent
  /\ B!ClosePosition(s, snap[s], reason)
  /\ UNCHANGED <<riskVars, intentVars>>

\* All a step may do to the broker and the intents: nothing, a flip, an opening
\* or an exit.
LEMMA TradingCases ==
  ASSUME [Next]_vars
  PROVE  \/ UNCHANGED <<brokerVars, intentVars>>
         \/ \E s \in Symbols : Flips(s) \/ Opens(s)
         \/ \E s \in Symbols, reason \in {"stop_loss", "take_profit"} : Leaves(s, reason)
<1> DEFINE Still == UNCHANGED <<brokerVars, intentVars>>
           Acts == \E s \in Symbols : Flips(s) \/ Opens(s)
           Exits == \E s \in Symbols, reason \in {"stop_loss", "take_profit"} :
                      Leaves(s, reason)
<1>1. ASSUME UNCHANGED vars
      PROVE  Still
  BY <1>1 DEF vars
<1>2. ASSUME NEW s \in Symbols, FlipCloses(s)
      PROVE  Acts
  <2>1. Flips(s)
    BY <1>2 DEF FlipCloses, Flips, B!CloseOpposite
  <2> QED BY <2>1
<1>3. ASSUME NEW s \in Symbols, OrderOpens(s)
      PROVE  Acts
  <2>1. Opens(s)
    BY <1>3 DEF OrderOpens, Opens
  <2> QED BY <2>1
<1>4. ASSUME NEW s \in Symbols, ReconcilePosition(s)
      PROVE  Still \/ Exits
  <2>1. \/ UNCHANGED brokerVars
        \/ /\ s \in DOMAIN positions /\ snap[s] # Absent
           /\ \/ B!ClosePosition(s, snap[s], "stop_loss")
              \/ B!ClosePosition(s, snap[s], "take_profit")
    BY <1>4 DEF ReconcilePosition, B!CheckPosition, brokerVars, B!brokerVars
  <2>2. UNCHANGED <<riskVars, intentVars>> /\ phase = "reconcile"
    BY <1>4 DEF ReconcilePosition
  <2> QED BY <2>1, <2>2 DEF Leaves
<1>5. ASSUME NEW s \in Symbols, DropCandidate(s)
      PROVE  Still
  BY <1>5 DEF DropCandidate
<1>6. ASSUME StopAtGate \/ BeginSession \/ Wake \/ ScanCompletes \/ HistoryRead
      PROVE  Still
  BY <1>6 DEF StopAtGate, BeginSession, Wake, ScanCompletes, HistoryRead
<1>7. ASSUME BeginReconcile \/ BeginRecord \/ RecordTrade \/ EndSession \/ SessionRaises
      PROVE  Still
  BY <1>7 DEF BeginReconcile, BeginRecord, RecordTrade, EndSession, SessionRaises
<1>8. ASSUME Environment
      PROVE  Still
  BY <1>8 DEF Environment, Run, ActivateKillSwitch, ChangeSettings, NewBar, Cancel
<1> HIDE DEF Still, Acts, Exits
<1>9. Still \/ Acts \/ Exits
  BY <1>1, <1>2, <1>3, <1>4, <1>5, <1>6, <1>7, <1>8 DEF Next, Loop
<1> QED BY <1>9 DEF Still, Acts, Exits

\* No step breaks the broker's types, its ledger or its fills.
LEMMA BrokerStep ==
  ASSUME TypeOK, NoneRegistered, [Next]_vars
  PROVE  /\ B!TypeOK'
         /\ BP!LedgerInv => BP!LedgerInv'
         /\ BP!FillsInv => BP!FillsInv'
<1>1. CASE UNCHANGED brokerVars
  BY <1>1 DEF brokerVars, TypeOK, B!TypeOK, BP!LedgerInv, BP!SumsUp, BP!FillsInv
<1>2. ASSUME NEW s \in Symbols, Flips(s)
      PROVE  /\ B!TypeOK'
             /\ BP!LedgerInv => BP!LedgerInv'
             /\ BP!FillsInv => BP!FillsInv'
  <2>1. alphas[s].price \in Int /\ s \in DOMAIN positions
    BY <1>2, ExecutableSane DEF Flips
  <2> QED BY <1>2, <2>1, BrokerCloses DEF Flips, Reasons, TypeOK
<1>3. ASSUME NEW s \in Symbols, Opens(s)
      PROVE  /\ B!TypeOK'
             /\ BP!LedgerInv => BP!LedgerInv'
             /\ BP!FillsInv => BP!FillsInv'
  <2>1. /\ alphas[s].price \in Prices /\ SideOf(s) \in B!Sides
        /\ StopOf(s) \in Nat \ {0}
    BY <1>3, ExecutableSane DEF Opens
  <2>2. R!Notional(StopOf(s)) \in Int
    BY <2>1, SizeTyped DEF TypeOK
  <2>3. StopOf(s) \in Int /\ DefaultTakeProfitPct \in Int
    BY <2>1, SessionAssumption DEF SessionAssumption
  <2> QED BY <1>3, <2>1, <2>2, <2>3, BrokerOpens DEF Opens, TypeOK
<1>4. ASSUME NEW s \in Symbols, NEW reason \in {"stop_loss", "take_profit"},
             Leaves(s, reason)
      PROVE  /\ B!TypeOK'
             /\ BP!LedgerInv => BP!LedgerInv'
             /\ BP!FillsInv => BP!FillsInv'
  <2>1. snap[s] \in Prices \cup {Inactive, Absent}
    BY DEF TypeOK
  <2>2. Prices \subseteq Int /\ Inactive \in Int /\ Absent \in Int
    BY SessionAssumption DEF SessionAssumption, B!BrokerAssumption, Inactive, Absent
  <2>3. snap[s] \in Int
    BY <2>1, <2>2
  <2> QED BY <1>4, <2>3, BrokerCloses DEF Leaves, Reasons, TypeOK
<1> QED BY <1>1, <1>2, <1>3, <1>4, TradingCases

\* What a step does to the risk manager: it takes over the broker's equity,
\* hears of a trade, or is killed.
LEMMA RiskCases ==
  ASSUME [Next]_vars
  PROVE  \/ UNCHANGED riskVars
         \/ ScanCompletes
         \/ RecordTrade
         \/ R!ActivateKillSwitch
<1>1. CASE UNCHANGED vars
  BY <1>1 DEF vars
<1>2. ASSUME NEW s \in Symbols,
             DropCandidate(s) \/ FlipCloses(s) \/ OrderOpens(s) \/ ReconcilePosition(s)
      PROVE  UNCHANGED riskVars
  BY <1>2 DEF DropCandidate, FlipCloses, OrderOpens, ReconcilePosition
<1>3. ASSUME \/ StopAtGate \/ BeginSession \/ Wake \/ HistoryRead
             \/ BeginReconcile \/ BeginRecord \/ EndSession \/ SessionRaises
      PROVE  UNCHANGED riskVars
  BY <1>3 DEF StopAtGate, BeginSession, Wake, HistoryRead, BeginReconcile, BeginRecord,
              EndSession, SessionRaises
<1>4. ASSUME Run \/ ChangeSettings \/ NewBar \/ Cancel
      PROVE  UNCHANGED riskVars
  BY <1>4 DEF Run, ChangeSettings, NewBar, Cancel
<1>5. ASSUME ActivateKillSwitch
      PROVE  R!ActivateKillSwitch
  BY <1>5 DEF ActivateKillSwitch
<1> QED BY <1>1, <1>2, <1>3, <1>4, <1>5 DEF Next, Loop, Environment

\* The risk manager keeps its types, and the session feeds it no position.
LEMMA RiskStep ==
  ASSUME TypeOK, NoneRegistered, [Next]_vars
  PROVE  R!TypeOK' /\ NoneRegistered'
<1>1. CASE UNCHANGED riskVars
  BY <1>1 DEF riskVars, TypeOK, R!TypeOK, NoneRegistered
<1>2. CASE ScanCompletes
  <2>1. riskEquity' \in Int /\ peakEquity' \in Int
    BY <1>2 DEF ScanCompletes, SyncRiskEquity, TypeOK, R!TypeOK, B!TypeOK, R!Larger
  <2> QED BY <1>2, <2>1 DEF ScanCompletes, TypeOK, R!TypeOK, NoneRegistered
<1>5. nextRecord \in Nat /\ nextRecord # 0
  BY DEF TypeOK
<1>3. CASE RecordTrade
  <2> DEFINE pnl == closedTrades[nextRecord].pnl
  <2>1. R!RecordTradeResult(pnl)
    BY <1>3 DEF RecordTrade
  <2>2. pnl \in Int
    <3>1. closedTrades \in Seq(B!ClosedTrade)
      BY DEF TypeOK, B!TypeOK
    <3>2. closedTrades[nextRecord] \in B!ClosedTrade
      <4>1. nextRecord \in 1 .. Len(closedTrades)
        BY <1>3, <1>5 DEF RecordTrade
      <4> QED BY <3>1, <4>1
    <3> QED BY <3>2 DEF B!ClosedTrade
  <2> HIDE DEF pnl
  <2>3. /\ riskEquity' \in Int /\ dailyPnl' \in Int /\ weeklyPnl' \in Int
        /\ peakEquity' \in Int /\ tradesToday' \in Nat /\ consecutiveLosses' \in Nat
    <3>1. R!TypeOK
      BY DEF TypeOK
    <3> QED BY <2>1, <2>2, <3>1 DEF R!RecordTradeResult, R!Larger, R!LossStreak, R!TypeOK
  <2> QED BY <2>1, <2>3 DEF R!RecordTradeResult, TypeOK, R!TypeOK, NoneRegistered
<1>4. CASE R!ActivateKillSwitch
  BY <1>4 DEF R!ActivateKillSwitch, TypeOK, R!TypeOK, NoneRegistered
<1> QED BY <1>1, <1>2, <1>3, <1>4, RiskCases

\* No step breaks the types of what the loop itself keeps.
LEMMA LoopStep ==
  ASSUME TypeOK, [Next]_vars
  PROVE  /\ phase' \in Phases /\ gateOpen' \in BOOLEAN
         /\ runs' \in Nat /\ sessions' \in Nat /\ bar' \in Nat /\ sessionBar' \in Nat
         /\ nextRecord' \in Nat \ {0}
         /\ snap' \in [Symbols -> Prices \cup {Inactive, Absent}]
         /\ alphas' \in [Symbols -> AlphasOn(Nat) \cup {NoAlpha}]
         /\ candidates' \subseteq Symbols /\ toCheck' \subseteq Symbols
<1> DEFINE Typed ==
      /\ phase \in Phases /\ gateOpen \in BOOLEAN
      /\ runs \in Nat /\ sessions \in Nat /\ bar \in Nat /\ sessionBar \in Nat
      /\ nextRecord \in Nat \ {0}
      /\ snap \in [Symbols -> Prices \cup {Inactive, Absent}]
      /\ alphas \in [Symbols -> AlphasOn(Nat) \cup {NoAlpha}]
      /\ candidates \subseteq Symbols /\ toCheck \subseteq Symbols
<1>1. Typed
  BY DEF TypeOK
<1>2. DOMAIN positions \subseteq Symbols
  BY DEF TypeOK, B!TypeOK
<1>3. NoSnapshots \in [Symbols -> Prices \cup {Inactive, Absent}]
      /\ NoAlphas \in [Symbols -> AlphasOn(Nat) \cup {NoAlpha}]
  BY DEF NoSnapshots, NoAlphas
<1>4. CASE UNCHANGED vars
  BY <1>1, <1>4 DEF vars, sessionVars
<1>5. CASE Run \/ StopAtGate \/ Wake \/ NewBar
  BY <1>1, <1>5 DEF Run, StopAtGate, Wake, NewBar, sessionVars, Phases, Awaits
<1>13. CASE ActivateKillSwitch \/ ChangeSettings
  BY <1>1, <1>13 DEF ActivateKillSwitch, ChangeSettings, sessionVars
<1>6. CASE BeginSession \/ ScanCompletes
  BY <1>1, <1>6 DEF BeginSession, ScanCompletes, Phases, Awaits
<1>7. CASE HistoryRead
  <2>1. PICK generated \in Generations :
          /\ alphas' = generated
          /\ candidates' \in Portfolios({s \in Symbols : generated[s] # NoAlpha})
    BY <1>7 DEF HistoryRead
  <2>2. candidates' \subseteq Symbols
    BY <2>1 DEF Portfolios
  <2>3. AlphasOn(1 .. sessionBar) \subseteq AlphasOn(Nat)
    BY <1>1 DEF AlphasOn
  <2>4. alphas' \in [Symbols -> AlphasOn(Nat) \cup {NoAlpha}]
    <3>1. generated \in [Symbols -> AlphasOn(1 .. sessionBar) \cup {NoAlpha}]
      BY DEF Generations
    <3> QED BY <2>1, <2>3, <3>1
  <2> QED BY <1>1, <1>7, <2>2, <2>4 DEF HistoryRead, Phases
<1>8. ASSUME NEW s \in Symbols,
             DropCandidate(s) \/ FlipCloses(s) \/ OrderOpens(s) \/ ReconcilePosition(s)
      PROVE  Typed'
  BY <1>1, <1>8 DEF DropCandidate, FlipCloses, OrderOpens, ReconcilePosition
<1>9. CASE BeginReconcile
  BY <1>1, <1>2, <1>3, <1>9 DEF BeginReconcile, Phases
<1>10. CASE BeginRecord
  BY <1>1, <1>10 DEF BeginRecord, Phases
<1>11. CASE RecordTrade
  BY <1>1, <1>11 DEF RecordTrade
<1>12. CASE EndSession \/ SessionRaises \/ Cancel
  BY <1>1, <1>3, <1>12 DEF EndSession, SessionRaises, Cancel, ForgetLocals, Phases, Awaits
<1> QED BY <1>4, <1>5, <1>6, <1>7, <1>8, <1>9, <1>10, <1>11, <1>12, <1>13
        DEF Next, Loop, Environment

\* The intents acted on are intents.
LEMMA IntentStep ==
  ASSUME TypeOK, [Next]_vars
  PROVE  sentCloids' \subseteq Intent /\ executions' \in Seq(Intent)
<1>1. CASE UNCHANGED intentVars
  BY <1>1 DEF intentVars, TypeOK
<1>2. ASSUME NEW s \in Symbols, Flips(s) \/ Opens(s)
      PROVE  sentCloids' \subseteq Intent /\ executions' \in Seq(Intent)
  <2>1. IntentOf(s) \in Intent
    BY <1>2, ExecutableSane DEF Flips, Opens
  <2>2. sentCloids' = sentCloids \cup {IntentOf(s)}
        /\ executions' = Append(executions, IntentOf(s))
    BY <1>2 DEF Flips, Opens, Register
  <2>3. sentCloids \subseteq Intent /\ executions \in Seq(Intent)
    BY DEF TypeOK
  <2> HIDE DEF Intent
  <2> QED BY <2>1, <2>2, <2>3
<1> QED BY <1>1, <1>2, TradingCases DEF Leaves

\* The loop, the broker and the manager it drives keep their types.
THEOREM TypeCorrect == Spec => [](TypeOK /\ NoneRegistered)
<1>1. Init => TypeOK /\ NoneRegistered
  <2> SUFFICES ASSUME Init PROVE TypeOK /\ NoneRegistered
    OBVIOUS
  <2>1. B!TypeOK
    BY SessionAssumption DEF SessionAssumption, Init, B!Init, B!TypeOK, B!BrokerAssumption
  <2>2. R!TypeOK /\ NoneRegistered
    <3>1. riskEquity \in Int /\ peakEquity \in Int
      BY SessionAssumption DEF SessionAssumption, Init, R!Init, R!Larger, R!PolicyAssumption
    <3>2. openPositions = [s \in {} |-> 0] /\ killSwitchActive = FALSE
      BY DEF Init, R!Init
    <3>3. /\ dailyPnl \in Int /\ weeklyPnl \in Int
          /\ tradesToday \in Nat /\ consecutiveLosses \in Nat
      BY DEF Init, R!Init
    <3> QED BY <3>1, <3>2, <3>3 DEF R!TypeOK, NoneRegistered
  <2>3. /\ phase \in Phases /\ gateOpen \in BOOLEAN
        /\ runs \in Nat /\ sessions \in Nat /\ bar \in Nat /\ sessionBar \in Nat
        /\ nextRecord \in Nat \ {0}
        /\ candidates \subseteq Symbols /\ toCheck \subseteq Symbols
        /\ sentCloids \subseteq Intent /\ executions \in Seq(Intent)
    BY DEF Init, Phases
  <2>4. /\ snap \in [Symbols -> Prices \cup {Inactive, Absent}]
        /\ alphas \in [Symbols -> AlphasOn(Nat) \cup {NoAlpha}]
    BY DEF Init, NoSnapshots, NoAlphas
  <2> QED BY <2>1, <2>2, <2>3, <2>4 DEF TypeOK
<1>2. TypeOK /\ NoneRegistered /\ [Next]_vars => (TypeOK /\ NoneRegistered)'
  <2> SUFFICES ASSUME TypeOK, NoneRegistered, [Next]_vars
               PROVE  (TypeOK /\ NoneRegistered)'
    OBVIOUS
  <2> QED BY BrokerStep, RiskStep, LoopStep, IntentStep DEF TypeOK
<1> QED BY <1>1, <1>2, PTL DEF Spec

---------------------------------------------------------------------------
(* The broker's books                                                      *)

\* The broker's own inductive invariants hold of the broker the loop drives,
\* so its ledger balances and each fill is one position or one trade.
THEOREM BooksBalance == Spec => []BrokerBooks
<1> DEFINE Inv == BP!LedgerInv /\ BP!FillsInv
<1>1. Init => Inv
  <2> SUFFICES ASSUME Init PROVE Inv
    OBVIOUS
  <2>1. BP!Init /\ BP!BrokerAssumption
    BY SameBroker, SessionAssumption DEF Init, SessionAssumption
  <2>2. BP!LedgerInv
    BY <2>1, BP!InitLedger
  <2>3. /\ positions = [s \in {} |-> {}] /\ closedTrades = <<>>
        /\ fillsOpened = 0 /\ fillsClosed = 0
    BY <2>1 DEF BP!Init
  <2>4. BP!IsFiniteSet(DOMAIN positions)
    BY <2>3, FS_EmptySet DEF IsFiniteSet, BP!IsFiniteSet
  <2>5. BP!FillsInv
    BY <2>3, <2>4 DEF BP!FillsInv
  <2> QED BY <2>2, <2>5
<1>2. TypeOK /\ NoneRegistered /\ Inv /\ [Next]_vars => Inv'
  BY BrokerStep
<1>3. TypeOK /\ Inv => BrokerBooks
  <2> SUFFICES ASSUME TypeOK, Inv PROVE BrokerBooks
    OBVIOUS
  <2>1. BP!TypeOK /\ BP!BrokerAssumption
    BY SameBroker, SessionAssumption DEF SessionAssumption, TypeOK
  <2>2. BP!EquityLedger
    BY <2>1, BP!LedgerGives
  <2>3. BP!FillsAccountedFor
    BY <2>1, BP!FillsCounted
  <2> QED BY <2>2, <2>3, SameBroker DEF BrokerBooks
<1> HIDE DEF Inv
<1> QED BY <1>1, <1>2, <1>3, TypeCorrect, PTL DEF Spec

---------------------------------------------------------------------------
(* The intents                                                             *)

Signals(trades) == {i \in DOMAIN trades : trades[i].reason = "signal"}

\* The trades a signal closed, counted as the list grows.
LEMMA SignalsAppend ==
  ASSUME NEW trades \in Seq(B!ClosedTrade), NEW trade
  PROVE  /\ Cardinality(Signals(trades)) \in Nat
         /\ trade.reason = "signal" =>
              Cardinality(Signals(Append(trades, trade))) = Cardinality(Signals(trades)) + 1
         /\ trade.reason # "signal" =>
              Cardinality(Signals(Append(trades, trade))) = Cardinality(Signals(trades))
<1> DEFINE n == Len(trades)
           more == Append(trades, trade)
<1>1. /\ n \in Nat /\ DOMAIN trades = 1 .. n
      /\ DOMAIN more = 1 .. n + 1 /\ more[n + 1] = trade
      /\ \A i \in 1 .. n : more[i] = trades[i]
  OBVIOUS
<1> HIDE DEF more, n
<1>2. IsFiniteSet(Signals(trades)) /\ Cardinality(Signals(trades)) \in Nat
  <2>1. IsFiniteSet(1 .. n)
    <3>1. n \in Int /\ 1 \in Int
      BY <1>1
    <3> QED BY <3>1, FS_Interval
  <2>2. Signals(trades) \subseteq 1 .. n
    BY <1>1 DEF Signals
  <2> QED BY <2>1, <2>2, FS_Subset, FS_CardinalityType
<1>3. ASSUME trade.reason = "signal"
      PROVE  Cardinality(Signals(more)) = Cardinality(Signals(trades)) + 1
  <2>1. Signals(more) = Signals(trades) \cup {n + 1} /\ n + 1 \notin Signals(trades)
    BY <1>1, <1>3 DEF Signals
  <2> QED BY <1>2, <2>1, FS_AddElement
<1>4. ASSUME trade.reason # "signal"
      PROVE  Signals(more) = Signals(trades)
  BY <1>1, <1>4 DEF Signals
<1> QED BY <1>2, <1>3, <1>4 DEF more

\* The registered intents are those acted on, no intent twice, and each act is
\* a fill or a close by the signal.
IntentsInv ==
  /\ sentCloids = {executions[i] : i \in DOMAIN executions}
  /\ \A i, j \in DOMAIN executions : executions[i] = executions[j] => i = j
  /\ Len(executions) = fillsOpened + Cardinality(Signals(closedTrades))

\* A registered intent is new and is recorded once.
LEMMA RegisterKeepsIntents ==
  ASSUME TypeOK, NEW s \in Symbols, Executable(s), Register(s), IntentsInv
  PROVE  /\ sentCloids' = {executions'[i] : i \in DOMAIN executions'}
         /\ \A i, j \in DOMAIN executions' : executions'[i] = executions'[j] => i = j
         /\ Len(executions') = Len(executions) + 1
<1> DEFINE n == Len(executions)
           intent == IntentOf(s)
<1>1. intent \notin sentCloids
  BY ExecutableSane
<1> HIDE DEF intent
<1>2. executions \in Seq(Intent)
  BY DEF TypeOK
<1>3. sentCloids' = sentCloids \cup {intent} /\ executions' = Append(executions, intent)
  BY DEF Register, intent
<1>4. /\ n \in Nat /\ DOMAIN executions = 1 .. n
      /\ Len(executions') = n + 1
      /\ DOMAIN executions' = 1 .. n + 1 /\ executions'[n + 1] = intent
      /\ \A i \in 1 .. n : executions'[i] = executions[i]
  BY <1>2, <1>3
<1> HIDE DEF n
<1>5. sentCloids = {executions[i] : i \in 1 .. n}
  BY <1>4 DEF IntentsInv
<1>6. sentCloids' = {executions'[i] : i \in 1 .. n + 1}
  BY <1>3, <1>4, <1>5
<1>7. ASSUME NEW i \in 1 .. n + 1, NEW j \in 1 .. n + 1, executions'[i] = executions'[j]
      PROVE  i = j
  <2>1. CASE i \in 1 .. n /\ j \in 1 .. n
    BY <1>4, <1>7, <2>1 DEF IntentsInv
  <2>2. CASE i = n + 1 \/ j = n + 1
    BY <1>1, <1>4, <1>5, <1>7, <2>2
  <2> QED BY <1>4, <2>1, <2>2
<1> QED BY <1>4, <1>6, <1>7 DEF n

\* An intent is acted on at most once, over any number of sessions.
THEOREM ActedOnce == Spec => []IntentsOnce
<1>1. Init => IntentsInv
  <2> SUFFICES ASSUME Init PROVE IntentsInv
    OBVIOUS
  <2>1. sentCloids = {} /\ executions = <<>> /\ closedTrades = <<>> /\ fillsOpened = 0
    BY DEF Init, B!Init
  <2>2. Cardinality(Signals(closedTrades)) = 0
    BY <2>1, FS_EmptySet DEF Signals
  <2> QED BY <2>1, <2>2 DEF IntentsInv
<1>2. TypeOK /\ IntentsInv /\ [Next]_vars => IntentsInv'
  <2> SUFFICES ASSUME TypeOK, IntentsInv, [Next]_vars PROVE IntentsInv'
    OBVIOUS
  <2>0. closedTrades \in Seq(B!ClosedTrade) /\ fillsOpened \in Nat
    BY DEF TypeOK, B!TypeOK
  <2>1. CASE UNCHANGED <<brokerVars, intentVars>>
    BY <2>1 DEF IntentsInv, Signals, brokerVars, intentVars
  <2>2. ASSUME NEW s \in Symbols, Flips(s)
        PROVE  IntentsInv'
    <3> DEFINE trade == B!TradeOf(s, alphas[s].price, "signal")
    <3>1. trade.reason = "signal"
      BY DEF B!TradeOf
    <3> HIDE DEF trade
    <3>2. closedTrades' = Append(closedTrades, trade) /\ fillsOpened' = fillsOpened
      BY <2>2 DEF Flips, B!ClosePosition, trade
    <3>3. Cardinality(Signals(closedTrades')) = Cardinality(Signals(closedTrades)) + 1
          /\ Cardinality(Signals(closedTrades)) \in Nat
      BY <2>0, <3>1, <3>2, SignalsAppend
    <3>4. Len(executions') = fillsOpened' + Cardinality(Signals(closedTrades'))
      <4>1. Len(executions') = Len(executions) + 1
        BY <2>2, RegisterKeepsIntents DEF Flips
      <4> QED BY <2>0, <3>2, <3>3, <4>1 DEF IntentsInv
    <3> QED BY <2>2, <3>4, RegisterKeepsIntents DEF Flips, IntentsInv, Signals
  <2>3. ASSUME NEW s \in Symbols, Opens(s)
        PROVE  IntentsInv'
    <3>1. closedTrades' = closedTrades /\ fillsOpened' = fillsOpened + 1
      BY <2>3 DEF Opens, B!OpenPosition
    <3>2. Cardinality(Signals(closedTrades)) \in Nat
      BY <2>0, SignalsAppend
    <3>3. Len(executions') = fillsOpened' + Cardinality(Signals(closedTrades'))
      <4>1. Len(executions') = Len(executions) + 1
        BY <2>3, RegisterKeepsIntents DEF Opens
      <4> QED BY <2>0, <3>1, <3>2, <4>1 DEF IntentsInv
    <3> QED BY <2>3, <3>3, RegisterKeepsIntents DEF Opens, IntentsInv, Signals
  <2>4. ASSUME NEW s \in Symbols, NEW reason \in {"stop_loss", "take_profit"},
               Leaves(s, reason)
        PROVE  IntentsInv'
    <3> DEFINE trade == B!TradeOf(s, snap[s], reason)
    <3>1. trade.reason # "signal"
      BY DEF B!TradeOf
    <3> HIDE DEF trade
    <3>2. /\ closedTrades' = Append(closedTrades, trade) /\ fillsOpened' = fillsOpened
          /\ UNCHANGED <<sentCloids, executions>>
      BY <2>4 DEF Leaves, B!ClosePosition, trade, intentVars
    <3>3. Cardinality(Signals(closedTrades')) = Cardinality(Signals(closedTrades))
      BY <2>0, <3>1, <3>2, SignalsAppend
    <3> QED BY <3>2, <3>3 DEF IntentsInv, Signals
  <2> QED BY <2>1, <2>2, <2>3, <2>4, TradingCases
<1>3. IntentsInv => IntentsOnce
  BY DEF IntentsInv, IntentsOnce, Signals
<1> QED BY <1>1, <1>2, <1>3, TypeCorrect, PTL DEF Spec

\* Once the kill switch is on only stops and targets still trade.
THEOREM KilledStaysOut == Spec => KilledActsOnNothing
<1> DEFINE A == killSwitchActive =>
                  /\ UNCHANGED <<executions, fillsOpened>>
                  /\ \A s \in DOMAIN positions : s \in DOMAIN positions' \/ snap[s] # Absent
<1>1. TypeOK /\ [Next]_vars => A
  <2> SUFFICES ASSUME TypeOK, [Next]_vars, killSwitchActive
               PROVE  /\ UNCHANGED <<executions, fillsOpened>>
                      /\ \A s \in DOMAIN positions :
                           s \in DOMAIN positions' \/ snap[s] # Absent
    OBVIOUS
  <2>1. CASE UNCHANGED <<brokerVars, intentVars>>
    BY <2>1 DEF brokerVars, intentVars
  <2>2. ASSUME NEW s \in Symbols, Flips(s) \/ Opens(s)
        PROVE  FALSE
    BY <2>2, ExecutableSane DEF Flips, Opens
  <2>3. ASSUME NEW s \in Symbols, NEW reason \in {"stop_loss", "take_profit"},
               Leaves(s, reason)
        PROVE  /\ UNCHANGED <<executions, fillsOpened>>
               /\ snap[s] # Absent
               /\ DOMAIN positions' = DOMAIN positions \ {s}
    BY <2>3 DEF Leaves, B!ClosePosition, intentVars
  <2> QED BY <2>1, <2>2, <2>3, TradingCases
<1> QED BY <1>1, TypeCorrect, PTL DEF Spec, KilledActsOnNothing

---------------------------------------------------------------------------
(* Stops and targets                                                       *)

\* The session's own price of s neither stops its position nor pays it out.
Kept(s) ==
  snap[s] \in Prices =>
    /\ ~B!StopHit(positions[s], snap[s], snap[s])
    /\ ~B!TargetHit(positions[s], snap[s], snap[s])

\* While it reconciles, the session has settled what it no longer has to check.
StopsInv ==
  /\ phase = "reconcile" => \A s \in DOMAIN positions \ toCheck : Kept(s)
  /\ phase = "record" => \A s \in DOMAIN positions : Kept(s)

\* No session reports with a position its own prices had stopped or paid out.
THEOREM StopsKept == Spec => []StopsHonoured
<1>1. Init => StopsInv
  BY DEF Init, StopsInv
<1>2. TypeOK /\ StopsInv /\ [Next]_vars => StopsInv'
  <2> SUFFICES ASSUME TypeOK, StopsInv, [Next]_vars PROVE StopsInv'
    OBVIOUS
  <2>1. CASE UNCHANGED <<brokerVars, phase, snap, toCheck>>
    BY <2>1 DEF StopsInv, Kept, B!StopHit, B!TargetHit, B!StopPrice, B!TargetPrice,
                brokerVars
  <2>2. CASE phase' \notin {"reconcile", "record"}
    BY <2>2 DEF StopsInv
  <2>3. CASE BeginReconcile
    BY <2>3 DEF BeginReconcile, StopsInv, brokerVars
  <2>4. ASSUME NEW s \in Symbols, ReconcilePosition(s)
        PROVE  StopsInv'
    <3>1. phase = "reconcile" /\ phase' = "reconcile" /\ toCheck' = toCheck \ {s}
          /\ snap' = snap
      BY <2>4 DEF ReconcilePosition
    <3>2. ASSUME NEW x \in DOMAIN positions' \ toCheck', x # s
          PROVE  Kept(x)'
      <4>1. x \in DOMAIN positions /\ positions'[x] = positions[x]
        BY <2>4, <3>2 DEF ReconcilePosition, B!CheckPosition, B!ClosePosition, brokerVars,
                          B!brokerVars
      <4>2. Kept(x)
        BY <3>1, <3>2, <4>1 DEF StopsInv
      <4> QED BY <3>1, <4>1, <4>2
              DEF Kept, B!StopHit, B!TargetHit, B!StopPrice, B!TargetPrice
    <3>3. ASSUME s \in DOMAIN positions'
          PROVE  Kept(s)'
      <4>1. CASE snap[s] = Absent
        <5>1. Absent \notin Prices
          BY SessionAssumption DEF SessionAssumption, B!BrokerAssumption, Absent
        <5> QED BY <3>1, <4>1, <5>1 DEF Kept
      <4>2. CASE snap[s] # Absent
        <5>1. B!CheckPosition(s, snap[s])
          BY <2>4, <4>2 DEF ReconcilePosition
        <5>2. ~B!ClosePosition(s, snap[s], "stop_loss")
              /\ ~B!ClosePosition(s, snap[s], "take_profit")
          BY <3>3 DEF B!ClosePosition
        <5>3. /\ positions' = positions
              /\ ~B!StopHit(positions[s], snap[s], snap[s])
              /\ ~B!TargetHit(positions[s], snap[s], snap[s])
          BY <5>1, <5>2 DEF B!CheckPosition, B!brokerVars
        <5> QED BY <3>1, <5>3
                DEF Kept, B!StopHit, B!TargetHit, B!StopPrice, B!TargetPrice
      <4> QED BY <4>1, <4>2
    <3>4. \A x \in DOMAIN positions' \ toCheck' : Kept(x)'
      BY <3>2, <3>3
    <3> QED BY <3>1, <3>4 DEF StopsInv
  <2>5. CASE BeginRecord
    <3>1. /\ phase = "reconcile" /\ phase' = "record" /\ toCheck = {}
          /\ UNCHANGED <<positions, snap>>
      BY <2>5 DEF BeginRecord, brokerVars
    <3>2. \A s \in DOMAIN positions : Kept(s)
      BY <3>1 DEF StopsInv
    <3> QED BY <3>1, <3>2
            DEF StopsInv, Kept, B!StopHit, B!TargetHit, B!StopPrice, B!TargetPrice
  <2>6. CASE RecordTrade
    BY <2>1, <2>6 DEF RecordTrade
  <2>7. ASSUME NEW s \in Symbols, DropCandidate(s) \/ FlipCloses(s) \/ OrderOpens(s)
        PROVE  StopsInv'
    <3>1. phase' \notin {"reconcile", "record"}
      BY <2>7 DEF DropCandidate, FlipCloses, OrderOpens, Executable, NextCandidate
    <3> QED BY <2>2, <3>1
  <2>8. CASE \/ StopAtGate \/ BeginSession \/ Wake \/ ScanCompletes \/ HistoryRead
             \/ EndSession \/ SessionRaises
    BY <2>2, <2>8 DEF StopAtGate, BeginSession, Wake, ScanCompletes, HistoryRead,
                      EndSession, SessionRaises
  <2>9. CASE Environment
    BY <2>2, <2>9 DEF Environment, Run, ActivateKillSwitch, ChangeSettings, NewBar, Cancel,
                      Awaits
  <2>10. CASE UNCHANGED vars
    BY <2>1, <2>10 DEF vars, sessionVars
  <2> QED BY <2>3, <2>4, <2>5, <2>6, <2>7, <2>8, <2>9, <2>10 DEF Next, Loop
<1>3. StopsInv => StopsHonoured
  BY DEF StopsInv, StopsHonoured, Kept
<1> QED BY <1>1, <1>2, <1>3, TypeCorrect, PTL DEF Spec

---------------------------------------------------------------------------
(* What the risk manager has heard                                         *)

\* The manager has heard of the first k closed trades: it counts as many and
\* its streak is at least the one they end in.
Heard(k) ==
  /\ tradesToday >= k
  /\ \A m \in 1 .. k :
       (\A i \in k - m + 1 .. k : closedTrades[i].pnl < 0) => consecutiveLosses >= m

Quiet == Awaits \cup {"stopped", "gate"}

\* Each session tells the manager all of the list again, from the first trade.
RiskInv ==
  /\ phase \in Quiet => Heard(Len(closedTrades))
  /\ phase = "record" => /\ nextRecord \in 1 .. Len(closedTrades) + 1
                         /\ Heard(nextRecord - 1)

\* Hearing of one more trade.
LEMMA HearsNext ==
  ASSUME TypeOK, NEW n \in Nat \ {0}, Heard(n - 1), UNCHANGED closedTrades,
         R!RecordTradeResult(closedTrades[n].pnl)
  PROVE  Heard(n)'
<1>1. tradesToday \in Nat /\ consecutiveLosses \in Nat
  BY DEF TypeOK, R!TypeOK
<1>2. tradesToday' >= n
  BY <1>1 DEF Heard, R!RecordTradeResult
<1>3. ASSUME NEW m \in 1 .. n, \A i \in n - m + 1 .. n : closedTrades[i].pnl < 0
      PROVE  consecutiveLosses' >= m
  <2>1. closedTrades[n].pnl < 0
    BY <1>3
  <2>2. consecutiveLosses' = consecutiveLosses + 1
    BY <2>1 DEF R!RecordTradeResult, R!LossStreak
  <2>3. CASE m = 1
    BY <1>1, <2>2, <2>3
  <2>4. CASE m # 1
    <3>1. m - 1 \in 1 .. n - 1
      BY <2>4
    <3>2. \A i \in (n - 1) - (m - 1) + 1 .. n - 1 : closedTrades[i].pnl < 0
      BY <1>3
    <3>3. consecutiveLosses >= m - 1
      BY <3>1, <3>2 DEF Heard
    <3> QED BY <1>1, <2>2, <3>3
  <2> QED BY <2>3, <2>4
<1> QED BY <1>2, <1>3 DEF Heard

\* The trade count and the streak the limits look at are never too small.
THEOREM RiskHears == Spec => []RiskNeverUndercounts
<1>1. Init => RiskInv
  BY DEF Init, B!Init, R!Init, RiskInv, Heard
<1>2. TypeOK /\ RiskInv /\ [Next]_vars => RiskInv'
  <2> SUFFICES ASSUME TypeOK, RiskInv, [Next]_vars PROVE RiskInv'
    OBVIOUS
  <2>0. Len(closedTrades) \in Nat /\ nextRecord \in Nat \ {0} /\ tradesToday \in Nat
    BY DEF TypeOK, B!TypeOK, R!TypeOK
  <2>1. ASSUME UNCHANGED <<closedTrades, tradesToday, consecutiveLosses, nextRecord>>,
               phase' = phase \/ phase \in Quiet,
               phase' # "record" \/ phase = "record"
        PROVE  RiskInv'
    <3>1. \A k \in Nat : Heard(k) => Heard(k)'
      BY <2>1 DEF Heard
    <3>2. nextRecord - 1 \in Nat /\ "record" \notin Quiet
      BY <2>0 DEF Quiet, Awaits
    <3> QED BY <2>0, <2>1, <3>1, <3>2 DEF RiskInv
  <2>2. CASE phase' \in {"decide", "reconcile"}
    BY <2>2 DEF RiskInv, Quiet, Awaits
  <2>3. CASE BeginRecord
    <3>1. phase' = "record" /\ nextRecord' = 1 /\ UNCHANGED <<closedTrades, tradesToday>>
      BY <2>3 DEF BeginRecord, brokerVars, riskVars
    <3>2. Heard(0)'
      BY <2>0, <3>1 DEF Heard
    <3> QED BY <2>0, <3>1, <3>2 DEF RiskInv, Quiet, Awaits
  <2>4. CASE RecordTrade
    <3>1. /\ phase = "record" /\ phase' = "record" /\ nextRecord <= Len(closedTrades)
          /\ R!RecordTradeResult(closedTrades[nextRecord].pnl)
          /\ nextRecord' = nextRecord + 1 /\ UNCHANGED closedTrades
      BY <2>4 DEF RecordTrade, brokerVars
    <3>2. Heard(nextRecord - 1)
      BY <3>1 DEF RiskInv
    <3>3. \A n \in Nat \ {0} : n = nextRecord => Heard(n)'
      BY <3>1, <3>2, HearsNext
    <3>4. nextRecord' - 1 = nextRecord
      BY <2>0, <3>1
    <3> QED BY <2>0, <3>1, <3>3, <3>4 DEF RiskInv, Quiet, Awaits
  <2>5. CASE EndSession \/ SessionRaises
    <3>1. /\ phase = "record" /\ nextRecord > Len(closedTrades)
          /\ phase' \in {"stopped", "sleep"}
          /\ UNCHANGED <<closedTrades, tradesToday, consecutiveLosses>>
      BY <2>5 DEF EndSession, SessionRaises, brokerVars, riskVars
    <3>2. Heard(Len(closedTrades))
      <4>1. nextRecord - 1 = Len(closedTrades)
        BY <2>0, <3>1 DEF RiskInv
      <4> QED BY <3>1, <4>1 DEF RiskInv
    <3> QED BY <3>1, <3>2 DEF RiskInv, Heard
  <2>6. ASSUME NEW s \in Symbols,
               DropCandidate(s) \/ FlipCloses(s) \/ OrderOpens(s) \/ ReconcilePosition(s)
        PROVE  RiskInv'
    <3>1. phase' \in {"decide", "reconcile"}
      BY <2>6 DEF DropCandidate, FlipCloses, OrderOpens, Executable, NextCandidate,
                  ReconcilePosition
    <3> QED BY <2>2, <3>1
  <2>7. CASE BeginReconcile \/ HistoryRead
    BY <2>2, <2>7 DEF BeginReconcile, HistoryRead
  <2>8. CASE StopAtGate \/ BeginSession \/ Wake \/ ScanCompletes
    BY <2>1, <2>8 DEF StopAtGate, BeginSession, Wake, ScanCompletes, brokerVars, riskVars,
                      sessionVars, Quiet, Awaits
  <2>9. CASE Run \/ ActivateKillSwitch \/ ChangeSettings \/ NewBar
    BY <2>1, <2>9 DEF Run, ActivateKillSwitch, ChangeSettings, NewBar, brokerVars, riskVars,
                      R!ActivateKillSwitch, sessionVars, Quiet, Awaits
  <2>10. CASE Cancel
    BY <2>10 DEF Cancel, RiskInv, Heard, brokerVars, riskVars, Quiet
  <2>11. CASE UNCHANGED vars
    BY <2>1, <2>11 DEF vars, brokerVars, riskVars, sessionVars
  <2> QED BY <2>3, <2>4, <2>5, <2>6, <2>7, <2>8, <2>9, <2>10, <2>11
          DEF Next, Loop, Environment
<1>3. TypeOK /\ RiskInv => RiskNeverUndercounts
  BY DEF RiskInv, Heard, Quiet, RiskNeverUndercounts, LossesReach
<1> QED BY <1>1, <1>2, <1>3, TypeCorrect, PTL DEF Spec

---------------------------------------------------------------------------
(* The desk                                                                *)

\* No alpha is on a bar the market has not produced.
BarsInv ==
  /\ bar \in 1 .. MaxBar
  /\ sessionBar \in 0 .. MaxBar
  /\ \A s \in Symbols : alphas[s].ts \in 0 .. MaxBar

\* No bar has been seen when a session starts.
LEMMA InitBars ==
  ASSUME Init
  PROVE  BarsInv
<1>1. bar = 1 /\ sessionBar = 0 /\ MaxBar \in Nat \ {0}
  BY SessionAssumption DEF Init, SessionAssumption
<1>2. \A s \in Symbols : alphas[s].ts = 0
  BY DEF Init, NoAlphas, NoAlpha
<1> QED BY <1>1, <1>2 DEF BarsInv

\* What is known of the bars stays true through every step.
LEMMA BarsStep ==
  ASSUME TypeOK, BarsInv, [Next]_vars
  PROVE  BarsInv'
<1>0. MaxBar \in Nat \ {0} /\ bar \in Nat /\ sessionBar \in Nat
  BY SessionAssumption DEF TypeOK, SessionAssumption
<1>1. CASE UNCHANGED <<bar, sessionBar, alphas>>
  BY <1>1 DEF BarsInv
<1>2. CASE BeginSession
  BY <1>0, <1>2 DEF BeginSession, BarsInv
<1>3. CASE NewBar
  BY <1>0, <1>3 DEF NewBar, BarsInv, sessionVars
<1>4. CASE HistoryRead
  <2>1. PICK generated \in Generations : alphas' = generated
    BY <1>4 DEF HistoryRead
  <2>2. ASSUME NEW s \in Symbols
        PROVE  generated[s].ts \in 0 .. MaxBar
    <3>1. generated[s] \in AlphasOn(1 .. sessionBar) \cup {NoAlpha}
      BY DEF Generations
    <3>2. CASE generated[s] = NoAlpha
      BY <1>0, <3>2 DEF NoAlpha
    <3>3. CASE generated[s] \in AlphasOn(1 .. sessionBar)
      <4>1. generated[s].ts \in 1 .. sessionBar
        BY <3>3 DEF AlphasOn
      <4> QED BY <1>0, <4>1 DEF BarsInv
    <3> QED BY <3>1, <3>2, <3>3
  <2> QED BY <1>4, <2>1, <2>2 DEF HistoryRead, BarsInv
<1>5. CASE EndSession \/ SessionRaises \/ Cancel
  <2>1. bar' = bar /\ sessionBar' = 0 /\ alphas' = NoAlphas
    BY <1>5 DEF EndSession, SessionRaises, Cancel, ForgetLocals
  <2> QED BY <1>0, <2>1 DEF BarsInv, NoAlphas, NoAlpha
<1>6. CASE BeginReconcile
  <2>1. UNCHANGED <<bar, sessionBar>> /\ alphas' = NoAlphas
    BY <1>6 DEF BeginReconcile
  <2> QED BY <1>0, <2>1 DEF BarsInv, NoAlphas, NoAlpha
<1>7. ASSUME NEW s \in Symbols,
             DropCandidate(s) \/ FlipCloses(s) \/ OrderOpens(s) \/ ReconcilePosition(s)
      PROVE  BarsInv'
  BY <1>1, <1>7 DEF DropCandidate, FlipCloses, OrderOpens, ReconcilePosition
<1>8. CASE StopAtGate \/ Wake \/ ScanCompletes \/ BeginRecord \/ RecordTrade
  BY <1>1, <1>8 DEF StopAtGate, Wake, ScanCompletes, BeginRecord, RecordTrade, sessionVars
<1>9. CASE Run \/ ActivateKillSwitch \/ ChangeSettings
  BY <1>1, <1>9 DEF Run, ActivateKillSwitch, ChangeSettings, sessionVars
<1>10. CASE UNCHANGED vars
  BY <1>1, <1>10 DEF vars, sessionVars
<1> QED BY <1>2, <1>3, <1>4, <1>5, <1>6, <1>7, <1>8, <1>9, <1>10
        DEF Next, Loop, Environment

\* What the desk is told of the broker's positions.
Book == [s \in DOMAIN positions |-> IF positions[s].side = "buy" THEN "LONG" ELSE "SHORT"]

\* Acting on an executable candidate is acting on one of the desk's intents.
LEMMA ActsOnIntent ==
  ASSUME TypeOK, BarsInv, NEW s \in Symbols, Executable(s), Register(s), UNCHANGED riskVars
  PROVE  /\ IntentOf(s) \in Desk!Intents
         /\ IntentOf(s).symbol = s
         /\ IntentOf(s).direction = IF SideOf(s) = "buy" THEN "LONG" ELSE "SHORT"
         /\ Desk!ActOn(IntentOf(s))
<1>1. alphas[s].direction \in Directions /\ alphas[s].family \in Families
  BY ExecutableSane DEF IntentOf, Intent
<1>2. alphas[s].ts \in 0 .. MaxBar
  BY DEF BarsInv
<1>3. ~killSwitchActive /\ IntentOf(s) \notin sentCloids
  BY ExecutableSane
<1>4. sentCloids' = sentCloids \cup {IntentOf(s)} /\ killSwitchActive' = killSwitchActive
  BY DEF Register, riskVars
<1> QED BY <1>1, <1>2, <1>3, <1>4
        DEF IntentOf, SideOf, Directions, Desk!Intents, Desk!ActOn

\* Every step of the loop is a step of the desk or leaves it alone.
LEMMA DeskStep ==
  ASSUME TypeOK, BarsInv, [Next]_vars
  PROVE  [Desk!Next]_Desk!deskVars
<1>1. CASE UNCHANGED <<brokerVars, intentVars>>
  <2>1. UNCHANGED <<positions, sentCloids>>
    BY <1>1 DEF brokerVars, intentVars
  <2>2. killSwitchActive' = killSwitchActive \/ killSwitchActive' = TRUE
    BY RiskCases DEF riskVars, ScanCompletes, RecordTrade, R!RecordTradeResult,
       R!ActivateKillSwitch
  <2>3. CASE killSwitchActive' = killSwitchActive
    BY <2>1, <2>3 DEF Desk!deskVars
  <2>4. CASE killSwitchActive' = TRUE
    <3>1. Desk!Halt
      BY <2>1, <2>4 DEF Desk!Halt
    <3> QED BY <3>1 DEF Desk!Next
  <2> QED BY <2>2, <2>3, <2>4
<1>2. ASSUME NEW s \in Symbols, Flips(s)
      PROVE  [Desk!Next]_Desk!deskVars
  <2>0. PICK i \in Desk!Intents : i = IntentOf(s)
    BY <1>2, ActsOnIntent DEF Flips
  <2>1. /\ i.symbol = s /\ Desk!ActOn(i)
        /\ i.direction = IF SideOf(s) = "buy" THEN "LONG" ELSE "SHORT"
    BY <1>2, <2>0, ActsOnIntent DEF Flips, Desk!ActOn
  <2>2. s \in DOMAIN Book /\ Book[s] # i.direction
    <3>1. positions[s].side \in {"buy", "sell"} /\ SideOf(s) \in {"buy", "sell"}
      BY <1>2, ExecutableSane DEF Flips, TypeOK, B!TypeOK, B!Position, B!Sides
    <3> QED BY <1>2, <2>1, <3>1 DEF Flips, Book
  <2>3. Book' = [x \in DOMAIN Book \ {s} |-> Book[x]]
    BY <1>2 DEF Flips, B!ClosePosition, Book
  <2>4. Desk!Reverse(i)
    BY <2>1, <2>2, <2>3 DEF Desk!Reverse, Desk!Leave, Book
  <2> QED BY <2>4 DEF Desk!Next
<1>3. ASSUME NEW s \in Symbols, Opens(s)
      PROVE  [Desk!Next]_Desk!deskVars
  <2>0. PICK i \in Desk!Intents : i = IntentOf(s)
    BY <1>3, ActsOnIntent DEF Opens
  <2>1. /\ i.symbol = s /\ Desk!ActOn(i)
        /\ i.direction = IF SideOf(s) = "buy" THEN "LONG" ELSE "SHORT"
    BY <1>3, <2>0, ActsOnIntent DEF Opens, Desk!ActOn
  <2>2. s \notin DOMAIN positions
    BY <1>3 DEF Opens, B!OpenPosition
  <2>3. Book' = [x \in DOMAIN Book \cup {s} |-> IF x = s THEN i.direction ELSE Book[x]]
    <3>1. /\ DOMAIN positions' = DOMAIN positions \cup {s}
          /\ positions'[s].side = SideOf(s)
          /\ \A x \in DOMAIN positions : positions'[x] = positions[x]
      BY <1>3 DEF Opens, B!OpenPosition, B!Put, B!NewPosition
    <3> QED BY <2>1, <2>2, <3>1 DEF Book
  <2>4. Desk!Enter(i)
    BY <2>1, <2>2, <2>3 DEF Desk!Enter, Book
  <2> QED BY <2>4 DEF Desk!Next
<1>4. ASSUME NEW s \in Symbols, NEW reason \in {"stop_loss", "take_profit"},
             Leaves(s, reason)
      PROVE  [Desk!Next]_Desk!deskVars
  <2>1. Book' = [x \in DOMAIN Book \ {s} |-> Book[x]] /\ s \in DOMAIN Book
    BY <1>4 DEF Leaves, B!ClosePosition, Book
  <2>2. UNCHANGED <<sentCloids, killSwitchActive>>
    BY <1>4 DEF Leaves, intentVars, riskVars
  <2>3. Desk!Exit(s)
    BY <2>1, <2>2 DEF Desk!Exit, Desk!Leave, Book
  <2> QED BY <2>3 DEF Desk!Next
<1> QED BY <1>1, <1>2, <1>3, <1>4, TradingCases

\* The loop implements the abstract desk.
THEOREM DeskImplemented == Spec => ImplementsDesk
<1>1. Init => Desk!Init
  BY DEF Init, B!Init, R!Init, Desk!Init
<1>2. Init => BarsInv
  BY InitBars
<1>3. TypeOK /\ BarsInv /\ [Next]_vars => BarsInv'
  BY BarsStep
<1>4. TypeOK /\ BarsInv /\ [Next]_vars => [Desk!Next]_Desk!deskVars
  BY DeskStep
<1> QED BY <1>1, <1>2, <1>3, <1>4, TypeCorrect, PTL DEF Spec, ImplementsDesk, Desk!Spec

============================================================================
