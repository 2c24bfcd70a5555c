-------------------------- MODULE RiskManagerProofs -------------------------
(***************************************************************************)
(* Theorems about RiskManager for every policy the configuration accepts   *)
(* and every sequence of calls.                                            *)
(***************************************************************************)
EXTENDS RiskManager, Induction, TLAPS

\* Every step is one call of a mutating method.
LEMMA StepCases ==
  ASSUME [Next]_riskVars, PolicyAssumption
  PROVE  \/ UNCHANGED riskVars
         \/ ActivateKillSwitch
         \/ \E pnl \in Int : RecordTradeResult(pnl)
         \/ \E s \in Symbols, n \in Nat : AddPosition(s, n)
         \/ \E s \in Symbols : RemovePosition(s)
         \/ ResetDaily
<1>1. ASSUME NEW pnl \in Pnls, RecordTradeResult(pnl)
      PROVE  \E x \in Int : RecordTradeResult(x)
  BY <1>1 DEF PolicyAssumption
<1>2. ASSUME NEW s \in Symbols, NEW n \in Sizes, AddPosition(s, n)
      PROVE  \E x \in Symbols, k \in Nat : AddPosition(x, k)
  BY <1>2 DEF PolicyAssumption
<1> QED BY <1>1, <1>2 DEF Next

\* What a recorded result leaves behind is of the right type.
LEMMA RecordTyped ==
  ASSUME TypeOK, NEW pnl \in Int, RecordTradeResult(pnl)
  PROVE  TypeOK'
<1>1. /\ equity' \in Int /\ dailyPnl' \in Int /\ weeklyPnl' \in Int
      /\ tradesToday' \in Nat
  BY DEF TypeOK, RecordTradeResult
<1>2. peakEquity' \in Int
  BY DEF TypeOK, RecordTradeResult, Larger
<1>3. consecutiveLosses' \in Nat
  BY DEF TypeOK, RecordTradeResult, LossStreak
<1> QED BY <1>1, <1>2, <1>3 DEF TypeOK, RecordTradeResult

\* No step leaves the types.
LEMMA TypeStep ==
  ASSUME TypeOK, [Next]_riskVars, PolicyAssumption
  PROVE  TypeOK'
<1>1. CASE UNCHANGED riskVars
  BY <1>1 DEF TypeOK, riskVars
<1>2. CASE ActivateKillSwitch
  BY <1>2 DEF TypeOK, ActivateKillSwitch
<1>3. ASSUME NEW pnl \in Int, RecordTradeResult(pnl)
      PROVE  TypeOK'
  BY <1>3, RecordTyped
<1>4. ASSUME NEW s \in Symbols, NEW n \in Nat, AddPosition(s, n)
      PROVE  TypeOK'
  <2>1. /\ DOMAIN openPositions' \subseteq Symbols
        /\ openPositions' \in [DOMAIN openPositions' -> Nat]
    BY <1>4 DEF TypeOK, AddPosition
  <2> QED BY <1>4, <2>1 DEF TypeOK, AddPosition
<1>5. ASSUME NEW s \in Symbols, RemovePosition(s)
      PROVE  TypeOK'
  <2>1. /\ DOMAIN openPositions' \subseteq Symbols
        /\ openPositions' \in [DOMAIN openPositions' -> Nat]
    BY <1>5 DEF TypeOK, RemovePosition
  <2> QED BY <1>5, <2>1 DEF TypeOK, RemovePosition
<1>6. CASE ResetDaily
  BY <1>6 DEF TypeOK, ResetDaily
<1> QED BY <1>1, <1>2, <1>3, <1>4, <1>5, <1>6, StepCases

\* The manager's state keeps its types under any sequence of calls.
THEOREM TypeCorrect == Spec => []TypeOK
<1>1. Init => TypeOK
  <2> SUFFICES ASSUME Init PROVE TypeOK
    OBVIOUS
  <2>1. /\ DOMAIN openPositions \subseteq Symbols
        /\ openPositions \in [DOMAIN openPositions -> Nat]
    BY DEF Init
  <2>2. equity \in Int /\ peakEquity \in Int
    BY PolicyAssumption DEF Init, Larger, PolicyAssumption
  <2>3. /\ dailyPnl \in Int /\ weeklyPnl \in Int
        /\ tradesToday \in Nat /\ consecutiveLosses \in Nat
    BY DEF Init
  <2>4. killSwitchActive \in BOOLEAN
    BY DEF Init
  <2> QED BY <2>1, <2>2, <2>3, <2>4 DEF TypeOK
<1>2. TypeOK /\ [Next]_riskVars => TypeOK'
  BY TypeStep, PolicyAssumption
<1> QED BY <1>1, <1>2, PTL DEF Spec

\* The counters of the day and the week describe one account.
THEOREM CountersAgree == Spec => []DayCountersAgree
<1> USE PolicyAssumption
<1>1. Init => DayCountersAgree
  BY DEF Init, DayCountersAgree, PolicyAssumption
<1>2. TypeOK /\ DayCountersAgree /\ [Next]_riskVars => DayCountersAgree'
  <2> SUFFICES ASSUME TypeOK, DayCountersAgree, [Next]_riskVars
               PROVE  DayCountersAgree'
    OBVIOUS
  <2>1. ASSUME NEW pnl \in Int, RecordTradeResult(pnl)
        PROVE  DayCountersAgree'
    <3>1. consecutiveLosses' <= tradesToday' /\ tradesToday' # 0
      BY <2>1 DEF TypeOK, DayCountersAgree, RecordTradeResult, LossStreak
    <3>2. weeklyPnl' = equity' - InitialEquity
      BY <2>1 DEF TypeOK, DayCountersAgree, RecordTradeResult, PolicyAssumption
    <3> QED BY <3>1, <3>2 DEF DayCountersAgree
  <2>2. CASE ResetDaily
    BY <2>2 DEF TypeOK, DayCountersAgree, ResetDaily
  <2>3. CASE UNCHANGED <<equity, dailyPnl, weeklyPnl, tradesToday, consecutiveLosses>>
    BY <2>3 DEF DayCountersAgree
  <2> QED BY <2>1, <2>2, <2>3, StepCases
        DEF riskVars, ActivateKillSwitch, AddPosition, RemovePosition
<1> QED BY <1>1, <1>2, TypeCorrect, PTL DEF Spec

\* The drawdown is measured from a peak that never comes down.
THEOREM PeakHolds == Spec => PeakIsHighWater
<1> USE PolicyAssumption
<1> DEFINE IsPeak == peakEquity >= equity
           A == peakEquity' >= peakEquity /\ peakEquity' >= equity'
<1>1. Init => IsPeak
  BY DEF Init, Larger, PolicyAssumption
<1>2. TypeOK /\ IsPeak /\ [Next]_riskVars => A
  <2> SUFFICES ASSUME TypeOK, IsPeak, [Next]_riskVars PROVE A
    OBVIOUS
  <2>1. ASSUME NEW pnl \in Int, RecordTradeResult(pnl)
        PROVE  A
    BY <2>1 DEF TypeOK, RecordTradeResult, Larger
  <2>2. CASE UNCHANGED <<equity, peakEquity>>
    BY <2>2 DEF TypeOK
  <2> QED BY <2>1, <2>2, StepCases
        DEF riskVars, ActivateKillSwitch, AddPosition, RemovePosition, ResetDaily
<1>3. TypeOK /\ IsPeak /\ [Next]_riskVars => IsPeak'
  BY <1>2
<1>4. Spec => []IsPeak
  BY <1>1, <1>3, TypeCorrect, PTL DEF Spec
<1> QED BY <1>2, <1>4, TypeCorrect, PTL DEF Spec, PeakIsHighWater

\* Nothing lifts the trade-count limit but the reset of the whole day, and
\* nothing at all lifts the kill switch.
THEOREM LimitsHold == Spec => LimitsLiftedOnlyByReset
<1> USE PolicyAssumption
<1> DEFINE A == /\ TradeCountGate /\ ~TradeCountGate' =>
                     tradesToday' = 0 /\ dailyPnl' = 0 /\ consecutiveLosses' = 0
                /\ killSwitchActive => Blocked'
<1>1. TypeOK /\ [Next]_riskVars => A
  <2> SUFFICES ASSUME TypeOK, [Next]_riskVars PROVE A
    OBVIOUS
  <2>1. ASSUME NEW pnl \in Int, RecordTradeResult(pnl)
        PROVE  A
    <3>1. TradeCountGate => TradeCountGate'
      BY <2>1 DEF TypeOK, RecordTradeResult, TradeCountGate, PolicyAssumption
    <3>2. killSwitchActive => Blocked'
      BY <2>1 DEF RecordTradeResult, Blocked, KillSwitchGate
    <3> QED BY <3>1, <3>2
  <2>2. CASE ResetDaily
    <3>1. tradesToday' = 0 /\ dailyPnl' = 0 /\ consecutiveLosses' = 0
      BY <2>2 DEF ResetDaily
    <3>2. killSwitchActive => Blocked'
      BY <2>2 DEF ResetDaily, Blocked, KillSwitchGate
    <3> QED BY <3>1, <3>2
  <2>3. ASSUME tradesToday' = tradesToday, killSwitchActive => killSwitchActive'
        PROVE  A
    BY <2>3 DEF TradeCountGate, Blocked, KillSwitchGate
  <2>4. CASE ActivateKillSwitch
    BY <2>3, <2>4 DEF ActivateKillSwitch
  <2>5. CASE UNCHANGED <<tradesToday, killSwitchActive>>
    BY <2>3, <2>5
  <2> QED BY <2>1, <2>2, <2>4, <2>5, StepCases DEF riskVars, AddPosition, RemovePosition
<1> QED BY <1>1, TypeCorrect, PTL DEF Spec, LimitsLiftedOnlyByReset

\* The exposure is a sum of amounts, so an amount.
LEMMA ExposureTyped ==
  ASSUME TypeOK, IsFiniteSet(DOMAIN openPositions)
  PROVE  Exposure \in Nat
<1>1. \A s \in DOMAIN openPositions : openPositions[s] \in Nat
  BY DEF TypeOK
<1>2. Sum(openPositions, DOMAIN openPositions) \in Nat
  BY <1>1, SumTyped
<1> QED BY <1>2 DEF Exposure, FoldFunction, Sum

\* A granted size fits the limits, whatever the exposure.
LEMMA GrantedSize ==
  ASSUME TypeOK, Exposure \in Nat
  PROVE  SizeWithinLimits
<1> USE PolicyAssumption
<1> SUFFICES ASSUME NEW stop \in StopPcts, Approves(1, stop)
             PROVE  /\ Notional(stop) \in MinOrderNotional .. MaxOrderNotional
                    /\ (Exposure + Notional(stop)) * 100 <= equity * MaxTotalExposurePct
                    /\ equity > 0
  BY DEF SizeWithinLimits
<1> DEFINE riskBased == (equity * MaxRiskPerTradePct) \div stop
           clamped   == Larger(MinOrderNotional, Smaller(riskBased, MaxOrderNotional))
           product   == equity * MaxTotalExposurePct
           remaining == product \div 100 - Exposure
<1>1. stop \in Nat \ {0} /\ MaxRiskPerTradePct \in Nat \ {0}
      /\ MaxTotalExposurePct \in Nat \ {0} /\ equity \in Int
      /\ MinOrderNotional \in Nat \ {0} /\ MaxOrderNotional \in Nat
      /\ MinOrderNotional <= MaxOrderNotional
  BY DEF PolicyAssumption, TypeOK
<1>2. riskBased \in Int
  <2>1. equity * MaxRiskPerTradePct \in Int
    BY <1>1
  <2> QED BY <1>1, <2>1
<1>3. clamped \in MinOrderNotional .. MaxOrderNotional
  <2> HIDE DEF riskBased
  <2> QED BY <1>1, <1>2 DEF Larger, Smaller
<1>4. product \in Int
  BY <1>1
<1>5. Notional(stop) = Smaller(clamped, remaining)
  BY DEF Notional
<1>6. Notional(stop) >= MinOrderNotional
  BY DEF Approves
<1>7. remaining \in Int
  <2> HIDE DEF product
  <2> QED BY <1>4
<1>8. /\ Notional(stop) \in MinOrderNotional .. MaxOrderNotional
      /\ Notional(stop) <= remaining
  <2> HIDE DEF clamped, remaining
  <2> QED BY <1>1, <1>3, <1>5, <1>6, <1>7 DEF Smaller
<1>9. (Exposure + Notional(stop)) * 100 <= product /\ product > 0
  <2> HIDE DEF product
  <2>1. Exposure + Notional(stop) <= product \div 100
    BY <1>1, <1>4, <1>8
  <2>2. (product \div 100) * 100 <= product /\ product \div 100 \in Int
    BY <1>4
  <2> QED BY <1>1, <1>4, <1>8, <2>1, <2>2
<1>10. equity > 0
  BY <1>1, <1>9
<1> QED BY <1>8, <1>9, <1>10

\* A granted size lies between the order limits and inside the total exposure
\* limit, for any policy and any sequence of calls.
THEOREM SizesGranted == Spec => []SizeWithinLimits
<1> DEFINE Registered == IsFiniteSet(DOMAIN openPositions)
<1>1. Init => Registered
  BY FS_EmptySet DEF Init
<1>2. Registered /\ [Next]_riskVars => Registered'
  <2> SUFFICES ASSUME Registered, [Next]_riskVars PROVE Registered'
    OBVIOUS
  <2>1. ASSUME NEW s \in Symbols, NEW n \in Nat, AddPosition(s, n)
        PROVE  Registered'
    BY <2>1, FS_AddElement DEF AddPosition
  <2>2. ASSUME NEW s \in Symbols, RemovePosition(s)
        PROVE  Registered'
    BY <2>2, FS_RemoveElement DEF RemovePosition
  <2>3. CASE UNCHANGED openPositions
    BY <2>3
  <2> QED BY <2>1, <2>2, <2>3, StepCases, PolicyAssumption
        DEF riskVars, ActivateKillSwitch, RecordTradeResult, ResetDaily
<1>3. TypeOK /\ Registered => SizeWithinLimits
  BY ExposureTyped, GrantedSize
<1> QED BY <1>1, <1>2, <1>3, TypeCorrect, PTL DEF Spec

============================================================================
