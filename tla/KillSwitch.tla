----------------------------- MODULE KillSwitch -----------------------------
(***************************************************************************)
(* trading_bot/paper/kill_switch.py: the emergency stop of paper trading.  *)
(* Equities and percentages are whole numbers.  seen and last are history  *)
(* variables: the equities check() looked at while the switch was off, and *)
(* the last of them (a set of one) as long as the switch is off after it.  *)
(***************************************************************************)
EXTENDS Integers, FiniteSets

CONSTANTS
  MaxDrawdownPct, MaxDailyLossPct, MaxConsecutive,
  Equities               \* what callers pass as equity

\* A limit beyond 100% and an equity below zero together would make the drawdown
\* from a lower peak exceed the one from a higher; the code's limit is 10%.
KillSwitchAssumption ==
  /\ {MaxDrawdownPct, MaxDailyLossPct, MaxConsecutive} \subseteq Nat \ {0}
  /\ Equities \subseteq Int
  /\ MaxDrawdownPct <= 100 \/ Equities \subseteq Nat

None == "none"
Reasons == {"MANUAL", "DRAWDOWN", "DAILY_LOSS", "CONSECUTIVE_LOSS"}

VARIABLES active, reason, peak, dailyStart, lossStreak, seen, last

switchVars == <<active, reason, peak, dailyStart, lossStreak, seen, last>>

TypeOK ==
  /\ active \in BOOLEAN /\ reason \in Reasons \cup {None}
  /\ peak \in {0} \cup Equities /\ dailyStart \in {0} \cup Equities
  /\ lossStreak \in Nat
  /\ seen \subseteq Equities /\ last \subseteq seen

Init ==
  /\ active = FALSE /\ reason = None
  /\ peak = 0 /\ dailyStart = 0 /\ lossStreak = 0
  /\ seen = {} /\ last = {}

Drawdown(pk, e, pct) == pk > 0 /\ (pk - e) * 100 >= pct * pk

DailyLoss(e) == dailyStart > 0 /\ (dailyStart - e) * 100 >= MaxDailyLossPct * dailyStart

\* A second activation is refused, so the first reason stays.
Trip(why) ==
  /\ active' = TRUE
  /\ reason' = IF active THEN reason ELSE why

Activate ==
  /\ Trip("MANUAL")
  /\ UNCHANGED <<peak, dailyStart, lossStreak, seen, last>>

\* Faulty variant of Deactivate: a fresh start, the peak is forgotten.
DeactivateFresh ==
  /\ active
  /\ active' = FALSE /\ reason' = None /\ last' = {} /\ peak' = 0
  /\ UNCHANGED <<dailyStart, lossStreak, seen>>

\* The peak, the day's start and the streak stay as they were.
Deactivate ==
  /\ active
  /\ active' = FALSE /\ reason' = None /\ last' = {}
  /\ UNCHANGED <<peak, dailyStart, lossStreak, seen>>

Check(e) ==
  /\ ~active
  /\ LET high == IF e > peak THEN e ELSE peak IN
     /\ peak' = high
     /\ \/ Drawdown(high, e, MaxDrawdownPct) /\ Trip("DRAWDOWN")
        \/ /\ ~Drawdown(high, e, MaxDrawdownPct)
           /\ DailyLoss(e) /\ Trip("DAILY_LOSS")
        \/ /\ ~Drawdown(high, e, MaxDrawdownPct) /\ ~DailyLoss(e)
           /\ UNCHANGED <<active, reason>>
  /\ seen' = seen \cup {e}
  /\ last' = IF active' THEN {} ELSE {e}
  /\ UNCHANGED <<dailyStart, lossStreak>>

LosingTrade ==
  /\ lossStreak < MaxConsecutive + 1   \* bound: the code counts on
  /\ lossStreak' = lossStreak + 1
  /\ IF lossStreak' >= MaxConsecutive
       THEN Trip("CONSECUTIVE_LOSS") /\ last' = {}
       ELSE UNCHANGED <<active, reason, last>>
  /\ UNCHANGED <<peak, dailyStart, seen>>

WinningTrade ==
  /\ lossStreak' = 0
  /\ UNCHANGED <<active, reason, peak, dailyStart, seen, last>>

ResetDaily(e) ==
  /\ dailyStart' = e /\ lossStreak' = 0
  /\ UNCHANGED <<active, reason, peak, seen, last>>

Next ==
  \/ Activate \/ Deactivate \/ LosingTrade \/ WinningTrade
  \/ \E e \in Equities : Check(e) \/ ResetDaily(e)

Spec == Init /\ [][Next]_switchVars

---------------------------------------------------------------------------

(* The equity a check let pass is within the drawdown limit of every       *)
(* equity an earlier check saw, whatever was deactivated, reset or won in  *)
(* between: deactivate() forgives no drawdown, so an operator who lifts    *)
(* the switch without new money has it back at the next check.             *)
DrawdownNeverForgiven ==
  \A now \in last, e \in seen : ~Drawdown(e, now, MaxDrawdownPct)

(* A tripped switch names the reason it tripped for first, until it is     *)
(* deactivated.                                                            *)
ReasonKept == active <=> reason # None

Safe == DrawdownNeverForgiven /\ ReasonKept


============================================================================
