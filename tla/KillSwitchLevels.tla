-------------------------- MODULE KillSwitchLevels --------------------------
(***************************************************************************)
(* trading_bot/paper/kill_switch_v2.py and domain/enums/kill_switch.py:    *)
(* the five-level switch, its transitions and what each level permits.     *)
(***************************************************************************)
EXTENDS Integers, Sequences, Functions

CONSTANTS
  TrailBound             \* bound: entries of _history

TrailAssumption == TrailBound \in Nat

\* KillSwitchState, in the order of the escalation.
Levels == <<"normal", "no_new_risk", "protection_only", "read_only", "halted">>
LevelSet == Range(Levels)
Rank(l) == CHOOSE i \in DOMAIN Levels : Levels[i] = l

\* KILL_SWITCH_ALLOWED_ACTIONS
Allowed(l) ==
  CASE l = "normal" -> {"open_new_position", "modify_position", "close_position",
                        "send_order", "cancel_order", "read_data"}
    [] l = "no_new_risk" -> {"close_position", "cancel_order", "read_data"}
    [] l = "protection_only" -> {"close_position", "read_data"}
    [] l = "read_only" -> {"read_data"}
    [] l = "halted" -> {}

VARIABLES level, trail     \* _state, _history

levelVars == <<level, trail>>

Entry == [from : LevelSet, to : LevelSet, by : {"alarm", "target", "deactivate", "reset"}]

TypeOK == level \in LevelSet /\ Len(trail) <= TrailBound /\ Range(trail) \subseteq Entry

Init == level = "normal" /\ trail = <<>>

Move(to, by) ==
  /\ Len(trail) < TrailBound
  /\ level' = to
  /\ trail' = Append(trail, [from |-> level, to |-> to, by |-> by])

\* Faulty variant of Escalate: a halted switch wraps to the first level.
EscalateWrapping ==
  Move(Levels[IF level = "halted" THEN 1 ELSE Rank(level) + 1], "alarm")

\* activate() without a target: one level up, halted stays halted.
Escalate == Move(Levels[IF level = "halted" THEN 5 ELSE Rank(level) + 1], "alarm")

\* activate() with a target sets that level, a lower one too.
ActivateAt(target) == Move(target, "target")

Deactivate ==
  /\ level \notin {"read_only", "halted"}
  /\ Move("normal", "deactivate")

Reset == Move("normal", "reset")

Next == Escalate \/ Deactivate \/ Reset \/ \E l \in LevelSet : ActivateAt(l)

Spec == Init /\ [][Next]_levelVars

---------------------------------------------------------------------------

(* Trading rights come back only by a decision somebody named: in the      *)
(* whole history a step that permits an action the level before it did     *)
(* not is a deactivation, a reset or an activation with a target.  Alarms  *)
(* alone, however many and in whatever order, only take rights away.       *)
RightsReturnOnlyByDecision ==
  \A i \in DOMAIN trail :
    trail[i].by = "alarm" => Allowed(trail[i].to) \subseteq Allowed(trail[i].from)

(* The history tells how the present level came about, without a gap.      *)
TrailUnbroken ==
  /\ trail # <<>> => trail[Len(trail)].to = level
  /\ \A i \in 2..Len(trail) : trail[i].from = trail[i - 1].to

(* A halted switch is left only by reset() or by a targeted activation;    *)
(* the docstring of deactivate names reset alone.                          *)
HaltedIsSticky ==
  \A i \in DOMAIN trail :
    trail[i].from = "halted" /\ trail[i].to # "halted" => trail[i].by \in {"reset", "target"}

Safe == RightsReturnOnlyByDecision /\ TrailUnbroken /\ HaltedIsSticky

============================================================================
