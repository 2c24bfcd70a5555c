---------------------------- MODULE TradingDesk ----------------------------
(***************************************************************************)
(* What the paper loop promises, seen from outside: a desk that acts on a  *)
(* trade intent at most once, holds at most one position per symbol, turns *)
(* an opposite intent into a close and nothing else, opens nothing once    *)
(* halted, and may still leave a position at any time.                     *)
(***************************************************************************)
CONSTANTS Symbols, Families, Directions, Timestamps

VARIABLES
  book,          \* symbol |-> direction of the position held
  acted,         \* intents the desk has acted on
  halted

deskVars == <<book, acted, halted>>

Intents == [symbol : Symbols, family : Families, direction : Directions, ts : Timestamps]

Init ==
  /\ book = [s \in {} |-> {}]
  /\ acted = {}
  /\ halted = FALSE

ActOn(i) ==
  /\ ~halted
  /\ i \notin acted
  /\ acted' = acted \cup {i}
  /\ UNCHANGED halted

Leave(s) == book' = [x \in DOMAIN book \ {s} |-> book[x]]

Enter(i) ==
  /\ i.symbol \notin DOMAIN book
  /\ book' = [x \in DOMAIN book \cup {i.symbol} |->
                IF x = i.symbol THEN i.direction ELSE book[x]]
  /\ ActOn(i)

Reverse(i) ==
  /\ i.symbol \in DOMAIN book
  /\ book[i.symbol] # i.direction
  /\ Leave(i.symbol)
  /\ ActOn(i)

Exit(s) ==
  /\ s \in DOMAIN book
  /\ Leave(s)
  /\ UNCHANGED <<acted, halted>>

Halt ==
  /\ halted' = TRUE
  /\ UNCHANGED <<book, acted>>

Next ==
  \/ \E i \in Intents : Enter(i) \/ Reverse(i)
  \/ \E s \in Symbols : Exit(s)
  \/ Halt

Spec == Init /\ [][Next]_deskVars

============================================================================
