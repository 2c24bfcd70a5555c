------------------------------ MODULE ParityGate ------------------------------
(***************************************************************************)
(* FullExecutionParityGate of paper/parity_gate.py: a backtest and a paper *)
(* run of the same strategy, their three hashes and the signals each gave, *)
(* compared once.  An entry price is in tenths of a cent; the gate rounds  *)
(* it to cents.                                                            *)
(***************************************************************************)
EXTENDS Integers, Sequences, FiniteSets

CONSTANTS
  Directions, Entries,   \* of signals; no entry ends in 5, where floats decide
  MaxSignals             \* a bound of the model

VARIABLES
  same,                  \* per hash: do the two sides agree on it
  signals,               \* per side: the signals, in order
  given,                 \* the caller hands the signals over
  report                 \* {} or the report of the check

parityVars == <<same, signals, given, report>>

Sides == {"backtest", "paper"}
Hashes == {"strategy", "dataset", "assumptions"}

TypeOK ==
  /\ same \in [Hashes -> BOOLEAN] /\ given \in BOOLEAN
  /\ \A side \in Sides : Len(signals[side]) <= MaxSignals

Init ==
  /\ same \in [Hashes -> BOOLEAN] /\ given \in BOOLEAN
  /\ signals = [side \in Sides |-> <<>>] /\ report = {}

Signal(side, direction, entry) ==
  /\ report = {} /\ Len(signals[side]) < MaxSignals
  /\ signals' = [signals EXCEPT ![side] = Append(@, <<direction, entry>>)]
  /\ UNCHANGED <<same, given, report>>

Cents(entry) == (entry + 5) \div 10
Key(s) == <<s[1], Cents(s[2])>>
Keys(side) == {Key(signals[side][i]) : i \in DOMAIN signals[side]}

\* The signals of a side whose key the other never gave.
Missing(side, other) == {i \in DOMAIN signals[side] : Key(signals[side][i]) \notin Keys(other)}

\* Faulty variant of Unexplained: only the backtest's signals are looked for.
UnexplainedOneWay == Cardinality(Missing("backtest", "paper"))
\* One difference for every one of them.
Unexplained == Cardinality(Missing("backtest", "paper")) + Cardinality(Missing("paper", "backtest"))

\* Neither executions nor accounts are compared: their fields stay empty.
Check ==
  /\ report = {}
  /\ LET differences == IF given THEN Unexplained ELSE 0 IN
     report' = {[matches |-> IF given THEN Cardinality(Keys("backtest") \cap Keys("paper")) ELSE 0,
                 unexplained |-> differences,
                 pass |-> (\A h \in Hashes : same[h]) /\ differences = 0]}
  /\ UNCHANGED <<same, signals, given>>

Next ==
  \/ \E side \in Sides, direction \in Directions, entry \in Entries : Signal(side, direction, entry)
  \/ Check

Spec == Init /\ [][Next]_parityVars

(***************************************************************************)
(* Properties.                                                             *)
(***************************************************************************)

\* A parity that passes with signals on the table means the two sides traded
\* the same set of directions and cents; how often and in what order is not
\* compared, so a signal paper repeated goes unseen.
PassMeansSameKeys ==
  \A r \in report :
    r.pass => /\ \A h \in Hashes : same[h]
              /\ given => Keys("backtest") = Keys("paper") /\ r.matches = Cardinality(Keys("paper"))

\* The verdict does not depend on which side is called the backtest, and the
\* counts fit: a key is common to both sides or behind a difference.
CountsFit ==
  \A r \in report :
    given =>
      /\ r.matches + r.unexplained >= Cardinality(Keys("backtest") \cup Keys("paper"))
      /\ r.unexplained <= Len(signals["backtest"]) + Len(signals["paper"]) - 2 * r.matches

Safe == PassMeansSameKeys /\ CountsFit
=============================================================================
