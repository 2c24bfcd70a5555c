----------------------------- MODULE TradeReview -----------------------------
(***************************************************************************)
(* Closed trades looked at afterwards: the TradeValidator that quarantines *)
(* the impossible ones (paper/validation.py) and the StabilityAnalyzer     *)
(* that breaks them down by period, direction and family                   *)
(* (research/stability.py).  Money is in whole units.                      *)
(***************************************************************************)
EXTENDS Integers, Sequences, FiniteSets, Functions

CONSTANTS
  Trades,                \* [entered, family, side, entry, exit, quantity, fee, pnl]
  References,            \* prices a reference may have
  MonthLength,
  MaxTrades              \* a bound of the model

ReviewAssumption == MonthLength \in Nat \ {0} /\ MaxTrades \in Nat

VARIABLES
  trades,                \* in the order they were closed
  reference,             \* {} or the reference price of the symbol
  results,               \* what validate_trade said of each
  quarantined            \* indices of the trades in quarantine

reviewVars == <<trades, reference, results, quarantined>>

TypeOK ==
  /\ trades \in Seq(Trades) /\ Len(trades) <= MaxTrades
  /\ \E r \in References : reference \subseteq {r}
  /\ Len(results) = Len(trades)
  /\ \A i \in DOMAIN results : results[i].severity \in {"ok", "warning", "invalid"}

Init == trades = <<>> /\ reference = {} /\ results = <<>> /\ quarantined = <<>>

(***************************************************************************)
(* Validation.                                                             *)
(***************************************************************************)
Abs(x) == IF x < 0 THEN -x ELSE x
Gross(t) == t.quantity * (IF t.side = "buy" THEN t.exit - t.entry ELSE t.entry - t.exit)

\* Prices and quantity above 0, the entry within 5% of the reference.
Impossible(t, ref) ==
  \/ t.entry <= 0 \/ t.exit <= 0 \/ t.quantity <= 0
  \/ \E r \in ref : r > 0 /\ t.entry > 0 /\ 100 * Abs(t.entry - r) > 5 * r

\* Faulty variant of Suspicious: a short is judged like a long.
SuspiciousLong(t) ==
  LET tenth == Abs(t.entry * t.quantity)
  IN \/ t.exit > t.entry /\ 10 * t.pnl < -tenth
     \/ t.exit < t.entry /\ 10 * t.pnl > tenth
\* The result goes against the move of the price by more than a tenth of the
\* notional; a trade without a side it knows is not judged.
Suspicious(t) ==
  LET tenth == Abs(t.entry * t.quantity)
      won == IF t.side = "buy" THEN t.exit > t.entry ELSE t.exit < t.entry
      lost == IF t.side = "buy" THEN t.exit < t.entry ELSE t.exit > t.entry
  IN /\ t.side \in {"buy", "sell"}
     /\ (won /\ 10 * t.pnl < -tenth) \/ (lost /\ 10 * t.pnl > tenth)

Severity(t, ref) ==
  IF Impossible(t, ref) THEN "invalid" ELSE IF Suspicious(t) THEN "warning" ELSE "ok"

ValidateTrade(t) ==
  /\ Len(trades) < MaxTrades
  /\ trades' = Append(trades, t)
  /\ results' = Append(results, [severity |-> Severity(t, reference), ref |-> reference])
  /\ quarantined' = IF Severity(t, reference) = "invalid"
                    THEN Append(quarantined, Len(trades) + 1) ELSE quarantined
  /\ UNCHANGED reference

SetReferencePrice(price) == reference' = {price} /\ UNCHANGED <<trades, results, quarantined>>

Next ==
  \/ \E t \in Trades : ValidateTrade(t)
  \/ \E price \in References : SetReferencePrice(price)

Spec == Init /\ [][Next]_reviewVars

(***************************************************************************)
(* Stability.                                                              *)
(***************************************************************************)
Total(s) == FoldFunction(+, 0, s)
TotalOf(s, Value(_)) == Total([i \in DOMAIN s |-> Value(s[i])])
Above(s, Value(_)) == TotalOf(s, LAMBDA t : IF Value(t) > 0 THEN Value(t) ELSE 0)
Below(s, Value(_)) == TotalOf(s, LAMBDA t : IF Value(t) < 0 THEN -Value(t) ELSE 0)
Net(t) == t.pnl

\* A stable sort by entry: a permutation of the indices.
Sorted(s) ==
  LET place(i) == Cardinality({j \in DOMAIN s :
                     s[j].entered < s[i].entered \/ (s[j].entered = s[i].entered /\ j <= i)})
  IN [k \in DOMAIN s |-> s[CHOOSE i \in DOMAIN s : place(i) = k]]

\* _period_from_trades.  The profit factor called net is one of gross results.
Period(s) ==
  [trades |-> Len(s), net |-> TotalOf(s, Net), gross |-> TotalOf(s, Gross),
   won |-> Len(SelectSeq(s, LAMBDA t : t.pnl > 0)), lost |-> Len(SelectSeq(s, LAMBDA t : t.pnl < 0)),
   netPf |-> <<Above(s, Gross), Below(s, Gross)>>]

\* _compute_agg_metrics.
Aggregate(s) ==
  [trades |-> Len(s), net |-> TotalOf(s, Net), gross |-> TotalOf(s, Gross),
   won |-> Len(SelectSeq(s, LAMBDA t : t.pnl > 0)), lost |-> Len(SelectSeq(s, LAMBDA t : t.pnl < 0)),
   grossPf |-> <<Above(s, Gross), Below(s, Gross)>>, netPf |-> <<Above(s, Net), Below(s, Net)>>]

\* Faulty variant of Thirds: three equal pieces, the remainder forgotten.
ThirdsEqual(s) ==
  IF Len(s) < 3 THEN <<s>>
  ELSE LET n == Len(s) \div 3
       IN <<SubSeq(s, 1, n), SubSeq(s, n + 1, 2 * n), SubSeq(s, 2 * n + 1, 3 * n)>>
Thirds(s) ==
  IF Len(s) < 3 THEN <<s>>
  ELSE LET n == Len(s) \div 3
       IN <<SubSeq(s, 1, n), SubSeq(s, n + 1, 2 * n), SubSeq(s, 2 * n + 1, Len(s))>>

Months(s) == {s[i].entered \div MonthLength : i \in DOMAIN s}
Monthly(s) ==
  [m \in Months(s) |-> SelectSeq(s, LAMBDA t : t.entered \div MonthLength = m)]
By(s, field) == [k \in {s[i][field] : i \in DOMAIN s} |-> SelectSeq(s, LAMBDA t : t[field] = k)]

(***************************************************************************)
(* Properties.                                                             *)
(***************************************************************************)

\* A trade with the arithmetic of the broker is never suspected: its result is
\* the move times the quantity less fees below a tenth of the notional.  One
\* whose sign was swapped is, once the move is above a tenth.
SuspicionIsFair ==
  \A i \in DOMAIN trades :
    LET t == trades[i]
        honest == t.pnl = Gross(t) - t.fee /\ 10 * t.fee <= Abs(t.entry * t.quantity)
        swapped == t.pnl = -Gross(t) - t.fee
    IN results[i].severity # "invalid" =>
         /\ honest => results[i].severity = "ok"
         /\ swapped /\ 10 * Abs(Gross(t)) > t.entry * t.quantity + 10 * t.fee
              => results[i].severity = "warning"

\* The quarantine holds exactly the trades that were impossible against the
\* reference of their moment, in order; a later reference changes no verdict.
QuarantineIsExact ==
  quarantined = SelectSeq([i \in DOMAIN trades |-> i],
                          LAMBDA i : Impossible(trades[i], results[i].ref))

\* Every breakdown is a partition of the trades: counts and results of the
\* thirds, of the months, of the directions and of the families each add up to
\* the whole, and the thirds follow each other in time.
BreakdownsPartition ==
  LET s == Sorted(trades)
      whole == Period(s)
      thirds == Thirds(s)
      AddsUp(parts) ==
        /\ Total([k \in DOMAIN parts |-> Aggregate(parts[k]).trades]) = whole.trades
        /\ Total([k \in DOMAIN parts |-> Aggregate(parts[k]).net]) = whole.net
        /\ Total([k \in DOMAIN parts |-> Aggregate(parts[k]).won]) = whole.won
  IN /\ AddsUp(thirds) /\ AddsUp(Monthly(s))
     /\ AddsUp(By(s, "side")) /\ AddsUp(By(s, "family"))
     /\ \A k \in 1 .. Len(thirds) - 1 : \A i \in DOMAIN thirds[k] : \A j \in DOMAIN thirds[k + 1] :
          thirds[k][i].entered <= thirds[k + 1][j].entered

\* What a period calls its net profit factor is one of gross results: it is the
\* aggregate's net factor only for trades no fee was taken from.
FactorsAgreeWithoutFees ==
  \A k \in DOMAIN Thirds(Sorted(trades)) :
    LET part == Thirds(Sorted(trades))[k]
    IN (\A i \in DOMAIN part : part[i].pnl = Gross(part[i]))
         => Period(part).netPf = Aggregate(part).netPf

Safe == SuspicionIsFair /\ QuarantineIsExact /\ BreakdownsPartition /\ FactorsAgreeWithoutFees
=============================================================================
