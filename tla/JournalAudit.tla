----------------------------- MODULE JournalAudit -----------------------------
(***************************************************************************)
(* The audit queries of observability/journal.py over what the live loop   *)
(* recorded: the entry decisions with their filters and limit, and the     *)
(* win rates by entry reason, strategy or pair.  The rows grow by trades   *)
(* opened and closed and by signals blocked, each at its own instant.      *)
(***************************************************************************)
EXTENDS Integers, Sequences, FiniteSets, Functions

CONSTANTS
  Signals, Pnls,            \* [symbol, side, reason] of what is recorded
  Limits, Thresholds,       \* query arguments: limits, win rates in percent
  MinTrades,                \* min_trades_for_alert
  MaxTrades, MaxBlocked     \* bounds of the model

\* A row without a reason is labelled, never left empty.
AuditAssumption ==
  /\ Limits \subseteq Nat \ {0} /\ Thresholds \subseteq Int /\ Pnls \subseteq Int
  /\ {MinTrades, MaxTrades, MaxBlocked} \subseteq Nat
  /\ \A s \in Signals : s.reason # ""

VARIABLES trades, blocked

auditVars == <<trades, blocked>>

\* The label of a row without a reason in its metadata.
NoReason == "sin motivo"
Reasons == {s.reason : s \in Signals} \ {NoReason}
Symbols == {s.symbol : s \in Signals}

TypeOK ==
  /\ Len(trades) <= MaxTrades /\ Len(blocked) <= MaxBlocked
  /\ \A i \in DOMAIN trades : trades[i].reason \in Reasons \cup {NoReason} /\ trades[i].pnl \subseteq Pnls

Init == trades = <<>> /\ blocked = <<>>

Instant == Len(trades) + Len(blocked) + 1

\* record_open and record_close: TradeLedger has the whole of them.
RecordOpened(s) ==
  /\ Len(trades) < MaxTrades
  /\ trades' = Append(trades, [kind |-> "trade", at |-> Instant, symbol |-> s.symbol,
                               side |-> s.side, reason |-> s.reason, pnl |-> {}])
  /\ UNCHANGED blocked

RecordClosed(i, pnl) ==
  /\ trades[i].pnl = {}
  /\ trades' = [trades EXCEPT ![i].pnl = {pnl}]
  /\ UNCHANGED blocked

RecordBlocked(s) ==
  /\ Len(blocked) < MaxBlocked
  /\ blocked' = Append(blocked, [kind |-> "blocked", at |-> Instant, symbol |-> s.symbol,
                                 side |-> s.side, reason |-> s.reason, pnl |-> {}])
  /\ UNCHANGED trades

Next ==
  \/ \E s \in Signals : RecordOpened(s) \/ RecordBlocked(s)
  \/ \E i \in DOMAIN trades, pnl \in Pnls : RecordClosed(i, pnl)

Spec == Init /\ [][Next]_auditVars

(***************************************************************************)
(* The queries.  A filter is [symbol, side, start, end], {} for None.      *)
(***************************************************************************)
Matches(row, f) ==
  /\ f.symbol \subseteq {row.symbol} /\ f.side \subseteq {row.side}
  /\ \A t \in f.start : row.at >= t
  /\ \A t \in f.end : row.at <= t

\* ORDER BY time DESC LIMIT.
Newest(rows, limit) ==
  {r \in rows : Cardinality({s \in rows : s.at > r.at}) < limit}

\* Faulty variant of EntryDecisions: each table is cut to the limit, the two
\* together are not.
EntryDecisionsUncut(f, status, reason, limit) ==
  {d \in (IF status \in {"", "entered", "trade"}
            THEN Newest({r \in Range(trades) : Matches(r, f)}, limit) ELSE {})
         \cup (IF status \in {"", "blocked"}
               THEN Newest({r \in Range(blocked) : Matches(r, f)}, limit) ELSE {}) :
     reason # "" => reason # NoReason /\ d.reason = reason}

\* get_entry_decisions: "" for no status and no reason.  The reason is asked
\* of rows the limit has already cut, and a row without one matches none.
EntryDecisions(f, status, reason, limit) ==
  LET entered == IF status \in {"", "entered", "trade"}
                 THEN Newest({r \in Range(trades) : Matches(r, f)}, limit) ELSE {}
      stopped == IF status \in {"", "blocked"}
                 THEN Newest({r \in Range(blocked) : Matches(r, f)}, limit) ELSE {}
      kept == {d \in entered \cup stopped :
                 reason # "" => reason # NoReason /\ d.reason = reason}
  IN Newest(kept, limit)

ClosedRows(f) == {r \in Range(trades) : r.pnl # {} /\ Matches(r, f)}
PnlOf(r) == CHOOSE p \in r.pnl : TRUE
Total(amounts) == FoldFunction(+, 0, amounts)

\* Faulty variant of Count: a trade that broke even is a loss.
CountNoEven(rows) ==
  [count |-> Cardinality(rows), wins |-> Cardinality({r \in rows : PnlOf(r) > 0}),
   losses |-> Cardinality({r \in rows : PnlOf(r) <= 0}),
   even |-> Cardinality({r \in rows : PnlOf(r) = 0}), total |-> Total([r \in rows |-> PnlOf(r)])]
Count(rows) ==
  [count |-> Cardinality(rows), wins |-> Cardinality({r \in rows : PnlOf(r) > 0}),
   losses |-> Cardinality({r \in rows : PnlOf(r) < 0}),
   even |-> Cardinality({r \in rows : PnlOf(r) = 0}), total |-> Total([r \in rows |-> PnlOf(r)])]

Below(c, threshold) == 100 * c.wins < threshold * c.count

\* _win_rate_breakdown of the closed rows by a field, groups of min_count up.
Breakdown(rows, field, minCount, threshold) ==
  LET labels == {r[field] : r \in rows}
      group(l) == Count({r \in rows : r[field] = l})
      listed == {l \in labels : group(l).count >= minCount}
      overall == Count(rows)
  IN [groups |-> [l \in listed |-> group(l)], overall |-> overall,
      alerts |-> {l \in listed : group(l).count >= MinTrades /\ Below(group(l), threshold)},
      alert |-> overall.count >= MinTrades /\ Below(overall, threshold)]

ByReason(f, minCount, threshold) ==
  Breakdown(ClosedRows(f), "reason", minCount, threshold)
BySymbol(f, minCount, threshold) ==
  Breakdown(ClosedRows(f), "symbol", minCount, threshold)

(***************************************************************************)
(* Properties.                                                             *)
(***************************************************************************)
Everything == [symbol |-> {}, side |-> {}, start |-> {}, end |-> {}]
Filters == {Everything} \cup {[Everything EXCEPT !.symbol = {s}] : s \in Symbols}
           \cup {[Everything EXCEPT !.side = {"buy"}, !.start = {2}]}

\* Without a reason the audit shows the newest decisions there are, of both
\* tables, never more than the limit; with one it misses a matching entry only
\* when the limit cut the table it is in.
AuditShowsTheNewest ==
  \A f \in Filters, limit \in Limits :
    LET rows == {r \in Range(trades) \cup Range(blocked) : Matches(r, f)} IN
    /\ EntryDecisions(f, "", "", limit) = Newest(rows, limit)
    /\ \A reason \in Reasons :
         LET shown == EntryDecisions(f, "", reason, limit)
             missed == {r \in rows : r.reason = reason} \ shown
         IN /\ Cardinality(shown) <= limit
            /\ \A m \in missed :
                 Cardinality({r \in rows : r.kind = m.kind}) > limit \/ Cardinality(shown) = limit

\* What the win rate of a reason counts is what a click on it lists: the
\* closed entries with that reason, all of them when the limit cuts nothing.
\* The entries without a reason are counted and can never be listed.
CountsMatchTheList ==
  \A f \in Filters :
    LET b == ByReason(f, 1, 50)
        listed(l) == {d \in EntryDecisions(f, "entered", l, MaxTrades) : d.pnl # {}}
    IN \A l \in DOMAIN b.groups :
         IF l = NoReason THEN listed(l) = {} ELSE Cardinality(listed(l)) = b.groups[l].count

\* Every breakdown of the same closed trades adds up to the same overall
\* figures, and none of wins, losses and breakeven is counted twice.
RatesAddUp ==
  \A f \in Filters :
    LET r == ByReason(f, 1, 50)
        s == BySymbol(f, 1, 50)
    IN /\ r.overall = s.overall
       /\ r.overall.wins + r.overall.losses + r.overall.even = r.overall.count
       /\ \A b \in {r.groups, s.groups} :
            /\ Total([l \in DOMAIN b |-> b[l].count]) = r.overall.count
            /\ Total([l \in DOMAIN b |-> b[l].total]) = r.overall.total

\* An overall rate under the threshold never goes without a reason that is:
\* if the whole alarms, one of its groups is below the threshold too, though
\* it may be too small to be listed.
AlarmHasACause ==
  \A threshold \in Thresholds, minCount \in {1, 2} :
    LET b == ByReason(Everything, minCount, threshold)
        all == ByReason(Everything, 1, threshold)
    IN /\ b.alert => \E l \in DOMAIN all.groups : Below(all.groups[l], threshold)
       /\ b.alerts \subseteq all.alerts /\ (minCount <= MinTrades => b.alerts = all.alerts)

Safe == AuditShowsTheNewest /\ CountsMatchTheList /\ RatesAddUp /\ AlarmHasACause
=============================================================================
