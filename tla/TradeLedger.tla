---------------------------- MODULE TradeLedger ----------------------------
(***************************************************************************)
(* The SQLite trade journal (trading_bot/observability/journal.py) beside  *)
(* a paper broker that keeps its positions in memory, and the two passes   *)
(* written for the start after a restart: the reconciliation               *)
(* (paper/reconciliation.py) and the recovery report                       *)
(* (paper/startup_recovery.py).  A statement is committed at once, so a    *)
(* row exists completely or not at all.  held is the caller's memory of    *)
(* the row of each live position, modelled from paper/broker.py: one       *)
(* position per symbol.                                                    *)
(***************************************************************************)
EXTENDS Integers, FiniteSets, Functions

CONSTANTS
  Symbols,
  MaxClock, RowBound     \* bounds: milliseconds that pass, rows

VARIABLES
  clock,                 \* time.time() * 1000
  idsSeen,               \* _trade_id_seen, of this process
  rows,                  \* trade_id |-> [symbol, opened, state]
  held,                  \* symbol |-> trade_id of the live position
  priced,                \* symbols with a market price at the start
  report                 \* of a recovery pass just made, or NoReport

ledgerVars == <<clock, idsSeen, rows, held, priced, report>>

NoReport == {}
RowStates == {"open", "traded", "missing"}
TradeIdSet == (0..MaxClock) \X Symbols \X (1..RowBound)

TypeOK ==
  /\ clock \in 0..MaxClock
  /\ IsFiniteSet(DOMAIN idsSeen)
  /\ DOMAIN rows \subseteq TradeIdSet
  /\ \A t \in DOMAIN rows :
       rows[t] \in [symbol : Symbols, opened : 0..MaxClock, state : RowStates]
  /\ DOMAIN held \subseteq Symbols /\ \A s \in DOMAIN held : held[s] \in DOMAIN rows
  /\ priced \subseteq Symbols

Init ==
  /\ clock = 0 /\ idsSeen = [b \in {} |-> 0]
  /\ rows = [t \in {} |-> 0] /\ held = [s \in {} |-> 0]
  /\ priced = Symbols /\ report = NoReport

\* Faulty variant of TradeId: the suffix of a second opening is left out.
TradeIdPlain(s) == <<clock, s, 1>>

BaseId(s) == <<clock, s>>
Sequence(s) == IF BaseId(s) \in DOMAIN idsSeen THEN idsSeen[BaseId(s)] + 1 ELSE 1

\* T-<ms>-<symbol>, with -N for the N-th opening of that base in this process.
TradeId(s) == <<clock, s, Sequence(s)>>

\* INSERT on a primary key: an existing identifier is an IntegrityError.
RecordOpen(s) ==
  /\ s \notin DOMAIN held
  /\ Cardinality(DOMAIN rows) < RowBound
  /\ TradeId(s) \notin DOMAIN rows
  /\ idsSeen' = [b \in DOMAIN idsSeen \cup {BaseId(s)} |->
                   IF b = BaseId(s) THEN Sequence(s) ELSE idsSeen[b]]
  /\ rows' = [t \in DOMAIN rows \cup {TradeId(s)} |->
                IF t = TradeId(s) THEN [symbol |-> s, opened |-> clock, state |-> "open"]
                                  ELSE rows[t]]
  /\ held' = [x \in DOMAIN held \cup {s} |-> IF x = s THEN TradeId(s) ELSE held[x]]
  /\ report' = NoReport
  /\ UNCHANGED <<clock, priced>>

\* record_close: UPDATE by identifier, whatever the row said before.
RecordClose(s) ==
  /\ s \in DOMAIN held
  /\ rows' = [rows EXCEPT ![held[s]].state = "traded"]
  /\ held' = [x \in DOMAIN held \ {s} |-> held[x]]
  /\ report' = NoReport
  /\ UNCHANGED <<clock, idsSeen, priced>>

Tick ==
  /\ clock < MaxClock
  /\ clock' = clock + 1
  /\ report' = NoReport
  /\ UNCHANGED <<idsSeen, rows, held, priced>>

\* The process is back at a later millisecond with some prices and without
\* the positions of the broker or the identifiers it gave.
Restart ==
  /\ clock < MaxClock
  /\ clock' = clock + 1
  /\ idsSeen' = [b \in {} |-> 0] /\ held' = [s \in {} |-> 0]
  /\ priced' \in SUBSET Symbols
  /\ report' = NoReport
  /\ UNCHANGED rows

OpenTrades == {t \in DOMAIN rows : rows[t].state = "open"}
Orphans == {t \in OpenTrades : rows[t].symbol \notin DOMAIN held}

\* get_open_trades lists the newest first, and a break ends the search for a
\* symbol at its first trade.
Newest(s) ==
  CHOOSE t \in OpenTrades :
    /\ rows[t].symbol = s
    /\ \A u \in OpenTrades : rows[u].symbol = s => rows[u].opened <= rows[t].opened

\* Faulty variant of Reconcile: a symbol the broker holds counts as missing
\* as soon as one of its rows is not the live one.
ReconcileByRow ==
  /\ rows' = [t \in DOMAIN rows |->
                IF t \in OpenTrades /\ ~\E s \in DOMAIN held : held[s] # t
                  THEN [rows[t] EXCEPT !.state = "missing"] ELSE rows[t]]
  /\ report' = NoReport
  /\ UNCHANGED <<clock, idsSeen, held, priced>>

\* StartupReconciler.reconcile: for every symbol that only the journal
\* holds, the newest open trade is closed at break-even.
Reconcile ==
  /\ LET gone == {rows[t].symbol : t \in Orphans} IN
     rows' = [t \in DOMAIN rows |->
                IF rows[t].symbol \in gone /\ t = Newest(rows[t].symbol)
                  THEN [rows[t] EXCEPT !.state = "missing"] ELSE rows[t]]
  /\ report' = NoReport
  /\ UNCHANGED <<clock, idsSeen, held, priced>>

\* recover_startup_positions decides for every open trade; it writes nothing.
Recover ==
  /\ report' = {[restored |-> OpenTrades \ Orphans,
                 closed   |-> {t \in Orphans : rows[t].symbol \in priced},
                 errors   |-> {t \in Orphans : rows[t].symbol \notin priced},
                 of       |-> OpenTrades]}
  /\ UNCHANGED <<clock, idsSeen, rows, held, priced>>

Next ==
  \/ \E s \in Symbols : RecordOpen(s) \/ RecordClose(s)
  \/ Tick \/ Restart \/ Reconcile \/ Recover

Spec == Init /\ [][Next]_ledgerVars

---------------------------------------------------------------------------

(* A live position always has its own open row: no reconciliation, at      *)
(* whatever moment and with whatever left-over rows of earlier processes   *)
(* of the same symbol, writes off a position the broker holds.             *)
LivePositionsStayOpen ==
  \A s \in DOMAIN held : rows[held[s]].state = "open" /\ rows[held[s]].symbol = s

(* An opening the journal must record is never refused for its identifier: *)
(* two openings of a symbol within a millisecond get different ones.       *)
OpeningsNeverCollide ==
  \A s \in Symbols \ DOMAIN held : TradeId(s) \notin DOMAIN rows

(* The recovery report names every trade that was open exactly once, so    *)
(* its status is ok only if the broker holds the symbol of each of them.   *)
ReportIsAPartition ==
  \A r \in report :
    /\ r.restored \cup r.closed \cup r.errors = r.of
    /\ Cardinality(r.of) =
         Cardinality(r.restored) + Cardinality(r.closed) + Cardinality(r.errors)

Safe == LivePositionsStayOpen /\ OpeningsNeverCollide /\ ReportIsAPartition

(* A row is closed once and for all, and every pass that finds orphans     *)
(* leaves fewer of them: repeating the start-up reconciliation ends.       *)
ClosedForGood ==
  [][/\ \A t \in DOMAIN rows : rows[t].state # "open" => rows'[t] = rows[t]
     /\ Reconcile /\ Orphans # {} => Cardinality(Orphans') < Cardinality(Orphans)]_ledgerVars

============================================================================
