----------------------------- MODULE LiveFutures ----------------------------
(***************************************************************************)
(* trading_bot/app.py, `run --auto-trade --market-kind futures`: one       *)
(* iteration of the live loop after the other, against an exchange that    *)
(* closes positions on its own (TP, SL, by hand) and whose replies may be  *)
(* lost.                                                                   *)
(*                                                                         *)
(* The loop is one thread.  phase stands before each call to the exchange  *)
(* or the journal that something can happen in front of; an iteration that *)
(* is skipped, or raises before it changed anything, leaves no trace.      *)
(* The journal is SQLite and survives the process; orders_sent and the     *)
(* cooldowns do not.  Order sizes, prices and margins are data: any        *)
(* symbol may turn out not to be tradeable.                                *)
(***************************************************************************)
EXTENDS Integers, Sequences, FiniteSets

CONSTANTS
  Symbols,
  Directions,            \* LONG and SHORT: nothing here treats them differently
  MaxLiveOrders,         \* --max-live-orders
  MaxCases,              \* bound: trade cases ever created
  MaxManual,             \* bound: positions an operator opens with place-order
  MaxRestarts            \* bound: times the process is killed and started

ASSUME LiveAssumption ==
  /\ MaxLiveOrders \in Nat \ {0}
  /\ {MaxCases, MaxManual, MaxRestarts} \subseteq Nat

VARIABLES
  positions,             \* the exchange: every position ever opened
  cases,                 \* trade_cases and trade_outcomes, by created_at
  ordersSent,            \* execution.orders_sent
  cooling,               \* symbols whose cooldown has not passed
  phase,
  active, desired,       \* snapshots and directions of this iteration
  target,                \* the position it closes, or the case it orders for
  requests,              \* history: opens and closes the exchange took, this process
  unheard,               \* history: those among them whose iteration raised
  restarts

exchangeVars == <<positions>>
iterationVars == <<active, desired, target>>
executionVars == <<ordersSent, cooling>>
historyVars == <<requests, unheard>>
vars == <<positions, cases, executionVars, phase, iterationVars, historyVars, restarts>>

Manual == 0              \* the case of a position the bot did not open
None == 0

LivePosition == [symbol : Symbols, direction : Directions, case : Nat, open : BOOLEAN]
Statuses == {"pending_order", "open", "order_rejected", "closed"}
Results == {"none", "reported", "missing", "mismatch"}
TradeCase ==
  [symbol : Symbols, direction : Directions, status : Statuses,
   position : Nat, result : Results]

Phases == {"idle", "stale", "closing", "settle", "positions", "margin",
           "place", "accepted", "failed"}

TypeOK ==
  /\ positions \in Seq(LivePosition)
  /\ cases \in Seq(TradeCase)
  /\ ordersSent \in 0 .. MaxLiveOrders
  /\ cooling \subseteq Symbols
  /\ phase \in Phases
  /\ active \subseteq Symbols
  /\ desired \in [active -> Directions]
  /\ target \in Nat
  /\ phase \in {"closing", "settle"} => target \in DOMAIN positions
  /\ phase \in {"place", "accepted", "failed"} => target \in DOMAIN cases
  /\ requests \in Nat /\ unheard \in Nat /\ restarts \in Nat

NoDirections == [s \in {} |-> None]

Init ==
  /\ positions = <<>> /\ cases = <<>>
  /\ ordersSent = 0 /\ cooling = {}
  /\ phase = "idle" /\ active = {} /\ desired = NoDirections /\ target = None
  /\ requests = 0 /\ unheard = 0 /\ restarts = 0

---------------------------------------------------------------------------

Held == {n \in DOMAIN positions : positions[n].open}
Open == {i \in DOMAIN cases : cases[i].status = "open"}

EndIteration ==
  /\ phase' = "idle"
  /\ active' = {} /\ desired' = NoDirections /\ target' = None

\* The tail of a close and of an order that succeeded.
CountOrder(s) ==
  /\ ordersSent' = ordersSent + 1
  /\ cooling' = cooling \cup {s}

\* Faulty variant of Begin: one order more than the cap.
BeginOverCap ==
  /\ phase = "idle"
  /\ ordersSent <= MaxLiveOrders
  /\ active' \in SUBSET Symbols
  /\ desired' \in [active' -> Directions]
  /\ phase' = "stale"
  /\ UNCHANGED <<exchangeVars, cases, executionVars, target, historyVars, restarts>>

\* Mode, order cap, scan, direction of every active pair.
Begin ==
  /\ phase = "idle"
  /\ ordersSent < MaxLiveOrders
  /\ active' \in SUBSET Symbols
  /\ desired' \in [active' -> Directions]
  /\ phase' = "stale"
  /\ UNCHANGED <<exchangeVars, cases, executionVars, target, historyVars, restarts>>

\* A call raises, or nothing is active, or there is no margin or no tradeable
\* pair: the loop goes on to the next iteration.  What the exchange has
\* accepted by then, a close whose case the journal fails to write as well, is
\* not counted.
Abandon ==
  /\ phase \in {"stale", "closing", "settle", "positions", "margin", "accepted"}
  /\ EndIteration
  /\ unheard' = IF phase \in {"settle", "accepted"} THEN unheard + 1 ELSE unheard
  /\ UNCHANGED <<exchangeVars, cases, executionVars, requests, restarts>>

---------------------------------------------------------------------------
(* _close_stale_futures_positions                                          *)

Stale(n) ==
  LET p == positions[n]
  IN  p.symbol \in active => desired[p.symbol] # p.direction

FindStale ==
  /\ phase = "stale"
  /\ target' \in {n \in Held : Stale(n)}
  /\ phase' = "closing"
  /\ UNCHANGED <<exchangeVars, cases, executionVars, active, desired, historyVars, restarts>>

NoneStale ==
  /\ phase = "stale"
  /\ \A n \in Held : ~Stale(n)
  /\ active # {}
  /\ phase' = "positions"
  /\ UNCHANGED <<exchangeVars, cases, executionVars, iterationVars, historyVars, restarts>>

Shut(n) == positions' = [positions EXCEPT ![n].open = FALSE]

\* flash_close_position succeeds.
FlashClose ==
  /\ phase = "closing" /\ target \in Held
  /\ Shut(target)
  /\ phase' = "settle"
  /\ requests' = requests + 1
  /\ UNCHANGED <<cases, executionVars, iterationVars, unheard, restarts>>

\* It succeeds, but its reply is lost.
FlashCloseUnheard ==
  /\ phase = "closing" /\ target \in Held
  /\ Shut(target)
  /\ requests' = requests + 1 /\ unheard' = unheard + 1
  /\ EndIteration
  /\ UNCHANGED <<cases, executionVars, restarts>>

Closed(case, position, result) ==
  [case EXCEPT !.status = "closed", !.position = position, !.result = result]

\* Faulty variant of Newest: the symbol's newest case, open or not.
NewestOfAny(s) ==
  {i \in DOMAIN cases :
     cases[i].symbol = s /\ \A j \in DOMAIN cases : cases[j].symbol = s => j <= i}

\* _mark_trade_case_closed_from_position: the newest open case of the symbol
\* gets the result.
Newest(s) ==
  {i \in Open : cases[i].symbol = s /\ \A j \in Open : cases[j].symbol = s => j <= i}

Settled ==
  [i \in DOMAIN cases |->
     IF i \in Newest(positions[target].symbol)
     THEN Closed(cases[i], target, "reported") ELSE cases[i]]

\* Faulty variant of Settle: a close is not counted as an order.
SettleUncounted ==
  /\ phase = "settle"
  /\ cases' = Settled
  /\ EndIteration
  /\ UNCHANGED <<exchangeVars, executionVars, historyVars, restarts>>

Settle ==
  /\ phase = "settle"
  /\ cases' = Settled
  /\ CountOrder(positions[target].symbol)
  /\ EndIteration
  /\ UNCHANGED <<exchangeVars, historyVars, restarts>>

---------------------------------------------------------------------------
(* _reconcile_open_trade_cases_with_positions, on the positions read after *)
(* the stale ones were looked for.  Of two positions on one symbol the one *)
(* listed last hides the other.                                            *)

Views ==
  {v \in [{positions[n].symbol : n \in Held} -> Held] :
     \A s \in DOMAIN v : positions[v[s]].symbol = s}

\* Faulty variant of Reconciled: a position that is gone is not looked for.
ReconciledHeldOnly(case, view) ==
  IF case.status # "open" \/ case.symbol \notin DOMAIN view THEN case
  ELSE IF positions[view[case.symbol]].direction # case.direction
       THEN Closed(case, case.position, "mismatch")
  ELSE [case EXCEPT !.position = view[case.symbol]]

Reconciled(case, view) ==
  IF case.status # "open" THEN case
  ELSE IF case.symbol \notin DOMAIN view
       THEN Closed(case, case.position, "missing")
  ELSE IF positions[view[case.symbol]].direction # case.direction
       THEN Closed(case, case.position, "mismatch")
  ELSE [case EXCEPT !.position = view[case.symbol]]

\* Faulty variants of ReadPositions: the iteration goes on although a position
\* is open; cases are reconciled only when it does not.
ReadPositionsOnly ==
  /\ phase = "positions"
  /\ \E view \in Views : cases' = [i \in DOMAIN cases |-> Reconciled(cases[i], view)]
  /\ phase' = "margin"
  /\ UNCHANGED <<exchangeVars, executionVars, iterationVars, historyVars, restarts>>
ReadPositionsLate ==
  /\ phase = "positions"
  /\ IF Held = {}
     THEN phase' = "margin" /\ UNCHANGED <<cases, iterationVars>>
     ELSE /\ \E view \in Views : cases' = [i \in DOMAIN cases |-> Reconciled(cases[i], view)]
          /\ EndIteration
  /\ UNCHANGED <<exchangeVars, executionVars, historyVars, restarts>>

\* With any position open the iteration ends here.
ReadPositions ==
  /\ phase = "positions"
  /\ \E view \in Views : cases' = [i \in DOMAIN cases |-> Reconciled(cases[i], view)]
  /\ IF Held = {} THEN phase' = "margin" /\ UNCHANGED iterationVars ELSE EndIteration
  /\ UNCHANGED <<exchangeVars, executionVars, historyVars, restarts>>

---------------------------------------------------------------------------
(* The order                                                               *)

\* _create_futures_trade_case
CreateCase(s) ==
  /\ phase = "margin" /\ s \in active \ cooling /\ Len(cases) < MaxCases
  /\ cases' = Append(cases, [symbol |-> s, direction |-> desired[s], status |-> "pending_order",
                             position |-> None, result |-> "none"])
  /\ target' = Len(cases) + 1
  /\ phase' = "place"
  /\ UNCHANGED <<exchangeVars, executionVars, active, desired, historyVars, restarts>>

Opened(s, d, case) == [symbol |-> s, direction |-> d, case |-> case, open |-> TRUE]

\* place_order: accepted and answered, or accepted and the reply lost.
OrderAccepted ==
  /\ phase = "place"
  /\ positions' = Append(positions, Opened(cases[target].symbol, cases[target].direction, target))
  /\ requests' = requests + 1
  /\ \/ phase' = "accepted" /\ UNCHANGED unheard
     \/ phase' = "failed" /\ unheard' = unheard + 1
  /\ UNCHANGED <<cases, executionVars, iterationVars, restarts>>

OrderRefused ==
  /\ phase = "place"
  /\ phase' = "failed"
  /\ UNCHANGED <<exchangeVars, cases, executionVars, iterationVars, historyVars, restarts>>

\* except Exception: _mark_trade_case_order_rejected, then raise.
MarkRejected ==
  /\ phase = "failed"
  /\ cases' = [cases EXCEPT ![target].status = "order_rejected"]
  /\ EndIteration
  /\ UNCHANGED <<exchangeVars, executionVars, historyVars, restarts>>

\* Faulty variant of ConfirmOpen: a case without a listed position stays as it is.
ConfirmOpenIfListed ==
  /\ phase = "accepted"
  /\ \E n \in {None} \cup {m \in Held : positions[m].symbol = cases[target].symbol} :
       cases' = IF n = None THEN cases
                ELSE [cases EXCEPT ![target].status = "open", ![target].position = n]
  /\ CountOrder(cases[target].symbol)
  /\ EndIteration
  /\ UNCHANGED <<exchangeVars, historyVars, restarts>>

\* The positions of the symbol are read; the new one may not be listed yet.
ConfirmOpen ==
  /\ phase = "accepted"
  /\ \E n \in {None} \cup {m \in Held : positions[m].symbol = cases[target].symbol} :
       cases' = [cases EXCEPT ![target].status = "open", ![target].position = n]
  /\ CountOrder(cases[target].symbol)
  /\ EndIteration
  /\ UNCHANGED <<exchangeVars, historyVars, restarts>>

---------------------------------------------------------------------------
(* What happens around the loop                                            *)

\* Take profit, stop loss, liquidation, or an operator on the exchange.
ExchangeCloses ==
  /\ \E n \in Held : Shut(n)
  /\ UNCHANGED <<cases, executionVars, phase, iterationVars, historyVars, restarts>>

ManualPositions == {n \in DOMAIN positions : positions[n].case = Manual}

\* `place-order` from another process opens a position without a case.
OperatorOpens ==
  /\ Cardinality(ManualPositions) < MaxManual
  /\ \E s \in Symbols, d \in Directions : positions' = Append(positions, Opened(s, d, Manual))
  /\ UNCHANGED <<cases, executionVars, phase, iterationVars, historyVars, restarts>>

CooldownPasses ==
  /\ phase = "idle"
  /\ \E s \in cooling : cooling' = cooling \ {s}
  /\ UNCHANGED <<exchangeVars, cases, ordersSent, phase, iterationVars, historyVars, restarts>>

\* Ctrl+C or a kill at any point, and a new process.
Restart ==
  /\ restarts < MaxRestarts
  /\ restarts' = restarts + 1
  /\ ordersSent' = 0 /\ cooling' = {}
  /\ requests' = 0 /\ unheard' = 0
  /\ EndIteration
  /\ UNCHANGED <<exchangeVars, cases>>

Iteration ==
  \/ Begin \/ Abandon
  \/ FindStale \/ NoneStale \/ FlashClose \/ FlashCloseUnheard \/ Settle
  \/ ReadPositions \/ (\E s \in Symbols : CreateCase(s))
  \/ OrderAccepted \/ OrderRefused \/ MarkRejected \/ ConfirmOpen

Next ==
  \/ Iteration
  \/ ExchangeCloses \/ OperatorOpens \/ CooldownPasses \/ Restart

Spec == Init /\ [][Next]_vars

\* The loop goes on, pairs become active again and again, and no call to the
\* exchange fails for ever.
FairSpec ==
  /\ Spec
  /\ WF_vars(Iteration)
  /\ SF_vars(Begin /\ active' # {}) /\ SF_vars(NoneStale) /\ SF_vars(ReadPositions)

---------------------------------------------------------------------------

\* The bot never holds two positions of its own, whatever replies were lost,
\* whatever was left uncounted, and however often it was restarted: an order
\* goes out only after a read that shows no position at all (app.py:925-934).
OneBotPosition ==
  \A m, n \in Held \ ManualPositions : m = n

\* At most one trade case is open, and none is while an order is on its way:
\* an open case whose position is gone is closed before the next order
\* (app.py:928, 701-712).
OneOpenCase ==
  /\ \A i, j \in Open : i = j
  /\ phase \in {"margin", "place", "accepted", "failed"} => Open = {}

\* The case a closed position's result is written to is found by its symbol
\* alone (app.py:606), and the position attached to a case by its symbol and
\* side (app.py:724-731).  Without an operator it is always the case's own.
ResultsGoToTheirCase ==
  ManualPositions = {} =>
    \A i \in DOMAIN cases :
      cases[i].position # None => positions[cases[i].position].case = i

\* The order cap bounds what the process had done at the exchange, closes
\* included, up to what it did not hear of (app.py:897, 867, 1022).
CapBoundsRequests ==
  phase = "idle" => requests = ordersSent + unheard

\* Only a lost reply or a restart leaves the bot with a position the journal
\* does not show as open (app.py:1007-1020, 694-733).
JournalKnowsPositions ==
  phase = "idle" /\ unheard = 0 /\ restarts = 0 /\ ManualPositions = {} =>
    \A n \in Held : cases[positions[n].case].status = "open"

\* On an account only the bot trades on, an open case whose position is gone is
\* closed in the end, unless the order cap is reached first (app.py:897, 928).
ClosedOrCapped ==
  \A i \in 1 .. MaxCases :
    (i \in Open /\ \A n \in Held : positions[n].case # i)
      ~> (i \notin Open \/ ordersSent = MaxLiveOrders)

\* A case ends once: no result is written to a case that is closed or was
\* rejected, and a case that was open is never taken for rejected
\* (app.py:562-740).
CasesEndOnce ==
  [][\A i \in DOMAIN cases :
       /\ cases[i].status \in {"closed", "order_rejected"} => cases'[i] = cases[i]
       /\ cases[i].status = "open" => cases'[i].status \in {"open", "closed"}]_vars

============================================================================
