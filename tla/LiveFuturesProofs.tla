-------------------------- MODULE LiveFuturesProofs --------------------------
(***************************************************************************)
(* The live futures loop for any symbols, any cap and any number of cases: *)
(* every safety property its runs check, as a theorem of Spec.             *)
(***************************************************************************)
EXTENDS LiveFutures, SequenceTheorems, TLAPS

\* A step that writes every case anew leaves a sequence of cases.
LEMMA CasesRewritten ==
  ASSUME cases \in Seq(TradeCase), NEW g,
         g = [i \in DOMAIN cases |-> g[i]],
         \A i \in DOMAIN cases : g[i] \in TradeCase
  PROVE  g \in Seq(TradeCase) /\ DOMAIN g = DOMAIN cases
<1>1. DOMAIN cases = 1 .. Len(cases) /\ Len(cases) \in Nat
  OBVIOUS
<1>2. g \in [1 .. Len(cases) -> TradeCase]
  BY <1>1
<1> QED BY <1>1, <1>2

SameDeal(c, d) == c.symbol = d.symbol /\ c.direction = d.direction

\* A closed case keeps its deal and takes the given position.
LEMMA ClosedTyped ==
  ASSUME NEW c \in TradeCase, NEW p \in Nat, NEW r \in Results
  PROVE  /\ Closed(c, p, r) \in TradeCase /\ Closed(c, p, r).status = "closed"
         /\ Closed(c, p, r).position = p
         /\ SameDeal(Closed(c, p, r), c)
BY DEF SameDeal, Closed, TradeCase, Statuses

\* Comparing a case with the exchange keeps its deal, touches open cases only,
\* and takes a position from the view alone.
LEMMA ReconciledTyped ==
  ASSUME TypeOK, NEW view \in Views, NEW c \in TradeCase
  PROVE  /\ Reconciled(c, view) \in TradeCase
         /\ Reconciled(c, view).status \in {c.status, "closed"}
         /\ c.status # "open" => Reconciled(c, view) = c
         /\ SameDeal(Reconciled(c, view), c)
         /\ Reconciled(c, view).position # c.position =>
              c.symbol \in DOMAIN view /\ Reconciled(c, view).position = view[c.symbol]
<1>1. \A s \in DOMAIN view : view[s] \in Nat
  <2>1. Held \subseteq Nat
    BY DEF Held, TypeOK
  <2>2. \A s \in DOMAIN view : view[s] \in Held
    BY DEF Views
  <2> QED BY <2>1, <2>2
<1>2. c.position \in Nat
  BY DEF TradeCase
<1>3. /\ Closed(c, c.position, "missing") \in TradeCase
      /\ Closed(c, c.position, "missing").status = "closed"
      /\ Closed(c, c.position, "missing").position = c.position
      /\ SameDeal(Closed(c, c.position, "missing"), c)
  BY <1>2, ClosedTyped DEF Results
<1>4. /\ Closed(c, c.position, "mismatch") \in TradeCase
      /\ Closed(c, c.position, "mismatch").status = "closed"
      /\ Closed(c, c.position, "mismatch").position = c.position
      /\ SameDeal(Closed(c, c.position, "mismatch"), c)
  BY <1>2, ClosedTyped DEF Results
<1>5. ASSUME c.symbol \in DOMAIN view
      PROVE  /\ [c EXCEPT !.position = view[c.symbol]] \in TradeCase
             /\ [c EXCEPT !.position = view[c.symbol]].status = c.status
             /\ [c EXCEPT !.position = view[c.symbol]].position = view[c.symbol]
             /\ SameDeal([c EXCEPT !.position = view[c.symbol]], c)
  BY <1>1, <1>5 DEF TradeCase, SameDeal
<1>6. SameDeal(c, c)
  BY DEF SameDeal
<1>7. CASE c.status # "open" \/ c.symbol \notin DOMAIN view
  BY <1>3, <1>6, <1>7 DEF Reconciled
<1>8. CASE c.status = "open" /\ c.symbol \in DOMAIN view
  BY <1>4, <1>5, <1>8 DEF Reconciled
<1> QED BY <1>7, <1>8

---------------------------------------------------------------------------
(* How cases and positions change: what every action below relies on.      *)

\* The cases after Settle and after ReadPositions.
LEMMA SettledTyped ==
  ASSUME TypeOK, phase = "settle"
  PROVE  /\ Settled \in Seq(TradeCase) /\ DOMAIN Settled = DOMAIN cases
         /\ \A i \in DOMAIN cases :
              /\ Settled[i].status \in {cases[i].status, "closed"}
              /\ cases[i].status # "open" => Settled[i] = cases[i]
              /\ SameDeal(Settled[i], cases[i])
              /\ Settled[i].position # cases[i].position =>
                   i \in Open /\ Settled[i].position = target
<1>1. target \in Nat
  BY DEF TypeOK
<1>2. \A i \in DOMAIN cases : cases[i] \in TradeCase
  BY DEF TypeOK
<1>3. \A i \in DOMAIN cases :
        /\ Closed(cases[i], target, "reported") \in TradeCase
        /\ Closed(cases[i], target, "reported").status = "closed"
        /\ Closed(cases[i], target, "reported").position = target
        /\ SameDeal(Closed(cases[i], target, "reported"), cases[i])
  BY <1>1, <1>2, ClosedTyped DEF Results
<1>4. /\ Settled = [i \in DOMAIN cases |-> Settled[i]]
      /\ \A i \in DOMAIN cases :
           Settled[i] = IF i \in Newest(positions[target].symbol)
                        THEN Closed(cases[i], target, "reported") ELSE cases[i]
  BY DEF Settled
<1>5. \A i \in Newest(positions[target].symbol) :
        i \in DOMAIN cases /\ cases[i].status = "open" /\ i \in Open
  BY DEF Newest, Open
<1>6. \A i \in DOMAIN cases : Settled[i] \in TradeCase
  BY <1>2, <1>3, <1>4
<1>7. Settled \in Seq(TradeCase) /\ DOMAIN Settled = DOMAIN cases
  BY <1>4, <1>6, CasesRewritten DEF TypeOK
<1> QED BY <1>3, <1>4, <1>5, <1>7 DEF SameDeal

\* Reading the positions does to every case what the comparison does to one.
LEMMA ReadTyped ==
  ASSUME TypeOK, NEW view \in Views,
         cases' = [i \in DOMAIN cases |-> Reconciled(cases[i], view)]
  PROVE  /\ cases' \in Seq(TradeCase) /\ DOMAIN cases' = DOMAIN cases
         /\ \A i \in DOMAIN cases :
              /\ cases'[i].status \in {cases[i].status, "closed"}
              /\ cases[i].status # "open" => cases'[i] = cases[i]
              /\ SameDeal(cases'[i], cases[i])
              /\ cases'[i].position # cases[i].position =>
                   /\ i \in Open /\ cases[i].symbol \in DOMAIN view
                   /\ cases'[i].position = view[cases[i].symbol]
<1>1. \A i \in DOMAIN cases :
        /\ Reconciled(cases[i], view) \in TradeCase
        /\ Reconciled(cases[i], view).status \in {cases[i].status, "closed"}
        /\ cases[i].status # "open" => Reconciled(cases[i], view) = cases[i]
        /\ SameDeal(Reconciled(cases[i], view), cases[i])
        /\ Reconciled(cases[i], view).position # cases[i].position =>
             /\ cases[i].symbol \in DOMAIN view
             /\ Reconciled(cases[i], view).position = view[cases[i].symbol]
  BY ReconciledTyped DEF TypeOK
<1>2. \A i \in DOMAIN cases : cases'[i] = Reconciled(cases[i], view)
  OBVIOUS
<1>3. cases' \in Seq(TradeCase) /\ DOMAIN cases' = DOMAIN cases
  <2>1. cases' = [i \in DOMAIN cases |-> cases'[i]]
    OBVIOUS
  <2> QED BY <1>1, <1>2, <2>1, CasesRewritten DEF TypeOK
<1> QED BY <1>1, <1>2, <1>3 DEF Open

\* A position that is shut keeps everything but being open.
LEMMA ShutTyped ==
  ASSUME TypeOK, NEW n \in Held, Shut(n)
  PROVE  /\ positions' \in Seq(LivePosition) /\ DOMAIN positions' = DOMAIN positions
         /\ \A m \in DOMAIN positions :
              /\ positions'[m].symbol = positions[m].symbol
              /\ positions'[m].direction = positions[m].direction
              /\ positions'[m].case = positions[m].case
              /\ positions'[m].open => positions[m].open
         /\ ~positions'[n].open
<1>1. n \in DOMAIN positions /\ positions[n] \in LivePosition
  BY DEF Held, TypeOK
<1>2. [positions[n] EXCEPT !.open = FALSE] \in LivePosition
  BY <1>1 DEF LivePosition
<1>3. positions' = [positions EXCEPT ![n] = [positions[n] EXCEPT !.open = FALSE]]
  BY <1>1 DEF Shut
<1>4. positions' \in Seq(LivePosition) /\ DOMAIN positions' = DOMAIN positions
  BY <1>1, <1>2, <1>3 DEF TypeOK
<1>5. \A m \in DOMAIN positions : positions[m] \in LivePosition
  BY DEF TypeOK
<1>6. /\ positions'[n] = [positions[n] EXCEPT !.open = FALSE]
      /\ \A m \in DOMAIN positions : m # n => positions'[m] = positions[m]
  BY <1>1, <1>3
<1>7. ~positions'[n].open /\ positions'[n].symbol = positions[n].symbol
      /\ positions'[n].direction = positions[n].direction /\ positions'[n].case = positions[n].case
  BY <1>1, <1>6 DEF LivePosition
<1> QED BY <1>4, <1>6, <1>7

\* A new position comes last and the others stay as they are.
LEMMA OpenedTyped ==
  ASSUME TypeOK, NEW s \in Symbols, NEW d \in Directions, NEW c \in Nat,
         positions' = Append(positions, Opened(s, d, c))
  PROVE  /\ positions' \in Seq(LivePosition)
         /\ DOMAIN positions' = DOMAIN positions \cup {Len(positions) + 1}
         /\ Len(positions) + 1 \notin DOMAIN positions
         /\ positions'[Len(positions) + 1] = Opened(s, d, c)
         /\ \A m \in DOMAIN positions : positions'[m] = positions[m]
<1>1. Opened(s, d, c) \in LivePosition
  BY DEF Opened, LivePosition
<1> HIDE DEF Opened
<1>2. positions \in Seq(LivePosition)
  BY DEF TypeOK
<1> QED BY <1>1, <1>2

\* Only the case under way is replaced.
LEMMA CaseReplaced ==
  ASSUME TypeOK, target \in DOMAIN cases,
         NEW c \in TradeCase, cases' = [cases EXCEPT ![target] = c]
  PROVE  /\ cases' \in Seq(TradeCase) /\ DOMAIN cases' = DOMAIN cases
         /\ cases'[target] = c
         /\ \A i \in DOMAIN cases : i # target => cases'[i] = cases[i]
BY DEF TypeOK

\* A rejected order leaves the deal of its case and every other case alone.
LEMMA RejectedTyped ==
  ASSUME TypeOK, target \in DOMAIN cases,
         cases' = [cases EXCEPT ![target].status = "order_rejected"]
  PROVE  /\ cases' \in Seq(TradeCase) /\ DOMAIN cases' = DOMAIN cases
         /\ cases'[target].status = "order_rejected"
         /\ cases'[target].position = cases[target].position
         /\ SameDeal(cases'[target], cases[target])
         /\ \A i \in DOMAIN cases : i # target => cases'[i] = cases[i]
<1> DEFINE c == [cases[target] EXCEPT !.status = "order_rejected"]
<1>1. cases[target] \in TradeCase
  BY DEF TypeOK
<1>2. /\ c \in TradeCase /\ c.status = "order_rejected"
      /\ c.position = cases[target].position /\ SameDeal(c, cases[target])
  BY <1>1 DEF TradeCase, Statuses, SameDeal
<1>3. cases' = [cases EXCEPT ![target] = c]
  OBVIOUS
<1> HIDE DEF c
<1> QED BY <1>2, <1>3, CaseReplaced

\* A confirmed order gives its case a position and leaves every other alone.
LEMMA ConfirmedTyped ==
  ASSUME TypeOK, target \in DOMAIN cases, NEW n \in {None} \cup Held,
         cases' = [cases EXCEPT ![target].status = "open", ![target].position = n]
  PROVE  /\ cases' \in Seq(TradeCase) /\ DOMAIN cases' = DOMAIN cases
         /\ cases'[target].status = "open" /\ cases'[target].position = n
         /\ SameDeal(cases'[target], cases[target])
         /\ \A i \in DOMAIN cases : i # target => cases'[i] = cases[i]
<1> DEFINE c == [cases[target] EXCEPT !.status = "open", !.position = n]
<1>1. cases[target] \in TradeCase
  BY DEF TypeOK
<1>2. n \in Nat
  BY DEF Held, None, TypeOK
<1>3. c \in TradeCase /\ c.status = "open" /\ c.position = n /\ SameDeal(c, cases[target])
  BY <1>1, <1>2 DEF TradeCase, Statuses, SameDeal
<1>4. cases' = [cases EXCEPT ![target] = c]
  BY DEF TypeOK
<1> HIDE DEF c
<1> QED BY <1>3, <1>4, CaseReplaced

\* A created case is new, waits for its order and has no position yet.
LEMMA CreateTyped ==
  ASSUME TypeOK, NEW s \in Symbols, CreateCase(s)
  PROVE  /\ cases' \in Seq(TradeCase)
         /\ DOMAIN cases' = DOMAIN cases \cup {target'}
         /\ target' \notin DOMAIN cases /\ target' \in Nat
         /\ cases'[target'].status = "pending_order" /\ cases'[target'].position = None
         /\ \A i \in DOMAIN cases : cases'[i] = cases[i]
<1> DEFINE c == [symbol |-> s, direction |-> desired[s], status |-> "pending_order",
                 position |-> None, result |-> "none"]
<1>1. cases' = Append(cases, c) /\ target' = Len(cases) + 1 /\ cases \in Seq(TradeCase)
  BY DEF CreateCase, TypeOK
<1>2. c \in TradeCase /\ c.status = "pending_order" /\ c.position = None
  <2>1. desired[s] \in Directions
    BY DEF CreateCase, TypeOK
  <2> QED BY <2>1 DEF TradeCase, Statuses, Results, None
<1> HIDE DEF c
<1> QED BY <1>1, <1>2

---------------------------------------------------------------------------
(* Types                                                                   *)

\* What the types rest on: an iteration that is under way has not reached the cap.
BelowCap == phase # "idle" => ordersSent < MaxLiveOrders

\* Every action keeps the types; EndIteration resets what belongs to one.
LEMMA TypeStep ==
  ASSUME TypeOK, BelowCap, LiveAssumption, [Next]_vars
  PROVE  TypeOK' /\ BelowCap'
<1> USE DEF exchangeVars, executionVars, iterationVars, historyVars, Phases
<1> DEFINE Loop == /\ ordersSent \in 0 .. MaxLiveOrders /\ cooling \subseteq Symbols
                   /\ phase \in Phases /\ active \subseteq Symbols
                   /\ desired \in [active -> Directions] /\ target \in Nat
           History == requests \in Nat /\ unheard \in Nat /\ restarts \in Nat
<1>0. /\ positions \in Seq(LivePosition) /\ cases \in Seq(TradeCase)
      /\ Loop /\ History
      /\ phase \in {"closing", "settle"} => target \in DOMAIN positions
      /\ phase \in {"place", "accepted", "failed"} => target \in DOMAIN cases
  BY DEF TypeOK
<1>01. /\ \A n \in DOMAIN positions : positions[n].symbol \in Symbols
       /\ \A i \in DOMAIN cases : cases[i].symbol \in Symbols /\ cases[i].direction \in Directions
  <2>1. \A n \in DOMAIN positions : positions[n] \in LivePosition
    BY <1>0
  <2>2. \A i \in DOMAIN cases : cases[i] \in TradeCase
    BY <1>0
  <2>3. \A n \in DOMAIN positions : positions[n].symbol \in Symbols
    BY <2>1 DEF LivePosition
  <2>4. \A i \in DOMAIN cases : cases[i].symbol \in Symbols /\ cases[i].direction \in Directions
    BY <2>2 DEF TradeCase
  <2> QED BY <2>3, <2>4
<1>1. CASE Begin
  BY <1>0, <1>1 DEF Begin, TypeOK, BelowCap, LiveAssumption
<1>2. ASSUME EndIteration
      PROVE  /\ phase' = "idle" /\ active' \subseteq Symbols
             /\ desired' \in [active' -> Directions] /\ target' \in Nat
  BY <1>2 DEF EndIteration, NoDirections, None
<1>3. CASE Abandon
  BY <1>0, <1>2, <1>3 DEF Abandon, TypeOK, BelowCap
<1>4. CASE FindStale
  BY <1>0, <1>4 DEF FindStale, Held, TypeOK, BelowCap
<1>5. CASE NoneStale
  BY <1>0, <1>5 DEF NoneStale, TypeOK, BelowCap
<1>6. CASE FlashClose
  BY <1>0, <1>6, ShutTyped DEF FlashClose, TypeOK, BelowCap
<1>7. CASE FlashCloseUnheard
  BY <1>0, <1>2, <1>7, ShutTyped DEF FlashCloseUnheard, TypeOK, BelowCap
<1>8. CASE Settle
  <2>1. positions[target].symbol \in Symbols
    <3>1. phase = "settle"
      BY <1>8 DEF Settle
    <3> QED BY <1>0, <1>01, <3>1
  <2> QED BY <1>0, <1>2, <1>8, <2>1, SettledTyped DEF Settle, CountOrder, TypeOK, BelowCap, LiveAssumption
<1>9. CASE ReadPositions
  <2>1. cases' \in Seq(TradeCase)
    BY <1>9, ReadTyped DEF ReadPositions
  <2> QED BY <1>0, <1>2, <1>9, <2>1 DEF ReadPositions, TypeOK, BelowCap
<1>10. ASSUME NEW s \in Symbols, CreateCase(s)
       PROVE  TypeOK' /\ BelowCap'
  BY <1>0, <1>10, CreateTyped DEF CreateCase, TypeOK, BelowCap
<1>11. CASE OrderAccepted
  <2>1. cases[target].symbol \in Symbols /\ cases[target].direction \in Directions
    <3>1. phase = "place"
      BY <1>11 DEF OrderAccepted
    <3> QED BY <1>0, <1>01, <3>1
  <2>2. positions' \in Seq(LivePosition)
    BY <1>0, <1>11, <2>1, OpenedTyped DEF OrderAccepted
  <2> QED BY <1>0, <1>11, <2>2 DEF OrderAccepted, TypeOK, BelowCap
<1>12. CASE OrderRefused
  BY <1>0, <1>12 DEF OrderRefused, TypeOK, BelowCap
<1>13. CASE MarkRejected
  BY <1>0, <1>2, <1>13, RejectedTyped DEF MarkRejected, TypeOK, BelowCap
<1>14. CASE ConfirmOpen
  <2>1. cases[target].symbol \in Symbols
    <3>1. phase = "accepted"
      BY <1>14 DEF ConfirmOpen
    <3> QED BY <1>0, <1>01, <3>1
  <2>2. cases' \in Seq(TradeCase)
    BY <1>0, <1>14, ConfirmedTyped DEF ConfirmOpen
  <2> QED BY <1>0, <1>2, <1>14, <2>1, <2>2 DEF ConfirmOpen, CountOrder, TypeOK, BelowCap, LiveAssumption
<1>15. CASE ExchangeCloses
  BY <1>0, <1>15, ShutTyped DEF ExchangeCloses, TypeOK, BelowCap
<1>16. CASE OperatorOpens
  <2>1. /\ positions' \in Seq(LivePosition)
        /\ DOMAIN positions \subseteq DOMAIN positions'
    BY <1>16, OpenedTyped DEF OperatorOpens, Manual
  <2> QED BY <1>0, <1>16, <2>1 DEF OperatorOpens, TypeOK, BelowCap
<1>17. CASE CooldownPasses
  BY <1>0, <1>17 DEF CooldownPasses, TypeOK, BelowCap
<1>18. CASE Restart
  BY <1>0, <1>2, <1>18 DEF Restart, TypeOK, BelowCap, LiveAssumption
<1>19. CASE UNCHANGED vars
  BY <1>0, <1>19 DEF vars, TypeOK, BelowCap
<1> QED
  BY <1>1, <1>3, <1>4, <1>5, <1>6, <1>7, <1>8, <1>9, <1>10, <1>11, <1>12, <1>13, <1>14,
     <1>15, <1>16, <1>17, <1>18, <1>19 DEF Next, Iteration

\* The types hold for any symbols, cap and bounds.
THEOREM TypeCorrect == Spec => []TypeOK
<1>1. Init => TypeOK /\ BelowCap
  BY LiveAssumption DEF Init, TypeOK, BelowCap, LiveAssumption, Phases, NoDirections, None
<1>2. TypeOK /\ BelowCap /\ [Next]_vars => TypeOK' /\ BelowCap'
  BY TypeStep, LiveAssumption
<1> QED BY <1>1, <1>2, PTL DEF Spec

---------------------------------------------------------------------------
(* One open case                                                           *)

Ordering == {"margin", "place", "accepted", "failed"}

\* OneOpenCase is inductive: a case is opened only where none is open, and the
\* read that leads there closes every case that has no position.
LEMMA OneOpenCaseStep ==
  ASSUME TypeOK, OneOpenCase, [Next]_vars
  PROVE  OneOpenCase'
<1> USE DEF exchangeVars, executionVars, iterationVars, historyVars, Ordering
<1>1. /\ \A i, j \in Open : i = j
      /\ phase \in Ordering => Open = {}
  BY DEF OneOpenCase
<1>2. ASSUME Open' \subseteq Open, phase' \in Ordering => phase \in Ordering \/ Open' = {}
      PROVE  OneOpenCase'
  BY <1>1, <1>2 DEF OneOpenCase
<1>3. ASSUME UNCHANGED cases, phase' \in Ordering => phase \in Ordering
      PROVE  OneOpenCase'
  BY <1>2, <1>3 DEF Open
<1>4. CASE \/ Begin \/ Abandon \/ FindStale \/ NoneStale \/ FlashClose \/ FlashCloseUnheard
           \/ OrderAccepted \/ OrderRefused \/ ExchangeCloses \/ OperatorOpens
           \/ CooldownPasses \/ Restart \/ UNCHANGED vars
  <2>1. UNCHANGED cases
    BY <1>4 DEF Begin, Abandon, FindStale, NoneStale, FlashClose, FlashCloseUnheard, OrderAccepted,
       OrderRefused, ExchangeCloses, OperatorOpens, CooldownPasses, Restart, vars
  <2>2. phase' \in Ordering => phase \in Ordering
    BY <1>4 DEF Begin, Abandon, FindStale, NoneStale, FlashClose, FlashCloseUnheard, OrderAccepted,
       OrderRefused, ExchangeCloses, OperatorOpens, CooldownPasses, Restart, vars, EndIteration
  <2> QED BY <1>3, <2>1, <2>2
<1>5. CASE Settle
  <2>1. cases' = Settled /\ phase = "settle" /\ phase' = "idle"
    BY <1>5 DEF Settle, EndIteration
  <2>2. Open' \subseteq Open
    BY <2>1, SettledTyped DEF Open
  <2> QED BY <1>2, <2>1, <2>2
<1>6. CASE ReadPositions
  <2>1. PICK view \in Views : cases' = [i \in DOMAIN cases |-> Reconciled(cases[i], view)]
    BY <1>6 DEF ReadPositions
  <2>2. Open' \subseteq Open
    BY <2>1, ReadTyped DEF Open
  <2>3. CASE Held = {}
    <3>1. DOMAIN view = {}
      BY <2>3 DEF Views
    <3>2. \A i \in DOMAIN cases : cases'[i] = Reconciled(cases[i], view)
      BY <2>1
    <3>3. \A i \in Open : Reconciled(cases[i], view) = Closed(cases[i], cases[i].position, "missing")
      BY <3>1 DEF Open, Reconciled
    <3>4. \A i \in Open : cases'[i].status = "closed"
      <4>1. TAKE i \in Open
      <4>2. i \in DOMAIN cases /\ cases[i] \in TradeCase
        BY DEF Open, TypeOK
      <4>3. cases[i].position \in Nat
        BY <4>2 DEF TradeCase
      <4>4. "missing" \in Results
        BY DEF Results
      <4>5. Closed(cases[i], cases[i].position, "missing").status = "closed"
        BY <4>2, <4>3, <4>4, ClosedTyped
      <4>6. cases'[i] = Closed(cases[i], cases[i].position, "missing")
        BY <3>2, <3>3, <4>2
      <4> QED BY <4>5, <4>6
    <3> QED BY <1>2, <2>2, <3>4 DEF Open
  <2>4. CASE Held # {}
    BY <1>2, <1>6, <2>2, <2>4 DEF ReadPositions, EndIteration
  <2> QED BY <2>3, <2>4
<1>7. ASSUME NEW s \in Symbols, CreateCase(s)
      PROVE  OneOpenCase'
  <2>1. phase = "margin"
    BY <1>7 DEF CreateCase
  <2>2. Open' \subseteq Open
    BY <1>7, CreateTyped DEF Open
  <2> QED BY <1>2, <2>1, <2>2
<1>8. CASE MarkRejected
  <2>1. /\ target \in DOMAIN cases
        /\ cases' = [cases EXCEPT ![target].status = "order_rejected"]
        /\ phase' = "idle"
    BY <1>8 DEF MarkRejected, EndIteration, TypeOK
  <2>2. Open' \subseteq Open
    BY <2>1, RejectedTyped DEF Open
  <2> QED BY <1>2, <2>1, <2>2
<1>9. CASE ConfirmOpen
  <2>1. target \in DOMAIN cases /\ phase = "accepted" /\ phase' = "idle"
    BY <1>9 DEF ConfirmOpen, EndIteration, TypeOK
  <2>2. PICK n \in {None} \cup Held :
          cases' = [cases EXCEPT ![target].status = "open", ![target].position = n]
    BY <1>9 DEF ConfirmOpen
  <2>3. Open' \subseteq {target}
    BY <1>1, <2>1, <2>2, ConfirmedTyped DEF Open
  <2> QED BY <2>1, <2>3 DEF OneOpenCase
<1> QED
  BY <1>4, <1>5, <1>6, <1>7, <1>8, <1>9 DEF Next, Iteration

\* At most one case is open, for any number of symbols, orders and restarts.
THEOREM OneCaseOpen == Spec => []OneOpenCase
<1>1. Init => OneOpenCase
  BY DEF Init, OneOpenCase, Open
<1>2. TypeOK /\ OneOpenCase /\ [Next]_vars => OneOpenCase'
  BY OneOpenCaseStep
<1> QED BY <1>1, <1>2, TypeCorrect, PTL DEF Spec

---------------------------------------------------------------------------
(* One position of the bot                                                 *)

BotHeld == Held \ ManualPositions

\* From the read that shows no position to the order, the bot holds none.
Alone == phase \in {"margin", "place"} => BotHeld = {}

\* Closing, or no change, adds no position of the bot.
LEMMA CloseShrinks ==
  ASSUME TypeOK, \/ UNCHANGED positions
                 \/ \E n \in Held : Shut(n)
  PROVE  BotHeld' \subseteq BotHeld
<1>1. CASE UNCHANGED positions
  BY <1>1 DEF BotHeld, Held, ManualPositions
<1>2. CASE \E n \in Held : Shut(n)
  BY <1>2, ShutTyped DEF BotHeld, Held, ManualPositions
<1> QED BY <1>1, <1>2

\* No step opens a second position of the bot.
LEMMA OneBotPositionStep ==
  ASSUME TypeOK, OneBotPosition, Alone, [Next]_vars
  PROVE  OneBotPosition' /\ Alone'
<1> USE DEF exchangeVars, executionVars, iterationVars, historyVars
<1>1. \A m, n \in BotHeld : m = n
  BY DEF OneBotPosition, BotHeld
<1>2. ASSUME BotHeld' \subseteq BotHeld,
             phase' \in {"margin", "place"} => phase \in {"margin", "place"} \/ BotHeld' = {}
      PROVE  OneBotPosition' /\ Alone'
  <2>1. OneBotPosition'
    BY <1>1, <1>2 DEF OneBotPosition, BotHeld
  <2>2. Alone'
    BY <1>2 DEF Alone
  <2> QED BY <2>1, <2>2
<1>3. CASE \/ Begin \/ Abandon \/ FindStale \/ NoneStale \/ FlashClose \/ FlashCloseUnheard
           \/ Settle \/ (\E s \in Symbols : CreateCase(s)) \/ OrderRefused \/ MarkRejected
           \/ ConfirmOpen \/ ExchangeCloses \/ CooldownPasses \/ Restart \/ UNCHANGED vars
  <2>1. UNCHANGED positions \/ \E n \in Held : Shut(n)
    BY <1>3 DEF Begin, Abandon, FindStale, NoneStale, FlashClose, FlashCloseUnheard, Settle,
       CreateCase, OrderRefused, MarkRejected, ConfirmOpen, ExchangeCloses, CooldownPasses,
       Restart, vars
  <2>2. phase' \in {"margin", "place"} => phase \in {"margin", "place"}
    BY <1>3 DEF Begin, Abandon, FindStale, NoneStale, FlashClose, FlashCloseUnheard, Settle,
       CreateCase, OrderRefused, MarkRejected, ConfirmOpen, ExchangeCloses, CooldownPasses,
       Restart, vars, EndIteration
  <2> QED BY <1>2, <2>1, <2>2, CloseShrinks
<1>4. CASE ReadPositions
  <2>1. BotHeld' \subseteq BotHeld
    BY <1>4, CloseShrinks DEF ReadPositions
  <2>2. phase' \in {"margin", "place"} => Held = {}
    BY <1>4 DEF ReadPositions, EndIteration
  <2> QED BY <1>2, <2>1, <2>2 DEF BotHeld
<1>5. CASE OrderAccepted
  <2>1. phase = "place" /\ BotHeld = {}
    BY <1>5 DEF OrderAccepted, Alone
  <2>2. cases[target] \in TradeCase /\ target \in Nat
    BY <2>1 DEF TypeOK
  <2>3. cases[target].symbol \in Symbols /\ cases[target].direction \in Directions
    BY <2>2 DEF TradeCase
  <2>4. /\ DOMAIN positions' = DOMAIN positions \cup {Len(positions) + 1}
        /\ \A m \in DOMAIN positions : positions'[m] = positions[m]
    BY <1>5, <2>2, <2>3, OpenedTyped DEF OrderAccepted
  <2>5. BotHeld' \subseteq {Len(positions) + 1}
    BY <2>1, <2>4 DEF BotHeld, Held, ManualPositions
  <2>6. phase' \notin {"margin", "place"}
    BY <1>5 DEF OrderAccepted
  <2> QED BY <2>5, <2>6 DEF OneBotPosition, Alone, BotHeld
<1>6. CASE OperatorOpens
  <2>1. PICK s \in Symbols, d \in Directions : positions' = Append(positions, Opened(s, d, Manual))
    BY <1>6 DEF OperatorOpens
  <2>2. /\ DOMAIN positions' = DOMAIN positions \cup {Len(positions) + 1}
        /\ positions'[Len(positions) + 1] = Opened(s, d, Manual)
        /\ \A m \in DOMAIN positions : positions'[m] = positions[m]
    BY <2>1, OpenedTyped DEF Manual
  <2>3. positions'[Len(positions) + 1].case = Manual
    BY <2>2 DEF Opened
  <2>4. BotHeld' \subseteq BotHeld
    BY <2>2, <2>3 DEF BotHeld, Held, ManualPositions
  <2> QED BY <1>2, <1>6, <2>4 DEF OperatorOpens
<1> QED BY <1>3, <1>4, <1>5, <1>6 DEF Next, Iteration

\* The bot holds one position of its own at most, for any number of lost
\* replies, restarts and positions of an operator.
THEOREM OneOwnPosition == Spec => []OneBotPosition
<1>1. Init => OneBotPosition /\ Alone
  BY DEF Init, OneBotPosition, Alone, BotHeld, Held
<1>2. TypeOK /\ OneBotPosition /\ Alone /\ [Next]_vars => OneBotPosition' /\ Alone'
  BY OneBotPositionStep
<1> QED BY <1>1, <1>2, TypeCorrect, PTL DEF Spec

---------------------------------------------------------------------------
(* The order cap                                                           *)

\* What the exchange took and the process has yet to count.
Underway == IF phase \in {"settle", "accepted"} THEN 1 ELSE 0

Accounted == requests = ordersSent + unheard + Underway

\* Every request stays counted, unheard or under way.
LEMMA AccountedStep ==
  ASSUME TypeOK, Accounted, [Next]_vars
  PROVE  Accounted'
<1> USE DEF exchangeVars, executionVars, iterationVars, historyVars, Underway
<1>1. requests \in Nat /\ ordersSent \in Nat /\ unheard \in Nat
  BY LiveAssumption DEF TypeOK, LiveAssumption
<1>2. requests = ordersSent + unheard + Underway
  BY DEF Accounted
<1>3. CASE \/ Begin \/ FindStale \/ NoneStale \/ ReadPositions \/ (\E s \in Symbols : CreateCase(s))
           \/ OrderRefused \/ MarkRejected \/ ExchangeCloses \/ OperatorOpens \/ CooldownPasses
           \/ UNCHANGED vars
  <2>1. UNCHANGED <<requests, ordersSent, unheard>>
    BY <1>3 DEF Begin, FindStale, NoneStale, ReadPositions, CreateCase, OrderRefused, MarkRejected,
       ExchangeCloses, OperatorOpens, CooldownPasses, vars
  <2>2. Underway' = Underway
    BY <1>3 DEF Begin, FindStale, NoneStale, ReadPositions, CreateCase, OrderRefused, MarkRejected,
       ExchangeCloses, OperatorOpens, CooldownPasses, EndIteration, vars
  <2> QED BY <1>2, <2>1, <2>2 DEF Accounted
<1>4. CASE Abandon
  BY <1>1, <1>2, <1>4 DEF Abandon, EndIteration, Accounted
<1>5. CASE FlashClose \/ FlashCloseUnheard
  BY <1>1, <1>2, <1>5 DEF FlashClose, FlashCloseUnheard, EndIteration, Accounted
<1>6. CASE Settle \/ ConfirmOpen
  BY <1>1, <1>2, <1>6 DEF Settle, ConfirmOpen, CountOrder, EndIteration, Accounted
<1>7. CASE OrderAccepted
  BY <1>1, <1>2, <1>7 DEF OrderAccepted, Accounted
<1>8. CASE Restart
  BY <1>8 DEF Restart, EndIteration, Accounted
<1> QED BY <1>3, <1>4, <1>5, <1>6, <1>7, <1>8 DEF Next, Iteration

\* Between two iterations what the exchange took is what was counted, and what
\* was not heard of, for any cap.
THEOREM CapBounds == Spec => []CapBoundsRequests
<1>1. Init => Accounted
  BY DEF Init, Accounted, Underway
<1>2. TypeOK /\ Accounted /\ [Next]_vars => Accounted'
  BY AccountedStep
<1>3. TypeOK /\ Accounted => CapBoundsRequests
  BY LiveAssumption DEF Accounted, Underway, CapBoundsRequests, TypeOK, LiveAssumption
<1> QED BY <1>1, <1>2, <1>3, TypeCorrect, PTL DEF Spec

---------------------------------------------------------------------------
(* Cases end once                                                          *)

\* The case an order is under way for is the one just created.
TargetPending ==
  phase \in {"place", "accepted", "failed"} => cases[target].status = "pending_order"

\* A step either keeps every case that has ended and keeps or closes every open
\* one, or confirms or rejects the pending target.
LEMMA CasesStep ==
  ASSUME TypeOK, [Next]_vars
  PROVE  \/ /\ DOMAIN cases \subseteq DOMAIN cases'
            /\ \A i \in DOMAIN cases :
                 /\ cases'[i].status \in {cases[i].status, "closed"}
                 /\ cases[i].status # "open" => cases'[i] = cases[i]
         \/ /\ phase \in {"accepted", "failed"}
            /\ target \in DOMAIN cases
            /\ \A i \in DOMAIN cases : i # target => cases'[i] = cases[i]
<1> USE DEF exchangeVars, executionVars, iterationVars, historyVars
<1>1. CASE \/ Begin \/ Abandon \/ FindStale \/ NoneStale \/ FlashClose \/ FlashCloseUnheard
           \/ OrderAccepted \/ OrderRefused \/ ExchangeCloses \/ OperatorOpens
           \/ CooldownPasses \/ Restart \/ UNCHANGED vars
  <2>1. UNCHANGED cases
    BY <1>1 DEF Begin, Abandon, FindStale, NoneStale, FlashClose, FlashCloseUnheard, OrderAccepted,
       OrderRefused, ExchangeCloses, OperatorOpens, CooldownPasses, Restart, vars
  <2> QED BY <2>1
<1>2. CASE Settle
  BY <1>2, SettledTyped DEF Settle
<1>3. CASE ReadPositions
  BY <1>3, ReadTyped DEF ReadPositions
<1>4. ASSUME NEW s \in Symbols, CreateCase(s)
      PROVE  /\ DOMAIN cases \subseteq DOMAIN cases'
             /\ \A i \in DOMAIN cases : cases'[i] = cases[i]
  BY <1>4, CreateTyped
<1>5. CASE MarkRejected
  <2>1. phase = "failed" /\ target \in DOMAIN cases
    BY <1>5 DEF MarkRejected, TypeOK
  <2>2. cases' = [cases EXCEPT ![target].status = "order_rejected"]
    BY <1>5 DEF MarkRejected
  <2> QED BY <2>1, <2>2, RejectedTyped
<1>6. CASE ConfirmOpen
  <2>1. phase = "accepted" /\ target \in DOMAIN cases
    BY <1>6 DEF ConfirmOpen, TypeOK
  <2>2. PICK n \in {None} \cup Held :
          cases' = [cases EXCEPT ![target].status = "open", ![target].position = n]
    BY <1>6 DEF ConfirmOpen
  <2> QED BY <2>1, <2>2, ConfirmedTyped
<1> QED BY <1>1, <1>2, <1>3, <1>4, <1>5, <1>6 DEF Next, Iteration

\* The case under way waits for its order as long as it is under way.
LEMMA TargetPendingStep ==
  ASSUME TypeOK, TargetPending, [Next]_vars
  PROVE  TargetPending'
<1> USE DEF exchangeVars, executionVars, iterationVars, historyVars
<1>1. CASE OrderAccepted \/ OrderRefused \/ ExchangeCloses \/ OperatorOpens \/ UNCHANGED vars
  <2>1. UNCHANGED <<cases, target>>
    BY <1>1 DEF OrderAccepted, OrderRefused, ExchangeCloses, OperatorOpens, vars
  <2>2. phase' \in {"place", "accepted", "failed"} => phase \in {"place", "accepted", "failed"}
    BY <1>1 DEF OrderAccepted, OrderRefused, ExchangeCloses, OperatorOpens, vars
  <2> QED BY <2>1, <2>2 DEF TargetPending
<1>2. ASSUME NEW s \in Symbols, CreateCase(s)
      PROVE  TargetPending'
  BY <1>2, CreateTyped DEF TargetPending
<1>3. CASE \/ Begin \/ Abandon \/ FindStale \/ NoneStale \/ FlashClose \/ FlashCloseUnheard
           \/ Settle \/ ReadPositions \/ MarkRejected \/ ConfirmOpen \/ CooldownPasses \/ Restart
  BY <1>3 DEF Begin, Abandon, FindStale, NoneStale, FlashClose, FlashCloseUnheard, Settle,
     ReadPositions, MarkRejected, ConfirmOpen, CooldownPasses, Restart, EndIteration, TargetPending
<1> QED BY <1>1, <1>2, <1>3 DEF Next, Iteration

\* No case is decided twice, for any number of cases.
THEOREM EndOnce == Spec => CasesEndOnce
<1>1. Init => TargetPending
  BY DEF Init, TargetPending
<1>2. TypeOK /\ TargetPending /\ [Next]_vars => TargetPending'
  BY TargetPendingStep
<1>3. ASSUME TypeOK, TargetPending, [Next]_vars
      PROVE  [\A i \in DOMAIN cases :
                /\ cases[i].status \in {"closed", "order_rejected"} => cases'[i] = cases[i]
                /\ cases[i].status = "open" => cases'[i].status \in {"open", "closed"}]_vars
  BY <1>3, CasesStep DEF TargetPending
<1> QED BY <1>1, <1>2, <1>3, TypeCorrect, PTL DEF Spec, CasesEndOnce

---------------------------------------------------------------------------
(* Positions and the cases they belong to                                  *)

\* Positions never change hands: a step adds one or closes one.
LEMMA PositionsKept ==
  ASSUME TypeOK, [Next]_vars
  PROVE  /\ DOMAIN positions \subseteq DOMAIN positions'
         /\ \A n \in DOMAIN positions :
              /\ SameDeal(positions'[n], positions[n])
              /\ positions'[n].case = positions[n].case
              /\ positions'[n].open => positions[n].open
         /\ OrderAccepted \/ OperatorOpens \/ DOMAIN positions' = DOMAIN positions
<1> USE DEF exchangeVars, executionVars, iterationVars, historyVars
<1>1. CASE \/ Begin \/ Abandon \/ FindStale \/ NoneStale \/ Settle \/ ReadPositions
           \/ (\E s \in Symbols : CreateCase(s)) \/ OrderRefused \/ MarkRejected
           \/ ConfirmOpen \/ CooldownPasses \/ Restart \/ UNCHANGED vars
  <2>1. UNCHANGED positions
    BY <1>1 DEF Begin, Abandon, FindStale, NoneStale, Settle, ReadPositions, CreateCase,
       OrderRefused, MarkRejected, ConfirmOpen, CooldownPasses, Restart, vars
  <2> QED BY <2>1 DEF SameDeal
<1>2. CASE FlashClose \/ FlashCloseUnheard \/ ExchangeCloses
  <2>1. PICK n \in Held : Shut(n)
    BY <1>2 DEF FlashClose, FlashCloseUnheard, ExchangeCloses
  <2> QED BY <2>1, ShutTyped DEF SameDeal
<1>3. CASE OrderAccepted
  <2>1. target \in Nat /\ cases[target] \in TradeCase
    BY <1>3 DEF OrderAccepted, TypeOK
  <2>2. cases[target].symbol \in Symbols /\ cases[target].direction \in Directions
    BY <2>1 DEF TradeCase
  <2> QED BY <1>3, <2>1, <2>2, OpenedTyped DEF OrderAccepted, SameDeal
<1>4. CASE OperatorOpens
  <2>1. PICK s \in Symbols, d \in Directions : positions' = Append(positions, Opened(s, d, Manual))
    BY <1>4 DEF OperatorOpens
  <2> QED BY <1>4, <2>1, OpenedTyped DEF Manual, SameDeal
<1> QED BY <1>1, <1>2, <1>3, <1>4 DEF Next, Iteration

\* Nor do cases: what a case is about never changes.
LEMMA DealsKept ==
  ASSUME TypeOK, [Next]_vars
  PROVE  /\ DOMAIN cases \subseteq DOMAIN cases'
         /\ \A i \in DOMAIN cases : SameDeal(cases'[i], cases[i])
<1> USE DEF exchangeVars, executionVars, iterationVars, historyVars
<1>1. CASE \/ Begin \/ Abandon \/ FindStale \/ NoneStale \/ FlashClose \/ FlashCloseUnheard
           \/ OrderAccepted \/ OrderRefused \/ ExchangeCloses \/ OperatorOpens
           \/ CooldownPasses \/ Restart \/ UNCHANGED vars
  <2>1. UNCHANGED cases
    BY <1>1 DEF Begin, Abandon, FindStale, NoneStale, FlashClose, FlashCloseUnheard, OrderAccepted,
       OrderRefused, ExchangeCloses, OperatorOpens, CooldownPasses, Restart, vars
  <2> QED BY <2>1 DEF SameDeal
<1>2. CASE Settle
  BY <1>2, SettledTyped DEF Settle
<1>3. CASE ReadPositions
  BY <1>3, ReadTyped DEF ReadPositions
<1>4. ASSUME NEW s \in Symbols, CreateCase(s)
      PROVE  /\ DOMAIN cases \subseteq DOMAIN cases'
             /\ \A i \in DOMAIN cases : SameDeal(cases'[i], cases[i])
  BY <1>4, CreateTyped DEF SameDeal
<1>5. CASE MarkRejected
  <2>1. target \in DOMAIN cases /\ cases' = [cases EXCEPT ![target].status = "order_rejected"]
    BY <1>5 DEF MarkRejected, TypeOK
  <2> QED BY <2>1, RejectedTyped DEF SameDeal
<1>6. CASE ConfirmOpen
  <2>1. target \in DOMAIN cases
    BY <1>6 DEF ConfirmOpen, TypeOK
  <2>2. PICK n \in {None} \cup Held :
          cases' = [cases EXCEPT ![target].status = "open", ![target].position = n]
    BY <1>6 DEF ConfirmOpen
  <2> QED BY <2>1, <2>2, ConfirmedTyped DEF SameDeal
<1> QED BY <1>1, <1>2, <1>3, <1>4, <1>5, <1>6 DEF Next, Iteration

\* A position of the bot and its case are about the same symbol and side.
Matching ==
  \A n \in DOMAIN positions \ ManualPositions :
    /\ positions[n].case \in DOMAIN cases
    /\ SameDeal(positions[n], cases[positions[n].case])

\* No step parts a position of the bot from its case's symbol and side.
LEMMA MatchingStep ==
  ASSUME TypeOK, Matching, [Next]_vars
  PROVE  Matching'
<1>1. /\ DOMAIN cases \subseteq DOMAIN cases'
      /\ \A i \in DOMAIN cases : SameDeal(cases'[i], cases[i])
  BY DealsKept
<1>2. \A n \in DOMAIN positions \ ManualPositions :
        /\ positions'[n].case \in DOMAIN cases'
        /\ SameDeal(positions'[n], cases'[positions'[n].case])
  BY <1>1, PositionsKept DEF Matching, SameDeal
<1>3. \A n \in DOMAIN positions : n \in ManualPositions' <=> n \in ManualPositions
  BY PositionsKept DEF ManualPositions
<1>4. CASE DOMAIN positions' = DOMAIN positions
  BY <1>2, <1>3, <1>4 DEF Matching
<1>5. CASE OrderAccepted
  <2>1. target \in Nat /\ target \in DOMAIN cases /\ cases[target] \in TradeCase /\ UNCHANGED cases
    BY <1>5 DEF OrderAccepted, TypeOK
  <2>2. cases[target].symbol \in Symbols /\ cases[target].direction \in Directions
    BY <2>1 DEF TradeCase
  <2>3. /\ DOMAIN positions' = DOMAIN positions \cup {Len(positions) + 1}
        /\ positions'[Len(positions) + 1] = Opened(cases[target].symbol, cases[target].direction, target)
    BY <1>5, <2>1, <2>2, OpenedTyped DEF OrderAccepted
  <2>4. LET p == positions'[Len(positions) + 1]
        IN  p.case = target /\ SameDeal(p, cases[target])
    BY <2>3 DEF Opened, SameDeal
  <2> QED BY <1>2, <1>3, <2>1, <2>3, <2>4 DEF Matching
<1>6. CASE OperatorOpens
  <2>1. PICK s \in Symbols, d \in Directions : positions' = Append(positions, Opened(s, d, Manual))
    BY <1>6 DEF OperatorOpens
  <2>2. /\ DOMAIN positions' = DOMAIN positions \cup {Len(positions) + 1}
        /\ positions'[Len(positions) + 1] = Opened(s, d, Manual)
    BY <2>1, OpenedTyped DEF Manual
  <2>3. Len(positions) + 1 \in ManualPositions'
    BY <2>2 DEF ManualPositions, Opened
  <2> QED BY <1>2, <1>3, <2>2, <2>3 DEF Matching
<1> QED BY <1>4, <1>5, <1>6, PositionsKept

---------------------------------------------------------------------------
(* Results go to their case                                                *)

\* Without an operator, a position that is held, or was just closed, belongs to
\* the only case that may be open or under way.
Owners ==
  ManualPositions = {} =>
    /\ \A i \in Open, n \in Held : positions[n].case = i
    /\ phase \in {"accepted", "failed"} => \A n \in Held : positions[n].case = target
    /\ phase = "settle" => Held = {} /\ \A i \in Open : positions[target].case = i

\* Who has not traded by hand after a step had not before it, and all is the
\* bot's.
LEMMA NoOperatorYet ==
  ASSUME TypeOK, [Next]_vars, ManualPositions' = {}
  PROVE  ManualPositions = {} /\ BotHeld = Held /\ BotHeld' = Held'
<1>1. \A n \in DOMAIN positions : n \in DOMAIN positions' /\ positions'[n].case = positions[n].case
  BY PositionsKept
<1> QED BY <1>1 DEF ManualPositions, BotHeld

\* No step but an accepted order adds to what is held.
LEMMA HeldShrinks ==
  ASSUME TypeOK, [Next]_vars, ManualPositions' = {}, ~OrderAccepted
  PROVE  Held' \subseteq Held
<1>1. DOMAIN positions' = DOMAIN positions
  <2>1. CASE OperatorOpens
    <3>1. PICK s \in Symbols, d \in Directions : positions' = Append(positions, Opened(s, d, Manual))
      BY <2>1 DEF OperatorOpens
    <3>2. /\ DOMAIN positions' = DOMAIN positions \cup {Len(positions) + 1}
          /\ positions'[Len(positions) + 1] = Opened(s, d, Manual)
      BY <3>1, OpenedTyped DEF Manual
    <3>3. Len(positions) + 1 \in ManualPositions'
      BY <3>2 DEF ManualPositions, Opened
    <3> QED BY <3>3
  <2> QED BY <2>1, PositionsKept
<1> QED BY <1>1, PositionsKept DEF Held

\* Without an operator, every step keeps a position with its case.
LEMMA OwnersStep ==
  ASSUME TypeOK, OneOpenCase, OneBotPosition, Alone, Owners, [Next]_vars
  PROVE  Owners'
<1> USE DEF exchangeVars, executionVars, iterationVars, historyVars
<1> SUFFICES ASSUME ManualPositions' = {}
             PROVE  /\ \A i \in Open', n \in Held' : positions'[n].case = i
                    /\ phase' \in {"accepted", "failed"} => \A n \in Held' : positions'[n].case = target'
                    /\ phase' = "settle" => Held' = {} /\ \A i \in Open' : positions'[target'].case = i
  BY DEF Owners
<1>1. /\ ManualPositions = {} /\ BotHeld = Held
      /\ \A i \in Open, n \in Held : positions[n].case = i
      /\ phase \in {"accepted", "failed"} => \A n \in Held : positions[n].case = target
      /\ phase = "settle" => Held = {} /\ \A i \in Open : positions[target].case = i
      /\ phase \in {"margin", "place"} => Held = {}
      /\ phase \in Ordering => Open = {}
      /\ \A m, n \in Held : m = n
  BY NoOperatorYet DEF Owners, Alone, OneOpenCase, Ordering, OneBotPosition, BotHeld
<1>2. /\ Held \subseteq DOMAIN positions
      /\ \A n \in DOMAIN positions : positions'[n].case = positions[n].case
  BY PositionsKept DEF Held
<1>3. ASSUME Held' \subseteq Held, Open' \subseteq Open, phase' \notin {"accepted", "failed", "settle"}
      PROVE  /\ \A i \in Open', n \in Held' : positions'[n].case = i
             /\ phase' \notin {"accepted", "failed", "settle"}
  BY <1>1, <1>2, <1>3
<1>4. CASE \/ Begin \/ Abandon \/ FindStale \/ NoneStale \/ FlashCloseUnheard \/ CooldownPasses
           \/ Restart
  <2>1. UNCHANGED cases /\ ~OrderAccepted /\ phase' \notin {"accepted", "failed", "settle"}
    BY <1>4 DEF Begin, Abandon, FindStale, NoneStale, FlashCloseUnheard, CooldownPasses, Restart,
       EndIteration, OrderAccepted
  <2> QED BY <1>3, <2>1, HeldShrinks DEF Open
<1>5. CASE ExchangeCloses \/ OperatorOpens \/ UNCHANGED vars
  <2>1. UNCHANGED <<cases, phase, target>>
    BY <1>5 DEF ExchangeCloses, OperatorOpens, vars
  <2>2. Held' \subseteq Held
    BY <1>5, HeldShrinks DEF ExchangeCloses, OperatorOpens, OrderAccepted, vars, Held
  <2>3. phase = "settle" => target \in DOMAIN positions
    BY DEF TypeOK
  <2> QED BY <1>1, <1>2, <2>1, <2>2, <2>3 DEF Open
<1>6. CASE FlashClose
  <2>1. target \in Held /\ UNCHANGED <<cases, target>> /\ phase' = "settle" /\ Shut(target)
    BY <1>6 DEF FlashClose
  <2>2. Held' \subseteq Held \ {target}
    BY <2>1, ShutTyped DEF Held
  <2>3. Held' = {}
    BY <1>1, <2>1, <2>2
  <2> QED BY <1>1, <1>2, <2>1, <2>3 DEF Open
<1>7. CASE Settle
  <2>1. cases' = Settled /\ phase = "settle" /\ phase' = "idle" /\ ~OrderAccepted
    BY <1>7 DEF Settle, EndIteration, OrderAccepted
  <2>2. Open' \subseteq Open
    BY <2>1, SettledTyped DEF Open
  <2> QED BY <1>3, <2>1, <2>2, HeldShrinks
<1>8. CASE ReadPositions
  <2>1. PICK view \in Views : cases' = [i \in DOMAIN cases |-> Reconciled(cases[i], view)]
    BY <1>8 DEF ReadPositions
  <2>2. Open' \subseteq Open
    BY <2>1, ReadTyped DEF Open
  <2>3. ~OrderAccepted /\ phase' \notin {"accepted", "failed", "settle"}
    BY <1>8 DEF ReadPositions, EndIteration, OrderAccepted
  <2> QED BY <1>3, <2>2, <2>3, HeldShrinks
<1>9. ASSUME NEW s \in Symbols, CreateCase(s)
      PROVE  Held' = {} /\ phase' = "place"
  BY <1>1, <1>9 DEF CreateCase, Held
<1>10. CASE OrderAccepted
  <2>1. /\ phase = "place" /\ target \in Nat /\ cases[target] \in TradeCase
        /\ UNCHANGED <<cases, target>> /\ phase' \in {"accepted", "failed"}
    BY <1>10 DEF OrderAccepted, TypeOK
  <2>2. cases[target].symbol \in Symbols /\ cases[target].direction \in Directions
    BY <2>1 DEF TradeCase
  <2>3. /\ DOMAIN positions' = DOMAIN positions \cup {Len(positions) + 1}
        /\ positions'[Len(positions) + 1] = Opened(cases[target].symbol, cases[target].direction, target)
        /\ \A m \in DOMAIN positions : positions'[m] = positions[m]
    BY <1>10, <2>1, <2>2, OpenedTyped DEF OrderAccepted
  <2>4. Held' \subseteq {Len(positions) + 1} /\ positions'[Len(positions) + 1].case = target
    BY <1>1, <2>1, <2>3 DEF Held, Opened
  <2>5. Open' = {}
    BY <1>1, <2>1 DEF Open, Ordering
  <2> QED BY <2>1, <2>4, <2>5
<1>11. CASE OrderRefused
  <2>1. Held' = {} /\ Open' = {} /\ phase' = "failed"
    BY <1>1, <1>11 DEF OrderRefused, Held, Open, Ordering
  <2> QED BY <2>1
<1>12. CASE MarkRejected
  <2>1. /\ phase = "failed" /\ phase' = "idle" /\ target \in DOMAIN cases /\ UNCHANGED positions
        /\ cases' = [cases EXCEPT ![target].status = "order_rejected"]
    BY <1>12 DEF MarkRejected, EndIteration, TypeOK
  <2>2. Open' \subseteq Open
    BY <2>1, RejectedTyped DEF Open
  <2> QED BY <1>3, <2>1, <2>2 DEF Held
<1>13. CASE ConfirmOpen
  <2>1. phase = "accepted" /\ phase' = "idle" /\ target \in DOMAIN cases /\ UNCHANGED positions
    BY <1>13 DEF ConfirmOpen, EndIteration, TypeOK
  <2>2. PICK n \in {None} \cup Held :
          cases' = [cases EXCEPT ![target].status = "open", ![target].position = n]
    BY <1>13 DEF ConfirmOpen
  <2>3. Open' \subseteq {target}
    BY <1>1, <2>1, <2>2, ConfirmedTyped DEF Open, Ordering
  <2> QED BY <1>1, <2>1, <2>3 DEF Held
<1>14. CASE \E s \in Symbols : CreateCase(s)
  BY <1>9, <1>14
<1> QED BY <1>4, <1>5, <1>6, <1>7, <1>8, <1>10, <1>11, <1>12, <1>13, <1>14 DEF Next, Iteration

\* The three places that attach a position to a case.
LEMMA PositionAttached ==
  ASSUME TypeOK, [Next]_vars, NEW i \in DOMAIN cases', cases'[i].position # None
  PROVE  \/ i \in DOMAIN cases /\ cases'[i].position = cases[i].position
         \/ i \in Open /\ cases'[i].position \in Held
         \/ i \in Open /\ phase = "settle" /\ cases'[i].position = target
         \/ i = target /\ phase = "accepted" /\ cases'[i].position \in Held
<1> USE DEF exchangeVars, executionVars, iterationVars, historyVars
<1>1. CASE \/ Begin \/ Abandon \/ FindStale \/ NoneStale \/ FlashClose \/ FlashCloseUnheard
           \/ OrderAccepted \/ OrderRefused \/ ExchangeCloses \/ OperatorOpens
           \/ CooldownPasses \/ Restart \/ UNCHANGED vars
  <2>1. UNCHANGED cases
    BY <1>1 DEF Begin, Abandon, FindStale, NoneStale, FlashClose, FlashCloseUnheard, OrderAccepted,
       OrderRefused, ExchangeCloses, OperatorOpens, CooldownPasses, Restart, vars
  <2> QED BY <2>1
<1>2. CASE Settle
  <2>1. phase = "settle" /\ cases' = Settled
    BY <1>2 DEF Settle
  <2>2. i \in DOMAIN cases
    BY <2>1, SettledTyped
  <2>3. cases'[i].position # cases[i].position => i \in Open /\ cases'[i].position = target
    BY <2>1, <2>2, SettledTyped
  <2> QED BY <2>1, <2>2, <2>3
<1>3. CASE ReadPositions
  <2>1. PICK view \in Views : cases' = [j \in DOMAIN cases |-> Reconciled(cases[j], view)]
    BY <1>3 DEF ReadPositions
  <2>2. i \in DOMAIN cases
    BY <2>1, ReadTyped
  <2>3. cases'[i].position # cases[i].position =>
          /\ i \in Open /\ cases[i].symbol \in DOMAIN view
          /\ cases'[i].position = view[cases[i].symbol]
    BY <2>1, <2>2, ReadTyped
  <2>4. \A s \in DOMAIN view : view[s] \in Held
    BY DEF Views
  <2> QED BY <2>2, <2>3, <2>4
<1>4. ASSUME NEW s \in Symbols, CreateCase(s)
      PROVE  i \in DOMAIN cases /\ cases'[i].position = cases[i].position
  BY <1>4, CreateTyped
<1>5. CASE MarkRejected
  <2>1. target \in DOMAIN cases /\ cases' = [cases EXCEPT ![target].status = "order_rejected"]
    BY <1>5 DEF MarkRejected, TypeOK
  <2> QED BY <2>1, RejectedTyped
<1>6. CASE ConfirmOpen
  <2>1. phase = "accepted" /\ target \in DOMAIN cases
    BY <1>6 DEF ConfirmOpen, TypeOK
  <2>2. PICK n \in {None} \cup Held :
          cases' = [cases EXCEPT ![target].status = "open", ![target].position = n]
    BY <1>6 DEF ConfirmOpen
  <2> QED BY <2>1, <2>2, ConfirmedTyped
<1> QED BY <1>1, <1>2, <1>3, <1>4, <1>5, <1>6 DEF Next, Iteration

\* A case refers to positions that exist, and without an operator to its own.
Referred ==
  \A i \in DOMAIN cases : cases[i].position # None => cases[i].position \in DOMAIN positions

\* A result goes to the case whose position it is of, whatever step is taken.
LEMMA ResultsStep ==
  ASSUME TypeOK, Referred, Owners, ResultsGoToTheirCase, [Next]_vars
  PROVE  Referred' /\ ResultsGoToTheirCase'
<1>1. /\ Held \subseteq DOMAIN positions /\ DOMAIN positions \subseteq DOMAIN positions'
      /\ \A n \in DOMAIN positions : positions'[n].case = positions[n].case
  BY PositionsKept DEF Held
<1>2. phase = "settle" => target \in DOMAIN positions
  BY DEF TypeOK
<1>3. ASSUME NEW i \in DOMAIN cases', cases'[i].position # None
      PROVE  cases'[i].position \in DOMAIN positions
  BY <1>1, <1>2, <1>3, PositionAttached DEF Referred
<1>4. ASSUME ManualPositions' = {}, NEW i \in DOMAIN cases', cases'[i].position # None
      PROVE  positions'[cases'[i].position].case = i
  <2>1. /\ \A j \in Open, n \in Held : positions[n].case = j
        /\ phase = "accepted" => \A n \in Held : positions[n].case = target
        /\ phase = "settle" => \A j \in Open : positions[target].case = j
        /\ \A j \in DOMAIN cases :
             cases[j].position # None => positions[cases[j].position].case = j
    BY <1>4, NoOperatorYet DEF Owners, ResultsGoToTheirCase
  <2>2. positions[cases'[i].position].case = i
    BY <1>4, <2>1, PositionAttached
  <2> QED BY <1>1, <1>3, <1>4, <2>2
<1> QED BY <1>1, <1>3, <1>4 DEF Referred, ResultsGoToTheirCase

\* Without an operator, every position a case was given is its own, for any
\* number of lost replies and restarts.
THEOREM OwnResults == Spec => []ResultsGoToTheirCase
<1>1. Init => /\ OneOpenCase /\ OneBotPosition /\ Alone
              /\ Owners /\ Referred /\ ResultsGoToTheirCase
  BY DEF Init, OneOpenCase, OneBotPosition, Alone, Owners, Referred, ResultsGoToTheirCase,
     BotHeld, Held, Open
<1>2. TypeOK /\ OneOpenCase /\ OneBotPosition /\ Alone /\ Owners /\ [Next]_vars => Owners'
  BY OwnersStep
<1>3. TypeOK /\ Referred /\ Owners /\ ResultsGoToTheirCase /\ [Next]_vars
        => Referred' /\ ResultsGoToTheirCase'
  BY ResultsStep
<1>4. TypeOK /\ OneOpenCase /\ [Next]_vars => OneOpenCase'
  BY OneOpenCaseStep
<1>5. TypeOK /\ OneBotPosition /\ Alone /\ [Next]_vars => OneBotPosition' /\ Alone'
  BY OneBotPositionStep
<1> QED BY <1>1, <1>2, <1>3, <1>4, <1>5, TypeCorrect, PTL DEF Spec

---------------------------------------------------------------------------
(* What the journal knows                                                  *)

Undisturbed == unheard = 0 /\ restarts = 0 /\ ManualPositions = {}

\* While every reply is heard, a held position's case is open, or about to be.
Known ==
  Undisturbed =>
    /\ phase \notin {"accepted", "failed"} =>
         \A n \in Held : cases[positions[n].case].status = "open"
    /\ phase = "failed" => Held = {}

\* While every reply is heard, no step loses the case of a held position.
LEMMA KnownStep ==
  ASSUME TypeOK, OneBotPosition, Alone, Owners, Matching, Known, [Next]_vars
  PROVE  Known'
<1> USE DEF exchangeVars, executionVars, iterationVars, historyVars
<1> SUFFICES ASSUME Undisturbed'
             PROVE  /\ phase' \notin {"accepted", "failed"} =>
                         \A n \in Held' : cases'[positions'[n].case].status = "open"
                    /\ phase' = "failed" => Held' = {}
  BY DEF Known
<1>1. ~Restart
  BY DEF Restart, Undisturbed, TypeOK
<1>2. unheard = 0 /\ restarts = 0
  <2>1. unheard' = 0 /\ restarts' = 0 /\ unheard \in Nat /\ restarts \in Nat
    BY DEF Undisturbed, TypeOK
  <2>2. restarts' = restarts /\ unheard' \in {unheard, unheard + 1}
    BY <1>1 DEF Next, Iteration, Begin, Abandon, FindStale, NoneStale, FlashClose, FlashCloseUnheard,
       Settle, ReadPositions, CreateCase, OrderAccepted, OrderRefused, MarkRejected, ConfirmOpen,
       ExchangeCloses, OperatorOpens, CooldownPasses, vars
  <2> QED BY <2>1, <2>2
<1>3. /\ ManualPositions = {} /\ BotHeld = Held /\ Undisturbed
      /\ phase \notin {"accepted", "failed"} =>
           \A n \in Held : cases[positions[n].case].status = "open"
      /\ phase = "failed" => Held = {}
      /\ phase \in {"margin", "place", "settle"} => Held = {}
      /\ phase = "accepted" => \A n \in Held : positions[n].case = target
      /\ \A m, n \in Held : m = n
  BY <1>2, NoOperatorYet DEF Undisturbed, Known, Alone, Owners, OneBotPosition, BotHeld
<1>4. /\ Held \subseteq DOMAIN positions
      /\ \A n \in DOMAIN positions : positions'[n].case = positions[n].case
  BY PositionsKept DEF Held
<1>5. \A n \in Held : /\ positions[n].case \in DOMAIN cases
                      /\ SameDeal(positions[n], cases[positions[n].case])
  BY <1>3 DEF Matching, Held
<1>6. CASE \/ Begin \/ FindStale \/ NoneStale \/ FlashClose \/ CooldownPasses
           \/ ExchangeCloses \/ OperatorOpens \/ OrderRefused \/ UNCHANGED vars
  <2>1. /\ UNCHANGED cases
        /\ phase' \notin {"accepted", "failed"} => phase \notin {"accepted", "failed"}
        /\ phase' = "failed" => phase \in {"place", "failed"}
    BY <1>6 DEF Begin, FindStale, NoneStale, FlashClose, CooldownPasses, ExchangeCloses,
       OperatorOpens, OrderRefused, vars
  <2>2. ~OrderAccepted \/ UNCHANGED positions
    BY <1>6 DEF Begin, FindStale, NoneStale, FlashClose, CooldownPasses, ExchangeCloses,
       OperatorOpens, OrderRefused, OrderAccepted, vars
  <2>3. Held' \subseteq Held
    BY <2>2, HeldShrinks DEF Held, Undisturbed
  <2> QED BY <1>3, <1>4, <2>1, <2>3
<1>7. CASE Abandon
  <2>1. /\ UNCHANGED <<cases, positions>> /\ phase' = "idle"
        /\ phase \in {"stale", "closing", "positions", "margin"}
    BY <1>2, <1>7 DEF Abandon, EndIteration, Undisturbed
  <2> QED BY <1>3, <2>1 DEF Held
<1>8. ~FlashCloseUnheard
  BY <1>2 DEF FlashCloseUnheard, Undisturbed
<1>9. CASE Settle
  BY <1>3, <1>9 DEF Settle, EndIteration, Held
<1>10. CASE ReadPositions
  <2>1. PICK view \in Views : cases' = [i \in DOMAIN cases |-> Reconciled(cases[i], view)]
    BY <1>10 DEF ReadPositions
  <2>2. UNCHANGED positions /\ phase = "positions" /\ phase' \in {"margin", "idle"}
    BY <1>10 DEF ReadPositions, EndIteration
  <2>3. ASSUME NEW n \in Held
        PROVE  cases'[positions[n].case].status = "open"
    <3> DEFINE c == cases[positions[n].case]
    <3>1. /\ positions[n].case \in DOMAIN cases /\ c.status = "open"
          /\ positions[n].symbol = c.symbol /\ positions[n].direction = c.direction
      BY <1>3, <1>5, <2>2 DEF SameDeal
    <3>2. /\ c.symbol \in DOMAIN view /\ view[c.symbol] = n
      BY <1>3, <3>1 DEF Views
    <3>3. Reconciled(c, view) = [c EXCEPT !.position = view[c.symbol]]
      BY <3>1, <3>2 DEF Reconciled
    <3>4. c \in TradeCase
      BY <3>1 DEF TypeOK
    <3>5. Reconciled(c, view).status = c.status
      BY <3>3, <3>4 DEF TradeCase
    <3>6. cases'[positions[n].case] = Reconciled(c, view)
      BY <2>1, <3>1
    <3> QED BY <3>1, <3>5, <3>6
  <2> QED BY <2>2, <2>3 DEF Held
<1>11. ASSUME NEW s \in Symbols, CreateCase(s)
       PROVE  Held' = {} /\ phase' = "place"
  BY <1>3, <1>11 DEF CreateCase, Held
<1>12. CASE OrderAccepted
  BY <1>2, <1>12 DEF OrderAccepted, Undisturbed
<1>13. CASE MarkRejected
  BY <1>3, <1>13 DEF MarkRejected, EndIteration, Held
<1>14. CASE ConfirmOpen
  <2>1. phase = "accepted" /\ phase' = "idle" /\ target \in DOMAIN cases /\ UNCHANGED positions
    BY <1>14 DEF ConfirmOpen, EndIteration, TypeOK
  <2>2. PICK n \in {None} \cup Held :
          cases' = [cases EXCEPT ![target].status = "open", ![target].position = n]
    BY <1>14 DEF ConfirmOpen
  <2>3. cases'[target].status = "open"
    BY <2>1, <2>2, ConfirmedTyped
  <2> QED BY <1>3, <2>1, <2>3 DEF Held
<1>15. CASE \E s \in Symbols : CreateCase(s)
  BY <1>11, <1>15
<1> QED BY <1>1, <1>6, <1>7, <1>8, <1>9, <1>10, <1>12, <1>13, <1>14, <1>15 DEF Next, Iteration

\* Only a lost reply, a restart or an operator leaves a position the journal
\* does not show, for any number of orders.
THEOREM JournalKnows == Spec => []JournalKnowsPositions
<1>1. Init => /\ OneOpenCase /\ OneBotPosition /\ Alone /\ Owners /\ Matching /\ Known
  BY DEF Init, OneOpenCase, OneBotPosition, Alone, Owners, Matching, Known, BotHeld, Held, Open
<1>2. TypeOK /\ OneOpenCase /\ OneBotPosition /\ Alone /\ Owners /\ [Next]_vars => Owners'
  BY OwnersStep
<1>3. TypeOK /\ OneBotPosition /\ Alone /\ Owners /\ Matching /\ Known /\ [Next]_vars => Known'
  BY KnownStep
<1>4. TypeOK /\ OneOpenCase /\ [Next]_vars => OneOpenCase'
  BY OneOpenCaseStep
<1>5. TypeOK /\ OneBotPosition /\ Alone /\ [Next]_vars => OneBotPosition' /\ Alone'
  BY OneBotPositionStep
<1>6. TypeOK /\ Matching /\ [Next]_vars => Matching'
  BY MatchingStep
<1>7. Known => JournalKnowsPositions
  BY DEF Known, Undisturbed, JournalKnowsPositions
<1> QED BY <1>1, <1>2, <1>3, <1>4, <1>5, <1>6, <1>7, TypeCorrect, PTL DEF Spec

=============================================================================
