------------------------------ MODULE CandleFeed ------------------------------
(***************************************************************************)
(* Candles from an exchange to a strategy: market_data/ohlcv_fetcher.py    *)
(* pulls the latest bars of a timeframe, drops the corrupt ones, upserts   *)
(* the rest in storage/ohlcv_store.py and reads the newest rows back;      *)
(* candle_filter.py keeps the closed ones, timeframe.py infers what they   *)
(* are and htf_pit.py picks the last closed bar of a higher timeframe.     *)
(* One symbol: the store's rows of two symbols never meet.  A bar is its   *)
(* open time, its timeframe and how much of it had traded when pulled.     *)
(***************************************************************************)
EXTENDS Integers, Sequences, FiniteSets

CONSTANTS
  Pulled,                \* timeframes asked of the exchange
  Origin, MaxTime,       \* seconds: the first instant and the last
  Steps,                 \* seconds the clock may advance by
  Limit, MaxPulls,       \* bars per pull, and a bound of the model
  MsThreshold            \* _MS_EPOCH_THRESHOLD

Seconds == [tf \in {"1m", "2m", "3m", "5m", "10m", "15m", "30m", "1h", "4h", "1d"} |->
  CASE tf = "1m" -> 60 [] tf = "2m" -> 120 [] tf = "3m" -> 180 [] tf = "5m" -> 300
    [] tf = "10m" -> 600 [] tf = "15m" -> 900 [] tf = "30m" -> 1800
    [] tf = "1h" -> 3600 [] tf = "4h" -> 14400 [] tf = "1d" -> 86400]

FeedAssumption ==
  /\ {Origin, MaxTime, Limit, MaxPulls, MsThreshold} \subseteq Nat
  /\ Pulled \subseteq DOMAIN Seconds /\ Steps \subseteq Nat
  \* What the comment of the threshold claims: no second count is above it,
  \* no millisecond count of this era below, back to the first bar pulled.
  /\ Origin <= MaxTime /\ MaxTime <= MsThreshold
  /\ \A tf \in Pulled : MsThreshold < (Origin - Limit * Seconds[tf]) * 1000

VARIABLES
  unit,                  \* stamps per second: 1000 by contract, 1 in old callers
  now, pulls,
  table,                 \* rows of the store, one per open time
  answer,                \* <<timeframe, rows, instant>> of the last fetch
  dropped                \* <<open, timeframe>> of corrupt bars never stored

feedVars == <<unit, now, pulls, table, answer, dropped>>

TypeOK ==
  /\ unit \in {1, 1000} /\ now \in Origin .. MaxTime /\ pulls \in 0 .. MaxPulls
  /\ \A r \in table : r.tf \in Pulled /\ r.upto <= now
  /\ \A r, s \in table : r.ts = s.ts => r = s

Init ==
  /\ unit \in {1, 1000}
  /\ now = Origin /\ pulls = 0 /\ table = {} /\ answer = <<>> /\ dropped = {}

(***************************************************************************)
(* Pull, validate, cache.                                                  *)
(***************************************************************************)
Smaller(a, b) == IF a < b THEN a ELSE b
OpenOf(tf, at, k) == (at \div Seconds[tf] - k) * Seconds[tf]

\* External: the last bars of a timeframe, the one still forming included.
Latest(tf) ==
  {[ts |-> OpenOf(tf, now, k) * unit, tf |-> tf,
    upto |-> Smaller(now, OpenOf(tf, now, k) + Seconds[tf])] : k \in 0 .. Limit - 1}

\* Faulty variant of Upsert: the first write of a bar wins.
UpsertIfAbsent(rows) ==
  table \cup {r \in rows : ~\E s \in table : s.ts = r.ts}

\* The key is (symbol, timestamp): a bar of another timeframe that opens at
\* the same instant takes the row's place.
Upsert(rows) == {s \in table : ~\E r \in rows : r.ts = s.ts} \cup rows

\* The newest rows, newest first, of whatever timeframe.
Newest(rows) ==
  [i \in 1 .. Smaller(Limit, Cardinality(rows)) |->
     CHOOSE r \in rows : Cardinality({s \in rows : s.ts > r.ts}) = i - 1]

FetchAndCache(tf, corrupt) ==
  /\ pulls < MaxPulls /\ pulls' = pulls + 1
  /\ LET cleaned == {r \in Latest(tf) : r.ts \notin corrupt}
     IN /\ table' = Upsert(cleaned)
        /\ answer' = <<tf, Newest(Upsert(cleaned)), now>>
  /\ dropped' = (dropped \ {<<r.ts, tf>> : r \in Latest(tf)})
                \cup {<<ts, tf>> : ts \in corrupt}
  /\ UNCHANGED <<unit, now>>

Advance(step) ==
  /\ now + step <= MaxTime /\ now' = now + step
  /\ UNCHANGED <<unit, pulls, table, answer, dropped>>

Next ==
  \/ \E tf \in Pulled :
       \E corrupt \in {{}} \cup {{r.ts} : r \in Latest(tf)} : FetchAndCache(tf, corrupt)
  \/ \E step \in Steps : Advance(step)

Spec == Init /\ [][Next]_feedVars

(***************************************************************************)
(* What a caller makes of the rows.                                        *)
(***************************************************************************)

\* Faulty variant of ToSeconds: the stamp is taken as it comes.
ToSecondsAsIs(ts) == ts
ToSeconds(ts) == IF ts > MsThreshold THEN ts \div 1000 ELSE ts
IsComplete(row, tf) == ToSeconds(row.ts) + Seconds[tf] <= now
Completed(rows, tf) == SelectSeq(rows, LAMBDA r : IsComplete(r, tf))

\* The upper median of the steps from each row to the next, in the unit of the
\* stamps; above 100000 it is taken for milliseconds.
MedianStep(rows) ==
  LET steps == [i \in 1 .. Len(rows) - 1 |-> rows[i + 1].ts - rows[i].ts]
      middle == (Len(rows) - 1) \div 2
      median == CHOOSE m \in {steps[i] : i \in DOMAIN steps} :
                  /\ Cardinality({i \in DOMAIN steps : steps[i] < m}) <= middle
                  /\ Cardinality({i \in DOMAIN steps : steps[i] <= m}) > middle
  IN IF median > 100000 THEN median \div 1000 ELSE median

Abs(x) == IF x < 0 THEN -x ELSE x
\* None is {}: too few rows, or no timeframe within 30%.
Infer(rows) ==
  IF Len(rows) < 2 THEN {}
  ELSE {tf \in DOMAIN Seconds :
          /\ \A other \in DOMAIN Seconds :
               Abs(MedianStep(rows) - Seconds[tf]) <= Abs(MedianStep(rows) - Seconds[other])
          /\ 10 * Abs(MedianStep(rows) - Seconds[tf]) <= 3 * Seconds[tf]}

\* validate_timeframe, strict: an undetermined series is let through.
Admits(rows, expected) == Infer(rows) \subseteq {expected}

\* get_completed_htf_state_at: the duration is added in seconds, whatever the
\* unit of the rows and of the signal.
HtfStateAt(rows, tf, signal) ==
  LET closed == {r \in rows : r.ts + Seconds[tf] <= signal}
  IN {r \in closed : \A s \in closed : s.ts <= r.ts}

\* validate_all of candle_causality.py; its third check cannot fail.
CausalityPasses(signal, candle, completed, htf) ==
  completed /\ signal >= candle /\ htf <= signal

(***************************************************************************)
(* Properties.                                                             *)
(***************************************************************************)
Rows == IF answer = <<>> THEN <<>> ELSE answer[2]
Asked == answer[1]
Backwards(rows) == [i \in 1 .. Len(rows) |-> rows[Len(rows) - i + 1]]
OneTimeframe(rows) == \A i \in DOMAIN rows : rows[i].tf = rows[1].tf
Contiguous(rows) ==
  \A i \in 1 .. Len(rows) - 1 : Abs(rows[i + 1].ts - rows[i].ts) = Seconds[rows[1].tf] * unit

\* The filter keeps exactly the bars of the asked timeframe whose period is
\* over, in either unit: the regression candle_filter.py tells of (every bar
\* dropped, no trade ever) cannot come back.
FilterKeepsTheClosed ==
  answer # <<>> =>
    \A i \in DOMAIN Rows :
      Rows[i].tf = Asked =>
        (IsComplete(Rows[i], Asked) <=> Rows[i].ts + Seconds[Asked] * unit <= now * unit)

\* A bar that was complete when it was handed out holds its whole period: the
\* partial bar an earlier pull stored has been replaced.  What escapes is a bar
\* whose last pull came corrupt, and one older than the pull reached.
CompleteMeansFinal ==
  answer # <<>> =>
    \A i \in DOMAIN Rows :
      LET r == Rows[i]
          closes == r.ts \div unit + Seconds[Asked]
      IN r.tf = Asked /\ closes <= answer[3] /\ r.upto < closes =>
           <<r.ts, Asked>> \in dropped
           \/ r.ts < OpenOf(Asked, answer[3], Limit - 1) * unit

\* Contiguous bars of one timeframe are never taken for another: the inference
\* is right or it abstains.
InferenceRightOrSilent ==
  OneTimeframe(Rows) /\ Contiguous(Rows) =>
    \A rows \in {Rows, Backwards(Rows)} : Infer(rows) \subseteq {rows[i].tf : i \in DOMAIN rows}

\* timeframe.py:3: "A strategy configured for 5m MUST only receive 5m candles.
\* If it receives 1m candles, raise TimeframeMismatch and DO NOT trade."
MinutesAreRefused ==
  (Len(Rows) >= 2 /\ OneTimeframe(Rows) /\ Rows[1].tf = "1m" /\ Contiguous(Rows))
    => ~Admits(Backwards(Rows), "5m")

\* htf_pit.py:18: "Prohibido etiquetar trades históricos con el régimen
\* existente al ejecutar el auditor: siempre point-in-time": the state of a
\* signal is a bar that was over when the signal was given.
HtfPointInTime ==
  \A tf \in Pulled :
    \A r \in HtfStateAt({s \in table : s.tf = tf}, tf, now * unit) :
      r.ts + Seconds[tf] * unit <= now * unit

\* The enforcer passes every state htf_pit picks, and where the stamps are in
\* seconds that state is a bar that was over.
HtfStateIsCausal ==
  /\ \A tf \in Pulled :
       \A r \in HtfStateAt({s \in table : s.tf = tf}, tf, now * unit) :
         CausalityPasses(now * unit, r.ts, IsComplete(r, tf) \/ unit # 1, r.ts)
  /\ unit = 1 => HtfPointInTime

Safe ==
  /\ FilterKeepsTheClosed /\ CompleteMeansFinal
  /\ InferenceRightOrSilent /\ HtfStateIsCausal
=============================================================================
