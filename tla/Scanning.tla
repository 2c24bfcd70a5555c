------------------------------ MODULE Scanning ------------------------------
(***************************************************************************)
(* The universe scanner (trading_bot/scanner/) over the read side of an    *)
(* exchange connector (market_data/exchange_connector.py): one iteration   *)
(* visits the enabled pairs in order, asks each filter in turn, caches     *)
(* what it read for the iteration, and scores the pairs that pass.         *)
(*                                                                         *)
(* The exchange is external: a read fails or answers with any of the given *)
(* payloads.  NaN stands for a float that is not a number: every           *)
(* comparison with it is false, so it passes a filter.  Volumes are in     *)
(* millions of USDT, spreads in basis points, scores in thousandths.       *)
(***************************************************************************)
EXTENDS Integers, Sequences, FiniteSets, Functions

CONSTANTS
  Universes,             \* sequences of enabled symbols
  Filters,               \* [minVolume, maxSpread, minAtr, maxAtr]
  QuoteVolumes,          \* quoteVolume of a ticker
  Books,                 \* <<bid, ask>> of a ticker
  Histories,             \* candle lists, [high, low, close]
  MinHistory,            \* 100 in the code
  LiveMinVolume, LiveMaxSpread, LiveMaxAtr

Symbols == UNION {Range(u) : u \in Universes}
Candle == [high : Int, low : Int, close : Int]

ScanAssumption ==
  /\ Universes \subseteq Seq(Symbols)
  /\ Filters \subseteq [minVolume : Int, maxSpread : Int, minAtr : Int, maxAtr : Int]
  /\ QuoteVolumes \subseteq Int /\ Books \subseteq Int \X Int /\ Histories \subseteq Seq(Candle)
  /\ {MinHistory, LiveMinVolume, LiveMaxSpread, LiveMaxAtr} \subseteq Nat

VARIABLES
  mode, kill, pairs, filters, \* settings, fixed for the process
  running,
  todo, stage,           \* pairs not finished, next read for the first
  cache,                 \* per iteration: volume, spread and candles by symbol
  counters, snapshots,
  allFailed              \* what the last iteration.completed reported

scanVars == <<mode, kill, pairs, filters, running, todo, stage, cache, counters, snapshots,
              allFailed>>

NaN == -1000
Infinite == 1000000
Missing == -2000
Stages == <<"volume", "spread", "candles">>
TradingModes == {"research", "backtest", "paper", "live", "shadow_live"}
ScannerMode(m) == IF m = "shadow_live" THEN "live" ELSE m

Smaller(a, b) == IF a <= b THEN a ELSE b
Larger(a, b) == IF a >= b THEN a ELSE b
Magnitude(x) == IF x < 0 THEN -x ELSE x

---------------------------------------------------------------------------
(* Reading a ticker: what cannot be used is made to fail its filter.       *)

VolumeOf(quoteVolume) ==
  IF quoteVolume = NaN THEN NaN
  ELSE IF quoteVolume = Missing \/ quoteVolume < 0 THEN 0 ELSE quoteVolume

SpreadOf(book) ==
  LET bid == book[1]  ask == book[2]
  IN  IF Missing \in {bid, ask} \/ bid + ask <= 0 THEN Infinite
      ELSE (20000 * (ask - bid)) \div (bid + ask)

Total(amounts) == FoldFunction(+, 0, amounts)

\* Mean true range over all candles, in percent of the last close.
AtrPct(candles) ==
  LET n == Len(candles)
      trueRange == [i \in 1..(n - 1) |->
        Larger(candles[i+1].high - candles[i+1].low,
               Larger(Magnitude(candles[i+1].high - candles[i].close),
                      Magnitude(candles[i+1].low - candles[i].close)))]
  IN  IF n < 2 THEN 0
      ELSE IF candles[n].close <= 0 THEN 0
      ELSE (100 * Total(trueRange)) \div ((n - 1) * candles[n].close)

---------------------------------------------------------------------------
(* The filters of a mode.                                                  *)

\* Faulty variant of Bounds: live replaces the configured limits.
BoundsReplaced(f, m) ==
  IF m = "live"
    THEN [minVolume |-> LiveMinVolume, maxSpread |-> LiveMaxSpread,
          minAtr |-> f.minAtr, maxAtr |-> LiveMaxAtr]
    ELSE f

\* FilterBounds.from_settings: live only tightens.
Bounds(f, m) ==
  IF m = "live"
    THEN [minVolume |-> LiveMinVolume, maxSpread |-> Smaller(LiveMaxSpread, f.maxSpread),
          minAtr |-> f.minAtr, maxAtr |-> Smaller(LiveMaxAtr, f.maxAtr)]
    ELSE f

\* The constructors accept the filters of every mode, live included.
Buildable(f) ==
  /\ f.minVolume >= 0 /\ LiveMinVolume >= f.minVolume
  /\ f.maxSpread >= 0
  /\ \A m \in {"paper", "live"} : 0 <= Bounds(f, m).minAtr /\ Bounds(f, m).minAtr <= Bounds(f, m).maxAtr

VolumePasses(b, v) == v = NaN \/ v >= b.minVolume
SpreadPasses(b, s) == s <= b.maxSpread
CandlesPass(b, c) == Len(c) >= MinHistory /\ AtrPct(c) >= b.minAtr /\ AtrPct(c) <= b.maxAtr

Passes(b, what, x) ==
  CASE what = "volume" -> VolumePasses(b, x)
    [] what = "spread" -> SpreadPasses(b, x)
    [] what = "candles" -> CandlesPass(b, x)

Normalizers(m) == IF m = "live" THEN [spread |-> 20, volume |-> 200] ELSE [spread |-> 30, volume |-> 100]
Clip(x, top) == Larger(0, Smaller(x, top))

RankScore(m, v, s, inRange) ==
  LET n == Normalizers(m)
  IN  (500 * (n.spread - Clip(s, n.spread))) \div n.spread
      + (300 * Clip(v, n.volume)) \div n.volume
      + (IF inRange THEN 200 ELSE 0)

---------------------------------------------------------------------------
(* One iteration.                                                          *)

NoCounters == [processed |-> 0, active |-> 0, inactive |-> 0, errors |-> 0]
NoCache == [volume |-> [s \in {} |-> 0], spread |-> [s \in {} |-> 0], candles |-> [s \in {} |-> <<>>]]

Init ==
  /\ mode \in TradingModes /\ kill \in BOOLEAN /\ pairs \in Universes
  /\ filters \in {f \in Filters : Buildable(f)}
  /\ running = FALSE /\ todo = <<>> /\ stage = 1
  /\ cache = NoCache /\ counters = NoCounters /\ snapshots = <<>> /\ allFailed = FALSE

settings == <<mode, kill, pairs, filters>>
CurrentBounds == Bounds(filters, ScannerMode(mode))

\* Faulty variant of Start: the counters of the last iteration go on.
StartCounting ==
  /\ ~running
  /\ counters' = counters /\ snapshots' = <<>>
  /\ running' = (~kill /\ pairs # <<>>)
  /\ todo' = IF kill THEN <<>> ELSE pairs
  /\ stage' = 1 /\ cache' = NoCache /\ allFailed' = FALSE
  /\ UNCHANGED settings

\* run(): refused while one is under way; the kill switch and an empty
\* universe end the iteration before any read, with nothing to report.
Start ==
  /\ ~running
  /\ counters' = NoCounters /\ snapshots' = <<>>
  /\ running' = (~kill /\ pairs # <<>>)
  /\ todo' = IF kill THEN <<>> ELSE pairs
  /\ stage' = 1 /\ cache' = NoCache /\ allFailed' = FALSE
  /\ UNCHANGED settings

Visiting == running /\ todo # <<>>
Entered(c) == IF stage = 1 THEN [c EXCEPT !.processed = @ + 1] ELSE c

\* The pair raised: it is counted and skipped.
Fail ==
  /\ Visiting /\ Head(todo) \notin DOMAIN cache[Stages[stage]]
  /\ counters' = [Entered(counters) EXCEPT !.errors = @ + 1]
  /\ todo' = Tail(todo) /\ stage' = 1
  /\ UNCHANGED <<settings, running, cache, snapshots, allFailed>>

Active(s, v, b, c) ==
  [symbol |-> s, active |-> TRUE, volume |-> v, spread |-> b, atr |-> AtrPct(c),
   score |-> RankScore(ScannerMode(mode), v, b,
               CurrentBounds.minAtr <= AtrPct(c) /\ AtrPct(c) <= CurrentBounds.maxAtr)]
Inactive(s) == [symbol |-> s, active |-> FALSE]

\* The filter of the current stage got x.  The last one completes the pair:
\* it counts as active before its score is computed, and a volume that is not
\* a number makes the score raise.
Judge(s, x, filled) ==
  LET what == Stages[stage]
  IN  IF ~Passes(CurrentBounds, what, x)
        THEN /\ counters' = [Entered(counters) EXCEPT !.inactive = @ + 1]
             /\ snapshots' = Append(snapshots, Inactive(s))
             /\ todo' = Tail(todo) /\ stage' = 1
      ELSE IF stage < 3
        THEN /\ counters' = Entered(counters) /\ stage' = stage + 1
             /\ UNCHANGED <<snapshots, todo>>
      ELSE /\ todo' = Tail(todo) /\ stage' = 1
           /\ IF filled.volume[s] = NaN
                THEN /\ counters' = [counters EXCEPT !.active = @ + 1, !.errors = @ + 1]
                     /\ UNCHANGED snapshots
                ELSE /\ counters' = [counters EXCEPT !.active = @ + 1]
                     /\ snapshots' = Append(snapshots,
                          Active(s, filled.volume[s], filled.spread[s], filled.candles[s]))

Answers(what) ==
  CASE what = "volume" -> {VolumeOf(q) : q \in QuoteVolumes}
    [] what = "spread" -> {SpreadOf(b) : b \in Books}
    [] what = "candles" -> Histories

\* What was read for the pair in this iteration is not read again.
Read(x) ==
  /\ Visiting /\ Head(todo) \notin DOMAIN cache[Stages[stage]]
  /\ cache' = [cache EXCEPT ![Stages[stage]] =
                 [s \in DOMAIN @ \cup {Head(todo)} |-> IF s = Head(todo) THEN x ELSE @[s]]]
  /\ Judge(Head(todo), x, cache')
  /\ UNCHANGED <<settings, running, allFailed>>

Reuse ==
  /\ Visiting /\ Head(todo) \in DOMAIN cache[Stages[stage]]
  /\ Judge(Head(todo), cache[Stages[stage]][Head(todo)], cache)
  /\ UNCHANGED <<settings, running, cache, allFailed>>

Finish ==
  /\ running /\ todo = <<>>
  /\ running' = FALSE /\ allFailed' = (counters.active = 0)
  /\ UNCHANGED <<settings, todo, stage, cache, counters, snapshots>>

\* The task is cancelled at an await: the guard is released, the counters stay.
Cancel ==
  /\ Visiting /\ Head(todo) \notin DOMAIN cache[Stages[stage]]
  /\ running' = FALSE /\ todo' = <<>> /\ stage' = 1
  /\ counters' = Entered(counters)
  /\ UNCHANGED <<settings, cache, snapshots, allFailed>>

Next ==
  \/ Start \/ Fail \/ Reuse \/ Finish \/ Cancel
  \/ \E x \in Answers(Stages[stage]) : Read(x)

Spec == Init /\ [][Next]_scanVars

TypeOK ==
  /\ mode \in TradingModes /\ {kill, running, allFailed} \subseteq BOOLEAN
  /\ stage \in 1..3 /\ Len(todo) <= Len(pairs)
  /\ counters \in [DOMAIN NoCounters -> 0..Len(pairs)]

---------------------------------------------------------------------------
(* Properties.                                                             *)

ActiveOnes == {i \in DOMAIN snapshots : snapshots[i].active}

\* Every pair is accounted for once: a snapshot or an error, in the order of
\* the universe, and a pair counted active either has an active snapshot or
\* raised after it was counted.
PairsAccountedFor ==
  /\ counters.inactive = Len(snapshots) - Cardinality(ActiveOnes)
  /\ counters.active >= Cardinality(ActiveOnes)
  /\ counters.active - Cardinality(ActiveOnes) <= counters.errors
  /\ ~running /\ todo = <<>> /\ counters.processed = Len(pairs) =>
       Len(snapshots) + counters.errors \in {Len(pairs), Len(pairs) - 1}
  /\ \E keep \in SUBSET DOMAIN pairs :
       [i \in DOMAIN snapshots |-> snapshots[i].symbol] =
         [i \in 1..Cardinality(keep) |->
            pairs[CHOOSE k \in keep : Cardinality({j \in keep : j < k}) = i - 1]]

\* What passes in live would pass in any other mode, on the same readings, and
\* the limits of live are never above its own.
LiveNeverMorePermissive ==
  \A i \in ActiveOnes :
    LET p == snapshots[i]
    IN  /\ p.volume >= filters.minVolume /\ p.spread <= filters.maxSpread
        /\ filters.minAtr <= p.atr /\ p.atr <= filters.maxAtr
        /\ ScannerMode(mode) = "live" =>
             p.volume >= LiveMinVolume /\ p.spread <= LiveMaxSpread /\ p.atr <= LiveMaxAtr

\* A symbol listed twice is judged on one reading: its active snapshots agree.
OneReadingPerPair ==
  \A i, j \in ActiveOnes : snapshots[i].symbol = snapshots[j].symbol => snapshots[i] = snapshots[j]

ScoresBounded == \A i \in ActiveOnes : snapshots[i].score \in 0..1000

Safe == PairsAccountedFor /\ LiveNeverMorePermissive /\ OneReadingPerPair /\ ScoresBounded
=============================================================================
