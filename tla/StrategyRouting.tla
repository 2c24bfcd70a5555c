--------------------------- MODULE StrategyRouting ---------------------------
(***************************************************************************)
(* From an asset's bars to the strategy that may trade it: the features    *)
(* and the regime of an AssetContext (research/asset_intelligence), the    *)
(* decision of the StrategyRouter over it (research/strategy_router.py),   *)
(* and the labels of the RegimeEngine (research/regime.py).  The last bar  *)
(* is still forming while its period runs; a bar may be missing.           *)
(***************************************************************************)
EXTENDS Integers, Sequences, FiniteSets, Functions

CONSTANTS
  Prices, BarLength, MaxTime,
  Window, MinBars,            \* FEATURE_WINDOW_BARS and the history it needs
  Slow, Fast, AtrPeriod, RsiPeriod, ReturnsBack,
  FullWindow, StaleAfter,     \* of the router: bars of quality 1, milliseconds
  StrategyMaps,               \* sequences of [enabled, status, regimes, priority]
  Gates,                      \* RouterGates: [confirmed, match, quality, fresh], quality in percent
  RegimesTold,                \* what route() is given as regime, "" for none
  TrendLookback, VolLookback, AdxPeriod

\* MIN_BARS in features.py, and the 22 bars slice_window insists on.
RoutingAssumption ==
  /\ {Fast, Slow, AtrPeriod, RsiPeriod, ReturnsBack, AdxPeriod, TrendLookback, VolLookback,
      BarLength, Window, FullWindow} \subseteq Nat \ {0}
  /\ {MaxTime, MinBars, StaleAfter} \subseteq Nat
  /\ \A n \in {1, Slow, AtrPeriod, RsiPeriod, ReturnsBack} : MinBars > n
  /\ Prices \subseteq Nat \ {0}
  /\ \A map \in StrategyMaps :
       map \in Seq([enabled : BOOLEAN, status : STRING, regimes : SUBSET STRING, priority : Int])
  /\ Gates \subseteq [confirmed : BOOLEAN, match : BOOLEAN, quality : Nat, fresh : BOOLEAN]
  /\ RegimesTold \subseteq STRING

VARIABLES now, bars, context, decision

routingVars == <<now, bars, context, decision>>

TypeOK ==
  /\ now \in 0 .. MaxTime
  /\ \A i \in DOMAIN bars : bars[i].low <= bars[i].high /\ bars[i].ts % BarLength = 0
  /\ context = {} \/ \E c \in context : context = {c} /\ c.ts \in 1 .. now
  /\ decision = {} \/ context # {}

Init == now = 0 /\ bars = <<>> /\ context = {} /\ decision = {}

(***************************************************************************)
(* The market.                                                             *)
(***************************************************************************)
Larger(a, b) == IF a > b THEN a ELSE b
Smaller(a, b) == IF a < b THEN a ELSE b
Abs(x) == IF x < 0 THEN -x ELSE x
Last(s) == s[Len(s)]

Traded(bar, price) ==
  [bar EXCEPT !.high = Larger(@, price), !.low = Smaller(@, price), !.close = price]

\* A trade at a price: it updates the bar of its period or opens it.
Trade(price) ==
  /\ now < MaxTime /\ now' = now + 1
  /\ LET open == (now' \div BarLength) * BarLength IN
     bars' = IF bars # <<>> /\ Last(bars).ts = open
             THEN [bars EXCEPT ![Len(bars)] = Traded(@, price)]
             ELSE Append(bars, [ts |-> open, open |-> price, high |-> price,
                                low |-> price, close |-> price])
  /\ UNCHANGED <<context, decision>>

Silence == now < MaxTime /\ now' = now + 1 /\ UNCHANGED <<bars, context, decision>>

(***************************************************************************)
(* Features, as integers: a spread or a range is compared after            *)
(* multiplying out, an EMA is kept in thousandths.                         *)
(***************************************************************************)
Total(s) == FoldFunction(+, 0, s)
LastN(s, n) == SubSeq(s, Larger(1, Len(s) - n + 1), Len(s))
TrueRange(s, i) ==
  Larger(s[i].high - s[i].low,
         Larger(Abs(s[i].high - s[i - 1].close), Abs(s[i].low - s[i - 1].close)))
Ranges(s) == [i \in 1 .. Len(s) - 1 |-> TrueRange(s, i + 1)]

Ema(closes, period) ==
  LET ema[n \in period .. Len(closes)] ==
        IF n = period THEN (1000 * Total(SubSeq(closes, 1, period))) \div period
        ELSE (2 * 1000 * closes[n] + (period - 1) * ema[n - 1]) \div (period + 1)
  IN ema[Len(closes)]

Closes(s) == [i \in DOMAIN s |-> s[i].close]

\* What each calculator returns, {} for None.
AtrOf(w) == IF Len(w) < AtrPeriod + 1 THEN {} ELSE {Total(Ranges(LastN(w, AtrPeriod + 1)))}
TrendOf(w) ==
  IF Len(w) < Slow + 1 THEN {} ELSE {<<Ema(Closes(w), Fast), Ema(Closes(w), Slow)>>}
RsiOf(w) ==
  IF Len(w) < RsiPeriod + 1 THEN {}
  ELSE LET c == Closes(LastN(w, RsiPeriod + 1))
           up == Total([i \in 1 .. RsiPeriod |-> Larger(c[i + 1] - c[i], 0)])
           down == Total([i \in 1 .. RsiPeriod |-> Larger(c[i] - c[i + 1], 0)])
       IN {IF down = 0 THEN (IF up > 0 THEN 100 ELSE 50) ELSE (100 * up) \div (up + down)}
ReturnsOf(w) ==
  IF Len(w) < Larger(2, ReturnsBack + 1) THEN {}
  ELSE {<<w[Len(w) - ReturnsBack].close, Last(w).close>>}

\* classify_regime: the volatility decides before the trend, 2% and 0.4%.
ClassifyRegime(w) ==
  LET atr == CHOOSE a \in AtrOf(w) \cup {0} : AtrOf(w) # {} => a \in AtrOf(w)
      over == AtrPeriod * Last(w).close
      rises == \E t \in TrendOf(w) : 250 * (t[1] - t[2]) > t[2]
      falls == \E t \in TrendOf(w) : 250 * (t[2] - t[1]) > t[2]
  IN IF 50 * atr > over THEN "HIGH_VOLATILITY"
     ELSE IF 250 * atr < over THEN "LOW_VOLATILITY"
     ELSE IF rises THEN "TREND_UP" ELSE IF falls THEN "TREND_DOWN" ELSE "RANGE"

\* Faulty variant of SliceWindow: the newest bars, whatever their time.
SliceWindowLatest(candles, ts) == LastN(candles, Window)
\* How many bars of a series opened by the timestamp.
Past(candles, ts) ==
  CHOOSE n \in 0 .. Len(candles) : \A i \in DOMAIN candles : candles[i].ts <= ts <=> i <= n

\* slice_window: the bars that opened by the timestamp, at most Window; of a
\* series in the order of time they are its beginning.
SliceWindow(candles, ts) == LastN(SubSeq(candles, 1, Past(candles, ts)), Window)

\* build_context, {} when it raises for want of history; signed: the caller
\* gave a data_fingerprint, which is empty by default.
ContextOf(candles, ts, signed) ==
  LET w == SliceWindow(candles, ts)
  IN IF Len(w) < MinBars THEN {}
     ELSE {[ts |-> ts, signed |-> signed, regime |-> ClassifyRegime(w), atr |-> AtrOf(w), trend |-> TrendOf(w),
            rsi |-> RsiOf(w), returns |-> ReturnsOf(w), end |-> Last(w).ts, count |-> Len(w)]}

\* AssetContext.validate without a clock, as the registry calls it.
Valid(c) ==
  /\ c.ts # 0 /\ c.signed /\ c.returns # {} /\ c.atr # {} /\ c.trend # {} /\ c.rsi # {}
  /\ c.end <= c.ts

\* The registry builds and validates; either may raise.
BuildContext ==
  /\ \E signed \in BOOLEAN : \E c \in ContextOf(bars, now, signed) : Valid(c) /\ context' = {c}
  /\ decision' = {} /\ UNCHANGED <<now, bars>>

(***************************************************************************)
(* The router.                                                             *)
(***************************************************************************)
Stale(c) == c.end = 0 \/ c.ts = 0 \/ c.ts - c.end > StaleAfter
LowQuality(c, gates) == 100 * Smaller(c.count, FullWindow) < gates.quality * FullWindow

\* The caller's regime goes before the context's.
Current(c, told) == IF told = "" THEN c.regime ELSE told

Passes(entry, gates, regime) ==
  /\ entry.enabled
  /\ gates.confirmed => entry.status = "CONFIRMED"
  /\ gates.match => entry.regimes = {} \/ regime \in entry.regimes
Score(entry, regime) == 10 + (IF regime \in entry.regimes THEN 10 ELSE 0) + entry.priority

\* The loop over the map: only a higher score replaces the best, which starts
\* at -1 (in tenths, as the priorities).
Best(map, gates, regime) ==
  LET best[i \in 0 .. Len(map)] ==
        IF i = 0 THEN [index |-> 0, score |-> -10]
        ELSE IF Passes(map[i], gates, regime) /\ Score(map[i], regime) > best[i - 1].score
             THEN [index |-> i, score |-> Score(map[i], regime)]
             ELSE best[i - 1]
  IN best[Len(map)]

RouteOf(c, map, gates, told) ==
  IF map = <<>> THEN "empty_strategy_map"
  ELSE IF gates.fresh /\ Stale(c) THEN "stale_context"
  ELSE IF LowQuality(c, gates) THEN "low_data_quality"
  ELSE IF Best(map, gates, Current(c, told)).index = 0 THEN "no_strategy_passed_gates"
  ELSE "routed"

Decision(c, map, gates, told) ==
  [map |-> map, gates |-> gates, told |-> told, outcome |-> RouteOf(c, map, gates, told),
   chosen |-> IF RouteOf(c, map, gates, told) = "routed"
              THEN Best(map, gates, Current(c, told)).index ELSE 0]

Route(map, gates, told) ==
  /\ \E c \in context : decision' = {Decision(c, map, gates, told)}
  /\ UNCHANGED <<now, bars, context>>

Next ==
  \/ \E price \in Prices : Trade(price)
  \/ Silence \/ BuildContext
  \/ \E map \in StrategyMaps, gates \in Gates, told \in RegimesTold : Route(map, gates, told)

Spec == Init /\ [][Next]_routingVars

(***************************************************************************)
(* The RegimeEngine: confidences in thousandths, 0 for no confidence.      *)
(***************************************************************************)
ZeroConfidence == [r \in {"BULL", "BEAR", "MIXED", "HIGH_VOL", "LOW_VOL", "TRENDING", "RANGING"} |-> 0]

\* 2% over the lookback; full confidence at twice that.
TrendConfidence(s) ==
  LET w == LastN(s, TrendLookback)
      move == Last(w).close - w[1].open
  IN IF 50 * Abs(move) > w[1].open
     THEN Smaller(1000, (25 * 1000 * Abs(move)) \div w[1].open) * (IF move > 0 THEN 1 ELSE -1)
     ELSE 0

\* The last true range against the mean: 1.3 and 0.7.
VolConfidence(s) ==
  LET r == Ranges(LastN(s, VolLookback))
      n == Len(r)
      ratio == (1000 * n * Last(r)) \div Total(r)
  IN IF n < 2 \/ Total(r) = 0 THEN 0
     ELSE IF ratio > 1300 THEN Smaller(1000, (1000 * (ratio - 1300)) \div 1300 + 500)
     ELSE IF ratio < 700 THEN -Smaller(1000, (1000 * (700 - ratio)) \div 700 + 500)
     ELSE 0

\* The simplified index: 25 and 20.
StrengthConfidence(s) ==
  LET w == LastN(s, 2 * AdxPeriod)
      rise(i) == w[i + 1].high - w[i].high
      drop(i) == w[i].low - w[i + 1].low
      plus == Total([i \in 1 .. Len(w) - 1 |-> IF rise(i) > drop(i) THEN Larger(rise(i), 0) ELSE 0])
      minus == Total([i \in 1 .. Len(w) - 1 |-> IF drop(i) > rise(i) THEN Larger(drop(i), 0) ELSE 0])
      adx == IF plus + minus = 0 THEN 0 ELSE (1000 * Abs(plus - minus)) \div (plus + minus)
  IN IF Len(s) < 2 * AdxPeriod \/ Total(Ranges(w)) = 0 THEN 0
     ELSE IF adx > 250 THEN Smaller(1000, (1000 * (adx - 200)) \div 60)
     ELSE IF adx < 200 THEN -Smaller(1000, 5 * (200 - adx) + 300)
     ELSE 0

Detect(s) ==
  LET t == TrendConfidence(s)
      v == VolConfidence(s)
      a == StrengthConfidence(s)
  IN IF Len(s) < TrendLookback THEN ZeroConfidence
     ELSE [ZeroConfidence EXCEPT
             !["BULL"] = Larger(t, 0), !["BEAR"] = Larger(-t, 0),
             !["MIXED"] = IF Abs(t) < 300 THEN 1000 - Abs(t) ELSE 0,
             !["HIGH_VOL"] = Larger(v, 0), !["LOW_VOL"] = Larger(-v, 0),
             !["TRENDING"] = Larger(a, 0), !["RANGING"] = Larger(-a, 0)]

ActiveRegimes(s) ==
  LET detected == Detect(s) IN {r \in DOMAIN ZeroConfidence : detected[r] > 300}

(***************************************************************************)
(* Properties.                                                             *)
(***************************************************************************)

\* A context rebuilt later from the whole series is the context that was built
\* then, as models.py promises for replays, unless the series has a bar whose
\* period was running at the context's time: the live context saw that bar
\* unfinished or not at all, the replay sees it whole.
ReplayIsExact ==
  \A c \in context :
    (\A i \in DOMAIN bars : bars[i].ts > c.ts \/ bars[i].ts + BarLength <= c.ts)
      => ContextOf(bars, c.ts, c.signed) = {c}

\* The history slice_window insists on is enough for every feature the
\* validation insists on: what an agent built is refused for want of a
\* fingerprint or of a timestamp, and for nothing else.
BuiltMeansValid ==
  \A signed \in BOOLEAN : \A c \in ContextOf(bars, now, signed) : Valid(c) <=> signed /\ now > 0

\* The strategy a route names is one of those with the highest score among
\* the strategies its gates admit in the regime, the caller's if it names one;
\* the earliest of them in the map; and the router stays out only for a reason
\* that holds.
ChoiceIsBest ==
  \A c \in context, d \in decision :
    LET regime == Current(c, d.told)
        stale == c.ts - c.end > StaleAfter \/ c.end = 0
        poor == 100 * c.count < d.gates.quality * FullWindow \/ d.gates.quality > 100
        able == {i \in DOMAIN d.map :
                   Passes(d.map[i], d.gates, regime) /\ Score(d.map[i], regime) > -10}
        top == {i \in able : \A j \in able : Score(d.map[i], regime) >= Score(d.map[j], regime)}
    IN IF d.outcome = "routed"
       THEN /\ d.chosen \in top /\ \A i \in top : d.chosen <= i
            /\ d.gates.fresh => ~stale
            /\ ~poor
       ELSE able = {} \/ (d.gates.fresh /\ stale) \/ poor

\* The engine never holds both of two opposite labels, always one of bull,
\* bear and mixed once it has the bars, and no label lingers in its
\* confidences without being active.
RegimesExclusive ==
  LET on == ActiveRegimes(bars)
      detected == Detect(bars) IN
  /\ \A pair \in {{"BULL", "BEAR"}, {"HIGH_VOL", "LOW_VOL"}, {"TRENDING", "RANGING"}} : ~pair \subseteq on
  /\ Len(bars) >= TrendLookback => Cardinality(on \cap {"BULL", "BEAR", "MIXED"}) = 1
  /\ \A r \in DOMAIN ZeroConfidence : detected[r] > 0 => r \in on

Safe == ReplayIsExact /\ BuiltMeansValid /\ ChoiceIsBest /\ RegimesExclusive
=============================================================================
