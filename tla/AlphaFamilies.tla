---------------------------- MODULE AlphaFamilies ----------------------------
(***************************************************************************)
(* The alpha families of research/families: what generate answers to a     *)
(* market, the AlphaSignal it is wrapped in (research/types.py) and the    *)
(* stop alpha_signal_to_signal takes from it (paper/signal_adapter.py).    *)
(* The families were written by copying one another, and the short rule of *)
(* each by turning its long rule round.                                    *)
(*                                                                         *)
(* Indicators are inputs, as generate accepts them from its caller.        *)
(* Prices are in thousandths, so the floor of a long stop is 10.           *)
(***************************************************************************)
EXTENDS Integers, FiniteSets

CONSTANTS
  Prices, Atrs,          \* of the last candle; multiples of 2
  Marks                  \* values of averages, bands, channels, the close before

AlphaAssumption ==
  /\ Prices \subseteq Nat \ {0} /\ Prices # {}
  /\ Atrs \subseteq Nat /\ Atrs # {} /\ Marks \subseteq Int

VARIABLES
  market,                \* what generate is called with
  answer,                \* {} before the call, then its outcome
  stopPct                \* {} before the adapter, then its stop in 1/100 %

alphaVars == <<market, answer, stopPct>>

Families == {"ema_crossover", "breakout", "mean_reversion", "momentum", "trend", "volatility"}
Floor == 10              \* max(stop, 0.01)
Directions == {"LONG", "SHORT"}

\* Indicators of a family: levels, and numbers about a middle value.  The upper
\* side of a channel is an average of prices and more.
Tilts == {-1, 0, 1}
Views(family) ==
  CASE family = "ema_crossover"  -> [fast : Marks, slow : Marks, rsi : Tilts]
    [] family = "breakout"       -> {v \in [high : Marks, low : Marks, volume : Tilts] : v.low <= v.high}
    [] family = "mean_reversion" -> {v \in [before : Marks, lower : Marks, upper : Marks] : v.lower <= v.upper}
    [] family = "momentum"       -> [histogram : Tilts, momentum : Tilts]
    [] family = "trend"          -> [fast : Marks, mid : Marks, slow : Marks, slope : Tilts]
    [] family = "volatility"     ->
         {v \in [lower : Marks, upper : Marks, below : Marks, above : Marks, squeezed : BOOLEAN] :
            v.lower <= v.upper /\ v.below < v.above /\ v.above > 0}

\* enough: the candles reach the minimum; whole: every indicator is a number,
\* and the averages of the trend family are positive.
Markets ==
  UNION {[family : {f}, price : Prices, atr : Atrs, enough : BOOLEAN, whole : BOOLEAN,
          view : Views(f)] : f \in Families}

\* Where a composition starts while it looks elsewhere.
AnyMarket ==
  [family |-> "momentum", price |-> CHOOSE p \in Prices : TRUE, atr |-> CHOOSE a \in Atrs : TRUE,
   enough |-> FALSE, whole |-> FALSE, view |-> [histogram |-> 0, momentum |-> 0]]

Init == market \in Markets /\ answer = {} /\ stopPct = {}

---------------------------------------------------------------------------
(* What each family proposes: directions with their stops.                 *)

Proposals(long, longStop, short, shortStop) ==
  {p \in {<<"LONG", longStop>>, <<"SHORT", shortStop>>} : IF p[1] = "LONG" THEN long ELSE short}

EmaCrossover(m) ==
  LET v == m.view  width == (3 * m.atr) \div 2 IN
  Proposals(v.fast > v.slow /\ v.rsi > 0, m.price - width,
            v.fast < v.slow /\ v.rsi < 0, m.price + width)

\* The channel is that of the candles before the last one.
Breakout(m) ==
  LET v == m.view  width == (3 * m.atr) \div 2 IN
  Proposals(m.price > v.high /\ v.volume >= 0, m.price - width,
            m.price < v.low /\ v.volume >= 0, m.price + width)

\* Faulty variant of MeanReversion: the short rule asks for a close that is
\* still above the band.
MeanReversionHalfTurned(m) ==
  LET v == m.view  width == (3 * m.atr) \div 2 IN
  Proposals(v.before < v.lower /\ m.price > v.lower, v.lower - width,
            v.before > v.upper /\ m.price > v.upper, v.upper + width)

\* The close returns into the band; the stop is measured from the band.
MeanReversion(m) ==
  LET v == m.view  width == (3 * m.atr) \div 2 IN
  Proposals(v.before < v.lower /\ m.price > v.lower, v.lower - width,
            v.before > v.upper /\ m.price < v.upper, v.upper + width)

Momentum(m) ==
  LET v == m.view  width == 2 * m.atr IN
  Proposals(v.histogram > 0 /\ v.momentum > 0, m.price - width,
            v.histogram < 0 /\ v.momentum < 0, m.price + width)

Trend(m) ==
  LET v == m.view  width == (5 * m.atr) \div 2 IN
  Proposals(v.fast > v.mid /\ v.mid > v.slow /\ v.slope > 0, m.price - width,
            v.fast < v.mid /\ v.mid < v.slow /\ v.slope < 0, m.price + width)

\* A release from the Bollinger band after a squeeze, stopped at the other
\* side of the Keltner channel.
Volatility(m) ==
  LET v == m.view IN
  Proposals(v.squeezed /\ m.price > v.upper, v.below, v.squeezed /\ m.price < v.lower, v.above)

\* What is no market for a family is no error either.
ProposalsOf(m) ==
  IF ~(m.enough /\ m.whole /\ m.atr > 0) THEN {}
  ELSE CASE m.family = "ema_crossover"  -> EmaCrossover(m)
         [] m.family = "breakout"       -> Breakout(m)
         [] m.family = "mean_reversion" -> MeanReversion(m)
         [] m.family = "momentum"       -> Momentum(m)
         [] m.family = "trend"          -> Trend(m)
         [] m.family = "volatility"     -> Volatility(m)

---------------------------------------------------------------------------
(* The signal, and the stop the adapter reads from it.                     *)

\* Faulty variant of Floored: a stop below zero stays as it is.
FlooredNot(stop) == stop
Floored(stop) == IF stop < Floor THEN Floor ELSE stop

Alpha(m, p) ==
  [direction |-> p[1], entry |-> m.price, effective |-> p[2],
   structural |-> IF p[1] = "LONG" THEN Floored(p[2]) ELSE p[2]]

\* AlphaSignal raises without a positive entry and a positive structural stop.
Wellformed(alpha) == alpha.entry > 0 /\ alpha.structural > 0

Generate ==
  /\ answer = {}
  /\ LET given == {Alpha(market, p) : p \in ProposalsOf(market)}
     IN  answer' = {[alphas |-> given, raised |-> \E a \in given : ~Wellformed(a)]}
  /\ UNCHANGED <<market, stopPct>>

DefaultPct == 100

\* Faulty variant of AdapterStop: the floored stop is read first.
AdapterStopFloored(alpha) ==
  IF 0 < alpha.structural /\ alpha.structural < alpha.entry
    THEN ((alpha.entry - alpha.structural) * 10000) \div alpha.entry ELSE DefaultPct
\* effective_stop, or structural_stop where that is 0; 1% unless it lies
\* between 0 and the price, as no short stop does.
AdapterStop(alpha) ==
  LET stop == IF alpha.effective # 0 THEN alpha.effective ELSE alpha.structural IN
  IF 0 < stop /\ stop < alpha.entry
    THEN ((alpha.entry - stop) * 10000) \div alpha.entry ELSE DefaultPct

Adapt ==
  /\ stopPct = {}
  /\ \E a \in answer : ~a.raised /\ \E alpha \in a.alphas :
       stopPct' = {[alpha |-> alpha, pct |-> AdapterStop(alpha)]}
  /\ UNCHANGED <<market, answer>>

Next == Generate \/ Adapt

Spec == Init /\ [][Next]_alphaVars

TypeOK ==
  /\ market.family \in Families /\ market.price \in Prices
  /\ \A a \in answer : a.raised \in BOOLEAN /\ Cardinality(a.alphas) <= 2
  /\ \A s \in stopPct : s.pct \in 0..10000

---------------------------------------------------------------------------

Alphas == UNION {a.alphas : a \in answer}

(* No market is both a long and a short of one family.                     *)
OneDirection == Cardinality(Alphas) <= 1

(* The stop that is traded lies on the losing side of the entry, whatever  *)
(* the indicators are; only a Keltner channel moves independently of the   *)
(* price.  (The floored stop does not on a market below one cent, where it *)
(* is above the entry of a long.)                                          *)
StopsProtect ==
  market.family # "volatility" =>
    \A a \in Alphas :
      IF a.direction = "LONG" THEN a.effective < a.entry ELSE a.effective > a.entry

(* However wide the ATR, an answer about a market with a price is not lost *)
(* to the checks of AlphaSignal.                                           *)
WideStopsAreAnswered == \A a \in answer : market.price > 0 => ~a.raised

(* A long that can be stopped out is adapted with the distance of its own  *)
(* stop, at any price of the market; the floor replaces it only when it is *)
(* zero.                                                                   *)
AdaptedStopIsTheFamilys ==
  \A s \in stopPct :
    s.alpha.direction = "LONG" /\ 0 < s.alpha.effective /\ s.alpha.effective < s.alpha.entry =>
      s.pct = ((s.alpha.entry - s.alpha.effective) * 10000) \div s.alpha.entry

(* The market turned upside down about the price gives the same trade the  *)
(* other way round, with the stop as far away.                             *)
Turned(m) ==
  LET at(x) == 2 * m.price - x
      v == m.view
  IN [m EXCEPT !.view =
        CASE m.family = "ema_crossover"  -> [fast |-> at(v.fast), slow |-> at(v.slow), rsi |-> -v.rsi]
          [] m.family = "breakout"       -> [high |-> at(v.low), low |-> at(v.high), volume |-> v.volume]
          [] m.family = "mean_reversion" ->
               [before |-> at(v.before), lower |-> at(v.upper), upper |-> at(v.lower)]
          [] m.family = "momentum"       -> [histogram |-> -v.histogram, momentum |-> -v.momentum]
          [] m.family = "trend"          ->
               [fast |-> at(v.fast), mid |-> at(v.mid), slow |-> at(v.slow), slope |-> -v.slope]
          [] m.family = "volatility"     ->
               [lower |-> at(v.upper), upper |-> at(v.lower), below |-> at(v.above),
                above |-> at(v.below), squeezed |-> v.squeezed]]

TurnsRound ==
  answer # {} =>
    ProposalsOf(Turned(market)) =
      {<<IF p[1] = "LONG" THEN "SHORT" ELSE "LONG", 2 * market.price - p[2]>> :
         p \in ProposalsOf(market)}

Safe == OneDirection /\ StopsProtect /\ WideStopsAreAnswered /\ AdaptedStopIsTheFamilys /\ TurnsRound

============================================================================
