---------------------------- MODULE DatasetChecks ----------------------------
(***************************************************************************)
(* What research asks of a candle series before it is used: the            *)
(* DataQualityGate of research/historical_data.py, the                     *)
(* DataIntegrityChecker of data_integrity.py, and the calendar analysis    *)
(* and window split of calendar.py.  A series is built bar by bar; a bar   *)
(* is its open time, in intervals of the timeframe, and what is wrong      *)
(* with it.                                                                *)
(***************************************************************************)
EXTENDS Integers, Sequences, FiniteSets, Functions

CONSTANTS
  Origin,                \* the first open time, in intervals since the epoch
  Strides,               \* from one bar to the next, 0 and -1 included
  MaxBars, MaxFaults,    \* bounds of the model: bars, and bars not "ok"
  Warmup,                \* min_warmup_bars and warmup_candles
  BarsPerDay, DstDays,   \* calendar: bars per day, days of a clock change
  Shares, Gap, MinSplit  \* split_windows: pairs of percentages, gap_bars, 10

DatasetAssumption ==
  /\ {Origin, MaxBars, MaxFaults, Warmup, BarsPerDay, Gap, MinSplit} \subseteq Nat
  /\ BarsPerDay > 0 /\ MinSplit > 0 /\ Strides \subseteq Int
  /\ Shares \subseteq (0..100) \X (0..100)

VARIABLE bars

datasetVars == <<bars>>

Last(s) == s[Len(s)]
Backwards(s) == [i \in DOMAIN s |-> s[Len(s) - i + 1]]

Kinds == {"ok", "highBelowLow", "highBelowClose", "lowAboveClose",
          "negativeVolume", "zeroVolume", "negativePrice"}

TypeOK ==
  /\ Len(bars) \in 0 .. MaxBars
  /\ \A i \in DOMAIN bars : bars[i].kind \in Kinds

Init == bars = <<>>

Extend(stride, kind) ==
  /\ Len(bars) < MaxBars
  /\ kind # "ok" => Cardinality({i \in DOMAIN bars : bars[i].kind # "ok"}) < MaxFaults
  /\ bars' = Append(bars, [ts |-> IF bars = <<>> THEN Origin ELSE Last(bars).ts + stride,
                           kind |-> kind])

Next == \E stride \in Strides, kind \in Kinds : Extend(stride, kind)

Spec == Init /\ [][Next]_datasetVars

(***************************************************************************)
(* DataQualityGate.validate and DataIntegrityChecker.check: the names of   *)
(* the checks that fail.                                                   *)
(***************************************************************************)
Increasing(s) == \A i \in 2 .. Len(s) : s[i].ts > s[i - 1].ts
Unique(s) == \A i, j \in DOMAIN s : s[i].ts = s[j].ts => i = j
Some(s, kinds) == \E i \in DOMAIN s : s[i].kind \in kinds
Misshapen == {"highBelowLow", "highBelowClose", "lowAboveClose"}

\* The tolerance of 1.5 multiplies the open time, not the interval.
GateGaps(s) == {i \in 2 .. Len(s) : 2 * s[i].ts > 3 * (s[i - 1].ts + 1)}
\* Faulty variant of CheckerGaps: a bar may be missing between two.
CheckerGapsWide(s) == {i \in 2 .. Len(s) : s[i].ts - s[i - 1].ts > 2}
CheckerGaps(s) == {i \in 2 .. Len(s) : 2 * (s[i].ts - s[i - 1].ts) > 3}

GateFails(s) ==
  IF s = <<>> THEN {"empty"}
  ELSE {c \in {"order", "duplicates", "shape", "volume", "gaps", "warmup", "lastBar"} :
          CASE c = "order" -> ~Increasing(s)
            [] c = "duplicates" -> ~Unique(s)
            [] c = "shape" -> Some(s, Misshapen)
            [] c = "volume" -> Some(s, {"negativeVolume"})
            [] c = "gaps" -> GateGaps(s) # {}
            [] c = "warmup" -> Len(s) < Warmup
            [] c = "lastBar" -> Last(s).kind = "zeroVolume"}

\* No bounds are given, so the completeness check does not run.
CheckerFails(s) ==
  {c \in {"order", "duplicates", "validity", "gaps", "warmup"} :
     CASE c = "order" -> ~Increasing(s)
       [] c = "duplicates" -> ~Unique(s)
       [] c = "validity" -> Some(s, Misshapen \cup {"negativeVolume", "negativePrice"})
       [] c = "gaps" -> CheckerGaps(s) # {}
       [] c = "warmup" -> Len(s) < Warmup}

\* Sorted by open time, bars of one time in the order they came.
Checksum(s) ==
  LET place(i) == Cardinality({j \in DOMAIN s : s[j].ts < s[i].ts
                                                \/ (s[j].ts = s[i].ts /\ j <= i)})
      at(k) == {s[i] : i \in {i \in DOMAIN s : place(i) = k}}
  IN [k \in DOMAIN s |-> CHOOSE b \in at(k) : TRUE]

(***************************************************************************)
(* The calendar.                                                           *)
(***************************************************************************)
DayOf(b) == b.ts \div BarsPerDay
Days(s) == {DayOf(s[i]) : i \in DOMAIN s}
CountOn(s, d) == Cardinality({i \in DOMAIN s : DayOf(s[i]) = d})

\* 5% tolerance; a day of a clock change is never complete.
IsCompleteDay(s, d) == d \notin DstDays /\ 20 * CountOn(s, d) >= 19 * BarsPerDay

\* Faulty variant of IsEvaluation: the last day counts.
IsEvaluationFromFirst(s, d) == d \notin DstDays /\ \E e \in Days(s) : e < d
\* A day between the first and the last, complete or not.
IsEvaluation(s, d) ==
  d \notin DstDays /\ \E e \in Days(s) : e < d /\ \E f \in Days(s) : f > d

Analyze(s) ==
  [total |-> Cardinality(Days(s)),
   complete |-> Cardinality({d \in Days(s) : IsCompleteDay(s, d)}),
   partial |-> Cardinality({d \in Days(s) : ~IsCompleteDay(s, d)}),
   evaluation |-> Cardinality({d \in Days(s) : IsEvaluation(s, d)})]

\* The positions of the bars that are kept, in order.
EvaluationBars(s) == {i \in DOMAIN s : IsEvaluation(s, DayOf(s[i]))}

\* split_windows: the indices of the bars whose times bound each window.
Split(s, share) ==
  LET n == Len(s)
      discEnd == (n * share[1]) \div 100
      confStart == discEnd + Gap
      reach == confStart + (n * share[2]) \div 100
      confEnd == IF reach > n THEN n ELSE reach
  IN [discovery |-> <<1, IF discEnd > 0 THEN discEnd ELSE 1>>,
      confirmation |-> <<IF confStart < n THEN confStart + 1 ELSE n,
                         IF confEnd > 0 THEN confEnd ELSE n>>,
      bars |-> <<discEnd, confEnd - confStart>>]

\* Disjoint: the discovery ends no later than the confirmation starts.
AreDisjoint(s, w) == s[w.discovery[2]].ts <= s[w.confirmation[1]].ts

(***************************************************************************)
(* Properties.                                                             *)
(***************************************************************************)

\* The two checkers written for the same purpose part only where they mean to:
\* what the gate lets through and the checker stops has a missing bar or a
\* negative price, what the checker lets through and the gate stops ends in a
\* bar without volume or is empty with no warm-up asked.  The gate never finds
\* a gap: its tolerance scales the time since the epoch.
CheckersAgree ==
  /\ GateFails(bars) = {} /\ CheckerFails(bars) # {} =>
       \/ \E i \in 2 .. Len(bars) : bars[i].ts - bars[i - 1].ts >= 2
       \/ Some(bars, {"negativePrice"})
  /\ CheckerFails(bars) = {} /\ GateFails(bars) # {} =>
       bars = <<>> \/ Last(bars).kind = "zeroVolume"
  /\ GateFails(bars) = {} /\ CheckerFails(bars) = {} =>
       \A i \in DOMAIN bars : bars[i].ts = bars[1].ts + i - 1

\* The checksum of a frozen dataset does not depend on the order its bars were
\* handed over in, unless two claim the same time.
ChecksumIgnoresOrder ==
  Unique(bars) => Checksum(Backwards(bars)) = Checksum(bars)

\* Only whole days enter an evaluation at its ends: no bar of the first or the
\* last day, or of a clock change, and the day counts add up.
EvaluationIsInterior ==
  LET kept == EvaluationBars(bars)
      a == Analyze(bars)
  IN /\ a.complete + a.partial = a.total
     /\ a.total > 0 => a.evaluation <= (IF a.total < 2 THEN 0 ELSE a.total - 2)
     /\ \A i \in kept : DayOf(bars[i]) \notin DstDays
     /\ \A i \in kept, b \in Range(bars) :
          (\A c \in Range(bars) : c.ts <= b.ts) \/ (\A c \in Range(bars) : c.ts >= b.ts)
            => DayOf(bars[i]) # DayOf(b)

\* Windows split from a clean series that leave the confirmation a bar share
\* none: no bar is inside both, and the reported counts are those between the
\* reported times.
SplitSharesNothing ==
  \A share \in Shares :
    Len(bars) >= MinSplit /\ Increasing(bars) =>
      LET w == Split(bars, share) IN
      /\ AreDisjoint(bars, w)
      /\ w.bars[1] > 0 /\ w.bars[2] > 0 =>
           /\ w.discovery[2] < w.confirmation[1]
           /\ w.bars[2] = w.confirmation[2] - w.confirmation[1] + 1

Safe ==
  /\ CheckersAgree /\ ChecksumIgnoresOrder
  /\ EvaluationIsInterior /\ SplitSharesNothing
=============================================================================
