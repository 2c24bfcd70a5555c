--------------------------- MODULE KlineSnapshots ---------------------------
(***************************************************************************)
(* Candles downloaded page by page and saved as a snapshot of three files  *)
(* (research/market_provenance.py): fetch_klines of the Binance client,    *)
(* whose loop the Bybit client repeats, fetch_and_snapshot, and the        *)
(* provenance that describes the data.                                     *)
(*                                                                         *)
(* The exchange is external.  It answers with the candles that open in the *)
(* asked range, oldest first, at most Limit of them; it may have gaps, and *)
(* its newest candle is still forming.  A checksum stands for the bars it  *)
(* was computed from.                                                      *)
(***************************************************************************)
EXTENDS Integers, Sequences, FiniteSets, Functions

CONSTANTS
  Interval,              \* between two candles; more than 1, the step of the cursor
  Ranges,                \* <<start_ms, end_ms>> asked for
  Limit,                 \* candles of a page
  MaxTime,               \* bounds: the newest time stamp and
  MaxSnapshots           \* the snapshots tried

VARIABLES
  clock,                 \* time stamp of the candle that is forming
  gaps,                  \* candles the exchange does not have
  fetch,                 \* the download under way, or Idle
  writing,               \* the files still to be written, in order
  files,                 \* per file {} or its content
  taken                  \* snapshots begun

snapshotVars == <<clock, gaps, fetch, writing, files, taken>>

SnapshotAssumption ==
  /\ {Interval, Limit, MaxTime, MaxSnapshots} \subseteq Nat /\ Interval > 1 /\ Limit >= 1
  /\ Ranges \subseteq Nat \X Nat

Idle == [range |-> <<>>]
Files == {"ohlcv", "metadata", "checksum"}
Stamps == {k * Interval : k \in 0..(MaxTime \div Interval)}

TypeOK ==
  /\ clock \in Stamps /\ gaps \subseteq Stamps /\ taken \in 0..MaxSnapshots
  /\ fetch # Idle => fetch.range \in Ranges /\ fetch.cursor \in 0..(MaxTime + 1)
  /\ DOMAIN files = Files /\ Len(writing) <= 3

Init ==
  /\ clock \in Stamps /\ gaps \in SUBSET Stamps
  /\ fetch = Idle /\ writing = <<>> /\ taken = 0
  /\ files = [f \in Files |-> {}]

---------------------------------------------------------------------------

Bar(ts) == [ts |-> ts, closed |-> ts < clock]
Listed(from, to) == {ts \in Stamps \ gaps : from <= ts /\ ts <= to /\ ts <= clock}

Page(from, to) ==
  LET found == Listed(from, to)
      size == IF Cardinality(found) < Limit THEN Cardinality(found) ELSE Limit
      nth(i) == CHOOSE ts \in found : Cardinality({x \in found : x < ts}) = i - 1
  IN  [i \in 1..size |-> Bar(nth(i))]

Advance ==
  /\ clock + Interval \in Stamps
  /\ clock' = clock + Interval
  /\ UNCHANGED <<gaps, fetch, writing, files, taken>>

Ask(range) ==
  /\ fetch = Idle /\ writing = <<>> /\ taken < MaxSnapshots
  /\ fetch' = [range |-> range, cursor |-> range[1], bars |-> <<>>, done |-> FALSE,
               settled |-> range[2] <= clock]
  /\ taken' = taken + 1
  /\ UNCHANGED <<clock, gaps, writing, files>>

\* Faulty variant of NextCursor: the last candle is asked for again.
NextCursorAtLast(page) == page[Len(page)].ts
NextCursor(page) == page[Len(page)].ts + 1

\* Faulty variant of Short: a full page ends the download as well.
ShortOrFull(page) == Len(page) <= Limit
Short(page) == Len(page) < Limit

\* One turn of the loop: it ends at an empty or a short page, and when the
\* cursor reaches the end.
ReadPage ==
  /\ fetch # Idle /\ ~fetch.done
  /\ LET page == Page(fetch.cursor, fetch.range[2]) IN
     fetch' = IF fetch.cursor >= fetch.range[2] \/ page = <<>>
                THEN [fetch EXCEPT !.done = TRUE]
                ELSE [fetch EXCEPT !.bars = @ \o page, !.cursor = NextCursor(page),
                                   !.done = Short(page)]
  /\ UNCHANGED <<clock, gaps, writing, files, taken>>

\* Any error of a page is raised and nothing of the download is kept.
FetchFails ==
  /\ fetch # Idle /\ ~fetch.done
  /\ fetch' = Idle
  /\ UNCHANGED <<clock, gaps, writing, files, taken>>

\* Faulty variant of Provenance: start and end are the range asked for.
ProvenanceOfRange(range, bars) ==
  [start |-> range[1], end |-> range[2], bars |-> Len(bars), checksum |-> bars]

Provenance(range, bars) ==
  [start |-> IF bars = <<>> THEN range[1] ELSE bars[1].ts,
   end |-> IF bars = <<>> THEN range[2] ELSE bars[Len(bars)].ts,
   bars |-> Len(bars), checksum |-> bars]

\* Faulty variant of Order: the metadata go last.
OrderMetadataLast == <<"ohlcv", "checksum", "metadata">>
Order == <<"ohlcv", "metadata", "checksum">>

Describe ==
  /\ fetch # Idle /\ fetch.done
  /\ LET content == [ohlcv |-> fetch.bars, metadata |-> Provenance(fetch.range, fetch.bars),
                     checksum |-> fetch.bars]
     IN  writing' = [i \in 1..3 |-> <<Order[i], content[Order[i]]>>]
  /\ fetch' = Idle
  /\ UNCHANGED <<clock, gaps, files, taken>>

WriteFile ==
  /\ writing # <<>>
  /\ files' = [files EXCEPT ![Head(writing)[1]] = {Head(writing)[2]}]
  /\ writing' = Tail(writing)
  /\ UNCHANGED <<clock, gaps, fetch, taken>>

\* The process dies between two of the writes.
Crash ==
  /\ writing # <<>>
  /\ writing' = <<>>
  /\ UNCHANGED <<clock, gaps, fetch, files, taken>>

Next ==
  \/ \E range \in Ranges : Ask(range)
  \/ Advance \/ ReadPage \/ FetchFails \/ Describe \/ WriteFile \/ Crash

Spec == Init /\ [][Next]_snapshotVars

---------------------------------------------------------------------------

\* A reader that compares the sum with the candles.
Checked == files["ohlcv"] # {} /\ files["checksum"] = files["ohlcv"]
Named == \E meta \in files["metadata"] : files["checksum"] = {meta.checksum}

(* However the pages were cut and whatever opened in between, candles come *)
(* out once each, in order, and inside the range.                          *)
PagesJoin ==
  fetch # Idle =>
    LET bars == fetch.bars IN
    /\ \A i, j \in DOMAIN bars : i < j => bars[i].ts < bars[j].ts
    /\ \A i \in DOMAIN bars : fetch.range[1] <= bars[i].ts /\ bars[i].ts <= fetch.range[2]

(* A download of a range that was over has all its candles, and another    *)
(* one lacks a tail at most.  (A range of one instant is answered without  *)
(* asking, even when a candle opens there.)                                *)
NothingSkipped ==
  fetch # Idle /\ fetch.done /\ fetch.range[1] < fetch.range[2] =>
    LET read == {b.ts : b \in Range(fetch.bars)} IN
    \A ts \in Listed(fetch.range[1], fetch.range[2]) :
      ts \notin read => ~fetch.settled /\ \A r \in read : r < ts

(* Candles whose sum has been compared are described by the metadata when  *)
(* that names the same sum: no crash between the three writes and no       *)
(* second snapshot in the same directory makes them tell different stories.*)
MetadataDescribes ==
  Checked /\ Named =>
    \A meta \in files["metadata"], bars \in files["ohlcv"] :
      /\ meta.bars = Len(bars)
      /\ bars # <<>> => meta.start = bars[1].ts /\ meta.end = bars[Len(bars)].ts

(* The sum is written last: in a directory of its own a snapshot whose sum *)
(* fits is complete.  (A third snapshot over the torn second one may equal *)
(* the first, whose sum is still there, before its metadata is written.)   *)
SumComesLast == taken = 1 /\ Checked => Named

Safe == PagesJoin /\ NothingSkipped /\ MetadataDescribes /\ SumComesLast

============================================================================
