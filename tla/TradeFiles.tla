----------------------------- MODULE TradeFiles -----------------------------
(***************************************************************************)
(* trading_bot/paper/trade_journal.py: the paper journal kept in one file  *)
(* per trade and an index of their identifiers, all rewritten in place.    *)
(* A write is two steps, truncation and completion, with a crash possible  *)
(* at any point; a crash between them leaves an unreadable file.           *)
(* recorded, exited and torn are history variables: the calls that         *)
(* returned, and whether a crash has ever cut a write in two.              *)
(***************************************************************************)
EXTENDS Sequences, Functions

CONSTANTS
  TradeIds               \* every identifier is used for one record_signal

VARIABLES
  entries,               \* _entries: identifier |-> "open" | "closed"
  order,                 \* the insertion order of _entries
  file,                  \* identifier |-> content of <trade_id>.json
  index,                 \* index.json: is it whole, and its trade_ids
  writing,               \* the call under way: [op, id, at] or Idle, or Down
  recorded, exited, torn

filesVars == <<entries, order, file, index, writing, recorded, exited, torn>>

Idle == [at |-> "idle"]
Down == [at |-> "down"]
Absent == "absent"
Unreadable == "unreadable"
Listing(ids) == [is |-> "whole", ids |-> ids]
Unlisted(why) == [is |-> why, ids |-> <<>>]

TypeOK ==
  /\ DOMAIN entries \subseteq TradeIds
  /\ \A t \in DOMAIN entries : entries[t] \in {"open", "closed"}
  /\ Range(order) = DOMAIN entries /\ IsInjective(order)
  /\ file \in [TradeIds -> {Absent, Unreadable, "open", "closed"}]
  /\ index.is \in {Absent, Unreadable, "whole"} /\ Range(index.ids) \subseteq TradeIds
  /\ writing \in {Idle, Down} \cup
       [op : {"signal", "exit"}, id : TradeIds, at : {"file", "cutFile", "index", "cutIndex"}]
  /\ recorded \subseteq TradeIds /\ exited \subseteq recorded /\ torn \in BOOLEAN

Init ==
  /\ entries = [t \in {} |-> "open"] /\ order = <<>>
  /\ file = [t \in TradeIds |-> Absent] /\ index = Unlisted(Absent)
  /\ writing = Idle
  /\ recorded = {} /\ exited = {} /\ torn = FALSE

RecordSignal(t) ==
  /\ writing = Idle /\ file[t] = Absent
  /\ entries' = [u \in DOMAIN entries \cup {t} |-> IF u = t THEN "open" ELSE entries[u]]
  /\ order' = IF t \in DOMAIN entries THEN order ELSE Append(order, t)
  /\ writing' = [op |-> "signal", id |-> t, at |-> "file"]
  /\ UNCHANGED <<file, index, recorded, exited, torn>>

\* An identifier that is not in memory is refused.
RecordExit(t) ==
  /\ writing = Idle /\ t \in DOMAIN entries
  /\ entries' = [entries EXCEPT ![t] = "closed"]
  /\ writing' = [op |-> "exit", id |-> t, at |-> "file"]
  /\ UNCHANGED <<order, file, index, recorded, exited, torn>>

At(step) == writing.at = step

OpenEntryFile ==
  /\ At("file")
  /\ file' = [file EXCEPT ![writing.id] = Unreadable]
  /\ writing' = [writing EXCEPT !.at = "cutFile"]
  /\ UNCHANGED <<entries, order, index, recorded, exited, torn>>

\* record_exit ends here: it leaves the index alone.
SaveEntry ==
  /\ At("cutFile")
  /\ file' = [file EXCEPT ![writing.id] = entries[writing.id]]
  /\ IF writing.op = "exit"
       THEN writing' = Idle /\ exited' = exited \cup {writing.id}
       ELSE writing' = [writing EXCEPT !.at = "index"] /\ UNCHANGED exited
  /\ UNCHANGED <<entries, order, index, recorded, torn>>

OpenIndex ==
  /\ At("index")
  /\ index' = Unlisted(Unreadable)
  /\ writing' = [writing EXCEPT !.at = "cutIndex"]
  /\ UNCHANGED <<entries, order, file, recorded, exited, torn>>

\* Faulty variant of SaveIndex: only the open trades are listed.
SaveIndexOpenOnly ==
  /\ At("cutIndex")
  /\ index' = Listing(SelectSeq(order, LAMBDA t : entries[t] = "open"))
  /\ writing' = Idle /\ recorded' = recorded \cup {writing.id}
  /\ UNCHANGED <<entries, order, file, exited, torn>>

\* The index lists what is in memory, whatever it listed before.
SaveIndex ==
  /\ At("cutIndex")
  /\ index' = Listing(order)
  /\ writing' = Idle
  /\ recorded' = recorded \cup {writing.id}
  /\ UNCHANGED <<entries, order, file, exited, torn>>

Crash ==
  /\ writing # Down
  /\ writing' = Down
  /\ torn' = (torn \/ At("cutFile") \/ At("cutIndex"))
  /\ entries' = [t \in {} |-> "open"] /\ order' = <<>>
  /\ UNCHANGED <<file, index, recorded, exited>>

\* What _load_entries keeps of a list of identifiers (none, if the index
\* cannot be read): a missing file is skipped, the first unreadable one ends the loading.
Loadable(ids) ==
  LET kept[n \in 0 .. Len(ids)] ==
        IF n = 0 THEN <<>>
        ELSE IF file[ids[n]] = Absent \/ \E i \in 1 .. n : file[ids[i]] = Unreadable
        THEN kept[n - 1]
        ELSE Append(kept[n - 1], ids[n])
  IN  kept[Len(ids)]

Load ==
  /\ writing = Down
  /\ writing' = Idle
  /\ order' = Loadable(index.ids)
  /\ entries' = [t \in Range(order') |-> file[t]]
  /\ UNCHANGED <<file, index, recorded, exited, torn>>

Next ==
  \/ \E t \in TradeIds : RecordSignal(t) \/ RecordExit(t)
  \/ OpenEntryFile \/ SaveEntry \/ OpenIndex \/ SaveIndex
  \/ Crash \/ Load

Spec == Init /\ [][Next]_filesVars

---------------------------------------------------------------------------

(* As long as no crash cut a write in two, no trade whose record_signal    *)
(* returned is ever missing: the index lists it, its file is readable, and *)
(* whenever the journal is idle it is in memory, across any number of      *)
(* crashes between the writes of a call.                                   *)
RecordedTradesSurvive ==
  ~torn /\ ~At("cutIndex") /\ recorded # {} =>
    /\ recorded \subseteq Range(index.ids)
    /\ writing = Idle => recorded \subseteq DOMAIN entries

(* A recorded exit is never undone: a trade whose record_exit returned is  *)
(* not open again after any crash, even one that damaged files.            *)
ExitsNeverReopen ==
  \A t \in exited : t \in DOMAIN entries => entries[t] = "closed"

(* Damage hides trades from the next start, and the index the next signal  *)
(* writes forgets them for good; no file of a recorded trade is removed,   *)
(* so a repair from the directory stays possible.                          *)
FilesOutliveTheIndex == \A t \in recorded : file[t] # Absent

Safe == RecordedTradesSurvive /\ ExitsNeverReopen /\ FilesOutliveTheIndex

============================================================================
