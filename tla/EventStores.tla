----------------------------- MODULE EventStores -----------------------------
(***************************************************************************)
(* The two append-only stores of events: the hash-chained desk journal of  *)
(* storage/event_store.py, with the hashing of domain/events/hashing.py,   *)
(* and the SQLite table of blocked signals of research/event_store.py.     *)
(*                                                                         *)
(* The journal keeps a reference to the payload it is given, so an event   *)
(* changes with the dictionary of whoever appended it.  A digest stands    *)
(* for all it was computed from: it is the sequence of the contents hashed *)
(* so far, which is what a hash without collisions tells apart.            *)
(***************************************************************************)
EXTENDS Integers, Sequences, FiniteSets, Functions

CONSTANTS
  Tickets, Types,        \* of an event: NoTicket if unnamed; FillReceived and TradeClosed
  Payloads, Values,      \* payload dictionaries, and what they may hold
  Families, Reasons,     \* of a blocked signal
  MaxTime, Limit,        \* time stamps, and the limit of a query
  MaxEvents, MaxBlocked  \* bounds

StoreAssumption == {MaxTime, Limit, MaxEvents, MaxBlocked} \subseteq Nat

VARIABLES
  value,                 \* payload |-> what it holds now
  events, last,          \* _events and _previous_hash
  appended,              \* history: each event as it was when appended
  blocked                \* rows of blocked_events, oldest first

storeVars == <<value, events, last, appended, blocked>>

Filled == "FillReceived"
Closed == "TradeClosed"

TypeOK ==
  /\ value \in [Payloads -> Values]
  /\ Len(events) <= MaxEvents /\ Len(blocked) <= MaxBlocked
  /\ \A i \in DOMAIN events :
       events[i].ticket \in Tickets /\ events[i].type \in Types /\ events[i].payload \in Payloads
  /\ \A i \in DOMAIN blocked :
       blocked[i] \in [family : Families, reason : Reasons, at : 0..MaxTime]

Init ==
  /\ value \in [Payloads -> Values]
  /\ events = <<>> /\ last = <<>> /\ appended = <<>> /\ blocked = <<>>

(***************************************************************************)
(* The journal.                                                            *)
(***************************************************************************)
Content(e) == <<e.ticket, e.type, value[e.payload]>>

\* Faulty variant of EventHash: the digest leaves the payload out.
EventHashOfHeader(e, previous) == Append(previous, <<e.ticket, e.type>>)

EventHash(e, previous) == Append(previous, Content(e))

AppendEvent(ticket, type, payload) ==
  LET e == [ticket |-> ticket, type |-> type, payload |-> payload]
      hash == EventHash(e, last)
  IN /\ Len(events) < MaxEvents
     /\ events' = Append(events, [ticket |-> ticket, type |-> type, payload |-> payload,
                                  previous |-> last, hash |-> hash])
     /\ last' = hash
     /\ appended' = Append(appended, Content(e))
     /\ UNCHANGED <<value, blocked>>

\* The dictionary an event was given is changed, by its owner or in the store.
ChangePayload(p, v) ==
  /\ value' = [value EXCEPT ![p] = v]
  /\ UNCHANGED <<events, last, appended, blocked>>

Clear ==
  /\ events' = <<>> /\ last' = <<>> /\ appended' = <<>>
  /\ UNCHANGED <<value, blocked>>

PreviousHash(i) == IF i = 1 THEN <<>> ELSE events[i - 1].hash
VerifyIntegrity ==
  \A i \in DOMAIN events :
    /\ events[i].hash = EventHash(events[i], PreviousHash(i))
    /\ events[i].previous = PreviousHash(i)

\* reconstruct_trade: the fills of a ticket in order, and whether it closed;
\* for the empty name every event is one of the ticket's.
NoTicket == 0
OfTicket(ticket, contents) ==
  SelectSeq(contents, LAMBDA c : ticket = NoTicket \/ c[1] = ticket)
ReconstructTrade(ticket, contents) ==
  LET own == OfTicket(ticket, contents)
      fills == SelectSeq(own, LAMBDA c : c[2] = Filled)
  IN [events |-> Len(own), fills |-> [i \in DOMAIN fills |-> fills[i][3]],
      closed |-> \E i \in DOMAIN own : own[i][2] = Closed]

(***************************************************************************)
(* The blocked signals.                                                    *)
(***************************************************************************)

\* record is a batch of one; a batch is one transaction.
RecordBatch(batch) ==
  /\ Len(blocked) + Len(batch) <= MaxBlocked
  /\ blocked' = blocked \o batch
  /\ UNCHANGED <<value, events, last, appended>>

Matching(family, from, to) ==
  {i \in DOMAIN blocked : blocked[i].family = family /\ blocked[i].at \in from..to}

Smaller(a, b) == IF a < b THEN a ELSE b

\* Newest first, those of one time as they came, at most Limit of them.
Query(family, from, to) ==
  LET rows == Matching(family, from, to)
      before(i) == {j \in rows : blocked[j].at > blocked[i].at
                                \/ (blocked[j].at = blocked[i].at /\ j < i)}
  IN [k \in 1 .. Smaller(Cardinality(rows), Limit) |->
        CHOOSE i \in rows : Cardinality(before(i)) = k - 1]

CountByReason(family, from, to) ==
  LET rows == Matching(family, from, to)
  IN [r \in {blocked[i].reason : i \in rows} |->
        Cardinality({i \in rows : blocked[i].reason = r})]

Rows == [family : Families, reason : Reasons, at : 0..MaxTime]

Next ==
  \/ \E t \in Tickets, y \in Types, p \in Payloads : AppendEvent(t, y, p)
  \/ \E p \in Payloads, v \in Values : ChangePayload(p, v)
  \/ Clear
  \/ \E r \in Rows : RecordBatch(<<r>>) \/ \E q \in Rows : RecordBatch(<<r, q>>)

Spec == Init /\ [][Next]_storeVars

(***************************************************************************)
(* Properties.                                                             *)
(***************************************************************************)

\* The chain verifies exactly while every event still says what it said when
\* it was appended, whoever changed a payload since.
VerifiedMeansUnchanged ==
  VerifyIntegrity <=> \A i \in DOMAIN events : Content(events[i]) = appended[i]

\* A trade reconstructed from a verified chain is the trade as it was told.
ReconstructionIsTrue ==
  VerifyIntegrity =>
    \A t \in Tickets :
      ReconstructTrade(t, [i \in DOMAIN events |-> Content(events[i])])
        = ReconstructTrade(t, appended)

\* A query returns the newest of what the counts count, and all of it unless
\* the limit cuts it.
QueriesAgreeWithCounts ==
  \A f \in Families, a, b \in 0..MaxTime :
    LET rows == Query(f, a, b)
        counts == CountByReason(f, a, b)
    IN /\ Len(rows) = Smaller(FoldFunction(+, 0, counts), Limit)
       /\ \A i \in Matching(f, a, b) \ Range(rows), j \in Range(rows) :
            blocked[j].at >= blocked[i].at

Safe == VerifiedMeansUnchanged /\ ReconstructionIsTrue /\ QueriesAgreeWithCounts
=============================================================================
