---------------------------- MODULE BitunixClients ----------------------------
(***************************************************************************)
(* The Bitunix REST clients and what the place-order command does with     *)
(* them: the spot client with its catalog, its clock offset and its one    *)
(* repeated request (market_data/bitunix.py), the futures connector's      *)
(* create_order (market_data/bitunix_futures.py), _cmd_place_order of      *)
(* app.py.                                                                 *)
(*                                                                         *)
(* The exchange is external: it lists one market, answers a signed request *)
(* whose time stamp is too far from its clock with a code of its own, and  *)
(* may book an order whose reply is lost or is an HTTP error.  A reply     *)
(* that names another order names that order's client identifier as well.  *)
(***************************************************************************)
EXTENDS Integers, FiniteSets

CONSTANTS
  Rules,                 \* precision and minimum the market may be listed with
  Skews,                 \* exchange clock minus local clock, in seconds
  Tolerance,             \* time stamps further off are refused
  MaxCommands            \* bound: orders tried

VARIABLES
  listing, skew,         \* exchange: the rule listed, its clock
  listed,                \* history: every rule listed so far
  orders,                \* exchange: the orders booked
  cache, offset,         \* of the spot client
  command,               \* the order being placed, or Idle
  tried,                 \* how many there were
  outcome                \* command |-> what the caller was told

bitunixVars == <<listing, skew, listed, orders, cache, offset, command, tried, outcome>>

BitunixAssumption == Tolerance \in Int /\ Tolerance >= 1 /\ Skews \subseteq Int

Unlisted == "unlisted"
Fabricated == "fabricated"      \* _fallback_symbol
NotLoaded == "not loaded"
Idle == [id |-> 0]
Kinds == {"spot", "futures"}

TypeOK ==
  /\ listing \in listed /\ listed \subseteq Rules \cup {Unlisted} /\ skew \in Skews /\ offset \in Int
  /\ cache \in Rules \cup {Unlisted, NotLoaded}
  /\ \A o \in orders : o.id \in 1..MaxCommands
  /\ tried \in 0..MaxCommands /\ DOMAIN outcome \subseteq 1..MaxCommands

Init ==
  /\ listing \in Rules /\ listed = {listing} /\ skew = 0 /\ orders = {}
  /\ cache = NotLoaded /\ offset = 0
  /\ command = Idle /\ tried = 0 /\ outcome = [c \in {} |-> ""]

---------------------------------------------------------------------------
(* The catalog, read once per process, and the rule of a market.           *)

Relist(rule) ==
  /\ listing' = rule /\ listed' = listed \cup {rule}
  /\ UNCHANGED <<skew, orders, cache, offset, command, tried, outcome>>

Drift(seconds) ==
  /\ skew' = seconds
  /\ UNCHANGED <<listing, listed, orders, cache, offset, command, tried, outcome>>

\* Faulty variant of CacheAfter: a failed read is remembered as an empty
\* catalog.
CacheAfterAnyRead(answered) ==
  IF cache # NotLoaded THEN cache ELSE IF answered THEN listing ELSE Unlisted

\* fetch_symbol_catalog: only an answer is kept, and then for good.
CacheAfter(answered) ==
  IF cache = NotLoaded /\ answered THEN listing ELSE cache

\* load_markets of the connector raises when there is no answer.
LoadMarkets ==
  /\ command = Idle
  /\ cache' = CacheAfter(TRUE)
  /\ UNCHANGED <<listing, skew, listed, orders, offset, command, tried, outcome>>

\* get_symbol: an unlisted market, and any while the catalog cannot be read,
\* has a made-up rule.
RuleAfter(answered) ==
  IF CacheAfter(answered) \in {NotLoaded, Unlisted} THEN Fabricated ELSE CacheAfter(answered)

\* place_spot_order up to the request: the rule it rounds with.  An amount
\* rounded to 0 or a price that cannot be read fail like a request that does.
BeginSpot(answered) ==
  /\ command = Idle /\ tried < MaxCommands
  /\ cache' = CacheAfter(answered)
  /\ command' = [id |-> tried + 1, kind |-> "spot", rule |-> RuleAfter(answered),
                 posted |-> 0, synced |-> {}]
  /\ tried' = tried + 1
  /\ UNCHANGED <<listing, skew, listed, orders, offset, outcome>>

\* create_order of the futures connector: the identifier is the caller's or a
\* fresh one, the client id of the order here.
BeginFutures ==
  /\ command = Idle /\ tried < MaxCommands
  /\ command' = [id |-> tried + 1, kind |-> "futures", rule |-> Unlisted, posted |-> 0,
                 synced |-> {}]
  /\ tried' = tried + 1
  /\ UNCHANGED <<listing, skew, listed, orders, cache, offset, outcome>>

---------------------------------------------------------------------------
(* The signed request.                                                     *)

Distance(a, b) == IF a >= b THEN a - b ELSE b - a

\* The futures client signs with the local clock as it is.
TooFarOff ==
  Distance(skew, IF command.kind = "spot" THEN offset ELSE 0) > Tolerance

Under(kind) == command # Idle /\ command.kind = kind
Told(text) ==
  /\ outcome' = [c \in DOMAIN outcome \cup {command.id} |->
                   IF c = command.id THEN text ELSE outcome[c]]
  /\ command' = Idle

Book == orders' = orders \cup {[id |-> command.id, post |-> command.posted]}

\* Booked; the caller prints the order of the reply.
Accepted ==
  /\ Under("spot") /\ ~TooFarOff
  /\ Book /\ Told("ok")
  /\ UNCHANGED <<listing, skew, listed, cache, offset, tried>>

\* Faulty variant of Failed: a request whose reply failed is posted again.
FailedPostedAgain ==
  /\ Under("spot") /\ ~TooFarOff
  /\ Book \/ UNCHANGED orders
  /\ IF command.posted = 0
       THEN command' = [command EXCEPT !.posted = 1] /\ UNCHANGED outcome
       ELSE Told("failed")
  /\ UNCHANGED <<listing, skew, listed, cache, offset, tried>>

\* A lost reply, an HTTP error or any other code: reported, never repeated.
Failed ==
  /\ Under("spot") /\ ~TooFarOff
  /\ Book \/ UNCHANGED orders
  /\ Told("failed")
  /\ UNCHANGED <<listing, skew, listed, cache, offset, tried>>

\* Faulty variant of OffsetFrom: the difference is taken the wrong way round.
OffsetFromReversed(error) == error - skew
\* _sync_time_offset: the Date header has whole seconds, cut off.
OffsetFrom(error) == skew - error

\* Code 100008 the first time: the offset is set from the Date header, or to
\* 0 without one, and the same request posted once more.
Resync(error, dated) ==
  /\ Under("spot") /\ TooFarOff /\ command.posted = 0
  /\ offset' = IF dated THEN OffsetFrom(error) ELSE 0
  /\ command' = [command EXCEPT !.posted = 1, !.synced = IF dated THEN {skew} ELSE {}]
  /\ UNCHANGED <<listing, skew, listed, orders, cache, tried, outcome>>

\* The second time it is an error, as it is when the sync itself fails; a
\* refusal with the clock still where the sync found it is told apart.
RefusedForTime ==
  /\ Under("spot") /\ TooFarOff
  /\ Told(IF skew \in command.synced THEN "late" ELSE "failed")
  /\ UNCHANGED <<listing, skew, listed, orders, cache, offset, tried>>

\* Faulty variant of Names: the echoed identifier is not looked at.
NamesAny(reply) == reply.order # 0
\* orderId has to be there, and clientId, when there, has to be the one sent.
Names(reply) == reply.order # 0 /\ (reply.echo # 0 => reply.echo = command.id)

\* A reply of the futures exchange: the order it names and the identifier it
\* echoes, 0 for none.  An unknown status raises as well.
FuturesReply(reply, knownStatus) ==
  /\ Under("futures") /\ ~TooFarOff
  /\ Book
  /\ reply.order \in {0, command.id} \/ reply.echo = reply.order
  /\ Told(IF ~Names(reply) \/ ~knownStatus THEN "failed"
          ELSE IF reply.order = command.id THEN "ok" ELSE "misnamed")
  /\ UNCHANGED <<listing, skew, listed, cache, offset, tried>>

FuturesFailed ==
  /\ Under("futures")
  /\ (~TooFarOff /\ Book) \/ UNCHANGED orders
  /\ Told("failed")
  /\ UNCHANGED <<listing, skew, listed, cache, offset, tried>>

\* The next command is a new process.
Restart ==
  /\ command = Idle
  /\ cache' = NotLoaded /\ offset' = 0
  /\ UNCHANGED <<listing, skew, listed, orders, command, tried, outcome>>

Next ==
  \/ \E rule \in Rules \cup {Unlisted} : Relist(rule)
  \/ \E seconds \in Skews : Drift(seconds)
  \/ LoadMarkets \/ BeginFutures \/ Accepted \/ Failed \/ RefusedForTime \/ FuturesFailed \/ Restart
  \/ \E answered \in BOOLEAN : BeginSpot(answered)
  \/ \E error \in {0, 1}, dated \in BOOLEAN : Resync(error, dated)
  \/ \E reply \in [order : 0..MaxCommands, echo : 0..MaxCommands], known \in BOOLEAN :
       FuturesReply(reply, known)

Spec == Init /\ [][Next]_bitunixVars

---------------------------------------------------------------------------

(* A command becomes at most one order: what is posted a second time was   *)
(* refused the first time, although no client identifier protects it.      *)
OneOrderPerCommand == \A o, p \in orders : o.id = p.id => o = p

(* A caller that is told of an order is told of the one it placed, however *)
(* replies are mixed up.                                                   *)
ReportsTheirOwn ==
  \A c \in DOMAIN outcome :
    /\ outcome[c] # "misnamed"
    /\ outcome[c] = "ok" => \E o \in orders : o.id = c

(* What the catalog remembers has been listed: neither a made-up rule nor  *)
(* a read that failed outlasts the order it was for.                       *)
CatalogIsTheExchanges == cache \in listed \cup {NotLoaded}

(* A clock that is off costs a spot order one repetition and not the       *)
(* order: after a sync it is refused again only if the clocks moved.       *)
SyncSuffices == \A c \in DOMAIN outcome : outcome[c] # "late"

Safe == OneOrderPerCommand /\ ReportsTheirOwn /\ CatalogIsTheExchanges /\ SyncSuffices

============================================================================
