----------------------------- MODULE SpotOrders -----------------------------
(***************************************************************************)
(* The spot side of the live loop: the connector the session resolves      *)
(* (trading_bot/market_data/wiring.py, multi_exchange.py), the choice and  *)
(* the size of an order (_maybe_execute_live_trade in app.py) and the      *)
(* order itself, posted by the connector with retries                      *)
(* (market_data/exchange_connector.py, bitunix.py).                        *)
(*                                                                         *)
(* The exchange is external.  It knows an order by its client identifier;  *)
(* a request or its reply may be lost, and it answers a repeated           *)
(* identifier with the order it has or with a refusal, as the retries of   *)
(* create_order take for granted.  Money and amounts are whole numbers, an *)
(* amount counts lots of the market.                                       *)
(***************************************************************************)
EXTENDS Integers, Sequences, FiniteSets, Functions

CONSTANTS
  Symbols,
  Universes,             \* lists of exchange targets Universe accepts
  Funds,                 \* free USDT at the start
  Prices, Rules,         \* last prices; [open, quote, minTrade, minVolume]
  TradeQuote,            \* --trade-quote-usdt
  MaxLiveOrders,         \* --max-live-orders
  Cooldown,              \* --symbol-cooldown-seconds
  MaxAttempts,           \* retries.max_attempts
  MaxCalls, MaxTime      \* bounds: calls of create_order, ticks

SpotAssumption ==
  /\ Funds \in Nat /\ TradeQuote \in Int /\ Cooldown \in Int /\ MaxAttempts \in Int
  /\ Prices \subseteq Nat \ {0}
  /\ \A r \in Rules : r.minTrade \in Int /\ r.minVolume \in Int
  /\ \A u \in Universes : DOMAIN u \subseteq Nat

VARIABLES
  connector,             \* the adapter of the session
  configured,            \* history: the exchange id and targets it came from
  now, free,
  sent,                  \* orders_sent
  tradedAt,              \* traded_symbols
  call,                  \* the create_order under way, or Idle
  calls,                 \* how many calls there were
  orders,                \* at the exchange
  blind                  \* calls that raised after a request had been posted

spotVars == <<connector, configured, now, free, sent, tradedAt, call, calls, orders, blind>>

Idle == [call |-> 0]
Unresolved == <<>>
ConfigError == <<"error">>
Adapters == {<<"binance", "spot">>, <<"bybit", "spot">>, <<"bitunix", "spot">>,
             <<"bitunix", "futures">>}
AdapterOf(t) == <<t.id, t.type>>
CcxtAdapters == {<<"binance", "spot">>, <<"bybit", "spot">>}

TypeOK ==
  /\ connector \in {Unresolved, ConfigError} \cup Adapters
  /\ now \in 0..MaxTime /\ free \in Int
  /\ sent \in 0..MaxLiveOrders /\ calls \in 0..MaxCalls
  /\ DOMAIN tradedAt \subseteq Symbols
  /\ call = Idle \/ call.attempts \in 0..MaxAttempts
  /\ blind \subseteq 1..MaxCalls

Init ==
  /\ connector = Unresolved /\ configured = [id |-> "", targets |-> <<>>]
  /\ now = 0 /\ free = Funds /\ sent = 0
  /\ tradedAt = [s \in {} |-> 0]
  /\ call = Idle /\ calls = 0 /\ orders = {} /\ blind = {}

---------------------------------------------------------------------------
(* Composition root: targets and factories by exchange id.                 *)

\* Positions of the enabled targets, and the first of some positions.
Enabled(u) == {i \in DOMAIN u : u[i].enabled}
FirstOf(places) == CHOOSE i \in places : \A j \in places : i <= j

\* Universe's validator: no target twice, one enabled type per id.
ValidUniverse(u) ==
  /\ \A i, j \in DOMAIN u : i # j => <<u[i].id, u[i].type>> # <<u[j].id, u[j].type>>
  /\ \A i, j \in Enabled(u) : i # j => u[i].id # u[j].id

\* The enabled target of an id wins, otherwise the first declared.
TargetOf(u, id) ==
  LET same == {i \in DOMAIN u : u[i].id = id}
      on   == same \cap Enabled(u)
  IN  u[FirstOf(IF on = {} THEN same ELSE on)]

Unsupported(u) == \E i \in Enabled(u) : AdapterOf(u[i]) \notin Adapters

\* Faulty variant of Resolve: an id without an enabled target gets the first
\* enabled one instead of an error.
ResolveWithFallback(u, id) ==
  /\ connector = Unresolved
  /\ connector' = IF Enabled(u) = {} THEN ConfigError ELSE AdapterOf(u[FirstOf(Enabled(u))])
  /\ configured' = [id |-> id, targets |-> u]
  /\ UNCHANGED <<now, free, sent, tradedAt, call, calls, orders, blind>>

\* resolve_runtime_connector: an empty, unknown or disabled id is an error.
Resolve(u, id) ==
  /\ connector = Unresolved
  /\ connector' =
       IF Unsupported(u) \/ ~\E i \in DOMAIN u : u[i].id = id /\ TargetOf(u, id).enabled
         THEN ConfigError ELSE AdapterOf(TargetOf(u, id))
  /\ configured' = [id |-> id, targets |-> u]
  /\ UNCHANGED <<now, free, sent, tradedAt, call, calls, orders, blind>>

---------------------------------------------------------------------------
(* Choice and size of the next order.                                      *)

Larger(a, b) == IF a >= b THEN a ELSE b
Smaller(a, b) == IF a <= b THEN a ELSE b

\* The minimum notional is asked for with a buffer of 2%.
Target(r) == Smaller(Larger(TradeQuote, (r.minTrade * 102) \div 100), free)

\* Faulty variant of Amount: a size forced up to the minimum volume is not
\* compared with the balance again.
AmountUnchecked(r, price) == Larger(r.minVolume, Target(r) \div price)

\* Rounded down to the lot, and once more when the minimum volume costs more
\* than there is.
Amount(r, price) ==
  LET wanted == Larger(r.minVolume, Target(r) \div price)
  IN  IF wanted * price > free THEN (free * 98) \div (100 * price) ELSE wanted

Sendable(r, price) ==
  /\ r.open /\ r.quote = "USDT"
  /\ Target(r) >= r.minTrade
  /\ Amount(r, price) > 0
  /\ Amount(r, price) >= r.minVolume
  /\ Amount(r, price) * price >= r.minTrade

CoolingDown(s) == s \in DOMAIN tradedAt /\ now - tradedAt[s] < Cooldown

\* One iteration up to the order.  The ranking of the scan is any ranking, so
\* any symbol may come first.  The calls of one process are numbered; a call
\* without a client_order_id gets a fresh one, named after the call here.
Select(s, r, price) ==
  /\ connector \in CcxtAdapters /\ call = Idle /\ calls < MaxCalls
  /\ sent < MaxLiveOrders /\ free > 0
  /\ ~CoolingDown(s) /\ Sendable(r, price)
  /\ call' = [call |-> calls + 1, symbol |-> s, cost |-> Amount(r, price) * price,
              at |-> now, attempts |-> 0]
  /\ calls' = calls + 1
  /\ UNCHANGED <<connector, configured, now, free, sent, tradedAt, orders, blind>>

\* BitunixSpotConnector.create_order raises before any request.
SelectUnsupported ==
  /\ connector = <<"bitunix", "spot">> /\ call = Idle /\ calls < MaxCalls
  /\ sent < MaxLiveOrders /\ free > 0
  /\ calls' = calls + 1
  /\ UNCHANGED <<connector, configured, now, free, sent, tradedAt, call, orders, blind>>

---------------------------------------------------------------------------
(* create_order: one client identifier for all attempts.                   *)

\* Faulty variant of ClientId: a fresh identifier for every attempt.
ClientIdFresh == <<call.call, call.attempts>>

ClientId == <<call.call, 0>>

Posting == call # Idle /\ call.attempts < MaxAttempts
Known == \E o \in orders : o.cid = ClientId

Book ==
  IF Known THEN UNCHANGED <<orders, free>>
  ELSE /\ orders' = orders \cup {[cid |-> ClientId, call |-> call.call, symbol |-> call.symbol,
                                  at |-> call.at]}
       /\ free' = free - call.cost

\* The reply arrives and every field of it can be read.
Accepted ==
  /\ Posting /\ Book
  /\ sent' = sent + 1
  /\ tradedAt' = [s \in DOMAIN tradedAt \cup {call.symbol} |->
                    IF s = call.symbol THEN call.at ELSE tradedAt[s]]
  /\ call' = Idle
  /\ UNCHANGED <<connector, configured, now, calls, blind>>

\* A network error: the request or its reply was lost; the same request is
\* posted again until the attempts are used up.
Lost ==
  /\ Posting
  /\ Book \/ UNCHANGED <<orders, free>>
  /\ IF call.attempts + 1 < MaxAttempts
       THEN call' = [call EXCEPT !.attempts = @ + 1] /\ UNCHANGED blind
       ELSE call' = Idle /\ blind' = blind \cup {call.call}
  /\ UNCHANGED <<connector, configured, now, sent, tradedAt, calls>>

\* A reply that is no order (a refusal, a repeated identifier) or one whose
\* status or amount cannot be read, after the order was booked: it is not
\* retried, and the loop only records an ERROR event.
Raised ==
  /\ Posting
  /\ Book \/ UNCHANGED <<orders, free>>
  /\ call' = Idle /\ blind' = blind \cup {call.call}
  /\ UNCHANGED <<connector, configured, now, sent, tradedAt, calls>>

Tick ==
  /\ call = Idle /\ now < MaxTime
  /\ now' = now + 1
  /\ UNCHANGED <<connector, configured, free, sent, tradedAt, call, calls, orders, blind>>

Next ==
  \/ \E u \in Universes : ValidUniverse(u) /\
       \E id \in {"", "binance", "bitunix", "kraken"} : Resolve(u, id)
  \/ \E s \in Symbols, r \in Rules, p \in Prices : Select(s, r, p)
  \/ SelectUnsupported \/ Accepted \/ Lost \/ Raised \/ Tick

Spec == Init /\ [][Next]_spotVars

---------------------------------------------------------------------------

(* However often the retries post it, a call becomes at most one order.    *)
OneOrderPerCall == \A o, p \in orders : o.call = p.call => o = p

(* The session cap and the cooldown are kept by the counters alone, so     *)
(* they hold for the orders at the exchange up to the calls that raised:   *)
(* every order beyond the cap, and every second order of a symbol within   *)
(* its cooldown, stands beside a call that raised or is still under way.   *)
LimitsUpToBlindCalls ==
  /\ Cardinality(orders) <= sent + Cardinality((blind \cup {call.call}) \ {0})
  /\ \A o, p \in orders :
       o # p /\ o.symbol = p.symbol /\ o.at <= p.at /\ p.at - o.at < Cooldown
         => {o.call, p.call} \cap blind # {}

(* The orders of a session never cost more than its balance: lost replies, *)
(* retries and forced minimum volumes included.                            *)
NeverOverspends == free >= 0

(* A session trades on the exchange it names and on the type of it that is *)
(* enabled, or it does not start: there is no fallback to another target.  *)
SessionAsConfigured ==
  connector \notin {Unresolved, ConfigError} =>
    \E t \in Range(configured.targets) :
      t.enabled /\ t.id = configured.id /\ connector = AdapterOf(t)

Safe == SessionAsConfigured /\ OneOrderPerCall /\ LimitsUpToBlindCalls /\ NeverOverspends

============================================================================
