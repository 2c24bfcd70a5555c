----------------------------- MODULE ReadQuota -----------------------------
(***************************************************************************)
(* FixedWindowQuota (trading_bot/market_data/quota.py): how many reads a   *)
(* provider may be asked for within any window of time.  check and consume *)
(* run under a lock, so each is one step.                                  *)
(* granted is a history variable: the times of all units ever granted;     *)
(* hint is the retry time the last refusal of a single unit named.         *)
(***************************************************************************)
EXTENDS Integers, Sequences, FiniteSets, Functions

CONSTANTS
  Providers, Capacity, Window,
  Costs,
  MaxTime                \* bound: ticks of the clock

QuotaAssumption ==
  /\ {Capacity, Window} \subseteq Nat \ {0}
  /\ Costs \subseteq Nat \ {0} /\ MaxTime \in Nat

VARIABLES now, events, granted, hint

quotaVars == <<now, events, granted, hint>>

TypeOK ==
  /\ now \in 0..MaxTime
  /\ \A p \in Providers :
       /\ Len(events[p]) <= Capacity
       /\ Range(events[p]) \cup Range(granted[p]) \subseteq 0..MaxTime
       /\ hint[p] \subseteq 0..MaxTime + Window

Init ==
  /\ now = 0
  /\ events = [p \in Providers |-> <<>>]
  /\ granted = events
  /\ hint = [p \in Providers |-> {}]

\* popleft while the head is at the horizon or before it.
DropTo(q, horizon) ==
  LET gone == CHOOSE n \in 0..Len(q) :
                /\ \A i \in 1..n : q[i] <= horizon
                /\ n < Len(q) => q[n + 1] > horizon
  IN  SubSeq(q, gone + 1, Len(q))

\* Faulty variant of Evict: what is one tick short of a window old leaves too.
EvictEarly(q) == DropTo(q, now - Window + 1)

\* _evict: what is a whole window old or older leaves the front of the queue.
Evict(q) == DropTo(q, now - Window)

Check(p) ==
  /\ events' = [events EXCEPT ![p] = Evict(@)]
  /\ UNCHANGED <<now, granted, hint>>

\* All of the cost or nothing of it.
Consume(p, cost) ==
  LET kept  == Evict(events[p])
      units == [i \in 1..cost |-> now]
  IN  /\ Len(kept) + cost <= Capacity
      /\ events' = [events EXCEPT ![p] = kept \o units]
      /\ granted' = [granted EXCEPT ![p] = @ \o units]
      /\ hint' = [hint EXCEPT ![p] = {}]
      /\ UNCHANGED now

Refuse(p, cost) ==
  LET kept   == Evict(events[p])
      oldest == IF kept = <<>> THEN now ELSE Head(kept)
  IN  /\ Len(kept) + cost > Capacity
      /\ events' = [events EXCEPT ![p] = kept]
      /\ hint' = [hint EXCEPT ![p] = IF cost = 1 THEN {oldest + Window} ELSE {}]
      /\ UNCHANGED <<now, granted>>

Tick == now < MaxTime /\ now' = now + 1 /\ UNCHANGED <<events, granted, hint>>

Next ==
  \/ \E p \in Providers : Check(p) \/ \E c \in Costs : Consume(p, c) \/ Refuse(p, c)
  \/ Tick

Spec == Init /\ [][Next]_quotaVars

---------------------------------------------------------------------------

(* No window of that length, wherever it begins and however reads, checks  *)
(* and refusals interleave, sees more units granted than the capacity.     *)
NoWindowOverCapacity ==
  \A p \in Providers, start \in 0..MaxTime :
    Cardinality({i \in DOMAIN granted[p] : granted[p][i] \in start..start + Window - 1}) <= Capacity

(* A caller refused a single unit who comes back at the time the refusal   *)
(* named is served, unless somebody else was served before it.             *)
HintIsEnough ==
  \A p \in Providers : \A t \in hint[p] : now >= t => Len(Evict(events[p])) < Capacity

Safe == NoWindowOverCapacity /\ HintIsEnough

============================================================================
