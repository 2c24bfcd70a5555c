-------------------------- MODULE DecisionsProofs ---------------------------
(***************************************************************************)
(* What the components of Decisions keep, for every value of their         *)
(* constants, as OperationsProofs has it of the others.                    *)
(***************************************************************************)
EXTENDS Decisions, Induction, FiniteSetTheorems, TLAPS

---------------------------------------------------------------------------
(* The read quota                                                          *)

\* A queue that holds the last of those granted, while the others are at the
\* horizon or before it.
LastOf(queue, all, horizon) ==
  LET gone == Len(all) - Len(queue) IN
  /\ gone \in Nat
  /\ \A i \in 1..Len(queue) : queue[i] = all[gone + i]
  /\ \A i \in 1..gone : all[i] <= horizon

QueueInv(p) ==
  /\ Len(events[p]) <= Capacity
  /\ \A i \in 1..Len(granted[p]) : granted[p][i] \in 0..quotaClock
  /\ LastOf(events[p], granted[p], quotaClock - QuotaWindow)

\* Reads are granted in the order of time, and those that lie as many apart as
\* the capacity is are a window apart.
Spaced(all) ==
  \A i, j \in 1..Len(all) :
    /\ i <= j => all[i] <= all[j]
    /\ j = i + Capacity => all[i] <= all[j] - QuotaWindow

\* While the queue is full its head is what the last hint was taken from.
HintInv(p) ==
  \A t \in hint[p] :
    /\ t \in 0..quotaClock + QuotaWindow
    /\ Len(events[p]) = Capacity => t = events[p][1] + QuotaWindow

QuotaInv ==
  /\ quotaClock \in 0..QuotaTime
  /\ events \in [Providers -> Seq(Int)] /\ granted \in [Providers -> Seq(Int)]
  /\ hint \in [Providers -> SUBSET Int]
  /\ \A p \in Providers : QueueInv(p) /\ Spaced(granted[p]) /\ HintInv(p)

\* Leaving drops the longest beginning that is at the horizon or before it.
LEMMA DropsTheOld ==
  ASSUME NEW q \in Seq(Int), NEW horizon \in Int
  PROVE  \E gone \in 0..Len(q) :
           /\ \A i \in 1..gone : q[i] <= horizon
           /\ gone < Len(q) => q[gone + 1] > horizon
           /\ Quota!DropTo(q, horizon) = SubSeq(q, gone + 1, Len(q))
           /\ Quota!DropTo(q, horizon) \in Seq(Int)
           /\ Len(Quota!DropTo(q, horizon)) = Len(q) - gone
           /\ \A i \in 1..Len(q) - gone : Quota!DropTo(q, horizon)[i] = q[gone + i]
<1> DEFINE Drops(n) == /\ \A i \in 1..n : q[i] <= horizon
                       /\ n < Len(q) => q[n + 1] > horizon
           Late == {n \in Nat : n >= Len(q) \/ q[n + 1] > horizon}
<1>1. Late # {} /\ Late \subseteq Nat
  <2>1. Len(q) \in Late
    OBVIOUS
  <2> QED BY <2>1
<1>2. PICK n \in Late : \A m \in Late : ~(m < n)
  BY <1>1, NatMin
<1>3. n \in 0..Len(q)
  <2>1. Len(q) \in Late
    OBVIOUS
  <2> QED BY <1>2, <2>1
<1>4. \A i \in 1..n : q[i] <= horizon
  <2> SUFFICES ASSUME NEW i \in 1..n PROVE q[i] <= horizon
    OBVIOUS
  <2>1. i - 1 \in Nat /\ i - 1 < n /\ i - 1 < Len(q)
    BY <1>3
  <2>2. i - 1 \notin Late
    BY <1>2, <2>1
  <2>3. ~(q[i - 1 + 1] > horizon)
    BY <2>1, <2>2
  <2>4. q[i] \in Int /\ i - 1 + 1 = i
    BY <1>3
  <2> QED BY <2>3, <2>4
<1>5. Drops(n)
  BY <1>2, <1>3, <1>4
<1> HIDE DEF Late
<1> DEFINE g == CHOOSE k \in 0..Len(q) : Drops(k)
<1>6. g \in 0..Len(q) /\ Drops(g)
  BY <1>3, <1>5
<1>7. Quota!DropTo(q, horizon) = SubSeq(q, g + 1, Len(q))
  BY DEF Quota!DropTo
<1>8. SubSeq(q, g + 1, Len(q)) \in Seq(Int)
  BY <1>6
<1>9. Len(SubSeq(q, g + 1, Len(q))) = Len(q) - g
  BY <1>6
<1>10. \A i \in 1..Len(q) - g : SubSeq(q, g + 1, Len(q))[i] = q[g + i]
  BY <1>6
<1> HIDE DEF g
<1> QED BY <1>6, <1>7, <1>8, <1>9, <1>10

\* What is left of a queue still is the last of those granted, and all of it
\* is younger than the horizon.
LEMMA DropKeeps ==
  ASSUME NEW q \in Seq(Int), NEW all \in Seq(Int), NEW horizon \in Int, LastOf(q, all, horizon)
  PROVE  LET kept == Quota!DropTo(q, horizon)
         IN /\ kept \in Seq(Int) /\ LastOf(kept, all, horizon)
            /\ Len(kept) <= Len(q)
            /\ Len(kept) = Len(q) => kept = q
            /\ Len(kept) > 0 => kept[1] > horizon
<1>1. PICK n \in 0..Len(q) :
           /\ \A i \in 1..n : q[i] <= horizon
           /\ n < Len(q) => q[n + 1] > horizon
           /\ Quota!DropTo(q, horizon) = SubSeq(q, n + 1, Len(q))
           /\ Quota!DropTo(q, horizon) \in Seq(Int)
           /\ Len(Quota!DropTo(q, horizon)) = Len(q) - n
           /\ \A i \in 1..Len(q) - n : Quota!DropTo(q, horizon)[i] = q[n + i]
  BY DropsTheOld
<1>2. PICK kept \in Seq(Int) : kept = Quota!DropTo(q, horizon)
  BY <1>1
<1>3. PICK past \in Nat : past = Len(all) - Len(q)
  BY DEF LastOf
<1>4. /\ \A i \in 1..Len(q) : q[i] = all[past + i]
      /\ \A i \in 1..past : all[i] <= horizon
  BY <1>3 DEF LastOf
<1>5. Len(kept) = Len(q) - n /\ \A i \in 1..Len(q) - n : kept[i] = q[n + i]
  BY <1>1, <1>2
<1>6. Len(all) - Len(kept) = past + n
  <2>1. Len(all) \in Nat /\ Len(q) \in Nat /\ n \in Nat
    OBVIOUS
  <2>2. Len(kept) = Len(q) - n
    BY <1>5
  <2> QED BY <1>3, <2>1, <2>2
<1>7. \A i \in 1..past + n : all[i] <= horizon
  <2> SUFFICES ASSUME NEW i \in 1..past + n PROVE all[i] <= horizon
    OBVIOUS
  <2>1. CASE i \in 1..past
    BY <1>4, <2>1
  <2>2. CASE i \notin 1..past
    <3>1. i - past \in 1..n /\ i - past \in 1..Len(q) /\ past + (i - past) = i
      BY <2>2
    <3> QED BY <1>1, <1>4, <3>1
  <2> QED BY <2>1, <2>2
<1>8. \A i \in 1..Len(kept) : kept[i] = all[past + n + i]
  <2> SUFFICES ASSUME NEW i \in 1..Len(kept) PROVE kept[i] = all[past + n + i]
    OBVIOUS
  <2>1. i \in 1..Len(q) - n /\ n + i \in 1..Len(q) /\ past + (n + i) = past + n + i
    BY <1>5
  <2> QED BY <1>4, <1>5, <2>1
<1>9. LastOf(kept, all, horizon)
  <2> past + n \in Nat
    OBVIOUS
  <2> QED BY <1>6, <1>7, <1>8, Zenon DEF LastOf
<1>10. Len(kept) > 0 => kept[1] > horizon
  <2> SUFFICES ASSUME Len(kept) > 0 PROVE kept[1] > horizon
    OBVIOUS
  <2>1. n < Len(q) /\ 1 \in 1..Len(q) - n
    BY <1>5
  <2>2. kept[1] = q[n + 1]
    BY <1>5, <2>1
  <2> QED BY <1>1, <2>1, <2>2
<1>11. Len(kept) = Len(q) => kept = q
  BY <1>1, <1>2, <1>5
<1> QED BY <1>2, <1>5, <1>9, <1>10, <1>11

\* The points of two sequences put together.
LEMMA Joined ==
  ASSUME NEW s \in Seq(Int), NEW t \in Seq(Int)
  PROVE  /\ s \o t \in Seq(Int)
         /\ Len(s \o t) = Len(s) + Len(t) /\ Len(s) \in Nat /\ Len(t) \in Nat
         /\ \A i \in 1..Len(s) : (s \o t)[i] = s[i]
         /\ \A i \in Len(s) + 1..Len(s) + Len(t) : (s \o t)[i] = t[i - Len(s)]
  OBVIOUS

\* Units granted together go to the end of both sequences.
LEMMA GrantKeeps ==
  ASSUME NEW kept \in Seq(Int), NEW all \in Seq(Int), NEW time \in Nat, NEW cost \in Nat \ {0},
         LastOf(kept, all, time - QuotaWindow), Spaced(all),
         Len(kept) + cost <= Capacity,
         \A i \in 1..Len(all) : all[i] \in 0..time
  PROVE  LET units == [i \in 1..cost |-> time]
         IN /\ kept \o units \in Seq(Int) /\ all \o units \in Seq(Int)
            /\ Len(kept \o units) = Len(kept) + cost
            /\ LastOf(kept \o units, all \o units, time - QuotaWindow)
            /\ Spaced(all \o units)
            /\ \A i \in 1..Len(all \o units) : (all \o units)[i] \in 0..time
<1>0. Capacity \in Nat \ {0} /\ QuotaWindow \in Nat \ {0}
  BY RequestsAssumption DEF RequestsAssumption, Quota!QuotaAssumption
<1>1. PICK units : units = [i \in 1..cost |-> time]
  OBVIOUS
<1>2. units \in Seq(Int) /\ Len(units) = cost /\ \A i \in 1..cost : units[i] = time
  BY <1>1
<1>3. PICK queue \in Seq(Int) : queue = kept \o units
  BY <1>2, Joined
<1>4. PICK more \in Seq(Int) : more = all \o units
  BY <1>2, Joined
<1>a. PICK K \in Nat : K = Len(kept)
  BY Joined
<1>b. PICK L \in Nat : L = Len(all)
  BY Joined
<1>5. K = Len(kept) /\ L = Len(all)
  BY <1>a, <1>b
<1>6. /\ Len(queue) = K + cost
      /\ \A i \in 1..K : queue[i] = kept[i]
      /\ \A i \in K + 1..K + cost : queue[i] = time
  <2>1. /\ Len(queue) = K + cost
        /\ \A i \in 1..K : queue[i] = kept[i]
        /\ \A i \in K + 1..K + cost : queue[i] = units[i - K]
    <3>1. /\ Len(kept \o units) = Len(kept) + Len(units)
          /\ \A i \in 1..Len(kept) : (kept \o units)[i] = kept[i]
          /\ \A i \in Len(kept) + 1..Len(kept) + Len(units) : (kept \o units)[i] = units[i - Len(kept)]
      BY <1>2, Joined
    <3> QED BY <1>2, <1>3, <1>5, <3>1, Zenon
  <2>2. \A i \in K + 1..K + cost : i - K \in 1..cost
    OBVIOUS
  <2> QED BY <1>2, <2>1, <2>2
<1>7. /\ Len(more) = L + cost
      /\ \A i \in 1..L : more[i] = all[i]
      /\ \A i \in L + 1..L + cost : more[i] = time
  <2>1. /\ Len(more) = L + cost
        /\ \A i \in 1..L : more[i] = all[i]
        /\ \A i \in L + 1..L + cost : more[i] = units[i - L]
    <3>1. /\ Len(all \o units) = Len(all) + Len(units)
          /\ \A i \in 1..Len(all) : (all \o units)[i] = all[i]
          /\ \A i \in Len(all) + 1..Len(all) + Len(units) : (all \o units)[i] = units[i - Len(all)]
      BY <1>2, Joined
    <3> QED BY <1>2, <1>4, <1>5, <3>1, Zenon
  <2>2. \A i \in L + 1..L + cost : i - L \in 1..cost
    OBVIOUS
  <2> QED BY <1>2, <2>1, <2>2
<1>8. /\ L - K \in Nat
      /\ \A i \in 1..K : kept[i] = all[L - K + i]
      /\ \A i \in 1..L - K : all[i] <= time - QuotaWindow
  BY <1>5 DEF LastOf
<1>9. Len(more) - Len(queue) = L - K
  BY <1>6, <1>7
<1>10. LastOf(queue, more, time - QuotaWindow)
  <2>1. \A i \in 1..K + cost : queue[i] = more[L - K + i]
    <3> SUFFICES ASSUME NEW i \in 1..K + cost PROVE queue[i] = more[L - K + i]
      OBVIOUS
    <3>1. CASE i \in 1..K
      <4>1. L - K + i \in 1..L
        BY <1>8, <3>1
      <4> QED BY <1>6, <1>7, <1>8, <3>1, <4>1
    <3>2. CASE i \notin 1..K
      <4>1. i \in K + 1..K + cost /\ L - K + i \in L + 1..L + cost
        BY <1>8, <3>2
      <4> QED BY <1>6, <1>7, <4>1
    <3> QED BY <3>1, <3>2
  <2>2. \A i \in 1..L - K : more[i] <= time - QuotaWindow
    BY <1>7, <1>8
  <2> QED BY <1>6, <1>8, <1>9, <2>1, <2>2 DEF LastOf
<1>11. \A i \in 1..L : all[i] \in 0..time
  BY <1>5
<1>12. \A i \in 1..L + cost : more[i] \in 0..time
  <2> SUFFICES ASSUME NEW i \in 1..L + cost PROVE more[i] \in 0..time
    OBVIOUS
  <2>1. i \in 1..L \/ i \in L + 1..L + cost
    OBVIOUS
  <2>2. time \in 0..time
    OBVIOUS
  <2> QED BY <1>7, <1>11, <2>1, <2>2, Zenon
<1>13. Spaced(more)
  <2> SUFFICES ASSUME NEW i \in 1..L + cost, NEW j \in 1..L + cost
               PROVE  /\ i <= j => more[i] <= more[j]
                      /\ j = i + Capacity => more[i] <= more[j] - QuotaWindow
    BY <1>7 DEF Spaced
  <2>1. CASE j \in 1..L
    <3>1. i <= j => i \in 1..L
      BY <2>1
    <3>2. j = i + Capacity => i <= j
      BY <1>0
    <3>3. i \in 1..L => /\ i <= j => all[i] <= all[j]
                        /\ j = i + Capacity => all[i] <= all[j] - QuotaWindow
      BY <1>5, <2>1 DEF Spaced
    <3> QED BY <1>7, <2>1, <3>1, <3>2, <3>3
  <2>2. CASE j \notin 1..L
    <3>1. more[j] = time
      BY <1>7, <2>2
    <3>2. more[i] \in 0..time
      BY <1>12
    <3>3. ASSUME j = i + Capacity
          PROVE  more[i] <= time - QuotaWindow
      <4>1. i \in 1..L - K /\ i \in 1..L
        BY <1>0, <1>5, <1>8, <3>3
      <4> QED BY <1>7, <1>8, <4>1
    <3> QED BY <3>1, <3>2, <3>3
  <2> QED BY <2>1, <2>2
<1> QED BY <1>1, <1>3, <1>4, <1>5, <1>6, <1>7, <1>10, <1>12, <1>13

\* What Evict leaves of a provider's queue.
LEMMA EvictKeeps ==
  ASSUME QuotaInv, NEW p \in Providers
  PROVE  LET kept == Quota!Evict(events[p])
         IN /\ kept \in Seq(Int) /\ Len(kept) \in Nat
            /\ LastOf(kept, granted[p], quotaClock - QuotaWindow)
            /\ Len(kept) <= Len(events[p]) /\ Len(kept) <= Capacity
            /\ Len(kept) = Len(events[p]) => kept = events[p]
            /\ Len(kept) > 0 => kept[1] > quotaClock - QuotaWindow
<1>1. /\ events[p] \in Seq(Int) /\ granted[p] \in Seq(Int) /\ quotaClock - QuotaWindow \in Int
      /\ LastOf(events[p], granted[p], quotaClock - QuotaWindow) /\ Len(events[p]) <= Capacity
  BY RequestsAssumption DEF QuotaInv, QueueInv, RequestsAssumption, Quota!QuotaAssumption
<1>2. PICK kept \in Seq(Int) : kept = Quota!Evict(events[p])
  BY <1>1, DropKeeps DEF Quota!Evict
<1>3. /\ LastOf(kept, granted[p], quotaClock - QuotaWindow)
      /\ Len(kept) <= Len(events[p])
      /\ Len(kept) = Len(events[p]) => kept = events[p]
      /\ Len(kept) > 0 => kept[1] > quotaClock - QuotaWindow
  BY <1>1, <1>2, DropKeeps DEF Quota!Evict
<1>4. Len(kept) \in Nat /\ Len(events[p]) \in Nat /\ Capacity \in Nat
  BY <1>1, RequestsAssumption DEF RequestsAssumption, Quota!QuotaAssumption
<1> QED BY <1>1, <1>2, <1>3, <1>4

\* At the start nothing is granted.
LEMMA InitQuota == Quota!Init => QuotaInv
<1> USE RequestsAssumption DEF RequestsAssumption, Quota!QuotaAssumption
<1> SUFFICES ASSUME Quota!Init PROVE QuotaInv
  OBVIOUS
<1>1. /\ quotaClock = 0 /\ events = [p \in Providers |-> <<>>]
      /\ granted = [p \in Providers |-> <<>>] /\ hint = [p \in Providers |-> {}]
  BY DEF Quota!Init
<1>2. LastOf(<<>>, <<>>, 0 - QuotaWindow) /\ Spaced(<<>>)
  BY DEF LastOf, Spaced
<1> QED BY <1>1, <1>2 DEF QuotaInv, QueueInv, HintInv

\* A step that touches one provider keeps the invariant if it keeps it for
\* that provider.
LEMMA OneProvider ==
  ASSUME QuotaInv, NEW p \in Providers, UNCHANGED quotaClock,
         NEW queue \in Seq(Int), events' = [events EXCEPT ![p] = queue],
         NEW all \in Seq(Int), granted' = [granted EXCEPT ![p] = all],
         NEW times \in SUBSET Int, hint' = [hint EXCEPT ![p] = times],
         Len(queue) <= Capacity, LastOf(queue, all, quotaClock - QuotaWindow), Spaced(all),
         \A i \in 1..Len(all) : all[i] \in 0..quotaClock,
         \A t \in times : /\ t \in 0..quotaClock + QuotaWindow
                          /\ Len(queue) = Capacity => t = queue[1] + QuotaWindow
  PROVE  QuotaInv'
<1>1. /\ events' \in [Providers -> Seq(Int)] /\ granted' \in [Providers -> Seq(Int)]
      /\ hint' \in [Providers -> SUBSET Int] /\ quotaClock' \in 0..QuotaTime
  BY DEF QuotaInv
<1>2. events'[p] = queue /\ granted'[p] = all /\ hint'[p] = times
  BY DEF QuotaInv
<1>3. \A o \in Providers \ {p} :
        events'[o] = events[o] /\ granted'[o] = granted[o] /\ hint'[o] = hint[o]
  BY DEF QuotaInv
<1>4. \A o \in Providers : QueueInv(o)' /\ Spaced(granted'[o]) /\ HintInv(o)'
  <2> SUFFICES ASSUME NEW o \in Providers
               PROVE  QueueInv(o)' /\ Spaced(granted'[o]) /\ HintInv(o)'
    OBVIOUS
  <2>1. CASE o = p
    BY <1>2, <2>1 DEF QueueInv, HintInv
  <2>2. CASE o # p
    <3>1. events'[o] = events[o] /\ granted'[o] = granted[o] /\ hint'[o] = hint[o]
      BY <1>3, <2>2
    <3>2. QueueInv(o) /\ Spaced(granted[o]) /\ HintInv(o)
      BY DEF QuotaInv
    <3> QED BY <3>1, <3>2 DEF QueueInv, HintInv
  <2> QED BY <2>1, <2>2
<1> QED BY <1>1, <1>4 DEF QuotaInv

\* What a provider's queue is between the steps.
LEMMA ProviderFacts ==
  ASSUME QuotaInv, NEW p \in Providers
  PROVE  /\ events[p] \in Seq(Int) /\ granted[p] \in Seq(Int) /\ hint[p] \in SUBSET Int
         /\ quotaClock \in Nat /\ QueueInv(p) /\ Spaced(granted[p]) /\ HintInv(p)
         /\ \A i \in 1..Len(granted[p]) : granted[p][i] \in 0..quotaClock
         /\ granted = [granted EXCEPT ![p] = granted[p]]
         /\ hint = [hint EXCEPT ![p] = hint[p]]
  BY DEF QuotaInv, QueueInv

\* Every step of the quota and of the clock keeps the invariant.
LEMMA QuotaStepKeeps == QuotaInv /\ [Quota!Next]_quotaVars => QuotaInv'
<1> SUFFICES ASSUME QuotaInv, [Quota!Next]_quotaVars PROVE QuotaInv'
  OBVIOUS
<1> USE RequestsAssumption DEF RequestsAssumption, Quota!QuotaAssumption
<1>1. CASE UNCHANGED quotaVars
  BY <1>1 DEF quotaVars, QuotaInv, QueueInv, HintInv
<1>2. ASSUME NEW p \in Providers, Quota!Check(p)
      PROVE  QuotaInv'
  <2>1. PICK kept \in Seq(Int) : kept = Quota!Evict(events[p])
    BY EvictKeeps
  <2>2. /\ LastOf(kept, granted[p], quotaClock - QuotaWindow) /\ Len(kept) \in Nat
        /\ Len(kept) <= Len(events[p]) /\ Len(kept) <= Capacity
        /\ Len(kept) = Len(events[p]) => kept = events[p]
    BY <2>1, EvictKeeps
  <2>3. /\ events' = [events EXCEPT ![p] = kept] /\ granted' = [granted EXCEPT ![p] = granted[p]]
        /\ hint' = [hint EXCEPT ![p] = hint[p]] /\ UNCHANGED quotaClock
    BY <1>2, <2>1, ProviderFacts DEF Quota!Check
  <2>4. \A t \in hint[p] : /\ t \in 0..quotaClock + QuotaWindow
                           /\ Len(kept) = Capacity => t = kept[1] + QuotaWindow
    <3>1. Len(events[p]) \in Nat /\ Len(events[p]) <= Capacity
      BY ProviderFacts DEF QueueInv
    <3>2. Len(kept) = Capacity => kept = events[p]
      BY <2>2, <3>1
    <3> QED BY <3>2, ProviderFacts DEF HintInv
  <2> QED BY <2>2, <2>3, <2>4, ProviderFacts, OneProvider
<1>3. ASSUME NEW p \in Providers, NEW c \in Costs, Quota!Consume(p, c)
      PROVE  QuotaInv'
  <2>1. PICK kept \in Seq(Int) : kept = Quota!Evict(events[p])
    BY EvictKeeps
  <2>2. LastOf(kept, granted[p], quotaClock - QuotaWindow) /\ Len(kept) \in Nat
    BY <2>1, EvictKeeps
  <2> DEFINE units == [i \in 1..c |-> quotaClock]
  <2>3. /\ events' = [events EXCEPT ![p] = kept \o units]
        /\ granted' = [granted EXCEPT ![p] = granted[p] \o units]
        /\ hint' = [hint EXCEPT ![p] = {}] /\ UNCHANGED quotaClock
        /\ Len(kept) + c <= Capacity
    BY <1>3, <2>1, ProviderFacts DEF Quota!Consume
  <2>4. c \in Nat \ {0} /\ quotaClock \in Nat
    BY ProviderFacts
  <2>5. /\ kept \o units \in Seq(Int) /\ granted[p] \o units \in Seq(Int)
        /\ Len(kept \o units) = Len(kept) + c
        /\ LastOf(kept \o units, granted[p] \o units, quotaClock - QuotaWindow)
        /\ Spaced(granted[p] \o units)
        /\ \A i \in 1..Len(granted[p] \o units) : (granted[p] \o units)[i] \in 0..quotaClock
    BY <2>2, <2>3, <2>4, ProviderFacts, GrantKeeps
  <2> HIDE DEF units
  <2>6. Len(kept \o units) <= Capacity
    BY <2>3, <2>5
  <2> QED BY <2>3, <2>5, <2>6, OneProvider
<1>4. ASSUME NEW p \in Providers, NEW c \in Costs, Quota!Refuse(p, c)
      PROVE  QuotaInv'
  <2>1. PICK kept \in Seq(Int) : kept = Quota!Evict(events[p])
    BY EvictKeeps
  <2>2. /\ LastOf(kept, granted[p], quotaClock - QuotaWindow) /\ Len(kept) \in Nat
        /\ Len(kept) <= Capacity
    BY <2>1, EvictKeeps
  <2> DEFINE oldest == IF kept = <<>> THEN quotaClock ELSE Head(kept)
             times == IF c = 1 THEN {oldest + QuotaWindow} ELSE {}
  <2>3. /\ events' = [events EXCEPT ![p] = kept]
        /\ granted' = [granted EXCEPT ![p] = granted[p]]
        /\ hint' = [hint EXCEPT ![p] = times] /\ UNCHANGED quotaClock
        /\ Len(kept) + c > Capacity
    BY <1>4, <2>1, ProviderFacts DEF Quota!Refuse
  <2>4. ASSUME NEW t \in times
        PROVE  t \in 0..quotaClock + QuotaWindow /\ t = kept[1] + QuotaWindow
    <3>1. c = 1 /\ Len(kept) = Capacity /\ Len(kept) > 0
      BY <2>2, <2>3, <2>4
    <3>2. t = kept[1] + QuotaWindow
      BY <2>4, <3>1
    <3>3. PICK g \in Nat : g = Len(granted[p]) - Len(kept)
      BY <2>2 DEF LastOf
    <3>4. kept[1] = granted[p][g + 1] /\ g + 1 \in 1..Len(granted[p])
      <4>1. Len(granted[p]) \in Nat
        BY ProviderFacts
      <4>2. \A i \in 1..Len(kept) : kept[i] = granted[p][(Len(granted[p]) - Len(kept)) + i]
        BY <2>2, Zenon DEF LastOf
      <4>3. 1 \in 1..Len(kept)
        BY <2>2, <3>1
      <4>4. kept[1] = granted[p][g + 1]
        BY <3>3, <4>2, <4>3, Zenon
      <4>5. g + 1 \in 1..Len(granted[p])
        BY <2>2, <3>1, <3>3, <4>1
      <4> QED BY <4>4, <4>5, Zenon
    <3>5. kept[1] \in 0..quotaClock
      BY <3>4, ProviderFacts
    <3> QED BY <3>2, <3>5, ProviderFacts
  <2>5. times \in SUBSET Int
    BY <2>4, ProviderFacts
  <2>6. \A t \in times : /\ t \in 0..quotaClock + QuotaWindow
                         /\ Len(kept) = Capacity => t = kept[1] + QuotaWindow
    BY <2>4
  <2> HIDE DEF times
  <2>7. /\ granted[p] \in Seq(Int) /\ Spaced(granted[p])
        /\ \A i \in 1..Len(granted[p]) : granted[p][i] \in 0..quotaClock
    BY ProviderFacts
  <2> QED BY <2>2, <2>3, <2>5, <2>6, <2>7, OneProvider
<1>5. CASE Quota!Tick
  <2>1. /\ quotaClock' = quotaClock + 1 /\ quotaClock < QuotaTime
        /\ UNCHANGED <<events, granted, hint>>
    BY <1>5 DEF Quota!Tick
  <2>2. quotaClock' \in 0..QuotaTime /\ quotaClock \in Nat
    BY <2>1 DEF QuotaInv
  <2>3. ASSUME NEW p \in Providers
        PROVE  QueueInv(p)' /\ HintInv(p)'
    <3>1. QueueInv(p) /\ HintInv(p) /\ events[p] \in Seq(Int) /\ granted[p] \in Seq(Int)
      BY ProviderFacts
    <3>2. Len(granted[p]) - Len(events[p]) \in Nat /\ Len(events[p]) \in Nat
      BY <3>1 DEF QueueInv, LastOf
    <3>3. \A i \in 1..Len(granted[p]) : granted[p][i] \in 0..quotaClock + 1
      BY <2>2, ProviderFacts
    <3>4. LastOf(events[p], granted[p], quotaClock + 1 - QuotaWindow)
      <4>1. PICK all \in Seq(Int) : all = granted[p]
        BY <3>1
      <4>2. PICK gone \in Nat : gone = Len(all) - Len(events[p])
        BY <3>2, <4>1
      <4>3. \A i \in 1..gone : i \in 1..Len(all) /\ all[i] \in Int
        <5>1. Len(all) \in Nat /\ Len(events[p]) \in Nat
          BY <3>2, <4>1
        <5>2. gone <= Len(all)
          BY <4>2, <5>1
        <5>3. \A i \in 1..gone : i \in 1..Len(all)
          BY <5>1, <5>2
        <5> QED BY <4>1, <5>3
      <4>4. \A i \in 1..gone : all[i] <= quotaClock - QuotaWindow
        <5>1. LastOf(events[p], all, quotaClock - QuotaWindow)
          BY <3>1, <4>1 DEF QueueInv
        <5> QED BY <4>2, <5>1 DEF LastOf
      <4>5. \A i \in 1..gone : all[i] <= quotaClock + 1 - QuotaWindow
        BY <2>2, <4>3, <4>4
      <4> QED BY <3>1, <4>1, <4>2, <4>5 DEF QueueInv, LastOf
    <3>5. QueueInv(p)'
      <4>1. Len(events[p]) <= Capacity
        BY <3>1 DEF QueueInv
      <4>2. \A i \in 1..Len(granted'[p]) : granted'[p][i] \in 0..quotaClock'
        BY <2>1, <3>3
      <4>3. LastOf(events'[p], granted'[p], quotaClock' - QuotaWindow)
        <5>1. events' = events /\ granted' = granted
          BY <2>1
        <5>2. quotaClock' = quotaClock + 1
          BY <2>1
        <5>3. events'[p] = events[p]
          BY <5>1
        <5>4. granted'[p] = granted[p]
          BY <5>1
        <5>5. quotaClock' - QuotaWindow = quotaClock + 1 - QuotaWindow
          <6>1. QuotaWindow \in Int /\ quotaClock \in Int
            BY <2>2
          <6> QED BY <5>2, <6>1
        <5> QED BY <5>3, <5>4, <5>5, <3>4, Zenon
      <4> QED BY <2>1, <4>1, <4>2, <4>3 DEF QueueInv
    <3>6. HintInv(p)'
      BY <2>1, <2>2, <3>1 DEF HintInv
    <3> QED BY <3>5, <3>6
  <2> QED BY <2>1, <2>2, <2>3 DEF QuotaInv
<1> QED BY <1>1, <1>2, <1>3, <1>4, <1>5 DEF Quota!Next

\* A window sees no more units than the capacity, as those a capacity apart are
\* a window apart; and a full queue's head leaves when the hint comes due.
LEMMA QuotaInvSafe == QuotaInv => Quota!Safe
<1> SUFFICES ASSUME QuotaInv PROVE Quota!Safe
  OBVIOUS
<1>0. Capacity \in Nat \ {0} /\ QuotaWindow \in Nat \ {0}
  BY RequestsAssumption DEF RequestsAssumption, Quota!QuotaAssumption
<1>1. ASSUME NEW p \in Providers, NEW start \in 0..QuotaTime
      PROVE  Cardinality({i \in DOMAIN granted[p] : granted[p][i] \in start..start + QuotaWindow - 1})
               <= Capacity
  <2>1. PICK all \in Seq(Int) : all = granted[p]
    BY ProviderFacts
  <2>2. Spaced(all) /\ DOMAIN all = 1..Len(all) /\ Len(all) \in Nat
    BY <2>1, ProviderFacts
  <2>3. PICK W : W = {i \in DOMAIN all : all[i] \in start..start + QuotaWindow - 1}
    OBVIOUS
  <2>4. W \subseteq Nat /\ W \subseteq 1..Len(all)
    BY <2>2, <2>3
  <2>5. CASE W = {}
    <3>1. Cardinality(W) = 0
      BY <2>5, FS_EmptySet, Zenon
    <3>2. Cardinality(W) <= Capacity
      BY <1>0, <3>1
    <3> QED BY <2>1, <2>3, <3>2
  <2>6. CASE W # {}
    <3>1. PICK least \in W : \A i \in W : ~(i < least)
      BY <2>4, <2>6, NatMin
    <3>2. least \in Nat
      BY <2>4
    <3>3. \A i \in W : i \in least..least + Capacity - 1
      <4> SUFFICES ASSUME NEW i \in W, i >= least + Capacity PROVE FALSE
        BY <1>0, <2>4, <3>1, <3>2
      <4>1. PICK j \in 1..Len(all) : j = least + Capacity /\ j <= i
        BY <1>0, <2>2, <2>4, <3>2
      <4>2. all[least] <= all[j] - QuotaWindow /\ all[j] <= all[i]
        BY <2>2, <2>4, <4>1 DEF Spaced
      <4>3. /\ all[least] >= start /\ all[i] <= start + QuotaWindow - 1
            /\ all[least] \in Int /\ all[i] \in Int /\ all[j] \in Int
        BY <2>2, <2>3
      <4> QED BY <1>0, <4>2, <4>3
    <3>4. PICK most \in Int : most = least + Capacity - 1
      BY <1>0, <3>2
    <3>5. W \in SUBSET (least..most)
      BY <3>3, <3>4
    <3>6. IsFiniteSet(least..most) /\ Cardinality(least..most) = Capacity
      <4>1. ~(least > most) /\ most - least + 1 = Capacity /\ least \in Int
        BY <1>0, <3>2, <3>4
      <4> QED BY <4>1, FS_Interval
    <3>7. Cardinality(W) <= Cardinality(least..most)
      BY <3>5, <3>6, FS_Subset, Zenon
    <3> QED BY <2>1, <2>3, <3>6, <3>7
  <2> QED BY <2>5, <2>6
<1>2. ASSUME NEW p \in Providers, NEW t \in hint[p], quotaClock >= t
      PROVE  Len(Quota!Evict(events[p])) < Capacity
  <2>1. PICK kept \in Seq(Int) : kept = Quota!Evict(events[p])
    BY EvictKeeps
  <2>2. /\ Len(kept) \in Nat /\ Len(kept) <= Len(events[p]) /\ Len(kept) <= Capacity
        /\ Len(kept) = Len(events[p]) => kept = events[p]
        /\ Len(kept) > 0 => kept[1] > quotaClock - QuotaWindow
    BY <2>1, EvictKeeps
  <2>3. /\ Len(events[p]) = Capacity => t = events[p][1] + QuotaWindow
        /\ Len(events[p]) <= Capacity /\ Len(events[p]) \in Nat
    BY <1>2, ProviderFacts DEF HintInv, QueueInv
  <2> SUFFICES ASSUME Len(kept) = Capacity PROVE FALSE
    BY <1>0, <2>1, <2>2
  <2>4. kept = events[p] /\ t = kept[1] + QuotaWindow
    BY <1>0, <2>2, <2>3
  <2>5. kept[1] \in Int /\ kept[1] > quotaClock - QuotaWindow
    BY <1>0, <2>2
  <2> QED BY <1>0, <1>2, <2>4, <2>5, ProviderFacts
<1>3. Quota!NoWindowOverCapacity
  BY <1>1, Zenon DEF Quota!NoWindowOverCapacity, Quota!Cardinality, Cardinality
<1>4. Quota!HintIsEnough
  BY <1>2 DEF Quota!HintIsEnough
<1> QED BY <1>3, <1>4 DEF Quota!Safe

---------------------------------------------------------------------------
(* The scanner                                                             *)

Readings == {"volume", "spread", "candles"}

\* What an iteration read: every volume and spread is a number, every list of
\* candles one of those the exchange has.
CacheSound(c) ==
  /\ DOMAIN c = Readings
  /\ \A s \in DOMAIN c["volume"] : c["volume"][s] \in Int
  /\ \A s \in DOMAIN c["spread"] : c["spread"][s] \in Int
  /\ \A s \in DOMAIN c["candles"] : c["candles"][s] \in Histories

\* Nothing read is lost or read anew.
Grown(c, d) ==
  \A what \in Readings : \A s \in DOMAIN c[what] :
    s \in DOMAIN d[what] /\ d[what][s] = c[what][s]

Snapshots ==
  [symbol : Scan!Symbols, active : {FALSE}]
  \cup [symbol : Scan!Symbols, active : {TRUE}, volume : Int, spread : Int, atr : Int, score : Int]

\* An active snapshot is what the readings of its symbol make it, in mode m
\* within bounds b, and they pass.
Judged(p, c, m, b) ==
  p.active =>
    LET s == p.symbol
        v == c["volume"][s]  w == c["spread"][s]  l == c["candles"][s]
    IN /\ \A what \in Readings : s \in DOMAIN c[what]
       /\ v # Scan!NaN /\ Scan!VolumePasses(b, v) /\ Scan!SpreadPasses(b, w) /\ Scan!CandlesPass(b, l)
       /\ p = [symbol |-> s, active |-> TRUE, volume |-> v, spread |-> w, atr |-> Scan!AtrPct(l),
               score |-> Scan!RankScore(Scan!ScannerMode(m), v, w,
                           b.minAtr <= Scan!AtrPct(l) /\ Scan!AtrPct(l) <= b.maxAtr)]

Actives(list) == {i \in 1 .. Len(list) : list[i].active}

\* The i-th smallest of some numbers.
Nth(some, i) == CHOOSE k \in some : Cardinality({j \in some : j < k}) = i - 1

\* The snapshots of a list are those of some of all pairs, in their order.
InTurn(some, list, all) ==
  /\ Len(list) = Cardinality(some)
  /\ \A i \in 1 .. Len(list) : list[i].symbol = all[Nth(some, i)]

SettingsInv ==
  /\ mode \in Scan!TradingModes /\ {kill, running, allFailed} \subseteq BOOLEAN
  /\ pairs \in Seq(Scan!Symbols)
  /\ filters \in [minVolume : Int, maxSpread : Int, minAtr : Int, maxAtr : Int]
  /\ Scan!Buildable(filters)

\* What is left to do is the end of the universe.
PlaceInv ==
  /\ stage \in 1..3 /\ todo \in Seq(Scan!Symbols) /\ Len(todo) <= Len(pairs)
  /\ \A i \in 1 .. Len(todo) : todo[i] = pairs[Len(pairs) - Len(todo) + i]
  /\ ~running => todo = <<>>
  /\ todo = <<>> => stage = 1

\* The pair under way has passed the filters before its stage.
StageInv ==
  /\ stage > 1 => /\ Head(todo) \in DOMAIN cache["volume"]
                  /\ Scan!VolumePasses(Scan!CurrentBounds, cache["volume"][Head(todo)])
  /\ stage > 2 => /\ Head(todo) \in DOMAIN cache["spread"]
                  /\ Scan!SpreadPasses(Scan!CurrentBounds, cache["spread"][Head(todo)])

Counters == [processed : Nat, active : Nat, inactive : Nat, errors : Nat]

\* The counters c of an iteration over so many pairs, of which some are left,
\* so many were listed and so many of these are active.
CountsSound(c, all, left, listed, active, run, at) ==
  /\ c \in Counters /\ active \in Nat
  /\ listed + c.errors <= all /\ c.processed <= all
  /\ run => listed + c.errors = all - left
  /\ c.processed \in {listed + c.errors, listed + c.errors + 1}
  /\ run /\ at = 1 => c.processed = listed + c.errors
  /\ run /\ at > 1 => c.processed = listed + c.errors + 1
  /\ c.inactive = listed - active
  /\ c.active >= active /\ c.active - active <= c.errors

CountsInv ==
  CountsSound(counters, Len(pairs), Len(todo), Len(snapshots), Cardinality(Actives(snapshots)),
              running, stage)

Shown(list, all, n) == \E some \in SUBSET (1 .. n) : InTurn(some, list, all)

SnapshotsInv ==
  /\ snapshots \in Seq(Snapshots)
  /\ \A i \in 1 .. Len(snapshots) : Judged(snapshots[i], cache, mode, Scan!CurrentBounds)
  /\ Shown(snapshots, pairs, Len(pairs) - Len(todo))

ScanInv ==
  SettingsInv /\ PlaceInv /\ CacheSound(cache) /\ StageInv /\ CountsInv /\ SnapshotsInv

LEMMA ScanNumbers ==
  /\ ScanUniverses \subseteq Seq(Scan!Symbols)
  /\ ScanFilters \subseteq [minVolume : Int, maxSpread : Int, minAtr : Int, maxAtr : Int]
  /\ QuoteVolumes \subseteq Int /\ Books \subseteq Int \X Int /\ Histories \subseteq Seq(Scan!Candle)
  /\ MinHistory \in Nat /\ LiveMinVolume \in Nat /\ LiveMaxSpread \in Nat /\ LiveMaxAtr \in Nat
BY ReadingsAssumption DEF ReadingsAssumption, Scan!ScanAssumption

\* What is made of an answer is a number, or the candles it brought.
LEMMA AnswersTyped ==
  /\ \A x \in Scan!Answers("volume") : x \in Int
  /\ \A x \in Scan!Answers("spread") : x \in Int
  /\ Scan!Answers("candles") = Histories
<1>1. ASSUME NEW q \in Int
      PROVE  Scan!VolumeOf(q) \in Int
  BY DEF Scan!VolumeOf, Scan!NaN
<1>2. ASSUME NEW b \in Int \X Int
      PROVE  Scan!SpreadOf(b) \in Int
  <2>1. PICK bid \in Int : bid = b[1]
    OBVIOUS
  <2>2. PICK ask \in Int : ask = b[2]
    OBVIOUS
  <2>3. bid + ask > 0 => (20000 * (ask - bid)) \div (bid + ask) \in Int
    <3> DEFINE n == 20000 * (ask - bid)
               d == bid + ask
    <3>1. n \in Int /\ d \in Int
      OBVIOUS
    <3> HIDE DEF n, d
    <3>2. d > 0 => n \div d \in Int
      BY <3>1
    <3> QED BY <3>2 DEF n, d
  <2> QED BY <2>1, <2>2, <2>3 DEF Scan!SpreadOf, Scan!Infinite
<1>3. /\ Scan!Answers("volume") = {Scan!VolumeOf(q) : q \in QuoteVolumes}
      /\ Scan!Answers("spread") = {Scan!SpreadOf(b) : b \in Books}
      /\ Scan!Answers("candles") = Histories
  BY DEF Scan!Answers
<1>4. \A q \in QuoteVolumes : Scan!VolumeOf(q) \in Int
  BY <1>1, ScanNumbers
<1>5. \A b \in Books : Scan!SpreadOf(b) \in Int
  BY <1>2, ScanNumbers
<1> QED BY <1>3, <1>4, <1>5

LEMMA ScanTotalIsSum == \A amounts : Scan!Total(amounts) = Sum(amounts, DOMAIN amounts)
BY DEF Scan!Total, Scan!FoldFunction, Scan!FoldFunctionOnSet,
       Scan!MapThenFoldSet, Sum, FoldFunctionOnSet, MapThenFoldSet

LEMMA QuotientTyped ==
  ASSUME NEW a \in Int, NEW b \in Nat, b > 0
  PROVE  a \div b \in Int
OBVIOUS

LEMMA AtrTyped ==
  ASSUME NEW c \in Seq(Scan!Candle)
  PROVE  Scan!AtrPct(c) \in Int
<1> DEFINE n == Len(c)
           range(i) == Scan!Larger(c[i+1].high - c[i+1].low,
                         Scan!Larger(Scan!Magnitude(c[i+1].high - c[i].close),
                                     Scan!Magnitude(c[i+1].low - c[i].close)))
           trueRange == [i \in 1 .. (n - 1) |-> range(i)]
<1>1. n \in Nat /\ \A i \in 1 .. n : c[i].high \in Int /\ c[i].low \in Int /\ c[i].close \in Int
  <2>1. n \in Nat /\ \A i \in 1 .. n : c[i] \in Scan!Candle
    OBVIOUS
  <2>2. \A r \in Scan!Candle : r.high \in Int /\ r.low \in Int /\ r.close \in Int
    BY DEF Scan!Candle
  <2> QED BY <2>1, <2>2
<1>2. CASE n < 2
  BY <1>2 DEF Scan!AtrPct
<1>3. CASE n >= 2
  <2>1. \A i \in 1 .. n - 1 : range(i) \in Int
    <3> SUFFICES ASSUME NEW i \in 1 .. n - 1 PROVE range(i) \in Int
      OBVIOUS
    <3>1. i \in 1 .. n /\ i + 1 \in 1 .. n
      BY <1>1
    <3>2. PICK h \in Int : h = c[i + 1].high
      BY <1>1, <3>1
    <3>3. PICK l \in Int : l = c[i + 1].low
      BY <1>1, <3>1
    <3>4. PICK k \in Int : k = c[i].close
      BY <1>1, <3>1
    <3>5. Scan!Magnitude(h - k) \in Int /\ Scan!Magnitude(l - k) \in Int /\ h - l \in Int
      BY DEF Scan!Magnitude
    <3> QED BY <3>2, <3>3, <3>4, <3>5 DEF Scan!Larger
  <2> DEFINE t == Scan!Total(trueRange)
  <2>2. t \in Int
    <3>1. IsFiniteSet(1 .. n - 1) /\ DOMAIN trueRange = 1 .. n - 1
      BY <1>1, FS_Interval
    <3>2. \A i \in 1 .. n - 1 : trueRange[i] \in Int
      BY <2>1
    <3> HIDE DEF trueRange
    <3>3. Sum(trueRange, 1 .. n - 1) \in Int
      BY <3>1, <3>2, SumTyped
    <3> QED BY <3>1, <3>3, ScanTotalIsSum
  <2>3. Scan!AtrPct(c) = IF c[n].close <= 0 THEN 0 ELSE (100 * t) \div ((n - 1) * c[n].close)
    BY <1>1, <1>3 DEF Scan!AtrPct
  <2> HIDE DEF t
  <2>4. PICK k \in Int : k = c[n].close
    BY <1>1, <1>3
  <2>5. CASE k <= 0
    BY <2>3, <2>4, <2>5
  <2>6. CASE k > 0
    <3>1. (n - 1) * k \in Nat /\ (n - 1) * k > 0
      <4> DEFINE m == n - 1
      <4>1. m \in Nat /\ m > 0 /\ k \in Nat
        BY <1>1, <1>3, <2>6
      <4> HIDE DEF m
      <4>2. m * k \in Nat /\ m * k > 0
        BY <2>6, <4>1
      <4> QED BY <4>2 DEF m
    <3>2. 100 * t \in Int
      BY <2>2
    <3> QED BY <2>3, <2>4, <2>6, <3>1, <3>2, QuotientTyped
  <2> QED BY <2>4, <2>5, <2>6
<1> QED BY <1>1, <1>2, <1>3

\* A score is between nothing and a thousand, whatever was read.
LEMMA ScoreBounded ==
  ASSUME NEW m, NEW v \in Int, NEW s \in Int, NEW inRange \in BOOLEAN
  PROVE  Scan!RankScore(m, v, s, inRange) \in Int /\ Scan!RankScore(m, v, s, inRange) >= 0
         /\ Scan!RankScore(m, v, s, inRange) <= 1000
<1>1. \A x \in Int : \A top \in {20, 30, 100, 200} :
        Scan!Clip(x, top) \in Int /\ Scan!Clip(x, top) >= 0 /\ Scan!Clip(x, top) <= top
  BY DEF Scan!Clip, Scan!Larger, Scan!Smaller
<1>2. \A x \in Int : 0 <= x /\ x <= 20 =>
        (500 * (20 - x)) \div 20 \in Int /\ 0 <= (500 * (20 - x)) \div 20 /\ (500 * (20 - x)) \div 20 <= 500
  OBVIOUS
<1>3. \A x \in Int : 0 <= x /\ x <= 30 =>
        (500 * (30 - x)) \div 30 \in Int /\ 0 <= (500 * (30 - x)) \div 30 /\ (500 * (30 - x)) \div 30 <= 500
  OBVIOUS
<1>4. \A x \in Int : 0 <= x /\ x <= 200 =>
        (300 * x) \div 200 \in Int /\ 0 <= (300 * x) \div 200 /\ (300 * x) \div 200 <= 300
  OBVIOUS
<1>5. \A x \in Int : 0 <= x /\ x <= 100 =>
        (300 * x) \div 100 \in Int /\ 0 <= (300 * x) \div 100 /\ (300 * x) \div 100 <= 300
  OBVIOUS
<1>6. CASE m = "live"
  <2>1. PICK a \in Int : a = Scan!Clip(s, 20)
    BY <1>1
  <2>2. PICK b \in Int : b = Scan!Clip(v, 200)
    BY <1>1
  <2>3. Scan!RankScore(m, v, s, inRange)
          = (500 * (20 - a)) \div 20 + (300 * b) \div 200 + (IF inRange THEN 200 ELSE 0)
    BY <1>6, <2>1, <2>2 DEF Scan!RankScore, Scan!Normalizers
  <2>4. PICK x \in Int : x = (500 * (20 - a)) \div 20 /\ 0 <= x /\ x <= 500
    BY <1>1, <1>2, <2>1
  <2>5. PICK y \in Int : y = (300 * b) \div 200 /\ 0 <= y /\ y <= 300
    BY <1>1, <1>4, <2>2
  <2> QED BY <2>3, <2>4, <2>5
<1>7. CASE m # "live"
  <2>1. PICK a \in Int : a = Scan!Clip(s, 30)
    BY <1>1
  <2>2. PICK b \in Int : b = Scan!Clip(v, 100)
    BY <1>1
  <2>3. Scan!RankScore(m, v, s, inRange)
          = (500 * (30 - a)) \div 30 + (300 * b) \div 100 + (IF inRange THEN 200 ELSE 0)
    BY <1>7, <2>1, <2>2 DEF Scan!RankScore, Scan!Normalizers
  <2>4. PICK x \in Int : x = (500 * (30 - a)) \div 30 /\ 0 <= x /\ x <= 500
    BY <1>1, <1>3, <2>1
  <2>5. PICK y \in Int : y = (300 * b) \div 100 /\ 0 <= y /\ y <= 300
    BY <1>1, <1>5, <2>2
  <2> QED BY <2>3, <2>4, <2>5
<1> QED BY <1>6, <1>7

\* A number above all of some becomes the last of them.
LEMMA KeepNext ==
  ASSUME NEW n \in Nat, NEW some \in SUBSET (1 .. n)
  PROVE  LET more == some \cup {n + 1} IN
         /\ Cardinality(some) \in Nat /\ Cardinality(more) = Cardinality(some) + 1
         /\ \A i \in 1 .. Cardinality(some) : Nth(more, i) = Nth(some, i)
         /\ Nth(more, Cardinality(some) + 1) = n + 1
<1> DEFINE more == some \cup {n + 1}
           size == Cardinality(some)
           rank(k) == Cardinality({j \in some : j < k})
           v == [k \in some |-> -k]
<1>1. IsFiniteSet(some) /\ size \in Nat /\ n + 1 \notin some
  <2>1. IsFiniteSet(1 .. n) /\ some \subseteq 1 .. n
    BY FS_Interval
  <2>2. IsFiniteSet(some)
    BY <2>1, FS_Subset
  <2>3. n + 1 \notin some
    BY <2>1
  <2> QED BY <2>2, <2>3, FS_CardinalityType
<1>2. Cardinality(more) = size + 1
  BY <1>1, FS_AddElement
<1>3. \A k \in some : rank(k) = Cardinality({j \in some : v[j] > v[k]})
  <2> SUFFICES ASSUME NEW k \in some PROVE {j \in some : j < k} = {j \in some : v[j] > v[k]}
    OBVIOUS
  <2>1. \A j \in some : v[j] > v[k] <=> j < k
    <3>1. \A j \in some : j \in Int /\ v[j] = -j
      OBVIOUS
    <3> HIDE DEF v
    <3> QED BY <3>1
  <2> HIDE DEF v
  <2> QED BY <2>1
<1>4. /\ \A i \in 1 .. size : \E k \in some : rank(k) = i - 1
      /\ \A k, l \in some : rank(k) = rank(l) => k = l
      /\ \A k \in some : rank(k) \in Nat
  <2>1. \A k \in some : v[k] \in Int
    OBVIOUS
  <2>2. \A k, l \in some : v[k] = v[l] => k = l
    OBVIOUS
  <2> DEFINE up(k) == Cardinality({j \in some : v[j] > v[k]})
  <2> HIDE DEF v
  <2>3. /\ \A i \in 1 .. size : \E k \in some : up(k) = i - 1
        /\ \A k, l \in some : v[k] > v[l] => up(k) < up(l)
        /\ \A k \in some : up(k) \in Nat
    BY <1>1, <2>1, <2>2, Ranked
  <2>4. \A k \in some : rank(k) = up(k)
    BY <1>3
  <2> HIDE DEF up, rank
  <2>5. \A k, l \in some : up(k) = up(l) => k = l
    <3> SUFFICES ASSUME NEW k \in some, NEW l \in some, up(k) = up(l) PROVE k = l
      OBVIOUS
    <3>1. ~(v[k] > v[l]) /\ ~(v[l] > v[k])
      BY <2>3
    <3> QED BY <2>1, <2>2, <3>1
  <2> QED BY <2>3, <2>4, <2>5
<1>5. \A k \in some : {j \in more : j < k} = {j \in some : j < k}
  <2>1. \A k \in some : k \in Int /\ ~(n + 1 < k)
    OBVIOUS
  <2> QED BY <2>1
<1>6. {j \in more : j < n + 1} = some
  <2>1. \A k \in some : k < n + 1
    OBVIOUS
  <2>2. ~(n + 1 < n + 1)
    OBVIOUS
  <2> QED BY <2>1, <2>2
<1>7. \A k \in some : Cardinality({j \in more : j < k}) = rank(k)
  BY <1>5
<1>8. Cardinality({j \in more : j < n + 1}) = size
  BY <1>6
<1>9. n + 1 \in more /\ some \subseteq more /\ \A k \in more : k \in some \/ k = n + 1
  OBVIOUS
<1>10. \A k \in some : rank(k) < size
  <2> SUFFICES ASSUME NEW k \in some PROVE rank(k) < size
    OBVIOUS
  <2> DEFINE below == {j \in some : j < k}
  <2>1. below \cup {k} \subseteq some /\ k \notin below /\ below \subseteq some
    OBVIOUS
  <2> HIDE DEF below
  <2>2. IsFiniteSet(below) /\ Cardinality(below) \in Nat
    BY <1>1, <2>1, FS_Subset, FS_CardinalityType
  <2>3. Cardinality(below \cup {k}) = Cardinality(below) + 1
    BY <2>1, <2>2, FS_AddElement
  <2>4. Cardinality(below \cup {k}) <= size
    BY <1>1, <2>1, FS_Subset
  <2> QED BY <1>1, <2>2, <2>3, <2>4 DEF below
<1> DEFINE above(k) == Cardinality({j \in more : j < k})
<1>11. /\ \A k \in some : above(k) = rank(k)
       /\ above(n + 1) = size
  BY <1>7, <1>8
<1>12. \A i : Nth(more, i) = (CHOOSE k \in more : above(k) = i - 1)
               /\ Nth(some, i) = (CHOOSE k \in some : rank(k) = i - 1)
  BY DEF Nth
<1> HIDE DEF more, size, rank, v, above
<1>13. \A i \in 1 .. size : Nth(more, i) = Nth(some, i)
  <2> SUFFICES ASSUME NEW i \in 1 .. size PROVE Nth(more, i) = Nth(some, i)
    OBVIOUS
  <2>1. PICK x \in some : rank(x) = i - 1
    BY <1>4
  <2>2. Nth(some, i) \in some /\ rank(Nth(some, i)) = i - 1
    BY <1>12, <2>1
  <2>3. Nth(more, i) \in more /\ above(Nth(more, i)) = i - 1
    BY <1>9, <1>11, <1>12, <2>1
  <2>4. Nth(more, i) # n + 1
    BY <1>1, <1>11, <2>3
  <2>5. Nth(more, i) \in some /\ rank(Nth(more, i)) = i - 1
    BY <1>9, <1>11, <2>3, <2>4
  <2> QED BY <1>4, <2>2, <2>5
<1>14. Nth(more, size + 1) = n + 1
  <2>1. above(n + 1) = (size + 1) - 1
    BY <1>1, <1>11
  <2>2. Nth(more, size + 1) \in more /\ above(Nth(more, size + 1)) = (size + 1) - 1
    BY <1>9, <1>12, <2>1
  <2>3. Nth(more, size + 1) \notin some
    <3> SUFFICES ASSUME NEW x \in some, above(x) = (size + 1) - 1 PROVE FALSE
      BY <2>2
    <3>1. rank(x) = (size + 1) - 1 /\ rank(x) < size /\ rank(x) \in Nat
      BY <1>4, <1>10, <1>11
    <3> QED BY <1>1, <3>1
  <2> QED BY <1>9, <2>2, <2>3
<1> QED BY <1>1, <1>2, <1>13, <1>14 DEF more, size

LEMMA NothingListed ==
  /\ Actives(<<>>) = {} /\ Cardinality(Actives(<<>>)) = 0
  /\ \A all : InTurn({}, <<>>, all)
  /\ <<>> \in Seq(Snapshots) /\ Len(<<>>) = 0
<1>1. Actives(<<>>) = {}
  BY DEF Actives
<1>2. <<>> \in Seq(Snapshots) /\ Len(<<>>) = 0
  OBVIOUS
<1>3. \A all : InTurn({}, <<>>, all)
  BY <1>2, FS_EmptySet DEF InTurn
<1> QED BY <1>1, <1>2, <1>3, FS_EmptySet

LEMMA EmptyCacheSound == CacheSound(Scan!NoCache)
<1>1. DOMAIN Scan!NoCache = Readings
  BY DEF Scan!NoCache, Readings
<1>2. /\ DOMAIN Scan!NoCache["volume"] = {} /\ DOMAIN Scan!NoCache["spread"] = {}
      /\ DOMAIN Scan!NoCache["candles"] = {}
  BY DEF Scan!NoCache
<1> QED BY <1>1, <1>2 DEF CacheSound

LEMMA PairsTyped == \A u \in ScanUniverses : u \in Seq(Scan!Symbols)
BY ScanNumbers

LEMMA NoCountersYet ==
  /\ Scan!NoCounters \in Counters
  /\ Scan!NoCounters.processed = 0 /\ Scan!NoCounters.active = 0
  /\ Scan!NoCounters.inactive = 0 /\ Scan!NoCounters.errors = 0
BY DEF Scan!NoCounters, Counters

LEMMA InitScan == Scan!Init => ScanInv
<1> SUFFICES ASSUME Scan!Init PROVE ScanInv
  OBVIOUS
<1>1. SettingsInv
  BY ScanNumbers, PairsTyped DEF SettingsInv, Scan!Init
<1>2. todo = <<>> /\ stage = 1 /\ running = FALSE /\ snapshots = <<>> /\ cache = Scan!NoCache
      /\ counters = Scan!NoCounters
  BY DEF Scan!Init
<1>3. Len(pairs) \in Nat
  BY <1>1 DEF SettingsInv
<1>4. PlaceInv
  BY <1>2, <1>3 DEF PlaceInv
<1>5. CacheSound(cache)
  BY <1>2, EmptyCacheSound
<1>6. StageInv
  BY <1>2 DEF StageInv
<1>7. CountsInv
  BY <1>2, <1>3, NothingListed, NoCountersYet DEF CountsInv, CountsSound
<1>8. SnapshotsInv
  <2>1. Shown(<<>>, pairs, Len(pairs) - Len(todo))
    BY NothingListed DEF Shown
  <2> QED BY <1>2, <2>1, NothingListed DEF SnapshotsInv
<1> QED BY <1>1, <1>4, <1>5, <1>6, <1>7, <1>8 DEF ScanInv

\* One more snapshot at the end of a list.
LEMMA ListedNext ==
  ASSUME NEW list \in Seq(Snapshots), NEW p \in Snapshots
  PROVE  LET more == Append(list, p) IN
         /\ more \in Seq(Snapshots) /\ Len(more) = Len(list) + 1 /\ Len(list) \in Nat
         /\ \A i \in 1 .. Len(list) : more[i] = list[i]
         /\ more[Len(list) + 1] = p
         /\ Cardinality(Actives(list)) \in Nat
         /\ p.active \in BOOLEAN
         /\ p.active => Cardinality(Actives(more)) = Cardinality(Actives(list)) + 1
         /\ ~p.active => Cardinality(Actives(more)) = Cardinality(Actives(list))
<1> DEFINE more == Append(list, p)
           n == Len(list)
           some == Actives(list)
<1>1. p.active \in BOOLEAN
  BY DEF Snapshots
<1>2. more \in Seq(Snapshots) /\ Len(more) = n + 1 /\ n \in Nat
      /\ (\A i \in 1 .. n : more[i] = list[i]) /\ more[n + 1] = p
  OBVIOUS
<1>3. some \subseteq 1 .. n /\ \A i \in 1 .. n : i \in some <=> list[i].active
  BY DEF Actives
<1>4. Actives(more) \subseteq 1 .. n + 1 /\ \A i \in 1 .. n + 1 : i \in Actives(more) <=> more[i].active
  BY <1>2 DEF Actives
<1> HIDE DEF more, n, some
<1>5. IsFiniteSet(some) /\ Cardinality(some) \in Nat
  <2>1. n \in Int
    BY <1>2
  <2>2. IsFiniteSet(1 .. n)
    BY <2>1, FS_Interval
  <2> QED BY <1>3, <2>2, FS_Subset, FS_CardinalityType
<1>6. n + 1 \notin some /\ \A i \in 1 .. n + 1 : i \in 1 .. n \/ i = n + 1
  BY <1>2, <1>3
<1>7. 1 .. n \subseteq 1 .. n + 1 /\ n + 1 \in 1 .. n + 1
  BY <1>2
<1>8. p.active => Actives(more) = some \cup {n + 1}
  BY <1>2, <1>3, <1>4, <1>6, <1>7
<1>9. ~p.active => Actives(more) = some
  BY <1>2, <1>3, <1>4, <1>6, <1>7
<1>10. Cardinality(some \cup {n + 1}) = Cardinality(some) + 1
  BY <1>5, <1>6, FS_AddElement
<1> QED BY <1>1, <1>2, <1>5, <1>8, <1>9, <1>10 DEF more, n, some

\* The reading of the pair under way is added, and none is lost.
LEMMA ReadFills ==
  ASSUME ScanInv, NEW what \in Readings, NEW x, x \in Scan!Answers(what), NEW s,
         s \notin DOMAIN cache[what],
         cache' = [cache EXCEPT ![what] = [t \in DOMAIN @ \cup {s} |-> IF t = s THEN x ELSE @[t]]]
  PROVE  CacheSound(cache') /\ Grown(cache, cache') /\ s \in DOMAIN cache'[what] /\ cache'[what][s] = x
<1>1. CacheSound(cache)
  BY DEF ScanInv
<1> DEFINE old == cache[what]
           new == [t \in DOMAIN old \cup {s} |-> IF t = s THEN x ELSE old[t]]
<1>2. DOMAIN cache' = Readings /\ cache'[what] = new /\ \A w \in Readings \ {what} : cache'[w] = cache[w]
  BY <1>1 DEF CacheSound
<1>3. DOMAIN new = DOMAIN old \cup {s} /\ new[s] = x /\ \A t \in DOMAIN old : t # s /\ new[t] = old[t]
  OBVIOUS
<1> HIDE DEF new
<1>4. Grown(cache, cache')
  <2> SUFFICES ASSUME NEW w \in Readings, NEW t \in DOMAIN cache[w]
               PROVE  t \in DOMAIN cache'[w] /\ cache'[w][t] = cache[w][t]
    BY DEF Grown
  <2>1. CASE w = what
    BY <1>2, <1>3, <2>1
  <2>2. CASE w # what
    BY <1>2, <2>2
  <2> QED BY <2>1, <2>2
<1>5. CacheSound(cache')
  <2>1. CASE what = "volume"
    <3>1. \A t \in DOMAIN new : new[t] \in Int
      BY <1>1, <1>3, <2>1, AnswersTyped DEF CacheSound
    <3> QED BY <1>1, <1>2, <2>1, <3>1 DEF CacheSound, Readings
  <2>2. CASE what = "spread"
    <3>1. \A t \in DOMAIN new : new[t] \in Int
      BY <1>1, <1>3, <2>2, AnswersTyped DEF CacheSound
    <3> QED BY <1>1, <1>2, <2>2, <3>1 DEF CacheSound, Readings
  <2>3. CASE what = "candles"
    <3>1. \A t \in DOMAIN new : new[t] \in Histories
      BY <1>1, <1>3, <2>3, AnswersTyped DEF CacheSound
    <3> QED BY <1>1, <1>2, <2>3, <3>1 DEF CacheSound, Readings
  <2> QED BY <2>1, <2>2, <2>3 DEF Readings
<1> QED BY <1>2, <1>3, <1>4, <1>5

LEMMA JudgedStill ==
  ASSUME NEW p, NEW c, NEW d, NEW m, NEW b, Judged(p, c, m, b), Grown(c, d)
  PROVE  Judged(p, d, m, b)
<1> SUFFICES ASSUME p.active PROVE Judged(p, d, m, b)
  BY DEF Judged
<1>1. \A what \in Readings : p.symbol \in DOMAIN c[what]
  BY DEF Judged
<1>2. \A what \in Readings : p.symbol \in DOMAIN d[what] /\ d[what][p.symbol] = c[what][p.symbol]
  BY <1>1 DEF Grown
<1>3. /\ d["volume"][p.symbol] = c["volume"][p.symbol] /\ d["spread"][p.symbol] = c["spread"][p.symbol]
      /\ d["candles"][p.symbol] = c["candles"][p.symbol]
  BY <1>2 DEF Readings
<1> QED BY <1>2, <1>3 DEF Judged

\* The first pair left to do is the one after those gone through.
LEMMA PairLeaves ==
  ASSUME pairs \in Seq(Scan!Symbols), PlaceInv, Scan!Visiting
  PROVE  /\ Len(pairs) \in Nat /\ Len(todo) \in Nat /\ Len(todo) > 0 /\ Len(todo) <= Len(pairs)
         /\ Head(todo) \in Scan!Symbols /\ Head(todo) = pairs[Len(pairs) - Len(todo) + 1]
         /\ Tail(todo) \in Seq(Scan!Symbols) /\ Len(Tail(todo)) = Len(todo) - 1
         /\ \A i \in 1 .. Len(Tail(todo)) : Tail(todo)[i] = pairs[Len(pairs) - Len(Tail(todo)) + i]
<1>1. todo \in Seq(Scan!Symbols) /\ todo # <<>> /\ Len(todo) <= Len(pairs)
      /\ \A i \in 1 .. Len(todo) : todo[i] = pairs[Len(pairs) - Len(todo) + i]
  BY DEF PlaceInv, Scan!Visiting
<1>2. Len(pairs) \in Nat /\ Len(todo) \in Nat /\ Len(todo) > 0
  BY <1>1
<1>3. Head(todo) \in Scan!Symbols /\ Head(todo) = todo[1] /\ Tail(todo) \in Seq(Scan!Symbols)
      /\ Len(Tail(todo)) = Len(todo) - 1
      /\ \A i \in 1 .. Len(todo) - 1 : Tail(todo)[i] = todo[i + 1]
  BY <1>1
<1>4. Head(todo) = pairs[Len(pairs) - Len(todo) + 1]
  BY <1>1, <1>2, <1>3
<1>5. \A i \in 1 .. Len(todo) - 1 : Tail(todo)[i] = pairs[Len(pairs) - (Len(todo) - 1) + i]
  <2> SUFFICES ASSUME NEW i \in 1 .. Len(todo) - 1
               PROVE  Tail(todo)[i] = pairs[Len(pairs) - (Len(todo) - 1) + i]
    OBVIOUS
  <2>1. i + 1 \in 1 .. Len(todo) /\ Len(pairs) - Len(todo) + (i + 1) = Len(pairs) - (Len(todo) - 1) + i
    BY <1>2
  <2> QED BY <1>1, <1>3, <2>1
<1> QED BY <1>1, <1>2, <1>3, <1>4, <1>5

LEMMA SettingsKept ==
  ASSUME SettingsInv, UNCHANGED Scan!settings, running' \in BOOLEAN, allFailed' \in BOOLEAN
  PROVE  SettingsInv' /\ mode' = mode /\ pairs' = pairs /\ filters' = filters
         /\ Scan!CurrentBounds' = Scan!CurrentBounds
<1>1. mode' = mode /\ kill' = kill /\ pairs' = pairs /\ filters' = filters
  BY DEF Scan!settings
<1>2. SettingsInv'
  BY <1>1 DEF SettingsInv
<1>3. Scan!CurrentBounds' = Scan!CurrentBounds
  BY <1>1 DEF Scan!CurrentBounds
<1> QED BY <1>1, <1>2, <1>3

\* The pair under way is done with.
LEMMA PairDone ==
  ASSUME ScanInv, Scan!Visiting, UNCHANGED <<Scan!settings, running, allFailed>>,
         todo' = Tail(todo), stage' = 1, CacheSound(cache')
  PROVE  SettingsInv' /\ PlaceInv' /\ StageInv' /\ CacheSound(cache)'
<1>1. SettingsInv /\ PlaceInv
  BY DEF ScanInv
<1>2. pairs \in Seq(Scan!Symbols) /\ running \in BOOLEAN /\ allFailed \in BOOLEAN /\ running
  BY <1>1 DEF SettingsInv, Scan!Visiting
<1>3. SettingsInv' /\ pairs' = pairs
  BY <1>1, <1>2, SettingsKept
<1>4. PlaceInv'
  <2>1. stage' \in 1..3 /\ stage' = 1 /\ running' = running
    OBVIOUS
  <2>2. todo' \in Seq(Scan!Symbols) /\ Len(todo') = Len(todo) - 1 /\ Len(todo) \in Nat /\ Len(pairs) \in Nat
        /\ Len(todo) <= Len(pairs)
        /\ \A i \in 1 .. Len(todo') : todo'[i] = pairs[Len(pairs) - Len(todo') + i]
    BY <1>1, <1>2, PairLeaves
  <2>3. Len(todo') <= Len(pairs)
    BY <2>2
  <2> QED BY <1>2, <1>3, <2>1, <2>2, <2>3 DEF PlaceInv
<1>5. StageInv'
  BY DEF StageInv
<1> QED BY <1>3, <1>4, <1>5

\* What was entered in the counters when a pair started.
LEMMA EnteredCounts ==
  ASSUME CountsInv, PlaceInv, Scan!Visiting
  PROVE  /\ Scan!Entered(counters) \in Counters
         /\ Scan!Entered(counters).processed = Len(snapshots) + counters.errors + 1
         /\ Scan!Entered(counters).active = counters.active
         /\ Scan!Entered(counters).inactive = counters.inactive
         /\ Scan!Entered(counters).errors = counters.errors
         /\ stage = 3 => Scan!Entered(counters) = counters
<1>1. counters \in Counters /\ stage \in 1..3 /\ running
      /\ (stage = 1 => counters.processed = Len(snapshots) + counters.errors)
      /\ (stage > 1 => counters.processed = Len(snapshots) + counters.errors + 1)
  BY DEF CountsInv, CountsSound, PlaceInv, Scan!Visiting
<1>2. CASE stage = 1
  BY <1>1, <1>2 DEF Scan!Entered, Counters
<1>3. CASE stage > 1
  BY <1>1, <1>3 DEF Scan!Entered
<1> QED BY <1>1, <1>2, <1>3

\* The counters go on adding up when a pair raised, counted active or not, and
\* when it is listed, active or not.
LEMMA CountsGoOn ==
  ASSUME NEW all \in Nat, NEW left \in Nat, left > 0, left <= all, NEW listed \in Nat,
         NEW c, NEW d, NEW active, NEW at, CountsSound(c, all, left, listed, active, TRUE, at),
         d \in Counters, d.processed = listed + c.errors + 1,
         NEW more, NEW still,
         \/ /\ more = listed /\ still = active
            /\ d.active \in {c.active, c.active + 1} /\ d.inactive = c.inactive
            /\ d.errors = c.errors + 1
         \/ /\ more = listed + 1 /\ still = active + 1
            /\ d.active = c.active + 1 /\ d.inactive = c.inactive /\ d.errors = c.errors
         \/ /\ more = listed + 1 /\ still = active
            /\ d.active = c.active /\ d.inactive = c.inactive + 1 /\ d.errors = c.errors
  PROVE  CountsSound(d, all, left - 1, more, still, TRUE, 1)
BY DEF CountsSound, Counters

\* The order is kept by another snapshot, of the next pair.
LEMMA OrderGoesOn ==
  ASSUME NEW n \in Nat, NEW all, NEW list \in Seq(Snapshots), Shown(list, all, n),
         NEW p \in Snapshots, p.symbol = all[n + 1]
  PROVE  Shown(Append(list, p), all, n + 1)
<1>1. PICK some \in SUBSET (1 .. n) : InTurn(some, list, all)
  BY DEF Shown
<1> DEFINE more == some \cup {n + 1}
           longer == Append(list, p)
<1>2. more \in SUBSET (1 .. n + 1)
  OBVIOUS
<1>3. /\ Cardinality(some) \in Nat /\ Cardinality(more) = Cardinality(some) + 1
      /\ \A i \in 1 .. Cardinality(some) : Nth(more, i) = Nth(some, i)
      /\ Nth(more, Cardinality(some) + 1) = n + 1
  BY KeepNext
<1>4. Len(longer) = Len(list) + 1 /\ Len(list) \in Nat
      /\ (\A i \in 1 .. Len(list) : longer[i] = list[i]) /\ longer[Len(list) + 1] = p
  BY ListedNext
<1>5. Len(list) = Cardinality(some) /\ \A i \in 1 .. Len(list) : list[i].symbol = all[Nth(some, i)]
  BY <1>1 DEF InTurn
<1> HIDE DEF more, longer
<1>6. Len(longer) = Cardinality(more)
  BY <1>3, <1>4, <1>5
<1>7. ASSUME NEW i \in 1 .. Len(longer)
      PROVE  longer[i].symbol = all[Nth(more, i)]
  <2>1. CASE i \in 1 .. Len(list)
    BY <1>3, <1>4, <1>5, <2>1
  <2>2. CASE i = Len(list) + 1
    BY <1>3, <1>4, <1>5, <2>2
  <2> QED BY <1>4, <2>1, <2>2
<1>8. InTurn(more, longer, all)
  BY <1>6, <1>7 DEF InTurn
<1> QED BY <1>2, <1>8 DEF Shown, longer

LEMMA OrderWidens ==
  ASSUME NEW n \in Nat, NEW m \in Nat, n <= m, NEW all, NEW list, Shown(list, all, n)
  PROVE  Shown(list, all, m)
<1>1. 1 .. n \subseteq 1 .. m
  OBVIOUS
<1> QED BY <1>1 DEF Shown

LEMMA Places ==
  ASSUME NEW all \in Nat, NEW left \in Nat, left > 0, left <= all
  PROVE  all - left \in Nat /\ all - (left - 1) \in Nat /\ all - (left - 1) = all - left + 1
         /\ all - left <= all - (left - 1)
OBVIOUS

\* A pair that raised is an error and no snapshot, whether or not it had been
\* counted active.
LEMMA RaisedKeeps ==
  ASSUME ScanInv, Scan!Visiting, UNCHANGED <<Scan!settings, running, allFailed>>,
         todo' = Tail(todo), stage' = 1, CacheSound(cache'), Grown(cache, cache'),
         snapshots' = snapshots,
         counters' \in Counters, counters'.processed = Len(snapshots) + counters.errors + 1,
         counters'.active \in {counters.active, counters.active + 1},
         counters'.inactive = counters.inactive, counters'.errors = counters.errors + 1
  PROVE  ScanInv'
<1>1. SettingsInv /\ PlaceInv /\ CountsInv /\ SnapshotsInv /\ pairs \in Seq(Scan!Symbols)
      /\ running \in BOOLEAN /\ allFailed \in BOOLEAN /\ running
  BY DEF ScanInv, SettingsInv, Scan!Visiting
<1>2. SettingsInv' /\ PlaceInv' /\ StageInv' /\ CacheSound(cache)'
  BY PairDone
<1>3. mode' = mode /\ pairs' = pairs /\ Scan!CurrentBounds' = Scan!CurrentBounds
  BY <1>1, SettingsKept
<1>4. Len(pairs) \in Nat /\ Len(todo) \in Nat /\ Len(todo) > 0 /\ Len(todo) <= Len(pairs)
      /\ Len(todo') = Len(todo) - 1
  BY <1>1, PairLeaves
<1>5. snapshots \in Seq(Snapshots) /\ Len(snapshots) \in Nat
  BY <1>1 DEF SnapshotsInv
<1>6. CountsInv'
  <2>1. CountsSound(counters, Len(pairs), Len(todo), Len(snapshots), Cardinality(Actives(snapshots)), TRUE, stage)
    BY <1>1 DEF CountsInv
  <2>2. CountsSound(counters', Len(pairs), Len(todo) - 1, Len(snapshots), Cardinality(Actives(snapshots)), TRUE, 1)
    BY <1>4, <1>5, <2>1, CountsGoOn
  <2> QED BY <1>1, <1>3, <1>4, <2>2 DEF CountsInv
<1>7. SnapshotsInv'
  <2>1. \A i \in 1 .. Len(snapshots) : Judged(snapshots[i], cache', mode, Scan!CurrentBounds)
    BY <1>1, JudgedStill DEF SnapshotsInv
  <2>2. Shown(snapshots, pairs, Len(pairs) - Len(todo))
    BY <1>1 DEF SnapshotsInv
  <2>3. Shown(snapshots, pairs, Len(pairs) - (Len(todo) - 1))
    BY <1>4, <2>2, Places, OrderWidens
  <2> QED BY <1>3, <1>4, <1>5, <2>1, <2>3 DEF SnapshotsInv
<1> QED BY <1>2, <1>6, <1>7 DEF ScanInv

\* A pair that got through its filters, or not, is the last snapshot.
LEMMA ShownKeeps ==
  ASSUME ScanInv, Scan!Visiting, UNCHANGED <<Scan!settings, running, allFailed>>,
         todo' = Tail(todo), stage' = 1, CacheSound(cache'), Grown(cache, cache'),
         NEW p, p \in Snapshots, p.symbol = Head(todo), Judged(p, cache', mode, Scan!CurrentBounds),
         snapshots' = Append(snapshots, p),
         counters' \in Counters, counters'.processed = Len(snapshots) + counters.errors + 1,
         counters'.errors = counters.errors,
         \/ p.active /\ counters'.active = counters.active + 1 /\ counters'.inactive = counters.inactive
         \/ ~p.active /\ counters'.active = counters.active /\ counters'.inactive = counters.inactive + 1
  PROVE  ScanInv'
<1>1. SettingsInv /\ PlaceInv /\ CountsInv /\ SnapshotsInv /\ pairs \in Seq(Scan!Symbols)
      /\ running \in BOOLEAN /\ allFailed \in BOOLEAN /\ running
  BY DEF ScanInv, SettingsInv, Scan!Visiting
<1>2. SettingsInv' /\ PlaceInv' /\ StageInv' /\ CacheSound(cache)'
  BY PairDone
<1>3. mode' = mode /\ pairs' = pairs /\ Scan!CurrentBounds' = Scan!CurrentBounds
  BY <1>1, SettingsKept
<1>4. Len(pairs) \in Nat /\ Len(todo) \in Nat /\ Len(todo) > 0 /\ Len(todo) <= Len(pairs)
      /\ Len(todo') = Len(todo) - 1 /\ Head(todo) = pairs[Len(pairs) - Len(todo) + 1]
  BY <1>1, PairLeaves
<1>5. snapshots \in Seq(Snapshots) /\ Len(snapshots) \in Nat
  BY <1>1 DEF SnapshotsInv
<1>6. /\ snapshots' \in Seq(Snapshots) /\ Len(snapshots') = Len(snapshots) + 1
      /\ \A i \in 1 .. Len(snapshots) : snapshots'[i] = snapshots[i]
      /\ snapshots'[Len(snapshots) + 1] = p
      /\ p.active => Cardinality(Actives(snapshots')) = Cardinality(Actives(snapshots)) + 1
      /\ ~p.active => Cardinality(Actives(snapshots')) = Cardinality(Actives(snapshots))
  BY <1>5, ListedNext
<1>7. CountsInv'
  <2>1. CountsSound(counters, Len(pairs), Len(todo), Len(snapshots), Cardinality(Actives(snapshots)), TRUE, stage)
    BY <1>1 DEF CountsInv
  <2>2. CASE p.active
    <3>1. CountsSound(counters', Len(pairs), Len(todo) - 1, Len(snapshots) + 1, Cardinality(Actives(snapshots)) + 1, TRUE, 1)
      BY <1>4, <1>5, <2>1, <2>2, CountsGoOn
    <3> QED BY <1>1, <1>3, <1>4, <1>6, <2>2, <3>1 DEF CountsInv
  <2>3. CASE ~p.active
    <3>1. CountsSound(counters', Len(pairs), Len(todo) - 1, Len(snapshots) + 1, Cardinality(Actives(snapshots)), TRUE, 1)
      BY <1>4, <1>5, <2>1, <2>3, CountsGoOn
    <3> QED BY <1>1, <1>3, <1>4, <1>6, <2>3, <3>1 DEF CountsInv
  <2> QED BY <2>2, <2>3
<1>8. SnapshotsInv'
  <2>1. \A i \in 1 .. Len(snapshots') : Judged(snapshots'[i], cache', mode, Scan!CurrentBounds)
    <3> SUFFICES ASSUME NEW i \in 1 .. Len(snapshots')
                 PROVE  Judged(snapshots'[i], cache', mode, Scan!CurrentBounds)
      OBVIOUS
    <3>1. CASE i \in 1 .. Len(snapshots)
      <4>1. Judged(snapshots[i], cache, mode, Scan!CurrentBounds)
        BY <1>1, <3>1 DEF SnapshotsInv
      <4> QED BY <1>6, <3>1, <4>1, JudgedStill
    <3>2. CASE i = Len(snapshots) + 1
      BY <1>6, <3>2
    <3> QED BY <1>5, <1>6, <3>1, <3>2
  <2>2. Shown(snapshots, pairs, Len(pairs) - Len(todo))
    BY <1>1 DEF SnapshotsInv
  <2>3. Shown(Append(snapshots, p), pairs, Len(pairs) - Len(todo) + 1)
    BY <1>4, <1>5, <2>2, Places, OrderGoesOn
  <2>4. Shown(snapshots', pairs, Len(pairs) - Len(todo'))
    BY <1>4, <2>3, Places
  <2> QED BY <1>3, <1>6, <2>1, <2>4 DEF SnapshotsInv
<1> QED BY <1>2, <1>7, <1>8 DEF ScanInv

\* A filter passed, the pair goes on to the next one.
\* The counters go on adding up when a pair passes on to its next reading.
LEMMA CountsEnter ==
  ASSUME NEW all \in Nat, NEW left \in Nat, NEW listed \in Nat, NEW active, NEW at \in Nat, at > 0,
         NEW c, NEW d \in Counters, CountsSound(c, all, left, listed, active, TRUE, at),
         left > 0, left <= all, d.processed = listed + c.errors + 1,
         d.active = c.active, d.inactive = c.inactive, d.errors = c.errors
  PROVE  CountsSound(d, all, left, listed, active, TRUE, at + 1)
<1>1. /\ c \in Counters /\ active \in Nat /\ listed + c.errors <= all
      /\ listed + c.errors = all - left
      /\ c.inactive = listed - active /\ c.active >= active /\ c.active - active <= c.errors
  BY DEF CountsSound
<1>2. c.errors \in Nat
  BY <1>1 DEF Counters
<1>3. d.processed <= all /\ at + 1 # 1 /\ at + 1 > 1
  BY <1>1, <1>2
<1> QED BY <1>1, <1>3 DEF CountsSound

LEMMA StageAdvances ==
  ASSUME ScanInv, Scan!Visiting, UNCHANGED <<Scan!settings, running, allFailed>>,
         CacheSound(cache'), Grown(cache, cache'), stage < 3, stage' = stage + 1,
         snapshots' = snapshots, todo' = todo, counters' = Scan!Entered(counters),
         NEW x, Head(todo) \in DOMAIN cache'[Scan!Stages[stage]],
         cache'[Scan!Stages[stage]][Head(todo)] = x,
         Scan!Passes(Scan!CurrentBounds, Scan!Stages[stage], x)
  PROVE  ScanInv'
<1>1. SettingsInv /\ PlaceInv /\ CountsInv /\ SnapshotsInv /\ StageInv /\ running \in BOOLEAN
      /\ allFailed \in BOOLEAN /\ running /\ todo # <<>> /\ CacheSound(cache)
  BY DEF ScanInv, SettingsInv, Scan!Visiting
<1>2. SettingsInv' /\ mode' = mode /\ pairs' = pairs /\ Scan!CurrentBounds' = Scan!CurrentBounds
  BY <1>1, SettingsKept
<1>3. PlaceInv'
  <2>1. stage \in 1..3 /\ stage' \in 1..3 /\ running' = running
    BY <1>1 DEF PlaceInv
  <2> QED BY <1>1, <1>2, <2>1 DEF PlaceInv
<1>4. StageInv'
  <2>1. stage = 1 \/ stage = 2
    BY <1>1 DEF PlaceInv
  <2>2. CASE stage = 1
    <3>1. Scan!Stages[stage] = "volume"
      BY <2>2 DEF Scan!Stages
    <3>2. Scan!VolumePasses(Scan!CurrentBounds, x)
      BY <3>1 DEF Scan!Passes
    <3> QED BY <1>2, <2>2, <3>1, <3>2 DEF StageInv
  <2>3. CASE stage = 2
    <3>1. Scan!Stages[stage] = "spread"
      BY <2>3 DEF Scan!Stages
    <3>2. Scan!SpreadPasses(Scan!CurrentBounds, x)
      BY <3>1 DEF Scan!Passes
    <3>3. Head(todo) \in DOMAIN cache["volume"] /\ Scan!VolumePasses(Scan!CurrentBounds, cache["volume"][Head(todo)])
      BY <1>1, <2>3 DEF StageInv
    <3>4. Head(todo) \in DOMAIN cache'["volume"] /\ cache'["volume"][Head(todo)] = cache["volume"][Head(todo)]
      BY <3>3 DEF Grown, Readings
    <3> QED BY <1>2, <2>3, <3>1, <3>2, <3>3, <3>4 DEF StageInv
  <2> QED BY <2>1, <2>2, <2>3
<1>5. CountsInv'
  <2>1. /\ counters' \in Counters /\ counters'.processed = Len(snapshots) + counters.errors + 1
        /\ counters'.active = counters.active /\ counters'.inactive = counters.inactive
        /\ counters'.errors = counters.errors
    BY <1>1, EnteredCounts
  <2>2. CountsSound(counters, Len(pairs), Len(todo), Len(snapshots), Cardinality(Actives(snapshots)), TRUE, stage)
    BY <1>1 DEF CountsInv
  <2>3. Len(pairs) \in Nat /\ Len(todo) \in Nat /\ Len(todo) > 0 /\ Len(todo) <= Len(pairs)
        /\ Len(snapshots) \in Nat /\ stage \in 1..3
    BY <1>1, PairLeaves DEF SettingsInv, SnapshotsInv, PlaceInv
  <2>4. CountsSound(counters', Len(pairs), Len(todo), Len(snapshots), Cardinality(Actives(snapshots)), TRUE, stage + 1)
    <3>1. stage \in Nat /\ stage > 0
      BY <2>3
    <3> QED BY <2>1, <2>2, <2>3, <3>1, CountsEnter, Zenon
  <2> QED BY <1>1, <1>2, <2>4 DEF CountsInv
<1>6. SnapshotsInv'
  <2>1. \A i \in 1 .. Len(snapshots) : Judged(snapshots[i], cache', mode, Scan!CurrentBounds)
    BY <1>1, JudgedStill DEF SnapshotsInv
  <2> QED BY <1>1, <1>2, <2>1 DEF SnapshotsInv
<1> QED BY <1>2, <1>3, <1>4, <1>5, <1>6 DEF ScanInv

LEMMA InactiveListed ==
  ASSUME NEW s \in Scan!Symbols
  PROVE  /\ Scan!Inactive(s) \in Snapshots /\ Scan!Inactive(s).symbol = s /\ ~Scan!Inactive(s).active
         /\ \A c, m, b : Judged(Scan!Inactive(s), c, m, b)
BY DEF Scan!Inactive, Snapshots, Judged

\* Every reading of a pair passed and its volume is a number.
LEMMA ActiveListed ==
  ASSUME SettingsInv, NEW c, CacheSound(c), NEW s \in Scan!Symbols,
         \A what \in Readings : s \in DOMAIN c[what],
         c["volume"][s] # Scan!NaN, Scan!VolumePasses(Scan!CurrentBounds, c["volume"][s]),
         Scan!SpreadPasses(Scan!CurrentBounds, c["spread"][s]),
         Scan!CandlesPass(Scan!CurrentBounds, c["candles"][s])
  PROVE  LET p == Scan!Active(s, c["volume"][s], c["spread"][s], c["candles"][s])
         IN  p \in Snapshots /\ p.symbol = s /\ p.active /\ Judged(p, c, mode, Scan!CurrentBounds)
<1> DEFINE b == Scan!CurrentBounds
           l == c["candles"][s]
           inRange == b.minAtr <= Scan!AtrPct(l) /\ Scan!AtrPct(l) <= b.maxAtr
           score == Scan!RankScore(Scan!ScannerMode(mode), c["volume"][s], c["spread"][s], inRange)
           p == Scan!Active(s, c["volume"][s], c["spread"][s], l)
<1>1. c["volume"][s] \in Int /\ c["spread"][s] \in Int /\ l \in Histories
  BY DEF CacheSound, Readings
<1>2. Scan!AtrPct(l) \in Int
  BY <1>1, ScanNumbers, AtrTyped
<1>3. p = [symbol |-> s, active |-> TRUE, volume |-> c["volume"][s], spread |-> c["spread"][s],
           atr |-> Scan!AtrPct(l), score |-> score]
  BY DEF Scan!Active
<1>4. inRange \in BOOLEAN
  OBVIOUS
<1> HIDE DEF b, inRange
<1>5. score \in Int
  BY <1>1, <1>4, ScoreBounded
<1> HIDE DEF score, p, l
<1>6. p.symbol = s /\ p.active = TRUE
  BY <1>3
<1>7. p \in Snapshots
  BY <1>1, <1>2, <1>3, <1>5 DEF Snapshots
<1>8. Judged(p, c, mode, Scan!CurrentBounds)
  BY <1>3, <1>6 DEF Judged, score, inRange, b, l
<1> QED BY <1>6, <1>7, <1>8 DEF p, l

LEMMA CountedActive ==
  ASSUME NEW c \in Counters, NEW d, d = [c EXCEPT !.active = @ + 1, !.errors = @ + 1]
  PROVE  d \in Counters /\ d.processed = c.processed /\ d.errors = c.errors + 1
         /\ d.active = c.active + 1 /\ d.inactive = c.inactive
<1>1. d.processed = c.processed /\ d.errors = c.errors + 1 /\ d.active = c.active + 1
      /\ d.inactive = c.inactive
  BY DEF Counters
<1>2. c.active + 1 \in Nat /\ c.errors + 1 \in Nat
  BY DEF Counters
<1>3. d \in Counters
  BY <1>2 DEF Counters
<1> QED BY <1>1, <1>3

LEMMA CountedOne ==
  ASSUME NEW c \in Counters, NEW d
  PROVE  /\ d = [c EXCEPT !.active = @ + 1] =>
              /\ d \in Counters /\ d.processed = c.processed /\ d.errors = c.errors
              /\ d.active = c.active + 1 /\ d.inactive = c.inactive
         /\ d = [c EXCEPT !.inactive = @ + 1] =>
              /\ d \in Counters /\ d.processed = c.processed /\ d.errors = c.errors
              /\ d.active = c.active /\ d.inactive = c.inactive + 1
         /\ d = [c EXCEPT !.errors = @ + 1] =>
              /\ d \in Counters /\ d.processed = c.processed /\ d.errors = c.errors + 1
              /\ d.active = c.active /\ d.inactive = c.inactive
<1>1. CASE d = [c EXCEPT !.active = @ + 1]
  BY <1>1 DEF Counters
<1>2. CASE d = [c EXCEPT !.inactive = @ + 1]
  BY <1>2 DEF Counters
<1>3. CASE d = [c EXCEPT !.errors = @ + 1]
  BY <1>3 DEF Counters
<1> QED BY <1>1, <1>2, <1>3, Zenon

LEMMA JudgeKeeps ==
  ASSUME ScanInv, Scan!Visiting, UNCHANGED <<Scan!settings, running, allFailed>>,
         CacheSound(cache'), Grown(cache, cache'),
         NEW x, Head(todo) \in DOMAIN cache'[Scan!Stages[stage]],
         cache'[Scan!Stages[stage]][Head(todo)] = x, Scan!Judge(Head(todo), x, cache')
  PROVE  ScanInv'
<1> DEFINE s == Head(todo)
           what == Scan!Stages[stage]
<1>1. SettingsInv /\ PlaceInv /\ CountsInv /\ StageInv /\ pairs \in Seq(Scan!Symbols) /\ stage \in 1..3
  BY DEF ScanInv, SettingsInv, PlaceInv
<1>2. s \in Scan!Symbols
  BY <1>1, PairLeaves
<1>3. PICK e : e = Scan!Entered(counters)
  OBVIOUS
<1>4. /\ e \in Counters /\ e.processed = Len(snapshots) + counters.errors + 1
      /\ e.active = counters.active /\ e.inactive = counters.inactive
      /\ e.errors = counters.errors /\ (stage = 3 => e = counters)
  BY <1>1, <1>3, EnteredCounts
<1>5. CASE ~Scan!Passes(Scan!CurrentBounds, what, x)
  <2>1. /\ counters' = [e EXCEPT !.inactive = @ + 1] /\ snapshots' = Append(snapshots, Scan!Inactive(s))
        /\ todo' = Tail(todo) /\ stage' = 1
    BY <1>3, <1>5 DEF Scan!Judge
  <2>2. /\ counters' \in Counters /\ counters'.processed = e.processed /\ counters'.errors = e.errors
        /\ counters'.active = e.active /\ counters'.inactive = e.inactive + 1
    BY <1>4, <2>1, CountedOne, Zenon
  <2>3. PICK p : p = Scan!Inactive(s)
    OBVIOUS
  <2>4. p \in Snapshots /\ p.symbol = s /\ ~p.active /\ Judged(p, cache', mode, Scan!CurrentBounds)
    BY <1>2, <2>3, InactiveListed
  <2> QED BY <1>4, <2>1, <2>2, <2>3, <2>4, ShownKeeps
<1>6. CASE Scan!Passes(Scan!CurrentBounds, what, x) /\ stage < 3
  <2>1. counters' = Scan!Entered(counters) /\ stage' = stage + 1 /\ snapshots' = snapshots /\ todo' = todo
    BY <1>6 DEF Scan!Judge
  <2> QED BY <1>6, <2>1, StageAdvances
<1>7. CASE Scan!Passes(Scan!CurrentBounds, what, x) /\ stage = 3
  <2>0. counters \in Counters /\ counters.processed = Len(snapshots) + counters.errors + 1
    BY <1>4, <1>7
  <2>1. todo' = Tail(todo) /\ stage' = 1 /\ what = "candles"
    BY <1>7 DEF Scan!Judge, Scan!Stages
  <2>2. CASE cache'.volume[s] = Scan!NaN
    <3>1. snapshots' = snapshots /\ counters' = [counters EXCEPT !.active = @ + 1, !.errors = @ + 1]
      BY <1>7, <2>2 DEF Scan!Judge
    <3>2. /\ counters' \in Counters /\ counters'.processed = counters.processed
          /\ counters'.errors = counters.errors + 1 /\ counters'.active = counters.active + 1
          /\ counters'.inactive = counters.inactive
      BY <2>0, <3>1, CountedActive
    <3> QED BY <2>0, <2>1, <3>1, <3>2, RaisedKeeps
  <2>3. CASE cache'.volume[s] # Scan!NaN
    <3>1. PICK p : p = Scan!Active(s, cache'["volume"][s], cache'["spread"][s], cache'["candles"][s])
      OBVIOUS
    <3>2. snapshots' = Append(snapshots, p) /\ counters' = [counters EXCEPT !.active = @ + 1]
      BY <1>7, <2>3, <3>1 DEF Scan!Judge
    <3>3. /\ counters' \in Counters /\ counters'.processed = counters.processed
          /\ counters'.errors = counters.errors /\ counters'.active = counters.active + 1
          /\ counters'.inactive = counters.inactive
      BY <2>0, <3>2, CountedOne, Zenon
    <3>4. Scan!CandlesPass(Scan!CurrentBounds, cache'["candles"][s]) /\ s \in DOMAIN cache'["candles"]
      BY <1>7, <2>1 DEF Scan!Passes
    <3>5. /\ s \in DOMAIN cache["volume"] /\ Scan!VolumePasses(Scan!CurrentBounds, cache["volume"][s])
          /\ s \in DOMAIN cache["spread"] /\ Scan!SpreadPasses(Scan!CurrentBounds, cache["spread"][s])
      BY <1>1, <1>7 DEF StageInv
    <3>6. /\ s \in DOMAIN cache'["volume"] /\ cache'["volume"][s] = cache["volume"][s]
          /\ s \in DOMAIN cache'["spread"] /\ cache'["spread"][s] = cache["spread"][s]
      BY <3>5 DEF Grown, Readings
    <3>7. \A w \in Readings : s \in DOMAIN cache'[w]
      BY <3>4, <3>6 DEF Readings
    <3>8. p \in Snapshots /\ p.symbol = s /\ p.active /\ Judged(p, cache', mode, Scan!CurrentBounds)
      BY <1>1, <1>2, <2>3, <3>1, <3>4, <3>5, <3>6, <3>7, ActiveListed
    <3> QED BY <2>0, <2>1, <3>2, <3>3, <3>8, ShownKeeps
  <2> QED BY <2>2, <2>3
<1> QED BY <1>1, <1>5, <1>6, <1>7

LEMMA FailKeeps == ASSUME ScanInv, Scan!Fail PROVE ScanInv'
<1>1. Scan!Visiting /\ todo' = Tail(todo) /\ stage' = 1 /\ cache' = cache /\ snapshots' = snapshots
      /\ UNCHANGED <<Scan!settings, running, allFailed>>
  BY DEF Scan!Fail
<1>2. CountsInv /\ PlaceInv /\ CacheSound(cache)
  BY DEF ScanInv
<1>3. Grown(cache, cache')
  BY <1>1 DEF Grown
<1>4. PICK e : e = Scan!Entered(counters)
  OBVIOUS
<1>5. /\ e \in Counters /\ e.processed = Len(snapshots) + counters.errors + 1
      /\ e.active = counters.active /\ e.inactive = counters.inactive /\ e.errors = counters.errors
  BY <1>1, <1>2, <1>4, EnteredCounts
<1>6. counters' = [e EXCEPT !.errors = @ + 1]
  BY <1>4 DEF Scan!Fail
<1>7. /\ counters' \in Counters /\ counters'.processed = e.processed /\ counters'.active = e.active
      /\ counters'.inactive = e.inactive /\ counters'.errors = e.errors + 1
  BY <1>5, <1>6, CountedOne, Zenon
<1> QED BY <1>1, <1>2, <1>3, <1>5, <1>7, RaisedKeeps

LEMMA StartKeeps == ASSUME ScanInv, Scan!Start PROVE ScanInv'
<1>1. /\ counters' = Scan!NoCounters /\ snapshots' = <<>> /\ stage' = 1 /\ cache' = Scan!NoCache
      /\ running' = (~kill /\ pairs # <<>>) /\ todo' = (IF kill THEN <<>> ELSE pairs)
      /\ allFailed' = FALSE /\ UNCHANGED Scan!settings
  BY DEF Scan!Start
<1>2. SettingsInv
  BY DEF ScanInv
<1>3. pairs \in Seq(Scan!Symbols) /\ Len(pairs) \in Nat /\ kill \in BOOLEAN
  BY <1>2 DEF SettingsInv
<1>4. running' \in BOOLEAN /\ allFailed' \in BOOLEAN
  BY <1>1
<1>5. SettingsInv' /\ pairs' = pairs
  BY <1>1, <1>2, <1>4, SettingsKept
<1>6. todo' \in Seq(Scan!Symbols) /\ Len(todo') \in Nat /\ Len(todo') <= Len(pairs)
      /\ (todo' = pairs \/ todo' = <<>>) /\ (running' => todo' = pairs) /\ (~running' => todo' = <<>>)
  <2>1. CASE kill
    <3>1. todo' = <<>> /\ running' = FALSE
      BY <1>1, <2>1
    <3>2. <<>> \in Seq(Scan!Symbols) /\ Len(<<>>) = 0
      OBVIOUS
    <3> QED BY <1>3, <3>1, <3>2
  <2>2. CASE ~kill
    <3>1. todo' = pairs /\ (~running' => pairs = <<>>)
      BY <1>1, <2>2
    <3> QED BY <1>3, <3>1
  <2> QED BY <2>1, <2>2
<1>7. PlaceInv'
  <2>1. ASSUME NEW i \in 1 .. Len(todo')
        PROVE  todo'[i] = pairs[Len(pairs) - Len(todo') + i]
    <3>1. CASE todo' = pairs
      BY <1>3, <3>1
    <3>2. CASE todo' = <<>>
      BY <3>2
    <3> QED BY <1>6, <3>1, <3>2
  <2>2. stage' \in 1..3 /\ stage' = 1
    BY <1>1
  <2> QED BY <1>5, <1>6, <2>1, <2>2 DEF PlaceInv
<1>8. StageInv'
  BY <1>1 DEF StageInv
<1>9. CacheSound(cache')
  BY <1>1, EmptyCacheSound
<1>10. CountsInv'
  <2>1. CountsSound(Scan!NoCounters, Len(pairs), Len(todo'), 0, 0, running', 1)
    BY <1>3, <1>6, NoCountersYet DEF CountsSound
  <2> QED BY <1>1, <1>5, <2>1, NothingListed DEF CountsInv
<1>11. SnapshotsInv'
  <2>1. Shown(<<>>, pairs, Len(pairs) - Len(todo'))
    BY NothingListed DEF Shown
  <2> QED BY <1>1, <1>5, <2>1, NothingListed DEF SnapshotsInv
<1> QED BY <1>5, <1>7, <1>8, <1>9, <1>10, <1>11 DEF ScanInv

LEMMA CancelKeeps == ASSUME ScanInv, Scan!Cancel PROVE ScanInv'
<1>1. /\ Scan!Visiting /\ running' = FALSE /\ todo' = <<>> /\ stage' = 1
      /\ counters' = Scan!Entered(counters) /\ cache' = cache /\ snapshots' = snapshots
      /\ allFailed' = allFailed /\ UNCHANGED Scan!settings
  BY DEF Scan!Cancel
<1>2. SettingsInv /\ PlaceInv /\ CountsInv /\ SnapshotsInv /\ CacheSound(cache) /\ running = TRUE
      /\ pairs \in Seq(Scan!Symbols)
  BY <1>1 DEF ScanInv, SettingsInv, Scan!Visiting
<1>3. running' \in BOOLEAN /\ allFailed' \in BOOLEAN
  BY <1>1, <1>2 DEF SettingsInv
<1>4. SettingsInv' /\ mode' = mode /\ pairs' = pairs /\ Scan!CurrentBounds' = Scan!CurrentBounds
  BY <1>1, <1>2, <1>3, SettingsKept
<1>5. Len(pairs) \in Nat /\ Len(todo) \in Nat /\ Len(todo) > 0 /\ Len(todo) <= Len(pairs)
  BY <1>1, <1>2, PairLeaves
<1>6. todo' \in Seq(Scan!Symbols) /\ Len(todo') = 0
  BY <1>1
<1>7. PlaceInv'
  <2>1. stage' \in 1..3 /\ Len(todo') <= Len(pairs) /\ \A i : i \notin 1 .. Len(todo')
    BY <1>1, <1>5, <1>6
  <2> QED BY <1>1, <1>4, <1>6, <2>1 DEF PlaceInv
<1>8. StageInv'
  BY <1>1 DEF StageInv
<1>9. CountsInv'
  <2>1. /\ counters' \in Counters /\ counters'.processed = Len(snapshots) + counters.errors + 1
        /\ counters'.active = counters.active /\ counters'.inactive = counters.inactive
        /\ counters'.errors = counters.errors
    BY <1>1, <1>2, EnteredCounts
  <2>2. CountsSound(counters, Len(pairs), Len(todo), Len(snapshots), Cardinality(Actives(snapshots)), TRUE, stage)
    BY <1>2 DEF CountsInv
  <2>3. Len(snapshots) \in Nat
    BY <1>2 DEF SnapshotsInv
  <2>4. CountsSound(counters', Len(pairs), 0, Len(snapshots), Cardinality(Actives(snapshots)), FALSE, 1)
    BY <1>5, <2>1, <2>2, <2>3 DEF CountsSound, Counters
  <2> QED BY <1>1, <1>4, <1>6, <2>4 DEF CountsInv
<1>10. SnapshotsInv'
  <2>1. Shown(snapshots, pairs, Len(pairs) - Len(todo))
    BY <1>2 DEF SnapshotsInv
  <2>2. Len(pairs) - Len(todo) \in Nat /\ Len(pairs) - Len(todo) <= Len(pairs)
    BY <1>5
  <2>3. Shown(snapshots, pairs, Len(pairs))
    BY <1>5, <2>1, <2>2, OrderWidens
  <2>4. Len(pairs) - Len(todo') = Len(pairs)
    BY <1>5, <1>6
  <2> QED BY <1>1, <1>2, <1>4, <2>3, <2>4 DEF SnapshotsInv
<1> QED BY <1>1, <1>2, <1>4, <1>7, <1>8, <1>9, <1>10 DEF ScanInv

LEMMA FinishKeeps == ASSUME ScanInv, Scan!Finish PROVE ScanInv'
<1>1. /\ running = TRUE /\ todo = <<>> /\ running' = FALSE /\ allFailed' = (counters.active = 0)
      /\ todo' = todo /\ stage' = stage /\ counters' = counters /\ cache' = cache
      /\ snapshots' = snapshots /\ UNCHANGED Scan!settings
  <2>1. SettingsInv
    BY DEF ScanInv
  <2> QED BY <2>1 DEF Scan!Finish, SettingsInv
<1>2. SettingsInv /\ PlaceInv /\ StageInv /\ CountsInv /\ SnapshotsInv /\ CacheSound(cache)
  BY DEF ScanInv
<1>3. running' \in BOOLEAN /\ allFailed' \in BOOLEAN
  BY <1>1
<1>4. SettingsInv' /\ mode' = mode /\ pairs' = pairs /\ Scan!CurrentBounds' = Scan!CurrentBounds
  BY <1>1, <1>2, <1>3, SettingsKept
<1>5. PlaceInv'
  BY <1>1, <1>2, <1>4 DEF PlaceInv
<1>6. StageInv'
  BY <1>1, <1>2, <1>4 DEF StageInv
<1>7. CountsInv'
  <2>1. CountsSound(counters, Len(pairs), Len(todo), Len(snapshots), Cardinality(Actives(snapshots)), TRUE, stage)
    BY <1>1, <1>2 DEF CountsInv
  <2>2. CountsSound(counters, Len(pairs), Len(todo), Len(snapshots), Cardinality(Actives(snapshots)), FALSE, stage)
    BY <2>1 DEF CountsSound
  <2> QED BY <1>1, <1>4, <2>2 DEF CountsInv
<1>8. SnapshotsInv'
  BY <1>1, <1>2, <1>4 DEF SnapshotsInv
<1> QED BY <1>1, <1>2, <1>4, <1>5, <1>6, <1>7, <1>8 DEF ScanInv

LEMMA ScanStepKeeps == ScanInv /\ [Scan!Next]_scanVars => ScanInv'
<1> SUFFICES ASSUME ScanInv, [Scan!Next]_scanVars PROVE ScanInv'
  OBVIOUS
<1>1. CASE Scan!Start
  BY <1>1, StartKeeps
<1>2. CASE Scan!Fail
  BY <1>2, FailKeeps
<1>3. CASE Scan!Reuse
  <2>1. Scan!Visiting /\ cache' = cache /\ Head(todo) \in DOMAIN cache[Scan!Stages[stage]]
        /\ Scan!Judge(Head(todo), cache[Scan!Stages[stage]][Head(todo)], cache)
        /\ UNCHANGED <<Scan!settings, running, allFailed>>
    BY <1>3 DEF Scan!Reuse
  <2>2. PICK x : x = cache[Scan!Stages[stage]][Head(todo)]
    OBVIOUS
  <2>3. Scan!Judge(Head(todo), x, cache')
    BY <2>1, <2>2
  <2>4. CacheSound(cache') /\ Grown(cache, cache')
    BY <2>1 DEF Grown, ScanInv
  <2> QED BY <2>1, <2>2, <2>3, <2>4, JudgeKeeps
<1>4. CASE Scan!Finish
  BY <1>4, FinishKeeps
<1>5. CASE Scan!Cancel
  BY <1>5, CancelKeeps
<1>6. ASSUME NEW x \in Scan!Answers(Scan!Stages[stage]), Scan!Read(x)
      PROVE  ScanInv'
  <2>1. Scan!Visiting /\ Head(todo) \notin DOMAIN cache[Scan!Stages[stage]]
        /\ Scan!Judge(Head(todo), x, cache') /\ UNCHANGED <<Scan!settings, running, allFailed>>
        /\ cache' = [cache EXCEPT ![Scan!Stages[stage]] =
                       [t \in DOMAIN @ \cup {Head(todo)} |-> IF t = Head(todo) THEN x ELSE @[t]]]
    BY <1>6 DEF Scan!Read
  <2>2. PICK what \in Readings : what = Scan!Stages[stage]
    BY DEF ScanInv, PlaceInv, Scan!Stages, Readings
  <2>3. cache' = [cache EXCEPT ![what] = [t \in DOMAIN @ \cup {Head(todo)} |->
                                            IF t = Head(todo) THEN x ELSE @[t]]]
        /\ Head(todo) \notin DOMAIN cache[what] /\ x \in Scan!Answers(what)
    BY <2>1, <2>2
  <2>4. CacheSound(cache') /\ Grown(cache, cache') /\ Head(todo) \in DOMAIN cache'[what]
        /\ cache'[what][Head(todo)] = x
    BY <2>3, ReadFills
  <2> QED BY <2>1, <2>2, <2>4, JudgeKeeps
<1>7. CASE UNCHANGED scanVars
  BY <1>7 DEF scanVars, ScanInv, SettingsInv, PlaceInv, StageInv, CountsInv, SnapshotsInv, Scan!CurrentBounds
<1> QED BY <1>1, <1>2, <1>3, <1>4, <1>5, <1>6, <1>7 DEF Scan!Next

LEMMA ScanPairs == ASSUME ScanInv PROVE Scan!PairsAccountedFor
<1>1. SettingsInv /\ PlaceInv /\ CountsInv /\ SnapshotsInv
  BY DEF ScanInv
<1>2. snapshots \in Seq(Snapshots) /\ Len(snapshots) \in Nat /\ DOMAIN snapshots = 1 .. Len(snapshots)
      /\ pairs \in Seq(Scan!Symbols) /\ Len(pairs) \in Nat /\ DOMAIN pairs = 1 .. Len(pairs)
      /\ Len(todo) \in Nat /\ Len(todo) <= Len(pairs)
  BY <1>1 DEF SnapshotsInv, SettingsInv, PlaceInv
<1>3. Scan!Cardinality(Scan!ActiveOnes) = Cardinality(Actives(snapshots))
  BY <1>2 DEF Scan!ActiveOnes, Actives, Scan!Cardinality, Cardinality
<1>4. CountsSound(counters, Len(pairs), Len(todo), Len(snapshots), Cardinality(Actives(snapshots)), running, stage)
  BY <1>1 DEF CountsInv
<1>5. counters.inactive = Len(snapshots) - Scan!Cardinality(Scan!ActiveOnes)
      /\ counters.active >= Scan!Cardinality(Scan!ActiveOnes)
      /\ counters.active - Scan!Cardinality(Scan!ActiveOnes) <= counters.errors
  BY <1>3, <1>4 DEF CountsSound
<1>6. counters.processed = Len(pairs) => Len(snapshots) + counters.errors \in {Len(pairs), Len(pairs) - 1}
  <2>1. counters.errors \in Nat
        /\ counters.processed \in {Len(snapshots) + counters.errors, Len(snapshots) + counters.errors + 1}
    BY <1>4 DEF CountsSound, Counters
  <2> QED BY <1>2, <2>1
<1>7. \E keep \in SUBSET DOMAIN pairs :
       [i \in DOMAIN snapshots |-> snapshots[i].symbol] =
         [i \in 1 .. Scan!Cardinality(keep) |->
            pairs[CHOOSE k \in keep : Scan!Cardinality({j \in keep : j < k}) = i - 1]]
  <2>1. PICK some \in SUBSET (1 .. Len(pairs) - Len(todo)) : InTurn(some, snapshots, pairs)
    BY <1>1 DEF SnapshotsInv, Shown
  <2>2. some \in SUBSET DOMAIN pairs
    BY <1>2
  <2>3. Len(snapshots) = Cardinality(some)
        /\ \A i \in 1 .. Len(snapshots) : snapshots[i].symbol = pairs[Nth(some, i)]
    BY <2>1 DEF InTurn
  <2>4. \A X : Scan!Cardinality(X) = Cardinality(X)
    BY DEF Scan!Cardinality, Cardinality
  <2>5. \A i : (CHOOSE k \in some : Scan!Cardinality({j \in some : j < k}) = i - 1) = Nth(some, i)
    BY <2>4 DEF Nth
  <2>6. [i \in DOMAIN snapshots |-> snapshots[i].symbol] = [i \in 1 .. Cardinality(some) |-> pairs[Nth(some, i)]]
    BY <1>2, <2>3
  <2>7. [i \in 1 .. Scan!Cardinality(some) |->
            pairs[CHOOSE k \in some : Scan!Cardinality({j \in some : j < k}) = i - 1]]
          = [i \in 1 .. Cardinality(some) |-> pairs[Nth(some, i)]]
    <3>1. \A i : pairs[CHOOSE k \in some : Scan!Cardinality({j \in some : j < k}) = i - 1]
                  = pairs[Nth(some, i)]
      BY <2>5, Zenon
    <3>2. Scan!Cardinality(some) = Cardinality(some)
      BY <2>4, Zenon
    <3> QED BY <3>1, <3>2, Zenon
  <2> QED BY <2>2, <2>6, <2>7, Zenon
<1> QED BY <1>5, <1>6, <1>7 DEF Scan!PairsAccountedFor

\* What an active snapshot is, and what it passed.
LEMMA ActivePassed ==
  ASSUME ScanInv, NEW i \in Scan!ActiveOnes
  PROVE  LET p == snapshots[i]  s == p.symbol  b == Scan!CurrentBounds
             v == cache["volume"][s]  w == cache["spread"][s]  l == cache["candles"][s]
         IN  /\ v \in Int /\ w \in Int /\ Scan!AtrPct(l) \in Int
             /\ v # Scan!NaN /\ Scan!VolumePasses(b, v) /\ Scan!SpreadPasses(b, w) /\ Scan!CandlesPass(b, l)
             /\ p = [symbol |-> s, active |-> TRUE, volume |-> v, spread |-> w, atr |-> Scan!AtrPct(l),
                     score |-> Scan!RankScore(Scan!ScannerMode(mode), v, w,
                                 b.minAtr <= Scan!AtrPct(l) /\ Scan!AtrPct(l) <= b.maxAtr)]
             /\ p.volume = v /\ p.spread = w /\ p.atr = Scan!AtrPct(l)
<1>1. SnapshotsInv /\ CacheSound(cache)
  BY DEF ScanInv
<1>2. i \in 1 .. Len(snapshots) /\ snapshots[i].active
  BY <1>1 DEF Scan!ActiveOnes, SnapshotsInv
<1>3. Judged(snapshots[i], cache, mode, Scan!CurrentBounds)
  BY <1>1, <1>2 DEF SnapshotsInv
<1>4. \A what \in Readings : snapshots[i].symbol \in DOMAIN cache[what]
  BY <1>2, <1>3 DEF Judged
<1>5. /\ cache["volume"][snapshots[i].symbol] \in Int /\ cache["spread"][snapshots[i].symbol] \in Int
      /\ cache["candles"][snapshots[i].symbol] \in Histories
  BY <1>1, <1>4 DEF CacheSound, Readings
<1>6. Scan!AtrPct(cache["candles"][snapshots[i].symbol]) \in Int
  BY <1>5, ScanNumbers, AtrTyped
<1> DEFINE s == snapshots[i].symbol
           b == Scan!CurrentBounds
           v == cache["volume"][s]
           w == cache["spread"][s]
           l == cache["candles"][s]
<1>7. snapshots[i] = [symbol |-> s, active |-> TRUE, volume |-> v, spread |-> w, atr |-> Scan!AtrPct(l),
                      score |-> Scan!RankScore(Scan!ScannerMode(mode), v, w,
                                  b.minAtr <= Scan!AtrPct(l) /\ Scan!AtrPct(l) <= b.maxAtr)]
      /\ v # Scan!NaN /\ Scan!VolumePasses(b, v) /\ Scan!SpreadPasses(b, w) /\ Scan!CandlesPass(b, l)
  BY <1>2, <1>3 DEF Judged
<1>8. v \in Int /\ w \in Int /\ Scan!AtrPct(l) \in Int
  BY <1>5, <1>6
<1> HIDE DEF v, w, l, b
<1>9. snapshots[i].volume = v /\ snapshots[i].spread = w /\ snapshots[i].atr = Scan!AtrPct(l)
  BY <1>7
<1> QED BY <1>7, <1>8, <1>9 DEF v, w, l, b

LEMMA BoundsTighten ==
  ASSUME SettingsInv
  PROVE  LET b == Scan!CurrentBounds IN
         /\ b.minVolume \in Int /\ b.maxSpread \in Int /\ b.minAtr \in Int /\ b.maxAtr \in Int
         /\ b.minVolume >= filters.minVolume /\ b.maxSpread <= filters.maxSpread
         /\ b.minAtr = filters.minAtr /\ b.maxAtr <= filters.maxAtr
         /\ Scan!ScannerMode(mode) = "live" =>
              b.minVolume = LiveMinVolume /\ b.maxSpread <= LiveMaxSpread /\ b.maxAtr <= LiveMaxAtr
<1>1. filters \in [minVolume : Int, maxSpread : Int, minAtr : Int, maxAtr : Int]
      /\ LiveMinVolume >= filters.minVolume
  BY DEF SettingsInv, Scan!Buildable
<1>2. \A x, y \in Int : Scan!Smaller(x, y) \in Int /\ Scan!Smaller(x, y) <= x /\ Scan!Smaller(x, y) <= y
  BY DEF Scan!Smaller
<1>3. CASE Scan!ScannerMode(mode) = "live"
  <2>1. Scan!CurrentBounds = [minVolume |-> LiveMinVolume, maxSpread |-> Scan!Smaller(LiveMaxSpread, filters.maxSpread),
          minAtr |-> filters.minAtr, maxAtr |-> Scan!Smaller(LiveMaxAtr, filters.maxAtr)]
    BY <1>3 DEF Scan!CurrentBounds, Scan!Bounds
  <2> QED BY <1>1, <1>2, <2>1, ScanNumbers
<1>4. CASE Scan!ScannerMode(mode) # "live"
  <2>1. Scan!CurrentBounds = filters
    BY <1>4 DEF Scan!CurrentBounds, Scan!Bounds
  <2> QED BY <1>1, <1>4, <2>1
<1> QED BY <1>3, <1>4

LEMMA ScanLimits == ASSUME ScanInv PROVE Scan!LiveNeverMorePermissive
<1> SUFFICES ASSUME NEW i \in Scan!ActiveOnes
             PROVE  LET p == snapshots[i] IN
                    /\ p.volume >= filters.minVolume /\ p.spread <= filters.maxSpread
                    /\ filters.minAtr <= p.atr /\ p.atr <= filters.maxAtr
                    /\ Scan!ScannerMode(mode) = "live" =>
                         p.volume >= LiveMinVolume /\ p.spread <= LiveMaxSpread /\ p.atr <= LiveMaxAtr
  BY DEF Scan!LiveNeverMorePermissive
<1>1. SettingsInv
  BY DEF ScanInv
<1>2. filters.minVolume \in Int /\ filters.maxSpread \in Int /\ filters.minAtr \in Int /\ filters.maxAtr \in Int
      /\ LiveMinVolume \in Int /\ LiveMaxSpread \in Int /\ LiveMaxAtr \in Int
  BY <1>1, ScanNumbers DEF SettingsInv
<1> DEFINE v == cache["volume"][snapshots[i].symbol]
           w == cache["spread"][snapshots[i].symbol]
           l == cache["candles"][snapshots[i].symbol]
           a == Scan!AtrPct(l)
<1>0. /\ v \in Int /\ w \in Int /\ a \in Int
      /\ v = snapshots[i].volume /\ w = snapshots[i].spread /\ a = snapshots[i].atr
      /\ v # Scan!NaN /\ Scan!VolumePasses(Scan!CurrentBounds, v)
      /\ Scan!SpreadPasses(Scan!CurrentBounds, w) /\ Scan!CandlesPass(Scan!CurrentBounds, l)
  BY ActivePassed
<1>3. v \in Int /\ v = snapshots[i].volume /\ v >= Scan!CurrentBounds.minVolume
  BY <1>0 DEF Scan!VolumePasses
<1>4. w \in Int /\ w = snapshots[i].spread /\ w <= Scan!CurrentBounds.maxSpread
  BY <1>0 DEF Scan!SpreadPasses
<1>5. a \in Int /\ a = snapshots[i].atr /\ a >= Scan!CurrentBounds.minAtr /\ a <= Scan!CurrentBounds.maxAtr
  BY <1>0 DEF Scan!CandlesPass
<1> HIDE DEF v, w, a
<1>6. v >= filters.minVolume /\ w <= filters.maxSpread /\ filters.minAtr <= a /\ a <= filters.maxAtr
  BY <1>1, <1>2, <1>3, <1>4, <1>5, BoundsTighten
<1>7. Scan!ScannerMode(mode) = "live" => v >= LiveMinVolume /\ w <= LiveMaxSpread /\ a <= LiveMaxAtr
  BY <1>1, <1>2, <1>3, <1>4, <1>5, BoundsTighten
<1> QED BY <1>3, <1>4, <1>5, <1>6, <1>7

LEMMA ScanOneReading == ASSUME ScanInv PROVE Scan!OneReadingPerPair
<1> DEFINE made(s) ==
             [symbol |-> s, active |-> TRUE, volume |-> cache["volume"][s], spread |-> cache["spread"][s],
              atr |-> Scan!AtrPct(cache["candles"][s]),
              score |-> Scan!RankScore(Scan!ScannerMode(mode), cache["volume"][s], cache["spread"][s],
                          Scan!CurrentBounds.minAtr <= Scan!AtrPct(cache["candles"][s])
                          /\ Scan!AtrPct(cache["candles"][s]) <= Scan!CurrentBounds.maxAtr)]
<1>1. ASSUME NEW k \in Scan!ActiveOnes
      PROVE  snapshots[k] = made(snapshots[k].symbol)
  BY ActivePassed
<1> HIDE DEF made
<1>2. ASSUME NEW i \in Scan!ActiveOnes, NEW j \in Scan!ActiveOnes, snapshots[i].symbol = snapshots[j].symbol
      PROVE  snapshots[i] = snapshots[j]
  BY <1>1, <1>2
<1> QED BY <1>2 DEF Scan!OneReadingPerPair

LEMMA ScanScores == ASSUME ScanInv PROVE Scan!ScoresBounded
<1> SUFFICES ASSUME NEW i \in Scan!ActiveOnes PROVE snapshots[i].score \in 0 .. 1000
  BY DEF Scan!ScoresBounded
<1> DEFINE s == snapshots[i].symbol
           b == Scan!CurrentBounds
           a == Scan!AtrPct(cache["candles"][s])
           inRange == b.minAtr <= a /\ a <= b.maxAtr
           score == Scan!RankScore(Scan!ScannerMode(mode), cache["volume"][s], cache["spread"][s], inRange)
<1>1. cache["volume"][s] \in Int /\ cache["spread"][s] \in Int
  BY ActivePassed
<1>4. snapshots[i] = [symbol |-> s, active |-> TRUE, volume |-> cache["volume"][s],
                      spread |-> cache["spread"][s], atr |-> a, score |-> score]
  BY ActivePassed
<1> HIDE DEF score
<1>5. snapshots[i].score = score
  BY <1>4
<1>2. inRange \in BOOLEAN
  OBVIOUS
<1> HIDE DEF inRange, s
<1>3. score \in Int /\ score >= 0 /\ score <= 1000
  BY <1>1, <1>2, ScoreBounded DEF score
<1> QED BY <1>3, <1>5

LEMMA ScanInvSafe == ScanInv => Scan!Safe
BY ScanPairs, ScanLimits, ScanOneReading, ScanScores DEF Scan!Safe

---------------------------------------------------------------------------
(* The candle feed                                                         *)

\* Multiples of a positive number are in the order of their factors.
LEMMA MultiplesOrdered ==
  ASSUME NEW s \in Nat, s > 0, NEW a \in Int, NEW b \in Int, a * s <= b * s
  PROVE  a <= b
<1> SUFFICES ASSUME b + 1 <= a PROVE FALSE
  OBVIOUS
<1> DEFINE d == a - b
<1>1. d \in Nat /\ d >= 1 /\ a = b + d
  OBVIOUS
<1> HIDE DEF d
<1>2. a * s = b * s + d * s
  BY <1>1
<1>3. d * s >= s
  BY <1>1
<1> DEFINE x == b * s
           y == d * s
<1>4. x \in Int /\ y \in Int /\ y >= s /\ x + y <= x
  BY <1>1, <1>2, <1>3
<1> HIDE DEF x, y
<1> QED BY <1>4

\* A bar opens at or before its instant, and less than a period before it.
LEMMA OpensBefore ==
  ASSUME NEW s \in Nat, s > 0, NEW t \in Nat
  PROVE  (t \div s) \in Nat /\ (t \div s) * s <= t /\ t < (t \div s + 1) * s
<1>1. (t \div s) \in Int /\ (t % s) \in 0 .. s - 1 /\ t = s * (t \div s) + (t % s)
  OBVIOUS
<1> DEFINE q == t \div s
           r == (t % s)
<1>2. q \in Int /\ r \in Int /\ t = s * q + r /\ 0 <= r /\ r < s
  BY <1>1
<1> HIDE DEF q, r
<1>3. q * s <= t /\ t < (q + 1) * s
  BY <1>2
<1>4. q \in Nat
  <2> SUFFICES ASSUME q + 1 <= 0 PROVE FALSE
    BY <1>2
  <2>1. (q + 1) * s <= 0
    <3> DEFINE d == -(q + 1)
    <3>1. d \in Nat /\ q + 1 = -d
      BY <1>2
    <3>2. d * s >= 0
      BY <3>1
    <3> QED BY <3>1, <3>2
  <2> QED BY <1>2, <1>3, <2>1
<1> QED BY <1>3, <1>4 DEF q

\* An opening among the last ones before an instant is not older than so many periods.
LEMMA OpensWithin ==
  ASSUME NEW s \in Nat, s > 0, NEW t \in Nat, NEW limit \in Nat, NEW k \in 0 .. limit - 1
  PROVE  LET o == (t \div s - k) * s IN o \in Int /\ o <= t /\ o > t - limit * s
<1> DEFINE q == t \div s
<1>1. q \in Nat /\ q * s <= t /\ t < (q + 1) * s
  BY OpensBefore
<1> HIDE DEF q
<1>2. (q - k) * s = q * s - k * s /\ (q + 1) * s = q * s + s
  <2>1. k \in Int /\ q \in Int
    BY <1>1
  <2> QED BY <2>1
<1>3. 0 <= k * s /\ k * s + s <= limit * s
  <2>1. k + 1 <= limit
    OBVIOUS
  <2>2. (k + 1) * s <= limit * s
    <3> DEFINE d == limit - (k + 1)
    <3>1. d \in Nat /\ limit = k + 1 + d
      BY <2>1
    <3> HIDE DEF d
    <3>2. limit * s = (k + 1) * s + d * s /\ d * s >= 0
      BY <3>1
    <3> QED BY <3>1, <3>2
  <2> QED BY <2>2
<1> DEFINE x == q * s
           y == k * s
           z == limit * s
<1>4. x \in Int /\ y \in Int /\ z \in Int /\ x <= t /\ t < x + s /\ 0 <= y /\ y + s <= z
  BY <1>1, <1>2, <1>3
<1> HIDE DEF x, y, z
<1>5. x - y \in Int /\ x - y <= t /\ x - y > t - z
  BY <1>4
<1> QED BY <1>2, <1>5 DEF x, y, z, q

\* A closed bar that a pull reached is one of the bars pulled.
LEMMA ReachedIsPulled ==
  ASSUME NEW s \in Nat, s > 0, NEW a \in Int, NEW n \in Nat, NEW limit \in Nat,
         a * s + s <= n, a * s >= (n \div s - (limit - 1)) * s
  PROVE  \E k \in 0 .. limit - 1 : a * s = (n \div s - k) * s
<1> DEFINE q == n \div s
<1>1. q \in Nat /\ q * s <= n /\ n < (q + 1) * s
  BY OpensBefore
<1>2. a * s >= (q - (limit - 1)) * s
  OBVIOUS
<1> HIDE DEF q
<1>3. q - (limit - 1) <= a
  <2> DEFINE b == q - (limit - 1)
  <2>1. b \in Int /\ b * s <= a * s
    BY <1>1, <1>2
  <2> HIDE DEF b
  <2>2. b <= a
    BY <2>1, MultiplesOrdered
  <2> QED BY <2>2 DEF b
<1>4. a <= q
  <2>1. a * s <= q * s
    <3> DEFINE x == a * s
               y == q * s
    <3>1. x \in Int /\ y \in Int /\ x + s <= n /\ n < y + s
      BY <1>1
    <3> HIDE DEF x, y
    <3>2. x <= y
      BY <3>1
    <3> QED BY <3>2 DEF x, y
  <2> QED BY <1>1, <2>1, MultiplesOrdered
<1>5. q - a \in 0 .. limit - 1 /\ q - (q - a) = a
  BY <1>1, <1>3, <1>4
<1> QED BY <1>5 DEF q
---------------------------------------------------------------------------
(* The candle feed                                                         *)

\* The timeframes there are and their seconds.
LEMMA FrameSeconds ==
  ASSUME NEW tf \in DOMAIN Feed!Seconds
  PROVE  \/ tf = "1m" /\ Feed!Seconds[tf] = 60
         \/ tf = "2m" /\ Feed!Seconds[tf] = 120
         \/ tf = "3m" /\ Feed!Seconds[tf] = 180
         \/ tf = "5m" /\ Feed!Seconds[tf] = 300
         \/ tf = "10m" /\ Feed!Seconds[tf] = 600
         \/ tf = "15m" /\ Feed!Seconds[tf] = 900
         \/ tf = "30m" /\ Feed!Seconds[tf] = 1800
         \/ tf = "1h" /\ Feed!Seconds[tf] = 3600
         \/ tf = "4h" /\ Feed!Seconds[tf] = 14400
         \/ tf = "1d" /\ Feed!Seconds[tf] = 86400
<1>1. tf \in {"1m", "2m", "3m", "5m", "10m", "15m", "30m", "1h", "4h", "1d"}
  BY DEF Feed!Seconds
<1>2. /\ Feed!Seconds["1m"] = 60 /\ Feed!Seconds["2m"] = 120 /\ Feed!Seconds["3m"] = 180
      /\ Feed!Seconds["5m"] = 300 /\ Feed!Seconds["10m"] = 600 /\ Feed!Seconds["15m"] = 900
      /\ Feed!Seconds["30m"] = 1800 /\ Feed!Seconds["1h"] = 3600 /\ Feed!Seconds["4h"] = 14400
      /\ Feed!Seconds["1d"] = 86400
  BY DEF Feed!Seconds
<1> QED BY <1>1, <1>2

LEMMA FeedNumbers ==
  /\ {Origin, FeedTime, FetchLimit, MaxPulls, MsThreshold} \subseteq Nat
  /\ Origin <= FeedTime /\ FeedTime <= MsThreshold
  /\ FeedSteps \subseteq Nat
  /\ \A tf \in Pulled :
       /\ tf \in DOMAIN Feed!Seconds
       /\ Feed!Seconds[tf] \in Nat /\ Feed!Seconds[tf] > 0
       /\ MsThreshold < (Origin - FetchLimit * Feed!Seconds[tf]) * 1000
<1>1. \A tf \in DOMAIN Feed!Seconds : Feed!Seconds[tf] \in Nat /\ Feed!Seconds[tf] > 0
  <2> SUFFICES ASSUME NEW tf \in DOMAIN Feed!Seconds PROVE Feed!Seconds[tf] \in Nat /\ Feed!Seconds[tf] > 0
    OBVIOUS
  <2>1. Feed!Seconds[tf] \in {60, 120, 180, 300, 600, 900, 1800, 3600, 14400, 86400}
    BY FrameSeconds
  <2> QED BY <2>1
<1>2. Feed!FeedAssumption
  BY ReadingsAssumption DEF ReadingsAssumption
<1>3. /\ {Origin, FeedTime, FetchLimit, MaxPulls, MsThreshold} \subseteq Nat
      /\ Origin <= FeedTime /\ FeedTime <= MsThreshold
      /\ FeedSteps \subseteq Nat /\ Pulled \subseteq DOMAIN Feed!Seconds
  BY <1>2 DEF Feed!FeedAssumption
<1>4. \A tf \in Pulled : MsThreshold < (Origin - FetchLimit * Feed!Seconds[tf]) * 1000
  BY <1>2 DEF Feed!FeedAssumption
<1> QED BY <1>1, <1>3, <1>4

\* What a bar may open at: at most Limit bars before an instant of the run.
RowSound(r, at, u) ==
  /\ r.tf \in Pulled /\ r.upto \in Int /\ r.upto <= at
  /\ \E t \in Origin .. at, k \in 0 .. FetchLimit - 1 : r.ts = Feed!OpenOf(r.tf, t, k) * u

TableInv ==
  /\ IsFiniteSet(table)
  /\ \A r \in table : RowSound(r, now, unit)
  /\ \A r, s \in table : r.ts = s.ts => r = s

AnswerInv ==
  answer # <<>> =>
    /\ Feed!Asked \in Pulled /\ answer[3] \in Origin .. now
    /\ DOMAIN Feed!Rows = 1 .. Len(Feed!Rows) /\ Len(Feed!Rows) \in Nat
    /\ \A i \in DOMAIN Feed!Rows : RowSound(Feed!Rows[i], now, unit)
    /\ \A i \in 1 .. Len(Feed!Rows) - 1 : Feed!Rows[i].ts > Feed!Rows[i + 1].ts

FeedInv ==
  /\ unit \in {1, 1000} /\ now \in Origin .. FeedTime /\ pulls \in 0 .. MaxPulls
  /\ TableInv /\ AnswerInv /\ Feed!CompleteMeansFinal

LEMMA InitFeed == Feed!Init => FeedInv
<1> SUFFICES ASSUME Feed!Init PROVE FeedInv
  OBVIOUS
<1>1. /\ unit \in {1, 1000} /\ now = Origin /\ pulls = 0 /\ table = {} /\ answer = <<>>
  BY DEF Feed!Init
<1>2. Origin \in Origin .. FeedTime
  BY FeedNumbers
<1>3. IsFiniteSet(table)
  BY <1>1, FS_EmptySet
<1> QED BY <1>1, <1>2, <1>3, FeedNumbers DEF FeedInv, TableInv, AnswerInv, Feed!CompleteMeansFinal

\* A row opens at a multiple of its period, after the threshold when the stamp
\* counts milliseconds and not after now.
LEMMA Stamped ==
  ASSUME unit \in {1, 1000}, now \in Origin .. FeedTime, NEW r, RowSound(r, now, unit)
  PROVE  LET s == Feed!Seconds[r.tf] IN
         /\ s \in Nat /\ s > 0
         /\ \E a \in Int : /\ r.ts = (a * s) * unit /\ a * s \in Nat /\ a * s <= now
                         /\ MsThreshold < (a * s) * 1000
<1> DEFINE s == Feed!Seconds[r.tf]
<1>1. s \in Nat /\ s > 0 /\ r.tf \in Pulled /\ MsThreshold < (Origin - FetchLimit * s) * 1000
  BY FeedNumbers DEF RowSound
<1>2. FetchLimit \in Nat /\ Origin \in Nat /\ now \in Nat /\ MsThreshold \in Nat
  BY FeedNumbers
<1>3. PICK t \in Origin .. now : \E k \in 0 .. FetchLimit - 1 : r.ts = Feed!OpenOf(r.tf, t, k) * unit
  BY DEF RowSound
<1>4. PICK k \in 0 .. FetchLimit - 1 : r.ts = Feed!OpenOf(r.tf, t, k) * unit
  BY <1>3
<1> HIDE DEF s
<1>5. t \in Nat /\ t >= Origin /\ t <= now
  BY <1>2
<1>6. (t \div s) \in Nat
  BY <1>1, <1>5, OpensBefore
<1>7. PICK a \in Int : a = t \div s - k
  BY <1>2, <1>6
<1>8. PICK o \in Int : o = a * s
  BY <1>1
<1>9. o <= t /\ o > t - FetchLimit * s
  BY <1>1, <1>2, <1>5, <1>7, <1>8, OpensWithin
<1>10. r.ts = o * unit
  BY <1>4, <1>7, <1>8 DEF Feed!OpenOf, s
<1>11. PICK back \in Int : back = FetchLimit * s
  BY <1>1, <1>2
<1>12. o \in Nat /\ o <= now /\ MsThreshold < o * 1000
  BY <1>1, <1>2, <1>5, <1>9, <1>11
<1> QED BY <1>1, <1>8, <1>10, <1>12 DEF s

\* The seconds a caller makes of a row's stamp are those it opens at.
LEMMA StampInSeconds ==
  ASSUME unit \in {1, 1000}, now \in Origin .. FeedTime, NEW o \in Nat, o <= now,
         MsThreshold < o * 1000
  PROVE  Feed!ToSeconds(o * unit) = o /\ (o * unit) \div unit = o
<1>1. now \in Nat /\ MsThreshold \in Nat /\ now <= MsThreshold
  BY FeedNumbers
<1>2. CASE unit = 1
  <2>1. o * unit = o /\ o \div 1 = o /\ ~(o > MsThreshold)
    BY <1>1, <1>2
  <2> QED BY <1>2, <2>1 DEF Feed!ToSeconds
<1>3. CASE unit = 1000
  <2>1. (o * 1000) \div 1000 = o /\ o * 1000 > MsThreshold
    BY <1>1
  <2> QED BY <1>3, <2>1 DEF Feed!ToSeconds
<1> QED BY <1>2, <1>3

\* The rows read back are rows of the store, from the newest on.
LEMMA NewestRows ==
  ASSUME NEW all, IsFiniteSet(all), \A r \in all : r.ts \in Int,
         \A r, s \in all : r.ts = s.ts => r = s
  PROVE  LET n == Feed!Newest(all) IN
         /\ Len(n) \in Nat /\ DOMAIN n = 1 .. Len(n)
         /\ \A i \in DOMAIN n : n[i] \in all
         /\ \A i \in 1 .. Len(n) - 1 : n[i].ts > n[i + 1].ts
<1> DEFINE v == [r \in all |-> r.ts]
           rank(r) == Cardinality({x \in all : v[x] > v[r]})
           newer(r) == Cardinality({x \in all : x.ts > r.ts})
           size == Feed!Smaller(FetchLimit, Cardinality(all))
           n == Feed!Newest(all)
<1>1. /\ Cardinality(all) \in Nat
      /\ \A r \in all : rank(r) \in Nat
      /\ \A i \in 1 .. Cardinality(all) : \E r \in all : rank(r) = i - 1
      /\ \A r, x \in all : rank(r) < rank(x) => v[r] > v[x]
  <2> HIDE DEF rank, v
  <2>1. /\ \A r \in all : v[r] \in Int
        /\ \A r, x \in all : v[r] = v[x] => r = x
    BY DEF v
  <2>2. IsFiniteSet(all)
    OBVIOUS
  <2>3. \A r, x \in all : v[r] = v[x] => r = x
    BY <2>1
  <2> DEFINE up(r) == Cardinality({x \in all : v[x] > v[r]})
  <2>4. /\ Cardinality(all) \in Nat
        /\ \A r \in all : up(r) \in Nat
        /\ \A i \in 1 .. Cardinality(all) : \E r \in all : up(r) = i - 1
        /\ \A r, x \in all : up(r) < up(x) => v[r] > v[x]
        /\ \A r, x \in all : v[r] > v[x] => up(r) < up(x)
    BY <2>1, <2>2, <2>3, Ranked
  <2> QED BY <2>4, Zenon DEF rank
<1>2. \A r \in all : newer(r) = rank(r)
  <2> SUFFICES ASSUME NEW r \in all PROVE newer(r) = rank(r)
    OBVIOUS
  <2>1. {x \in all : x.ts > r.ts} = {x \in all : v[x] > v[r]}
    OBVIOUS
  <2> QED BY <2>1, Zenon
<1>3. size \in Nat /\ size <= Cardinality(all)
  BY <1>1, FeedNumbers DEF Feed!Smaller
<1>4. n = [i \in 1 .. size |-> CHOOSE r \in all : newer(r) = i - 1]
  BY Zenon DEF Feed!Newest, Feed!Cardinality, Cardinality
<1> HIDE DEF newer, rank, size, n
<1>5. ASSUME NEW i \in 1 .. size
      PROVE  n[i] \in all /\ rank(n[i]) = i - 1
  <2>1. i \in 1 .. Cardinality(all)
    BY <1>1, <1>3
  <2>2. \E r \in all : newer(r) = i - 1
    BY <1>1, <1>2, <2>1
  <2>3. n[i] = CHOOSE r \in all : newer(r) = i - 1
    BY <1>4
  <2>4. n[i] \in all /\ newer(n[i]) = i - 1
    BY <2>2, <2>3
  <2> QED BY <1>2, <2>4
<1>6. n \in Seq(all) /\ Len(n) = size /\ DOMAIN n = 1 .. size
  <2>1. n \in [1 .. size -> all]
    BY <1>4, <1>5
  <2> QED BY <1>3, <2>1
<1>7. ASSUME NEW i \in 1 .. Len(n) - 1
      PROVE  n[i].ts > n[i + 1].ts
  <2>1. i \in 1 .. size /\ i + 1 \in 1 .. size
    BY <1>3, <1>6
  <2>2. n[i] \in all /\ rank(n[i]) = i - 1
    BY <1>5, <2>1
  <2>3. n[i + 1] \in all /\ rank(n[i + 1]) = i
    <3> DEFINE j == i + 1
    <3>1. j \in 1 .. size /\ j - 1 = i
      BY <2>1
    <3> HIDE DEF j
    <3>2. n[j] \in all /\ rank(n[j]) = i
      BY <1>5, <3>1
    <3> QED BY <3>2 DEF j
  <2>4. v[n[i]] > v[n[i + 1]]
    BY <1>1, <2>2, <2>3
  <2> QED BY <2>2, <2>3, <2>4
<1> QED BY <1>3, <1>5, <1>6, <1>7 DEF n

\* The bar of a timeframe that opens at a time.
BarAt(tf, o) ==
  [ts |-> o * unit, tf |-> tf, upto |-> Feed!Smaller(now, o + Feed!Seconds[tf])]

\* What a pull brings: finitely many sound bars, one for each time, of which
\* those that are over hold their whole period, and every one it reached.
LEMMA Pulls ==
  ASSUME unit \in {1, 1000}, now \in Origin .. FeedTime, NEW tf \in Pulled
  PROVE  LET latest == Feed!Latest(tf) IN
         /\ IsFiniteSet(latest)
         /\ \A l \in latest : RowSound(l, now, unit) /\ l.tf = tf
         /\ \A l, m \in latest : l.ts = m.ts => l = m
         /\ \A l \in latest, o \in Nat :
              l.ts = o * unit /\ o + Feed!Seconds[tf] <= now => l.upto = o + Feed!Seconds[tf]
         /\ \A a \in Int : /\ a * Feed!Seconds[tf] + Feed!Seconds[tf] <= now
                         /\ a * Feed!Seconds[tf] >= Feed!OpenOf(tf, now, FetchLimit - 1)
              => \E l \in latest : l.ts = (a * Feed!Seconds[tf]) * unit
<1> DEFINE s == Feed!Seconds[tf]
           latest == Feed!Latest(tf)
           open == [k \in 0 .. FetchLimit - 1 |-> Feed!OpenOf(tf, now, k)]
           bar == [k \in 0 .. FetchLimit - 1 |-> BarAt(tf, open[k])]
<1>1. s \in Nat /\ s > 0 /\ FetchLimit \in Nat /\ Origin \in Nat /\ now \in Nat
  BY FeedNumbers
<1>2. latest = {bar[k] : k \in 0 .. FetchLimit - 1}
  BY DEF Feed!Latest, BarAt
<1>3. \A k \in 0 .. FetchLimit - 1 : open[k] = (now \div s - k) * s
  BY DEF Feed!OpenOf
<1>4. \A k \in 0 .. FetchLimit - 1 : open[k] = Feed!OpenOf(tf, now, k) /\ bar[k] = BarAt(tf, open[k])
  OBVIOUS
<1> HIDE DEF s, open, bar
<1>5. ASSUME NEW k \in 0 .. FetchLimit - 1
      PROVE  open[k] \in Int /\ open[k] <= now
  BY <1>1, <1>3, OpensWithin
<1>6. IsFiniteSet(latest)
  <2> DEFINE ks == 0 .. FetchLimit - 1
  <2>1. IsFiniteSet(ks)
    BY <1>1, FS_Interval
  <2>2. latest = {bar[k] : k \in ks}
    BY <1>2
  <2> HIDE DEF ks, latest
  <2>3. IsFiniteSet({bar[k] : k \in ks})
    BY <2>1, ImageFinite
  <2> QED BY <2>2, <2>3
<1> HIDE DEF latest
<1>7. ASSUME NEW l \in latest
      PROVE  \E k \in 0 .. FetchLimit - 1 :
               /\ open[k] \in Int /\ open[k] <= now /\ open[k] = Feed!OpenOf(tf, now, k)
               /\ l = BarAt(tf, open[k])
  BY <1>2, <1>4, <1>5
<1>8. ASSUME NEW o \in Int
      PROVE  /\ BarAt(tf, o).ts = o * unit /\ BarAt(tf, o).tf = tf
             /\ BarAt(tf, o).upto \in Int /\ BarAt(tf, o).upto <= now
             /\ o + s <= now => BarAt(tf, o).upto = o + s
  BY <1>1 DEF BarAt, Feed!Smaller, s
<1>9. ASSUME NEW l \in latest
      PROVE  RowSound(l, now, unit) /\ l.tf = tf
  <2>1. PICK k \in 0 .. FetchLimit - 1 :
          /\ open[k] \in Int /\ open[k] <= now /\ open[k] = Feed!OpenOf(tf, now, k)
          /\ l = BarAt(tf, open[k])
    BY <1>7
  <2>4. PICK o \in Int : o = open[k]
    BY <2>1
  <2>5. l = BarAt(tf, o) /\ o = Feed!OpenOf(tf, now, k)
    BY <2>1, <2>4
  <2>2. l.tf = tf /\ l.upto \in Int /\ l.upto <= now /\ l.ts = Feed!OpenOf(l.tf, now, k) * unit
    <3>1. /\ BarAt(tf, o).ts = o * unit /\ BarAt(tf, o).tf = tf
          /\ BarAt(tf, o).upto \in Int /\ BarAt(tf, o).upto <= now
      BY <1>8
    <3> QED BY <2>5, <3>1
  <2>3. now \in Origin .. now
    BY <1>1
  <2> QED BY <2>2, <2>3 DEF RowSound
<1>10. \A o, p \in Int : o * unit = p * unit => o = p
  OBVIOUS
<1>11. ASSUME NEW l \in latest, NEW m \in latest, l.ts = m.ts
       PROVE  l = m
  <2>1. PICK k \in 0 .. FetchLimit - 1 : open[k] \in Int /\ l = BarAt(tf, open[k])
    BY <1>7
  <2>2. PICK j \in 0 .. FetchLimit - 1 : open[j] \in Int /\ m = BarAt(tf, open[j])
    BY <1>7
  <2>3. open[k] * unit = open[j] * unit
    BY <1>8, <1>11, <2>1, <2>2
  <2>4. open[k] = open[j]
    BY <1>10, <2>1, <2>2, <2>3
  <2> QED BY <2>1, <2>2, <2>4
<1>12. ASSUME NEW l \in latest, NEW o \in Nat, l.ts = o * unit, o + s <= now
       PROVE  l.upto = o + s
  <2>1. PICK k \in 0 .. FetchLimit - 1 : open[k] \in Int /\ l = BarAt(tf, open[k])
    BY <1>7
  <2>2. open[k] * unit = o * unit
    BY <1>8, <1>12, <2>1
  <2>3. open[k] = o
    BY <1>10, <2>1, <2>2
  <2>4. o \in Int /\ l = BarAt(tf, o)
    BY <2>1, <2>3
  <2> HIDE DEF open, bar
  <2>5. BarAt(tf, o).upto = o + s
    BY <1>8, <1>12, <2>4
  <2> QED BY <2>4, <2>5
<1>13. ASSUME NEW a \in Int, a * s + s <= now, a * s >= Feed!OpenOf(tf, now, FetchLimit - 1)
       PROVE  \E l \in latest : l.ts = (a * s) * unit
  <2>1. a * s >= (now \div s - (FetchLimit - 1)) * s
    BY <1>13 DEF Feed!OpenOf, s
  <2>2. PICK k \in 0 .. FetchLimit - 1 : a * s = (now \div s - k) * s
    BY <1>1, <1>13, <2>1, ReachedIsPulled
  <2>3. open[k] = a * s
    BY <1>3, <2>2
  <2>5. PICK o \in Int : o = open[k]
    BY <1>5
  <2>6. bar[k] = BarAt(tf, o)
    BY <1>4, <2>5
  <2>4. bar[k] \in latest /\ bar[k].ts = (a * s) * unit
    <3>1. bar[k] \in latest
      BY <1>2 DEF latest
    <3>2. BarAt(tf, o).ts = o * unit
      BY <1>8
    <3> QED BY <2>3, <2>5, <2>6, <3>1, <3>2
  <2> QED BY <2>4
<1> QED BY <1>6, <1>9, <1>11, <1>12, <1>13 DEF s, latest

LEMMA FeedStepKeeps ==
  ASSUME FeedInv, [Feed!Next]_feedVars
  PROVE  FeedInv'
<1>1. CASE UNCHANGED feedVars
  <2>1. UNCHANGED <<unit, now, pulls, table, answer, dropped>>
    BY <1>1 DEF feedVars
  <2>2. TableInv'
    BY <2>1 DEF FeedInv, TableInv
  <2>3. AnswerInv'
    BY <2>1 DEF FeedInv, AnswerInv, Feed!Rows, Feed!Asked
  <2>4. Feed!CompleteMeansFinal'
    BY <2>1 DEF FeedInv, Feed!CompleteMeansFinal, Feed!Rows, Feed!Asked
  <2> QED BY <2>1, <2>2, <2>3, <2>4 DEF FeedInv
<1>2. ASSUME NEW step \in FeedSteps, Feed!Advance(step)
      PROVE  FeedInv'
  <2>1. now' = now + step /\ now + step <= FeedTime /\ UNCHANGED <<unit, pulls, table, answer, dropped>>
    BY <1>2 DEF Feed!Advance
  <2>2. step \in Nat /\ Origin \in Nat /\ now \in Nat /\ now' \in Origin .. FeedTime
    BY <2>1, FeedNumbers DEF FeedInv
  <2>3. \A t \in Origin .. now : t \in Origin .. now'
    BY <2>1, <2>2
  <2>4. ASSUME NEW r, RowSound(r, now, unit)
        PROVE  RowSound(r, now', unit')
    <3>1. r.tf \in Pulled /\ r.upto \in Int /\ r.upto <= now'
      BY <2>1, <2>2, <2>4 DEF RowSound
    <3>2. \E t \in Origin .. now', k \in 0 .. FetchLimit - 1 : r.ts = Feed!OpenOf(r.tf, t, k) * unit'
      BY <2>1, <2>3, <2>4 DEF RowSound
    <3> QED BY <3>1, <3>2 DEF RowSound
  <2>5. TableInv'
    BY <2>1, <2>4 DEF FeedInv, TableInv
  <2>6. AnswerInv'
    BY <2>1, <2>3, <2>4 DEF FeedInv, AnswerInv, Feed!Rows, Feed!Asked
  <2>7. Feed!CompleteMeansFinal'
    BY <2>1 DEF FeedInv, Feed!CompleteMeansFinal, Feed!Rows, Feed!Asked
  <2> QED BY <2>1, <2>2, <2>5, <2>6, <2>7 DEF FeedInv
<1>3. ASSUME NEW tf \in Pulled, NEW corrupt, Feed!FetchAndCache(tf, corrupt)
      PROVE  FeedInv'
  <2> DEFINE latest == Feed!Latest(tf)
             cleaned == {r \in latest : r.ts \notin corrupt}
             new == Feed!Upsert(cleaned)
             s == Feed!Seconds[tf]
  <2>1. /\ pulls < MaxPulls /\ pulls' = pulls + 1 /\ UNCHANGED <<unit, now>>
        /\ table' = new /\ answer' = <<tf, Feed!Newest(new), now>>
        /\ dropped' = (dropped \ {<<r.ts, tf>> : r \in latest}) \cup {<<ts, tf>> : ts \in corrupt}
    BY <1>3 DEF Feed!FetchAndCache
  <2>2. /\ unit \in {1, 1000} /\ now \in Origin .. FeedTime /\ pulls \in 0 .. MaxPulls /\ now \in Nat
        /\ s \in Nat /\ s > 0 /\ MaxPulls \in Nat /\ Origin \in Nat
    BY FeedNumbers DEF FeedInv
  <2>3. /\ IsFiniteSet(latest)
        /\ \A l \in latest : RowSound(l, now, unit) /\ l.tf = tf
        /\ \A l, m \in latest : l.ts = m.ts => l = m
        /\ \A l \in latest, o \in Nat : l.ts = o * unit /\ o + s <= now => l.upto = o + s
        /\ \A a \in Int : a * s + s <= now /\ a * s >= Feed!OpenOf(tf, now, FetchLimit - 1)
             => \E l \in latest : l.ts = (a * s) * unit
    BY <2>2, Pulls
  <2>4. new = {r \in table : ~\E c \in cleaned : c.ts = r.ts} \cup cleaned
    BY DEF Feed!Upsert
  <2> HIDE DEF latest, new, s
  <2>5. IsFiniteSet(new)
    <3>1. IsFiniteSet(cleaned)
      BY <2>3, FS_Subset
    <3>2. IsFiniteSet({r \in table : ~\E c \in cleaned : c.ts = r.ts})
      BY FS_Subset DEF FeedInv, TableInv
    <3> QED BY <2>4, <3>1, <3>2, FS_Union
  <2>6. \A r \in new : RowSound(r, now, unit)
    BY <2>3, <2>4 DEF FeedInv, TableInv
  <2>7. \A r, x \in new : r.ts = x.ts => r = x
    BY <2>3, <2>4 DEF FeedInv, TableInv
  <2>8. \A r \in new : r.ts \in Int
    <3> SUFFICES ASSUME NEW r \in new PROVE r.ts \in Int
      OBVIOUS
    <3>1. PICK a \in Int : r.ts = (a * Feed!Seconds[r.tf]) * unit /\ a * Feed!Seconds[r.tf] \in Nat
      BY <2>2, <2>6, Stamped
    <3> QED BY <2>2, <3>1
  <2> DEFINE n == Feed!Newest(new)
  <2>9. /\ Len(n) \in Nat /\ DOMAIN n = 1 .. Len(n)
        /\ \A i \in DOMAIN n : n[i] \in new
        /\ \A i \in 1 .. Len(n) - 1 : n[i].ts > n[i + 1].ts
    BY <2>5, <2>7, <2>8, NewestRows
  <2>10. \A r : RowSound(r, now, unit) => RowSound(r, now', unit')
    BY <2>1
  <2>11. TableInv'
    BY <2>1, <2>5, <2>6, <2>7, <2>10 DEF TableInv
  <2> HIDE DEF n
  <2>12. answer' # <<>> /\ answer'[1] = tf /\ answer'[2] = n /\ answer'[3] = now
    BY <2>1 DEF n
  <2>13. AnswerInv'
    <3>1. Feed!Asked' = tf /\ Feed!Rows' = n
      BY <2>12 DEF Feed!Asked, Feed!Rows
    <3>2. now \in Origin .. now'
      BY <2>1, <2>2
    <3>3. \A i \in DOMAIN n : RowSound(n[i], now', unit')
      BY <2>6, <2>9, <2>10
    <3> QED BY <2>9, <2>12, <3>1, <3>2, <3>3 DEF AnswerInv
  <2>14. ASSUME NEW r \in new, r.tf = tf, r.ts \div unit + s <= now, r.upto < r.ts \div unit + s
         PROVE  <<r.ts, tf>> \in dropped' \/ r.ts < Feed!OpenOf(tf, now, FetchLimit - 1) * unit
    <3>1. PICK a \in Int : /\ r.ts = (a * s) * unit /\ a * s \in Nat /\ a * s <= now
                           /\ MsThreshold < (a * s) * 1000
      BY <2>2, <2>6, <2>14, Stamped DEF s
    <3>2. PICK o \in Nat : o = a * s
      BY <3>1
    <3>3. r.ts \div unit = o
      BY <2>2, <3>1, <3>2, StampInSeconds
    <3>4. r \notin cleaned
      BY <2>2, <2>3, <2>14, <3>1, <3>2, <3>3
    <3>5. ASSUME a * s >= Feed!OpenOf(tf, now, FetchLimit - 1)
          PROVE  <<r.ts, tf>> \in dropped'
      <4>1. PICK l \in latest : l.ts = r.ts
        BY <2>3, <2>14, <3>1, <3>2, <3>3, <3>5
      <4>2. l.ts \in corrupt
        BY <2>4, <2>14, <3>4, <4>1
      <4> QED BY <2>1, <4>1, <4>2
    <3>6. ASSUME ~(a * s >= Feed!OpenOf(tf, now, FetchLimit - 1))
          PROVE  r.ts < Feed!OpenOf(tf, now, FetchLimit - 1) * unit
      <4>1. PICK first \in Int : first = Feed!OpenOf(tf, now, FetchLimit - 1)
        <5>1. (now \div s) \in Nat /\ FetchLimit \in Nat
          BY <2>2, OpensBefore, FeedNumbers
        <5>2. (now \div s - (FetchLimit - 1)) * s \in Int
          BY <2>2, <5>1
        <5> QED BY <5>2 DEF Feed!OpenOf, s
      <4>2. o < first /\ r.ts = o * unit
        BY <3>1, <3>2, <3>6, <4>1
      <4> QED BY <2>2, <4>1, <4>2
    <3> QED BY <3>5, <3>6
  <2>15. Feed!CompleteMeansFinal'
    <3>1. Feed!Asked' = tf /\ Feed!Rows' = n /\ unit' = unit
      BY <2>1, <2>12 DEF Feed!Asked, Feed!Rows
    <3>2. ASSUME NEW i \in DOMAIN n, n[i].tf = tf, n[i].ts \div unit + s <= now,
                 n[i].upto < n[i].ts \div unit + s
          PROVE  <<n[i].ts, tf>> \in dropped' \/ n[i].ts < Feed!OpenOf(tf, now, FetchLimit - 1) * unit
      BY <2>9, <2>14, <3>2
    <3> QED BY <2>12, <3>1, <3>2 DEF Feed!CompleteMeansFinal, s
  <2>16. pulls' \in 0 .. MaxPulls
    BY <2>1, <2>2
  <2> QED BY <2>1, <2>2, <2>11, <2>13, <2>15, <2>16 DEF FeedInv
<1> QED BY <1>1, <1>2, <1>3 DEF Feed!Next

\* The median of equal steps is that step.
LEMMA MedianOfEqual ==
  ASSUME NEW list, Len(list) \in Nat, Len(list) >= 2, NEW c \in Int,
         \A i \in 1 .. Len(list) - 1 : list[i + 1].ts - list[i].ts = c
  PROVE  Feed!MedianStep(list) = IF c > 100000 THEN c \div 1000 ELSE c
<1> DEFINE steps == [i \in 1 .. Len(list) - 1 |-> list[i + 1].ts - list[i].ts]
           middle == (Len(list) - 1) \div 2
           isMedian(m) == /\ Cardinality({i \in DOMAIN steps : steps[i] < m}) <= middle
                          /\ Cardinality({i \in DOMAIN steps : steps[i] <= m}) > middle
           median == CHOOSE m \in {steps[i] : i \in DOMAIN steps} : isMedian(m)
<1>1. DOMAIN steps = 1 .. Len(list) - 1 /\ \A i \in DOMAIN steps : steps[i] = c
  OBVIOUS
<1>2. 1 \in DOMAIN steps
  OBVIOUS
<1>3. Feed!MedianStep(list) = IF median > 100000 THEN median \div 1000 ELSE median
  BY DEF Feed!MedianStep, Feed!Cardinality, Cardinality
<1> HIDE DEF steps
<1>4. {steps[i] : i \in DOMAIN steps} = {c}
  BY <1>1, <1>2
<1>5. isMedian(c)
  <2>1. {i \in DOMAIN steps : steps[i] < c} = {}
    BY <1>1
  <2>2. {i \in DOMAIN steps : steps[i] <= c} = 1 .. Len(list) - 1
    BY <1>1
  <2>3. Cardinality({}) = 0 /\ Cardinality(1 .. Len(list) - 1) = Len(list) - 1
    <3>1. Cardinality({}) = 0
      BY FS_EmptySet
    <3>2. Cardinality(1 .. Len(list) - 1) = Len(list) - 1
      BY FS_Interval
    <3> QED BY <3>1, <3>2
  <2>4. 0 <= middle /\ Len(list) - 1 > middle
    <3>1. \A m \in Nat : m >= 1 => 0 <= m \div 2 /\ m > m \div 2
      OBVIOUS
    <3>2. Len(list) - 1 \in Nat /\ Len(list) - 1 >= 1
      OBVIOUS
    <3> QED BY <3>1, <3>2
  <2>5. Cardinality({i \in DOMAIN steps : steps[i] < c}) = 0
    BY <2>1, <2>3, Zenon
  <2>6. Cardinality({i \in DOMAIN steps : steps[i] <= c}) = Len(list) - 1
    BY <2>2, <2>3, Zenon
  <2> QED BY <2>4, <2>5, <2>6
<1> HIDE DEF isMedian
<1>6. median = c
  BY <1>4, <1>5
<1> HIDE DEF median
<1> QED BY <1>3, <1>6

Lengths == {60, 120, 180, 300, 600, 900, 1800, 3600, 14400, 86400}
MinuteInMs == 60000

\* What the median of a step of so many seconds is taken for, in either unit and
\* either order.
LEMMA StepRead ==
  ASSUME NEW s \in Lengths, NEW c, c = s \/ c = 1000 * s \/ c = -s \/ c = -(1000 * s)
  PROVE  LET m == IF c > 100000 THEN c \div 1000 ELSE c
         IN m \in Int /\ (m = s \/ m < 0 \/ m = MinuteInMs)
<1>0. s \in Nat /\ s >= 60 /\ s <= 86400
  BY DEF Lengths
<1>1. CASE c = s
  BY <1>0, <1>1
<1>2. CASE c = 1000 * s /\ s # 60
  <2>1. s >= 120
    BY <1>2 DEF Lengths
  <2>2. c > 100000 /\ c \div 1000 = s
    BY <1>0, <1>2, <2>1
  <2> QED BY <1>0, <2>2
<1>3. CASE c = 1000 * s /\ s = 60
  BY <1>3 DEF MinuteInMs
<1>4. CASE c = -s \/ c = -(1000 * s)
  BY <1>0, <1>4
<1> QED BY <1>1, <1>2, <1>3, <1>4

\* The lengths of the timeframes are so far apart that a step of one of them,
\* or a minute taken for milliseconds, is nearest to none but its own.
LEMMA LengthsApart ==
  ASSUME NEW s \in Lengths, NEW z \in Lengths, NEW m \in Int,
         Feed!Abs(m - z) <= Feed!Abs(m - s), 10 * Feed!Abs(m - z) <= 3 * z
  PROVE  m = s \/ m < 0 \/ m = MinuteInMs => z = s
<1>0. s \in Nat /\ z \in Nat
  BY DEF Lengths
<1>1. Feed!Abs(m - z) = IF m - z < 0 THEN z - m ELSE m - z
  BY <1>0 DEF Feed!Abs
<1>2. CASE m = s
  <2>1. Feed!Abs(m - s) = 0
    BY <1>0, <1>2 DEF Feed!Abs
  <2> QED BY <1>0, <1>1, <1>2, <2>1
<1>3. CASE m < 0
  BY <1>0, <1>1, <1>3
<1>4. CASE m = MinuteInMs
  <2>1. 46153 <= z /\ z <= 85714
    BY <1>0, <1>1, <1>4 DEF MinuteInMs
  <2> QED BY <2>1 DEF Lengths
<1> QED BY <1>2, <1>3, <1>4

\* A step of so many seconds; its median; a length no farther from it.
StepOf(c, s) == c = s \/ c = 1000 * s \/ c = -s \/ c = -(1000 * s)
MedianOf(c) == IF c > 100000 THEN c \div 1000 ELSE c
Nearer(m, z, s) == Feed!Abs(m - z) <= Feed!Abs(m - s) /\ 10 * Feed!Abs(m - z) <= 3 * z

\* So a timeframe that is inferred from such a step is the right one.
LEMMA OwnTimeframe ==
  ASSUME NEW tf \in DOMAIN Feed!Seconds, NEW e \in DOMAIN Feed!Seconds, NEW c,
         StepOf(c, Feed!Seconds[tf]), Nearer(MedianOf(c), Feed!Seconds[e], Feed!Seconds[tf])
  PROVE  e = tf
<1>1. PICK s \in Lengths : s = Feed!Seconds[tf]
  BY FrameSeconds DEF Lengths
<1>2. PICK z \in Lengths : z = Feed!Seconds[e]
  BY FrameSeconds DEF Lengths
<1>3. PICK m : m = MedianOf(c)
  OBVIOUS
<1>4. m \in Int /\ (m = s \/ m < 0 \/ m = MinuteInMs)
  BY <1>1, <1>3, StepRead DEF StepOf, MedianOf
<1>5. z = s
  BY <1>1, <1>2, <1>3, <1>4, LengthsApart DEF Nearer
<1>6. Feed!Seconds[e] = Feed!Seconds[tf]
  BY <1>1, <1>2, <1>5
<1> QED BY <1>6, FrameSeconds

\* Equal steps are taken for the timeframe they are of, or for none.
LEMMA InferredRight ==
  ASSUME NEW list, Len(list) \in Nat, NEW tf \in DOMAIN Feed!Seconds, unit \in {1, 1000},
         NEW c \in {Feed!Seconds[tf] * unit, -(Feed!Seconds[tf] * unit)},
         \A i \in 1 .. Len(list) - 1 : list[i + 1].ts - list[i].ts = c
  PROVE  Feed!Infer(list) \subseteq {tf}
<1>0. SUFFICES ASSUME Len(list) >= 2, NEW e \in DOMAIN Feed!Seconds,
                      Nearer(Feed!MedianStep(list), Feed!Seconds[e], Feed!Seconds[tf])
               PROVE  e = tf
  BY DEF Feed!Infer, Nearer
<1>1. PICK s \in Nat : s = Feed!Seconds[tf]
  <2>1. Feed!Seconds[tf] \in Nat
    BY FrameSeconds
  <2> QED BY <2>1
<1>2. c \in Int /\ StepOf(c, s)
  BY <1>1 DEF StepOf
<1>3. Feed!MedianStep(list) = MedianOf(c)
  BY <1>0, <1>2, MedianOfEqual DEF MedianOf
<1>4. Nearer(MedianOf(c), Feed!Seconds[e], Feed!Seconds[tf])
  BY <1>0, <1>3
<1> QED BY <1>0, <1>1, <1>2, <1>4, OwnTimeframe

LEMMA FeedInvSafe == FeedInv => Feed!Safe
<1> SUFFICES ASSUME FeedInv PROVE Feed!Safe
  OBVIOUS
<1>1. unit \in {1, 1000} /\ now \in Origin .. FeedTime /\ now \in Nat
  BY FeedNumbers DEF FeedInv
<1>2. Feed!FilterKeepsTheClosed
  <2> SUFFICES ASSUME answer # <<>>, NEW i \in DOMAIN Feed!Rows, Feed!Rows[i].tf = Feed!Asked
               PROVE  Feed!IsComplete(Feed!Rows[i], Feed!Asked)
                      <=> Feed!Rows[i].ts + Feed!Seconds[Feed!Asked] * unit <= now * unit
    BY DEF Feed!FilterKeepsTheClosed
  <2>1. PICK r : r = Feed!Rows[i]
    OBVIOUS
  <2>2. RowSound(r, now, unit) /\ r.tf = Feed!Asked
    BY <2>1 DEF FeedInv, AnswerInv
  <2>3. PICK s \in Nat : s = Feed!Seconds[r.tf]
    BY <1>1, <2>2, Stamped
  <2>4. PICK a \in Int : r.ts = (a * s) * unit /\ a * s \in Nat /\ a * s <= now /\ MsThreshold < (a * s) * 1000
    BY <1>1, <2>2, <2>3, Stamped
  <2>5. PICK o \in Nat : o = a * s
    BY <2>4
  <2>6. Feed!ToSeconds(r.ts) = o /\ r.ts = o * unit
    BY <1>1, <2>4, <2>5, StampInSeconds
  <2>7. Feed!IsComplete(r, r.tf) <=> o + s <= now
    BY <2>3, <2>6 DEF Feed!IsComplete
  <2>8. o + s <= now <=> o * unit + s * unit <= now * unit
    BY <1>1
  <2> QED BY <2>1, <2>2, <2>3, <2>6, <2>7, <2>8
<1>3. Feed!InferenceRightOrSilent
  <2> SUFFICES ASSUME Feed!OneTimeframe(Feed!Rows), Feed!Contiguous(Feed!Rows),
                      NEW list \in {Feed!Rows, Feed!Backwards(Feed!Rows)}
               PROVE  Feed!Infer(list) \subseteq {list[i].tf : i \in DOMAIN list}
    BY DEF Feed!InferenceRightOrSilent
  <2> DEFINE n == Len(Feed!Rows)
             tf == Feed!Rows[1].tf
  <2>1. CASE Len(list) < 2
    BY <2>1 DEF Feed!Infer
  <2>2. CASE ~(Len(list) < 2)
    <3>1. n \in Nat /\ DOMAIN Feed!Rows = 1 .. n
      <4>1. CASE answer = <<>>
        BY <4>1 DEF Feed!Rows
      <4>2. CASE answer # <<>>
        BY <4>2 DEF FeedInv, AnswerInv
      <4> QED BY <4>1, <4>2
    <3>2. /\ Len(list) = n /\ DOMAIN list = 1 .. n
          /\ \/ \A i \in 1 .. n : list[i] = Feed!Rows[i]
             \/ \A i \in 1 .. n : list[i] = Feed!Rows[n - i + 1]
      <4>1. CASE list = Feed!Rows
        BY <3>1, <4>1
      <4>2. CASE list = Feed!Backwards(Feed!Rows)
        <5>1. list = [i \in 1 .. n |-> Feed!Rows[n - i + 1]]
          BY <4>2 DEF Feed!Backwards
        <5>2. list \in Seq({Feed!Rows[i] : i \in 1 .. n})
          <6>1. list \in [1 .. n -> {Feed!Rows[i] : i \in 1 .. n}]
            BY <3>1, <5>1
          <6> QED BY <3>1, <6>1
        <5>3. Len(list) = n
          BY <3>1, <5>1, <5>2
        <5> QED BY <3>1, <5>1, <5>3
      <4>3. list = Feed!Rows \/ list = Feed!Backwards(Feed!Rows)
        OBVIOUS
      <4> HIDE DEF n
      <4> QED BY <4>1, <4>2, <4>3, Zenon
    <3>3. n >= 2 /\ answer # <<>>
      BY <2>2, <3>1, <3>2 DEF Feed!Rows
    <3>4. \A i \in 1 .. n : Feed!Rows[i].tf = tf /\ RowSound(Feed!Rows[i], now, unit)
      BY <3>1, <3>3 DEF FeedInv, AnswerInv, Feed!OneTimeframe
    <3>5. tf \in Pulled /\ tf \in DOMAIN Feed!Seconds /\ Feed!Seconds[tf] \in Nat
      BY <3>3, <3>4, FeedNumbers DEF RowSound
    <3>6. \A i \in 1 .. n : Feed!Rows[i].ts \in Int
      <4> SUFFICES ASSUME NEW i \in 1 .. n PROVE Feed!Rows[i].ts \in Int
        OBVIOUS
      <4>1. PICK r : r = Feed!Rows[i]
        OBVIOUS
      <4>2. PICK a \in Int : r.ts = (a * Feed!Seconds[r.tf]) * unit /\ a * Feed!Seconds[r.tf] \in Nat
        BY <1>1, <3>4, <4>1, Stamped
      <4> QED BY <1>1, <4>1, <4>2
    <3>7. PICK w \in Nat : w = Feed!Seconds[tf] * unit
      BY <1>1, <3>5
    <3>8. ASSUME NEW i \in 1 .. n - 1
          PROVE  Feed!Rows[i].ts - Feed!Rows[i + 1].ts = w
      <4>1. Feed!Rows[i].ts > Feed!Rows[i + 1].ts
        BY <3>3 DEF FeedInv, AnswerInv
      <4>2. Feed!Abs(Feed!Rows[i + 1].ts - Feed!Rows[i].ts) = w
        BY <3>7 DEF Feed!Contiguous
      <4>3. PICK x \in Int : x = Feed!Rows[i].ts
        BY <3>1, <3>6
      <4>4. i + 1 \in 1 .. n
        BY <3>1
      <4>5. PICK y \in Int : y = Feed!Rows[i + 1].ts
        BY <3>6, <4>4
      <4> QED BY <4>1, <4>2, <4>3, <4>5 DEF Feed!Abs
    <3>9. \E c \in {w, -w} : \A i \in 1 .. Len(list) - 1 : list[i + 1].ts - list[i].ts = c
      <4>1. CASE \A i \in 1 .. n : list[i] = Feed!Rows[i]
        <5>1. ASSUME NEW i \in 1 .. n - 1
              PROVE  list[i + 1].ts - list[i].ts = -w
          <6>1. i \in 1 .. n /\ i + 1 \in 1 .. n
            BY <3>1
          <6>2. PICK x \in Int : x = Feed!Rows[i].ts
            BY <3>6, <6>1
          <6>3. PICK y \in Int : y = Feed!Rows[i + 1].ts
            BY <3>6, <6>1
          <6>4. x - y = w /\ list[i + 1].ts = y /\ list[i].ts = x
            BY <3>8, <4>1, <6>1, <6>2, <6>3
          <6> QED BY <6>4
        <5> QED BY <3>2, <5>1
      <4>2. CASE \A i \in 1 .. n : list[i] = Feed!Rows[n - i + 1]
        <5>1. ASSUME NEW i \in 1 .. n - 1
              PROVE  list[i + 1].ts - list[i].ts = w
          <6>1. i \in 1 .. n /\ i + 1 \in 1 .. n /\ n - i \in 1 .. n - 1 /\ n - (i + 1) + 1 = n - i
            BY <3>1
          <6>2. list[i] = Feed!Rows[(n - i) + 1] /\ list[i + 1] = Feed!Rows[n - i]
            BY <4>2, <6>1
          <6> QED BY <3>8, <6>1, <6>2
        <5> QED BY <3>2, <5>1
      <4> QED BY <3>2, <4>1, <4>2
    <3>10. PICK c \in {w, -w} : \A i \in 1 .. Len(list) - 1 : list[i + 1].ts - list[i].ts = c
      BY <3>9
    <3>11. Feed!Infer(list) \subseteq {tf}
      <4>1. c \in {Feed!Seconds[tf] * unit, -(Feed!Seconds[tf] * unit)}
        BY <3>7, <3>10
      <4>2. Len(list) \in Nat
        BY <3>1, <3>2
      <4> HIDE DEF tf
      <4> QED BY <1>1, <3>5, <3>10, <4>1, <4>2, InferredRight
    <3>12. list[1].tf = tf /\ 1 \in DOMAIN list
      BY <3>1, <3>2, <3>3, <3>4
    <3> QED BY <3>11, <3>12
  <2> QED BY <2>1, <2>2
<1>4. Feed!HtfStateIsCausal
  <2>1. ASSUME NEW tf \in Pulled, NEW r \in Feed!HtfStateAt({s \in table : s.tf = tf}, tf, now * unit)
        PROVE  /\ Feed!CausalityPasses(now * unit, r.ts, Feed!IsComplete(r, tf) \/ unit # 1, r.ts)
               /\ unit = 1 => r.ts + Feed!Seconds[tf] * unit <= now * unit
    <3>1. r \in table /\ r.tf = tf /\ r.ts + Feed!Seconds[tf] <= now * unit
      BY <2>1 DEF Feed!HtfStateAt
    <3>2. RowSound(r, now, unit)
      BY <3>1 DEF FeedInv, TableInv
    <3>3. PICK s \in Nat : s = Feed!Seconds[tf]
      BY FeedNumbers
    <3>4. PICK a \in Int : r.ts = (a * s) * unit /\ a * s \in Nat /\ a * s <= now /\ MsThreshold < (a * s) * 1000
      BY <1>1, <3>1, <3>2, <3>3, Stamped
    <3>5. PICK o \in Nat : o = a * s
      BY <3>4
    <3>6. Feed!ToSeconds(r.ts) = o /\ r.ts = o * unit /\ o <= now
      BY <1>1, <3>4, <3>5, StampInSeconds
    <3>7. unit = 1 => o + s <= now
      BY <1>1, <3>1, <3>3, <3>6
    <3>8. Feed!IsComplete(r, tf) \/ unit # 1
      BY <3>3, <3>6, <3>7 DEF Feed!IsComplete
    <3>9. now * unit >= r.ts /\ r.ts <= now * unit
      BY <1>1, <3>6
    <3> QED BY <3>1, <3>3, <3>6, <3>7, <3>8, <3>9, <1>1 DEF Feed!CausalityPasses
  <2> QED BY <2>1 DEF Feed!HtfStateIsCausal, Feed!HtfPointInTime
<1> QED BY <1>2, <1>3, <1>4 DEF Feed!Safe, FeedInv

---------------------------------------------------------------------------
(* The alpha families                                                      *)

\* The answer is what the family proposes for the market, and the adapter's
\* stop is that of one of the answers.
AlphaInv ==
  /\ market \in Alpha!Markets
  /\ alphas = {} \/ LET wanted == {Alpha!Alpha(market, p) : p \in Alpha!ProposalsOf(market)}
                    IN alphas = {[alphas |-> wanted, raised |-> \E a \in wanted : ~Alpha!Wellformed(a)]}
  /\ stopPct = {} \/ \E a \in Alpha!Alphas : stopPct = {[alpha |-> a, pct |-> Alpha!AdapterStop(a)]}

\* A market has a price, an ATR and its family's view, in which channels have
\* their sides in order.
LEMMA MarketFacts ==
  ASSUME NEW m \in Alpha!Markets
  PROVE  /\ m.family \in Alpha!Families /\ m.view \in Alpha!Views(m.family)
         /\ m.price \in Nat \ {0} /\ m.atr \in Nat /\ m.enough \in BOOLEAN /\ m.whole \in BOOLEAN
         /\ m = [family |-> m.family, price |-> m.price, atr |-> m.atr, enough |-> m.enough,
                 whole |-> m.whole, view |-> m.view]
<1>1. PICK f \in Alpha!Families :
        m \in [family : {f}, price : AlphaPrices, atr : Atrs, enough : BOOLEAN, whole : BOOLEAN,
               view : Alpha!Views(f)]
  BY DEF Alpha!Markets
<1>2. /\ m.family = f /\ m.view \in Alpha!Views(f) /\ m.price \in AlphaPrices /\ m.atr \in Atrs
      /\ m.enough \in BOOLEAN /\ m.whole \in BOOLEAN
      /\ m = [family |-> m.family, price |-> m.price, atr |-> m.atr, enough |-> m.enough,
              whole |-> m.whole, view |-> m.view]
  BY <1>1
<1> QED BY <1>1, <1>2, DecisionsAssumption DEF DecisionsAssumption, Alpha!AlphaAssumption

\* At most one of the two rules of a family holds, and what it proposes.
OneProposal(proposals, m) ==
  \/ proposals = {}
  \/ \E stop \in Int : /\ proposals = {<<"LONG", stop>>}
                       /\ m.family # "volatility" => stop < m.price
  \/ \E stop \in Int : /\ proposals = {<<"SHORT", stop>>} /\ stop > 0
                       /\ m.family # "volatility" => stop > m.price

\* Rules that exclude one another propose one direction.
LEMMA RulesPropose ==
  ASSUME NEW m, NEW long \in BOOLEAN, NEW short \in BOOLEAN, ~(long /\ short),
         NEW longStop \in Int, NEW shortStop \in Int,
         long => (m.family # "volatility" => longStop < m.price),
         short => shortStop > 0 /\ (m.family # "volatility" => shortStop > m.price)
  PROVE  OneProposal(Alpha!Proposals(long, longStop, short, shortStop), m)
<1>1. Alpha!Proposals(long, longStop, short, shortStop) =
        (IF long THEN {<<"LONG", longStop>>} ELSE {})
          \cup (IF short THEN {<<"SHORT", shortStop>>} ELSE {})
  BY DEF Alpha!Proposals
<1>2. CASE long
  BY <1>1, <1>2 DEF OneProposal
<1>3. CASE short
  BY <1>1, <1>3 DEF OneProposal
<1>4. CASE ~long /\ ~short
  BY <1>1, <1>4 DEF OneProposal
<1> QED BY <1>2, <1>3, <1>4

\* The same trades the other way round.
TradesTurned(proposals, price) ==
  {<<IF p[1] = "LONG" THEN "SHORT" ELSE "LONG", 2 * price - p[2]>> : p \in proposals}

\* Rules turned round propose the other direction, with the stop as far away.
LEMMA RulesTurn ==
  ASSUME NEW price \in Int, NEW long \in BOOLEAN, NEW short \in BOOLEAN,
         NEW longStop \in Int, NEW shortStop \in Int
  PROVE  Alpha!Proposals(short, 2 * price - shortStop, long, 2 * price - longStop) =
           TradesTurned(Alpha!Proposals(long, longStop, short, shortStop), price)
<1> DEFINE Turn(p) == <<IF p[1] = "LONG" THEN "SHORT" ELSE "LONG", 2 * price - p[2]>>
<1>1. Alpha!Proposals(long, longStop, short, shortStop) =
        (IF long THEN {<<"LONG", longStop>>} ELSE {})
          \cup (IF short THEN {<<"SHORT", shortStop>>} ELSE {})
  BY DEF Alpha!Proposals
<1>2. Alpha!Proposals(short, 2 * price - shortStop, long, 2 * price - longStop) =
        (IF short THEN {<<"LONG", 2 * price - shortStop>>} ELSE {})
          \cup (IF long THEN {<<"SHORT", 2 * price - longStop>>} ELSE {})
  BY DEF Alpha!Proposals
<1>3. /\ Turn(<<"LONG", longStop>>) = <<"SHORT", 2 * price - longStop>>
      /\ Turn(<<"SHORT", shortStop>>) = <<"LONG", 2 * price - shortStop>>
  OBVIOUS
<1>4. {Turn(p) : p \in Alpha!Proposals(long, longStop, short, shortStop)} =
        (IF long THEN {Turn(<<"LONG", longStop>>)} ELSE {})
          \cup (IF short THEN {Turn(<<"SHORT", shortStop>>)} ELSE {})
  <2> HIDE DEF Turn
  <2> QED BY <1>1
<1> HIDE DEF Turn
<1>5. Alpha!Proposals(short, 2 * price - shortStop, long, 2 * price - longStop) =
        {Turn(p) : p \in Alpha!Proposals(long, longStop, short, shortStop)}
  BY <1>2, <1>3, <1>4
<1> QED BY <1>5 DEF Turn, TradesTurned

\* What is shown of each family: that its rules propose one direction, and that
\* the rules of the market turned round are the rules turned round.
Proposes(proposals, turned, m) ==
  /\ OneProposal(proposals, m)
  /\ turned = TradesTurned(proposals, m.price)

\* A market turned round differs in its view alone.
LEMMA TurnedFields ==
  ASSUME NEW m \in Alpha!Markets
  PROVE  LET t == Alpha!Turned(m)
         IN /\ t.family = m.family /\ t.price = m.price /\ t.atr = m.atr
            /\ t.enough = m.enough /\ t.whole = m.whole
<1> DEFINE turn(view) == [m EXCEPT !.view = view]
<1>1. ASSUME NEW view
      PROVE  /\ turn(view).family = m.family /\ turn(view).price = m.price /\ turn(view).atr = m.atr
             /\ turn(view).enough = m.enough /\ turn(view).whole = m.whole
  BY MarketFacts
<1> QED BY <1>1 DEF Alpha!Turned

\* The averages' crossing, seen from either side.
LEMMA EmaCrossoverProposes ==
  ASSUME NEW m \in Alpha!Markets, m.family = "ema_crossover", m.atr > 0
  PROVE  Proposes(Alpha!EmaCrossover(m), Alpha!EmaCrossover(Alpha!Turned(m)), m)
<1>1. PICK v : v = m.view
  OBVIOUS
<1>2. v.fast \in Int /\ v.slow \in Int /\ v.rsi \in {-1, 0, 1}
  BY <1>1, MarketFacts, DecisionsAssumption
     DEF Alpha!Views, Alpha!Tilts, DecisionsAssumption, Alpha!AlphaAssumption
<1>3. m.price \in Nat \ {0} /\ m.atr \in Nat \ {0}
  BY MarketFacts
<1>4. PICK width \in Nat \ {0} : width = (3 * m.atr) \div 2
  BY <1>3
<1>5. PICK long \in BOOLEAN : long <=> v.fast > v.slow /\ v.rsi > 0
  BY Zenon
<1>6. PICK short \in BOOLEAN : short <=> v.fast < v.slow /\ v.rsi < 0
  BY Zenon
<1>7. Alpha!EmaCrossover(m) = Alpha!Proposals(long, m.price - width, short, m.price + width)
  BY <1>1, <1>4, <1>5, <1>6 DEF Alpha!EmaCrossover, Alpha!Proposals
<1>8. OneProposal(Alpha!EmaCrossover(m), m)
  <2>1. ~(long /\ short)
    BY <1>2, <1>3, <1>5, <1>6
  <2>2. m.price - width \in Int /\ m.price + width \in Int
    BY <1>2, <1>3
  <2>3. /\ long => (m.family # "volatility" => m.price - width < m.price)
        /\ short => m.price + width > 0 /\ (m.family # "volatility" => m.price + width > m.price)
    BY <1>2, <1>3, <1>4, <1>5, <1>6
  <2> QED BY <1>7, <2>1, <2>2, <2>3, RulesPropose
<1>9. Alpha!Turned(m).view =
           [fast |-> 2 * m.price - v.fast, slow |-> 2 * m.price - v.slow, rsi |-> -v.rsi]
  BY <1>1, MarketFacts DEF Alpha!Turned
<1>10. Alpha!EmaCrossover(Alpha!Turned(m)) =
         Alpha!Proposals(short, 2 * m.price - (m.price + width), long, 2 * m.price - (m.price - width))
  <2> DEFINE t == Alpha!Turned(m)
  <2>1. t.price = m.price /\ t.atr = m.atr
    BY TurnedFields
  <2> HIDE DEF t
  <2>2. QED
    BY <1>2, <1>3, <1>4, <1>5, <1>6, <1>9, <2>1 DEF Alpha!EmaCrossover, Alpha!Proposals, t
<1>11. m.price - width \in Int /\ m.price + width \in Int
  BY <1>2, <1>3
<1>12. m.price \in Int
  BY <1>3
<1>13. Alpha!EmaCrossover(Alpha!Turned(m)) = TradesTurned(Alpha!Proposals(long, m.price - width, short, m.price + width), m.price)
  BY <1>10, <1>11, <1>12, RulesTurn
<1> QED BY <1>7, <1>8, <1>13 DEF Proposes

\* A close beyond either side of the channel.
LEMMA BreakoutProposes ==
  ASSUME NEW m \in Alpha!Markets, m.family = "breakout", m.atr > 0
  PROVE  Proposes(Alpha!Breakout(m), Alpha!Breakout(Alpha!Turned(m)), m)
<1>1. PICK v : v = m.view
  OBVIOUS
<1>2. v.high \in Int /\ v.low \in Int /\ v.volume \in {-1, 0, 1} /\ v.low <= v.high
  BY <1>1, MarketFacts, DecisionsAssumption
     DEF Alpha!Views, Alpha!Tilts, DecisionsAssumption, Alpha!AlphaAssumption
<1>3. m.price \in Nat \ {0} /\ m.atr \in Nat \ {0}
  BY MarketFacts
<1>4. PICK width \in Nat \ {0} : width = (3 * m.atr) \div 2
  BY <1>3
<1>5. PICK long \in BOOLEAN : long <=> m.price > v.high /\ v.volume >= 0
  BY Zenon
<1>6. PICK short \in BOOLEAN : short <=> m.price < v.low /\ v.volume >= 0
  BY Zenon
<1>7. Alpha!Breakout(m) = Alpha!Proposals(long, m.price - width, short, m.price + width)
  BY <1>1, <1>4, <1>5, <1>6 DEF Alpha!Breakout, Alpha!Proposals
<1>8. OneProposal(Alpha!Breakout(m), m)
  <2>1. ~(long /\ short)
    BY <1>2, <1>3, <1>5, <1>6
  <2>2. m.price - width \in Int /\ m.price + width \in Int
    BY <1>2, <1>3
  <2>3. /\ long => (m.family # "volatility" => m.price - width < m.price)
        /\ short => m.price + width > 0 /\ (m.family # "volatility" => m.price + width > m.price)
    BY <1>2, <1>3, <1>4, <1>5, <1>6
  <2> QED BY <1>7, <2>1, <2>2, <2>3, RulesPropose
<1>9. Alpha!Turned(m).view =
           [high |-> 2 * m.price - v.low, low |-> 2 * m.price - v.high, volume |-> v.volume]
  BY <1>1, MarketFacts DEF Alpha!Turned
<1>10. Alpha!Breakout(Alpha!Turned(m)) =
         Alpha!Proposals(short, 2 * m.price - (m.price + width), long, 2 * m.price - (m.price - width))
  <2> DEFINE t == Alpha!Turned(m)
  <2>1. t.price = m.price /\ t.atr = m.atr
    BY TurnedFields
  <2> HIDE DEF t
  <2>2. QED
    BY <1>2, <1>3, <1>4, <1>5, <1>6, <1>9, <2>1 DEF Alpha!Breakout, Alpha!Proposals, t
<1>11. m.price - width \in Int /\ m.price + width \in Int
  BY <1>2, <1>3
<1>12. m.price \in Int
  BY <1>3
<1>13. Alpha!Breakout(Alpha!Turned(m)) = TradesTurned(Alpha!Proposals(long, m.price - width, short, m.price + width), m.price)
  BY <1>10, <1>11, <1>12, RulesTurn
<1> QED BY <1>7, <1>8, <1>13 DEF Proposes

\* A close that returns into the band from either side.
LEMMA MeanReversionProposes ==
  ASSUME NEW m \in Alpha!Markets, m.family = "mean_reversion", m.atr > 0
  PROVE  Proposes(Alpha!MeanReversion(m), Alpha!MeanReversion(Alpha!Turned(m)), m)
<1>1. PICK v : v = m.view
  OBVIOUS
<1>2. v.before \in Int /\ v.lower \in Int /\ v.upper \in Int /\ v.lower <= v.upper
  BY <1>1, MarketFacts, DecisionsAssumption
     DEF Alpha!Views, Alpha!Tilts, DecisionsAssumption, Alpha!AlphaAssumption
<1>3. m.price \in Nat \ {0} /\ m.atr \in Nat \ {0}
  BY MarketFacts
<1>4. PICK width \in Nat \ {0} : width = (3 * m.atr) \div 2
  BY <1>3
<1>5. PICK long \in BOOLEAN : long <=> v.before < v.lower /\ m.price > v.lower
  BY Zenon
<1>6. PICK short \in BOOLEAN : short <=> v.before > v.upper /\ m.price < v.upper
  BY Zenon
<1>7. Alpha!MeanReversion(m) = Alpha!Proposals(long, v.lower - width, short, v.upper + width)
  BY <1>1, <1>4, <1>5, <1>6 DEF Alpha!MeanReversion, Alpha!Proposals
<1>8. OneProposal(Alpha!MeanReversion(m), m)
  <2>1. ~(long /\ short)
    BY <1>2, <1>3, <1>5, <1>6
  <2>2. v.lower - width \in Int /\ v.upper + width \in Int
    BY <1>2, <1>3
  <2>3. /\ long => (m.family # "volatility" => v.lower - width < m.price)
        /\ short => v.upper + width > 0 /\ (m.family # "volatility" => v.upper + width > m.price)
    BY <1>2, <1>3, <1>4, <1>5, <1>6
  <2> QED BY <1>7, <2>1, <2>2, <2>3, RulesPropose
<1>9. Alpha!Turned(m).view =
           [before |-> 2 * m.price - v.before, lower |-> 2 * m.price - v.upper, upper |-> 2 * m.price - v.lower]
  BY <1>1, MarketFacts DEF Alpha!Turned
<1>10. Alpha!MeanReversion(Alpha!Turned(m)) =
         Alpha!Proposals(short, 2 * m.price - (v.upper + width), long, 2 * m.price - (v.lower - width))
  <2> DEFINE t == Alpha!Turned(m)
  <2>1. t.price = m.price /\ t.atr = m.atr
    BY TurnedFields
  <2> HIDE DEF t
  <2>2. QED
    BY <1>2, <1>3, <1>4, <1>5, <1>6, <1>9, <2>1 DEF Alpha!MeanReversion, Alpha!Proposals, t
<1>11. v.lower - width \in Int /\ v.upper + width \in Int
  BY <1>2, <1>3
<1>12. m.price \in Int
  BY <1>3
<1>13. Alpha!MeanReversion(Alpha!Turned(m)) = TradesTurned(Alpha!Proposals(long, v.lower - width, short, v.upper + width), m.price)
  <2>1. Alpha!Proposals(short, 2 * m.price - (v.upper + width), long, 2 * m.price - (v.lower - width))
          = TradesTurned(Alpha!Proposals(long, v.lower - width, short, v.upper + width), m.price)
    BY <1>11, <1>12, RulesTurn
  <2> QED BY <1>10, <2>1, Zenon
<1> QED BY <1>7, <1>8, <1>13 DEF Proposes

\* Momentum of either sign.
LEMMA MomentumProposes ==
  ASSUME NEW m \in Alpha!Markets, m.family = "momentum", m.atr > 0
  PROVE  Proposes(Alpha!Momentum(m), Alpha!Momentum(Alpha!Turned(m)), m)
<1>1. PICK v : v = m.view
  OBVIOUS
<1>2. v.histogram \in {-1, 0, 1} /\ v.momentum \in {-1, 0, 1}
  BY <1>1, MarketFacts, DecisionsAssumption
     DEF Alpha!Views, Alpha!Tilts, DecisionsAssumption, Alpha!AlphaAssumption
<1>3. m.price \in Nat \ {0} /\ m.atr \in Nat \ {0}
  BY MarketFacts
<1>4. PICK width \in Nat \ {0} : width = 2 * m.atr
  BY <1>3
<1>5. PICK long \in BOOLEAN : long <=> v.histogram > 0 /\ v.momentum > 0
  BY Zenon
<1>6. PICK short \in BOOLEAN : short <=> v.histogram < 0 /\ v.momentum < 0
  BY Zenon
<1>7. Alpha!Momentum(m) = Alpha!Proposals(long, m.price - width, short, m.price + width)
  BY <1>1, <1>4, <1>5, <1>6 DEF Alpha!Momentum, Alpha!Proposals
<1>8. OneProposal(Alpha!Momentum(m), m)
  <2>1. ~(long /\ short)
    BY <1>2, <1>3, <1>5, <1>6
  <2>2. m.price - width \in Int /\ m.price + width \in Int
    BY <1>2, <1>3
  <2>3. /\ long => (m.family # "volatility" => m.price - width < m.price)
        /\ short => m.price + width > 0 /\ (m.family # "volatility" => m.price + width > m.price)
    BY <1>2, <1>3, <1>4, <1>5, <1>6
  <2> QED BY <1>7, <2>1, <2>2, <2>3, RulesPropose
<1>9. Alpha!Turned(m).view =
           [histogram |-> -v.histogram, momentum |-> -v.momentum]
  BY <1>1, MarketFacts DEF Alpha!Turned
<1>10. Alpha!Momentum(Alpha!Turned(m)) =
         Alpha!Proposals(short, 2 * m.price - (m.price + width), long, 2 * m.price - (m.price - width))
  <2> DEFINE t == Alpha!Turned(m)
  <2>1. t.price = m.price /\ t.atr = m.atr
    BY TurnedFields
  <2> HIDE DEF t
  <2>2. QED
    BY <1>2, <1>3, <1>4, <1>5, <1>6, <1>9, <2>1 DEF Alpha!Momentum, Alpha!Proposals, t
<1>11. m.price - width \in Int /\ m.price + width \in Int
  BY <1>2, <1>3
<1>12. m.price \in Int
  BY <1>3
<1>13. Alpha!Momentum(Alpha!Turned(m)) = TradesTurned(Alpha!Proposals(long, m.price - width, short, m.price + width), m.price)
  BY <1>10, <1>11, <1>12, RulesTurn
<1> QED BY <1>7, <1>8, <1>13 DEF Proposes

\* Averages in either order.
LEMMA TrendProposes ==
  ASSUME NEW m \in Alpha!Markets, m.family = "trend", m.atr > 0
  PROVE  Proposes(Alpha!Trend(m), Alpha!Trend(Alpha!Turned(m)), m)
<1>1. PICK v : v = m.view
  OBVIOUS
<1>2. v.fast \in Int /\ v.mid \in Int /\ v.slow \in Int /\ v.slope \in {-1, 0, 1}
  BY <1>1, MarketFacts, DecisionsAssumption
     DEF Alpha!Views, Alpha!Tilts, DecisionsAssumption, Alpha!AlphaAssumption
<1>3. m.price \in Nat \ {0} /\ m.atr \in Nat \ {0}
  BY MarketFacts
<1>4. PICK width \in Nat \ {0} : width = (5 * m.atr) \div 2
  BY <1>3
<1>5. PICK long \in BOOLEAN : long <=> v.fast > v.mid /\ v.mid > v.slow /\ v.slope > 0
  BY Zenon
<1>6. PICK short \in BOOLEAN : short <=> v.fast < v.mid /\ v.mid < v.slow /\ v.slope < 0
  BY Zenon
<1>7. Alpha!Trend(m) = Alpha!Proposals(long, m.price - width, short, m.price + width)
  BY <1>1, <1>4, <1>5, <1>6 DEF Alpha!Trend, Alpha!Proposals
<1>8. OneProposal(Alpha!Trend(m), m)
  <2>1. ~(long /\ short)
    BY <1>2, <1>3, <1>5, <1>6
  <2>2. m.price - width \in Int /\ m.price + width \in Int
    BY <1>2, <1>3
  <2>3. /\ long => (m.family # "volatility" => m.price - width < m.price)
        /\ short => m.price + width > 0 /\ (m.family # "volatility" => m.price + width > m.price)
    BY <1>2, <1>3, <1>4, <1>5, <1>6
  <2> QED BY <1>7, <2>1, <2>2, <2>3, RulesPropose
<1>9. Alpha!Turned(m).view =
           [fast |-> 2 * m.price - v.fast, mid |-> 2 * m.price - v.mid, slow |-> 2 * m.price - v.slow,
            slope |-> -v.slope]
  BY <1>1, MarketFacts DEF Alpha!Turned
<1>10. Alpha!Trend(Alpha!Turned(m)) =
         Alpha!Proposals(short, 2 * m.price - (m.price + width), long, 2 * m.price - (m.price - width))
  <2> DEFINE t == Alpha!Turned(m)
  <2>1. t.price = m.price /\ t.atr = m.atr
    BY TurnedFields
  <2> HIDE DEF t
  <2>2. QED
    BY <1>2, <1>3, <1>4, <1>5, <1>6, <1>9, <2>1 DEF Alpha!Trend, Alpha!Proposals, t
<1>11. m.price - width \in Int /\ m.price + width \in Int
  BY <1>2, <1>3
<1>12. m.price \in Int
  BY <1>3
<1>13. Alpha!Trend(Alpha!Turned(m)) = TradesTurned(Alpha!Proposals(long, m.price - width, short, m.price + width), m.price)
  BY <1>10, <1>11, <1>12, RulesTurn
<1> QED BY <1>7, <1>8, <1>13 DEF Proposes

\* A squeeze released to either side: the stop is not bound to the price.
LEMMA VolatilityProposes ==
  ASSUME NEW m \in Alpha!Markets, m.family = "volatility", m.atr > 0
  PROVE  Proposes(Alpha!Volatility(m), Alpha!Volatility(Alpha!Turned(m)), m)
<1>1. PICK v : v = m.view
  OBVIOUS
<1>2. /\ v.lower \in Int /\ v.upper \in Int /\ v.below \in Int /\ v.above \in Int
        /\ v.lower <= v.upper /\ v.above > 0 /\ v.squeezed \in BOOLEAN
  BY <1>1, MarketFacts, DecisionsAssumption
     DEF Alpha!Views, Alpha!Tilts, DecisionsAssumption, Alpha!AlphaAssumption
<1>3. m.price \in Nat \ {0} /\ m.atr \in Nat \ {0}
  BY MarketFacts
<1>4. m.family = "volatility"
  OBVIOUS
<1>5. PICK long \in BOOLEAN : long <=> v.squeezed /\ m.price > v.upper
  BY Zenon
<1>6. PICK short \in BOOLEAN : short <=> v.squeezed /\ m.price < v.lower
  BY Zenon
<1>7. Alpha!Volatility(m) = Alpha!Proposals(long, v.below, short, v.above)
  BY <1>1, <1>5, <1>6 DEF Alpha!Volatility, Alpha!Proposals
<1>8. OneProposal(Alpha!Volatility(m), m)
  <2>1. ~(long /\ short)
    BY <1>2, <1>3, <1>5, <1>6
  <2>2. v.below \in Int /\ v.above \in Int
    BY <1>2, <1>3
  <2>3. /\ long => (m.family # "volatility" => v.below < m.price)
        /\ short => v.above > 0 /\ (m.family # "volatility" => v.above > m.price)
    BY <1>2, <1>3, <1>4, <1>5, <1>6
  <2> QED BY <1>7, <2>1, <2>2, <2>3, RulesPropose
<1>9. Alpha!Turned(m).view =
           [lower |-> 2 * m.price - v.upper, upper |-> 2 * m.price - v.lower, below |-> 2 * m.price - v.above,
            above |-> 2 * m.price - v.below, squeezed |-> v.squeezed]
  BY <1>1, MarketFacts DEF Alpha!Turned
<1>10. Alpha!Volatility(Alpha!Turned(m)) =
         Alpha!Proposals(short, 2 * m.price - (v.above), long, 2 * m.price - (v.below))
  <2> DEFINE t == Alpha!Turned(m)
  <2>1. t.price = m.price /\ t.atr = m.atr
    BY TurnedFields
  <2> HIDE DEF t
  <2>2. QED
    BY <1>2, <1>3, <1>4, <1>5, <1>6, <1>9, <2>1 DEF Alpha!Volatility, Alpha!Proposals, t
<1>11. v.below \in Int /\ v.above \in Int
  BY <1>2, <1>3
<1>12. m.price \in Int
  BY <1>3
<1>13. Alpha!Volatility(Alpha!Turned(m)) = TradesTurned(Alpha!Proposals(long, v.below, short, v.above), m.price)
  BY <1>10, <1>11, <1>12, RulesTurn
<1> QED BY <1>7, <1>8, <1>13 DEF Proposes

\* Every family's answers.
LEMMA FamilyProposes ==
  ASSUME NEW m \in Alpha!Markets
  PROVE  Proposes(Alpha!ProposalsOf(m), Alpha!ProposalsOf(Alpha!Turned(m)), m)
<1> DEFINE t == Alpha!Turned(m)
<1>1. /\ t.family = m.family /\ t.price = m.price /\ t.atr = m.atr
      /\ t.enough = m.enough /\ t.whole = m.whole
  BY TurnedFields
<1>2. m.family \in Alpha!Families /\ m.atr \in Nat
  BY MarketFacts
<1> HIDE DEF t
<1>3. CASE ~(m.enough /\ m.whole /\ m.atr > 0)
  <2>1. Alpha!ProposalsOf(m) = {} /\ Alpha!ProposalsOf(t) = {}
    BY <1>1, <1>3 DEF Alpha!ProposalsOf
  <2>2. TradesTurned({}, m.price) = {}
    BY DEF TradesTurned
  <2> QED BY <2>1, <2>2 DEF Proposes, OneProposal, t
<1>4. CASE m.enough /\ m.whole /\ m.atr > 0
  <2> DEFINE Same(f) == Alpha!ProposalsOf(m) = f /\ Alpha!ProposalsOf(t) = f
  <2>1. t.enough /\ t.whole /\ t.atr > 0
    BY <1>1, <1>4
  <2>2. CASE m.family = "ema_crossover"
    <3>1. Alpha!ProposalsOf(m) = Alpha!EmaCrossover(m) /\ Alpha!ProposalsOf(t) = Alpha!EmaCrossover(t)
      BY <1>1, <1>4, <2>1, <2>2 DEF Alpha!ProposalsOf
    <3> QED BY <1>4, <2>2, <3>1, EmaCrossoverProposes DEF t
  <2>3. CASE m.family = "breakout"
    <3>1. Alpha!ProposalsOf(m) = Alpha!Breakout(m) /\ Alpha!ProposalsOf(t) = Alpha!Breakout(t)
      BY <1>1, <1>4, <2>1, <2>3 DEF Alpha!ProposalsOf
    <3> QED BY <1>4, <2>3, <3>1, BreakoutProposes DEF t
  <2>4. CASE m.family = "mean_reversion"
    <3>1. Alpha!ProposalsOf(m) = Alpha!MeanReversion(m) /\ Alpha!ProposalsOf(t) = Alpha!MeanReversion(t)
      BY <1>1, <1>4, <2>1, <2>4 DEF Alpha!ProposalsOf
    <3> QED BY <1>4, <2>4, <3>1, MeanReversionProposes DEF t
  <2>5. CASE m.family = "momentum"
    <3>1. Alpha!ProposalsOf(m) = Alpha!Momentum(m) /\ Alpha!ProposalsOf(t) = Alpha!Momentum(t)
      BY <1>1, <1>4, <2>1, <2>5 DEF Alpha!ProposalsOf
    <3> QED BY <1>4, <2>5, <3>1, MomentumProposes DEF t
  <2>6. CASE m.family = "trend"
    <3>1. Alpha!ProposalsOf(m) = Alpha!Trend(m) /\ Alpha!ProposalsOf(t) = Alpha!Trend(t)
      BY <1>1, <1>4, <2>1, <2>6 DEF Alpha!ProposalsOf
    <3> QED BY <1>4, <2>6, <3>1, TrendProposes DEF t
  <2>7. CASE m.family = "volatility"
    <3>1. Alpha!ProposalsOf(m) = Alpha!Volatility(m) /\ Alpha!ProposalsOf(t) = Alpha!Volatility(t)
      BY <1>1, <1>4, <2>1, <2>7 DEF Alpha!ProposalsOf
    <3> QED BY <1>4, <2>7, <3>1, VolatilityProposes DEF t
  <2> QED BY <1>2, <2>2, <2>3, <2>4, <2>5, <2>6, <2>7 DEF Alpha!Families
<1> QED BY <1>3, <1>4

\* A composition that looks elsewhere starts in a market, too.
LEMMA AnyMarketIsOne == Alpha!AnyMarket \in Alpha!Markets
<1>1. /\ (CHOOSE p \in AlphaPrices : TRUE) \in AlphaPrices /\ (CHOOSE a \in Atrs : TRUE) \in Atrs
  BY DecisionsAssumption DEF DecisionsAssumption, Alpha!AlphaAssumption
<1>2. [histogram |-> 0, momentum |-> 0] \in Alpha!Views("momentum")
  BY DEF Alpha!Views, Alpha!Tilts
<1>3. Alpha!AnyMarket \in
        [family : {"momentum"}, price : AlphaPrices, atr : Atrs, enough : BOOLEAN, whole : BOOLEAN,
         view : Alpha!Views("momentum")]
  BY <1>1, <1>2 DEF Alpha!AnyMarket
<1> QED BY <1>3 DEF Alpha!Markets, Alpha!Families

\* Before the call there is no answer.
LEMMA InitFamilies ==
  (Alpha!Init \/ (market = Alpha!AnyMarket /\ alphas = {} /\ stopPct = {})) => AlphaInv
  BY AnyMarketIsOne DEF Alpha!Init, AlphaInv

\* The market stays, and an answer is given and adapted once.
LEMMA FamiliesStepKeeps == AlphaInv /\ [Alpha!Next]_familiesVars => AlphaInv'
<1> SUFFICES ASSUME AlphaInv, [Alpha!Next]_familiesVars PROVE AlphaInv'
  OBVIOUS
<1>1. CASE UNCHANGED familiesVars
  BY <1>1 DEF familiesVars, AlphaInv, Alpha!Alphas
<1>2. CASE Alpha!Generate
  <2>1. alphas = {} /\ market' = market /\ stopPct' = stopPct
        /\ LET wanted == {Alpha!Alpha(market, p) : p \in Alpha!ProposalsOf(market)}
           IN alphas' = {[alphas |-> wanted, raised |-> \E a \in wanted : ~Alpha!Wellformed(a)]}
    BY <1>2 DEF Alpha!Generate
  <2>2. stopPct = {}
    BY <2>1 DEF AlphaInv, Alpha!Alphas
  <2> QED BY <2>1, <2>2 DEF AlphaInv
<1>3. CASE Alpha!Adapt
  <2>1. UNCHANGED <<market, alphas>> /\ \E a \in alphas : ~a.raised /\ \E alpha \in a.alphas :
          stopPct' = {[alpha |-> alpha, pct |-> Alpha!AdapterStop(alpha)]}
    BY <1>3 DEF Alpha!Adapt
  <2>2. \E alpha \in Alpha!Alphas : stopPct' = {[alpha |-> alpha, pct |-> Alpha!AdapterStop(alpha)]}
    BY <2>1 DEF Alpha!Alphas
  <2> QED BY <2>1, <2>2 DEF AlphaInv, Alpha!Alphas
<1> QED BY <1>1, <1>2, <1>3 DEF Alpha!Next

\* What is answered is made of the family's one proposal.
LEMMA AnswersAre ==
  ASSUME AlphaInv, alphas # {}
  PROVE  Alpha!Alphas = {Alpha!Alpha(market, p) : p \in Alpha!ProposalsOf(market)}
  BY DEF AlphaInv, Alpha!Alphas

\* The one proposal of the market is well formed, protected and turns round.
LEMMA AlphaInvSafe == AlphaInv => Alpha!Safe
<1> SUFFICES ASSUME AlphaInv PROVE Alpha!Safe
  OBVIOUS
<1>0. /\ market \in Alpha!Markets /\ market.price \in Nat \ {0}
      /\ OneProposal(Alpha!ProposalsOf(market), market)
  BY FamilyProposes, MarketFacts DEF AlphaInv, Proposes
<1>1. CASE alphas = {}
  <2>1. Alpha!Alphas = {} /\ stopPct = {}
    BY <1>1 DEF Alpha!Alphas, AlphaInv
  <2>2. Alpha!OneDirection
    BY <2>1, FS_EmptySet DEF Alpha!OneDirection, Alpha!Cardinality, Cardinality
  <2> QED BY <1>1, <2>1, <2>2 DEF Alpha!Safe, Alpha!StopsProtect, Alpha!WideStopsAreAnswered,
             Alpha!AdaptedStopIsTheFamilys, Alpha!TurnsRound
<1>2. CASE alphas # {}
  <2>1. Alpha!Alphas = {Alpha!Alpha(market, p) : p \in Alpha!ProposalsOf(market)}
    BY <1>2, AnswersAre
  <2>2. \/ Alpha!Alphas = {}
        \/ \E stop \in Int : /\ Alpha!Alphas = {Alpha!Alpha(market, <<"LONG", stop>>)}
                             /\ market.family # "volatility" => stop < market.price
        \/ \E stop \in Int : /\ Alpha!Alphas = {Alpha!Alpha(market, <<"SHORT", stop>>)} /\ stop > 0
                             /\ market.family # "volatility" => stop > market.price
    BY <1>0, <2>1 DEF OneProposal
  <2>3. Alpha!OneDirection
    <3>1. \/ Alpha!Alphas = {} \/ \E a : Alpha!Alphas = {a}
      BY <2>2
    <3>2. Cardinality(Alpha!Alphas) \in {0, 1}
      BY <3>1, FS_EmptySet, FS_Singleton, Zenon
    <3> QED BY <3>2 DEF Alpha!OneDirection, Alpha!Cardinality, Cardinality
  <2>4. ASSUME NEW stop \in Int
        PROVE  /\ LET a == Alpha!Alpha(market, <<"LONG", stop>>)
                  IN /\ a.direction = "LONG" /\ a.entry = market.price /\ a.effective = stop
                     /\ Alpha!Wellformed(a)
               /\ LET a == Alpha!Alpha(market, <<"SHORT", stop>>)
                  IN /\ a.direction = "SHORT" /\ a.entry = market.price /\ a.effective = stop
                     /\ stop > 0 => Alpha!Wellformed(a)
    BY <1>0 DEF Alpha!Alpha, Alpha!Wellformed, Alpha!Floored, Alpha!Floor
  <2>10. ASSUME NEW a \in Alpha!Alphas
         PROVE  /\ a.entry = market.price /\ a.effective \in Int /\ Alpha!Wellformed(a)
                /\ \/ /\ a.direction = "LONG"
                      /\ market.family # "volatility" => a.effective < a.entry
                   \/ /\ a.direction = "SHORT"
                      /\ market.family # "volatility" => a.effective > a.entry
    <3>1. CASE \E stop \in Int : /\ Alpha!Alphas = {Alpha!Alpha(market, <<"LONG", stop>>)}
                                 /\ market.family # "volatility" => stop < market.price
      <4>1. PICK stop \in Int : /\ a = Alpha!Alpha(market, <<"LONG", stop>>)
                                /\ market.family # "volatility" => stop < market.price
        BY <2>10, <3>1
      <4> QED BY <2>4, <4>1
    <3>2. CASE \E stop \in Int : /\ Alpha!Alphas = {Alpha!Alpha(market, <<"SHORT", stop>>)} /\ stop > 0
                                 /\ market.family # "volatility" => stop > market.price
      <4>1. PICK stop \in Int : /\ a = Alpha!Alpha(market, <<"SHORT", stop>>) /\ stop > 0
                                /\ market.family # "volatility" => stop > market.price
        BY <2>10, <3>2
      <4> QED BY <2>4, <4>1
    <3> QED BY <2>2, <2>10, <3>1, <3>2
  <2>5. Alpha!StopsProtect
    BY <2>10 DEF Alpha!StopsProtect
  <2>6. \A a \in Alpha!Alphas : Alpha!Wellformed(a)
    BY <2>10
  <2>7. Alpha!WideStopsAreAnswered
    <3>1. alphas = {[alphas |-> Alpha!Alphas, raised |-> \E a \in Alpha!Alphas : ~Alpha!Wellformed(a)]}
      BY <1>2, <2>1 DEF AlphaInv
    <3> QED BY <2>6, <3>1 DEF Alpha!WideStopsAreAnswered
  <2>8. Alpha!AdaptedStopIsTheFamilys
    <3> SUFFICES ASSUME NEW s \in stopPct, s.alpha.direction = "LONG",
                        0 < s.alpha.effective, s.alpha.effective < s.alpha.entry
                 PROVE  s.pct = ((s.alpha.entry - s.alpha.effective) * 10000) \div s.alpha.entry
      BY DEF Alpha!AdaptedStopIsTheFamilys
    <3>1. PICK a \in Alpha!Alphas : s = [alpha |-> a, pct |-> Alpha!AdapterStop(a)]
      BY DEF AlphaInv
    <3>2. a.effective \in Int
      BY <2>10
    <3>3. a.effective # 0
      BY <3>1, <3>2
    <3> QED BY <3>1, <3>3 DEF Alpha!AdapterStop
  <2>9. Alpha!TurnsRound
    BY <1>0, FamilyProposes DEF Alpha!TurnsRound, Proposes, TradesTurned
  <2> QED BY <2>3, <2>5, <2>7, <2>8, <2>9 DEF Alpha!Safe
<1> QED BY <1>1, <1>2

---------------------------------------------------------------------------
(* The parity gate                                                         *)

\* What a check reports of the signals as they are.
Differences == IF given THEN Parity!Unexplained ELSE 0
Compared ==
  [matches |-> IF given THEN Parity!Cardinality(Parity!Keys("backtest") \cap Parity!Keys("paper")) ELSE 0,
   unexplained |-> Differences,
   pass |-> (\A h \in Parity!Hashes : same[h]) /\ Differences = 0]

\* The report says of the signals what was compared, and nothing changes after.
ParityInv ==
  /\ signals \in [Parity!Sides -> Seq(SignalDirections \X Entries)]
  /\ parity # {} => parity = {Compared}

\* Before the check there is no report.
LEMMA InitParity == Parity!Init => ParityInv
  BY DEF Parity!Init, ParityInv

\* After the check no signal comes in.
LEMMA ParityStepKeeps == ParityInv /\ [Parity!Next]_parityVars => ParityInv'
<1> SUFFICES ASSUME ParityInv, [Parity!Next]_parityVars PROVE ParityInv'
  OBVIOUS
<1>1. ASSUME UNCHANGED <<same, signals, given>>
      PROVE  Compared' = Compared
  <2>1. /\ Parity!Keys("backtest")' = Parity!Keys("backtest")
        /\ Parity!Keys("paper")' = Parity!Keys("paper")
    BY <1>1 DEF Parity!Keys, Parity!Key, Parity!Cents
  <2>2. /\ Parity!Missing("backtest", "paper")' = Parity!Missing("backtest", "paper")
        /\ Parity!Missing("paper", "backtest")' = Parity!Missing("paper", "backtest")
    BY <1>1 DEF Parity!Missing, Parity!Keys, Parity!Key, Parity!Cents
  <2>3. Parity!Unexplained' = Parity!Unexplained
    BY <2>2, Zenon DEF Parity!Unexplained
  <2>4. Differences' = Differences
    BY <1>1, <2>3 DEF Differences
  <2>5. (\A h \in Parity!Hashes : same[h])' <=> (\A h \in Parity!Hashes : same[h])
    BY <1>1
  <2>6. given' = given
    BY <1>1
  <2> QED BY <2>1, <2>4, <2>5, <2>6, Zenon DEF Compared
<1>2. CASE UNCHANGED parityVars
  BY <1>1, <1>2 DEF parityVars, ParityInv
<1>3. ASSUME NEW side \in Parity!Sides, NEW direction \in SignalDirections, NEW entry \in Entries,
             Parity!Signal(side, direction, entry)
      PROVE  ParityInv'
  <2>1. /\ parity = {} /\ parity' = parity
        /\ signals' = [signals EXCEPT ![side] = Append(@, <<direction, entry>>)]
    BY <1>3 DEF Parity!Signal
  <2>2. signals' \in [Parity!Sides -> Seq(SignalDirections \X Entries)]
    BY <2>1 DEF ParityInv
  <2> QED BY <2>1, <2>2 DEF ParityInv
<1>4. CASE Parity!Check
  <2>1. parity' = {Compared} /\ UNCHANGED <<same, signals, given>>
    BY <1>4, Zenon DEF Parity!Check, Compared, Differences
  <2> QED BY <1>1, <2>1 DEF ParityInv
<1> QED BY <1>2, <1>3, <1>4 DEF Parity!Next

\* The keys of some signals of a side are no more than these signals.
LEMMA KeysCounted ==
  ASSUME ParityInv, NEW side \in Parity!Sides, NEW some, some \subseteq DOMAIN signals[side]
  PROVE  LET keys == {Parity!Key(signals[side][i]) : i \in some}
         IN /\ IsFiniteSet(some) /\ IsFiniteSet(keys)
            /\ Cardinality(keys) <= Cardinality(some)
            /\ Cardinality(some) \in Nat /\ Cardinality(keys) \in Nat
<1> DEFINE keys == {Parity!Key(signals[side][i]) : i \in some}
           f == [i \in some |-> Parity!Key(signals[side][i])]
<1>1. DOMAIN signals[side] = 1..Len(signals[side]) /\ Len(signals[side]) \in Nat
  BY DEF ParityInv
<1>2. IsFiniteSet(1..Len(signals[side]))
  BY <1>1, FS_Interval
<1>3. IsFiniteSet(some)
  BY <1>1, <1>2, FS_Subset
<1>4. f \in Surjection(some, keys)
  BY DEF Surjection
<1> HIDE DEF f, keys
<1>5. IsFiniteSet(keys) /\ Cardinality(keys) <= Cardinality(some)
  BY <1>3, <1>4, FS_Surjection
<1>6. Cardinality(some) \in Nat /\ Cardinality(keys) \in Nat
  BY <1>3, <1>5, FS_CardinalityType
<1> QED BY <1>3, <1>5, <1>6 DEF keys

\* The counts of one side: its signals are those found on the other side and
\* those missing there, and so are its keys.
LEMMA SideCounted ==
  ASSUME ParityInv, NEW side \in Parity!Sides, NEW other \in Parity!Sides
  PROVE  LET here == Parity!Keys(side)
             there == Parity!Keys(other)
             missing == Cardinality(Parity!Missing(side, other))
         IN /\ IsFiniteSet(here) /\ missing \in Nat
            /\ Cardinality(here \ there) <= missing
            /\ Cardinality(here \cap there) + missing <= Len(signals[side])
            /\ missing = 0 => here \subseteq there
<1> DEFINE here == Parity!Keys(side)
           there == Parity!Keys(other)
           gone == Parity!Missing(side, other)
           all == DOMAIN signals[side]
           found == all \ gone
<1>1. /\ gone \subseteq all /\ found \subseteq all
      /\ here \ there = {Parity!Key(signals[side][i]) : i \in gone}
      /\ here \cap there = {Parity!Key(signals[side][i]) : i \in found}
      /\ here = {Parity!Key(signals[side][i]) : i \in all}
  BY DEF Parity!Missing, Parity!Keys
<1>2. all = 1..Len(signals[side]) /\ Len(signals[side]) \in Nat
  BY DEF ParityInv
<1>3. IsFiniteSet(all) /\ Cardinality(all) = Len(signals[side])
  <2>1. \A n \in Nat : IsFiniteSet(1 .. n) /\ Cardinality(1 .. n) = n
    BY FS_Interval
  <2> HIDE DEF all
  <2> QED BY <1>2, <2>1
<1> HIDE DEF gone, here, there
<1>4. /\ IsFiniteSet(gone) /\ Cardinality(gone) \in Nat
      /\ Cardinality(here \ there) <= Cardinality(gone)
  BY <1>1, KeysCounted
<1>5. /\ IsFiniteSet(found) /\ Cardinality(found) \in Nat
      /\ Cardinality(here \cap there) <= Cardinality(found) /\ Cardinality(here \cap there) \in Nat
  BY <1>1, KeysCounted
<1>6. IsFiniteSet(here)
  BY <1>1, KeysCounted
<1>7. Cardinality(found) = Cardinality(all) - Cardinality(gone)
  <2>1. all \cap gone = gone
    BY <1>1
  <2> HIDE DEF all
  <2>2. Cardinality(all \ gone) = Cardinality(all) - Cardinality(all \cap gone)
    BY <1>3, FS_Difference, Zenon
  <2> QED BY <2>1, <2>2
<1>8. Cardinality(gone) = 0 => here \subseteq there
  <2>1. Cardinality(gone) = 0 => gone = {}
    BY <1>4, FS_EmptySet
  <2> QED BY <1>1, <2>1
<1>9. Cardinality(here \cap there) + Cardinality(gone) <= Len(signals[side])
  BY <1>2, <1>3, <1>4, <1>5, <1>7
<1> QED BY <1>4, <1>6, <1>8, <1>9 DEF gone, here, there

\* A parity that passes means the same keys, and the counts fit.
LEMMA ParityInvSafe == ParityInv => Parity!Safe
<1> SUFFICES ASSUME ParityInv PROVE Parity!Safe
  OBVIOUS
<1> DEFINE B == Parity!Keys("backtest")
           P == Parity!Keys("paper")
           b == Cardinality(Parity!Missing("backtest", "paper"))
           p == Cardinality(Parity!Missing("paper", "backtest"))
<1>1. /\ IsFiniteSet(B) /\ b \in Nat /\ Cardinality(B \ P) <= b
      /\ Cardinality(B \cap P) + b <= Len(signals["backtest"])
      /\ b = 0 => B \subseteq P
  BY SideCounted DEF Parity!Sides
<1>2. /\ IsFiniteSet(P) /\ p \in Nat /\ Cardinality(P \ B) <= p
      /\ Cardinality(P \cap B) + p <= Len(signals["paper"])
      /\ p = 0 => P \subseteq B
  BY SideCounted DEF Parity!Sides
<1>3. Len(signals["backtest"]) \in Nat /\ Len(signals["paper"]) \in Nat
  BY DEF ParityInv, Parity!Sides
<1>4. Parity!Unexplained = b + p
  BY DEF Parity!Unexplained, Parity!Cardinality, Cardinality
<1> HIDE DEF b, p
<1>5. ASSUME NEW r \in parity, given
      PROVE  /\ r.matches = Cardinality(B \cap P) /\ r.unexplained = b + p
             /\ r.pass => b + p = 0
  <2>1. r = Compared /\ Differences = b + p
    BY <1>4, <1>5 DEF ParityInv, Differences
  <2>2. r.matches = Cardinality(B \cap P) /\ r.unexplained = Differences
    BY <1>5, <2>1 DEF Compared, Parity!Cardinality, Cardinality
  <2>3. r.pass => Differences = 0
    BY <2>1, Zenon DEF Compared
  <2> QED BY <2>1, <2>2, <2>3
<1>6. ASSUME NEW r \in parity, r.pass
      PROVE  \A h \in Parity!Hashes : same[h]
  <2>1. r = Compared
    BY <1>6 DEF ParityInv
  <2> QED BY <1>6, <2>1, Zenon DEF Compared
<1> HIDE DEF B, P
<1>7. P \cap B = B \cap P
  OBVIOUS
<1>8. Cardinality(B \cup P) <= Cardinality(B \cap P) + (b + p)
  <2>1. /\ B \cup P = (B \cap P) \cup ((B \ P) \cup (P \ B))
        /\ IsFiniteSet(B \cap P) /\ IsFiniteSet(B \ P) /\ IsFiniteSet(P \ B)
    BY <1>1, <1>2, FS_Subset
  <2>2. /\ IsFiniteSet((B \ P) \cup (P \ B))
        /\ Cardinality((B \ P) \cup (P \ B)) =
             Cardinality(B \ P) + Cardinality(P \ B) - Cardinality((B \ P) \cap (P \ B))
    BY <2>1, FS_Union
  <2>3. Cardinality(B \cup P) =
          Cardinality(B \cap P) + Cardinality((B \ P) \cup (P \ B))
            - Cardinality((B \cap P) \cap ((B \ P) \cup (P \ B)))
    BY <2>1, <2>2, FS_Union
  <2>4. (B \ P) \cap (P \ B) = {} /\ (B \cap P) \cap ((B \ P) \cup (P \ B)) = {}
    OBVIOUS
  <2>5. /\ Cardinality(B \cap P) \in Nat /\ Cardinality(B \ P) \in Nat /\ Cardinality(P \ B) \in Nat
        /\ Cardinality({}) = 0
    BY <2>1, FS_CardinalityType, FS_EmptySet
  <2>6. Cardinality(B \cup P) = Cardinality(B \cap P) + (Cardinality(B \ P) + Cardinality(P \ B))
    <3>1. Cardinality((B \ P) \cup (P \ B)) = Cardinality(B \ P) + Cardinality(P \ B)
      BY <2>2, <2>4, <2>5
    <3> QED BY <2>3, <2>4, <2>5, <3>1
  <2> QED BY <1>1, <1>2, <2>5, <2>6
<1>9. Cardinality(B \cap P) \in Nat
  BY <1>1, FS_Subset, FS_CardinalityType
<1>10. Parity!PassMeansSameKeys
  <2> SUFFICES ASSUME NEW r \in parity, r.pass
               PROVE  /\ \A h \in Parity!Hashes : same[h]
                      /\ given => B = P /\ r.matches = Cardinality(P)
    BY DEF Parity!PassMeansSameKeys, B, P, Parity!Cardinality, Cardinality
  <2>1. ASSUME given PROVE B = P /\ r.matches = Cardinality(P)
    <3>1. b = 0 /\ p = 0
      BY <1>1, <1>2, <1>5, <2>1
    <3>2. B = P /\ B \cap P = P
      BY <1>1, <1>2, <3>1
    <3> QED BY <1>5, <2>1, <3>2
  <2> QED BY <1>6, <2>1
<1>11. Parity!CountsFit
  <2> SUFFICES ASSUME NEW r \in parity, given
               PROVE  /\ r.matches + r.unexplained >= Cardinality(B \cup P)
                      /\ r.unexplained <= Len(signals["backtest"]) + Len(signals["paper"]) - 2 * r.matches
    BY DEF Parity!CountsFit, B, P, Parity!Cardinality, Cardinality
  <2>1. r.matches = Cardinality(B \cap P) /\ r.unexplained = b + p
    BY <1>5
  <2>2. Cardinality(B \cup P) \in Nat
    BY <1>1, <1>2, FS_Union, FS_CardinalityType
  <2>3. /\ Cardinality(B \cap P) + b <= Len(signals["backtest"])
        /\ Cardinality(B \cap P) + p <= Len(signals["paper"]) /\ b \in Nat /\ p \in Nat
    BY <1>1, <1>2, <1>7
  <2> HIDE DEF B, P
  <2>4. Cardinality(B \cap P) + (b + p) >= Cardinality(B \cup P)
    BY <1>8, <1>9, <2>2, <2>3
  <2>5. b + p <= Len(signals["backtest"]) + Len(signals["paper"]) - 2 * Cardinality(B \cap P)
    <3>1. PICK x \in Nat, y \in Nat : x = Len(signals["backtest"]) /\ y = Len(signals["paper"])
      BY <1>3
    <3>2. PICK m \in Nat : m = Cardinality(B \cap P)
      BY <1>9
    <3>3. m + b <= x /\ m + p <= y /\ b \in Nat /\ p \in Nat
      BY <2>3, <3>1, <3>2
    <3>4. b + p <= x + y - 2 * m
      BY <3>3
    <3> QED BY <3>1, <3>2, <3>4
  <2> QED BY <2>1, <2>4, <2>5, Zenon
<1> QED BY <1>10, <1>11 DEF Parity!Safe

---------------------------------------------------------------------------
(* The router                                                              *)

\* The strategies the loop may choose from.
Able(map, gs, regime) ==
  {i \in DOMAIN map : Routing!Passes(map[i], gs, regime) /\ Routing!Score(map[i], regime) > -10}

\* What the strategies of a map score.
LEMMA ScoresTyped ==
  ASSUME NEW map \in StrategyMaps, NEW regime
  PROVE  /\ Len(map) \in Nat /\ DOMAIN map = 1 .. Len(map)
         /\ \A n \in DOMAIN map : Routing!Score(map[n], regime) \in Int
<1> DEFINE R == [enabled : BOOLEAN, status : STRING, regimes : SUBSET STRING, priority : Int]
<1>1. map \in Seq(R)
  BY RoutesAssumption DEF RoutesAssumption, Routing!RoutingAssumption
<1>2. Len(map) \in Nat /\ DOMAIN map = 1 .. Len(map) /\ \A n \in DOMAIN map : map[n] \in R
  <2> HIDE DEF R
  <2> QED BY <1>1
<1>3. \A entry \in R : entry.priority \in Int
  OBVIOUS
<1> HIDE DEF R
<1>4. \A n \in DOMAIN map : map[n].priority \in Int
  BY <1>2, <1>3
<1> QED BY <1>2, <1>4 DEF Routing!Score

\* What the loop over the map ends with: nothing, or the earliest of the
\* strategies with the highest score.
LEMMA BestOfTheMap ==
  ASSUME NEW map \in StrategyMaps, NEW gs, NEW regime
  PROVE  LET best == Routing!Best(map, gs, regime)
         IN /\ best.index = 0 => Able(map, gs, regime) = {}
            /\ best.index # 0 =>
                 /\ best.index \in Able(map, gs, regime)
                 /\ \A j \in Able(map, gs, regime) :
                      /\ Routing!Score(map[best.index], regime) >= Routing!Score(map[j], regime)
                      /\ Routing!Score(map[best.index], regime) = Routing!Score(map[j], regime)
                           => best.index <= j
<1> DEFINE N == Len(map)
           S(i) == Routing!Score(map[i], regime)
           Step(k, n) == IF n = 0 THEN [index |-> 0, score |-> -10]
                         ELSE IF Routing!Passes(map[n], gs, regime) /\ S(n) > k[n - 1].score
                              THEN [index |-> n, score |-> S(n)] ELSE k[n - 1]
           Upto(m, k) == \A n \in 0 .. m : k[n] = Step(k, n)
           P == {m \in Nat : \E k : Upto(m, k)}
<1>1. N \in Nat /\ DOMAIN map = 1 .. N /\ \A n \in 1 .. N : S(n) \in Int
  BY ScoresTyped
<1>2. 0 \in P
  <2>1. Upto(0, [n \in {0} |-> [index |-> 0, score |-> -10]])
    OBVIOUS
  <2> QED BY <2>1
<1>3. ASSUME NEW m \in Nat, m \in P
      PROVE  m + 1 \in P
  <2>1. PICK k : Upto(m, k)
    BY <1>3
  <2> DEFINE h == [n \in 0 .. m + 1 |-> IF n = m + 1 THEN Step(k, n) ELSE k[n]]
  <2>2. \A n \in 0 .. m : h[n] = k[n]
    OBVIOUS
  <2>3. h[m + 1] = Step(k, m + 1)
    OBVIOUS
  <2> HIDE DEF h, S
  <2>4. ASSUME NEW n \in 0 .. m + 1
        PROVE  h[n] = Step(h, n)
    <3>1. CASE n = m + 1
      BY <3>1, <2>2, <2>3
    <3>2. CASE n # m + 1
      <4>1. n \in 0 .. m /\ (n # 0 => n - 1 \in 0 .. m)
        BY <3>2
      <4>2. k[n] = Step(k, n)
        BY <2>1, <4>1
      <4>3. h[n] = k[n] /\ (n # 0 => h[n - 1] = k[n - 1])
        BY <2>2, <4>1
      <4>4. Step(h, n) = Step(k, n)
        BY <4>3
      <4> QED BY <4>2, <4>3, <4>4
    <3> QED BY <3>1, <3>2
  <2>5. Upto(m + 1, h)
    BY <2>4
  <2> QED BY <2>5
<1>4. PICK k : Upto(N, k)
  <2> HIDE DEF P
  <2>1. N \in P
    BY <1>1, <1>2, <1>3, NatInduct
  <2> QED BY <2>1 DEF P
<1> DEFINE Loop(g) == g = [n \in 0 .. N |-> Step(g, n)]
<1>5. Loop([n \in 0 .. N |-> k[n]])
  <2> DEFINE f == [n \in 0 .. N |-> k[n]]
  <2> HIDE DEF S
  <2>1. ASSUME NEW n \in 0 .. N
        PROVE  f[n] = Step(f, n)
    BY <1>1, <1>4
  <2> QED BY <2>1
<1>6. PICK g : Loop(g) /\ Routing!Best(map, gs, regime) = g[N]
  BY <1>5 DEF Routing!Best
<1>7. \A n \in 0 .. N : g[n] = Step(g, n)
  BY <1>1, <1>6
<1> DEFINE Seen(n) == {i \in Able(map, gs, regime) : i <= n}
           Right(n) ==
             \/ g[n] = [index |-> 0, score |-> -10] /\ Seen(n) = {}
             \/ /\ g[n].index \in Seen(n) /\ g[n].score = S(g[n].index)
                /\ \A j \in Seen(n) : S(g[n].index) >= S(j) /\ (S(g[n].index) = S(j) => g[n].index <= j)
           Q == {n \in Nat : n <= N => Right(n)}
<1>8. Able(map, gs, regime) = {i \in 1 .. N : Routing!Passes(map[i], gs, regime) /\ S(i) > -10}
  BY <1>1 DEF Able
<1> HIDE DEF S
<1>9. 0 \in Q
  <2>1. 0 \in 0 .. N
    BY <1>1
  <2>2. g[0] = [index |-> 0, score |-> -10]
    BY <1>7, <2>1
  <2>3. Seen(0) = {}
    BY <1>8
  <2> QED BY <2>2, <2>3
<1>10. ASSUME NEW n \in Nat, n \in Q, n + 1 <= N
       PROVE  Right(n + 1)
  <2>1. Right(n)
    BY <1>1, <1>10
  <2>2. n + 1 \in 0 .. N /\ n + 1 # 0 /\ (n + 1) - 1 = n /\ n + 1 \in 1 .. N
    BY <1>1, <1>10
  <2>3. g[n + 1] = IF Routing!Passes(map[n + 1], gs, regime) /\ S(n + 1) > g[n].score
                   THEN [index |-> n + 1, score |-> S(n + 1)] ELSE g[n]
    BY <1>7, <2>2
  <2>4. Seen(n + 1) = Seen(n) \cup (IF n + 1 \in Able(map, gs, regime) THEN {n + 1} ELSE {})
    BY <1>8
  <2>5. \A j \in Seen(n) : j \in 1 .. n /\ S(j) \in Int /\ S(j) > -10
    BY <1>1, <1>8, <2>2
  <2>6. S(n + 1) \in Int
    BY <1>1, <2>2
  <2>7. CASE Routing!Passes(map[n + 1], gs, regime) /\ S(n + 1) > g[n].score
    <3>1. g[n + 1].index = n + 1 /\ g[n + 1].score = S(n + 1)
      BY <2>3, <2>7
    <3>2. n + 1 \in Able(map, gs, regime)
      BY <1>8, <2>1, <2>2, <2>5, <2>6, <2>7
    <3>3. \A j \in Seen(n) : S(n + 1) > S(j)
      BY <2>1, <2>5, <2>6, <2>7
    <3>4. Seen(n + 1) = Seen(n) \cup {n + 1}
      BY <2>4, <3>2
    <3> QED BY <2>5, <2>6, <3>1, <3>3, <3>4
  <2>8. CASE ~(Routing!Passes(map[n + 1], gs, regime) /\ S(n + 1) > g[n].score)
    <3>1. g[n + 1] = g[n]
      BY <2>3, <2>8, Zenon
    <3>2. ASSUME n + 1 \in Able(map, gs, regime)
          PROVE  /\ g[n].index \in Seen(n) /\ S(g[n].index) >= S(n + 1)
                 /\ g[n].index <= n + 1
      <4>1. S(n + 1) > -10 /\ ~(S(n + 1) > g[n].score)
        BY <1>8, <2>8, <3>2
      <4>2. g[n].index \in Seen(n) /\ g[n].score = S(g[n].index)
        BY <2>1, <4>1
      <4> QED BY <2>5, <2>6, <4>1, <4>2
    <3> QED BY <2>1, <2>4, <3>1, <3>2
  <2> QED BY <2>7, <2>8
<1>11. Right(N)
  <2> HIDE DEF Right
  <2>1. ASSUME NEW n \in Nat, n \in Q
        PROVE  n + 1 \in Q
    <3>1. n + 1 <= N => Right(n + 1)
      BY <1>10, <2>1
    <3> QED BY <3>1
  <2> HIDE DEF Q
  <2>2. Nat \subseteq Q
    BY <1>9, <2>1, NatInduct
  <2> USE DEF Q
  <2> QED BY <1>1, <2>2
<1>12. Seen(N) = Able(map, gs, regime) /\ \A i \in Able(map, gs, regime) : i # 0
  BY <1>1, <1>8
<1>13. PICK best : best = Routing!Best(map, gs, regime)
  OBVIOUS
<1>14. \/ best.index = 0 /\ Able(map, gs, regime) = {}
       \/ /\ best.index \in Able(map, gs, regime)
          /\ \A j \in Able(map, gs, regime) :
               S(best.index) >= S(j) /\ (S(best.index) = S(j) => best.index <= j)
  <2>1. best = g[N]
    BY <1>6, <1>13, Zenon
  <2> QED BY <1>11, <1>12, <2>1
<1>15. /\ best.index = 0 => Able(map, gs, regime) = {}
       /\ best.index # 0 =>
            /\ best.index \in Able(map, gs, regime)
            /\ \A j \in Able(map, gs, regime) :
                 S(best.index) >= S(j) /\ (S(best.index) = S(j) => best.index <= j)
  BY <1>12, <1>14
<1> QED BY <1>13, <1>15, Zenon DEF S

---------------------------------------------------------------------------
(* The bars and the contexts built of them                                 *)

Bar == [ts : Nat, open : Nat \ {0}, high : Int, low : Int, close : Int]

\* Bars begin at multiples of their length, one after the other.
InOrder(series) ==
  /\ series \in Seq(Bar)
  /\ \A i, j \in 1 .. Len(series) : i < j => series[i].ts < series[j].ts

BarsInv ==
  /\ barClock \in 0 .. RouteTime /\ InOrder(bars)
  /\ \A i \in 1 .. Len(bars) :
       bars[i].ts <= barClock /\ bars[i].ts % BarLength = 0 /\ bars[i].low <= bars[i].high

\* The router decided about the context there is, which was valid.
RoutingInv ==
  /\ BarsInv
  /\ context = {} \/ \E c : /\ context = {c} /\ c.ts \in 1 .. barClock
                            /\ c.end \in Nat /\ c.count \in Nat
  /\ Routing!ReplayIsExact
  /\ decision = {} \/ \E c \in context, map \in StrategyMaps, gs \in RouterGates, told \in RegimesTold :
       decision = {Routing!Decision(c, map, gs, told)}

\* The bars opened by a time are a beginning of the series.
LEMMA PastOfASeries ==
  ASSUME NEW series, InOrder(series), NEW ts \in Int
  PROVE  \E n \in 0 .. Len(series) :
           /\ \A i \in 1 .. Len(series) : series[i].ts <= ts <=> i <= n
           /\ Routing!Past(series, ts) = n
<1> DEFINE N == Len(series)
           Late == {n \in Nat : n >= N \/ series[n + 1].ts > ts}
           Counts(n) == \A i \in 1 .. N : series[i].ts <= ts <=> i <= n
<1>1. N \in Nat /\ DOMAIN series = 1 .. N /\ \A i \in 1 .. N : series[i] \in Bar
  BY DEF InOrder
<1>2. \A i \in 1 .. N : series[i].ts \in Nat
  BY <1>1 DEF Bar
<1>3. Late # {} /\ Late \subseteq Nat
  <2>1. N \in Late
    BY <1>1
  <2> QED BY <2>1
<1>4. PICK n \in Late : \A m \in Late : ~(m < n)
  BY <1>3, NatMin
<1>5. n \in 0 .. N
  <2>1. N \in Late
    BY <1>1
  <2> QED BY <1>1, <1>4, <2>1
<1>6. ASSUME NEW i \in 1 .. N
      PROVE  series[i].ts <= ts <=> i <= n
  <2>1. CASE i <= n
    <3>1. i - 1 \in Nat /\ i - 1 < n /\ ~(i - 1 >= N) /\ (i - 1) + 1 = i
      BY <1>1, <1>5, <2>1
    <3>2. i - 1 \notin Late
      BY <1>4, <3>1
    <3>3. ~(series[i].ts > ts)
      BY <3>1, <3>2
    <3> QED BY <1>2, <2>1, <3>3
  <2>2. CASE i > n
    <3>1. n + 1 \in 1 .. N /\ series[n + 1].ts > ts
      BY <1>1, <1>4, <1>5, <2>2
    <3>2. n + 1 = i \/ n + 1 < i
      BY <1>5, <2>2
    <3>3. n + 1 < i => series[n + 1].ts < series[i].ts
      BY <3>1 DEF InOrder
    <3>4. series[i].ts > ts
      BY <1>2, <3>1, <3>2, <3>3
    <3> QED BY <1>2, <1>5, <2>2, <3>4
  <2> QED BY <1>5, <2>1, <2>2
<1> HIDE DEF Late
<1> DEFINE p == CHOOSE k \in 0 .. N : Counts(k)
<1>7. p \in 0 .. N /\ Counts(p)
  BY <1>5, <1>6
<1>8. Routing!Past(series, ts) = p
  BY <1>1 DEF Routing!Past
<1> HIDE DEF p
<1> QED BY <1>7, <1>8

\* A window of a series is made of its bars that opened by the time.
LEMMA WindowOfASeries ==
  ASSUME NEW series, InOrder(series), NEW ts \in Int
  PROVE  LET w == Routing!SliceWindow(series, ts)
         IN /\ w \in Seq(Bar)
            /\ \A i \in 1 .. Len(w) : w[i].ts <= ts
<1>1. PICK n \in 0 .. Len(series) :
           /\ \A i \in 1 .. Len(series) : series[i].ts <= ts <=> i <= n
           /\ Routing!Past(series, ts) = n
  BY PastOfASeries
<1>2. series \in Seq(Bar) /\ Len(series) \in Nat
  BY DEF InOrder
<1>3. SubSeq(series, 1, n) \in Seq(Bar)
  <2> HIDE DEF Bar
  <2> QED BY <1>2
<1>4. PICK past : past = SubSeq(series, 1, n)
  OBVIOUS
<1>5. past \in Seq(Bar) /\ Len(past) = n /\ \A i \in 1 .. n : past[i] = series[i]
  <2>1. past \in Seq(Bar)
    BY <1>3, <1>4
  <2>2. Len(past) = n
    BY <1>2, <1>4
  <2>3. \A i \in 1 .. n : past[i] = series[i]
    BY <1>2, <1>4
  <2> QED BY <2>1, <2>2, <2>3
<1>6. PICK from : from = Routing!Larger(1, Len(past) - RouteWindow + 1)
  OBVIOUS
<1>7. from \in Nat \ {0}
  <2>1. RouteWindow \in Nat
    BY RoutesAssumption DEF RoutesAssumption, Routing!RoutingAssumption
  <2> QED BY <1>5, <1>6, <2>1 DEF Routing!Larger
<1>8. PICK w : w = SubSeq(past, from, Len(past))
  OBVIOUS
<1>9. w \in Seq(Bar)
  <2> HIDE DEF Bar
  <2>1. \A i \in from .. Len(past) : i \in 1 .. Len(past)
    BY <1>5, <1>7
  <2> QED BY <1>5, <1>7, <1>8, <2>1
<1>10. /\ Len(w) \in Nat
       /\ \A i \in 1 .. Len(w) : from + i - 1 \in 1 .. n /\ w[i] = past[from + i - 1]
  <2>1. Len(w) = IF from <= n THEN n - from + 1 ELSE 0
    BY <1>5, <1>7, <1>8
  <2>2. \A i \in 1 .. Len(w) : from + i - 1 \in 1 .. n
    BY <1>5, <1>7, <2>1
  <2>3. \A i \in 1 .. Len(w) : w[i] = past[from + i - 1]
    BY <1>5, <1>7, <1>8, <2>1
  <2> QED BY <1>5, <1>7, <2>1, <2>2, <2>3
<1>11. \A i \in 1 .. Len(w) : w[i].ts <= ts
  <2> SUFFICES ASSUME NEW i \in 1 .. Len(w) PROVE w[i].ts <= ts
    OBVIOUS
  <2>1. PICK j \in 1 .. n : j = from + i - 1
    BY <1>10
  <2>2. w[i] = series[j]
    BY <1>5, <1>10, <2>1
  <2> QED BY <1>1, <1>2, <2>2
<1>12. Routing!SliceWindow(series, ts) = w
  BY <1>1, <1>4, <1>6, <1>8 DEF Routing!SliceWindow, Routing!LastN
<1> QED BY <1>9, <1>10, <1>11, <1>12

\* What the agent built is valid if it is signed, as the history it insists on
\* is enough.
LEMMA BuiltIsValid ==
  ASSUME NEW series, InOrder(series), NEW ts \in Nat, NEW signed \in BOOLEAN,
         NEW c \in Routing!ContextOf(series, ts, signed)
  PROVE  /\ Routing!ContextOf(series, ts, signed) = {c} /\ c.ts = ts /\ c.signed = signed
         /\ c.end \in Nat /\ c.count \in Nat /\ c.end <= ts
         /\ Routing!Valid(c) <=> signed /\ ts > 0
<1>1. PICK w \in Seq(Bar) : w = Routing!SliceWindow(series, ts)
  BY WindowOfASeries
<1>2. \A i \in 1 .. Len(w) : w[i].ts <= ts
  BY <1>1, WindowOfASeries
<1>3. Routing!ContextOf(series, ts, signed) =
        IF Len(w) < MinBars THEN {}
        ELSE {[ts |-> ts, signed |-> signed, regime |-> Routing!ClassifyRegime(w), atr |-> Routing!AtrOf(w),
               trend |-> Routing!TrendOf(w), rsi |-> Routing!RsiOf(w),
               returns |-> Routing!ReturnsOf(w), end |-> Routing!Last(w).ts, count |-> Len(w)]}
  BY <1>1 DEF Routing!ContextOf
<1>4. ~(Len(w) < MinBars)
  BY <1>3
<1>5. c = [ts |-> ts, signed |-> signed, regime |-> Routing!ClassifyRegime(w), atr |-> Routing!AtrOf(w),
           trend |-> Routing!TrendOf(w), rsi |-> Routing!RsiOf(w),
           returns |-> Routing!ReturnsOf(w), end |-> Routing!Last(w).ts, count |-> Len(w)]
  BY <1>3, <1>4
<1>6. Routing!ContextOf(series, ts, signed) = {c}
  BY <1>3, <1>4, <1>5
<1>7. /\ MinBars \in Nat /\ MinBars > 1 /\ MinBars > Slow /\ MinBars > AtrPeriod
      /\ MinBars > RsiPeriod /\ MinBars > ReturnsBack
      /\ Slow \in Nat /\ AtrPeriod \in Nat /\ RsiPeriod \in Nat /\ ReturnsBack \in Nat
  BY RoutesAssumption DEF RoutesAssumption, Routing!RoutingAssumption
<1>8. Len(w) \in Nat /\ Len(w) >= MinBars /\ Len(w) \in 1 .. Len(w)
  BY <1>4, <1>7
<1>9. Routing!Last(w).ts \in Nat /\ Routing!Last(w).ts <= ts
  <2>1. Routing!Last(w) = w[Len(w)] /\ w[Len(w)] \in Bar
    BY <1>8 DEF Routing!Last
  <2> QED BY <1>2, <1>8, <2>1 DEF Bar
<1>10. Routing!AtrOf(w) # {}
  <2>1. ~(Len(w) < AtrPeriod + 1)
    BY <1>7, <1>8
  <2> QED BY <2>1, Zenon DEF Routing!AtrOf
<1>11. Routing!TrendOf(w) # {}
  <2>1. ~(Len(w) < Slow + 1)
    BY <1>7, <1>8
  <2> QED BY <2>1, Zenon DEF Routing!TrendOf
<1>12. Routing!RsiOf(w) # {}
  <2>1. ~(Len(w) < RsiPeriod + 1)
    BY <1>7, <1>8
  <2> DEFINE F(x) == IF Len(w) < RsiPeriod + 1 THEN {} ELSE {x}
  <2>2. \A x : F(x) # {}
    BY <2>1
  <2>3. \E x : Routing!RsiOf(w) = F(x)
    BY Zenon DEF Routing!RsiOf
  <2> QED BY <2>2, <2>3
<1>13. Routing!ReturnsOf(w) # {}
  <2>1. ~(Len(w) < Routing!Larger(2, ReturnsBack + 1))
    BY <1>7, <1>8 DEF Routing!Larger
  <2> QED BY <2>1, Zenon DEF Routing!ReturnsOf
<1> QED BY <1>5, <1>6, <1>8, <1>9, <1>10, <1>11, <1>12, <1>13 DEF Routing!Valid

\* A window does not see what changes after its time.
LEMMA WindowKept ==
  ASSUME NEW series, InOrder(series), NEW more, InOrder(more), NEW ts \in Int,
         NEW k \in Nat, k <= Len(series), k <= Len(more),
         \A i \in 1 .. k : series[i] = more[i],
         \A i \in 1 .. Len(series) : i > k => series[i].ts > ts,
         \A i \in 1 .. Len(more) : i > k => more[i].ts > ts
  PROVE  Routing!SliceWindow(more, ts) = Routing!SliceWindow(series, ts)
<1>1. PICK n \in 0 .. Len(series) :
           /\ \A i \in 1 .. Len(series) : series[i].ts <= ts <=> i <= n
           /\ Routing!Past(series, ts) = n
  BY PastOfASeries
<1>2. PICK m \in 0 .. Len(more) :
           /\ \A i \in 1 .. Len(more) : more[i].ts <= ts <=> i <= m
           /\ Routing!Past(more, ts) = m
  BY PastOfASeries
<1>3. /\ series \in Seq(Bar) /\ more \in Seq(Bar) /\ Len(series) \in Nat /\ Len(more) \in Nat
      /\ \A i \in 1 .. Len(series) : series[i].ts \in Nat
      /\ \A i \in 1 .. Len(more) : more[i].ts \in Nat
  <2>1. series \in Seq(Bar) /\ more \in Seq(Bar)
    BY DEF InOrder
  <2>2. /\ \A i \in 1 .. Len(series) : series[i] \in Bar
        /\ \A i \in 1 .. Len(more) : more[i] \in Bar
    <3> HIDE DEF Bar
    <3> QED BY <2>1
  <2>3. /\ \A i \in 1 .. Len(series) : series[i].ts \in Nat
        /\ \A i \in 1 .. Len(more) : more[i].ts \in Nat
    BY <2>2 DEF Bar
  <2>4. Len(series) \in Nat /\ Len(more) \in Nat
    BY <2>1
  <2> QED BY <2>1, <2>3, <2>4
<1>4. n <= k
  <2> SUFFICES ASSUME n > k PROVE FALSE
    BY <1>3
  <2>1. n \in 1 .. Len(series) /\ series[n].ts <= ts /\ series[n].ts > ts
    BY <1>1, <1>3
  <2> QED BY <1>3, <2>1
<1>5. m <= k
  <2> SUFFICES ASSUME m > k PROVE FALSE
    BY <1>3
  <2>1. m \in 1 .. Len(more) /\ more[m].ts <= ts /\ more[m].ts > ts
    BY <1>2, <1>3
  <2> QED BY <1>3, <2>1
<1>6. \A i \in 1 .. k : i <= n <=> i <= m
  <2> SUFFICES ASSUME NEW i \in 1 .. k PROVE i <= n <=> i <= m
    OBVIOUS
  <2>1. i \in 1 .. Len(series) /\ i \in 1 .. Len(more) /\ series[i] = more[i]
    BY <1>3
  <2> QED BY <1>1, <1>2, <2>1
<1>7. n = m
  <2>1. n > 0 => n <= m
    BY <1>4, <1>6
  <2>2. m > 0 => m <= n
    BY <1>5, <1>6
  <2> QED BY <2>1, <2>2
<1>8. SubSeq(series, 1, n) = SubSeq(more, 1, n)
  <2>1. \A i \in 1 .. n : series[i] = more[i]
    BY <1>4
  <2>2. n <= Len(series) /\ n <= Len(more)
    BY <1>1, <1>2, <1>7
  <2>3. /\ SubSeq(series, 1, n) = [i \in 1 .. n |-> series[i]]
        /\ SubSeq(more, 1, n) = [i \in 1 .. n |-> more[i]]
    BY <1>3, <2>2
  <2> QED BY <2>1, <2>3
<1> QED BY <1>1, <1>2, <1>7, <1>8 DEF Routing!SliceWindow

\* Where the period of a time begins.
LEMMA Opening ==
  ASSUME NEW t \in Nat, NEW b \in Nat \ {0}
  PROVE  LET open == (t \div b) * b
         IN /\ open \in Nat /\ open <= t /\ t < open + b /\ open % b = 0
            /\ \A s \in Nat : s <= t /\ s % b = 0 => s <= open
<1> DEFINE q == t \div b
           open == q * b
<1>1. q \in Nat /\ t = b * q + (t % b) /\ t % b \in 0 .. b - 1
  OBVIOUS
<1>2. open = b * q /\ open \in Nat
  BY <1>1
<1> HIDE DEF q, open
<1>3. open <= t /\ t < open + b
  BY <1>1, <1>2
<1>4. \A k, l \in Int : k < l => b * k + b <= b * l
  <2> SUFFICES ASSUME NEW k \in Int, NEW l \in Int, k < l PROVE b * k + b <= b * l
    OBVIOUS
  <2>1. PICK d \in Nat : l = k + 1 + d
    <3>1. l - k - 1 \in Nat /\ l = k + 1 + (l - k - 1)
      OBVIOUS
    <3> QED BY <3>1
  <2>2. b * (k + 1 + d) = b * k + b + b * d
    OBVIOUS
  <2>3. b * d \in Nat
    OBVIOUS
  <2> QED BY <2>1, <2>2, <2>3
<1>5. \A k \in Int, r \in 0 .. b - 1, m \in Int : b * k = b * m + r => r = 0
  <2> SUFFICES ASSUME NEW k \in Int, NEW r \in 0 .. b - 1, NEW m \in Int, b * k = b * m + r
               PROVE  r = 0
    OBVIOUS
  <2>1. PICK x \in Int, y \in Int : x = b * k /\ y = b * m
    OBVIOUS
  <2>2. x = y + r
    BY <2>1
  <2>3. (m < k => y + b <= x) /\ (k < m => x + b <= y)
    BY <1>4, <2>1
  <2>4. k = m
    BY <2>2, <2>3
  <2> QED BY <2>1, <2>2, <2>4
<1>6. open % b = 0
  <2>1. open \div b \in Int /\ open % b \in 0 .. b - 1 /\ open = b * (open \div b) + (open % b)
    <3>1. \A x \in Nat : x \div b \in Int /\ x % b \in 0 .. b - 1 /\ x = b * (x \div b) + (x % b)
      OBVIOUS
    <3> QED BY <1>2, <3>1, Zenon
  <2> QED BY <1>1, <1>2, <1>5, <2>1
<1>7. ASSUME NEW s \in Nat, s <= t, s % b = 0
      PROVE  s <= open
  <2>1. s \div b \in Int /\ s = b * (s \div b)
    BY <1>7
  <2>2. PICK k \in Int : s = b * k
    BY <2>1
  <2>3. q < k => b * q + b <= b * k
    BY <1>1, <1>4, <2>2
  <2>4. ~(q < k)
    BY <1>2, <1>3, <1>7, <2>2, <2>3
  <2>5. k < q => b * k + b <= b * q
    BY <1>1, <1>4, <2>2
  <2>6. k = q => s = open
    BY <1>2, <2>2
  <2> QED BY <1>1, <1>2, <2>2, <2>4, <2>5, <2>6
<1> QED BY <1>2, <1>3, <1>6, <1>7 DEF q, open

\* What is built of two series whose windows agree agrees.
LEMMA ContextKept ==
  ASSUME NEW series, NEW more, NEW ts, NEW signed,
         Routing!SliceWindow(more, ts) = Routing!SliceWindow(series, ts)
  PROVE  Routing!ContextOf(more, ts, signed) = Routing!ContextOf(series, ts, signed)
BY Zenon DEF Routing!ContextOf

\* The fields of a bar.
LEMMA BarOf ==
  ASSUME NEW s, s \in Seq(Bar), NEW i \in 1 .. Len(s)
  PROVE  /\ s[i] \in Bar /\ s[i].ts \in Nat /\ s[i].open \in Nat \ {0}
         /\ s[i].high \in Int /\ s[i].low \in Int /\ s[i].close \in Int
<1>1. s[i] \in Bar
  <2> HIDE DEF Bar
  <2> QED OBVIOUS
<1> QED BY <1>1 DEF Bar

\* The fields of a bar of the series.
LEMMA BarsTyped ==
  ASSUME NEW series, InOrder(series), NEW i \in 1 .. Len(series)
  PROVE  /\ series[i] \in Bar /\ series[i].ts \in Nat /\ series[i].open \in Nat \ {0}
         /\ series[i].high \in Int /\ series[i].low \in Int /\ series[i].close \in Int
<1>1. series \in Seq(Bar)
  BY DEF InOrder
<1> QED BY <1>1, BarOf

\* There is no bar yet, and nothing was built.
LEMMA InitRouting == ASSUME Routing!Init PROVE RoutingInv
<1>1. bars = <<>> /\ barClock = 0 /\ context = {} /\ decision = {}
  BY DEF Routing!Init
<1>2. RouteTime \in Nat
  BY RoutesAssumption DEF RoutesAssumption, Routing!RoutingAssumption
<1>3. BarsInv
  BY <1>1, <1>2 DEF BarsInv, InOrder
<1>4. Routing!ReplayIsExact
  BY <1>1 DEF Routing!ReplayIsExact
<1> QED BY <1>1, <1>3, <1>4 DEF RoutingInv

\* A trade widens the bar it falls in and leaves its time.
LEMMA TradedBar ==
  ASSUME NEW bar \in Bar, bar.low <= bar.high, NEW price \in Nat \ {0}
  PROVE  /\ Routing!Traded(bar, price) \in Bar /\ Routing!Traded(bar, price).ts = bar.ts
         /\ Routing!Traded(bar, price).low <= Routing!Traded(bar, price).high
<1>1. bar.high \in Int /\ bar.low \in Int
  BY DEF Bar
<1>2. PICK high \in Int : high = Routing!Larger(bar.high, price)
  BY <1>1 DEF Routing!Larger
<1>3. PICK low \in Int : low = Routing!Smaller(bar.low, price)
  BY <1>1 DEF Routing!Smaller
<1>4. low <= high
  BY <1>1, <1>2, <1>3 DEF Routing!Larger, Routing!Smaller
<1>5. Routing!Traded(bar, price) = [bar EXCEPT !.high = high, !.low = low, !.close = price]
  BY <1>2, <1>3, Zenon DEF Routing!Traded
<1>6. price \in Int
  OBVIOUS
<1>7. [bar EXCEPT !.high = high, !.low = low, !.close = price] \in Bar
  BY <1>6, Zenon DEF Bar
<1>8. LET new == [bar EXCEPT !.high = high, !.low = low, !.close = price]
      IN new.ts = bar.ts /\ new.low = low /\ new.high = high
  BY DEF Bar
<1> QED BY <1>4, <1>5, <1>7, <1>8

\* A trade updates the last bar or opens the next one, which no context that
\* was built before its time sees.
LEMMA TradeKeeps == ASSUME RoutingInv, NEW price \in RoutePrices, Routing!Trade(price) PROVE RoutingInv'
<1> DEFINE open == (barClock' \div BarLength) * BarLength
           L == Len(bars)
           upd(bar) == Routing!Traded(bar, price)
           new == [ts |-> open, open |-> price, high |-> price, low |-> price, close |-> price]
<1>1. /\ BarLength \in Nat \ {0} /\ RouteTime \in Nat /\ price \in Nat \ {0}
  BY RoutesAssumption DEF RoutesAssumption, Routing!RoutingAssumption
<1>2. /\ barClock \in 0 .. RouteTime /\ InOrder(bars) /\ L \in Nat
      /\ \A i \in 1 .. L : bars[i].ts <= barClock /\ bars[i].ts % BarLength = 0 /\ bars[i].low <= bars[i].high
  BY DEF RoutingInv, BarsInv, InOrder
<1>3. /\ barClock < RouteTime /\ barClock' = barClock + 1
      /\ context' = context /\ decision' = decision
  BY DEF Routing!Trade
<1>4. barClock' \in 0 .. RouteTime /\ barClock' \in Nat
  BY <1>1, <1>2, <1>3
<1>5. /\ open \in Nat /\ open <= barClock' /\ barClock' < open + BarLength /\ open % BarLength = 0
      /\ \A s \in Nat : s <= barClock' /\ s % BarLength = 0 => s <= open
  BY <1>1, <1>4, Opening, Zenon
<1> HIDE DEF open
<1> DEFINE Fits(k, bar) ==
             /\ bars' = [i \in 1 .. k + 1 |-> IF i = k + 1 THEN bar ELSE bars[i]]
             /\ bar.ts = open /\ bar.low <= bar.high
             /\ k = L \/ (k + 1 = L /\ bars[L].ts = open)
             /\ \A i \in 1 .. k : bars[i].ts < open
<1>6. PICK k \in 0 .. L, bar \in Bar : Fits(k, bar)
  <2>1. CASE bars # <<>> /\ Routing!Last(bars).ts = open
    <3>1. L \in 1 .. L /\ bars[L].ts = open /\ L - 1 \in 0 .. L /\ (L - 1) + 1 = L
      <4>1. L # 0
        BY <1>2, <2>1 DEF InOrder
      <4> QED BY <1>2, <2>1, <4>1 DEF Routing!Last
    <3>2. bars[L] \in Bar /\ bars[L].high \in Int /\ bars[L].low \in Int /\ bars[L].low <= bars[L].high
      BY <1>2, <3>1, BarsTyped
    <3>3. upd(bars[L]) \in Bar /\ upd(bars[L]).ts = open /\ upd(bars[L]).low <= upd(bars[L]).high
      BY <1>1, <3>1, <3>2, TradedBar
    <3>4. bars' = [bars EXCEPT ![L] = upd(bars[L])]
      BY <2>1 DEF Routing!Trade, open
    <3> HIDE DEF upd
    <3>5. bars' = [i \in 1 .. L |-> IF i = L THEN upd(bars[L]) ELSE bars[i]]
      <4>1. DOMAIN bars = 1 .. L /\ bars = [i \in 1 .. L |-> bars[i]]
        <5>1. bars \in Seq(Bar)
          BY <1>2 DEF InOrder
        <5> HIDE DEF Bar
        <5> QED BY <5>1
      <4> HIDE DEF L
      <4> QED BY <3>4, <4>1
    <3>6. \A i \in 1 .. L - 1 : bars[i].ts < open
      BY <1>2, <3>1 DEF InOrder
    <3>7. PICK k \in 0 .. L : k = L - 1 /\ k + 1 = L
      BY <3>1, Zenon
    <3>8. PICK bar \in Bar : bar = upd(bars[L])
      BY <3>3
    <3>9. Fits(k, bar)
      BY <3>1, <3>3, <3>5, <3>6, <3>7, <3>8, Zenon
    <3> HIDE DEF Fits, L
    <3> QED BY <3>9, Zenon
  <2>2. CASE ~(bars # <<>> /\ Routing!Last(bars).ts = open)
    <3>1. bars' = Append(bars, new)
      BY <2>2 DEF Routing!Trade, open
    <3>2. bars' = [i \in 1 .. L + 1 |-> IF i = L + 1 THEN new ELSE bars[i]]
      <4>1. bars \in Seq(Bar)
        BY <1>2 DEF InOrder
      <4>2. DOMAIN bars = 1 .. L
        BY <4>1
      <4>3. \A s, e : Len(s) \in Nat /\ s \in Seq(Bar) =>
              Append(s, e) = [i \in 1 .. Len(s) + 1 |-> IF i = Len(s) + 1 THEN e ELSE s[i]]
        <5> SUFFICES ASSUME NEW s, NEW e, Len(s) \in Nat, s \in Seq(Bar)
                     PROVE  Append(s, e) = [i \in 1 .. Len(s) + 1 |-> IF i = Len(s) + 1 THEN e ELSE s[i]]
          BY Zenon
        <5> HIDE DEF Bar
        <5>1. s \in Seq(Bar \cup {e}) /\ e \in Bar \cup {e}
          OBVIOUS
        <5>2. Append(s, e) = [i \in 1 .. Len(Append(s, e)) |-> Append(s, e)[i]]
          <6>1. \A S : \A a \in Seq(S) : a = [i \in 1 .. Len(a) |-> a[i]]
            OBVIOUS
          <6>2. Append(s, e) \in Seq(Bar \cup {e})
            BY <5>1
          <6> QED BY <6>1, <6>2, Zenon
        <5>3. Len(Append(s, e)) = Len(s) + 1
          BY <5>1
        <5>4. \A i \in 1 .. Len(s) + 1 : Append(s, e)[i] = IF i = Len(s) + 1 THEN e ELSE s[i]
          BY <5>1
        <5> QED BY <5>2, <5>3, <5>4
      <4> HIDE DEF Bar, new
      <4> QED BY <1>2, <3>1, <4>1, <4>3, Zenon
    <3>3. new \in Bar /\ new.ts = open /\ new.low <= new.high
      BY <1>1, <1>5 DEF Bar
    <3>4. \A i \in 1 .. L : bars[i].ts \in Nat /\ bars[i].ts <= open
      <4> SUFFICES ASSUME NEW i \in 1 .. L PROVE bars[i].ts \in Nat /\ bars[i].ts <= open
        OBVIOUS
      <4>1. bars[i].ts \in Nat
        BY <1>2, BarsTyped
      <4>2. bars[i].ts <= barClock'
        BY <1>2, <1>3, <4>1
      <4> QED BY <1>2, <1>5, <4>1, <4>2
    <3>5. L > 0 => bars[L].ts # open
      <4>1. L > 0 => bars # <<>>
        OBVIOUS
      <4> QED BY <2>2, <4>1 DEF Routing!Last
    <3>6. \A i \in 1 .. L : i < L => bars[i].ts < bars[L].ts
      BY <1>2 DEF InOrder
    <3>7. \A i \in 1 .. L : bars[i].ts < open
      BY <1>2, <1>5, <3>4, <3>5, <3>6
    <3> HIDE DEF new
    <3>8. L \in 0 .. L
      BY <1>2
    <3> QED BY <3>2, <3>3, <3>7, <3>8
  <2> QED BY <2>1, <2>2
<1>7. k \in Nat /\ k <= L
  BY <1>2, <1>6
<1>8. /\ Len(bars') = k + 1 /\ DOMAIN bars' = 1 .. k + 1
      /\ bars'[k + 1] = bar /\ \A i \in 1 .. k : bars'[i] = bars[i]
  <2> HIDE DEF Bar, L
  <2> QED BY <1>6, <1>7
<1>9. \A i \in 1 .. k : bars[i] \in Bar /\ bars[i].ts \in Nat
  BY <1>2, <1>7, BarsTyped
<1>10. InOrder(bars)'
  <2>1. bars' \in Seq(Bar)
    <3> HIDE DEF Bar, L
    <3> QED BY <1>6, <1>7, <1>9
  <2>2. ASSUME NEW i \in 1 .. k + 1, NEW j \in 1 .. k + 1, i < j
        PROVE  bars'[i].ts < bars'[j].ts
    <3>1. i \in 1 .. k
      BY <1>7, <2>2
    <3>2. CASE j = k + 1
      BY <1>6, <1>8, <3>1, <3>2
    <3>3. CASE j # k + 1
      <4>1. j \in 1 .. k /\ j \in 1 .. L /\ i \in 1 .. L
        BY <1>2, <1>7, <3>1, <3>3
      <4>2. bars[i].ts < bars[j].ts
        BY <1>2, <2>2, <4>1 DEF InOrder
      <4> QED BY <1>8, <3>1, <4>1, <4>2
    <3> QED BY <3>2, <3>3
  <2> QED BY <1>8, <2>1, <2>2 DEF InOrder
<1>11. BarsInv'
  <2> SUFFICES ASSUME NEW i \in 1 .. k + 1
               PROVE  /\ bars'[i].ts <= barClock' /\ bars'[i].ts % BarLength = 0
                      /\ bars'[i].low <= bars'[i].high
    BY <1>4, <1>8, <1>10 DEF BarsInv
  <2>1. CASE i = k + 1
    BY <1>5, <1>6, <1>8, <2>1
  <2>2. CASE i # k + 1
    <3>1. i \in 1 .. k /\ i \in 1 .. L
      BY <1>2, <1>7, <2>2
    <3>2. bars'[i] = bars[i] /\ bars[i].ts \in Nat
      BY <1>8, <1>9, <3>1
    <3>3. bars[i].ts <= barClock /\ bars[i].ts % BarLength = 0 /\ bars[i].low <= bars[i].high
      BY <1>2, <3>1
    <3>4. bars[i].ts <= barClock'
      BY <1>2, <1>3, <3>2, <3>3
    <3> QED BY <3>2, <3>3, <3>4
  <2> QED BY <2>1, <2>2
<1>12. context = {} \/ \E c : /\ context = {c} /\ c.ts \in 1 .. barClock
                             /\ c.end \in Nat /\ c.count \in Nat
  BY DEF RoutingInv
<1>13. ASSUME NEW c \in context,
              \A i \in 1 .. k + 1 : bars'[i].ts > c.ts \/ bars'[i].ts + BarLength <= c.ts
       PROVE  Routing!ContextOf(bars', c.ts, c.signed) = {c}
  <2>1. c.ts \in 1 .. barClock
    BY <1>12
  <2>2. open > c.ts
    <3>1. k + 1 \in 1 .. k + 1
      BY <1>7
    <3>2. open > c.ts \/ open + BarLength <= c.ts
      BY <1>6, <1>8, <1>13, <3>1
    <3> QED BY <1>1, <1>2, <1>3, <1>5, <2>1, <3>2
  <2>3. ASSUME NEW i \in 1 .. L
        PROVE  bars[i].ts > c.ts \/ bars[i].ts + BarLength <= c.ts
    <3>1. CASE i <= k
      BY <1>7, <1>8, <1>13, <3>1
    <3>2. CASE i > k
      <4>1. i = L /\ bars[L].ts = open
        BY <1>2, <1>6, <1>7, <3>2
      <4> QED BY <2>2, <4>1
    <3> QED BY <1>7, <3>1, <3>2
  <2>4. Routing!ContextOf(bars, c.ts, c.signed) = {c}
    <3>1. DOMAIN bars = 1 .. L
      BY <1>2 DEF InOrder
    <3> QED BY <2>3, <3>1 DEF RoutingInv, Routing!ReplayIsExact
  <2>5. Routing!SliceWindow(bars', c.ts) = Routing!SliceWindow(bars, c.ts)
    <3>1. ASSUME NEW i \in 1 .. L, i > k
          PROVE  bars[i].ts > c.ts
      <4>1. i = L /\ bars[L].ts = open
        BY <1>2, <1>6, <1>7, <3>1
      <4> QED BY <2>2, <4>1
    <3>2. ASSUME NEW i \in 1 .. k + 1, i > k
          PROVE  bars'[i].ts > c.ts
      <4>1. i = k + 1
        BY <1>7, <3>2
      <4> QED BY <1>6, <1>8, <2>2, <4>1
    <3>3. PICK more : more = bars'
      OBVIOUS
    <3>4. InOrder(more)
      BY <1>10, <3>3 DEF InOrder
    <3>5. k <= Len(more) /\ Len(more) = k + 1
      BY <1>7, <1>8, <3>3
    <3>6. \A i \in 1 .. k : bars[i] = more[i]
      BY <1>8, <3>3
    <3>7. c.ts \in Int
      BY <2>1
    <3>8. \A i \in 1 .. Len(bars) : i > k => bars[i].ts > c.ts
      BY <3>1
    <3>9. \A i \in 1 .. Len(more) : i > k => more[i].ts > c.ts
      BY <3>2, <3>3, <3>5
    <3>10. InOrder(bars) /\ k <= Len(bars)
      BY <1>2, <1>7
    <3>11. Routing!SliceWindow(more, c.ts) = Routing!SliceWindow(bars, c.ts)
      <4> HIDE DEF L
      <4> QED BY <1>7, <3>4, <3>5, <3>6, <3>7, <3>8, <3>9, <3>10, WindowKept
    <3> QED BY <3>3, <3>11
  <2> QED BY <2>4, <2>5, ContextKept
<1>14. Routing!ReplayIsExact'
  <2>1. Routing!ReplayIsExact' =
          \A c \in context' :
            (\A i \in DOMAIN bars' : bars'[i].ts > c.ts \/ bars'[i].ts + BarLength <= c.ts)
              => Routing!ContextOf(bars', c.ts, c.signed) = {c}
    BY DEF Routing!ReplayIsExact
  <2> QED BY <1>3, <1>8, <1>13, <2>1
<1>15. context' = {} \/ \E c : /\ context' = {c} /\ c.ts \in 1 .. barClock'
                              /\ c.end \in Nat /\ c.count \in Nat
  <2>1. \A c : c.ts \in 1 .. barClock => c.ts \in 1 .. barClock'
    BY <1>2, <1>3
  <2> QED BY <1>3, <1>12, <2>1
<1> QED BY <1>3, <1>11, <1>14, <1>15 DEF RoutingInv

\* Time goes on: what was built stays what the series gives.
LEMMA SilenceKeeps == ASSUME RoutingInv, Routing!Silence PROVE RoutingInv'
<1>1. /\ barClock < RouteTime /\ barClock' = barClock + 1
      /\ bars' = bars /\ context' = context /\ decision' = decision
  BY DEF Routing!Silence
<1>2. barClock \in 0 .. RouteTime /\ RouteTime \in Nat
  BY RoutesAssumption DEF RoutingInv, BarsInv, RoutesAssumption, Routing!RoutingAssumption
<1>3. barClock' \in 0 .. RouteTime /\ \A t \in Nat : t <= barClock => t <= barClock'
  BY <1>1, <1>2
<1>4. InOrder(bars)' /\ \A i \in 1 .. Len(bars) : bars[i].ts \in Nat
  BY <1>1, BarsTyped DEF RoutingInv, BarsInv, InOrder
<1>5. BarsInv'
  BY <1>1, <1>3, <1>4 DEF RoutingInv, BarsInv
<1>6. \A t : t \in 1 .. barClock => t \in 1 .. barClock'
  BY <1>1, <1>2
<1>7. Routing!ReplayIsExact'
  <2>1. Routing!ReplayIsExact' =
          \A c \in context' :
            (\A i \in DOMAIN bars' : bars'[i].ts > c.ts \/ bars'[i].ts + BarLength <= c.ts)
              => Routing!ContextOf(bars', c.ts, c.signed) = {c}
    BY DEF Routing!ReplayIsExact
  <2>2. Routing!ReplayIsExact =
          \A c \in context :
            (\A i \in DOMAIN bars : bars[i].ts > c.ts \/ bars[i].ts + BarLength <= c.ts)
              => Routing!ContextOf(bars, c.ts, c.signed) = {c}
    BY DEF Routing!ReplayIsExact
  <2>3. Routing!ReplayIsExact
    BY DEF RoutingInv
  <2> QED BY <1>1, <2>1, <2>2, <2>3
<1>8. context' = {} \/ \E c : /\ context' = {c} /\ c.ts \in 1 .. barClock'
                             /\ c.end \in Nat /\ c.count \in Nat
  BY <1>1, <1>6 DEF RoutingInv
<1> QED BY <1>1, <1>5, <1>7, <1>8 DEF RoutingInv

\* The registry keeps a context only if it is valid, and forgets the decision
\* about the one before.
LEMMA BuildKeeps == ASSUME RoutingInv, Routing!BuildContext PROVE RoutingInv'
<1>1. PICK signed \in BOOLEAN :
        \E c \in Routing!ContextOf(bars, barClock, signed) : Routing!Valid(c) /\ context' = {c}
  BY DEF Routing!BuildContext
<1>2. PICK c \in Routing!ContextOf(bars, barClock, signed) : Routing!Valid(c) /\ context' = {c}
  BY <1>1
<1>3. decision' = {} /\ barClock' = barClock /\ bars' = bars
  BY DEF Routing!BuildContext
<1>4. InOrder(bars) /\ barClock \in Nat /\ BarsInv
  BY RoutesAssumption DEF RoutingInv, BarsInv, RoutesAssumption, Routing!RoutingAssumption
<1>5. /\ Routing!ContextOf(bars, barClock, signed) = {c} /\ c.ts = barClock /\ c.signed = signed
      /\ c.end \in Nat /\ c.count \in Nat
  BY <1>2, <1>4, BuiltIsValid
<1>6. c.ts # 0
  BY <1>2 DEF Routing!Valid
<1>7. c.ts \in 1 .. barClock'
  BY <1>3, <1>4, <1>5, <1>6
<1>8. BarsInv'
  BY <1>3, <1>4 DEF BarsInv, InOrder
<1>9. Routing!ReplayIsExact'
  <2>1. Routing!ReplayIsExact' =
          \A d \in context' :
            (\A i \in DOMAIN bars' : bars'[i].ts > d.ts \/ bars'[i].ts + BarLength <= d.ts)
              => Routing!ContextOf(bars', d.ts, d.signed) = {d}
    BY DEF Routing!ReplayIsExact
  <2>2. \A d \in context' : Routing!ContextOf(bars', d.ts, d.signed) = {d}
    <3>1. Routing!ContextOf(bars', c.ts, c.signed) = {c}
      BY <1>3, <1>5, Zenon
    <3> QED BY <1>2, <3>1
  <2> QED BY <2>1, <2>2
<1> QED BY <1>2, <1>3, <1>5, <1>7, <1>8, <1>9 DEF RoutingInv

\* A route leaves everything but the decision alone.
LEMMA RouteKeeps ==
  ASSUME RoutingInv, NEW map \in StrategyMaps, NEW gs \in RouterGates, NEW told \in RegimesTold,
         Routing!Route(map, gs, told)
  PROVE  RoutingInv'
<1>1. barClock' = barClock /\ bars' = bars /\ context' = context
  BY DEF Routing!Route
<1>2. \E c \in context : decision' = {Routing!Decision(c, map, gs, told)}
  BY DEF Routing!Route
<1>3. BarsInv'
  BY <1>1 DEF RoutingInv, BarsInv, InOrder
<1>4. Routing!ReplayIsExact'
  <2>1. Routing!ReplayIsExact' =
          \A c \in context' :
            (\A i \in DOMAIN bars' : bars'[i].ts > c.ts \/ bars'[i].ts + BarLength <= c.ts)
              => Routing!ContextOf(bars', c.ts, c.signed) = {c}
    BY DEF Routing!ReplayIsExact
  <2>2. Routing!ReplayIsExact =
          \A c \in context :
            (\A i \in DOMAIN bars : bars[i].ts > c.ts \/ bars[i].ts + BarLength <= c.ts)
              => Routing!ContextOf(bars, c.ts, c.signed) = {c}
    BY DEF Routing!ReplayIsExact
  <2>3. Routing!ReplayIsExact
    BY DEF RoutingInv
  <2> QED BY <1>1, <2>1, <2>2, <2>3
<1>5. context' = {} \/ \E c : /\ context' = {c} /\ c.ts \in 1 .. barClock'
                             /\ c.end \in Nat /\ c.count \in Nat
  BY <1>1 DEF RoutingInv
<1>6. (decision = {} \/ \E c \in context, m \in StrategyMaps, g \in RouterGates, r \in RegimesTold :
       decision = {Routing!Decision(c, m, g, r)})'
  BY <1>1, <1>2, Zenon
<1> QED BY <1>3, <1>4, <1>5, <1>6, Zenon DEF RoutingInv

\* Every step of the router keeps its invariant.
LEMMA RoutingStepKeeps ==
  ASSUME RoutingInv, Routing!Next \/ UNCHANGED routingVars
  PROVE  RoutingInv'
<1>1. CASE Routing!Next
  BY <1>1, TradeKeeps, SilenceKeeps, BuildKeeps, RouteKeeps DEF Routing!Next
<1>2. CASE UNCHANGED routingVars
  <2>1. barClock' = barClock /\ bars' = bars /\ context' = context /\ decision' = decision
    BY <1>2 DEF routingVars
  <2>2. BarsInv'
    BY <2>1 DEF RoutingInv, BarsInv, InOrder
  <2>3. Routing!ReplayIsExact'
    <3>1. Routing!ReplayIsExact' =
            \A c \in context' :
              (\A i \in DOMAIN bars' : bars'[i].ts > c.ts \/ bars'[i].ts + BarLength <= c.ts)
                => Routing!ContextOf(bars', c.ts, c.signed) = {c}
      BY DEF Routing!ReplayIsExact
    <3>2. Routing!ReplayIsExact =
            \A c \in context :
              (\A i \in DOMAIN bars : bars[i].ts > c.ts \/ bars[i].ts + BarLength <= c.ts)
                => Routing!ContextOf(bars, c.ts, c.signed) = {c}
      BY DEF Routing!ReplayIsExact
    <3>3. Routing!ReplayIsExact
      BY DEF RoutingInv
    <3> QED BY <2>1, <3>1, <3>2, <3>3
  <2> QED BY <2>1, <2>2, <2>3 DEF RoutingInv
<1> QED BY <1>1, <1>2

\* The registry refuses what the agent built for want of a fingerprint or of a
\* timestamp, and for nothing else.
LEMMA BuiltAreValid == ASSUME RoutingInv PROVE Routing!BuiltMeansValid
<1>1. InOrder(bars) /\ barClock \in Nat
  BY RoutesAssumption DEF RoutingInv, BarsInv, RoutesAssumption, Routing!RoutingAssumption
<1> QED BY <1>1, BuiltIsValid DEF Routing!BuiltMeansValid

\* A quality is at most 100 percent, so a gate above that lets nothing pass;
\* below it the bars over the window's decide alone.
LEMMA QualityOfTheBars ==
  ASSUME NEW count \in Nat, NEW full \in Nat \ {0}, NEW quality \in Nat
  PROVE  100 * Routing!Smaller(count, full) < quality * full
           <=> 100 * count < quality * full \/ quality > 100
<1>1. PICK x \in Nat : x = quality * full
  OBVIOUS
<1>2. quality <= 100 => x <= 100 * full
  <2>1. ASSUME quality <= 100 PROVE x <= 100 * full
    <3>1. PICK d \in Nat : 100 = quality + d
      <4>1. 100 - quality \in Nat /\ 100 = quality + (100 - quality)
        BY <2>1
      <4> QED BY <4>1
    <3>2. (quality + d) * full = quality * full + d * full /\ d * full \in Nat
      OBVIOUS
    <3> QED BY <1>1, <3>1, <3>2
  <2> QED BY <2>1
<1>3. quality > 100 => x > 100 * full
  <2>1. ASSUME quality > 100 PROVE x > 100 * full
    <3>1. PICK d \in Nat : quality = 100 + 1 + d
      <4>1. quality - 101 \in Nat /\ quality = 100 + 1 + (quality - 101)
        BY <2>1
      <4> QED BY <4>1
    <3>2. (100 + 1 + d) * full = 100 * full + full + d * full /\ d * full \in Nat
      OBVIOUS
    <3> QED BY <1>1, <3>1, <3>2
  <2> QED BY <2>1
<1>4. 100 * Routing!Smaller(count, full) < x <=> 100 * count < x \/ quality > 100
  BY <1>2, <1>3 DEF Routing!Smaller
<1> QED BY <1>1, <1>4

\* The choice is the earliest of the best that the gates of the route admit,
\* and the router stays out only for a reason that holds.
LEMMA ChosenIsBest == ASSUME RoutingInv PROVE Routing!ChoiceIsBest
<1>2. ASSUME NEW c \in context, NEW d \in decision
      PROVE  LET regime == Routing!Current(c, d.told)
                 stale == c.ts - c.end > StaleAfter \/ c.end = 0
                 poor == 100 * c.count < d.gates.quality * FullWindow \/ d.gates.quality > 100
                 able == Able(d.map, d.gates, regime)
                 top == {i \in able : \A j \in able :
                           Routing!Score(d.map[i], regime) >= Routing!Score(d.map[j], regime)}
             IN IF d.outcome = "routed"
                THEN /\ d.chosen \in top /\ \A i \in top : d.chosen <= i
                     /\ d.gates.fresh => ~stale
                     /\ ~poor
                ELSE able = {} \/ (d.gates.fresh /\ stale) \/ poor
  <2>1. context = {c} /\ c.ts \in Int /\ c.ts # 0 /\ c.end \in Nat /\ c.count \in Nat
    <3>1. PICK e : context = {e} /\ e.ts \in 1 .. barClock /\ e.end \in Nat /\ e.count \in Nat
      BY DEF RoutingInv
    <3>2. c = e
      BY <3>1
    <3> QED BY <3>1, <3>2
  <2>2. PICK map \in StrategyMaps, gs \in RouterGates, told \in RegimesTold :
          d = Routing!Decision(c, map, gs, told)
    BY <2>1, Zenon DEF RoutingInv
  <2>3. /\ FullWindow \in Nat \ {0} /\ StaleAfter \in Nat /\ map \in StrategyMaps
        /\ gs.quality \in Nat
    <3>1. gs \in [confirmed : BOOLEAN, match : BOOLEAN, quality : Nat, fresh : BOOLEAN]
      BY RoutesAssumption DEF RoutesAssumption, Routing!RoutingAssumption
    <3>2. FullWindow \in Nat \ {0} /\ StaleAfter \in Nat
      BY RoutesAssumption DEF RoutesAssumption, Routing!RoutingAssumption
    <3> QED BY <3>1, <3>2
  <2>4. PICK regime : regime = Routing!Current(c, told)
    OBVIOUS
  <2>5. PICK best : best = Routing!Best(map, gs, regime).index
    OBVIOUS
  <2>6. PICK outcome : outcome = Routing!RouteOf(c, map, gs, told)
    OBVIOUS
  <2>7. /\ d.map = map /\ d.gates = gs /\ d.told = told /\ d.outcome = outcome
        /\ (outcome = "routed" => d.chosen = best)
    <3>1. d = [map |-> map, gates |-> gs, told |-> told, outcome |-> outcome,
               chosen |-> IF outcome = "routed" THEN best ELSE 0]
      BY <2>2, <2>4, <2>5, <2>6, Zenon DEF Routing!Decision
    <3> QED BY <3>1
  <2>8. PICK able : able = Able(map, gs, regime)
    OBVIOUS
  <2>9. PICK stale \in BOOLEAN : stale <=> c.ts - c.end > StaleAfter \/ c.end = 0
    OBVIOUS
  <2>10. PICK poor \in BOOLEAN : poor <=> 100 * c.count < gs.quality * FullWindow \/ gs.quality > 100
    OBVIOUS
  <2>11. map = <<>> => able = {}
    BY <2>8 DEF Able
  <2>12. Routing!Stale(c) <=> stale
    BY <2>1, <2>9 DEF Routing!Stale
  <2>13. Routing!LowQuality(c, gs) <=> poor
    BY <2>1, <2>3, <2>10, QualityOfTheBars, Zenon DEF Routing!LowQuality
  <2>14. outcome = IF map = <<>> THEN "empty_strategy_map"
                   ELSE IF gs.fresh /\ stale THEN "stale_context"
                   ELSE IF poor THEN "low_data_quality"
                   ELSE IF best = 0 THEN "no_strategy_passed_gates" ELSE "routed"
    BY <2>4, <2>5, <2>6, <2>12, <2>13, Zenon DEF Routing!RouteOf
  <2>15. /\ best = 0 => able = {}
         /\ best # 0 =>
              /\ best \in able
              /\ \A j \in able :
                   /\ Routing!Score(map[best], regime) >= Routing!Score(map[j], regime)
                   /\ Routing!Score(map[best], regime) = Routing!Score(map[j], regime) => best <= j
    BY <2>5, <2>8, BestOfTheMap, Zenon
  <2> DEFINE top == {i \in able : \A j \in able :
                       Routing!Score(map[i], regime) >= Routing!Score(map[j], regime)}
  <2>16. CASE outcome = "routed"
    <3>1. ~(gs.fresh /\ stale) /\ ~poor /\ best # 0
      BY <2>14, <2>16
    <3>2. best \in able /\ \A j \in able : Routing!Score(map[best], regime) >= Routing!Score(map[j], regime)
      BY <2>15, <3>1
    <3>3. \A j \in able : Routing!Score(map[best], regime) \in Int /\ Routing!Score(map[j], regime) \in Int
      <4>1. \A j \in able : j \in DOMAIN map
        BY <2>8 DEF Able
      <4> QED BY <2>3, <3>2, <4>1, ScoresTyped
    <3>4. ASSUME NEW i \in able,
                 \A j \in able : Routing!Score(map[i], regime) >= Routing!Score(map[j], regime)
          PROVE  best <= i
      <4>1. Routing!Score(map[best], regime) = Routing!Score(map[i], regime)
        BY <3>2, <3>3, <3>4
      <4> QED BY <2>15, <3>1, <4>1
    <3>5. best \in top /\ \A i \in top : best <= i
      BY <3>2, <3>4
    <3> HIDE DEF top
    <3>6. /\ best \in top /\ \A i \in top : best <= i
          /\ gs.fresh => ~stale
          /\ ~poor
      BY <3>1, <3>5
    <3> USE DEF top
    <3> QED BY <2>4, <2>7, <2>8, <2>9, <2>10, <2>16, <3>6, Zenon
  <2>17. CASE outcome # "routed"
    <3>1. able = {} \/ (gs.fresh /\ stale) \/ poor
      BY <2>11, <2>14, <2>15, <2>17
    <3> QED BY <2>4, <2>7, <2>8, <2>9, <2>10, <2>17, <3>1, Zenon
  <2> QED BY <2>16, <2>17
<1> QED BY <1>2, Zenon DEF Routing!ChoiceIsBest, Able

\* A sum in the router is a sum over the indexes.
LEMMA RouterTotal == \A f : Routing!Total(f) = Sum(f, DOMAIN f)
BY DEF Routing!Total, Routing!FoldFunction, Routing!FoldFunctionOnSet,
       Routing!MapThenFoldSet, Sum, FoldFunctionOnSet, MapThenFoldSet

\* A sum of natural numbers is one.
LEMMA TotalTyped ==
  ASSUME NEW n \in Nat, NEW f, DOMAIN f = 1 .. n, \A i \in 1 .. n : f[i] \in Nat
  PROVE  Routing!Total(f) \in Nat
<1>1. \A k \in Nat : IsFiniteSet(1 .. k)
  BY FS_Interval
<1>2. Sum(f, 1 .. n) \in Nat
  BY <1>1, SumTyped
<1> QED BY <1>2, RouterTotal

\* A quotient is at least what its divisor fits in.
LEMMA DivAtLeast ==
  ASSUME NEW a \in Int, NEW b \in Nat \ {0}, NEW k \in Int, a >= k * b
  PROVE  a \div b \in Int /\ a \div b >= k
<1>1. PICK q \in Int, r \in 0 .. b - 1 : q = a \div b /\ a = b * q + r
  <2>1. a \div b \in Int /\ a % b \in 0 .. b - 1 /\ a = b * (a \div b) + (a % b)
    OBVIOUS
  <2> QED BY <2>1
<1>2. k * b = b * k
  OBVIOUS
<1>3. ASSUME q < k
      PROVE  FALSE
  <2>1. PICK d \in Nat : k = q + 1 + d
    <3>1. k - q - 1 \in Nat /\ k = q + 1 + (k - q - 1)
      BY <1>3
    <3> QED BY <3>1
  <2>2. b * (q + 1 + d) = b * q + b + b * d
    OBVIOUS
  <2>3. PICK x \in Int, y \in Nat : x = b * q /\ y = b * d
    <3>1. b * q \in Int /\ b * d \in Nat
      OBVIOUS
    <3> QED BY <3>1
  <2>4. b * k = x + b + y
    BY <2>1, <2>2, <2>3
  <2>5. PICK z : z = b * k
    OBVIOUS
  <2>6. a = x + r /\ a >= z /\ z = x + b + y
    BY <1>1, <1>2, <2>3, <2>4, <2>5
  <2> QED BY <2>3, <2>6
<1> QED BY <1>1, <1>3

\* The end of a series is a series.
LEMMA LastBars ==
  ASSUME NEW s, s \in Seq(Bar), NEW n \in Nat \ {0}
  PROVE  LET w == Routing!LastN(s, n)
         IN /\ w \in Seq(Bar) /\ Len(w) \in Nat
            /\ Len(w) = IF Len(s) < n THEN Len(s) ELSE n
<1>1. Len(s) \in Nat
  OBVIOUS
<1>2. PICK from \in Nat \ {0} : from = Routing!Larger(1, Len(s) - n + 1)
  BY <1>1 DEF Routing!Larger
<1>3. Routing!LastN(s, n) = SubSeq(s, from, Len(s))
  BY <1>2, Zenon DEF Routing!LastN
<1>4. PICK w : w = SubSeq(s, from, Len(s))
  OBVIOUS
<1>5. w \in Seq(Bar)
  <2> HIDE DEF Bar
  <2>1. \A i \in from .. Len(s) : i \in 1 .. Len(s)
    BY <1>1
  <2> QED BY <1>1, <1>4, <2>1
<1>6. Len(w) = IF from <= Len(s) THEN Len(s) - from + 1 ELSE 0
  BY <1>1, <1>4
<1>7. Len(w) = IF Len(s) < n THEN Len(s) ELSE n
  <2>1. PICK len \in Nat : len = Len(s)
    BY <1>1
  <2>2. from = IF 1 > len - n + 1 THEN 1 ELSE len - n + 1
    BY <1>2, <2>1 DEF Routing!Larger
  <2>3. Len(w) = IF from <= len THEN len - from + 1 ELSE 0
    BY <1>6, <2>1
  <2>4. CASE len < n
    <3>1. from = 1
      BY <2>2, <2>4
    <3> QED BY <2>1, <2>3, <2>4, <3>1
  <2>5. CASE ~(len < n)
    <3>1. from = len - n + 1
      BY <2>2, <2>5
    <3> QED BY <2>1, <2>3, <2>5, <3>1
  <2> QED BY <2>4, <2>5
<1> QED BY <1>1, <1>3, <1>4, <1>5, <1>7

\* True ranges are natural numbers.
LEMMA RangesTyped ==
  ASSUME NEW s, s \in Seq(Bar), Len(s) > 0
  PROVE  LET r == Routing!Ranges(s)
         IN /\ DOMAIN r = 1 .. Len(s) - 1 /\ r = [i \in 1 .. Len(s) - 1 |-> r[i]]
            /\ \A i \in 1 .. Len(s) - 1 : r[i] \in Nat
            /\ Routing!Total(r) \in Nat
<1>1. Len(s) \in Nat /\ Len(s) - 1 \in Nat
  BY DEF Bar
<1>2. ASSUME NEW i \in 1 .. Len(s) - 1
      PROVE  Routing!TrueRange(s, i + 1) \in Nat
  <2>1. i \in 1 .. Len(s) /\ i + 1 \in 1 .. Len(s) /\ (i + 1) - 1 = i
    BY <1>1
  <2>2. s[i + 1].high \in Int /\ s[i + 1].low \in Int /\ s[i].close \in Int
    BY <2>1, BarOf
  <2>3. PICK h \in Int, l \in Int, c \in Int :
          h = s[i + 1].high /\ l = s[i + 1].low /\ c = s[i].close
    BY <2>2
  <2>4. Routing!TrueRange(s, i + 1) =
          Routing!Larger(h - l, Routing!Larger(Routing!Abs(h - c), Routing!Abs(l - c)))
    BY <2>1, <2>3 DEF Routing!TrueRange
  <2>5. Routing!Abs(h - c) \in Nat /\ Routing!Abs(l - c) \in Nat
    BY DEF Routing!Abs
  <2>6. \A x \in Int, y \in Nat : Routing!Larger(x, y) \in Nat
    BY DEF Routing!Larger
  <2>7. h - l \in Int
    OBVIOUS
  <2>8. Routing!Larger(Routing!Abs(h - c), Routing!Abs(l - c)) \in Nat
    <3>1. PICK x \in Nat : x = Routing!Abs(h - c)
      BY <2>5
    <3>2. PICK y \in Nat : y = Routing!Abs(l - c)
      BY <2>5
    <3>3. x \in Int
      OBVIOUS
    <3>4. Routing!Larger(x, y) \in Nat
      BY <2>6, <3>3, Zenon
    <3> QED BY <3>1, <3>2, <3>4
  <2> QED BY <2>4, <2>6, <2>7, <2>8
<1>3. PICK r : r = Routing!Ranges(s)
  OBVIOUS
<1>4. r = [i \in 1 .. Len(s) - 1 |-> Routing!TrueRange(s, i + 1)]
  BY <1>3 DEF Routing!Ranges
<1>5. /\ DOMAIN r = 1 .. Len(s) - 1 /\ r = [i \in 1 .. Len(s) - 1 |-> r[i]]
      /\ \A i \in 1 .. Len(s) - 1 : r[i] \in Nat
  BY <1>2, <1>4
<1> QED BY <1>1, <1>3, <1>5, TotalTyped

Moves == {0} \cup 500 .. 1000 \cup (-1000) .. (-500)
Strengths == {0} \cup 301 .. 1000 \cup (-1000) .. (-301)

\* Confidences of either sign.
LEMMA Confidences ==
  /\ 0 \in Moves /\ \A y \in 500 .. 1000 : y \in Moves /\ -y \in Moves
  /\ 0 \in Strengths /\ \A y \in 301 .. 1000 : y \in Strengths /\ -y \in Strengths
<1>1. ASSUME NEW y \in 500 .. 1000
      PROVE  y \in Moves /\ -y \in Moves
  <2>1. -y \in (-1000) .. (-500)
    OBVIOUS
  <2> QED BY <2>1 DEF Moves
<1>2. ASSUME NEW y \in 301 .. 1000
      PROVE  y \in Strengths /\ -y \in Strengths
  <2>1. -y \in (-1000) .. (-301)
    OBVIOUS
  <2> QED BY <2>1 DEF Strengths
<1>3. 0 \in Moves /\ 0 \in Strengths
  BY DEF Moves, Strengths
<1> QED BY <1>1, <1>2, <1>3

\* How sure the engine is of a trend: not at all, or by half at least.
LEMMA TrendOfTheBars ==
  ASSUME NEW s, s \in Seq(Bar), ~(Len(s) < TrendLookback)
  PROVE  Routing!TrendConfidence(s) \in Moves
<1>1. TrendLookback \in Nat \ {0} /\ Len(s) \in Nat
  BY RoutesAssumption DEF RoutesAssumption, Routing!RoutingAssumption
<1>2. PICK w : w = Routing!LastN(s, TrendLookback)
  OBVIOUS
<1>3. w \in Seq(Bar) /\ Len(w) = TrendLookback
  BY <1>1, <1>2, LastBars
<1>4. w[1].open \in Nat \ {0} /\ w[Len(w)].close \in Int
  BY <1>1, <1>3, BarOf
<1>5. PICK o \in Nat \ {0} : o = w[1].open
  BY <1>4
<1>6. PICK move \in Int : move = Routing!Last(w).close - w[1].open
  BY <1>4 DEF Routing!Last
<1>7. Routing!TrendConfidence(s) =
        IF 50 * Routing!Abs(move) > o
        THEN Routing!Smaller(1000, (25 * 1000 * Routing!Abs(move)) \div o) * (IF move > 0 THEN 1 ELSE -1)
        ELSE 0
  BY <1>2, <1>5, <1>6 DEF Routing!TrendConfidence
<1>8. PICK m \in Nat : m = Routing!Abs(move)
  BY DEF Routing!Abs
<1>9. CASE 50 * m > o
  <2>1. (25 * 1000 * m) \div o \in Int /\ (25 * 1000 * m) \div o >= 500
    <3>1. 25 * 1000 * m \in Int /\ 25 * 1000 * m >= 500 * o
      BY <1>9
    <3> QED BY <3>1, DivAtLeast
  <2>2. PICK x \in 500 .. 1000 : x = Routing!Smaller(1000, (25 * 1000 * m) \div o)
    BY <2>1 DEF Routing!Smaller
  <2>3. Routing!TrendConfidence(s) = x * (IF move > 0 THEN 1 ELSE -1)
    BY <1>7, <1>8, <1>9, <2>2
  <2> QED BY <2>3 DEF Moves
<1>10. CASE ~(50 * m > o)
  BY <1>7, <1>8, <1>10 DEF Moves
<1> QED BY <1>9, <1>10

\* What the ratio of the last range to the mean one is worth.
LEMMA VolatilityOfTheRatio ==
  ASSUME NEW ratio \in Int
  PROVE  (IF ratio > 1300 THEN Routing!Smaller(1000, (1000 * (ratio - 1300)) \div 1300 + 500)
          ELSE IF ratio < 700 THEN -Routing!Smaller(1000, (1000 * (700 - ratio)) \div 700 + 500)
          ELSE 0) \in Moves
<1>1. \A z \in Nat : (1000 * z) \div 1300 \in Nat /\ (1000 * z) \div 700 \in Nat
  OBVIOUS
<1>2. CASE ratio > 1300
  <2>1. Routing!Smaller(1000, (1000 * (ratio - 1300)) \div 1300 + 500) \in 500 .. 1000
    BY <1>1, <1>2 DEF Routing!Smaller
  <2> QED BY <1>2, <2>1 DEF Moves
<1>3. CASE ratio < 700
  <2>1. PICK y : y = Routing!Smaller(1000, (1000 * (700 - ratio)) \div 700 + 500)
    OBVIOUS
  <2>2. y \in 500 .. 1000
    BY <1>1, <1>3, <2>1 DEF Routing!Smaller
  <2>3. y \in Moves /\ -y \in Moves
    BY <2>2, Confidences
  <2> QED BY <1>3, <2>1, <2>3
<1>4. CASE ~(ratio > 1300) /\ ~(ratio < 700)
  BY <1>4 DEF Moves
<1> QED BY <1>2, <1>3, <1>4

\* The same of its volatility.
LEMMA VolatilityOfTheBars ==
  ASSUME NEW s, s \in Seq(Bar), Len(s) > 0
  PROVE  Routing!VolConfidence(s) \in Moves
<1>1. VolLookback \in Nat \ {0} /\ Len(s) \in Nat
  BY RoutesAssumption DEF RoutesAssumption, Routing!RoutingAssumption
<1>2. PICK w : w = Routing!LastN(s, VolLookback)
  OBVIOUS
<1>3. w \in Seq(Bar) /\ Len(w) \in Nat /\ Len(w) > 0
  BY <1>1, <1>2, LastBars
<1>4. PICK r : r = Routing!Ranges(w)
  OBVIOUS
<1>5. /\ DOMAIN r = 1 .. Len(w) - 1 /\ r = [i \in 1 .. Len(w) - 1 |-> r[i]]
      /\ \A i \in 1 .. Len(w) - 1 : r[i] \in Nat
      /\ Routing!Total(r) \in Nat
  BY <1>3, <1>4, RangesTyped
<1>6. Len(r) = Len(w) - 1
  BY <1>3, <1>5
<1>7. PICK n \in Nat : n = Len(r)
  BY <1>3, <1>6
<1>8. PICK total \in Nat : total = Routing!Total(r)
  BY <1>5
<1>9. PICK ratio : ratio = (1000 * n * Routing!Last(r)) \div total
  OBVIOUS
<1>10. Routing!VolConfidence(s) =
        IF n < 2 \/ total = 0 THEN 0
        ELSE IF ratio > 1300 THEN Routing!Smaller(1000, (1000 * (ratio - 1300)) \div 1300 + 500)
        ELSE IF ratio < 700 THEN -Routing!Smaller(1000, (1000 * (700 - ratio)) \div 700 + 500)
        ELSE 0
  BY <1>2, <1>4, <1>7, <1>8, <1>9 DEF Routing!VolConfidence
<1>11. CASE n < 2 \/ total = 0
  <2>1. Routing!VolConfidence(s) = 0
    BY <1>10, <1>11
  <2> QED BY <2>1, Confidences
<1>12. CASE ~(n < 2 \/ total = 0)
  <2>1. Routing!Last(r) \in Nat
    BY <1>3, <1>5, <1>6, <1>7, <1>12 DEF Routing!Last
  <2>2. PICK x \in Nat : x = 1000 * n * Routing!Last(r)
    BY <2>1
  <2>3. ratio \in Int
    BY <1>8, <1>9, <1>12, <2>2
  <2> QED BY <1>10, <1>12, <2>3, VolatilityOfTheRatio
<1> QED BY <1>11, <1>12

\* What the index is worth.
LEMMA StrengthOfTheIndex ==
  ASSUME NEW adx \in Int
  PROVE  (IF adx > 250 THEN Routing!Smaller(1000, (1000 * (adx - 200)) \div 60)
          ELSE IF adx < 200 THEN -Routing!Smaller(1000, 5 * (200 - adx) + 300)
          ELSE 0) \in Strengths
<1>1. CASE adx > 250
  <2>1. (1000 * (adx - 200)) \div 60 \in Int /\ (1000 * (adx - 200)) \div 60 >= 301
    BY <1>1
  <2>2. Routing!Smaller(1000, (1000 * (adx - 200)) \div 60) \in 301 .. 1000
    BY <2>1 DEF Routing!Smaller
  <2> QED BY <1>1, <2>2 DEF Strengths
<1>2. CASE adx < 200
  <2>1. PICK y : y = Routing!Smaller(1000, 5 * (200 - adx) + 300)
    OBVIOUS
  <2>2. y \in 301 .. 1000
    BY <1>2, <2>1 DEF Routing!Smaller
  <2>3. -y \in Strengths
    BY <2>2, Confidences
  <2>4. ~(adx > 250)
    BY <1>2
  <2>5. -Routing!Smaller(1000, 5 * (200 - adx) + 300) \in Strengths
    BY <2>1, <2>3
  <2> QED BY <1>2, <2>4, <2>5
<1>3. CASE ~(adx > 250) /\ ~(adx < 200)
  <2>1. 0 \in Strengths
    BY Confidences
  <2> QED BY <1>3, <2>1
<1> QED BY <1>1, <1>2, <1>3

\* How strong or weak it finds the moves: not at all, or enough for a label.
LEMMA StrengthOfTheBars ==
  ASSUME NEW s, s \in Seq(Bar)
  PROVE  Routing!StrengthConfidence(s) \in Strengths
<1>1. AdxPeriod \in Nat \ {0} /\ 2 * AdxPeriod \in Nat \ {0} /\ Len(s) \in Nat
  BY RoutesAssumption DEF RoutesAssumption, Routing!RoutingAssumption
<1>2. CASE Len(s) < 2 * AdxPeriod
  <2>1. Routing!StrengthConfidence(s) = 0
    BY <1>2, Zenon DEF Routing!StrengthConfidence
  <2> QED BY <2>1, Confidences
<1>3. CASE ~(Len(s) < 2 * AdxPeriod)
  <2> DEFINE w == Routing!LastN(s, 2 * AdxPeriod)
             rise(i) == w[i + 1].high - w[i].high
             drop(i) == w[i].low - w[i + 1].low
             ups == [i \in 1 .. Len(w) - 1 |-> IF rise(i) > drop(i) THEN Routing!Larger(rise(i), 0) ELSE 0]
             downs == [i \in 1 .. Len(w) - 1 |-> IF drop(i) > rise(i) THEN Routing!Larger(drop(i), 0) ELSE 0]
             plus == Routing!Total(ups)
             minus == Routing!Total(downs)
             adx == IF plus + minus = 0 THEN 0
                    ELSE (1000 * Routing!Abs(plus - minus)) \div (plus + minus)
  <2>1. Routing!StrengthConfidence(s) =
          IF Len(s) < 2 * AdxPeriod \/ Routing!Total(Routing!Ranges(w)) = 0 THEN 0
          ELSE IF adx > 250 THEN Routing!Smaller(1000, (1000 * (adx - 200)) \div 60)
          ELSE IF adx < 200 THEN -Routing!Smaller(1000, 5 * (200 - adx) + 300)
          ELSE 0
    BY Zenon DEF Routing!StrengthConfidence
  <2>2. w \in Seq(Bar) /\ Len(w) \in Nat /\ Len(w) = 2 * AdxPeriod
    BY <1>1, <1>3, LastBars
  <2>3. Len(w) - 1 \in Nat
    BY <1>1, <2>2
  <2> HIDE DEF w
  <2>4. \A i \in 1 .. Len(w) - 1 : ups[i] \in Nat /\ downs[i] \in Nat
    <3> SUFFICES ASSUME NEW i \in 1 .. Len(w) - 1 PROVE ups[i] \in Nat /\ downs[i] \in Nat
      OBVIOUS
    <3>1. i \in 1 .. Len(w) /\ i + 1 \in 1 .. Len(w)
      BY <2>2
    <3>2. w[i + 1].high \in Int /\ w[i + 1].low \in Int /\ w[i].high \in Int /\ w[i].low \in Int
      BY <2>2, <3>1, BarOf
    <3>3. \A x \in Int : Routing!Larger(x, 0) \in Nat
      BY DEF Routing!Larger
    <3>4. rise(i) \in Int /\ drop(i) \in Int
      BY <3>2
    <3>5. Routing!Larger(rise(i), 0) \in Nat /\ Routing!Larger(drop(i), 0) \in Nat
      BY <3>3, <3>4
    <3> HIDE DEF rise, drop
    <3> QED BY <3>5
  <2>5. DOMAIN ups = 1 .. Len(w) - 1 /\ DOMAIN downs = 1 .. Len(w) - 1
    OBVIOUS
  <2> HIDE DEF ups, downs
  <2>6. plus \in Nat /\ minus \in Nat
    BY <2>3, <2>4, <2>5, TotalTyped
  <2> HIDE DEF plus, minus
  <2>7. adx \in Int
    <3>1. plus - minus \in Int
      BY <2>6
    <3>2. PICK m \in Nat : m = Routing!Abs(plus - minus)
      BY <3>1 DEF Routing!Abs
    <3>3. PICK d \in Nat : d = plus + minus
      BY <2>6
    <3>4. d # 0 => (1000 * m) \div d \in Int
      OBVIOUS
    <3> QED BY <3>2, <3>3, <3>4
  <2> HIDE DEF adx
  <2>8. CASE Routing!Total(Routing!Ranges(w)) = 0
    BY <2>1, <2>8 DEF Strengths
  <2>9. CASE Routing!Total(Routing!Ranges(w)) # 0
    BY <1>3, <2>1, <2>7, <2>9, StrengthOfTheIndex
  <2> QED BY <2>8, <2>9
<1> QED BY <1>2, <1>3

\* A set with one of three labels meets their set in a singleton.
LEMMA OneOfThree ==
  ASSUME NEW labels,
         \/ "BULL" \in labels /\ "BEAR" \notin labels /\ "MIXED" \notin labels
         \/ "BEAR" \in labels /\ "BULL" \notin labels /\ "MIXED" \notin labels
         \/ "MIXED" \in labels /\ "BULL" \notin labels /\ "BEAR" \notin labels
  PROVE  \E r : labels \cap {"BULL", "BEAR", "MIXED"} = {r}
<1>1. CASE "BULL" \in labels /\ "BEAR" \notin labels /\ "MIXED" \notin labels
  <2>1. labels \cap {"BULL", "BEAR", "MIXED"} = {"BULL"}
    BY <1>1
  <2> QED BY <2>1
<1>2. CASE "BEAR" \in labels /\ "BULL" \notin labels /\ "MIXED" \notin labels
  <2>1. labels \cap {"BULL", "BEAR", "MIXED"} = {"BEAR"}
    BY <1>2
  <2> QED BY <2>1
<1>3. CASE "MIXED" \in labels /\ "BULL" \notin labels /\ "BEAR" \notin labels
  <2>1. labels \cap {"BULL", "BEAR", "MIXED"} = {"MIXED"}
    BY <1>3
  <2> QED BY <2>1
<1> QED BY <1>1, <1>2, <1>3

\* Opposite labels are told apart by a sign, and a label is never unsure.
LEMMA LabelsExclusive == ASSUME RoutingInv PROVE Routing!RegimesExclusive
<1> DEFINE Labels == {"BULL", "BEAR", "MIXED", "HIGH_VOL", "LOW_VOL", "TRENDING", "RANGING"}
           on == Routing!ActiveRegimes(bars)
<1>1. bars \in Seq(Bar) /\ Len(bars) \in Nat /\ TrendLookback \in Nat \ {0}
  BY RoutesAssumption DEF RoutingInv, BarsInv, InOrder, RoutesAssumption, Routing!RoutingAssumption
<1>2. DOMAIN Routing!ZeroConfidence = Labels /\ \A r \in Labels : Routing!ZeroConfidence[r] = 0
  BY DEF Routing!ZeroConfidence
<1>3. on = {r \in Labels : Routing!Detect(bars)[r] > 300}
  BY <1>2 DEF Routing!ActiveRegimes
<1>4. CASE Len(bars) < TrendLookback
  <2>1. \A r \in Labels : Routing!Detect(bars)[r] = 0
    BY <1>2, <1>4 DEF Routing!Detect
  <2>2. on = {}
    BY <1>3, <2>1
  <2> HIDE DEF on
  <2> QED BY <1>1, <1>2, <1>4, <2>1, <2>2 DEF Routing!RegimesExclusive, on
<1>5. CASE ~(Len(bars) < TrendLookback)
  <2>1. PICK t \in Moves : t = Routing!TrendConfidence(bars)
    BY <1>1, <1>5, TrendOfTheBars
  <2>2. PICK v \in Moves : v = Routing!VolConfidence(bars)
    <3>1. Len(bars) > 0
      BY <1>1, <1>5
    <3> QED BY <1>1, <3>1, VolatilityOfTheBars
  <2>3. PICK a \in Strengths : a = Routing!StrengthConfidence(bars)
    BY <1>1, StrengthOfTheBars
  <2>4. PICK d : d = Routing!Detect(bars)
    OBVIOUS
  <2>5. /\ d["BULL"] = Routing!Larger(t, 0) /\ d["BEAR"] = Routing!Larger(-t, 0)
        /\ d["MIXED"] = IF Routing!Abs(t) < 300 THEN 1000 - Routing!Abs(t) ELSE 0
        /\ d["HIGH_VOL"] = Routing!Larger(v, 0) /\ d["LOW_VOL"] = Routing!Larger(-v, 0)
        /\ d["TRENDING"] = Routing!Larger(a, 0) /\ d["RANGING"] = Routing!Larger(-a, 0)
    BY <1>5, <2>1, <2>2, <2>3, <2>4 DEF Routing!Detect, Routing!ZeroConfidence
  <2>8. /\ d["BULL"] \in {0} \cup 301 .. 1000 /\ d["BEAR"] \in {0} \cup 301 .. 1000
        /\ d["MIXED"] \in {0} \cup 301 .. 1000
        /\ ~(d["BULL"] > 300 /\ d["BEAR"] > 300) /\ ~(d["BULL"] > 300 /\ d["MIXED"] > 300)
        /\ ~(d["BEAR"] > 300 /\ d["MIXED"] > 300)
        /\ d["BULL"] > 300 \/ d["BEAR"] > 300 \/ d["MIXED"] > 300
    <3>1. CASE t = 0
      BY <2>5, <3>1 DEF Routing!Larger, Routing!Abs
    <3>2. CASE t \in 500 .. 1000
      BY <2>5, <3>2 DEF Routing!Larger, Routing!Abs
    <3>3. CASE t \in (-1000) .. (-500)
      <4>1. -t \in 500 .. 1000 /\ t < 0 /\ t \in Int
        BY <3>3
      <4>2. d["BULL"] = 0 /\ d["BEAR"] = -t /\ d["MIXED"] = 0
        BY <2>5, <4>1 DEF Routing!Larger, Routing!Abs
      <4> QED BY <4>1, <4>2
    <3> QED BY <2>1, <3>1, <3>2, <3>3 DEF Moves
  <2>9. /\ d["HIGH_VOL"] \in {0} \cup 301 .. 1000 /\ d["LOW_VOL"] \in {0} \cup 301 .. 1000
        /\ ~(d["HIGH_VOL"] > 300 /\ d["LOW_VOL"] > 300)
    <3>1. CASE v = 0
      BY <2>5, <3>1 DEF Routing!Larger
    <3>2. CASE v \in 500 .. 1000
      BY <2>5, <3>2 DEF Routing!Larger
    <3>3. CASE v \in (-1000) .. (-500)
      <4>1. -v \in 500 .. 1000 /\ v < 0 /\ v \in Int
        BY <3>3
      <4>2. d["HIGH_VOL"] = 0 /\ d["LOW_VOL"] = -v
        <5>1. Routing!Larger(v, 0) = 0 /\ Routing!Larger(-v, 0) = -v
          BY <4>1 DEF Routing!Larger
        <5> QED BY <2>5, <5>1, Zenon
      <4> QED BY <4>1, <4>2
    <3> QED BY <2>2, <3>1, <3>2, <3>3 DEF Moves
  <2>10. /\ d["TRENDING"] \in {0} \cup 301 .. 1000 /\ d["RANGING"] \in {0} \cup 301 .. 1000
         /\ ~(d["TRENDING"] > 300 /\ d["RANGING"] > 300)
    <3>1. CASE a = 0
      BY <2>5, <3>1 DEF Routing!Larger
    <3>2. CASE a \in 301 .. 1000
      BY <2>5, <3>2 DEF Routing!Larger
    <3>3. CASE a \in (-1000) .. (-301)
      <4>1. -a \in 301 .. 1000 /\ a < 0 /\ a \in Int
        BY <3>3
      <4>2. d["TRENDING"] = 0 /\ d["RANGING"] = -a
        BY <2>5, <4>1 DEF Routing!Larger
      <4> QED BY <4>1, <4>2
    <3> QED BY <2>3, <3>1, <3>2, <3>3 DEF Strengths
  <2>11. on = {r \in Labels : d[r] > 300}
    BY <1>3, <2>4
  <2>12. \A r \in Labels : d[r] > 0 => r \in on
    <3>1. \A r \in Labels : d[r] \in {0} \cup 301 .. 1000
      BY <2>8, <2>9, <2>10
    <3>2. \A x \in {0} \cup 301 .. 1000 : x > 0 => x > 300
      OBVIOUS
    <3> HIDE DEF Labels, on
    <3> QED BY <2>11, <3>1, <3>2
  <2>13. \A pair \in {{"BULL", "BEAR"}, {"HIGH_VOL", "LOW_VOL"}, {"TRENDING", "RANGING"}} : ~(pair \subseteq on)
    <3> HIDE DEF on
    <3> QED BY <2>8, <2>9, <2>10, <2>11
  <2>14. \E r : on \cap {"BULL", "BEAR", "MIXED"} = {r}
    <3>1. \A r \in {"BULL", "BEAR", "MIXED"} : r \in on <=> d[r] > 300
      BY <2>11
    <3>2. \/ "BULL" \in on /\ "BEAR" \notin on /\ "MIXED" \notin on
          \/ "BEAR" \in on /\ "BULL" \notin on /\ "MIXED" \notin on
          \/ "MIXED" \in on /\ "BULL" \notin on /\ "BEAR" \notin on
      <4>1. /\ "BULL" \in on <=> d["BULL"] > 300
            /\ "BEAR" \in on <=> d["BEAR"] > 300
            /\ "MIXED" \in on <=> d["MIXED"] > 300
        BY <3>1
      <4>2. /\ ~(d["BULL"] > 300 /\ d["BEAR"] > 300) /\ ~(d["BULL"] > 300 /\ d["MIXED"] > 300)
            /\ ~(d["BEAR"] > 300 /\ d["MIXED"] > 300)
            /\ d["BULL"] > 300 \/ d["BEAR"] > 300 \/ d["MIXED"] > 300
        BY <2>8
      <4> HIDE DEF on
      <4>3. ~("BULL" \in on /\ "BEAR" \in on)
        BY <4>1, <4>2, Zenon
      <4>4. ~("BULL" \in on /\ "MIXED" \in on)
        BY <4>1, <4>2, Zenon
      <4>5. ~("BEAR" \in on /\ "MIXED" \in on)
        BY <4>1, <4>2, Zenon
      <4>6. "BULL" \in on \/ "BEAR" \in on \/ "MIXED" \in on
        BY <4>1, <4>2, Zenon
      <4> QED BY <4>3, <4>4, <4>5, <4>6
    <3> HIDE DEF on
    <3> QED BY <3>2, OneOfThree
  <2>15. Routing!Cardinality(on \cap {"BULL", "BEAR", "MIXED"}) = 1
    <3>1. PICK r : on \cap {"BULL", "BEAR", "MIXED"} = {r}
      BY <2>14, Zenon
    <3>2. Cardinality({r}) = 1
      BY FS_Singleton
    <3>3. Routing!Cardinality({r}) = 1
      BY <3>2, Zenon DEF Routing!Cardinality, Cardinality
    <3> HIDE DEF on
    <3> QED BY <3>1, <3>3, Zenon
  <2> HIDE DEF on
  <2> QED BY <1>2, <2>4, <2>12, <2>13, <2>15 DEF Routing!RegimesExclusive, on
<1> QED BY <1>4, <1>5

\* What the router promises follows from its invariant.
LEMMA RoutingInvSafe == ASSUME RoutingInv PROVE Routing!Safe
<1>1. Routing!ReplayIsExact
  BY DEF RoutingInv
<1> QED BY <1>1, BuiltAreValid, ChosenIsBest, LabelsExclusive DEF Routing!Safe

---------------------------------------------------------------------------
(* The audit queries                                                       *)

\* What a row of the journal holds for an audit.
AuditRow ==
  [kind : {"trade", "blocked"}, at : Nat, symbol : {s.symbol : s \in RowSignals},
   side : {s.side : s \in RowSignals}, reason : {s.reason : s \in RowSignals},
   pnl : {{}} \cup {{p} : p \in RowPnls}]

\* Every row has an instant of its own, and the two tables hold their kinds.
AuditInv ==
  /\ trades \in Seq(AuditRow) /\ vetoed \in Seq(AuditRow) /\ Len(trades) <= MaxTrades
  /\ \A i \in 1..Len(trades) : trades[i].kind = "trade" /\ trades[i].at < Audit!Instant
  /\ \A i \in 1..Len(vetoed) : vetoed[i].kind = "blocked" /\ vetoed[i].at < Audit!Instant
  /\ \A i, j \in 1..Len(trades) : trades[i].at = trades[j].at => i = j
  /\ \A i, j \in 1..Len(vetoed) : vetoed[i].at = vetoed[j].at => i = j
  /\ \A i \in 1..Len(trades), j \in 1..Len(vetoed) : trades[i].at # vetoed[j].at

\* Before anything happened there are no rows.
LEMMA InitAudit == Audit!Init => AuditInv
<1> SUFFICES ASSUME Audit!Init PROVE AuditInv
  OBVIOUS
<1>1. trades = <<>> /\ vetoed = <<>>
  BY DEF Audit!Init
<1>2. /\ trades \in Seq(AuditRow) /\ vetoed \in Seq(AuditRow)
      /\ Len(trades) = 0 /\ Len(vetoed) = 0 /\ 1..0 = {}
  BY <1>1
<1>3. MaxTrades \in Nat
  BY RowsAssumption DEF RowsAssumption, Audit!AuditAssumption
<1> QED BY <1>2, <1>3 DEF AuditInv

\* A row appended gets the next instant; closing a trade leaves its instant.
LEMMA AuditStepKeeps == AuditInv /\ [Audit!Next]_auditVars => AuditInv'
<1> SUFFICES ASSUME AuditInv, [Audit!Next]_auditVars PROVE AuditInv'
  OBVIOUS
<1> DEFINE T == Len(trades)
           V == Len(vetoed)
<1>1. /\ trades \in Seq(AuditRow) /\ vetoed \in Seq(AuditRow) /\ T \in Nat /\ V \in Nat
      /\ \A i \in 1..T : trades[i] \in AuditRow
      /\ \A i \in 1..V : vetoed[i] \in AuditRow
  <2> HIDE DEF AuditRow
  <2> QED BY DEF AuditInv
<1>2. \A row \in AuditRow : row.at \in Nat
  BY DEF AuditRow
<1>3. Audit!Instant = T + V + 1
  BY DEF Audit!Instant
<1>4. CASE UNCHANGED auditVars
  BY <1>4 DEF auditVars, AuditInv, Audit!Instant
<1>5. ASSUME NEW s \in RowSignals, Audit!RecordOpened(s)
      PROVE  AuditInv'
  <2> DEFINE row == [kind |-> "trade", at |-> Audit!Instant, symbol |-> s.symbol,
                     side |-> s.side, reason |-> s.reason, pnl |-> {}]
  <2>1. trades' = Append(trades, row) /\ vetoed' = vetoed /\ T < MaxTrades
    BY <1>5 DEF Audit!RecordOpened
  <2>2. row \in AuditRow /\ row.kind = "trade" /\ row.at = T + V + 1
    BY <1>1, <1>3 DEF AuditRow
  <2> HIDE DEF row, AuditRow
  <2>3. /\ trades' \in Seq(AuditRow) /\ Len(trades') = T + 1
        /\ trades'[T + 1] = row /\ \A i \in 1..T : trades'[i] = trades[i]
    BY <1>1, <2>1, <2>2
  <2>4. MaxTrades \in Nat
    BY RowsAssumption DEF RowsAssumption, Audit!AuditAssumption
  <2>5. Audit!Instant' = T + V + 2
    BY <1>1, <2>1, <2>3 DEF Audit!Instant
  <2>6. \A i \in 1..Len(trades') : i = T + 1 \/ i \in 1..T
    BY <1>1, <2>3
  <2>7. /\ \A i \in 1..T : trades[i].kind = "trade" /\ trades[i].at < T + V + 1 /\ trades[i].at \in Nat
        /\ \A i \in 1..V : vetoed[i].kind = "blocked" /\ vetoed[i].at < T + V + 1 /\ vetoed[i].at \in Nat
        /\ \A i, j \in 1..T : trades[i].at = trades[j].at => i = j
        /\ \A i, j \in 1..V : vetoed[i].at = vetoed[j].at => i = j
        /\ \A i \in 1..T, j \in 1..V : trades[i].at # vetoed[j].at
    BY <1>1, <1>2, <1>3 DEF AuditInv
  <2>8. /\ \A i \in 1..Len(trades') : trades'[i].kind = "trade" /\ trades'[i].at < Audit!Instant'
        /\ \A i \in 1..V : vetoed[i].kind = "blocked" /\ vetoed[i].at < Audit!Instant'
    <3>1. \A n \in Nat : n < T + V + 1 => n < T + V + 2
      BY <1>1
    <3>2. T + V + 1 < T + V + 2
      BY <1>1
    <3>3. ASSUME NEW i \in 1..T
          PROVE  trades'[i].kind = "trade" /\ trades'[i].at < Audit!Instant'
      <4>1. PICK n \in Nat : n = trades[i].at
        BY <2>7
      <4>2. n < T + V + 2 /\ trades[i].kind = "trade"
        BY <2>7, <3>1, <4>1
      <4> QED BY <2>3, <2>5, <4>1, <4>2
    <3>4. trades'[T + 1].kind = "trade" /\ trades'[T + 1].at < Audit!Instant'
      BY <2>2, <2>3, <2>5, <3>2
    <3>5. \A i \in 1..V : vetoed[i].kind = "blocked" /\ vetoed[i].at < Audit!Instant'
      BY <2>5, <2>7, <3>1
    <3> QED BY <2>6, <3>3, <3>4, <3>5, Zenon
  <2>9. \A i, j \in 1..Len(trades') : trades'[i].at = trades'[j].at => i = j
    <3>1. \A i \in 1..T : trades'[i].at < T + V + 1
      BY <2>3, <2>7
    <3>2. \A n \in Nat : n < T + V + 1 => n # T + V + 1
      BY <1>1
    <3>3. \A i \in 1..T : trades'[i].at # trades'[T + 1].at
      BY <2>2, <2>3, <2>7, <3>1, <3>2
    <3> QED BY <2>3, <2>6, <2>7, <3>3
  <2>10. \A i \in 1..Len(trades'), j \in 1..V : trades'[i].at # vetoed[j].at
    BY <1>1, <2>2, <2>3, <2>6, <2>7
  <2>11. Len(trades') <= MaxTrades
    BY <1>1, <2>1, <2>3, <2>4
  <2> QED BY <1>1, <2>1, <2>3, <2>7, <2>8, <2>9, <2>10, <2>11 DEF AuditInv
<1>6. ASSUME NEW s \in RowSignals, Audit!RecordBlocked(s)
      PROVE  AuditInv'
  <2> DEFINE row == [kind |-> "blocked", at |-> Audit!Instant, symbol |-> s.symbol,
                     side |-> s.side, reason |-> s.reason, pnl |-> {}]
  <2>1. vetoed' = Append(vetoed, row) /\ trades' = trades
    BY <1>6 DEF Audit!RecordBlocked
  <2>2. row \in AuditRow /\ row.kind = "blocked" /\ row.at = T + V + 1
    BY <1>1, <1>3 DEF AuditRow
  <2> HIDE DEF row, AuditRow
  <2>3. /\ vetoed' \in Seq(AuditRow) /\ Len(vetoed') = V + 1
        /\ vetoed'[V + 1] = row /\ \A i \in 1..V : vetoed'[i] = vetoed[i]
    BY <1>1, <2>1, <2>2
  <2>5. Audit!Instant' = T + V + 2
    BY <1>1, <2>1, <2>3 DEF Audit!Instant
  <2>6. \A i \in 1..Len(vetoed') : i = V + 1 \/ i \in 1..V
    BY <1>1, <2>3
  <2>7. /\ \A i \in 1..T : trades[i].kind = "trade" /\ trades[i].at < T + V + 1 /\ trades[i].at \in Nat
        /\ \A i \in 1..V : vetoed[i].kind = "blocked" /\ vetoed[i].at < T + V + 1 /\ vetoed[i].at \in Nat
        /\ \A i, j \in 1..T : trades[i].at = trades[j].at => i = j
        /\ \A i, j \in 1..V : vetoed[i].at = vetoed[j].at => i = j
        /\ \A i \in 1..T, j \in 1..V : trades[i].at # vetoed[j].at
    BY <1>1, <1>2, <1>3 DEF AuditInv
  <2>8. /\ \A i \in 1..T : trades[i].kind = "trade" /\ trades[i].at < Audit!Instant'
        /\ \A i \in 1..Len(vetoed') : vetoed'[i].kind = "blocked" /\ vetoed'[i].at < Audit!Instant'
    <3>1. \A n \in Nat : n < T + V + 1 => n < T + V + 2
      BY <1>1
    <3>2. T + V + 1 < T + V + 2
      BY <1>1
    <3>3. ASSUME NEW i \in 1..V
          PROVE  vetoed'[i].kind = "blocked" /\ vetoed'[i].at < Audit!Instant'
      <4>1. PICK n \in Nat : n = vetoed[i].at
        BY <2>7
      <4>2. n < T + V + 2 /\ vetoed[i].kind = "blocked"
        BY <2>7, <3>1, <4>1
      <4> QED BY <2>3, <2>5, <4>1, <4>2
    <3>4. vetoed'[V + 1].kind = "blocked" /\ vetoed'[V + 1].at < Audit!Instant'
      BY <2>2, <2>3, <2>5, <3>2
    <3>5. \A i \in 1..T : trades[i].kind = "trade" /\ trades[i].at < Audit!Instant'
      BY <2>5, <2>7, <3>1
    <3> QED BY <2>6, <3>3, <3>4, <3>5, Zenon
  <2>9. \A i, j \in 1..Len(vetoed') : vetoed'[i].at = vetoed'[j].at => i = j
    <3>1. \A i \in 1..V : vetoed'[i].at < T + V + 1
      BY <2>3, <2>7
    <3>2. \A n \in Nat : n < T + V + 1 => n # T + V + 1
      BY <1>1
    <3>3. \A i \in 1..V : vetoed'[i].at # vetoed'[V + 1].at
      BY <2>2, <2>3, <2>7, <3>1, <3>2
    <3> QED BY <2>3, <2>6, <2>7, <3>3
  <2>10. \A i \in 1..T, j \in 1..Len(vetoed') : trades[i].at # vetoed'[j].at
    BY <1>1, <2>2, <2>3, <2>6, <2>7
  <2>11. T <= MaxTrades
    BY DEF AuditInv
  <2> QED BY <1>1, <2>1, <2>3, <2>7, <2>8, <2>9, <2>10, <2>11 DEF AuditInv
<1>7. ASSUME NEW i \in DOMAIN trades, NEW pnl \in RowPnls, Audit!RecordClosed(i, pnl)
      PROVE  AuditInv'
  <2>1. trades' = [trades EXCEPT ![i].pnl = {pnl}] /\ vetoed' = vetoed
    BY <1>7 DEF Audit!RecordClosed
  <2>2. i \in 1..T /\ trades[i] \in AuditRow
    BY <1>1
  <2> DEFINE row == [trades[i] EXCEPT !.pnl = {pnl}]
  <2>3. row \in AuditRow /\ row.at = trades[i].at /\ row.kind = trades[i].kind
    BY <2>2 DEF AuditRow
  <2>4. trades' = [trades EXCEPT ![i] = row]
    BY <2>1
  <2> HIDE DEF row, AuditRow
  <2>5. /\ trades' \in Seq(AuditRow) /\ Len(trades') = T
        /\ \A k \in 1..T : trades'[k].at = trades[k].at /\ trades'[k].kind = trades[k].kind
    BY <1>1, <2>2, <2>3, <2>4
  <2>6. Audit!Instant' = Audit!Instant
    BY <2>1, <2>5 DEF Audit!Instant
  <2> QED BY <1>1, <2>1, <2>5, <2>6 DEF AuditInv
<1> QED BY <1>4, <1>5, <1>6, <1>7 DEF Audit!Next

---------------------------------------------------------------------------
(* What a limit keeps of some rows                                         *)

Dated(rs) == IsFiniteSet(rs) /\ \A r \in rs : r.at \in Nat

\* No two rows of one instant.
Distinct(rs) == \A r, s \in rs : r.at = s.at => r = s

Newer(rs, r) == {s \in rs : s.at > r.at}

\* Some row is the oldest.
LEMMA OldestRow ==
  ASSUME NEW rs, Dated(rs), rs # {}
  PROVE  \E x \in rs : \A y \in rs : x.at <= y.at
<1> DEFINE T == {r.at : r \in rs}
<1>1. T \subseteq Nat /\ T # {}
  BY DEF Dated
<1>2. PICK m \in T : \A y \in T : ~(y < m)
  <2> HIDE DEF T
  <2> QED BY <1>1, NatMin
<1>3. PICK x \in rs : x.at = m
  BY <1>2
<1>4. \A y \in rs : x.at <= y.at
  <2>1. \A y \in rs : y.at \in T /\ y.at \in Nat /\ x.at \in Nat
    BY DEF Dated
  <2> HIDE DEF T
  <2> QED BY <1>2, <1>3, <2>1
<1> QED BY <1>4

\* Some row is the newest.
LEMMA NewestRow ==
  ASSUME NEW rs, Dated(rs), rs # {}
  PROVE  \E x \in rs : \A y \in rs : y.at <= x.at
<1> DEFINE P == {S \in SUBSET rs : S = {} \/ \E x \in S : \A y \in S : y.at <= x.at}
<1>1. ASSUME NEW S \in SUBSET rs, \A x \in S : S \ {x} \in P
      PROVE  S \in P
  <2>1. CASE S = {}
    BY <2>1
  <2>2. CASE S # {}
    <3>1. PICK x \in S : TRUE
      BY <2>2
    <3>2. \A y \in S : y.at \in Nat
      BY DEF Dated
    <3>3. CASE S \ {x} = {}
      <4>1. \A y \in S : y.at <= x.at
        BY <3>2, <3>3
      <4> QED BY <4>1
    <3>4. CASE S \ {x} # {}
      <4>1. PICK z \in S \ {x} : \A y \in S \ {x} : y.at <= z.at
        BY <1>1, <3>1, <3>4
      <4>2. CASE x.at <= z.at
        <5>1. \A y \in S : y.at <= z.at
          BY <4>1, <4>2
        <5> QED BY <4>1, <5>1
      <4>3. CASE z.at <= x.at
        <5>1. \A y \in S : y.at <= x.at
          BY <3>2, <4>1, <4>3
        <5> QED BY <5>1
      <4> QED BY <3>2, <4>1, <4>2, <4>3
    <3> QED BY <3>3, <3>4
  <2> QED BY <2>1, <2>2
<1> HIDE DEF P
<1>2. SUBSET rs \subseteq P
  <2>1. IsFiniteSet(rs)
    BY DEF Dated
  <2> QED BY <1>1, <2>1, SubsetInduct
<1>3. rs \in P
  BY <1>2
<1> QED BY <1>3 DEF P

\* The limit counts the newer ones.
LEMMA NewestIs ==
  ASSUME NEW rs, NEW limit
  PROVE  Audit!Newest(rs, limit) = {r \in rs : Cardinality(Newer(rs, r)) < limit}
BY DEF Audit!Newest, Audit!Cardinality, Cardinality, Newer

\* How many are newer, as a number, and never all of them.
LEMMA NewerCounted ==
  ASSUME NEW rs, Dated(rs), NEW r \in rs
  PROVE  /\ IsFiniteSet(Newer(rs, r)) /\ Cardinality(Newer(rs, r)) \in Nat
         /\ Newer(rs, r) \subseteq rs \ {r}
         /\ Cardinality(rs) \in Nat /\ Cardinality(Newer(rs, r)) < Cardinality(rs)
<1>1. Newer(rs, r) \subseteq rs \ {r}
  BY DEF Newer, Dated
<1>2. IsFiniteSet(rs)
  BY DEF Dated
<1>3. IsFiniteSet(rs \ {r}) /\ Cardinality(rs \ {r}) = Cardinality(rs) - 1
  BY <1>2, FS_RemoveElement
<1>4. /\ IsFiniteSet(Newer(rs, r))
      /\ Cardinality(Newer(rs, r)) <= Cardinality(rs \ {r})
  BY <1>1, <1>3, FS_Subset
<1>5. Cardinality(Newer(rs, r)) \in Nat /\ Cardinality(rs) \in Nat
  BY <1>2, <1>4, FS_CardinalityType
<1> QED BY <1>1, <1>3, <1>4, <1>5

\* A part of some dated rows is dated.
LEMMA PartDated ==
  ASSUME NEW rs, Dated(rs), NEW some, some \subseteq rs
  PROVE  /\ Dated(some) /\ Cardinality(some) \in Nat /\ Cardinality(rs) \in Nat
         /\ Cardinality(some) <= Cardinality(rs)
<1>1. IsFiniteSet(rs)
  BY DEF Dated
<1>2. IsFiniteSet(some) /\ Cardinality(some) <= Cardinality(rs)
  BY <1>1, FS_Subset
<1>3. Cardinality(some) \in Nat /\ Cardinality(rs) \in Nat
  BY <1>1, <1>2, FS_CardinalityType
<1> QED BY <1>2, <1>3 DEF Dated

\* Fewer rows than the limit are all kept.
LEMMA NewestAll ==
  ASSUME NEW rs, Dated(rs), NEW limit \in Nat, Cardinality(rs) <= limit
  PROVE  Audit!Newest(rs, limit) = rs
<1>1. \A r \in rs : Cardinality(Newer(rs, r)) < limit
  <2> SUFFICES ASSUME NEW r \in rs PROVE Cardinality(Newer(rs, r)) < limit
    OBVIOUS
  <2>1. /\ Cardinality(Newer(rs, r)) \in Nat /\ Cardinality(rs) \in Nat
        /\ Cardinality(Newer(rs, r)) < Cardinality(rs)
    BY NewerCounted
  <2> QED BY <2>1
<1> QED BY <1>1, NewestIs

\* A row the limit cuts has at least that many in front of it.
LEMMA NewestEnough ==
  ASSUME NEW rs, Dated(rs), NEW limit \in Nat, NEW m \in rs, m \notin Audit!Newest(rs, limit)
  PROVE  Cardinality(Audit!Newest(rs, limit)) >= limit
<1> DEFINE N == Audit!Newest(rs, limit)
<1>1. N = {r \in rs : Cardinality(Newer(rs, r)) < limit} /\ m \notin N
  BY NewestIs
<1> HIDE DEF N
<1>2. Dated(rs \ N) /\ rs \ N # {} /\ N \subseteq rs
  BY <1>1, PartDated
<1>3. PICK x \in rs \ N : \A y \in rs \ N : y.at <= x.at
  BY <1>2, NewestRow
<1>4. Newer(rs, x) \subseteq N
  <2> SUFFICES ASSUME NEW y \in rs, y.at > x.at, y \notin N PROVE FALSE
    BY DEF Newer
  <2>1. y.at <= x.at /\ y.at \in Nat /\ x.at \in Nat
    BY <1>3 DEF Dated
  <2> QED BY <2>1
<1>5. Dated(N) /\ Cardinality(N) \in Nat
  BY <1>2, PartDated
<1>6. Cardinality(Newer(rs, x)) <= Cardinality(N) /\ Cardinality(Newer(rs, x)) \in Nat
  BY <1>4, <1>5, PartDated
<1>7. ~(Cardinality(Newer(rs, x)) < limit)
  BY <1>1, <1>3
<1>8. Cardinality(N) >= limit
  BY <1>5, <1>6, <1>7
<1> QED BY <1>8 DEF N

\* The limit is kept.
LEMMA NewestAtMost ==
  ASSUME NEW rs, Dated(rs), Distinct(rs), NEW limit \in Nat
  PROVE  Cardinality(Audit!Newest(rs, limit)) <= limit
<1> DEFINE N == Audit!Newest(rs, limit)
<1>1. N = {r \in rs : Cardinality(Newer(rs, r)) < limit}
  BY NewestIs
<1> HIDE DEF N
<1>2. N \subseteq rs
  BY <1>1
<1>3. Dated(N) /\ Cardinality(N) \in Nat
  BY <1>2, PartDated
<1>4. CASE N = {}
  <2>1. Cardinality(N) = 0
    BY <1>4, FS_EmptySet
  <2> QED BY <2>1 DEF N
<1>5. CASE N # {}
  <2>1. PICK x \in N : \A y \in N : x.at <= y.at
    BY <1>3, <1>5, OldestRow
  <2>2. N \ {x} \subseteq Newer(rs, x)
    <3> SUFFICES ASSUME NEW y \in N, y # x PROVE y.at > x.at
      BY <1>2 DEF Newer
    <3>1. x.at <= y.at /\ x.at # y.at /\ x.at \in Nat /\ y.at \in Nat
      BY <1>2, <2>1 DEF Dated, Distinct
    <3> QED BY <3>1
  <2>3. x \in rs /\ Cardinality(Newer(rs, x)) < limit
    BY <1>1
  <2>4. /\ Newer(rs, x) \subseteq rs
        /\ Dated(Newer(rs, x)) /\ Cardinality(Newer(rs, x)) \in Nat
    <3>1. Newer(rs, x) \subseteq rs
      BY DEF Newer
    <3> QED BY <3>1, PartDated
  <2>5. Cardinality(N \ {x}) <= Cardinality(Newer(rs, x)) /\ Cardinality(N \ {x}) \in Nat
    BY <2>2, <2>4, PartDated
  <2>6. Cardinality(N \ {x}) = Cardinality(N) - 1
    <3>1. IsFiniteSet(N)
      BY <1>3 DEF Dated
    <3> QED BY <2>1, <3>1, FS_RemoveElement
  <2>7. Cardinality(N) <= limit
    BY <1>3, <2>3, <2>4, <2>5, <2>6
  <2> QED BY <2>7 DEF N
<1> QED BY <1>4, <1>5

\* Cutting two tables first and then both together keeps what one cut of both
\* would have kept.
LEMMA NewestTwice ==
  ASSUME NEW A, Dated(A), NEW B, Dated(B), NEW limit \in Nat
  PROVE  Audit!Newest(Audit!Newest(A, limit) \cup Audit!Newest(B, limit), limit)
           = Audit!Newest(A \cup B, limit)
<1> DEFINE All == A \cup B
           NA == Audit!Newest(A, limit)
           NB == Audit!Newest(B, limit)
           K == NA \cup NB
<1>1. /\ NA = {r \in A : Cardinality(Newer(A, r)) < limit}
      /\ NB = {r \in B : Cardinality(Newer(B, r)) < limit}
  BY NewestIs
<1>2. Dated(All)
  BY FS_Union DEF Dated
<1> HIDE DEF NA, NB
<1>3. K \subseteq All /\ A \subseteq All /\ B \subseteq All
  BY <1>1
<1>4. \A rs, r : /\ Newer(rs, r) \subseteq rs
                 /\ \A some : some \subseteq rs => Newer(some, r) \subseteq Newer(rs, r)
  BY DEF Newer
<1>5. ASSUME NEW some, NEW rs, NEW r, some \subseteq rs, rs \subseteq All
      PROVE  /\ Cardinality(Newer(some, r)) \in Nat /\ Cardinality(Newer(rs, r)) \in Nat
             /\ Cardinality(Newer(some, r)) <= Cardinality(Newer(rs, r))
  <2> HIDE DEF All
  <2>1. /\ Newer(rs, r) \subseteq All /\ Newer(some, r) \subseteq Newer(rs, r)
    BY <1>4, <1>5
  <2>2. Dated(Newer(rs, r))
    BY <1>2, <2>1, PartDated
  <2> QED BY <2>1, <2>2, PartDated
<1>6. ASSUME NEW r \in All, Cardinality(Newer(All, r)) < limit
      PROVE  r \in K /\ Cardinality(Newer(K, r)) < limit
  <2>1. r \in A => Cardinality(Newer(A, r)) < limit
    BY <1>3, <1>5, <1>6
  <2>2. r \in B => Cardinality(Newer(B, r)) < limit
    BY <1>3, <1>5, <1>6
  <2>3. Cardinality(Newer(K, r)) < limit
    <3> HIDE DEF K, All
    <3> QED BY <1>3, <1>5, <1>6
  <2> QED BY <1>1, <2>1, <2>2, <2>3
<1>7. ASSUME NEW r \in K, Cardinality(Newer(K, r)) < limit
      PROVE  r \in All /\ Cardinality(Newer(All, r)) < limit
  <2> DEFINE Lost == Newer(All, r) \ K
  <2>1. CASE Lost = {}
    <3>1. Newer(All, r) = Newer(K, r)
      BY <1>3, <2>1 DEF Newer
    <3> HIDE DEF K, All
    <3> QED BY <1>3, <1>7, <3>1
  <2>2. CASE Lost # {}
    <3>1. Lost \subseteq All
      BY DEF Newer
    <3>2. Dated(Lost)
      <4> HIDE DEF Lost, All
      <4> QED BY <1>2, <3>1, PartDated
    <3>3. PICK x \in Lost : \A y \in Lost : y.at <= x.at
      <4> HIDE DEF Lost
      <4> QED BY <2>2, <3>2, NewestRow
    <3>4. x.at > r.at /\ x \in All /\ x \notin K /\ x.at \in Nat /\ r.at \in Nat
      BY <1>2, <1>3, <3>1 DEF Newer, Dated
    <3>5. ASSUME NEW S \in {A, B}
          PROVE  Newer(S, x) \subseteq Newer(K, r)
      <4> SUFFICES ASSUME NEW y \in S, y.at > x.at PROVE y \in K /\ y.at > r.at
        BY DEF Newer
      <4>1. y \in All /\ y.at \in Nat
        BY <1>2 DEF Dated
      <4>2. y.at > r.at
        BY <3>4, <4>1
      <4>3. ~(y.at <= x.at)
        BY <3>4, <4>1
      <4>4. y \notin Lost
        BY <3>3, <4>3
      <4> QED BY <4>1, <4>2, <4>4 DEF Newer
    <3>6. PICK S \in {A, B} : x \in S
      BY <3>4
    <3>7. ~(Cardinality(Newer(S, x)) < limit)
      BY <1>1, <3>4, <3>6
    <3>8. Newer(K, r) \subseteq All /\ Dated(Newer(K, r))
      <4>1. Newer(K, r) \subseteq All
        BY <1>3, <1>4
      <4> HIDE DEF K, All
      <4> QED BY <1>2, <4>1, PartDated
    <3>9. /\ Cardinality(Newer(S, x)) <= Cardinality(Newer(K, r))
          /\ Cardinality(Newer(S, x)) \in Nat /\ Cardinality(Newer(K, r)) \in Nat
      <4>1. Newer(S, x) \subseteq Newer(K, r)
        BY <3>5, <3>6
      <4> HIDE DEF K, All, Lost
      <4> QED BY <3>8, <4>1, PartDated
    <3> HIDE DEF K, All, Lost
    <3> QED BY <1>7, <3>7, <3>9
  <2> QED BY <1>3, <2>1, <2>2
<1>8. /\ Audit!Newest(K, limit) = {r \in K : Cardinality(Newer(K, r)) < limit}
      /\ Audit!Newest(All, limit) = {r \in All : Cardinality(Newer(All, r)) < limit}
  BY NewestIs
<1>9. Audit!Newest(K, limit) = Audit!Newest(All, limit)
  <2> HIDE DEF K, All
  <2> QED BY <1>6, <1>7, <1>8
<1> QED BY <1>9 DEF NA, NB

---------------------------------------------------------------------------
(* What the queries answer                                                 *)

Entered(f) == {r \in Audit!Range(trades) : Audit!Matches(r, f)}
Stopped(f) == {r \in Audit!Range(vetoed) : Audit!Matches(r, f)}

\* The rows of both tables have dates, no two the same.
LEMMA RowsDated ==
  ASSUME AuditInv, NEW f
  PROVE  /\ Entered(f) \subseteq AuditRow /\ Stopped(f) \subseteq AuditRow
         /\ Dated(Entered(f)) /\ Dated(Stopped(f)) /\ Dated(Entered(f) \cup Stopped(f))
         /\ Distinct(Entered(f) \cup Stopped(f))
         /\ \A r \in Entered(f) : r.kind = "trade"
         /\ \A r \in Stopped(f) : r.kind = "blocked"
         /\ MaxTrades \in Nat /\ Cardinality(Entered(f)) <= MaxTrades
<1> DEFINE T == Audit!Range(trades)
           V == Audit!Range(vetoed)
<1>1. /\ DOMAIN trades = 1..Len(trades) /\ Len(trades) \in Nat
      /\ DOMAIN vetoed = 1..Len(vetoed) /\ Len(vetoed) \in Nat
      /\ \A i \in 1..Len(trades) : trades[i] \in AuditRow
      /\ \A i \in 1..Len(vetoed) : vetoed[i] \in AuditRow
  <2> HIDE DEF AuditRow
  <2> QED BY DEF AuditInv
<1>2. T = {trades[i] : i \in 1..Len(trades)} /\ V = {vetoed[i] : i \in 1..Len(vetoed)}
  BY <1>1 DEF Audit!Range
<1>3. \A n \in Nat : IsFiniteSet(1..n) /\ Cardinality(1..n) = n
  BY FS_Interval
<1>4. IsFiniteSet(T) /\ IsFiniteSet(V)
  <2>1. IsFiniteSet(1..Len(trades)) /\ IsFiniteSet(1..Len(vetoed))
    BY <1>1, <1>3
  <2>2. IsFiniteSet({trades[i] : i \in 1..Len(trades)})
    BY <2>1, ImageFinite
  <2>3. IsFiniteSet({vetoed[i] : i \in 1..Len(vetoed)})
    BY <2>1, ImageFinite
  <2> QED BY <1>2, <2>2, <2>3
<1>5. Cardinality(T) <= Len(trades)
  <2> DEFINE g == [i \in 1..Len(trades) |-> trades[i]]
  <2>1. g \in Surjection(1..Len(trades), T)
    BY <1>2 DEF Surjection
  <2> HIDE DEF g, T
  <2>2. IsFiniteSet(1..Len(trades)) /\ Cardinality(1..Len(trades)) = Len(trades)
    BY <1>1, <1>3
  <2> QED BY <2>1, <2>2, FS_Surjection
<1>6. /\ \A r \in T : r \in AuditRow /\ r.kind = "trade"
      /\ \A r \in V : r \in AuditRow /\ r.kind = "blocked"
  <2> HIDE DEF AuditRow, T, V
  <2> QED BY <1>1, <1>2 DEF AuditInv
<1>7. \A r, s \in T \cup V : r.at = s.at => r = s
  <2> HIDE DEF AuditRow, T, V
  <2> QED BY <1>1, <1>2 DEF AuditInv
<1>8. \A r \in AuditRow : r.at \in Nat
  BY DEF AuditRow
<1>9. Entered(f) \subseteq T /\ Stopped(f) \subseteq V
  BY DEF Entered, Stopped
<1> HIDE DEF T, V, AuditRow
<1>10. Dated(T) /\ Dated(V)
  BY <1>4, <1>6, <1>8 DEF Dated
<1>11. /\ Dated(Entered(f)) /\ Dated(Stopped(f)) /\ Cardinality(Entered(f)) \in Nat
       /\ Cardinality(T) \in Nat /\ Cardinality(Entered(f)) <= Cardinality(T)
  BY <1>9, <1>10, PartDated
<1>12. Dated(Entered(f) \cup Stopped(f))
  BY <1>11, FS_Union DEF Dated
<1>13. MaxTrades \in Nat /\ Len(trades) <= MaxTrades
  BY RowsAssumption DEF RowsAssumption, Audit!AuditAssumption, AuditInv
<1>14. Cardinality(Entered(f)) <= MaxTrades
  BY <1>1, <1>5, <1>11, <1>13
<1>15. Distinct(Entered(f) \cup Stopped(f))
  BY <1>7, <1>9 DEF Distinct
<1> QED BY <1>6, <1>9, <1>11, <1>12, <1>13, <1>14, <1>15

\* Without a status and a reason, the answer is the newest of both tables;
\* with a reason it is cut after it was asked for the reason.
LEMMA ShowsTheNewest == AuditInv => Audit!AuditShowsTheNewest
<1> SUFFICES ASSUME AuditInv, NEW f \in Audit!Filters, NEW limit \in AuditLimits
             PROVE  LET all == {r \in Audit!Range(trades) \cup Audit!Range(vetoed) : Audit!Matches(r, f)} IN
                    /\ Audit!EntryDecisions(f, "", "", limit) = Audit!Newest(all, limit)
                    /\ \A text \in Audit!Reasons :
                         LET shown == Audit!EntryDecisions(f, "", text, limit)
                             missed == {r \in all : r.reason = text} \ shown
                         IN /\ Audit!Cardinality(shown) <= limit
                            /\ \A m \in missed :
                                 \/ Audit!Cardinality({r \in all : r.kind = m.kind}) > limit
                                 \/ Audit!Cardinality(shown) = limit
  BY DEF Audit!AuditShowsTheNewest
<1> DEFINE A == Entered(f)
           B == Stopped(f)
           all == {r \in Audit!Range(trades) \cup Audit!Range(vetoed) : Audit!Matches(r, f)}
           cut == Audit!Newest(A, limit) \cup Audit!Newest(B, limit)
<1>1. /\ Dated(A) /\ Dated(B) /\ Dated(A \cup B) /\ Distinct(A \cup B)
      /\ \A r \in A : r.kind = "trade"
      /\ \A r \in B : r.kind = "blocked"
  BY RowsDated
<1>2. all = A \cup B
  BY DEF Entered, Stopped
<1>3. limit \in Nat
  BY RowsAssumption DEF RowsAssumption, Audit!AuditAssumption
<1>4. \A text \in Audit!Reasons : text # "" /\ text # Audit!NoReason
  BY RowsAssumption DEF RowsAssumption, Audit!AuditAssumption, Audit!Reasons
<1>5. Audit!EntryDecisions(f, "", "", limit) = Audit!Newest(cut, limit)
  <2>1. {d \in cut : "" # "" => "" # Audit!NoReason /\ d.reason = ""} = cut
    OBVIOUS
  <2> QED BY <2>1 DEF Audit!EntryDecisions, Entered, Stopped
<1>6. cut \subseteq A \cup B
  BY NewestIs
<1>7. ASSUME NEW text \in Audit!Reasons
      PROVE  LET shown == Audit!EntryDecisions(f, "", text, limit)
                 missed == {r \in all : r.reason = text} \ shown
             IN /\ Audit!Cardinality(shown) <= limit
                /\ \A m \in missed :
                     \/ Audit!Cardinality({r \in all : r.kind = m.kind}) > limit
                     \/ Audit!Cardinality(shown) = limit
  <2> DEFINE kept == {d \in cut : d.reason = text}
             shown == Audit!EntryDecisions(f, "", text, limit)
  <2>1. shown = Audit!Newest(kept, limit)
    <3>1. {d \in cut : text # "" => text # Audit!NoReason /\ d.reason = text} = kept
      BY <1>4
    <3> QED BY <3>1 DEF Audit!EntryDecisions, Entered, Stopped
  <2> HIDE DEF shown
  <2>2. kept \subseteq A \cup B
    BY <1>6
  <2>3. Dated(kept) /\ Distinct(kept)
    <3>1. Distinct(kept)
      BY <1>1, <2>2 DEF Distinct
    <3> HIDE DEF kept, A, B
    <3> QED BY <1>1, <2>2, <3>1, PartDated
  <2>4. Cardinality(shown) <= limit
    <3> HIDE DEF kept
    <3> QED BY <1>3, <2>1, <2>3, NewestAtMost
  <2>5. Cardinality(shown) \in Nat
    <3>1. shown \subseteq kept
      BY <2>1, NewestIs
    <3> HIDE DEF kept
    <3> QED BY <2>3, <3>1, PartDated
  <2>6. ASSUME NEW m \in A \cup B, m.reason = text, m \notin shown
        PROVE  \/ Cardinality({r \in A \cup B : r.kind = m.kind}) > limit
               \/ Cardinality(shown) = limit
    <3>1. CASE m \in kept
      <4> HIDE DEF kept
      <4>1. Cardinality(shown) >= limit
        BY <1>3, <2>1, <2>3, <2>6, <3>1, NewestEnough
      <4> QED BY <1>3, <2>4, <2>5, <4>1
    <3>2. CASE m \notin kept
      <4>1. m \notin cut
        BY <2>6, <3>2
      <4>2. ASSUME NEW S, Dated(S), m \in S, m \notin Audit!Newest(S, limit),
                   S = {r \in A \cup B : r.kind = m.kind}
            PROVE  Cardinality({r \in A \cup B : r.kind = m.kind}) > limit
        <5>1. ~(Cardinality(Newer(S, m)) < limit)
          BY <4>2, NewestIs
        <5>2. /\ Cardinality(Newer(S, m)) \in Nat /\ Cardinality(S) \in Nat
              /\ Cardinality(Newer(S, m)) < Cardinality(S)
          BY <4>2, NewerCounted
        <5>3. Cardinality(S) > limit
          BY <1>3, <5>1, <5>2
        <5> QED BY <4>2, <5>3
      <4>3. CASE m \in A
        <5>1. A = {r \in A \cup B : r.kind = m.kind}
          BY <1>1, <4>3
        <5> HIDE DEF A, B
        <5> QED BY <1>1, <4>1, <4>2, <4>3, <5>1
      <4>4. CASE m \in B
        <5>1. B = {r \in A \cup B : r.kind = m.kind}
          BY <1>1, <4>4
        <5> HIDE DEF A, B
        <5> QED BY <1>1, <4>1, <4>2, <4>4, <5>1
      <4> QED BY <2>6, <4>3, <4>4
    <3> QED BY <3>1, <3>2
  <2>7. ASSUME NEW m \in {r \in all : r.reason = text} \ shown
        PROVE  \/ Audit!Cardinality({r \in all : r.kind = m.kind}) > limit
               \/ Audit!Cardinality(shown) = limit
    <3> HIDE DEF all, A, B, kept, cut
    <3> QED BY <1>2, <2>6, <2>7 DEF Audit!Cardinality, Cardinality
  <2>8. Audit!Cardinality(shown) <= limit
    BY <2>4 DEF Audit!Cardinality, Cardinality
  <2> QED BY <2>7, <2>8 DEF shown
<1>8. Audit!EntryDecisions(f, "", "", limit) = Audit!Newest(all, limit)
  <2>1. Audit!Newest(cut, limit) = Audit!Newest(A \cup B, limit)
    <3> HIDE DEF A, B
    <3> QED BY <1>1, <1>3, NewestTwice
  <2> HIDE DEF all, cut, A, B
  <2> QED BY <1>2, <1>5, <2>1
<1> QED BY <1>7, <1>8

Closed(f) == {r \in Entered(f) : r.pnl # {}}
Group(rs, field, l) == {r \in rs : r[field] = l}
Labels(rs, field) == {r[field] : r \in rs}

\* The closed rows of a filter are finitely many and have a result each.
LEMMA ClosedTyped ==
  ASSUME AuditInv, NEW f
  PROVE  /\ Audit!ClosedRows(f) = Closed(f) /\ IsFiniteSet(Closed(f))
         /\ \A r \in Closed(f) : Audit!PnlOf(r) \in Int
<1>1. Audit!ClosedRows(f) = Closed(f)
  BY DEF Audit!ClosedRows, Closed, Entered
<1>2. Entered(f) \subseteq AuditRow /\ Dated(Entered(f))
  BY RowsDated
<1>3. Closed(f) \subseteq Entered(f)
  BY DEF Closed
<1>4. Dated(Closed(f))
  BY <1>2, <1>3, PartDated
<1>5. ASSUME NEW r \in Closed(f) PROVE Audit!PnlOf(r) \in Int
  <2>1. r \in AuditRow /\ r.pnl # {}
    BY <1>2 DEF Closed
  <2>2. r.pnl \subseteq RowPnls
    BY <2>1 DEF AuditRow
  <2>3. Audit!PnlOf(r) \in r.pnl
    BY <2>1 DEF Audit!PnlOf
  <2> QED BY <2>2, <2>3, RowsAssumption DEF RowsAssumption, Audit!AuditAssumption
<1> QED BY <1>1, <1>4, <1>5 DEF Dated

\* The fold behind a total is the sum.
LEMMA AuditTotalIsSum == \A amounts : Audit!Total(amounts) = Sum(amounts, DOMAIN amounts)
BY DEF Audit!Total, Audit!FoldFunction, Audit!FoldFunctionOnSet,
       Audit!MapThenFoldSet, Sum, FoldFunctionOnSet, MapThenFoldSet

\* The figures of some rows.
LEMMA CountIs ==
  ASSUME NEW rs, IsFiniteSet(rs), \A r \in rs : Audit!PnlOf(r) \in Int
  PROVE  LET c == Audit!Count(rs)
             won == {r \in rs : Audit!PnlOf(r) > 0}
             f == [r \in rs |-> Audit!PnlOf(r)]
         IN /\ c.count = Cardinality(rs) /\ c.wins = Cardinality(won)
            /\ c.total = Sum(f, rs)
            /\ c.count \in Nat /\ c.wins \in Nat /\ won \in SUBSET rs
            /\ c.wins + c.losses + c.even = c.count
<1> DEFINE won == {r \in rs : Audit!PnlOf(r) > 0}
           lost == {r \in rs : Audit!PnlOf(r) < 0}
           even == {r \in rs : Audit!PnlOf(r) = 0}
           f == [r \in rs |-> Audit!PnlOf(r)]
<1>1. Audit!Count(rs) =
        [count |-> Cardinality(rs), wins |-> Cardinality(won), losses |-> Cardinality(lost),
         even |-> Cardinality(even), total |-> Audit!Total(f)]
  BY DEF Audit!Count, Audit!Cardinality, Cardinality
<1>2. Audit!Total(f) = Sum(f, rs)
  <2>1. DOMAIN f = rs
    OBVIOUS
  <2> HIDE DEF f
  <2> QED BY <2>1, AuditTotalIsSum
<1>3. /\ won \in SUBSET rs /\ lost \in SUBSET rs /\ even \in SUBSET rs
      /\ won \cap lost = {} /\ (won \cup lost) \cap even = {} /\ (won \cup lost) \cup even = rs
  OBVIOUS
<1> HIDE DEF won, lost, even, f
<1>4. IsFiniteSet(won) /\ IsFiniteSet(lost) /\ IsFiniteSet(even) /\ IsFiniteSet(won \cup lost)
  BY <1>3, FS_Subset, FS_Union
<1>5. /\ Cardinality(won) \in Nat /\ Cardinality(lost) \in Nat /\ Cardinality(even) \in Nat
      /\ Cardinality(rs) \in Nat /\ Cardinality(won \cup lost) \in Nat
  BY <1>4, FS_CardinalityType
<1>6. Cardinality({}) = 0
  BY FS_EmptySet
<1>7. Cardinality(won \cup lost) = Cardinality(won) + Cardinality(lost) - Cardinality(won \cap lost)
  BY <1>4, FS_Union
<1>8. Cardinality((won \cup lost) \cup even)
        = Cardinality(won \cup lost) + Cardinality(even) - Cardinality((won \cup lost) \cap even)
  BY <1>4, FS_Union
<1>9. Cardinality(won) + Cardinality(lost) + Cardinality(even) = Cardinality(rs)
  <2>1. Cardinality(won \cup lost) = Cardinality(won) + Cardinality(lost) - 0
    BY <1>3, <1>6, <1>7, Zenon
  <2>2. Cardinality(rs) = Cardinality(won \cup lost) + Cardinality(even) - 0
    BY <1>3, <1>6, <1>8, Zenon
  <2> QED BY <1>5, <2>1, <2>2
<1> QED BY <1>1, <1>2, <1>3, <1>5, <1>9 DEF won, f

\* What a breakdown says of its rows.
LEMMA BreakdownIs ==
  ASSUME NEW rs, IsFiniteSet(rs), NEW field, NEW minCount \in Nat, NEW threshold
  PROVE  LET b == Audit!Breakdown(rs, field, minCount, threshold)
             listed == {l \in Labels(rs, field) : Cardinality(Group(rs, field, l)) >= minCount}
         IN /\ DOMAIN b.groups = listed
            /\ \A l \in listed : b.groups[l] = Audit!Count(Group(rs, field, l))
            /\ b.overall = Audit!Count(rs)
            /\ b.alerts = {l \in listed :
                             /\ Cardinality(Group(rs, field, l)) >= MinTrades
                             /\ Audit!Below(Audit!Count(Group(rs, field, l)), threshold)}
            /\ b.alert => Audit!Below(Audit!Count(rs), threshold)
            /\ minCount <= 1 => listed = Labels(rs, field)
<1> DEFINE G(l) == Group(rs, field, l)
           L == Labels(rs, field)
           listed == {l \in L : Cardinality(G(l)) >= minCount}
<1>1. /\ L = {r[field] : r \in rs}
      /\ \A l : G(l) = {r \in rs : r[field] = l}
  BY DEF Group, Labels
<1>2. \A S : Audit!Count(S).count = Cardinality(S)
  BY DEF Audit!Count, Audit!Cardinality, Cardinality
<1>3. Audit!Breakdown(rs, field, minCount, threshold) =
        [groups |-> [l \in listed |-> Audit!Count(G(l))], overall |-> Audit!Count(rs),
         alerts |-> {l \in listed : Cardinality(G(l)) >= MinTrades
                                      /\ Audit!Below(Audit!Count(G(l)), threshold)},
         alert |-> Cardinality(rs) >= MinTrades /\ Audit!Below(Audit!Count(rs), threshold)]
  BY <1>2, Zenon DEF Audit!Breakdown, Group, Labels
<1>4. minCount <= 1 => listed = L
  <2> SUFFICES ASSUME minCount <= 1, NEW l \in L PROVE Cardinality(G(l)) >= minCount
    OBVIOUS
  <2>1. G(l) # {} /\ G(l) \subseteq rs
    BY <1>1
  <2> HIDE DEF G
  <2>2. IsFiniteSet(G(l)) /\ Cardinality(G(l)) \in Nat
    BY <2>1, FS_Subset, FS_CardinalityType
  <2>3. Cardinality(G(l)) # 0
    BY <2>1, <2>2, FS_EmptySet
  <2> QED BY <2>2, <2>3
<1> HIDE DEF listed, G, L
<1> DEFINE b == Audit!Breakdown(rs, field, minCount, threshold)
<1>5. /\ DOMAIN b.groups = listed
      /\ \A l \in listed : b.groups[l] = Audit!Count(G(l))
      /\ b.overall = Audit!Count(rs)
      /\ b.alerts = {l \in listed : Cardinality(G(l)) >= MinTrades
                                      /\ Audit!Below(Audit!Count(G(l)), threshold)}
      /\ b.alert => Audit!Below(Audit!Count(rs), threshold)
  <2> DEFINE groups == [l \in listed |-> Audit!Count(G(l))]
             alerts == {l \in listed : Cardinality(G(l)) >= MinTrades
                                          /\ Audit!Below(Audit!Count(G(l)), threshold)}
             alert == Cardinality(rs) >= MinTrades /\ Audit!Below(Audit!Count(rs), threshold)
  <2>1. DOMAIN groups = listed /\ \A l \in listed : groups[l] = Audit!Count(G(l))
    OBVIOUS
  <2>2. alert => Audit!Below(Audit!Count(rs), threshold)
    OBVIOUS
  <2> HIDE DEF groups, alert
  <2>3. /\ b.groups = groups /\ b.overall = Audit!Count(rs)
        /\ b.alerts = alerts /\ b.alert = alert
    BY <1>3 DEF groups, alert
  <2> QED BY <2>1, <2>2, <2>3, Zenon
<1> HIDE DEF b
<1> QED BY <1>4, <1>5, Zenon DEF b, listed, L, G

\* The least group that is listed may have one row: then every label is.
LEMMA BreakdownListsAll ==
  ASSUME NEW rs, IsFiniteSet(rs), NEW field, NEW threshold
  PROVE  LET b == Audit!Breakdown(rs, field, 1, threshold)
         IN /\ DOMAIN b.groups = Labels(rs, field)
            /\ \A l \in Labels(rs, field) : b.groups[l] = Audit!Count(Group(rs, field, l))
            /\ b.overall = Audit!Count(rs)
            /\ b.alerts = {l \in Labels(rs, field) :
                             /\ Cardinality(Group(rs, field, l)) >= MinTrades
                             /\ Audit!Below(Audit!Count(Group(rs, field, l)), threshold)}
<1> DEFINE one == 1
           b == Audit!Breakdown(rs, field, one, threshold)
           listed == {l \in Labels(rs, field) : Cardinality(Group(rs, field, l)) >= one}
<1>1. one \in Nat /\ one <= 1
  OBVIOUS
<1> HIDE DEF one
<1>2. /\ DOMAIN b.groups = listed
      /\ \A l \in listed : b.groups[l] = Audit!Count(Group(rs, field, l))
      /\ b.overall = Audit!Count(rs)
      /\ b.alerts = {l \in listed :
                       /\ Cardinality(Group(rs, field, l)) >= MinTrades
                       /\ Audit!Below(Audit!Count(Group(rs, field, l)), threshold)}
      /\ listed = Labels(rs, field)
  BY <1>1, BreakdownIs
<1> HIDE DEF listed, b
<1>3. /\ DOMAIN b.groups = Labels(rs, field)
      /\ \A l \in Labels(rs, field) : b.groups[l] = Audit!Count(Group(rs, field, l))
      /\ b.overall = Audit!Count(rs)
      /\ b.alerts = {l \in Labels(rs, field) :
                       /\ Cardinality(Group(rs, field, l)) >= MinTrades
                       /\ Audit!Below(Audit!Count(Group(rs, field, l)), threshold)}
  BY <1>2, Zenon
<1> QED BY <1>3 DEF b, one

\* What a click on a reason lists is what its win rate counted.
LEMMA ListedAreCounted == AuditInv => Audit!CountsMatchTheList
<1> SUFFICES ASSUME AuditInv, NEW f \in Audit!Filters,
                    NEW l \in DOMAIN Audit!ByReason(f, 1, 50).groups
             PROVE  LET shown == {d \in Audit!EntryDecisions(f, "entered", l, MaxTrades) : d.pnl # {}} IN
                    IF l = Audit!NoReason THEN shown = {}
                    ELSE Audit!Cardinality(shown) = Audit!ByReason(f, 1, 50).groups[l].count
  BY DEF Audit!CountsMatchTheList
<1> DEFINE A == Entered(f)
           C == Closed(f)
           b == Audit!ByReason(f, 1, 50)
           kept == {d \in A : l # Audit!NoReason /\ d.reason = l}
           shown == {d \in Audit!EntryDecisions(f, "entered", l, MaxTrades) : d.pnl # {}}
<1>1. /\ A \subseteq AuditRow /\ Dated(A) /\ MaxTrades \in Nat /\ Cardinality(A) <= MaxTrades
  BY RowsDated
<1>2. Audit!ClosedRows(f) = C /\ IsFiniteSet(C) /\ \A r \in C : Audit!PnlOf(r) \in Int
  BY ClosedTyped
<1>3. /\ DOMAIN b.groups = Labels(C, "reason")
      /\ \A k \in DOMAIN b.groups : b.groups[k] = Audit!Count(Group(C, "reason", k))
  <2>1. b = Audit!Breakdown(C, "reason", 1, 50)
    BY <1>2 DEF Audit!ByReason
  <2> HIDE DEF b, C
  <2> QED BY <1>2, <2>1, BreakdownListsAll
<1>4. l \in Labels(C, "reason")
  BY <1>3
<1>5. l # ""
  <2>1. PICK r \in C : l = r.reason
    BY <1>4 DEF Labels
  <2>2. r \in AuditRow
    BY <1>1, <2>1 DEF Closed
  <2>3. PICK s \in RowSignals : r.reason = s.reason
    BY <2>2 DEF AuditRow
  <2>4. s.reason # ""
    BY RowsAssumption DEF RowsAssumption, Audit!AuditAssumption
  <2> QED BY <2>1, <2>3, <2>4
<1>6. Audit!EntryDecisions(f, "entered", l, MaxTrades) = kept
  <2>1. Audit!Newest(A, MaxTrades) = A
    <3> HIDE DEF A
    <3> QED BY <1>1, NewestAll
  <2>2. {d \in A \cup {} : l # "" => l # Audit!NoReason /\ d.reason = l} = kept
    BY <1>5
  <2>3. Audit!EntryDecisions(f, "entered", l, MaxTrades) = Audit!Newest(kept, MaxTrades)
    BY <2>1, <2>2 DEF Audit!EntryDecisions, Entered
  <2>4. Dated(kept) /\ Cardinality(kept) <= MaxTrades
    <3>1. kept \subseteq A
      OBVIOUS
    <3> HIDE DEF kept, A
    <3>2. /\ Dated(kept) /\ Cardinality(kept) \in Nat /\ Cardinality(A) \in Nat
          /\ Cardinality(kept) <= Cardinality(A)
      BY <1>1, <3>1, PartDated
    <3> QED BY <1>1, <3>2
  <2> HIDE DEF kept, A
  <2> QED BY <1>1, <2>3, <2>4, NewestAll
<1>7. CASE l = Audit!NoReason
  BY <1>6, <1>7
<1>8. CASE l # Audit!NoReason
  <2>1. shown = Group(C, "reason", l)
    BY <1>6, <1>8 DEF Group, Closed
  <2>2. b.groups[l].count = Cardinality(Group(C, "reason", l))
    <3>1. \A S : Audit!Count(S).count = Cardinality(S)
      BY DEF Audit!Count, Audit!Cardinality, Cardinality
    <3> HIDE DEF b, C
    <3> QED BY <1>3, <1>4, <3>1
  <2> HIDE DEF shown, b, C
  <2>3. Audit!Cardinality(shown) = b.groups[l].count
    BY <2>1, <2>2 DEF Audit!Cardinality, Cardinality
  <2> QED BY <1>8, <2>3 DEF shown, b
<1> QED BY <1>7, <1>8

\* Rows in groups by a field: groups are parts of the rows, and any amounts of
\* the rows add up over them.
LEMMA GroupsAddUp ==
  ASSUME NEW rs, IsFiniteSet(rs), NEW field, NEW f, \A r \in rs : f[r] \in Int,
         NEW parts, \A l \in Labels(rs, field) : parts[l] = Sum(f, Group(rs, field, l))
  PROVE  /\ Sum(parts, Labels(rs, field)) = Sum(f, rs)
         /\ IsFiniteSet(Labels(rs, field)) /\ \A l \in Labels(rs, field) : parts[l] \in Int
<1> DEFINE K == Labels(rs, field)
           group == [l \in K |-> Group(rs, field, l)]
<1>1. Grouped(rs, K, group)
  <2>1. \A l \in K : group[l] = {r \in rs : r[field] = l}
    BY DEF Group
  <2>2. K = {r[field] : r \in rs}
    BY DEF Labels
  <2> HIDE DEF K, group
  <2> QED BY <2>1, <2>2 DEF Grouped
<1>2. \A l \in K : parts[l] = Sum(f, group[l])
  OBVIOUS
<1> HIDE DEF K, group
<1>3. IsFiniteSet(K) /\ (\A l \in K : parts[l] \in Int) /\ Sum(parts, K) = Sum(f, rs)
  BY <1>1, <1>2, SumParts
<1> QED BY <1>3 DEF K

\* A group is a part of the rows.
LEMMA GroupPart ==
  ASSUME NEW rs, IsFiniteSet(rs), NEW field, NEW l
  PROVE  Group(rs, field, l) \subseteq rs /\ IsFiniteSet(Group(rs, field, l))
<1>1. Group(rs, field, l) \subseteq rs
  BY DEF Group
<1> QED BY <1>1, FS_Subset

\* The groups of a breakdown add up to its overall figures.
LEMMA BreakdownAddsUp ==
  ASSUME NEW rs, IsFiniteSet(rs), \A r \in rs : Audit!PnlOf(r) \in Int, NEW field,
         NEW groups, DOMAIN groups = Labels(rs, field),
         \A l \in DOMAIN groups : groups[l] = Audit!Count(Group(rs, field, l))
  PROVE  /\ Audit!Total([l \in DOMAIN groups |-> groups[l].count]) = Audit!Count(rs).count
         /\ Audit!Total([l \in DOMAIN groups |-> groups[l].total]) = Audit!Count(rs).total
<1> DEFINE L == Labels(rs, field)
           one == [r \in rs |-> 1]
           pnl == [r \in rs |-> Audit!PnlOf(r)]
           counts == [l \in DOMAIN groups |-> groups[l].count]
           totals == [l \in DOMAIN groups |-> groups[l].total]
<1>1. ASSUME NEW some, some \subseteq rs
      PROVE  /\ Audit!Count(some).count = Sum(one, some)
             /\ Audit!Count(some).total = Sum(pnl, some)
  <2>1. IsFiniteSet(some) /\ \A r \in some : Audit!PnlOf(r) \in Int
    BY <1>1, FS_Subset
  <2> DEFINE own == [r \in some |-> Audit!PnlOf(r)]
  <2>2. /\ Audit!Count(some).count = Cardinality(some) /\ Audit!Count(some).total = Sum(own, some)
        /\ Cardinality(some) \in Nat
    BY <2>1, CountIs
  <2>3. \A r \in some : own[r] = pnl[r]
    BY <1>1
  <2>4. \A r \in some : one[r] = IF r \in some THEN 1 ELSE 0
    BY <1>1
  <2> HIDE DEF own, pnl, one
  <2>5. Sum(own, some) = Sum(pnl, some)
    BY <2>1, <2>3, SumCongruent
  <2>6. Sum(one, some) = Weighed(1, Cardinality(some), 0, Cardinality(some))
    BY <2>1, <2>4, SumCounts
  <2> QED BY <2>2, <2>5, <2>6 DEF Weighed
<1>2. \A l : Group(rs, field, l) \subseteq rs
  BY DEF Group
<1>3. /\ \A l \in L : counts[l] = Sum(one, Group(rs, field, l))
      /\ \A l \in L : totals[l] = Sum(pnl, Group(rs, field, l))
  <2> HIDE DEF one, pnl
  <2> QED BY <1>1, <1>2
<1>4. (\A r \in rs : one[r] \in Int) /\ (\A r \in rs : pnl[r] \in Int)
  OBVIOUS
<1>5. DOMAIN counts = L /\ DOMAIN totals = L
  OBVIOUS
<1>6. Audit!Count(rs).count = Sum(one, rs) /\ Audit!Count(rs).total = Sum(pnl, rs)
  <2> HIDE DEF one, pnl
  <2> QED BY <1>1
<1> HIDE DEF one, pnl, counts, totals
<1>7. Sum(counts, L) = Sum(one, rs)
  BY <1>3, <1>4, GroupsAddUp
<1>8. Sum(totals, L) = Sum(pnl, rs)
  BY <1>3, <1>4, GroupsAddUp
<1>9. Audit!Total(counts) = Sum(counts, L) /\ Audit!Total(totals) = Sum(totals, L)
  BY <1>5, AuditTotalIsSum
<1> QED BY <1>6, <1>7, <1>8, <1>9 DEF counts, totals

\* Both breakdowns of the closed rows add up to the same.
LEMMA BreakdownsAgree == AuditInv => Audit!RatesAddUp
<1> SUFFICES ASSUME AuditInv, NEW f \in Audit!Filters
             PROVE  LET r == Audit!ByReason(f, 1, 50)
                        s == Audit!BySymbol(f, 1, 50)
                    IN /\ r.overall = s.overall
                       /\ r.overall.wins + r.overall.losses + r.overall.even = r.overall.count
                       /\ \A b \in {r.groups, s.groups} :
                            /\ Audit!Total([l \in DOMAIN b |-> b[l].count]) = r.overall.count
                            /\ Audit!Total([l \in DOMAIN b |-> b[l].total]) = r.overall.total
  BY DEF Audit!RatesAddUp
<1> DEFINE C == Closed(f)
           r == Audit!ByReason(f, 1, 50)
           s == Audit!BySymbol(f, 1, 50)
<1>1. Audit!ClosedRows(f) = C /\ IsFiniteSet(C) /\ \A row \in C : Audit!PnlOf(row) \in Int
  BY ClosedTyped
<1>2. r = Audit!Breakdown(C, "reason", 1, 50) /\ s = Audit!Breakdown(C, "symbol", 1, 50)
  BY <1>1 DEF Audit!ByReason, Audit!BySymbol
<1> HIDE DEF C, r, s
<1>3. /\ DOMAIN r.groups = Labels(C, "reason") /\ r.overall = Audit!Count(C)
      /\ \A l \in DOMAIN r.groups : r.groups[l] = Audit!Count(Group(C, "reason", l))
  BY <1>1, <1>2, BreakdownListsAll
<1>4. /\ DOMAIN s.groups = Labels(C, "symbol") /\ s.overall = Audit!Count(C)
      /\ \A l \in DOMAIN s.groups : s.groups[l] = Audit!Count(Group(C, "symbol", l))
  BY <1>1, <1>2, BreakdownListsAll
<1>5. r.overall.wins + r.overall.losses + r.overall.even = r.overall.count
  BY <1>1, <1>3, CountIs
<1>6. ASSUME NEW b \in {r.groups, s.groups}
      PROVE  /\ Audit!Total([l \in DOMAIN b |-> b[l].count]) = r.overall.count
             /\ Audit!Total([l \in DOMAIN b |-> b[l].total]) = r.overall.total
  <2>1. CASE b = r.groups
    <3>1. DOMAIN b = Labels(C, "reason")
          /\ \A l \in DOMAIN b : b[l] = Audit!Count(Group(C, "reason", l))
      BY <1>3, <2>1
    <3> QED BY <1>1, <1>3, <3>1, BreakdownAddsUp
  <2>2. CASE b = s.groups
    <3>1. DOMAIN b = Labels(C, "symbol")
          /\ \A l \in DOMAIN b : b[l] = Audit!Count(Group(C, "symbol", l))
      BY <1>4, <2>2
    <3> QED BY <1>1, <1>3, <3>1, BreakdownAddsUp
  <2> QED BY <2>1, <2>2
<1> QED BY <1>3, <1>4, <1>5, <1>6 DEF r, s

\* Whether a rate is below a threshold is the sign of a sum.
LEMMA RateWeighs ==
  ASSUME NEW rs, IsFiniteSet(rs), \A r \in rs : Audit!PnlOf(r) \in Int, NEW threshold \in Int,
         NEW weight, \A r \in rs : weight[r] = IF Audit!PnlOf(r) > 0 THEN 100 - threshold ELSE 0 - threshold
  PROVE  /\ Sum(weight, rs) \in Int
         /\ Audit!Below(Audit!Count(rs), threshold) <=> Sum(weight, rs) < 0
<1> DEFINE won == {r \in rs : Audit!PnlOf(r) > 0}
           c == Audit!Count(rs)
<1>1. /\ c.count = Cardinality(rs) /\ c.wins = Cardinality(won) /\ c.count \in Nat
      /\ c.wins \in Nat /\ won \in SUBSET rs
  BY CountIs
<1>2. \A r \in rs : weight[r] = IF r \in won THEN 100 - threshold ELSE 0 - threshold
  OBVIOUS
<1> HIDE DEF won, c
<1> DEFINE a == 100 - threshold
           z == 0 - threshold
<1>3. a \in Int /\ z \in Int /\ \A r \in rs : weight[r] = IF r \in won THEN a ELSE z
  BY <1>2
<1> HIDE DEF a, z
<1>4. Sum(weight, rs) = Weighed(a, Cardinality(won), z, Cardinality(rs))
  BY <1>1, <1>3, SumCounts
<1>5. \A w, n \in Nat : (100 - threshold) * w + (0 - threshold) * (n - w) = 100 * w - threshold * n
  OBVIOUS
<1>6. Sum(weight, rs) = 100 * c.wins - threshold * c.count
  BY <1>1, <1>4, <1>5 DEF a, z, Weighed
<1>7. Audit!Below(c, threshold) <=> 100 * c.wins < threshold * c.count
  BY DEF Audit!Below
<1>8. \A x, y \in Int : (x < y <=> x - y < 0) /\ x - y \in Int
  OBVIOUS
<1>9. 100 * c.wins \in Int /\ threshold * c.count \in Int
  BY <1>1
<1> QED BY <1>6, <1>7, <1>8, <1>9 DEF c

\* If no group is below the threshold, the whole is not.
LEMMA AlarmsHaveCauses == AuditInv => Audit!AlarmHasACause
<1> SUFFICES ASSUME AuditInv, NEW threshold \in AuditThresholds, NEW minCount \in {1, 2}
             PROVE  LET b == Audit!ByReason(Audit!Everything, minCount, threshold)
                        all == Audit!ByReason(Audit!Everything, 1, threshold)
                    IN /\ b.alert => \E l \in DOMAIN all.groups : Audit!Below(all.groups[l], threshold)
                       /\ b.alerts \subseteq all.alerts
                       /\ minCount <= MinTrades => b.alerts = all.alerts
  BY DEF Audit!AlarmHasACause
<1> DEFINE C == Closed(Audit!Everything)
           L == Labels(C, "reason")
           G(l) == Group(C, "reason", l)
           b == Audit!ByReason(Audit!Everything, minCount, threshold)
           all == Audit!ByReason(Audit!Everything, 1, threshold)
           weight == [r \in C |-> IF Audit!PnlOf(r) > 0 THEN 100 - threshold ELSE 0 - threshold]
           parts == [l \in L |-> Sum(weight, G(l))]
<1>1. /\ Audit!ClosedRows(Audit!Everything) = C /\ IsFiniteSet(C)
      /\ \A r \in C : Audit!PnlOf(r) \in Int
  BY ClosedTyped
<1>2. threshold \in Int /\ minCount \in Nat /\ MinTrades \in Nat
  <2>1. AuditThresholds \subseteq Int /\ {MinTrades, MaxTrades, MaxBlocked} \subseteq Nat
    BY RowsAssumption DEF RowsAssumption, Audit!AuditAssumption
  <2> QED BY <2>1
<1>3. /\ b = Audit!Breakdown(C, "reason", minCount, threshold)
      /\ all = Audit!Breakdown(C, "reason", 1, threshold)
  BY <1>1 DEF Audit!ByReason
<1>4. /\ \A r \in C : weight[r] = IF Audit!PnlOf(r) > 0 THEN 100 - threshold ELSE 0 - threshold
      /\ \A r \in C : weight[r] \in Int
      /\ \A l \in L : parts[l] = Sum(weight, G(l))
  BY <1>1, <1>2
<1> HIDE DEF C, b, all, weight, parts
<1>5. /\ b.alerts = {l \in {k \in L : Cardinality(G(k)) >= minCount} :
                       /\ Cardinality(G(l)) >= MinTrades /\ Audit!Below(Audit!Count(G(l)), threshold)}
      /\ b.alert => Audit!Below(Audit!Count(C), threshold)
  BY <1>1, <1>2, <1>3, BreakdownIs
<1>6. /\ DOMAIN all.groups = L /\ \A l \in L : all.groups[l] = Audit!Count(G(l))
      /\ all.alerts = {l \in L : /\ Cardinality(G(l)) >= MinTrades
                                 /\ Audit!Below(Audit!Count(G(l)), threshold)}
  BY <1>1, <1>3, BreakdownListsAll
<1>7. \A l : G(l) \subseteq C /\ IsFiniteSet(G(l)) /\ Cardinality(G(l)) \in Nat
  BY <1>1, GroupPart, FS_CardinalityType
<1> HIDE DEF G, L
<1>8. b.alerts \subseteq all.alerts /\ (minCount <= MinTrades => b.alerts = all.alerts)
  <2>1. \A n \in Nat : minCount <= MinTrades /\ n >= MinTrades => n >= minCount
    BY <1>2
  <2> QED BY <1>5, <1>6, <1>7, <2>1
<1>9. ASSUME b.alert, \A l \in L : ~Audit!Below(Audit!Count(G(l)), threshold)
      PROVE  FALSE
  <2>1. Sum(weight, C) < 0 /\ Sum(weight, C) \in Int
    BY <1>1, <1>2, <1>4, <1>5, <1>9, RateWeighs
  <2>2. ASSUME NEW l \in L PROVE parts[l] \in Nat
    <3>1. /\ IsFiniteSet(G(l)) /\ \A r \in G(l) : Audit!PnlOf(r) \in Int
          /\ \A r \in G(l) : weight[r] = IF Audit!PnlOf(r) > 0 THEN 100 - threshold ELSE 0 - threshold
      BY <1>1, <1>4, <1>7
    <3>2. Sum(weight, G(l)) \in Int /\ ~(Sum(weight, G(l)) < 0)
      BY <1>2, <1>9, <3>1, RateWeighs
    <3> QED BY <1>4, <3>2
  <2>3. Sum(parts, L) = Sum(weight, C) /\ IsFiniteSet(L)
    BY <1>1, <1>4, GroupsAddUp DEF L, G
  <2>4. Sum(parts, L) \in Nat
    BY <2>2, <2>3, SumTyped
  <2> QED BY <2>1, <2>3, <2>4
<1>10. b.alert => \E l \in DOMAIN all.groups : Audit!Below(all.groups[l], threshold)
  BY <1>6, <1>9
<1> QED BY <1>8, <1>10 DEF b, all

\* What the audit promises follows from the invariant.
LEMMA AuditInvSafe == AuditInv => Audit!Safe
BY ShowsTheNewest, ListedAreCounted, BreakdownsAgree, AlarmsHaveCauses DEF Audit!Safe

=============================================================================
