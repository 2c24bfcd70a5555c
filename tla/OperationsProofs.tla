-------------------------- MODULE OperationsProofs --------------------------
(***************************************************************************)
(* What the components around the trading loops keep, for every value of   *)
(* the constants that Operations and Decisions leave open: for each an     *)
(* invariant, why it holds at the start and after every step, and the      *)
(* promise it implies; then the theorems about the specification of        *)
(* MCOperations, which runs the components next to one another.            *)
(***************************************************************************)
EXTENDS MCOperations, DecisionsProofs, Induction, FiniteSetTheorems, TLAPS

---------------------------------------------------------------------------
(* The kill switch of paper trading                                        *)

\* The peak dominates what the checks saw, and the last equity let pass is
\* within the drawdown limit of it.
SwitchInv ==
  /\ Switch!TypeOK
  /\ peak >= 0
  /\ \A e \in seen : e <= peak
  /\ \A e \in last : ~Switch!Drawdown(peak, e, SwitchDrawdownPct)
  /\ active <=> reason # Switch!None

\* A new switch is inactive and has seen nothing.
LEMMA InitSwitch == Switch!Init => SwitchInv
<1> SUFFICES ASSUME Switch!Init PROVE SwitchInv
  OBVIOUS
<1>1. /\ active = FALSE /\ reason = Switch!None
      /\ peak = 0 /\ dailyStart = 0 /\ lossStreak = 0 /\ seen = {} /\ last = {}
  BY DEF Switch!Init
<1>2. active <=> reason # Switch!None
  BY <1>1
<1>3. Switch!TypeOK
  BY <1>1 DEF Switch!TypeOK
<1>4. /\ peak >= 0 /\ \A e \in seen : e <= peak
      /\ \A e \in last : ~Switch!Drawdown(peak, e, SwitchDrawdownPct)
  BY <1>1
<1> QED BY <1>2, <1>3, <1>4 DEF SwitchInv

\* From a higher peak the drawdown is no smaller.
LEMMA DrawdownGrows ==
  ASSUME NEW low \in Int, NEW high \in Int, low <= high, NEW e \in Int,
         SwitchDrawdownPct <= 100 \/ e \in Nat,
         Switch!Drawdown(low, e, SwitchDrawdownPct)
  PROVE  Switch!Drawdown(high, e, SwitchDrawdownPct)
<1> DEFINE pct == SwitchDrawdownPct
<1>1. pct \in Nat \ {0}
  BY SwitchesAssumption DEF SwitchesAssumption, Switch!KillSwitchAssumption
<1> HIDE DEF pct
<1>2. \A a, b \in Nat : a * b \in Nat
  OBVIOUS
<1>3. low > 0 /\ high > 0 /\ (low - e) * 100 >= pct * low
  BY DEF Switch!Drawdown, pct
<1>4. CASE pct <= 100
  <2>1. (high - low) * (100 - pct) \in Nat
    BY <1>1, <1>2, <1>4
  <2>2. pct * high \in Int /\ pct * low \in Int
    BY <1>1
  <2>3. (high - low) * (100 - pct) = (high - low) * 100 - (pct * high - pct * low)
    BY <1>1
  <2>4. (high - e) * 100 >= pct * high
    BY <1>3, <2>1, <2>2, <2>3
  <2> QED BY <1>3, <2>4 DEF Switch!Drawdown, pct
<1>5. CASE ~(pct <= 100) /\ e \in Nat
  <2>1. (pct - 101) * low \in Nat
    BY <1>1, <1>2, <1>3, <1>5
  <2>2. (pct - 101) * low = pct * low - 101 * low /\ pct * low \in Int
    BY <1>1
  <2> QED BY <1>3, <1>5, <2>1, <2>2
<1> QED BY <1>4, <1>5 DEF pct

\* No check, result, reset or activation disturbs the invariant.
LEMMA SwitchStepKeeps ==
  ASSUME SwitchInv, [Switch!Next]_switchVars
  PROVE  SwitchInv'
<1> USE DEF Switch!None, Switch!Reasons
<1>1. CASE UNCHANGED switchVars
  BY <1>1 DEF switchVars, SwitchInv, Switch!TypeOK, Switch!Drawdown
<1>2. ASSUME UNCHANGED <<peak, dailyStart, seen>>, last' \subseteq last, lossStreak' \in Nat,
             active' \in BOOLEAN, reason' \in Switch!Reasons \cup {Switch!None},
             active' <=> reason' # Switch!None
      PROVE  SwitchInv'
  BY <1>2 DEF SwitchInv, Switch!TypeOK, Switch!Drawdown
<1>3. active \in BOOLEAN /\ reason \in Switch!Reasons \cup {Switch!None}
      /\ (active <=> reason # Switch!None) /\ lossStreak \in Nat
  BY DEF SwitchInv, Switch!TypeOK
<1>6. ASSUME NEW why \in Switch!Reasons, Switch!Trip(why)
      PROVE  active' = TRUE /\ reason' \in Switch!Reasons
  BY <1>3, <1>6 DEF Switch!Trip
<1>7. CASE Switch!Activate
  <2>1. active' = TRUE /\ reason' \in Switch!Reasons
    BY <1>6, <1>7 DEF Switch!Activate
  <2> QED BY <1>2, <1>3, <1>7, <2>1 DEF Switch!Activate
<1>8. CASE Switch!Deactivate
  <2>1. active' = FALSE /\ reason' = Switch!None /\ last' = {}
        /\ UNCHANGED <<peak, dailyStart, seen, lossStreak>>
    BY <1>8 DEF Switch!Deactivate
  <2> QED BY <1>2, <1>3, <2>1
<1>10. CASE Switch!WinningTrade
  BY <1>2, <1>3, <1>10 DEF Switch!WinningTrade
<1>9. CASE Switch!LosingTrade
  <2>1. \/ active' = TRUE /\ reason' \in Switch!Reasons /\ last' = {}
        \/ UNCHANGED <<active, reason, last>>
    BY <1>6, <1>9 DEF Switch!LosingTrade
  <2>2. lossStreak' \in Nat /\ UNCHANGED <<peak, dailyStart, seen>>
    BY <1>3, <1>9 DEF Switch!LosingTrade
  <2> QED BY <1>2, <1>3, <2>1, <2>2
<1>4. ASSUME NEW e \in SwitchEquities, Switch!ResetDaily(e)
      PROVE  SwitchInv'
  BY <1>4 DEF SwitchInv, Switch!TypeOK, Switch!Drawdown, Switch!ResetDaily
<1>5. ASSUME NEW e \in SwitchEquities, Switch!Check(e)
      PROVE  SwitchInv'
  <2> DEFINE high == IF e > peak THEN e ELSE peak
  <2>1. SwitchEquities \subseteq Int
    BY SwitchesAssumption DEF SwitchesAssumption, Switch!KillSwitchAssumption
  <2>2. /\ peak \in Int /\ seen \subseteq SwitchEquities /\ last \subseteq seen
        /\ peak \in {0} \cup SwitchEquities /\ e \in Int
    BY <2>1 DEF SwitchInv, Switch!TypeOK
  <2>3. /\ high \in {0} \cup SwitchEquities /\ high >= 0 /\ e <= high
        /\ \A x \in seen \cup {e} : x <= high
    BY <2>1, <2>2 DEF SwitchInv
  <2>4. /\ peak' = high /\ seen' = seen \cup {e}
        /\ last' = IF active' THEN {} ELSE {e}
        /\ UNCHANGED <<dailyStart, lossStreak>>
    BY <1>5 DEF Switch!Check
  <2>5. \/ active' = TRUE /\ reason' \in {"DRAWDOWN", "DAILY_LOSS"}
        \/ /\ UNCHANGED <<active, reason>>
           /\ ~Switch!Drawdown(high, e, SwitchDrawdownPct)
    BY <1>5 DEF Switch!Check, Switch!Trip
  <2> HIDE DEF high
  <2>6. \A x \in last' : ~Switch!Drawdown(peak', x, SwitchDrawdownPct)
    BY <2>4, <2>5 DEF Switch!Drawdown
  <2>7. Switch!TypeOK'
    BY <1>5, <2>2, <2>3, <2>4, <2>5 DEF SwitchInv, Switch!TypeOK
  <2> QED BY <1>5, <2>3, <2>4, <2>5, <2>6, <2>7 DEF SwitchInv, Switch!Check, Switch!Drawdown
<1> QED BY <1>1, <1>4, <1>5, <1>7, <1>8, <1>9, <1>10 DEF Switch!Next

\* A drawdown from anything seen is one from the peak, so it was not let pass.
LEMMA SwitchInvSafe == SwitchInv => Switch!Safe
<1> SUFFICES ASSUME SwitchInv PROVE Switch!Safe
  OBVIOUS
<1>1. ASSUME NEW equity \in last, NEW e \in seen,
             Switch!Drawdown(e, equity, SwitchDrawdownPct)
      PROVE  FALSE
  <2>0. SwitchEquities \subseteq Int
    BY SwitchesAssumption DEF SwitchesAssumption, Switch!KillSwitchAssumption
  <2>1. SwitchDrawdownPct <= 100 \/ SwitchEquities \subseteq Nat
    BY SwitchesAssumption DEF SwitchesAssumption, Switch!KillSwitchAssumption
  <2>2. e \in SwitchEquities /\ equity \in SwitchEquities /\ peak \in {0} \cup SwitchEquities
    BY DEF SwitchInv, Switch!TypeOK
  <2>3. e \in Int /\ equity \in Int /\ peak \in Int
    BY <2>0, <2>2
  <2>4. SwitchDrawdownPct <= 100 \/ equity \in Nat
    BY <2>1, <2>2, Zenon
  <2> QED BY <1>1, <2>2, <2>3, <2>4, DrawdownGrows DEF SwitchInv
<1>2. Switch!DrawdownNeverForgiven
  BY <1>1 DEF Switch!DrawdownNeverForgiven
<1> QED BY <1>2 DEF Switch!Safe, Switch!ReasonKept, SwitchInv

---------------------------------------------------------------------------
(* The five-level switch                                                   *)

\* The trail is a list of entries, and each keeps what Safe asks of it.
LevelsInv ==
  /\ level \in Levels!LevelSet
  /\ trail \in Seq(Levels!Entry) /\ Len(trail) <= TrailBound
  /\ Levels!Safe

\* The levels by name, and the position of each.
LEMMA FiveLevels ==
  /\ Levels!LevelSet = {"normal", "no_new_risk", "protection_only", "read_only", "halted"}
  /\ \A l \in Levels!LevelSet : l # "halted" =>
       /\ Levels!Rank(l) \in 1 .. 4
       /\ Levels!Levels[Levels!Rank(l)] = l
<1>1. Levels!LevelSet = {Levels!Levels[i] : i \in 1 .. 5}
  BY DEF Levels!LevelSet, Levels!Range, Levels!Levels
<1>2. /\ Levels!Levels[1] = "normal" /\ Levels!Levels[2] = "no_new_risk"
      /\ Levels!Levels[3] = "protection_only" /\ Levels!Levels[4] = "read_only"
      /\ Levels!Levels[5] = "halted" /\ DOMAIN Levels!Levels = 1 .. 5
  BY DEF Levels!Levels
<1>3. ASSUME NEW l \in Levels!LevelSet, l # "halted"
      PROVE  Levels!Rank(l) \in 1 .. 4 /\ Levels!Levels[Levels!Rank(l)] = l
  <2>1. PICK i \in 1 .. 5 : Levels!Levels[i] = l
    BY <1>1
  <2>2. Levels!Rank(l) \in 1 .. 5 /\ Levels!Levels[Levels!Rank(l)] = l
    BY <1>2, <2>1 DEF Levels!Rank
  <2> QED BY <1>2, <1>3, <2>2
<1> QED BY <1>1, <1>2, <1>3

\* A new switch is at the first level with an empty trail.
LEMMA InitLevels == Levels!Init => LevelsInv
<1> SUFFICES ASSUME Levels!Init PROVE LevelsInv
  OBVIOUS
<1>1. level = "normal" /\ trail = <<>> /\ TrailBound \in Nat
  BY SwitchesAssumption DEF Levels!Init, SwitchesAssumption, Levels!TrailAssumption
<1>2. DOMAIN trail = {} /\ Len(trail) = 0 /\ trail \in Seq(Levels!Entry)
  BY <1>1
<1>3. Levels!Safe
  BY <1>1, <1>2 DEF Levels!Safe, Levels!RightsReturnOnlyByDecision, Levels!TrailUnbroken,
                    Levels!HaltedIsSticky
<1> QED BY <1>1, <1>2, <1>3, FiveLevels DEF LevelsInv

\* An alarm leaves a halted switch halted and takes rights away from others.
LEMMA AlarmTakesRights ==
  ASSUME NEW l \in Levels!LevelSet, NEW up,
         up = Levels!Levels[IF l = "halted" THEN 5 ELSE Levels!Rank(l) + 1]
  PROVE  /\ up \in Levels!LevelSet
         /\ Levels!Allowed(up) \subseteq Levels!Allowed(l)
         /\ l = "halted" => up = "halted"
<1>1. /\ Levels!Levels[1] = "normal" /\ Levels!Levels[2] = "no_new_risk"
      /\ Levels!Levels[3] = "protection_only" /\ Levels!Levels[4] = "read_only"
      /\ Levels!Levels[5] = "halted"
  BY DEF Levels!Levels
<1>2. /\ Levels!Allowed("normal") =
           {"open_new_position", "modify_position", "close_position", "send_order",
            "cancel_order", "read_data"}
      /\ Levels!Allowed("no_new_risk") = {"close_position", "cancel_order", "read_data"}
      /\ Levels!Allowed("protection_only") = {"close_position", "read_data"}
      /\ Levels!Allowed("read_only") = {"read_data"}
      /\ Levels!Allowed("halted") = {}
  BY DEF Levels!Allowed
<1>3. CASE l = "halted"
  BY <1>1, <1>2, <1>3, FiveLevels
<1>4. CASE l # "halted"
  <2> DEFINE k == Levels!Rank(l)
  <2>1. k \in 1 .. 4 /\ Levels!Levels[k] = l /\ up = Levels!Levels[k + 1]
    BY <1>4, FiveLevels
  <2> HIDE DEF k
  <2>2. CASE k = 1
    BY <1>1, <1>2, <1>4, <2>1, <2>2, FiveLevels
  <2>3. CASE k = 2
    BY <1>1, <1>2, <1>4, <2>1, <2>3, FiveLevels
  <2>4. CASE k = 3
    BY <1>1, <1>2, <1>4, <2>1, <2>4, FiveLevels
  <2>5. CASE k = 4
    BY <1>1, <1>2, <1>4, <2>1, <2>5, FiveLevels
  <2> QED BY <2>1, <2>2, <2>3, <2>4, <2>5
<1> QED BY <1>3, <1>4

\* A step writes down where it came from, where it leads and who decided it.
LEMMA MoveKeepsLevels ==
  ASSUME LevelsInv, NEW to \in Levels!LevelSet,
         NEW by \in {"alarm", "target", "deactivate", "reset"},
         by = "alarm" => Levels!Allowed(to) \subseteq Levels!Allowed(level),
         level = "halted" /\ to # "halted" => by \in {"reset", "target"},
         Levels!Move(to, by)
  PROVE  LevelsInv'
<1> DEFINE n == Len(trail)
           entry == [from |-> level, to |-> to, by |-> by]
<1>1. trail \in Seq(Levels!Entry) /\ level \in Levels!LevelSet
  BY DEF LevelsInv
<1>2. entry \in Levels!Entry
  BY <1>1 DEF Levels!Entry
<1>3. trail' = Append(trail, entry) /\ level' = to /\ n < TrailBound
  BY DEF Levels!Move
<1>4. entry.from = level /\ entry.to = to /\ entry.by = by
  OBVIOUS
<1> HIDE DEF entry
<1>5. /\ n \in Nat /\ trail' \in Seq(Levels!Entry)
      /\ DOMAIN trail = 1 .. n /\ DOMAIN trail' = 1 .. n + 1 /\ Len(trail') = n + 1
      /\ trail'[n + 1] = entry /\ \A i \in 1 .. n : trail'[i] = trail[i]
  BY <1>1, <1>2, <1>3
<1> HIDE DEF n
<1>6. Levels!RightsReturnOnlyByDecision'
  <2> SUFFICES ASSUME NEW i \in 1 .. n + 1, trail'[i].by = "alarm"
               PROVE  Levels!Allowed(trail'[i].to) \subseteq Levels!Allowed(trail'[i].from)
    BY <1>5 DEF Levels!RightsReturnOnlyByDecision
  <2>1. CASE i = n + 1
    BY <1>4, <1>5, <2>1
  <2>2. CASE i # n + 1
    <3>1. i \in DOMAIN trail /\ trail'[i] = trail[i]
      BY <1>5, <2>2
    <3> QED BY <3>1 DEF LevelsInv, Levels!Safe, Levels!RightsReturnOnlyByDecision
  <2> QED BY <2>1, <2>2
<1>7. Levels!HaltedIsSticky'
  BY <1>4, <1>5 DEF LevelsInv, Levels!Safe, Levels!HaltedIsSticky
<1>8. Levels!TrailUnbroken'
  <2>1. n # 0 => trail[n].to = level
    BY <1>5 DEF LevelsInv, Levels!Safe, Levels!TrailUnbroken, n
  <2>2. \A i \in 2 .. n : trail[i].from = trail[i - 1].to
    BY DEF LevelsInv, Levels!Safe, Levels!TrailUnbroken, n
  <2>3. \A i \in 2 .. n + 1 : trail'[i].from = trail'[i - 1].to
    BY <1>4, <1>5, <2>1, <2>2
  <2> QED BY <1>3, <1>4, <1>5, <2>3 DEF Levels!TrailUnbroken
<1>9. Len(trail') <= TrailBound
  BY <1>3, <1>5, SwitchesAssumption DEF SwitchesAssumption, Levels!TrailAssumption, n
<1> QED BY <1>3, <1>5, <1>6, <1>7, <1>8, <1>9 DEF LevelsInv, Levels!Safe

\* Every transition writes itself down and keeps what the trail says.
LEMMA LevelsStepKeeps ==
  ASSUME LevelsInv, [Levels!Next]_levelsVars
  PROVE  LevelsInv'
<1>0. level \in Levels!LevelSet
  BY DEF LevelsInv
<1>1. CASE UNCHANGED levelsVars
  BY <1>1 DEF levelsVars, LevelsInv, Levels!Safe, Levels!RightsReturnOnlyByDecision,
              Levels!TrailUnbroken, Levels!HaltedIsSticky
<1>2. CASE Levels!Escalate
  <2> DEFINE up == Levels!Levels[IF level = "halted" THEN 5 ELSE Levels!Rank(level) + 1]
  <2>1. Levels!Move(up, "alarm")
    BY <1>2 DEF Levels!Escalate
  <2>2. /\ up \in Levels!LevelSet
        /\ Levels!Allowed(up) \subseteq Levels!Allowed(level)
        /\ level = "halted" => up = "halted"
    BY <1>0, AlarmTakesRights
  <2> HIDE DEF up
  <2> QED BY <2>1, <2>2, MoveKeepsLevels
<1>3. CASE Levels!Deactivate
  BY <1>3, FiveLevels, MoveKeepsLevels DEF Levels!Deactivate
<1>4. CASE Levels!Reset
  BY <1>4, FiveLevels, MoveKeepsLevels DEF Levels!Reset
<1>5. ASSUME NEW l \in Levels!LevelSet, Levels!ActivateAt(l)
      PROVE  LevelsInv'
  BY <1>5, MoveKeepsLevels DEF Levels!ActivateAt
<1> QED BY <1>1, <1>2, <1>3, <1>4, <1>5 DEF Levels!Next

---------------------------------------------------------------------------
(* The paper journal's files                                               *)

\* The call under way, and the file and the entry of the trade it is about.
CallInv ==
  /\ writing \in {Files!Idle, Files!Down} \cup
       [op : {"signal", "exit"}, id : TradeIds, at : {"file", "cutFile", "index", "cutIndex"}]
  /\ writing = Files!Down => DOMAIN entries = {}
  /\ writing.at \in {"file", "cutFile", "index", "cutIndex"} =>
       /\ writing.id \in DOMAIN entries
       /\ writing.op = "signal" => entries[writing.id] = "open" /\ writing.id \notin exited
       /\ writing.op = "exit" => entries[writing.id] = "closed"
  /\ writing.at \in {"index", "cutIndex"} => file[writing.id] \notin {Files!Absent, Files!Unreadable}
       /\ writing.op = "signal"

\* What is in memory is what the files hold, but for the one being written.
MemoryInv ==
  /\ file \in [TradeIds -> {Files!Absent, Files!Unreadable, "open", "closed"}]
  /\ order \in Seq(TradeIds) /\ index.ids \in Seq(TradeIds)
  /\ Files!Range(order) = DOMAIN entries
  /\ \A t \in DOMAIN entries :
       entries[t] # file[t] => writing.at \in {"file", "cutFile"} /\ t = writing.id
  /\ \A t \in DOMAIN entries : entries[t] \in {"open", "closed"}

\* What the calls that returned have left on disk.
DiskInv ==
  /\ recorded \subseteq TradeIds /\ exited \subseteq TradeIds /\ torn \in BOOLEAN
  /\ \A t \in recorded : file[t] # Files!Absent
  /\ \A t \in exited : file[t] \in {"closed", Files!Unreadable}
  /\ ~torn =>
       /\ writing.at # "cutIndex" => recorded \subseteq Files!Range(index.ids)
       /\ writing # Files!Down => recorded \subseteq DOMAIN entries
       /\ \A t \in TradeIds :
            file[t] = Files!Unreadable => writing.at = "cutFile" /\ writing.id = t

FilesInv == CallInv /\ MemoryInv /\ DiskInv

\* What a loading leaves out: a missing file, and all from the first unreadable one.
FilesSkip(ids, n) ==
  file[ids[n]] = Files!Absent \/ \E i \in 1 .. n : file[ids[i]] = Files!Unreadable

\* A loading keeps, in order, the trades it does not skip.
LEMMA LoadableKeeps ==
  ASSUME NEW ids \in Seq(TradeIds)
  PROVE  /\ Files!Loadable(ids) \in Seq(TradeIds)
         /\ Files!Range(Files!Loadable(ids)) =
              {ids[i] : i \in {n \in 1 .. Len(ids) : ~FilesSkip(ids, n)}}
<1> DEFINE N == Len(ids)
           Step(k, n) == IF n = 0 THEN <<>>
                         ELSE IF FilesSkip(ids, n) THEN k[n - 1] ELSE Append(k[n - 1], ids[n])
           Upto(m, k) == \A n \in 0 .. m : k[n] = Step(k, n)
           P == {m \in Nat : \E k : Upto(m, k)}
<1>1. N \in Nat /\ \A n \in 1 .. N : ids[n] \in TradeIds
  OBVIOUS
<1>2. 0 \in P
  <2>1. Upto(0, [n \in {0} |-> <<>>])
    OBVIOUS
  <2> QED BY <2>1
<1>3. ASSUME NEW m \in Nat, m \in P
      PROVE  m + 1 \in P
  <2>1. PICK k : Upto(m, k)
    BY <1>3
  <2> DEFINE h == [n \in 0 .. m + 1 |-> IF n = m + 1 THEN Step(k, n) ELSE k[n]]
  <2>2. \A n \in 0 .. m : h[n] = k[n]
    OBVIOUS
  <2>3. h[m + 1] = Step(k, m + 1)
    OBVIOUS
  <2> HIDE DEF h
  <2>4. ASSUME NEW n \in 0 .. m + 1
        PROVE  h[n] = Step(h, n)
    <3>1. CASE n = m + 1
      BY <3>1, <2>2, <2>3
    <3>2. CASE n # m + 1
      <4>1. n \in 0 .. m /\ (n # 0 => n - 1 \in 0 .. m)
        BY <3>2
      <4> QED BY <2>1, <2>2, <4>1
    <3> QED BY <3>1, <3>2
  <2>5. Upto(m + 1, h)
    BY <2>4
  <2> QED BY <2>5
<1>4. PICK k : Upto(N, k)
  <2> HIDE DEF P
  <2>1. N \in P
    BY <1>1, <1>2, <1>3, NatInduct
  <2> QED BY <2>1 DEF P
<1> DEFINE f == [n \in 0 .. N |-> k[n]]
           Kept(g) == g = [n \in 0 .. N |-> Step(g, n)]
<1>5. Kept(f)
  <2>1. ASSUME NEW n \in 0 .. N
        PROVE  f[n] = Step(f, n)
    BY <1>1, <1>4
  <2> QED BY <2>1
<1>6. PICK g : Kept(g) /\ Files!Loadable(ids) = g[N]
  BY <1>5 DEF Files!Loadable, FilesSkip
<1> DEFINE Taken(n) == {ids[i] : i \in {j \in 1 .. n : ~FilesSkip(ids, j)}}
           Q == {n \in Nat : n <= N => g[n] \in Seq(TradeIds) /\ Files!Range(g[n]) = Taken(n)}
<1>7. \A n \in 0 .. N : g[n] = Step(g, n)
  BY <1>1, <1>6
<1>8. 0 \in Q
  <2>1. g[0] = <<>>
    BY <1>1, <1>7
  <2>2. Files!Range(<<>>) = {} /\ Taken(0) = {} /\ <<>> \in Seq(TradeIds)
    BY DEF Files!Range
  <2> QED BY <2>1, <2>2
<1>9. ASSUME NEW n \in Nat, n \in Q, n + 1 <= N
      PROVE  g[n + 1] \in Seq(TradeIds) /\ Files!Range(g[n + 1]) = Taken(n + 1)
  <2>1. g[n] \in Seq(TradeIds) /\ Files!Range(g[n]) = Taken(n)
    BY <1>1, <1>9
  <2>2. n + 1 \in 0 .. N /\ n + 1 # 0 /\ (n + 1) - 1 = n /\ n + 1 \in 1 .. N
    BY <1>1, <1>9
  <2>3. g[n + 1] = IF FilesSkip(ids, n + 1) THEN g[n] ELSE Append(g[n], ids[n + 1])
    BY <1>7, <2>2
  <2>4. 1 .. (n + 1) = (1 .. n) \cup {n + 1}
    OBVIOUS
  <2>5. CASE FilesSkip(ids, n + 1)
    <3>1. Taken(n + 1) = Taken(n)
      BY <2>4, <2>5
    <3> QED BY <2>1, <2>3, <2>5, <3>1
  <2>6. CASE ~FilesSkip(ids, n + 1)
    <3>1. Taken(n + 1) = Taken(n) \cup {ids[n + 1]}
      BY <2>4, <2>6
    <3> DEFINE s == g[n]
               e == ids[n + 1]
    <3>2. s \in Seq(TradeIds) /\ e \in TradeIds
      BY <1>1, <2>1, <2>2
    <3> HIDE DEF s, e
    <3>3. Append(s, e) \in Seq(TradeIds)
      BY <3>2
    <3>4. Files!Range(Append(s, e)) = Files!Range(s) \cup {e}
      <4>1. DOMAIN Append(s, e) = DOMAIN s \cup {Len(s) + 1}
        BY <3>2
      <4>2. \A i \in DOMAIN s : Append(s, e)[i] = s[i]
        BY <3>2
      <4>3. Append(s, e)[Len(s) + 1] = e
        BY <3>2
      <4> QED BY <4>1, <4>2, <4>3 DEF Files!Range
    <3> QED BY <2>1, <2>3, <2>6, <3>1, <3>3, <3>4 DEF s, e
  <2> QED BY <2>5, <2>6
<1>10. N \in Q
  <2>1. ASSUME NEW n \in Nat, n \in Q
        PROVE  n + 1 \in Q
    <3>1. CASE n + 1 <= N
      <4>1. g[n + 1] \in Seq(TradeIds) /\ Files!Range(g[n + 1]) = Taken(n + 1)
        BY <1>9, <2>1, <3>1
      <4> HIDE DEF Taken
      <4> QED BY <4>1
    <3>2. CASE ~(n + 1 <= N)
      BY <3>2
    <3> QED BY <3>1, <3>2
  <2> HIDE DEF Q
  <2> QED BY <1>1, <1>8, <2>1, NatInduct
<1> QED BY <1>1, <1>6, <1>10

\* A sequence's elements, one more appended.
LEMMA ElementsAppended ==
  ASSUME NEW s \in Seq(TradeIds), NEW t \in TradeIds
  PROVE  Append(s, t) \in Seq(TradeIds) /\ Files!Range(Append(s, t)) = Files!Range(s) \cup {t}
<1>1. DOMAIN Append(s, t) = DOMAIN s \cup {Len(s) + 1}
  OBVIOUS
<1>2. (\A i \in DOMAIN s : Append(s, t)[i] = s[i]) /\ Append(s, t)[Len(s) + 1] = t
  OBVIOUS
<1> QED BY <1>1, <1>2 DEF Files!Range

\* An empty journal directory satisfies the invariant.
LEMMA InitFiles == Files!Init => FilesInv
<1> SUFFICES ASSUME Files!Init PROVE FilesInv
  OBVIOUS
<1> USE DEF Files!Init, Files!Idle, Files!Down, Files!Absent, Files!Unreadable, Files!Unlisted
<1>1. CallInv
  BY DEF CallInv
<1>2. MemoryInv
  <2>1. Files!Range(<<>>) = {}
    BY DEF Files!Range
  <2> QED BY <2>1 DEF MemoryInv
<1>3. DiskInv
  BY DEF DiskInv
<1> QED BY <1>1, <1>2, <1>3 DEF FilesInv

\* Every step of a call, a crash and a loading keep it.
LEMMA FilesStepKeeps ==
  ASSUME FilesInv, [Files!Next]_filesVars
  PROVE  FilesInv'
<1> USE DEF FilesInv
<1>a. \A w : w \in {Files!Idle, Files!Down} => w.at \in {"idle", "down"}
  BY DEF Files!Idle, Files!Down
<1>b. Files!Idle # Files!Down
  BY DEF Files!Idle, Files!Down
<1>c. writing = Files!Idle \/ writing = Files!Down \/
      writing \in [op : {"signal", "exit"}, id : TradeIds,
                   at : {"file", "cutFile", "index", "cutIndex"}]
  BY DEF CallInv
<1>1. CASE UNCHANGED filesVars
  BY <1>1 DEF filesVars, CallInv, MemoryInv, DiskInv
<1>e. DOMAIN entries \subseteq TradeIds
  BY DEF MemoryInv, Files!Range
<1>d. ASSUME writing.at \in {"file", "cutFile", "index", "cutIndex"}
      PROVE  /\ writing \in [op : {"signal", "exit"}, id : TradeIds,
                             at : {"file", "cutFile", "index", "cutIndex"}]
             /\ writing # Files!Down
  BY <1>a, <1>c, <1>d
<1>2. ASSUME NEW t \in TradeIds, Files!RecordSignal(t)
      PROVE  FilesInv'
  <2> USE <1>2 DEF Files!RecordSignal
  <2>1. CallInv'
    BY <1>a, <1>b DEF CallInv, MemoryInv, DiskInv, Files!Idle, Files!Down, Files!Absent, Files!Unreadable
  <2>2. MemoryInv'
    BY <1>a, ElementsAppended DEF MemoryInv
  <2>3. DiskInv'
    BY <1>a, <1>b DEF DiskInv
  <2> QED BY <2>1, <2>2, <2>3
<1>3. ASSUME NEW t \in TradeIds, Files!RecordExit(t)
      PROVE  FilesInv'
  <2> USE <1>3 DEF Files!RecordExit
  <2>1. CallInv'
    BY <1>a, <1>b DEF CallInv, MemoryInv, Files!Idle, Files!Down
  <2>2. MemoryInv'
    BY <1>a DEF MemoryInv
  <2>3. DiskInv'
    BY <1>a, <1>b DEF DiskInv
  <2> QED BY <2>1, <2>2, <2>3
<1>4. CASE Files!OpenEntryFile
  <2>1. /\ writing \in [op : {"signal", "exit"}, id : TradeIds,
                        at : {"file", "cutFile", "index", "cutIndex"}]
        /\ writing' = [op |-> writing.op, id |-> writing.id, at |-> "cutFile"]
        /\ writing # Files!Down /\ writing' # Files!Down /\ writing.at = "file"
        /\ UNCHANGED <<entries, order, index, recorded, exited, torn>>
    BY <1>4, <1>a, <1>d DEF Files!OpenEntryFile, Files!At
  <2>2. /\ \A t \in TradeIds : t # writing.id => file'[t] = file[t]
        /\ file'[writing.id] = Files!Unreadable
        /\ file' \in [TradeIds -> {Files!Absent, Files!Unreadable, "open", "closed"}]
    BY <1>4, <2>1 DEF Files!OpenEntryFile, MemoryInv
  <2>3. CallInv'
    BY <2>1, <1>b, <1>a DEF CallInv
  <2>4. MemoryInv'
    BY <2>1, <2>2, <1>e DEF MemoryInv, CallInv
  <2>5. DiskInv'
    BY <2>1, <2>2, <1>a, <1>e DEF DiskInv, CallInv, Files!Absent, Files!Unreadable
  <2> QED BY <2>3, <2>4, <2>5
<1>5. CASE Files!SaveEntry
  <2>1. /\ writing \in [op : {"signal", "exit"}, id : TradeIds,
                        at : {"file", "cutFile", "index", "cutIndex"}]
        /\ writing # Files!Down /\ writing.at = "cutFile"
        /\ UNCHANGED <<entries, order, index, recorded, torn>>
    BY <1>5, <1>d DEF Files!SaveEntry, Files!At
  <2>2. /\ \A t \in TradeIds : t # writing.id => file'[t] = file[t]
        /\ file'[writing.id] = entries[writing.id]
        /\ file' \in [TradeIds -> {Files!Absent, Files!Unreadable, "open", "closed"}]
    BY <1>5, <2>1 DEF Files!SaveEntry, MemoryInv, CallInv
  <2>3. /\ writing.op = "exit" => writing' = Files!Idle /\ exited' = exited \cup {writing.id}
        /\ writing.op = "signal" =>
             /\ writing' = [op |-> "signal", id |-> writing.id, at |-> "index"]
             /\ exited' = exited
    BY <1>5, <2>1 DEF Files!SaveEntry
  <2>4. writing.op = "exit" \/ writing.op = "signal"
    BY <2>1
  <2>5. CallInv'
    BY <2>1, <2>2, <2>3, <2>4, <1>b, <1>a DEF CallInv, Files!Absent, Files!Unreadable
  <2>6. MemoryInv'
    BY <2>1, <2>2, <2>3, <2>4, <1>a, <1>e DEF MemoryInv, CallInv
  <2>7. DiskInv'
    BY <2>1, <2>2, <2>3, <2>4, <1>a, <1>b, <1>e DEF DiskInv, CallInv, Files!Absent, Files!Unreadable
  <2> QED BY <2>5, <2>6, <2>7
<1>6. CASE Files!OpenIndex
  <2>1. /\ writing \in [op : {"signal", "exit"}, id : TradeIds,
                        at : {"file", "cutFile", "index", "cutIndex"}]
        /\ writing' = [op |-> writing.op, id |-> writing.id, at |-> "cutIndex"]
        /\ writing # Files!Down /\ writing' # Files!Down /\ writing.at = "index"
        /\ index'.ids = <<>>
        /\ UNCHANGED <<entries, order, file, recorded, exited, torn>>
    BY <1>6, <1>a, <1>d DEF Files!OpenIndex, Files!At, Files!Unlisted
  <2>2. CallInv'
    BY <2>1, <1>b, <1>a DEF CallInv
  <2>3. MemoryInv'
    BY <2>1 DEF MemoryInv, CallInv
  <2>4. DiskInv'
    BY <2>1, <1>a DEF DiskInv, CallInv
  <2> QED BY <2>2, <2>3, <2>4
<1>7. CASE Files!SaveIndex
  <2>1. /\ writing \in [op : {"signal", "exit"}, id : TradeIds,
                        at : {"file", "cutFile", "index", "cutIndex"}]
        /\ writing' = Files!Idle /\ recorded' = recorded \cup {writing.id}
        /\ writing # Files!Down /\ writing' # Files!Down /\ writing.at = "cutIndex"
        /\ index'.ids = order
        /\ UNCHANGED <<entries, order, file, exited, torn>>
    BY <1>7, <1>a, <1>b, <1>d DEF Files!SaveIndex, Files!At, Files!Listing
  <2>2. CallInv'
    BY <2>1, <1>b, <1>a DEF CallInv
  <2>3. MemoryInv'
    BY <2>1, <1>a DEF MemoryInv, CallInv
  <2>4. DiskInv'
    BY <2>1, <1>a DEF DiskInv, CallInv, MemoryInv
  <2> QED BY <2>2, <2>3, <2>4
<1>8. CASE Files!Crash
  <2>1. /\ writing # Files!Down /\ writing' = Files!Down
        /\ torn' = (torn \/ writing.at = "cutFile" \/ writing.at = "cutIndex")
        /\ DOMAIN entries' = {} /\ order' = <<>>
        /\ UNCHANGED <<file, index, recorded, exited>>
    BY <1>8 DEF Files!Crash, Files!At
  <2>2. CallInv'
    BY <2>1, <1>a DEF CallInv
  <2>3. MemoryInv'
    <3>1. Files!Range(<<>>) = {}
      BY DEF Files!Range
    <3> QED BY <2>1, <3>1 DEF MemoryInv
  <2>4. DiskInv'
    BY <2>1, <1>a DEF DiskInv
  <2> QED BY <2>2, <2>3, <2>4
<1>9. CASE Files!Load
  <2> DEFINE ids == index.ids
  <2>1. /\ writing = Files!Down /\ writing' = Files!Idle
        /\ order' = Files!Loadable(ids)
        /\ DOMAIN entries' = Files!Range(order')
        /\ \A t \in Files!Range(order') : entries'[t] = file[t]
        /\ UNCHANGED <<file, index, recorded, exited, torn>>
    BY <1>9 DEF Files!Load
  <2>2. ids \in Seq(TradeIds)
    BY DEF MemoryInv
  <2>3. /\ order' \in Seq(TradeIds)
        /\ Files!Range(order') = {ids[i] : i \in {n \in 1 .. Len(ids) : ~FilesSkip(ids, n)}}
    BY <2>1, <2>2, LoadableKeeps
  <2>4. ASSUME NEW t \in Files!Range(order')
        PROVE  file[t] \in {"open", "closed"}
    BY <2>2, <2>3 DEF FilesSkip, MemoryInv
  <2>5. ASSUME ~torn
        PROVE  recorded \subseteq Files!Range(order')
    <3>1. \A t \in TradeIds : file[t] # Files!Unreadable
      BY <2>1, <2>5, <1>a DEF DiskInv
    <3>2. \A n \in 1 .. Len(ids) : ids[n] \in TradeIds
      BY <2>2
    <3>3. recorded \subseteq Files!Range(ids)
      BY <2>1, <2>5, <1>a DEF DiskInv
    <3>4. \A t \in recorded : \E n \in 1 .. Len(ids) : ids[n] = t
      BY <2>2, <3>3 DEF Files!Range
    <3>5. ASSUME NEW n \in 1 .. Len(ids), ids[n] \in recorded
          PROVE  ~FilesSkip(ids, n)
      BY <3>1, <3>2, <3>5 DEF FilesSkip, DiskInv
    <3> QED BY <2>3, <3>4, <3>5
  <2>6. CallInv'
    BY <2>1, <1>a, <1>b DEF CallInv
  <2>7. MemoryInv'
    BY <2>1, <2>3, <2>4 DEF MemoryInv
  <2>8. DiskInv'
    BY <2>1, <2>5, <1>a, <1>b DEF DiskInv
  <2> QED BY <2>6, <2>7, <2>8
<1> QED BY <1>1, <1>2, <1>3, <1>4, <1>5, <1>6, <1>7, <1>8, <1>9 DEF Files!Next

\* The invariant gives the three promises about the files.
LEMMA FilesInvSafe == FilesInv => Files!Safe
<1> SUFFICES ASSUME FilesInv PROVE Files!Safe
  OBVIOUS
<1> USE DEF FilesInv
<1>1. Files!RecordedTradesSurvive
  BY DEF Files!RecordedTradesSurvive, Files!At, DiskInv, Files!Idle, Files!Down
<1>2. Files!ExitsNeverReopen
  <2> SUFFICES ASSUME NEW t \in exited, t \in DOMAIN entries
               PROVE  entries[t] = "closed"
    BY DEF Files!ExitsNeverReopen
  <2>1. CASE entries[t] = file[t]
    BY <2>1 DEF DiskInv, MemoryInv, Files!Unreadable
  <2>2. CASE writing.at \in {"file", "cutFile"} /\ t = writing.id
    BY <2>2 DEF CallInv, Files!Idle, Files!Down
  <2> QED BY <2>1, <2>2 DEF MemoryInv
<1>3. Files!FilesOutliveTheIndex
  BY DEF Files!FilesOutliveTheIndex, DiskInv
<1> QED BY <1>1, <1>2, <1>3 DEF Files!Safe

---------------------------------------------------------------------------
(* The rows of the SQLite journal and the positions they are about         *)

\* The rows and the positions they are about, and the identifiers given:
\* those of this millisecond were all given by this process.
RowsInv ==
  /\ IsFiniteSet(DOMAIN rows)
  /\ \A t \in DOMAIN rows :
       rows[t] \in [symbol : LedgerSymbols, opened : Nat, state : Ledger!RowStates]
  /\ DOMAIN held \subseteq LedgerSymbols
  /\ \A s \in DOMAIN held :
       /\ held[s] \in DOMAIN rows
       /\ rows[held[s]].state = "open" /\ rows[held[s]].symbol = s

IdsInv ==
  /\ clock \in Nat
  /\ \A b \in DOMAIN idsSeen : idsSeen[b] \in Nat
  /\ \A t \in DOMAIN rows :
       /\ t \in Nat \X LedgerSymbols \X Nat
       /\ t[1] <= clock /\ rows[t].opened = t[1]
       /\ t[1] = clock => /\ <<t[1], t[2]>> \in DOMAIN idsSeen
                          /\ t[3] <= idsSeen[<<t[1], t[2]>>]

LedgerInv == RowsInv /\ IdsInv /\ Ledger!ReportIsAPartition

\* An empty journal satisfies the invariant.
LEMMA InitLedger == Ledger!Init => LedgerInv
<1> SUFFICES ASSUME Ledger!Init PROVE LedgerInv
  OBVIOUS
<1> USE DEF Ledger!Init, Ledger!NoReport
<1>1. RowsInv
  BY FS_EmptySet DEF RowsInv
<1>2. IdsInv
  BY DEF IdsInv
<1>3. Ledger!ReportIsAPartition
  BY DEF Ledger!ReportIsAPartition
<1> QED BY <1>1, <1>2, <1>3 DEF LedgerInv

\* Some open trade of a symbol that has one is its newest.
LEMMA NewestExists ==
  ASSUME LedgerInv, NEW t \in Ledger!OpenTrades
  PROVE  /\ Ledger!Newest(rows[t].symbol) \in Ledger!OpenTrades
         /\ rows[Ledger!Newest(rows[t].symbol)].symbol = rows[t].symbol
<1> DEFINE s == rows[t].symbol
           Mine == {u \in Ledger!OpenTrades : rows[u].symbol = s}
           Ages == {clock - rows[u].opened : u \in Mine}
<1>1. t \in Mine
  OBVIOUS
<1>2. clock \in Nat /\ \A u \in Mine : rows[u].opened \in Nat /\ rows[u].opened <= clock
  BY DEF LedgerInv, RowsInv, IdsInv, Ledger!OpenTrades
<1>3. Ages \subseteq Nat /\ Ages # {}
  <2> HIDE DEF Mine
  <2> QED BY <1>1, <1>2
<1>4. PICK age \in Ages : \A a \in Ages : ~(a < age)
  <2> HIDE DEF Ages
  <2> QED BY <1>3, NatMin
<1>5. PICK u \in Mine : age = clock - rows[u].opened
  OBVIOUS
<1>6. ASSUME NEW v \in Mine
      PROVE  rows[v].opened <= rows[u].opened
  <2>1. clock - rows[v].opened \in Ages
    OBVIOUS
  <2>2. ~(clock - rows[v].opened < clock - rows[u].opened)
    BY <1>4, <1>5, <2>1
  <2> HIDE DEF Mine
  <2> QED BY <1>2, <2>2
<1>7. u \in Ledger!OpenTrades /\ rows[u].symbol = s
       /\ \A v \in Ledger!OpenTrades : rows[v].symbol = s => rows[v].opened <= rows[u].opened
  BY <1>6
<1> QED BY <1>7 DEF Ledger!Newest

\* The rows a reconciliation writes off are open, and of no live position.
LEMMA WrittenOff ==
  ASSUME LedgerInv, Ledger!Reconcile
  PROVE  /\ DOMAIN rows' = DOMAIN rows
         /\ \A t \in DOMAIN rows :
              \/ rows'[t] = rows[t]
              \/ /\ t \in Ledger!Orphans
                 /\ rows'[t] = [rows[t] EXCEPT !.state = "missing"]
         /\ \A t \in Ledger!Orphans :
              LET u == Ledger!Newest(rows[t].symbol)
              IN  u \in Ledger!Orphans /\ rows'[u].state = "missing"
         /\ recovery' = {} /\ UNCHANGED <<clock, idsSeen, held, priced>>
<1> DEFINE gone == {rows[t].symbol : t \in Ledger!Orphans}
<1>1. /\ rows' = [t \in DOMAIN rows |->
             IF rows[t].symbol \in gone /\ t = Ledger!Newest(rows[t].symbol)
                THEN [rows[t] EXCEPT !.state = "missing"] ELSE rows[t]]
      /\ recovery' = {} /\ UNCHANGED <<clock, idsSeen, held, priced>>
  BY DEF Ledger!Reconcile, Ledger!NoReport
<1>2. \A t \in Ledger!Orphans : t \in DOMAIN rows /\ t \in Ledger!OpenTrades
         /\ rows[t].symbol \notin DOMAIN held
  BY DEF Ledger!Orphans, Ledger!OpenTrades
<1>3. ASSUME NEW t \in Ledger!Orphans
      PROVE  /\ Ledger!Newest(rows[t].symbol) \in Ledger!Orphans
             /\ rows[Ledger!Newest(rows[t].symbol)].symbol = rows[t].symbol
  BY <1>2, NewestExists DEF Ledger!Orphans
<1>4. ASSUME NEW t \in DOMAIN rows,
             rows[t].symbol \in gone, t = Ledger!Newest(rows[t].symbol)
      PROVE  t \in Ledger!Orphans
  <2>1. PICK u \in Ledger!Orphans : rows[u].symbol = rows[t].symbol
    BY <1>4
  <2> QED BY <1>3, <1>4, <2>1
<1>5. ASSUME NEW t \in Ledger!Orphans
      PROVE  rows'[Ledger!Newest(rows[t].symbol)].state = "missing"
  <2>1. PICK u : u = Ledger!Newest(rows[t].symbol)
    OBVIOUS
  <2>2. u \in DOMAIN rows /\ rows[u].symbol = rows[t].symbol /\ rows[u].symbol \in gone
        /\ u = Ledger!Newest(rows[u].symbol)
    BY <1>2, <1>3, <2>1
  <2>3. rows'[u] = [rows[u] EXCEPT !.state = "missing"]
    BY <1>1, <2>2
  <2>4. rows[u] \in [symbol : LedgerSymbols, opened : Nat, state : Ledger!RowStates]
    BY <2>2 DEF LedgerInv, RowsInv
  <2> QED BY <2>1, <2>3, <2>4
<1> QED BY <1>1, <1>3, <1>4, <1>5

\* Every opening, closing, restart and start-up pass keeps it.
LEMMA LedgerStepKeeps ==
  ASSUME LedgerInv, [Ledger!Next]_ledgerVars
  PROVE  LedgerInv'
<1> USE DEF LedgerInv
<1>1. CASE UNCHANGED ledgerVars
  BY <1>1 DEF ledgerVars, RowsInv, IdsInv, Ledger!ReportIsAPartition
<1>2. ASSUME NEW s \in LedgerSymbols, Ledger!RecordOpen(s)
      PROVE  LedgerInv'
  <2>1. PICK u : u = Ledger!TradeId(s)
    OBVIOUS
  <2>2. PICK n : n = Ledger!Sequence(s)
    OBVIOUS
  <2>3. n \in Nat /\ u = <<clock, s, n>>
    BY <2>1, <2>2 DEF Ledger!TradeId, Ledger!Sequence, Ledger!BaseId, IdsInv
  <2>4. /\ s \notin DOMAIN held /\ u \notin DOMAIN rows
        /\ idsSeen' = [b \in DOMAIN idsSeen \cup {<<clock, s>>} |->
                         IF b = <<clock, s>> THEN n ELSE idsSeen[b]]
        /\ rows' = [t \in DOMAIN rows \cup {u} |->
                      IF t = u THEN [symbol |-> s, opened |-> clock, state |-> "open"]
                               ELSE rows[t]]
        /\ held' = [x \in DOMAIN held \cup {s} |-> IF x = s THEN u ELSE held[x]]
        /\ recovery' = {} /\ clock' = clock
    BY <1>2, <2>1, <2>2, Zenon DEF Ledger!RecordOpen, Ledger!BaseId, Ledger!NoReport
  <2>5. <<clock, s>> \in DOMAIN idsSeen => idsSeen[<<clock, s>>] <= n
    BY <2>2 DEF Ledger!Sequence, Ledger!BaseId, IdsInv
  <2>6. RowsInv'
    <3>1. IsFiniteSet(DOMAIN rows')
      BY <2>4, FS_AddElement DEF RowsInv
    <3>2. \A t \in DOMAIN rows' :
            rows'[t] \in [symbol : LedgerSymbols, opened : Nat, state : Ledger!RowStates]
      BY <2>4 DEF RowsInv, IdsInv, Ledger!RowStates
    <3>3. \A x \in DOMAIN held' :
            /\ held'[x] \in DOMAIN rows'
            /\ rows'[held'[x]].state = "open" /\ rows'[held'[x]].symbol = x
      BY <2>4 DEF RowsInv
    <3> QED BY <2>4, <3>1, <3>2, <3>3 DEF RowsInv
  <2>7. IdsInv'
    <3>1. \A b \in DOMAIN idsSeen' : idsSeen'[b] \in Nat
      BY <2>3, <2>4 DEF IdsInv
    <3>2. ASSUME NEW t \in DOMAIN rows', t # u
          PROVE  /\ t \in Nat \X LedgerSymbols \X Nat
                 /\ t[1] <= clock' /\ rows'[t].opened = t[1]
                 /\ t[1] = clock' => /\ <<t[1], t[2]>> \in DOMAIN idsSeen'
                                     /\ t[3] <= idsSeen'[<<t[1], t[2]>>]
      <4>1. /\ t \in Nat \X LedgerSymbols \X Nat
            /\ t[1] <= clock /\ rows[t].opened = t[1]
            /\ t[1] = clock => /\ <<t[1], t[2]>> \in DOMAIN idsSeen
                               /\ t[3] <= idsSeen[<<t[1], t[2]>>]
        BY <2>4, <3>2 DEF IdsInv
      <4>2. t[1] = clock => idsSeen[<<t[1], t[2]>>] \in Nat
        BY <4>1 DEF IdsInv
      <4>3. t[1] = clock => /\ <<t[1], t[2]>> \in DOMAIN idsSeen'
                            /\ t[3] <= idsSeen'[<<t[1], t[2]>>]
        BY <2>3, <2>4, <2>5, <4>1, <4>2
      <4> QED BY <2>4, <3>2, <4>1, <4>3
    <3>3. /\ u \in Nat \X LedgerSymbols \X Nat
          /\ u[1] <= clock' /\ rows'[u].opened = u[1]
          /\ <<u[1], u[2]>> \in DOMAIN idsSeen' /\ u[3] <= idsSeen'[<<u[1], u[2]>>]
      BY <2>3, <2>4 DEF IdsInv
    <3> QED BY <2>4, <3>1, <3>2, <3>3 DEF IdsInv
  <2>8. Ledger!ReportIsAPartition'
    BY <2>4 DEF Ledger!ReportIsAPartition
  <2> QED BY <2>6, <2>7, <2>8
<1>3. ASSUME NEW s \in LedgerSymbols, Ledger!RecordClose(s)
      PROVE  LedgerInv'
  <2>1. PICK u : u = held[s]
    OBVIOUS
  <2>2. /\ s \in DOMAIN held /\ u \in DOMAIN rows /\ rows[u].symbol = s
        /\ rows' = [rows EXCEPT ![u].state = "traded"]
        /\ held' = [x \in DOMAIN held \ {s} |-> held[x]]
        /\ recovery' = {} /\ UNCHANGED <<clock, idsSeen>>
    BY <1>3, <2>1 DEF Ledger!RecordClose, Ledger!NoReport, RowsInv
  <2>3. /\ DOMAIN rows' = DOMAIN rows
        /\ \A t \in DOMAIN rows : t # u => rows'[t] = rows[t]
        /\ rows'[u] = [rows[u] EXCEPT !.state = "traded"]
    BY <2>2
  <2>4. rows[u] \in [symbol : LedgerSymbols, opened : Nat, state : Ledger!RowStates]
    BY <2>2 DEF RowsInv
  <2>5. /\ rows'[u] \in [symbol : LedgerSymbols, opened : Nat, state : Ledger!RowStates]
        /\ rows'[u].opened = rows[u].opened
    BY <2>3, <2>4 DEF Ledger!RowStates
  <2>6. RowsInv'
    <3>1. \A x \in DOMAIN held' : x \in DOMAIN held /\ held'[x] = held[x] /\ held[x] # u
      BY <2>1, <2>2 DEF RowsInv
    <3> QED BY <2>2, <2>3, <2>5, <3>1 DEF RowsInv
  <2>7. IdsInv'
    BY <2>2, <2>3, <2>5 DEF IdsInv
  <2>8. Ledger!ReportIsAPartition'
    BY <2>2 DEF Ledger!ReportIsAPartition
  <2> QED BY <2>6, <2>7, <2>8
<1>4. CASE Ledger!Tick
  <2>1. RowsInv'
    BY <1>4 DEF Ledger!Tick, RowsInv
  <2>2. IdsInv'
    BY <1>4 DEF Ledger!Tick, IdsInv
  <2>3. Ledger!ReportIsAPartition'
    BY <1>4 DEF Ledger!Tick, Ledger!NoReport, Ledger!ReportIsAPartition
  <2> QED BY <2>1, <2>2, <2>3
<1>5. CASE Ledger!Restart
  <2>1. RowsInv'
    BY <1>5 DEF Ledger!Restart, RowsInv
  <2>2. IdsInv'
    BY <1>5 DEF Ledger!Restart, IdsInv
  <2>3. Ledger!ReportIsAPartition'
    BY <1>5 DEF Ledger!Restart, Ledger!NoReport, Ledger!ReportIsAPartition
  <2> QED BY <2>1, <2>2, <2>3
<1>6. CASE Ledger!Reconcile
  <2>1. /\ DOMAIN rows' = DOMAIN rows
        /\ \A t \in DOMAIN rows :
              \/ rows'[t] = rows[t]
              \/ /\ t \in Ledger!Orphans
                 /\ rows'[t] = [rows[t] EXCEPT !.state = "missing"]
        /\ recovery' = {} /\ UNCHANGED <<clock, idsSeen, held, priced>>
    BY <1>6, WrittenOff
  <2>2. \A t \in DOMAIN rows :
          /\ rows'[t] \in [symbol : LedgerSymbols, opened : Nat, state : Ledger!RowStates]
          /\ rows'[t].opened = rows[t].opened /\ rows'[t].symbol = rows[t].symbol
    BY <2>1 DEF RowsInv, Ledger!RowStates
  <2>3. \A s \in DOMAIN held : rows'[held[s]] = rows[held[s]]
    BY <2>1 DEF RowsInv, Ledger!Orphans
  <2>4. RowsInv'
    BY <2>1, <2>2, <2>3 DEF RowsInv
  <2>5. IdsInv'
    BY <2>1, <2>2 DEF IdsInv
  <2>6. Ledger!ReportIsAPartition'
    BY <2>1 DEF Ledger!ReportIsAPartition
  <2> QED BY <2>4, <2>5, <2>6
<1>7. CASE Ledger!Recover
  <2>1. UNCHANGED <<clock, idsSeen, rows, held, priced>>
    BY <1>7 DEF Ledger!Recover
  <2>2. PICK O, B, C, E : /\ O = Ledger!OpenTrades /\ B = O \ Ledger!Orphans
          /\ C = {t \in Ledger!Orphans : rows[t].symbol \in priced}
          /\ E = {t \in Ledger!Orphans : rows[t].symbol \notin priced}
    OBVIOUS
  <2>3. recovery' = {[restored |-> B, closed |-> C, errors |-> E, of |-> O]}
    BY <1>7, <2>2 DEF Ledger!Recover
  <2>4. O \subseteq DOMAIN rows /\ Ledger!Orphans \subseteq O
    BY <2>2 DEF Ledger!OpenTrades, Ledger!Orphans
  <2>5. B \cup C \cup E = O /\ B \cap C = {} /\ (B \cup C) \cap E = {}
    BY <2>2, <2>4
  <2>6. IsFiniteSet(O) /\ IsFiniteSet(B) /\ IsFiniteSet(C) /\ IsFiniteSet(E)
    <3>1. IsFiniteSet(O)
      BY <2>4, FS_Subset DEF RowsInv
    <3> QED BY <2>5, <3>1, FS_Subset
  <2>7. Cardinality(O) = Cardinality(B) + Cardinality(C) + Cardinality(E)
    <3>1. /\ Cardinality(B) \in Nat /\ Cardinality(C) \in Nat /\ Cardinality(E) \in Nat
          /\ Cardinality({}) = 0
      BY <2>6, FS_CardinalityType, FS_EmptySet
    <3>2. IsFiniteSet(B \cup C) /\ Cardinality(B \cup C) = Cardinality(B) + Cardinality(C)
      <4>1. Cardinality(B \cup C) = Cardinality(B) + Cardinality(C) - Cardinality(B \cap C)
        BY <2>6, FS_Union
      <4>2. IsFiniteSet(B \cup C)
        BY <2>6, FS_Union
      <4>3. Cardinality(B \cap C) = 0
        BY <2>5, <3>1, Zenon
      <4> QED BY <3>1, <4>1, <4>2, <4>3
    <3>3. Cardinality((B \cup C) \cup E)
            = Cardinality(B \cup C) + Cardinality(E) - Cardinality((B \cup C) \cap E)
      BY <2>6, <3>2, FS_Union
    <3>4. Cardinality((B \cup C) \cap E) = 0
      BY <2>5, <3>1, Zenon
    <3>5. Cardinality((B \cup C) \cup E) = Cardinality(O)
      BY <2>5, Zenon
    <3> QED BY <3>1, <3>2, <3>3, <3>4, <3>5
  <2>8. Ledger!ReportIsAPartition'
    <3>1. Ledger!Cardinality(O) =
            Ledger!Cardinality(B) + Ledger!Cardinality(C) + Ledger!Cardinality(E)
      BY <2>7 DEF Ledger!Cardinality, Cardinality
    <3> QED BY <2>3, <2>5, <3>1 DEF Ledger!ReportIsAPartition
  <2>9. RowsInv' /\ IdsInv'
    BY <2>1 DEF RowsInv, IdsInv
  <2> QED BY <2>8, <2>9
<1> QED BY <1>1, <1>2, <1>3, <1>4, <1>5, <1>6, <1>7 DEF Ledger!Next

\* The invariant gives the three promises about the rows.
LEMMA LedgerInvSafe == LedgerInv => Ledger!Safe
<1> SUFFICES ASSUME LedgerInv PROVE Ledger!Safe
  OBVIOUS
<1>1. Ledger!LivePositionsStayOpen
  BY DEF Ledger!LivePositionsStayOpen, LedgerInv, RowsInv
<1>2. Ledger!OpeningsNeverCollide
  <2> SUFFICES ASSUME NEW s \in LedgerSymbols, <<clock, s, Ledger!Sequence(s)>> \in DOMAIN rows
               PROVE  FALSE
    BY DEF Ledger!OpeningsNeverCollide, Ledger!TradeId
  <2>1. PICK n : n = Ledger!Sequence(s)
    OBVIOUS
  <2>2. /\ <<clock, s>> \in DOMAIN idsSeen /\ n <= idsSeen[<<clock, s>>]
        /\ idsSeen[<<clock, s>>] \in Nat
    BY <2>1 DEF LedgerInv, IdsInv
  <2>3. n = idsSeen[<<clock, s>>] + 1
    BY <2>1, <2>2 DEF Ledger!Sequence, Ledger!BaseId
  <2> QED BY <2>2, <2>3
<1> QED BY <1>1, <1>2 DEF LedgerInv, Ledger!Safe

\* What ClosedForGood says of a step.
LEMMA RowsClosedOnce ==
  ASSUME LedgerInv, [Ledger!Next]_ledgerVars
  PROVE  \A t \in DOMAIN rows : rows[t].state # "open" => rows'[t] = rows[t]
<1> SUFFICES ASSUME NEW t \in DOMAIN rows, rows[t].state # "open"
             PROVE  rows'[t] = rows[t]
  OBVIOUS
<1>1. CASE UNCHANGED ledgerVars \/ Ledger!Tick \/ Ledger!Restart \/ Ledger!Recover
  BY <1>1 DEF ledgerVars, Ledger!Tick, Ledger!Restart, Ledger!Recover
<1>2. ASSUME NEW s \in LedgerSymbols, Ledger!RecordOpen(s)
      PROVE  rows'[t] = rows[t]
  BY <1>2 DEF Ledger!RecordOpen
<1>3. ASSUME NEW s \in LedgerSymbols, Ledger!RecordClose(s)
      PROVE  rows'[t] = rows[t]
  BY <1>3 DEF Ledger!RecordClose, LedgerInv, RowsInv
<1>4. CASE Ledger!Reconcile
  BY <1>4, WrittenOff DEF Ledger!Orphans, Ledger!OpenTrades
<1> QED BY <1>1, <1>2, <1>3, <1>4 DEF Ledger!Next

\* A reconciliation that finds orphans closes one of each of their symbols.
LEMMA OrphansDwindle ==
  ASSUME LedgerInv, Ledger!Reconcile, Ledger!Orphans # {}
  PROVE  Cardinality(Ledger!Orphans') < Cardinality(Ledger!Orphans)
<1>1. PICK S, T : S = Ledger!Orphans /\ T = Ledger!Orphans'
  OBVIOUS
<1>2. IsFiniteSet(S)
  <2>1. S \subseteq DOMAIN rows
    BY <1>1 DEF Ledger!Orphans, Ledger!OpenTrades
  <2> QED BY <2>1, FS_Subset DEF LedgerInv, RowsInv
<1>3. T \subseteq S
  BY <1>1, WrittenOff DEF Ledger!Orphans, Ledger!OpenTrades, LedgerInv, RowsInv
<1>4. PICK u \in S : rows'[u].state = "missing"
  BY <1>1, WrittenOff
<1>5. u \notin T
  BY <1>1, <1>4 DEF Ledger!Orphans, Ledger!OpenTrades
<1>6. Cardinality(T) < Cardinality(S)
  BY <1>2, <1>3, <1>4, <1>5, FS_Subset, FS_CardinalityType
<1> QED BY <1>1, <1>6

---------------------------------------------------------------------------
(* The strategies of paper trading                                         *)

\* What is known of a strategy has a status and a count of trades.
KnownConfig == [status : Selector!Statuses, trades : Nat]

\* A strategy that trades, or may be activated, is vouched for: in memory, and
\* in its file.
SelectorInv ==
  /\ DOMAIN config = Strategies /\ DOMAIN saved = Strategies /\ readable \subseteq Strategies
  /\ \A s \in Strategies :
       /\ config[s] \in KnownConfig \cup {Selector!NoConfig}
       /\ saved[s] \in KnownConfig \cup {Selector!NoConfig}
       /\ config[s].status \in Selector!Vouching => s \in vouched
       /\ saved[s].status \in Selector!Vouching => s \in fileVouched
  /\ Selector!FileAgrees

\* Without a configuration there is no status that vouches for anything.
LEMMA NoConfigVouchesNot == Selector!NoConfig.status \notin Selector!Vouching
BY DEF Selector!NoConfig, Selector!Missing, Selector!Vouching

\* Saving what is vouched for keeps the invariant, written or not.
LEMMA SaveKeeps ==
  ASSUME SelectorInv, NEW s \in Strategies, NEW c \in KnownConfig, NEW yes,
         Selector!Save(s, c, yes), c.status \in Selector!Vouching => yes
  PROVE  SelectorInv'
<1>1. /\ DOMAIN config' = Strategies /\ config'[s] = c
      /\ \A x \in Strategies : x # s => config'[x] = config[x]
      /\ vouched' = Selector!Told(vouched, s, yes)
  BY DEF Selector!Save, SelectorInv
<1>2. \A x \in Strategies :
        /\ config'[x] \in KnownConfig \cup {Selector!NoConfig}
        /\ config'[x].status \in Selector!Vouching => x \in vouched'
  <2> SUFFICES ASSUME NEW x \in Strategies
               PROVE  /\ config'[x] \in KnownConfig \cup {Selector!NoConfig}
                      /\ config'[x].status \in Selector!Vouching => x \in vouched'
    OBVIOUS
  <2>1. CASE x = s
    BY <1>1, <2>1 DEF Selector!Told
  <2>2. CASE x # s
    BY <1>1, <2>2 DEF Selector!Told, SelectorInv
  <2> QED BY <2>1, <2>2
<1>3. CASE /\ saved' = [saved EXCEPT ![s] = c]
           /\ readable' = readable \cup {s}
           /\ fileVouched' = Selector!Told(fileVouched, s, yes)
           /\ astray' = astray \ {s}
  <2>1. /\ DOMAIN saved' = Strategies /\ saved'[s] = c
        /\ \A x \in Strategies : x # s => saved'[x] = saved[x]
    BY <1>3 DEF SelectorInv
  <2>2. \A x \in Strategies :
          /\ saved'[x] \in KnownConfig \cup {Selector!NoConfig}
          /\ saved'[x].status \in Selector!Vouching => x \in fileVouched'
    <3> SUFFICES ASSUME NEW x \in Strategies
                 PROVE  /\ saved'[x] \in KnownConfig \cup {Selector!NoConfig}
                        /\ saved'[x].status \in Selector!Vouching => x \in fileVouched'
      OBVIOUS
    <3>1. CASE x = s
      BY <1>3, <2>1, <3>1 DEF Selector!Told
    <3>2. CASE x # s
      BY <1>3, <2>1, <3>2 DEF Selector!Told, SelectorInv
    <3> QED BY <3>1, <3>2
  <2>3. \A x \in readable' \ astray' : Selector!Known(x)' => config'[x] = saved'[x]
    <3> SUFFICES ASSUME NEW x \in readable' \ astray', Selector!Known(x)'
                 PROVE  config'[x] = saved'[x]
      OBVIOUS
    <3>1. CASE x = s
      BY <1>1, <2>1, <3>1
    <3>2. CASE x # s
      <4>1. x \in readable \ astray /\ x \in Strategies
        BY <1>3, <3>2 DEF SelectorInv
      <4>2. config'[x] = config[x] /\ saved'[x] = saved[x]
        BY <1>1, <2>1, <3>2, <4>1
      <4>3. Selector!Known(x)
        BY <4>2 DEF Selector!Known
      <4>4. config[x] = saved[x]
        BY <4>1, <4>3 DEF SelectorInv, Selector!FileAgrees
      <4> QED BY <4>2, <4>4
    <3> QED BY <3>1, <3>2
  <2>4. readable' \subseteq Strategies
    BY <1>3 DEF SelectorInv
  <2> QED BY <1>1, <1>2, <2>1, <2>2, <2>3, <2>4 DEF SelectorInv, Selector!FileAgrees
<1>4. CASE astray' = astray \cup {s} /\ UNCHANGED <<saved, readable, fileVouched>>
  <2>1. Selector!FileAgrees'
    <3> SUFFICES ASSUME NEW x \in readable \ astray', Selector!Known(x)'
                 PROVE  config'[x] = saved[x]
      BY <1>4 DEF Selector!FileAgrees
    <3>1. x \in readable \ astray /\ x # s
      BY <1>4
    <3>2. config'[x] = config[x]
      BY <3>1 DEF Selector!Save, SelectorInv
    <3> QED BY <3>1, <3>2 DEF Selector!Known, Selector!FileAgrees, SelectorInv
  <2> QED BY <1>1, <1>2, <1>4, <2>1 DEF SelectorInv
<1> QED BY <1>3, <1>4 DEF Selector!Save

\* No operation, edit, damaged file or restart makes what nobody vouched for
\* trade.
LEMMA SelectorStepKeeps ==
  ASSUME SelectorInv, [Selector!Next]_selectorVars
  PROVE  SelectorInv'
<1>0. \A s \in Strategies : Selector!Known(s) => config[s] \in KnownConfig
  BY DEF SelectorInv, Selector!Known
<1>1. CASE UNCHANGED selectorVars
  BY <1>1 DEF selectorVars, SelectorInv, Selector!FileAgrees, Selector!Known
<1>2. ASSUME NEW s \in Strategies, Selector!Activate(s)
      PROVE  SelectorInv'
  <2> DEFINE c == [config[s] EXCEPT !.status = "ACTIVE"]
  <2>1. c \in KnownConfig /\ config[s].status \in Selector!Vouching
    BY <1>0, <1>2 DEF Selector!Activate, Selector!Statuses, Selector!Vouching, KnownConfig
  <2>2. Selector!Save(s, c, s \in vouched)
    BY <1>2 DEF Selector!Activate
  <2>3. s \in vouched
    BY <2>1 DEF SelectorInv
  <2> HIDE DEF c
  <2> QED BY <2>1, <2>2, <2>3, SaveKeeps
<1>3. ASSUME NEW s \in Strategies, Selector!Deactivate(s)
      PROVE  SelectorInv'
  <2> DEFINE c == [config[s] EXCEPT !.status = "SUSPENDED"]
  <2>1. c \in KnownConfig
    BY <1>0, <1>3 DEF Selector!Deactivate, Selector!Statuses, KnownConfig
  <2>2. Selector!Save(s, c, TRUE)
    BY <1>3 DEF Selector!Deactivate
  <2> HIDE DEF c
  <2> QED BY <2>1, <2>2, SaveKeeps
<1>4. ASSUME NEW s \in Strategies, Selector!UpdateTradeStats(s)
      PROVE  SelectorInv'
  <2> DEFINE c == [config[s] EXCEPT !.trades = @ + 1]
  <2>1. c \in KnownConfig /\ c.status = config[s].status
    BY <1>0, <1>4 DEF Selector!UpdateTradeStats, KnownConfig
  <2>2. Selector!Save(s, c, s \in vouched)
    BY <1>4 DEF Selector!UpdateTradeStats
  <2>3. c.status \in Selector!Vouching => s \in vouched
    BY <2>1 DEF SelectorInv
  <2> HIDE DEF c
  <2> QED BY <2>1, <2>2, <2>3, SaveKeeps
<1>5. ASSUME NEW s \in Strategies, NEW status \in Selector!Statuses, Selector!Register(s, status)
      PROVE  SelectorInv'
  <2> DEFINE c == [status |-> status, trades |-> 0]
  <2>1. c \in KnownConfig /\ c.status = status
    BY DEF KnownConfig
  <2>2. Selector!Save(s, c, status \in Selector!Vouching)
    BY <1>5 DEF Selector!Register
  <2> HIDE DEF c
  <2> QED BY <2>1, <2>2, SaveKeeps
<1>6. ASSUME NEW s \in Strategies, Selector!DamageFile(s)
      PROVE  SelectorInv'
  BY <1>6 DEF Selector!DamageFile, SelectorInv, Selector!FileAgrees, Selector!Known
<1>7. ASSUME NEW s \in Strategies, NEW c \in Selector!Config, Selector!EditFile(s, c)
      PROVE  SelectorInv'
  <2>1. c \in KnownConfig
    BY DEF KnownConfig, Selector!Config
  <2>2. /\ DOMAIN saved' = Strategies /\ saved'[s] = c
        /\ \A x \in Strategies : x # s => saved'[x] = saved[x]
        /\ fileVouched' = Selector!Told(fileVouched, s, c.status \in Selector!Vouching)
        /\ readable' = readable \cup {s} /\ astray' = astray \cup {s}
        /\ UNCHANGED <<config, vouched>>
    BY <1>7 DEF Selector!EditFile, SelectorInv
  <2>3. \A x \in Strategies :
          /\ saved'[x] \in KnownConfig \cup {Selector!NoConfig}
          /\ saved'[x].status \in Selector!Vouching => x \in fileVouched'
    <3> SUFFICES ASSUME NEW x \in Strategies
                 PROVE  /\ saved'[x] \in KnownConfig \cup {Selector!NoConfig}
                        /\ saved'[x].status \in Selector!Vouching => x \in fileVouched'
      OBVIOUS
    <3>1. CASE x = s
      BY <2>1, <2>2, <3>1 DEF Selector!Told
    <3>2. CASE x # s
      BY <2>2, <3>2 DEF Selector!Told, SelectorInv
    <3> QED BY <3>1, <3>2
  <2>4. Selector!FileAgrees'
    <3> SUFFICES ASSUME NEW x \in readable' \ astray', Selector!Known(x)'
                 PROVE  config'[x] = saved'[x]
      BY DEF Selector!FileAgrees
    <3>1. x \in readable \ astray /\ x # s
      BY <2>2
    <3>2. saved'[x] = saved[x]
      BY <1>7, <3>1 DEF Selector!EditFile, SelectorInv
    <3> QED BY <2>2, <3>1, <3>2 DEF Selector!Known, Selector!FileAgrees, SelectorInv
  <2> QED BY <2>2, <2>3, <2>4 DEF SelectorInv
<1>8. CASE Selector!Restart
  <2>1. /\ config' = [s \in Strategies |-> IF s \in readable THEN saved[s] ELSE Selector!NoConfig]
        /\ vouched' = fileVouched \cap readable
        /\ UNCHANGED <<saved, readable, fileVouched>>
    BY <1>8 DEF Selector!Restart
  <2>2. \A x \in Strategies :
          /\ config'[x] \in KnownConfig \cup {Selector!NoConfig}
          /\ config'[x].status \in Selector!Vouching => x \in vouched'
    BY <2>1, NoConfigVouchesNot DEF SelectorInv
  <2>3. Selector!FileAgrees'
    <3> SUFFICES ASSUME NEW x \in readable' PROVE config'[x] = saved'[x]
      BY DEF Selector!FileAgrees
    <3> QED BY <2>1 DEF SelectorInv
  <2> QED BY <2>1, <2>2, <2>3 DEF SelectorInv
<1> QED BY <1>1, <1>2, <1>3, <1>4, <1>5, <1>6, <1>7, <1>8 DEF Selector!Next

\* Nothing is configured before the first registration.
LEMMA InitSelector == Selector!Init => SelectorInv
BY NoConfigVouchesNot DEF Selector!Init, SelectorInv, Selector!FileAgrees, Selector!Known

\* What trades is vouched for.
LEMMA SelectorInvSafe == SelectorInv => Selector!Safe
BY DEF SelectorInv, Selector!Safe, Selector!ActiveWasVouchedFor, Selector!Vouching

---------------------------------------------------------------------------
(* From configuration to a live start                                      *)

\* The gates that failed, with and without credentials, on given settings.
Checked(s, keys, failed) ==
  \A g \in Readiness!Gates : g \in failed <=>
    \/ g = "MODE" /\ \/ s.mode = "live" /\ ~s.live
                     \/ s.live /\ s.mode \notin {"live", "shadow_live"}
    \/ g = "KILL_SWITCH" /\ ~s.kill
    \/ g = "API_KEYS" /\ ~keys
    \/ g = "SANDBOX" /\ s.mode = "live" /\ s.sandbox
    \/ g = "EXCHANGE" /\ s.exchangeId = ""
    \/ g = "SECURITY" /\ s.riskLive

\* A process runs on accepted settings, and a report is about such settings
\* and the credentials of its moment.
ReadinessInv ==
  /\ \A s \in settings : Readiness!Accepted(s)
  /\ \A r \in gates : Readiness!Accepted(r[1]) /\ Checked(r[1], r[3], r[2])

\* Nothing runs and nothing is reported before the first start.
LEMMA InitReadiness == Readiness!Init => ReadinessInv
BY DEF Readiness!Init, ReadinessInv

\* Editing a source changes neither what runs nor what was reported.
LEMMA ReadinessStepKeeps ==
  ASSUME ReadinessInv, [Readiness!Next]_readinessVars
  PROVE  ReadinessInv'
<1>1. CASE UNCHANGED <<settings, gates>>
  BY <1>1 DEF ReadinessInv
<1>2. CASE Readiness!Start
  BY <1>2 DEF Readiness!Start, ReadinessInv
<1>3. CASE Readiness!Validate
  <2>1. PICK s \in settings : gates' = {<<s, Readiness!Failing(s), credentials>>}
    BY <1>3 DEF Readiness!Validate
  <2>2. settings' = settings
    BY <1>3 DEF Readiness!Validate
  <2>3. Checked(s, credentials, Readiness!Failing(s))
    BY DEF Checked, Readiness!Failing, Readiness!Gates
  <2>4. \A r \in gates' : r[1] = s /\ r[2] = Readiness!Failing(s) /\ r[3] = credentials
    BY <2>1
  <2>5. \A r \in gates' : Checked(r[1], r[3], r[2])
    BY <2>3, <2>4, Zenon
  <2>6. \A r \in gates' : Readiness!Accepted(r[1])
    BY <2>4 DEF ReadinessInv
  <2> QED BY <2>2, <2>5, <2>6 DEF ReadinessInv
<1>4. CASE Readiness!Stop
  BY <1>4 DEF Readiness!Stop, ReadinessInv
<1>5. CASE \/ \E s \in Readiness!Sources :
                Readiness!Edit(s, {}) \/ \E o \in Overrides : Readiness!Edit(s, {o})
           \/ \E b \in BOOLEAN : Readiness!SetCredentials(b)
  BY <1>1, <1>5 DEF Readiness!Edit, Readiness!SetCredentials
<1> QED BY <1>1, <1>2, <1>3, <1>4, <1>5 DEF Readiness!Next, readinessVars

\* Settings the loader accepted arm a live start and fail no gate it covers.
LEMMA ReadinessInvSafe == ReadinessInv => Readiness!Safe
<1> SUFFICES ASSUME ReadinessInv PROVE Readiness!Safe
  OBVIOUS
<1> USE DEF Readiness!Accepted, Readiness!RiskAccepts, Readiness!RuntimeAccepts
<1>t. ASSUME NEW s, Readiness!TargetAccepts(s), Targets # {}
      PROVE  s.exchangeId # "" /\
             \E t \in Targets : t.enabled /\ t.id = s.exchangeId /\ (s.mode = "live" => ~t.sandbox)
  BY <1>t DEF Readiness!TargetAccepts, Readiness!Enabled
<1>1. Readiness!LiveIsArmed
  BY <1>t DEF Readiness!LiveIsArmed, ReadinessInv
<1>2. Readiness!LoaderCoversTheGate
  <2> SUFFICES ASSUME NEW r \in gates, r[1].mode = "live",
                      NEW g \in r[2], g \in Readiness!Critical
               PROVE  g \in {"API_KEYS", "SANDBOX"} \/ (g = "EXCHANGE" /\ Targets = {})
    BY DEF Readiness!LoaderCoversTheGate
  <2>1. g \in Readiness!Gates /\ g # "SECURITY"
    BY DEF Readiness!Critical
  <2>2. g # "MODE" /\ g # "KILL_SWITCH"
    BY <2>1 DEF ReadinessInv, Checked
  <2>3. g = "EXCHANGE" => Targets = {}
    BY <2>1, <1>t DEF ReadinessInv, Checked
  <2> QED BY <2>1, <2>2, <2>3 DEF Readiness!Gates
<1>3. Readiness!PassedMeansConsistent
  <2> SUFFICES ASSUME NEW r \in gates, Readiness!AllPassed(r[2])
               PROVE  /\ r[3] /\ r[1].kill
                      /\ IF r[1].mode = "live" THEN ~r[1].sandbox ELSE ~r[1].live
    BY DEF Readiness!PassedMeansConsistent
  <2>1. \A g \in {"MODE", "KILL_SWITCH", "API_KEYS", "SANDBOX"} :
          g \in Readiness!Gates /\ g \notin r[2]
    BY DEF Readiness!AllPassed, Readiness!Critical, Readiness!Gates
  <2>2. r[3] /\ r[1].kill
    BY <2>1 DEF ReadinessInv, Checked
  <2>3. r[1].mode = "live" => ~r[1].sandbox
    BY <2>1 DEF ReadinessInv, Checked
  <2>4. r[1].mode # "live" => ~r[1].live
    BY <2>1 DEF ReadinessInv, Checked
  <2> QED BY <2>2, <2>3, <2>4
<1> QED BY <1>1, <1>2, <1>3 DEF Readiness!Safe

---------------------------------------------------------------------------
(* The paper portfolio                                                     *)

\* What one position may take of an equity.
Share(equity) == (equity * MaxExposurePct) \div 100

\* No position, nor the size that waits for its opening, is larger than its
\* share of the largest equity; there is room for that size, whatever closes;
\* and the day's result is what the capital gained.
PortfolioInv ==
  /\ {capital, dailyPnl, peakEquity, dayStart} \subseteq Int /\ topEquity \in Nat
  /\ IsFiniteSet(DOMAIN positions)
  /\ \A s \in DOMAIN positions : positions[s] \in Int /\ positions[s] <= Share(topEquity)
  /\ Cardinality(DOMAIN positions) <= MaxPositions
  /\ \A g \in approved :
       /\ g.notional \in Int /\ g.notional <= Share(topEquity)
       /\ Cardinality(DOMAIN positions) < MaxPositions
  /\ capital = dayStart + dailyPnl /\ capital <= peakEquity

\* The exposure is the sum of the open sizes.
LEMMA TotalIsSum == Portfolio!Total = Sum(positions, DOMAIN positions)
BY DEF Portfolio!Total, Portfolio!FoldFunction, Portfolio!FoldFunctionOnSet,
       Portfolio!MapThenFoldSet, Sum, FoldFunctionOnSet, MapThenFoldSet

\* The limits are positive.
LEMMA PortfolioNumbers ==
  \A n \in {InitialCapital, RiskPct, MaxExposurePct, MaxPositions} : n \in Nat /\ n > 0
BY OrdersAssumption DEF OrdersAssumption, Portfolio!PortfolioAssumption

\* More equity leaves no smaller share.
LEMMA ShareGrows ==
  ASSUME NEW a \in Int, NEW b \in Int, a <= b
  PROVE  Share(a) \in Int /\ Share(b) \in Int /\ Share(a) <= Share(b)
<1>1. MaxExposurePct \in Nat
  BY PortfolioNumbers
<1>2. PICK x, y : x = a * MaxExposurePct /\ y = b * MaxExposurePct
  OBVIOUS
<1>3. \A d, m \in Nat : d * m \in Nat
  OBVIOUS
<1>4. (b - a) * MaxExposurePct \in Nat
  BY <1>1, <1>3
<1>5. (b - a) * MaxExposurePct = y - x /\ x \in Int /\ y \in Int
  BY <1>1, <1>2
<1>6. x <= y
  BY <1>4, <1>5
<1>7. x \div 100 <= y \div 100 /\ x \div 100 \in Int /\ y \div 100 \in Int
  BY <1>5, <1>6
<1> QED BY <1>2, <1>7 DEF Share

\* A new portfolio is empty and at its peak.
LEMMA InitPortfolio == Portfolio!Init => PortfolioInv
<1> SUFFICES ASSUME Portfolio!Init PROVE PortfolioInv
  OBVIOUS
<1> USE DEF Portfolio!Init
<1>1. DOMAIN positions = {} /\ IsFiniteSet({}) /\ Cardinality({}) = 0
  BY FS_EmptySet
<1>2. InitialCapital \in Nat /\ MaxPositions \in Nat
  BY PortfolioNumbers
<1> QED BY <1>1, <1>2 DEF PortfolioInv

\* A size is never more than its share, whatever the sign of the equity.
LEMMA SizeWithinShare ==
  ASSUME NEW equity \in Int, NEW stop \in Int, stop > 0
  PROVE  Portfolio!Notional(equity, stop) \in Int /\ Portfolio!Notional(equity, stop) <= Share(equity)
<1>1. RiskPct \in Nat /\ Share(equity) \in Int
  BY PortfolioNumbers, ShareGrows
<1>2. equity * RiskPct \in Int
  BY <1>1
<1>3. (equity * RiskPct) \div stop \in Int
  BY <1>2
<1> QED BY <1>1, <1>3 DEF Portfolio!Notional, Share

\* A size, an opening, a closing between the two and a new day keep the limits.
LEMMA PortfolioStepKeeps ==
  ASSUME PortfolioInv, [Portfolio!Next]_portfolioVars
  PROVE  PortfolioInv'
<1>0. MaxPositions \in Nat /\ Cardinality(DOMAIN positions) \in Nat
  BY PortfolioNumbers, FS_CardinalityType DEF PortfolioInv
<1>1. CASE UNCHANGED portfolioVars
  BY <1>1 DEF portfolioVars, PortfolioInv, Share
<1>2. ASSUME NEW s \in PortfolioSymbols, NEW e \in Equities, NEW stop \in Stops,
             Portfolio!ComputePositionSize(s, e, stop)
      PROVE  PortfolioInv'
  <2>1. PICK equity, notional : /\ equity = Portfolio!EquityUsed(e)
                                /\ notional = Portfolio!Notional(equity, stop)
    OBVIOUS
  <2>2. equity \in Int /\ stop \in Int /\ stop > 0
    BY <1>2, <2>1, OrdersAssumption DEF OrdersAssumption, Portfolio!ComputePositionSize, Portfolio!EquityUsed,
       Portfolio!PortfolioAssumption, PortfolioInv
  <2>3. notional \in Int /\ notional <= Share(equity)
    BY <2>1, <2>2, SizeWithinShare
  <2>4. Cardinality(DOMAIN positions) < MaxPositions
    BY <1>2, <2>1 DEF Portfolio!ComputePositionSize, Portfolio!Fits,
       Portfolio!Cardinality, Cardinality
  <2>5. /\ approved' = {[symbol |-> s, notional |-> notional]}
        /\ topEquity' = IF equity > topEquity THEN equity ELSE topEquity
        /\ UNCHANGED <<capital, positions, dailyPnl, peakEquity, dayStart>>
    BY <1>2, <2>1 DEF Portfolio!ComputePositionSize
  <2>6. /\ topEquity' \in Nat /\ equity <= topEquity' /\ topEquity <= topEquity' /\ topEquity \in Nat
    BY <2>2, <2>5 DEF PortfolioInv
  <2>7. /\ Share(equity) <= Share(topEquity') /\ Share(topEquity) <= Share(topEquity')
        /\ Share(topEquity') \in Int /\ Share(equity) \in Int /\ Share(topEquity) \in Int
    BY <2>2, <2>6, ShareGrows
  <2>8. notional <= Share(topEquity')
    BY <2>3, <2>7
  <2>9. Share(topEquity)' = Share(topEquity')
    BY DEF Share
  <2>10. \A x \in DOMAIN positions : positions[x] \in Int /\ positions[x] <= Share(topEquity')
    BY <2>7 DEF PortfolioInv
  <2> QED BY <2>3, <2>4, <2>5, <2>6, <2>8, <2>9, <2>10 DEF PortfolioInv
<1>3. CASE Portfolio!OpenPosition
  <2>1. PICK g \in approved :
          /\ positions' = IF g.symbol \in DOMAIN positions THEN positions
                          ELSE [s \in DOMAIN positions \cup {g.symbol} |->
                                  IF s = g.symbol THEN g.notional ELSE positions[s]]
          /\ approved' = {}
          /\ UNCHANGED <<capital, dailyPnl, peakEquity, topEquity, dayStart>>
    BY <1>3 DEF Portfolio!OpenPosition
  <2>9. Share(topEquity)' = Share(topEquity)
    BY <2>1 DEF Share
  <2>2. CASE g.symbol \in DOMAIN positions
    BY <2>1, <2>2, <2>9 DEF PortfolioInv
  <2>3. CASE g.symbol \notin DOMAIN positions
    <3> DEFINE D == DOMAIN positions
    <3>1. PICK x : x = g.symbol
      OBVIOUS
    <3>2. /\ DOMAIN positions' = D \cup {x} /\ x \notin D
          /\ positions'[x] = g.notional /\ \A s \in D : positions'[s] = positions[s]
      BY <2>1, <2>3, <3>1
    <3>3. /\ IsFiniteSet(DOMAIN positions')
          /\ Cardinality(DOMAIN positions') = Cardinality(D) + 1
      <4>1. IsFiniteSet(D)
        BY DEF PortfolioInv
      <4> HIDE DEF D
      <4>2. IsFiniteSet(D \cup {x}) /\ Cardinality(D \cup {x}) = Cardinality(D) + 1
        BY <3>2, <4>1, FS_AddElement
      <4> QED BY <3>2, <4>2, Zenon
    <3>4. \A s \in DOMAIN positions' : positions'[s] \in Int /\ positions'[s] <= Share(topEquity)
      BY <3>2 DEF PortfolioInv
    <3>5. Cardinality(DOMAIN positions') <= MaxPositions
      BY <1>0, <3>3 DEF PortfolioInv
    <3> QED BY <2>1, <2>9, <3>3, <3>4, <3>5 DEF PortfolioInv
  <2> QED BY <2>2, <2>3
<1>4. ASSUME NEW s \in PortfolioSymbols, NEW pnl \in PortfolioPnls,
             Portfolio!ClosePosition(s, pnl)
      PROVE  PortfolioInv'
  <2> DEFINE D == DOMAIN positions
             R == D \ {s}
  <2>1. /\ positions' = [x \in R |-> positions[x]]
        /\ capital' = capital + pnl /\ dailyPnl' = dailyPnl + pnl
        /\ peakEquity' = IF capital' > peakEquity THEN capital' ELSE peakEquity
        /\ UNCHANGED <<approved, topEquity, dayStart>>
    BY <1>4 DEF Portfolio!ClosePosition
  <2>2. IsFiniteSet(R) /\ Cardinality(R) <= Cardinality(D) /\ Cardinality(R) \in Nat
    BY FS_Subset, FS_CardinalityType DEF PortfolioInv
  <2>3. /\ DOMAIN positions' = R
        /\ \A x \in R : positions'[x] \in Int /\ positions'[x] <= Share(topEquity)
    BY <2>1 DEF PortfolioInv
  <2>4. Share(topEquity)' = Share(topEquity)
    BY <2>1 DEF Share
  <2>5. pnl \in Int
    BY OrdersAssumption DEF OrdersAssumption, Portfolio!PortfolioAssumption
  <2> HIDE DEF R
  <2>6. /\ capital' = dayStart' + dailyPnl' /\ capital' <= peakEquity'
        /\ {capital', dailyPnl', peakEquity', dayStart'} \subseteq Int
    BY <2>1, <2>5 DEF PortfolioInv
  <2>7. /\ Cardinality(DOMAIN positions') <= MaxPositions
        /\ \A g \in approved' :
             /\ g.notional \in Int /\ g.notional <= Share(topEquity)
             /\ Cardinality(DOMAIN positions') < MaxPositions
    BY <1>0, <2>1, <2>2, <2>3 DEF PortfolioInv
  <2> QED BY <2>1, <2>2, <2>3, <2>4, <2>6, <2>7 DEF PortfolioInv
<1>5. CASE Portfolio!ResetDaily
  <2>1. UNCHANGED <<capital, positions, peakEquity, approved, topEquity>>
        /\ dailyPnl' = 0 /\ dayStart' = capital
    BY <1>5 DEF Portfolio!ResetDaily
  <2> QED BY <2>1 DEF PortfolioInv, Share
<1> QED BY <1>1, <1>2, <1>3, <1>4, <1>5 DEF Portfolio!Next

\* As many positions as allowed, each within its share, are within the limit.
LEMMA PortfolioInvSafe == PortfolioInv => Portfolio!Safe
<1> SUFFICES ASSUME PortfolioInv PROVE Portfolio!Safe
  OBVIOUS
<1>1. Portfolio!Cardinality(DOMAIN positions) = Cardinality(DOMAIN positions)
  BY DEF Portfolio!Cardinality, Cardinality
<1>2. PICK n, total, share : /\ n = Cardinality(DOMAIN positions)
                             /\ total = Sum(positions, DOMAIN positions)
                             /\ share = Share(topEquity)
  OBVIOUS
<1>3. /\ n \in Nat /\ n <= MaxPositions /\ MaxPositions \in Nat
      /\ MaxExposurePct \in Nat /\ topEquity \in Nat
  BY <1>2, PortfolioNumbers, FS_CardinalityType DEF PortfolioInv
<1>4. \A a, b \in Nat : a * b \in Nat
  OBVIOUS
<1>5. topEquity * MaxExposurePct \in Nat
  BY <1>3, <1>4
<1>6. share \in Nat /\ 100 * share <= topEquity * MaxExposurePct
  BY <1>2, <1>5 DEF Share
<1>7. total \in Int /\ total <= n * share
  BY <1>2, <1>6, SumBounded, SumTyped DEF PortfolioInv
<1>8. n * share <= MaxPositions * share
  <2>1. (MaxPositions - n) * share \in Nat
    BY <1>3, <1>4, <1>6
  <2> QED BY <1>3, <1>6, <2>1
<1>9. MaxPositions * (100 * share) <= MaxPositions * (topEquity * MaxExposurePct)
  <2>1. MaxPositions * (topEquity * MaxExposurePct - 100 * share) \in Nat
    BY <1>3, <1>4, <1>5, <1>6
  <2> QED BY <1>3, <1>5, <1>6, <2>1
<1>10. MaxPositions * (100 * share) = 100 * (MaxPositions * share)
       /\ MaxPositions * (topEquity * MaxExposurePct) = topEquity * MaxExposurePct * MaxPositions
       /\ MaxPositions * share \in Int /\ n * share \in Int
  BY <1>3, <1>5, <1>6
<1>11. total * 100 <= topEquity * MaxExposurePct * MaxPositions
  <2>1. PICK a, b, c, d : /\ a = n * share /\ b = MaxPositions * share
                          /\ c = MaxPositions * (100 * share)
                          /\ d = MaxPositions * (topEquity * MaxExposurePct)
    OBVIOUS
  <2>2. a \in Int /\ b \in Int /\ total \in Int /\ total <= a /\ a <= b /\ c <= d /\ c = 100 * b
    BY <1>7, <1>8, <1>9, <1>10, <2>1
  <2>3. d \in Int
    BY <1>3, <1>5, <2>1
  <2>4. total * 100 <= d
    BY <2>2, <2>3
  <2> QED BY <1>10, <2>1, <2>4
<1> QED BY <1>1, <1>2, <1>3, <1>11, TotalIsSum DEF Portfolio!Safe, Portfolio!ExposureLimited,
     Portfolio!DayAgreesWithCapital, PortfolioInv

---------------------------------------------------------------------------
(* The orders of the spot loop                                             *)

CallUnderWay == [call : (Nat \ {0}), symbol : SpotSymbols, cost : Int, at : Int, attempts : Int]

\* The orders whose reply was heard.
Heard == {o \in orders : o.call \notin blind \cup {call.call}}

\* An order is its call's only one and carries its symbol and time.
OrdersInv ==
  /\ IsFiniteSet(orders) /\ IsFiniteSet(blind)
  /\ calls \in Nat /\ orderClock \in Int /\ sent \in Int
  /\ call \in CallUnderWay \cup {Spot!Idle}
  /\ \A o \in orders :
       /\ o \in [cid : (Nat \X {0}), call : Nat, symbol : SpotSymbols, at : Int]
       /\ o.cid = <<o.call, 0>> /\ o.call \in 1 .. calls
       /\ o.call = call.call => o.symbol = call.symbol /\ o.at = call.at
  /\ \A o, p \in orders : o.call = p.call => o = p
  /\ blind \subseteq 1 .. calls
  /\ call # Spot!Idle => call.call = calls /\ call.call \notin blind

\* What was heard is counted, and its symbol cools down.
CoolingInv ==
  /\ Cardinality(Heard) <= sent
  /\ \A s \in DOMAIN tradedAt : tradedAt[s] \in Int
  /\ \A o \in Heard : o.symbol \in DOMAIN tradedAt /\ o.at <= tradedAt[o.symbol]
  /\ call # Spot!Idle /\ call.symbol \in DOMAIN tradedAt =>
       call.at - tradedAt[call.symbol] >= Cooldown
  /\ \A s \in DOMAIN tradedAt : tradedAt[s] <= orderClock
  /\ call # Spot!Idle => call.at = orderClock
  /\ \A o, p \in orders :
       o # p /\ o.symbol = p.symbol /\ o.at <= p.at /\ p.at - o.at < Cooldown
         => {o.call, p.call} \cap blind # {}

\* The order under way can be paid for.
BalanceInv ==
  /\ free \in Nat
  /\ call # Spot!Idle /\ (\A o \in orders : o.call # call.call) => call.cost <= free

SpotInv == OrdersInv /\ CoolingInv /\ BalanceInv /\ Spot!SessionAsConfigured

\* A session starts unresolved, with no order and its whole balance.
LEMMA InitSpot == Spot!Init => SpotInv
<1> SUFFICES ASSUME Spot!Init PROVE SpotInv
  OBVIOUS
<1>1. /\ orders = {} /\ blind = {} /\ call = Spot!Idle /\ call.call = 0
      /\ calls = 0 /\ orderClock = 0 /\ sent = 0 /\ DOMAIN tradedAt = {}
  BY DEF Spot!Init, Spot!Idle
<1>2. Heard = {} /\ IsFiniteSet({}) /\ Cardinality({}) = 0
  BY <1>1, FS_EmptySet DEF Heard
<1>3. OrdersInv
  <2>1. IsFiniteSet(orders) /\ IsFiniteSet(blind)
    BY <1>1, <1>2
  <2>2. calls \in Nat /\ orderClock \in Int /\ sent \in Int
    BY <1>1
  <2>3. blind \subseteq 1 .. calls
    BY <1>1
  <2> QED BY <1>1, <2>1, <2>2, <2>3 DEF OrdersInv
<1>4. CoolingInv
  <2>1. Cardinality(Heard) = 0
    BY <1>2, Zenon
  <2>2. Cardinality(Heard) <= sent
    <3> HIDE DEF Heard
    <3> QED BY <1>1, <2>1
  <2> QED BY <1>1, <1>2, <2>2 DEF CoolingInv
<1>5. BalanceInv
  BY <1>1, OrdersAssumption DEF OrdersAssumption, BalanceInv, Spot!SpotAssumption, Spot!Init
<1>6. Spot!SessionAsConfigured
  BY DEF Spot!SessionAsConfigured, Spot!Init
<1> QED BY <1>3, <1>4, <1>5, <1>6 DEF SpotInv

\* The first of some positions is one of them.
LEMMA FirstOfIsOne ==
  ASSUME NEW places, places \subseteq Nat, places # {}
  PROVE  Spot!FirstOf(places) \in places
<1>1. PICK i \in places : \A j \in places : ~(j < i)
  BY NatMin
<1>2. \A j \in places : i <= j
  BY <1>1
<1> QED BY <1>2 DEF Spot!FirstOf

\* A session gets the target it names, enabled, or none.
LEMMA ResolveKeeps ==
  ASSUME NEW u \in SpotUniverses, NEW id, Spot!Resolve(u, id)
  PROVE  Spot!SessionAsConfigured'
<1> SUFFICES ASSUME connector' \notin {Spot!Unresolved, Spot!ConfigError}
             PROVE  \E t \in Spot!Range(u) : t.enabled /\ t.id = id /\ connector' = Spot!AdapterOf(t)
  BY DEF Spot!SessionAsConfigured, Spot!Resolve
<1> DEFINE matching == {i \in DOMAIN u : u[i].id = id}
           on == matching \cap Spot!Enabled(u)
           from == IF on = {} THEN matching ELSE on
<1>1. /\ connector' = Spot!AdapterOf(Spot!TargetOf(u, id)) /\ matching # {}
      /\ \E i \in matching : Spot!TargetOf(u, id).enabled
  BY DEF Spot!Resolve
<1>2. Spot!TargetOf(u, id) = u[Spot!FirstOf(from)]
  BY DEF Spot!TargetOf
<1>3. from \subseteq matching /\ from # {} /\ DOMAIN u \subseteq Nat
  BY <1>1, OrdersAssumption DEF OrdersAssumption, Spot!SpotAssumption
<1>4. Spot!FirstOf(from) \in from
  <2> HIDE DEF from
  <2> QED BY <1>3, FirstOfIsOne
<1>5. PICK i \in matching : Spot!TargetOf(u, id) = u[i]
  BY <1>2, <1>3, <1>4
<1>6. u[i] \in Spot!Range(u) /\ u[i].id = id
  BY DEF Spot!Range
<1> QED BY <1>1, <1>5, <1>6

\* An order in lots never costs more than the balance.
LEMMA AmountAffordable ==
  ASSUME free \in Nat, NEW r \in SpotRules, NEW price \in SpotPrices
  PROVE  Spot!Amount(r, price) * price \in Int /\ Spot!Amount(r, price) * price <= free
<1>1. /\ price \in Nat /\ price > 0 /\ r.minTrade \in Int /\ r.minVolume \in Int /\ TradeQuote \in Int
  BY OrdersAssumption DEF OrdersAssumption, Spot!SpotAssumption
<1>2. Spot!Target(r) \in Int
  <2>1. (r.minTrade * 102) \div 100 \in Int
    BY <1>1
  <2> QED BY <1>1, <2>1 DEF Spot!Target, Spot!Smaller, Spot!Larger
<1>3. Spot!Target(r) \div price \in Int
  <2>1. \A a \in Int, b \in Nat : b > 0 => a \div b \in Int
    OBVIOUS
  <2> QED BY <1>1, <1>2, <2>1
<1>4. PICK wanted \in Int : wanted = Spot!Larger(r.minVolume, Spot!Target(r) \div price)
  BY <1>1, <1>3 DEF Spot!Larger
<1>5. PICK a \in Int : a = (free * 98) \div (100 * price)
  <2>1. \A x \in Nat, y \in Nat : y > 0 => x \div y \in Int
    OBVIOUS
  <2>2. free * 98 \in Nat /\ 100 * price \in Nat /\ 100 * price > 0
    BY <1>1
  <2> QED BY <2>1, <2>2
<1>6. a * (100 * price) <= free * 98
  <2>1. \A x \in Nat, y \in Nat : y > 0 => y * (x \div y) <= x
    OBVIOUS
  <2>2. free * 98 \in Nat /\ 100 * price \in Nat /\ 100 * price > 0
    BY <1>1
  <2>3. (100 * price) * a <= free * 98
    BY <1>5, <2>1, <2>2
  <2> QED BY <1>1, <2>3
<1>7. a * price \in Int /\ a * (100 * price) = 100 * (a * price)
  BY <1>1
<1>8. a * price <= free
  BY <1>6, <1>7
<1>9. wanted * price \in Int
  BY <1>1
<1>10. Spot!Amount(r, price) = IF wanted * price > free THEN a ELSE wanted
  BY <1>4, <1>5 DEF Spot!Amount
<1> QED BY <1>7, <1>8, <1>9, <1>10

\* Nothing about the orders has changed.
LEMMA SpotFrame ==
  ASSUME SpotInv, UNCHANGED <<free, sent, tradedAt, call, orders, blind>>,
         calls' \in Nat, calls' = calls \/ (call = Spot!Idle /\ calls' = calls + 1),
         orderClock' \in Int,
         orderClock' = orderClock \/ (call = Spot!Idle /\ orderClock' = orderClock + 1)
  PROVE  OrdersInv' /\ CoolingInv' /\ BalanceInv'
<1> USE DEF SpotInv
<1>1. OrdersInv'
  BY DEF OrdersInv, Spot!Idle
<1>2. Heard' = Heard
  BY DEF Heard
<1>3. CoolingInv'
  BY <1>2 DEF CoolingInv, OrdersInv
<1>4. BalanceInv'
  BY DEF BalanceInv
<1> QED BY <1>1, <1>3, <1>4

\* The order of the call under way is booked, once.
LEMMA BookOnce ==
  ASSUME SpotInv, call # Spot!Idle, Spot!Book
  PROVE  \/ UNCHANGED <<orders, free>> /\ \E o \in orders : o.call = call.call
         \/ /\ \A o \in orders : o.call # call.call
            /\ \E n : /\ n \in [cid : (Nat \X {0}), call : Nat, symbol : SpotSymbols, at : Int]
                      /\ n.cid = <<n.call, 0>> /\ n.call = call.call
                      /\ n.symbol = call.symbol /\ n.at = call.at
                      /\ orders' = orders \cup {n}
            /\ free' = free - call.cost
<1>1. call \in CallUnderWay
  BY DEF SpotInv, OrdersInv
<1>2. \A o \in orders : o.cid = Spot!ClientId <=> o.call = call.call
  BY <1>1 DEF SpotInv, OrdersInv, Spot!ClientId, CallUnderWay
<1>3. CASE Spot!Known
  BY <1>2, <1>3 DEF Spot!Book, Spot!Known
<1>4. CASE ~Spot!Known
  <2> DEFINE n == [cid |-> Spot!ClientId, call |-> call.call, symbol |-> call.symbol,
                   at |-> call.at]
  <2>1. /\ n \in [cid : (Nat \X {0}), call : Nat, symbol : SpotSymbols, at : Int]
        /\ n.cid = <<n.call, 0>> /\ n.call = call.call
        /\ n.symbol = call.symbol /\ n.at = call.at
    BY <1>1 DEF Spot!ClientId, CallUnderWay
  <2>2. orders' = orders \cup {n} /\ free' = free - call.cost
    BY <1>4 DEF Spot!Book
  <2>3. \A o \in orders : o.call # call.call
    BY <1>2, <1>4 DEF Spot!Known
  <2> HIDE DEF n
  <2> QED BY <2>1, <2>2, <2>3
<1> QED BY <1>3, <1>4

\* What a request leaves behind, booked or not.
LEMMA Requested ==
  ASSUME SpotInv, call # Spot!Idle, Spot!Book \/ UNCHANGED <<orders, free>>
  PROVE  /\ IsFiniteSet(orders') /\ free' \in Nat
         /\ \A o \in orders' :
              /\ o \in [cid : (Nat \X {0}), call : Nat, symbol : SpotSymbols, at : Int]
              /\ o.cid = <<o.call, 0>> /\ o.call \in 1 .. calls
              /\ o.call = call.call => o.symbol = call.symbol /\ o.at = call.at
         /\ \A o, p \in orders' : o.call = p.call => o = p
         /\ \A o, p \in orders' :
              o # p /\ o.symbol = p.symbol /\ o.at <= p.at /\ p.at - o.at < Cooldown
                => {o.call, p.call} \cap blind # {}
         /\ {o \in orders' : o.call \notin blind \cup {call.call}} = Heard
         /\ (\A o \in orders' : o.call # call.call) => call.cost <= free'
         /\ Spot!Book => \E o \in orders' : o.call = call.call
<1>1. /\ call \in CallUnderWay /\ call.call = calls /\ calls \in Nat /\ call.call \notin blind
      /\ Cooldown \in Int
  BY OrdersAssumption DEF OrdersAssumption, SpotInv, OrdersInv, Spot!SpotAssumption
<1>2. CASE UNCHANGED <<orders, free>> /\ (Spot!Book => \E o \in orders : o.call = call.call)
  BY <1>2 DEF SpotInv, OrdersInv, CoolingInv, BalanceInv, Heard
<1>3. ASSUME \A o \in orders : o.call # call.call,
             NEW n \in [cid : (Nat \X {0}), call : Nat, symbol : SpotSymbols, at : Int],
             n.cid = <<n.call, 0>>, n.call = call.call, n.symbol = call.symbol, n.at = call.at,
             orders' = orders \cup {n}, free' = free - call.cost
      PROVE  /\ IsFiniteSet(orders') /\ free' \in Nat
             /\ \A o \in orders' :
                  /\ o \in [cid : (Nat \X {0}), call : Nat, symbol : SpotSymbols, at : Int]
                  /\ o.cid = <<o.call, 0>> /\ o.call \in 1 .. calls
                  /\ o.call = call.call => o.symbol = call.symbol /\ o.at = call.at
             /\ \A o, p \in orders' : o.call = p.call => o = p
             /\ \A o, p \in orders' :
                  o # p /\ o.symbol = p.symbol /\ o.at <= p.at /\ p.at - o.at < Cooldown
                    => {o.call, p.call} \cap blind # {}
             /\ {o \in orders' : o.call \notin blind \cup {call.call}} = Heard
             /\ \E o \in orders' : o.call = call.call
  <2>1. IsFiniteSet(orders')
    BY <1>3, FS_AddElement DEF SpotInv, OrdersInv
  <2>2. free' \in Nat
    <3>1. call.cost <= free /\ free \in Nat
      BY <1>3 DEF SpotInv, BalanceInv
    <3>2. call.cost \in Int
      BY <1>1 DEF CallUnderWay
    <3> QED BY <1>3, <3>1, <3>2
  <2>3. call.call \in 1 .. calls
    BY <1>1 DEF CallUnderWay
  <2>4. \A o \in orders' :
          /\ o \in [cid : (Nat \X {0}), call : Nat, symbol : SpotSymbols, at : Int]
          /\ o.cid = <<o.call, 0>> /\ o.call \in 1 .. calls
          /\ o.call = call.call => o.symbol = call.symbol /\ o.at = call.at
    BY <1>3, <2>3 DEF SpotInv, OrdersInv
  <2>5. \A o, p \in orders' : o.call = p.call => o = p
    BY <1>3 DEF SpotInv, OrdersInv
  <2>6. {o \in orders' : o.call \notin blind \cup {call.call}} = Heard
    BY <1>3 DEF Heard
  \* An order heard of was sent at least a cooldown earlier.
  <2>7. ASSUME NEW o \in orders, o.call \notin blind, o.symbol = n.symbol
        PROVE  o.at + Cooldown <= n.at /\ o.at \in Int /\ n.at \in Int
    <3>1. o \in Heard
      BY <1>3, <2>7 DEF Heard
    <3>2. o.symbol \in DOMAIN tradedAt /\ o.at <= tradedAt[o.symbol]
      BY <3>1 DEF SpotInv, CoolingInv
    <3>3. call.at - tradedAt[call.symbol] >= Cooldown /\ tradedAt[call.symbol] \in Int
      BY <1>3, <2>7, <3>2 DEF SpotInv, CoolingInv
    <3>4. o.at \in Int /\ call.at \in Int
      BY <1>1, <2>4, <1>3 DEF CallUnderWay
    <3> QED BY <1>1, <1>3, <2>7, <3>2, <3>3, <3>4
  <2>8. ASSUME NEW o \in orders', NEW p \in orders', o # p, o.symbol = p.symbol,
               o.at <= p.at, p.at - o.at < Cooldown
        PROVE  {o.call, p.call} \cap blind # {}
    <3>1. CASE o \in orders /\ p \in orders
      BY <2>8, <3>1 DEF SpotInv, CoolingInv
    <3>2. CASE o \in orders /\ p = n
      BY <1>1, <2>7, <2>8, <3>2
    <3>3. CASE o = n /\ p \in orders
      BY <1>1, <2>7, <2>8, <3>3
    <3> QED BY <1>3, <2>8, <3>1, <3>2, <3>3
  <2> QED BY <1>3, <2>1, <2>2, <2>4, <2>5, <2>6, <2>8
<1>4. CASE Spot!Book
  <2>1. CASE UNCHANGED <<orders, free>> /\ \E o \in orders : o.call = call.call
    BY <1>2, <2>1
  <2>2. CASE ~(UNCHANGED <<orders, free>> /\ \E o \in orders : o.call = call.call)
    <3>1. PICK n \in [cid : (Nat \X {0}), call : Nat, symbol : SpotSymbols, at : Int] :
            /\ \A o \in orders : o.call # call.call
            /\ n.cid = <<n.call, 0>> /\ n.call = call.call
            /\ n.symbol = call.symbol /\ n.at = call.at
            /\ orders' = orders \cup {n} /\ free' = free - call.cost
      BY <1>4, <2>2, BookOnce
    <3> QED BY <1>3, <3>1
  <2> QED BY <2>1, <2>2
<1>5. CASE UNCHANGED <<orders, free>> /\ ~Spot!Book
  BY <1>2, <1>5
<1> QED BY <1>4, <1>5

\* Choosing, posting, losing, refusing and accepting keep the invariant.
LEMMA SpotStepKeeps ==
  ASSUME SpotInv, [Spot!Next]_spotVars
  PROVE  SpotInv'
<1>0. /\ calls \in Nat /\ orderClock \in Int /\ Cooldown \in Int /\ sent \in Int
      /\ IsFiniteSet(blind) /\ blind \subseteq 1 .. calls
      /\ IsFiniteSet(orders) /\ Cardinality(Heard) \in Nat
  <2>1. IsFiniteSet(Heard)
    BY FS_Subset DEF SpotInv, OrdersInv, Heard
  <2> QED BY <2>1, FS_CardinalityType, OrdersAssumption DEF OrdersAssumption, SpotInv, OrdersInv, Spot!SpotAssumption
<1>s. UNCHANGED <<connector, configured>> => Spot!SessionAsConfigured'
  BY DEF SpotInv, Spot!SessionAsConfigured
<1>1. CASE UNCHANGED spotVars
  BY <1>1, <1>0, <1>s, SpotFrame DEF spotVars, SpotInv
<1>2. ASSUME NEW u \in SpotUniverses, NEW id, Spot!Resolve(u, id)
      PROVE  SpotInv'
  BY <1>2, <1>0, ResolveKeeps, SpotFrame DEF SpotInv, Spot!Resolve
<1>3. CASE Spot!SelectUnsupported \/ Spot!Tick
  BY <1>3, <1>0, <1>s, SpotFrame DEF SpotInv, Spot!SelectUnsupported, Spot!Tick
<1>4. ASSUME NEW s \in SpotSymbols, NEW r \in SpotRules, NEW price \in SpotPrices,
             Spot!Select(s, r, price)
      PROVE  SpotInv'
  <2>1. PICK cost \in Int : cost = Spot!Amount(r, price) * price /\ cost <= free
    BY AmountAffordable DEF SpotInv, BalanceInv
  <2>2. /\ call = Spot!Idle /\ ~Spot!CoolingDown(s)
        /\ call' = [call |-> calls + 1, symbol |-> s, cost |-> cost, at |-> orderClock,
                    attempts |-> 0]
        /\ calls' = calls + 1
        /\ UNCHANGED <<connector, configured, orderClock, free, sent, tradedAt, orders, blind>>
    BY <1>4, <2>1 DEF Spot!Select
  <2>3. /\ call' \in CallUnderWay /\ call' # Spot!Idle /\ call'.call = calls + 1
        /\ call'.symbol = s /\ call'.cost = cost /\ call'.at = orderClock /\ call.call = 0
    BY <1>0, <2>2 DEF CallUnderWay, Spot!Idle
  <2>4. \A o \in orders : o.call \in 1 .. calls /\ o.call # calls + 1 /\ o.call # 0
    BY <1>0 DEF SpotInv, OrdersInv
  <2>5. OrdersInv'
    BY <1>0, <2>2, <2>3, <2>4 DEF SpotInv, OrdersInv
  <2>6. Heard' = Heard
    BY <2>2, <2>3, <2>4 DEF Heard
  <2>7. s \in DOMAIN tradedAt => orderClock - tradedAt[s] >= Cooldown
    BY <1>0, <2>2 DEF Spot!CoolingDown, SpotInv, CoolingInv
  <2>8. CoolingInv'
    BY <1>0, <2>2, <2>3, <2>6, <2>7 DEF SpotInv, CoolingInv
  <2>9. BalanceInv'
    BY <2>1, <2>2, <2>3 DEF SpotInv, BalanceInv
  <2> QED BY <1>s, <2>2, <2>5, <2>8, <2>9 DEF SpotInv
<1>5. ASSUME call # Spot!Idle, Spot!Book \/ UNCHANGED <<orders, free>>,
             call' = Spot!Idle, blind' = blind \cup {call.call},
             UNCHANGED <<connector, configured, orderClock, sent, tradedAt, calls>>
      PROVE  SpotInv'
  <2>1. call.call \in 1 .. calls
    BY <1>5, <1>0 DEF SpotInv, OrdersInv, CallUnderWay
  <2>2. IsFiniteSet(blind') /\ blind' \subseteq 1 .. calls /\ call'.call = 0
    BY <1>5, <1>0, <2>1, FS_AddElement DEF Spot!Idle
  <2>3. OrdersInv'
    BY <1>5, <1>0, <2>2, Requested DEF OrdersInv
  <2>4. Heard' = Heard
    BY <1>5, <2>2, <2>3, Requested DEF Heard, OrdersInv
  <2>5. CoolingInv'
    BY <1>5, <2>4, Requested DEF SpotInv, CoolingInv
  <2>6. BalanceInv'
    BY <1>5, Requested DEF BalanceInv
  <2> QED BY <1>s, <1>5, <2>3, <2>5, <2>6 DEF SpotInv
<1>6. CASE Spot!Raised
  BY <1>5, <1>6 DEF Spot!Raised, Spot!Posting
<1>7. CASE Spot!Lost
  <2>1. call # Spot!Idle /\ (Spot!Book \/ UNCHANGED <<orders, free>>)
        /\ UNCHANGED <<connector, configured, orderClock, sent, tradedAt, calls>>
    BY <1>7 DEF Spot!Lost, Spot!Posting
  <2>2. CASE call' = Spot!Idle /\ blind' = blind \cup {call.call}
    BY <1>5, <2>1, <2>2
  <2>3. CASE call' = [call EXCEPT !.attempts = @ + 1] /\ blind' = blind
    <3>1. call \in CallUnderWay
      BY <2>1 DEF SpotInv, OrdersInv
    <3>2. /\ call' \in CallUnderWay /\ call'.call = call.call /\ call'.symbol = call.symbol
          /\ call'.at = call.at /\ call'.cost = call.cost
      BY <2>3, <3>1 DEF CallUnderWay
    <3>3. OrdersInv'
      BY <1>0, <2>1, <2>3, <3>2, Requested DEF SpotInv, OrdersInv
    <3>4. Heard' = Heard
      BY <2>1, <2>3, <3>2, Requested DEF Heard
    <3>5. CoolingInv'
      BY <2>1, <2>3, <3>2, <3>4, Requested DEF SpotInv, CoolingInv
    <3>6. BalanceInv'
      BY <2>1, <3>2, Requested DEF BalanceInv
    <3> QED BY <1>s, <2>1, <3>3, <3>5, <3>6 DEF SpotInv
  <2> QED BY <1>7, <2>2, <2>3 DEF Spot!Lost
<1>8. CASE Spot!Accepted
  <2>1. /\ call # Spot!Idle /\ Spot!Book /\ sent' = sent + 1 /\ call' = Spot!Idle
        /\ tradedAt' = [s \in DOMAIN tradedAt \cup {call.symbol} |->
                          IF s = call.symbol THEN call.at ELSE tradedAt[s]]
        /\ UNCHANGED <<connector, configured, orderClock, calls, blind>>
    BY <1>8 DEF Spot!Accepted, Spot!Posting
  <2>2. call \in CallUnderWay /\ call'.call = 0 /\ call.at = orderClock /\ call.call \notin blind
    BY <2>1 DEF SpotInv, OrdersInv, CoolingInv, Spot!Idle
  <2>3. OrdersInv'
    BY <1>0, <2>1, <2>2, Requested DEF SpotInv, OrdersInv
  <2>4. PICK n \in orders' : n.call = call.call
    BY <2>1, Requested
  <2>5. Heard' = Heard \cup {n}
    <3>1. \A o \in orders' : o.call # 0 /\ (o.call = call.call => o = n)
      BY <2>1, <2>4, Requested
    <3>2. Heard' = {o \in orders' : o.call \notin blind}
      BY <2>1, <2>2, <3>1 DEF Heard
    <3>3. {o \in orders' : o.call \notin blind \cup {call.call}} = Heard
      BY <2>1, Requested
    <3> QED BY <2>2, <2>4, <3>1, <3>2, <3>3
  <2>6. Cardinality(Heard') <= sent'
    <3>1. IsFiniteSet(Heard)
      BY <1>0, FS_Subset DEF Heard
    <3>2. Cardinality(Heard') <= Cardinality(Heard) + 1
      <4>1. Cardinality(Heard \cup {n}) =
              IF n \in Heard THEN Cardinality(Heard) ELSE Cardinality(Heard) + 1
        BY <3>1, FS_AddElement
      <4>2. Cardinality(Heard') = Cardinality(Heard \cup {n})
        BY <2>5, Zenon
      <4> QED BY <1>0, <4>1, <4>2
    <3>3. Cardinality(Heard) <= sent
      BY DEF SpotInv, CoolingInv
    <3>4. Cardinality(Heard') \in Nat
      BY <2>5, <3>1, FS_AddElement, FS_CardinalityType
    <3> QED BY <1>0, <2>1, <3>2, <3>3, <3>4
  <2>7. /\ \A s \in DOMAIN tradedAt' : tradedAt'[s] \in Int /\ tradedAt'[s] <= orderClock'
        /\ \A s \in DOMAIN tradedAt : s \in DOMAIN tradedAt' /\ tradedAt[s] <= tradedAt'[s]
        /\ call.symbol \in DOMAIN tradedAt' /\ tradedAt'[call.symbol] = call.at
    BY <1>0, <2>1, <2>2 DEF SpotInv, CoolingInv
  <2>8. \A o \in Heard' : o.symbol \in DOMAIN tradedAt' /\ o.at <= tradedAt'[o.symbol]
    <3>1. n.symbol = call.symbol /\ n.at = call.at /\ n.at \in Int
      BY <2>1, <2>4, Requested
    <3>2. ASSUME NEW o \in Heard
          PROVE  o.symbol \in DOMAIN tradedAt' /\ o.at <= tradedAt'[o.symbol]
      <4>1. /\ o.symbol \in DOMAIN tradedAt /\ o.at <= tradedAt[o.symbol]
            /\ tradedAt[o.symbol] \in Int
        BY <3>2 DEF SpotInv, CoolingInv
      <4>2. o.at \in Int
        BY <3>2 DEF SpotInv, OrdersInv, Heard
      <4>3. o.symbol \in DOMAIN tradedAt' /\ tradedAt[o.symbol] <= tradedAt'[o.symbol]
            /\ tradedAt'[o.symbol] \in Int
        BY <2>7, <4>1
      <4> QED BY <4>1, <4>2, <4>3
    <3> QED BY <2>5, <2>7, <3>1, <3>2
  <2>9. CoolingInv'
    BY <2>1, <2>6, <2>7, <2>8, Requested DEF CoolingInv
  <2>10. BalanceInv'
    BY <2>1, Requested DEF BalanceInv
  <2> QED BY <1>s, <2>1, <2>3, <2>9, <2>10 DEF SpotInv
<1> QED BY <1>1, <1>2, <1>3, <1>4, <1>6, <1>7, <1>8 DEF Spot!Next

\* Orders beyond the counter are those of calls that raised or are under way:
\* they map one to one to such calls.
LEMMA SpotInvSafe == SpotInv => Spot!Safe
<1> SUFFICES ASSUME SpotInv PROVE Spot!Safe
  OBVIOUS
<1>1. Spot!OneOrderPerCall /\ Spot!NeverOverspends
  BY DEF Spot!OneOrderPerCall, Spot!NeverOverspends, SpotInv, OrdersInv, BalanceInv
<1> DEFINE open == (blind \cup {call.call}) \ {0}
           Rest == orders \ Heard
<1>2. IsFiniteSet(open) /\ Cardinality(open) \in Nat
  <2>1. IsFiniteSet(blind \cup {call.call})
    BY FS_AddElement DEF SpotInv, OrdersInv
  <2> QED BY <2>1, FS_RemoveElement, FS_CardinalityType
<1>3. IsFiniteSet(Heard) /\ IsFiniteSet(Rest) /\ IsFiniteSet(orders) /\ orders = Heard \cup Rest
  BY FS_Subset DEF SpotInv, OrdersInv, Heard
<1>4. Cardinality(Rest) <= Cardinality(open)
  <2> DEFINE f == [o \in Rest |-> o.call]
  <2>1. \A o \in Rest : o.call \in open
    BY DEF Heard, SpotInv, OrdersInv
  <2>2. \A o, p \in Rest : o.call = p.call => o = p
    BY DEF SpotInv, OrdersInv
  <2> HIDE DEF open, Rest
  <2>3. f \in Injection(Rest, open)
    BY <2>1, <2>2 DEF Injection, IsInjective
  <2> QED BY <1>2, <2>3, FS_Injection
<1>5. Cardinality(orders) <= Cardinality(Heard) + Cardinality(Rest)
  <2> HIDE DEF Rest
  <2>1. Cardinality(Heard \cup Rest) =
          Cardinality(Heard) + Cardinality(Rest) - Cardinality(Heard \cap Rest)
    BY <1>3, FS_Union
  <2>2. /\ Cardinality(Heard) \in Nat /\ Cardinality(Rest) \in Nat
        /\ Cardinality(Heard \cap Rest) \in Nat
    BY <1>3, FS_CardinalityType, FS_Intersection
  <2>3. Cardinality(orders) = Cardinality(Heard \cup Rest)
    BY <1>3
  <2> QED BY <2>1, <2>2, <2>3
<1>6. Cardinality(orders) <= sent + Cardinality(open)
  <2>1. Cardinality(Heard) <= sent /\ sent \in Int
    BY DEF SpotInv, OrdersInv, CoolingInv
  <2>2. Cardinality(Heard) \in Nat /\ Cardinality(Rest) \in Nat /\ Cardinality(orders) \in Nat
    BY <1>3, FS_CardinalityType
  <2> HIDE DEF open, Rest
  <2> QED BY <1>2, <1>4, <1>5, <2>1, <2>2
<1>7. /\ Spot!Cardinality(orders) = Cardinality(orders)
      /\ Spot!Cardinality(open) = Cardinality(open)
  BY DEF Spot!Cardinality, Cardinality
<1>8. Spot!LimitsUpToBlindCalls
  BY <1>6, <1>7 DEF Spot!LimitsUpToBlindCalls, SpotInv, CoolingInv
<1> QED BY <1>1, <1>8 DEF Spot!Safe, SpotInv

---------------------------------------------------------------------------
(* The Bitunix clients                                                     *)

CommandUnderWay == [id : Nat, kind : Bitunix!Kinds, rule : BitunixRules \cup {Bitunix!Unlisted,
                    Bitunix!Fabricated}, posted : {0, 1}, synced : SUBSET Int]

\* The command under way is the last one and has no order yet; an offset set
\* for it is less than a second from the skew it was set at.
BitunixInv ==
  /\ tried \in Nat /\ skew \in Int
  /\ command \in CommandUnderWay \cup {Bitunix!Idle}
  /\ command # Bitunix!Idle =>
       /\ command.id = tried /\ tried > 0
       /\ \A o \in booked : o.id # tried
       /\ command.kind = "spot" => \A s \in command.synced : offset \in {s, s - 1}
       /\ command.kind = "futures" => command.synced = {}
  /\ \A o \in booked : o.id \in 1 .. tried
  /\ Bitunix!OneOrderPerCommand
  /\ listing \in listed /\ listed \subseteq BitunixRules \cup {Bitunix!Unlisted}
  /\ Bitunix!CatalogIsTheExchanges
  /\ Bitunix!ReportsTheirOwn /\ Bitunix!SyncSuffices

\* Before the first command nothing is booked, cached or told.
LEMMA InitBitunix == Bitunix!Init => BitunixInv
BY DEF Bitunix!Init, BitunixInv, Bitunix!OneOrderPerCommand, Bitunix!CatalogIsTheExchanges,
   Bitunix!ReportsTheirOwn, Bitunix!SyncSuffices

\* What the command under way may have booked when it is told the outcome.
LEMMA ToldKeeps ==
  ASSUME BitunixInv, command # Bitunix!Idle, Bitunix!Book \/ UNCHANGED booked,
         NEW text, Bitunix!Told(text), text \notin {"misnamed", "late"},
         text = "ok" => Bitunix!Book,
         UNCHANGED <<listing, skew, listed, catalog, offset, tried>>
  PROVE  BitunixInv'
<1>1. command.id = tried /\ tried \in Nat \ {0} /\ \A o \in booked : o.id # tried
  BY DEF BitunixInv
<1>2. /\ \A o \in booked' : o.id \in 1 .. tried
      /\ \A o, p \in booked' : o.id = p.id => o = p
      /\ booked \subseteq booked'
      /\ Bitunix!Book => \E o \in booked' : o.id = tried
  <2>1. /\ \A o \in booked : o.id \in 1 .. tried
        /\ \A o, p \in booked : o.id = p.id => o = p
    BY DEF BitunixInv, Bitunix!OneOrderPerCommand
  <2>2. CASE Bitunix!Book
    <3>1. PICK n : n.id = tried /\ booked' = booked \cup {n}
      BY <1>1, <2>2 DEF Bitunix!Book
    <3> QED BY <1>1, <2>1, <3>1
  <2>3. CASE UNCHANGED booked /\ ~Bitunix!Book
    BY <2>1, <2>3
  <2> QED BY <2>2, <2>3
<1>3. /\ DOMAIN outcome' = DOMAIN outcome \cup {tried} /\ outcome'[tried] = text
      /\ \A c \in DOMAIN outcome : c = tried \/ outcome'[c] = outcome[c]
      /\ command' = Bitunix!Idle
  BY <1>1 DEF Bitunix!Told
<1>4. Bitunix!ReportsTheirOwn'
  BY <1>2, <1>3 DEF BitunixInv, Bitunix!ReportsTheirOwn
<1>5. Bitunix!SyncSuffices'
  BY <1>3 DEF BitunixInv, Bitunix!SyncSuffices
<1>6. Bitunix!CatalogIsTheExchanges' /\ Bitunix!OneOrderPerCommand'
  BY <1>2 DEF BitunixInv, Bitunix!CatalogIsTheExchanges, Bitunix!OneOrderPerCommand
<1> QED BY <1>1, <1>2, <1>3, <1>4, <1>5, <1>6 DEF BitunixInv

\* Between commands only the exchange and what the client keeps may move.
LEMMA CatalogKeeps ==
  ASSUME BitunixInv, UNCHANGED <<booked, tried, outcome, command>>,
         offset' = offset \/ command = Bitunix!Idle,
         skew' \in Int, listing' \in listed', listed \subseteq listed',
         listed' \subseteq BitunixRules \cup {Bitunix!Unlisted},
         catalog' \in {catalog, listing, Bitunix!NotLoaded}
  PROVE  BitunixInv'
<1>1. Bitunix!CatalogIsTheExchanges'
  BY DEF BitunixInv, Bitunix!CatalogIsTheExchanges
<1>2. Bitunix!ReportsTheirOwn' /\ Bitunix!SyncSuffices' /\ Bitunix!OneOrderPerCommand'
  BY DEF BitunixInv, Bitunix!ReportsTheirOwn, Bitunix!SyncSuffices, Bitunix!OneOrderPerCommand
<1> QED BY <1>1, <1>2 DEF BitunixInv

\* No command, reply, listing or clock change disturbs the invariant.
LEMMA BitunixStepKeeps ==
  ASSUME BitunixInv, [Bitunix!Next]_bitunixVars
  PROVE  BitunixInv'
<1>0. /\ tried \in Nat /\ skew \in Int /\ listing \in listed /\ ClockSkews \subseteq Int
      /\ Tolerance \in Int /\ Tolerance >= 1
      /\ listed \subseteq BitunixRules \cup {Bitunix!Unlisted}
  BY OrdersAssumption DEF OrdersAssumption, BitunixInv, Bitunix!BitunixAssumption
<1>1. CASE UNCHANGED bitunixVars
  BY <1>1, <1>0, CatalogKeeps DEF bitunixVars
<1>2. ASSUME NEW rule \in BitunixRules \cup {Bitunix!Unlisted}, Bitunix!Relist(rule)
      PROVE  BitunixInv'
  BY <1>2, <1>0, CatalogKeeps DEF Bitunix!Relist
<1>3. ASSUME NEW seconds \in ClockSkews, Bitunix!Drift(seconds)
      PROVE  BitunixInv'
  BY <1>3, <1>0, CatalogKeeps DEF Bitunix!Drift
<1>4. CASE Bitunix!LoadMarkets \/ Bitunix!Restart
  <2>1. catalog' \in {catalog, listing, Bitunix!NotLoaded}
    BY <1>4 DEF Bitunix!LoadMarkets, Bitunix!Restart, Bitunix!CacheAfter
  <2>2. /\ command = Bitunix!Idle
        /\ UNCHANGED <<listing, skew, listed, booked, command, tried, outcome>>
    BY <1>4 DEF Bitunix!LoadMarkets, Bitunix!Restart
  <2> QED BY <1>0, <2>1, <2>2, CatalogKeeps
\* A command that begins has booked nothing.
<1>5. ASSUME NEW c \in CommandUnderWay, c.id = tried + 1, c.synced = {},
             command' = c, tried' = tried + 1, catalog' \in {catalog, listing},
             UNCHANGED <<listing, skew, listed, booked, offset, outcome>>
      PROVE  BitunixInv'
  <2>1. \A o \in booked : o.id \in 1 .. tried' /\ o.id # tried'
    BY <1>5, <1>0 DEF BitunixInv
  <2>2. Bitunix!CatalogIsTheExchanges'
    BY <1>5, <1>0 DEF BitunixInv, Bitunix!CatalogIsTheExchanges
  <2>3. Bitunix!ReportsTheirOwn' /\ Bitunix!SyncSuffices' /\ Bitunix!OneOrderPerCommand'
    BY <1>5 DEF BitunixInv, Bitunix!ReportsTheirOwn, Bitunix!SyncSuffices,
       Bitunix!OneOrderPerCommand
  <2> QED BY <1>5, <1>0, <2>1, <2>2, <2>3 DEF BitunixInv
<1>6. ASSUME NEW answered \in BOOLEAN, Bitunix!BeginSpot(answered)
      PROVE  BitunixInv'
  <2>1. /\ catalog' \in {catalog, listing} /\ catalog' = Bitunix!CacheAfter(answered)
        /\ catalog' \in BitunixRules \cup {Bitunix!Unlisted, Bitunix!NotLoaded}
    BY <1>6, <1>0 DEF Bitunix!BeginSpot, Bitunix!CacheAfter, BitunixInv,
       Bitunix!CatalogIsTheExchanges
  <2>2. Bitunix!RuleAfter(answered) \in BitunixRules \cup {Bitunix!Unlisted, Bitunix!Fabricated}
    BY <2>1 DEF Bitunix!RuleAfter
  <2>3. PICK c \in CommandUnderWay :
          /\ c.id = tried + 1 /\ c.synced = {} /\ command' = c /\ c.kind = "spot"
    BY <1>6, <1>0, <2>2 DEF Bitunix!BeginSpot, CommandUnderWay, Bitunix!Kinds
  <2>4. tried' = tried + 1 /\ UNCHANGED <<listing, skew, listed, booked, offset, outcome>>
    BY <1>6 DEF Bitunix!BeginSpot
  <2> QED BY <1>5, <2>1, <2>3, <2>4
<1>7. CASE Bitunix!BeginFutures
  <2>1. PICK c \in CommandUnderWay : c.id = tried + 1 /\ c.synced = {} /\ command' = c
    BY <1>7, <1>0 DEF Bitunix!BeginFutures, CommandUnderWay, Bitunix!Kinds
  <2> QED BY <1>5, <1>7, <2>1 DEF Bitunix!BeginFutures
<1>8. CASE Bitunix!Accepted
  BY <1>8, ToldKeeps DEF Bitunix!Accepted, Bitunix!Under
<1>9. CASE Bitunix!Failed
  BY <1>9, ToldKeeps DEF Bitunix!Failed, Bitunix!Under
<1>10. CASE Bitunix!FuturesFailed
  BY <1>10, ToldKeeps DEF Bitunix!FuturesFailed, Bitunix!Under
\* A reply that names another order echoes that order's identifier.
<1>11. ASSUME NEW reply \in [order : 0 .. MaxCommands, echo : 0 .. MaxCommands],
              NEW known \in BOOLEAN, Bitunix!FuturesReply(reply, known)
       PROVE  BitunixInv'
  <2>1. Bitunix!Names(reply) => reply.order = command.id
    BY <1>11 DEF Bitunix!FuturesReply, Bitunix!Names
  <2>2. \E text \in {"failed", "ok"} : Bitunix!Told(text)
    BY <1>11, <2>1 DEF Bitunix!FuturesReply
  <2> QED BY <1>11, <2>2, ToldKeeps DEF Bitunix!FuturesReply, Bitunix!Under
\* A dated sync sets the offset to the skew or to a second less.
<1>12. ASSUME NEW error \in {0, 1}, NEW dated \in BOOLEAN, Bitunix!Resync(error, dated)
       PROVE  BitunixInv'
  <2>1. /\ command \in CommandUnderWay /\ command.kind = "spot" /\ command # Bitunix!Idle
        /\ offset' = IF dated THEN skew - error ELSE 0
        /\ command' = [command EXCEPT !.posted = 1, !.synced = IF dated THEN {skew} ELSE {}]
        /\ UNCHANGED <<listing, skew, listed, booked, catalog, tried, outcome>>
    BY <1>12 DEF Bitunix!Resync, Bitunix!Under, BitunixInv, Bitunix!OffsetFrom
  <2>2. /\ command' \in CommandUnderWay /\ command'.id = command.id
        /\ command'.kind = "spot" /\ command'.synced = IF dated THEN {skew} ELSE {}
    BY <1>0, <2>1 DEF CommandUnderWay
  <2>3. \A s \in command'.synced : offset' \in {s, s - 1}
    BY <1>0, <2>1, <2>2
  <2>4. Bitunix!CatalogIsTheExchanges'
    BY <2>1 DEF BitunixInv, Bitunix!CatalogIsTheExchanges
  <2>5. Bitunix!ReportsTheirOwn' /\ Bitunix!SyncSuffices' /\ Bitunix!OneOrderPerCommand'
    BY <2>1 DEF BitunixInv, Bitunix!ReportsTheirOwn, Bitunix!SyncSuffices,
       Bitunix!OneOrderPerCommand
  <2> QED BY <1>0, <2>1, <2>2, <2>3, <2>4, <2>5 DEF BitunixInv
\* An offset that fits the clock is never too far off.
<1>13. CASE Bitunix!RefusedForTime
  <2>1. /\ command # Bitunix!Idle /\ command.kind = "spot" /\ Bitunix!TooFarOff
        /\ UNCHANGED <<listing, skew, listed, booked, catalog, offset, tried>>
    BY <1>13 DEF Bitunix!RefusedForTime, Bitunix!Under
  <2>2. skew \notin command.synced
    <3> SUFFICES ASSUME skew \in command.synced PROVE FALSE
      OBVIOUS
    <3>1. offset \in {skew, skew - 1}
      BY <2>1 DEF BitunixInv
    <3>2. Bitunix!Distance(skew, offset) \in {0, 1}
      BY <1>0, <3>1 DEF Bitunix!Distance
    <3> QED BY <1>0, <2>1, <3>2 DEF Bitunix!TooFarOff
  <2>3. Bitunix!Told("failed")
    BY <1>13, <2>2 DEF Bitunix!RefusedForTime
  <2> QED BY <2>1, <2>3, ToldKeeps
<1> QED BY <1>1, <1>2, <1>3, <1>4, <1>6, <1>7, <1>8, <1>9, <1>10, <1>11, <1>12, <1>13
    DEF Bitunix!Next

\* The invariant is the promise with what it rests on.
LEMMA BitunixInvSafe == BitunixInv => Bitunix!Safe
BY DEF BitunixInv, Bitunix!Safe

---------------------------------------------------------------------------
(* The theorems of the run                                                 *)

\* Another component's step, or none, leaves a component's variables alone.
LEMMA PartsStep ==
  ASSUME [Next]_vars
  PROVE  /\ [Switch!Next]_switchVars
         /\ [Levels!Next]_levelsVars
         /\ [Files!Next]_filesVars
         /\ [Ledger!Next]_ledgerVars
         /\ [Audit!Next]_auditVars
         /\ [Portfolio!Next]_portfolioVars
         /\ [Spot!Next]_spotVars
         /\ [Selector!Next]_selectorVars
         /\ [Readiness!Next]_readinessVars
         /\ [Parity!Next]_parityVars
         /\ [Scan!Next]_scanVars
         /\ [Quota!Next]_quotaVars
         /\ [Feed!Next]_feedVars
         /\ [Routing!Next]_routingVars
         /\ [Bitunix!Next]_bitunixVars
         /\ [Alpha!Next]_familiesVars
<1>1. CASE UNCHANGED vars
  BY <1>1 DEF vars
<1>2. CASE SwitchStep
  BY <1>2 DEF SwitchStep, Others
<1>3. CASE LevelsStep
  BY <1>3 DEF LevelsStep, Others
<1>4. CASE FilesStep
  BY <1>4 DEF FilesStep, Others
<1>5. CASE LedgerStep
  BY <1>5 DEF LedgerStep, Others
<1>6. CASE AuditStep
  BY <1>6 DEF AuditStep, Others
<1>7. CASE PortfolioStep
  BY <1>7 DEF PortfolioStep, Others
<1>8. CASE SpotStep
  BY <1>8 DEF SpotStep, Others
<1>9. CASE SelectorStep
  BY <1>9 DEF SelectorStep, Others
<1>10. CASE ReadinessStep
  BY <1>10 DEF ReadinessStep, Others
<1>11. CASE ParityStep
  BY <1>11 DEF ParityStep, Others
<1>12. CASE ScanStep
  BY <1>12 DEF ScanStep, Others
<1>13. CASE QuotaStep
  BY <1>13 DEF QuotaStep, Others
<1>14. CASE FeedStep
  BY <1>14 DEF FeedStep, Others
<1>15. CASE RoutingStep
  BY <1>15 DEF RoutingStep, Others
<1>16. CASE BitunixStep
  BY <1>16 DEF BitunixStep, Others
<1>17. CASE FamiliesStep
  BY <1>17 DEF FamiliesStep, Others
<1> QED BY <1>1, <1>2, <1>3, <1>4, <1>5, <1>6, <1>7, <1>8, <1>9,
       <1>10, <1>11, <1>12, <1>13, <1>14, <1>15, <1>16, <1>17 DEF Next

\* Deactivating, resetting or winning evades no drawdown limit; alarms only
\* take trading rights away, and a halted switch is left by a named decision.
THEOREM SwitchesSafe == Spec => []SwitchesHold
<1>1. Init => SwitchInv /\ LevelsInv
  BY InitSwitch, InitLevels DEF Init
<1>2. SwitchInv /\ LevelsInv /\ [Next]_vars => (SwitchInv /\ LevelsInv)'
  BY PartsStep, SwitchStepKeeps, LevelsStepKeeps
<1>3. SwitchInv /\ LevelsInv => SwitchesHold
  BY SwitchInvSafe DEF LevelsInv, SwitchesHold
<1> QED BY <1>1, <1>2, <1>3, PTL DEF Spec

(* No crash between the two writes of a paper trade loses a recorded trade *)
(* or reopens an exit, and no file of one is removed, for any number of    *)
(* trades and crashes (paper/trade_journal.py).                            *)
THEOREM TradesKept == Spec => []TradesSurviveCrashes
<1>1. Init => FilesInv
  BY InitFiles DEF Init
<1>2. FilesInv /\ [Next]_vars => FilesInv'
  BY PartsStep, FilesStepKeeps
<1>3. FilesInv => TradesSurviveCrashes
  BY FilesInvSafe DEF TradesSurviveCrashes
<1> QED BY <1>1, <1>2, <1>3, PTL DEF Spec

\* The rows and the positions agree in every reachable state.
LEMMA RowsAlwaysAgree == Spec => []LedgerInv
<1>1. Init => LedgerInv
  BY InitLedger DEF Init
<1>2. LedgerInv /\ [Next]_vars => LedgerInv'
  BY PartsStep, LedgerStepKeeps
<1> QED BY <1>1, <1>2, PTL DEF Spec

(* No reconciliation writes off a position the broker holds, no two        *)
(* openings get one identifier, and the recovery report names every open   *)
(* trade once, over any restarts (observability/journal.py,                *)
(* paper/reconciliation.py, paper/startup_recovery.py).                    *)
THEOREM LivePositionsKept == Spec => []Ledger!Safe
  BY RowsAlwaysAgree, LedgerInvSafe, PTL

(* The journal and its audit agree: reconciliation is right about what is  *)
(* live, the entry decisions are the newest there are, what a win rate     *)
(* counts is what it lists, breakdowns add up, and an alarm over all has   *)
(* its cause in a group (observability/journal.py).                        *)
THEOREM LedgerHolds == Spec => []LedgerAgrees
<1>1. Init => AuditInv
  BY InitAudit DEF Init
<1>2. AuditInv /\ [Next]_vars => AuditInv'
  BY PartsStep, AuditStepKeeps
<1>3. AuditInv => Audit!Safe
  BY AuditInvSafe
<1> QED BY <1>1, <1>2, <1>3, LivePositionsKept, PTL DEF Spec, LedgerAgrees

(* A row is closed once and for all, and a reconciliation that finds       *)
(* orphans leaves fewer of them (observability/journal.py,                 *)
(* paper/reconciliation.py).                                               *)
THEOREM RowsStayClosed == Spec => ClosedForGood
<1> DEFINE Once ==
      /\ \A t \in DOMAIN rows : rows[t].state # "open" => rows'[t] = rows[t]
      /\ Ledger!Reconcile /\ Ledger!Orphans # {} =>
           Ledger!Cardinality(Ledger!Orphans') < Ledger!Cardinality(Ledger!Orphans)
<1>1. LedgerInv /\ [Next]_vars => [Once]_ledgerVars
  <2> SUFFICES ASSUME LedgerInv, [Next]_vars PROVE Once
    OBVIOUS
  <2>1. \A t \in DOMAIN rows : rows[t].state # "open" => rows'[t] = rows[t]
    BY PartsStep, RowsClosedOnce
  <2>2. Ledger!Reconcile /\ Ledger!Orphans # {} =>
          Ledger!Cardinality(Ledger!Orphans') < Ledger!Cardinality(Ledger!Orphans)
    BY OrphansDwindle DEF Ledger!Cardinality, Cardinality
  <2> QED BY <2>1, <2>2
<1> QED BY <1>1, RowsAlwaysAgree, PTL DEF Spec, ClosedForGood, Ledger!ClosedForGood, ledgerVars,
           Ledger!ledgerVars

\* Nothing goes live or active on settings, files or restarts that did not arm
\* it: an active strategy was ready or deactivated once, a live process runs on
\* settings that confirm it, and a report that passes is about consistent ones.
THEOREM NothingGoesLiveUnarmed == Spec => []NothingArmsItself
<1>1. Init => SelectorInv /\ ReadinessInv
  BY InitSelector, InitReadiness DEF Init
<1>2. SelectorInv /\ ReadinessInv /\ [Next]_vars => (SelectorInv /\ ReadinessInv)'
  BY PartsStep, SelectorStepKeeps, ReadinessStepKeeps
<1>3. SelectorInv /\ ReadinessInv => NothingArmsItself
  BY SelectorInvSafe, ReadinessInvSafe DEF NothingArmsItself
<1> QED BY <1>1, <1>2, <1>3, PTL DEF Spec

\* The orders of every component stay within what the user allowed: exposure
\* and losses of the paper portfolio, the session cap, cooldown and balance of
\* the spot loop up to the calls that raised, and one order per command.
THEOREM OrdersKeepLimits == Spec => []OrdersWithinLimits
<1> DEFINE Inv == PortfolioInv /\ SpotInv /\ BitunixInv
<1>1. Init => Inv
  BY InitPortfolio, InitSpot, InitBitunix DEF Init
<1>2. Inv /\ [Next]_vars => Inv'
  BY PartsStep, PortfolioStepKeeps, SpotStepKeeps, BitunixStepKeeps
<1>3. Inv => OrdersWithinLimits
  BY PortfolioInvSafe, SpotInvSafe, BitunixInvSafe DEF OrdersWithinLimits
<1> QED BY <1>1, <1>2, <1>3, PTL DEF Spec

(* No window of a provider's requests goes over its capacity, whatever the *)
(* arrivals, the costs and the order the evictions ran in, and the wait    *)
(* the limiter asks for is one after which the request fits                *)
(* (market_data/quota.py).                                                 *)
THEOREM ReadsKeepTheQuota == Spec => []Quota!Safe
<1>1. Init => QuotaInv
  BY InitQuota DEF Init
<1>2. QuotaInv /\ [Next]_vars => QuotaInv'
  BY PartsStep, QuotaStepKeeps
<1>3. QuotaInv => Quota!Safe
  BY QuotaInvSafe
<1> QED BY <1>1, <1>2, <1>3, PTL DEF Spec

(* The market data handed on is what it says: every pair of a scan is       *)
(* accounted for in the order of the universe and judged on one reading,   *)
(* nothing passes live that would not pass elsewhere, a candle handed on   *)
(* as complete is closed and whole, stored once per opening time, and no   *)
(* window of reads goes over its quota (scanner/, market_data/,            *)
(* storage/ohlcv_store.py).                                                *)
THEOREM MarketDataHolds == Spec => []MarketDataIsHonest
<1> DEFINE Inv == ScanInv /\ QuotaInv /\ FeedInv
<1>1. Init => Inv
  BY InitScan, InitQuota, InitFeed DEF Init
<1>2. Inv /\ [Next]_vars => Inv'
  BY PartsStep, ScanStepKeeps, QuotaStepKeeps, FeedStepKeeps
<1>3. Inv => MarketDataIsHonest
  BY ScanInvSafe, QuotaInvSafe, FeedInvSafe DEF MarketDataIsHonest
<1> QED BY <1>1, <1>2, <1>3, PTL DEF Spec

(* What the components that decide promise: a route is the earliest of the *)
(* best strategies on a context a replay rebuilds, the engine's labels     *)
(* exclude one another, a family proposes one well-formed trade, turned    *)
(* round when the market is, and a parity report that passes is about the  *)
(* same signals (research/strategy_router.py, research/regime.py,          *)
(* research/asset_intelligence, research/alpha_families,                   *)
(* paper/parity_gate.py).                                                  *)
THEOREM DecisionsAreSound == Spec => []DecisionsHold
<1> DEFINE Inv == RoutingInv /\ AlphaInv /\ ParityInv
<1>1. Init => Inv
  BY InitRouting, InitFamilies, InitParity DEF Init
<1>2. Inv /\ [Next]_vars => Inv'
  BY PartsStep, RoutingStepKeeps, FamiliesStepKeeps, ParityStepKeeps
<1>3. Inv => DecisionsHold
  BY RoutingInvSafe, AlphaInvSafe, ParityInvSafe DEF DecisionsHold
<1> QED BY <1>1, <1>2, <1>3, PTL DEF Spec

=============================================================================
