--------------------------- MODULE ResearchProofs ---------------------------
(***************************************************************************)
(* Theorems about the campaigns over the experiment registry, about the    *)
(* confirmation of a frozen candidate with the gates behind it, and about  *)
(* what research reads: event stores, candle series and downloads.  They   *)
(* hold for every value of the constants MCResearch leaves open: any       *)
(* campaigns, periods and metrics, any events, series and pages.           *)
(***************************************************************************)
EXTENDS MCResearch, Induction, TLAPS

---------------------------------------------------------------------------
(* Campaigns over the experiment registry                                  *)

\* No bar is in both windows.
Apart(v, w) == Campaign!Bars(v) \cap Campaign!Bars(w) = {}

\* What is granted is apart from what was consumed before and from what the
\* campaign has reported on; a report was consumed for, and the reports of a
\* campaign are apart from one another.
GrantsInv ==
  /\ DOMAIN granted = Campaigns /\ DOMAIN status = Campaigns
  /\ consumed \subseteq Campaign!Ids \X Periods
  /\ DOMAIN reports \subseteq DOMAIN experiments
  /\ \A c \in Campaigns : \A g \in granted[c] :
       /\ g.window \in Periods
       /\ \A p \in g.before : Apart(g.window, p)
       /\ \A f \in Campaign!Phases : <<c, f>> \in DOMAIN reports =>
            Apart(g.window, reports[<<c, f>>].window)
  /\ \A i \in DOMAIN reports :
       reports[i].window \in Periods /\ <<i, reports[i].window>> \in consumed
  /\ \A c \in Campaigns :
       {<<c, "DISC">>, <<c, "CONF">>} \subseteq DOMAIN reports =>
         Apart(reports[<<c, "DISC">>].window, reports[<<c, "CONF">>].window)
  /\ \A c \in Campaigns : status[c] = "CONFIRMED" =>
       \A f \in Campaign!Phases : <<c, f>> \in DOMAIN reports /\ reports[<<c, f>>].passed

\* The registry's rows.
Experiment ==
  [status : Campaign!Statuses, hash : Hashes \cup {Campaign!Pending}, results : SUBSET Metrics]
RowsInv == experiments \in [DOMAIN experiments -> Experiment]

CampaignInv == RowsInv /\ GrantsInv /\ Campaign!VerdictsArePaidFor

\* What one update does to the registry.
LEMMA Updated ==
  ASSUME NEW exps, exps \in [DOMAIN exps -> Experiment], NEW i \in DOMAIN exps,
         NEW new \in Campaign!Statuses, NEW found \in SUBSET Metrics,
         NEW after, after = Campaign!UpdateStatus(exps, i, new, found)
  PROVE  /\ after \in [DOMAIN exps -> Experiment]
         /\ after[i].status = new /\ after[i].results = found
         /\ \A j \in DOMAIN exps : j # i => after[j] = exps[j]
<1> DEFINE mid == [exps EXCEPT ![i].status = new]
<1>1. PICK e \in Experiment : e = exps[i]
  OBVIOUS
<1>2. [e EXCEPT !.status = new] \in Experiment
  BY DEF Experiment
<1>3. PICK e1 \in Experiment :
        e1 = [e EXCEPT !.status = new]
  BY <1>2
<1>4. e1.status = new
  BY <1>3 DEF Experiment
<1>5. mid[i] = e1 /\ mid \in [DOMAIN exps -> Experiment]
      /\ \A j \in DOMAIN exps : j # i => mid[j] = exps[j]
  BY <1>1, <1>3
<1>6. after = [mid EXCEPT ![i].results = found]
  BY DEF Campaign!UpdateStatus
<1>7. [e1 EXCEPT !.results = found] \in Experiment
  BY DEF Experiment
<1>8. PICK e2 \in Experiment : e2 = [e1 EXCEPT !.results = found]
  BY <1>7
<1>9. e2.status = new /\ e2.results = found
  BY <1>4, <1>8 DEF Experiment
<1> HIDE DEF mid
<1>10. /\ after[i] = e2 /\ after \in [DOMAIN exps -> Experiment]
       /\ \A j \in DOMAIN exps : j # i => after[j] = mid[j]
  BY <1>5, <1>6, <1>8
<1> QED BY <1>5, <1>9, <1>10

\* Periods the registry does not find overlapping have no bar in common.
LEMMA FreshIsApart ==
  ASSUME NEW v \in Periods, NEW w \in Periods,
         ~(/\ v.symbol = w.symbol /\ v.timeframe = w.timeframe
           /\ v.from < w.to /\ v.to > w.from)
  PROVE  Apart(v, w) /\ Apart(w, v)
<1>1. v.from \in Int /\ v.to \in Int /\ w.from \in Int /\ w.to \in Int
  BY VerdictsAssumption DEF VerdictsAssumption, Campaign!CampaignAssumption
<1>2. ASSUME NEW t \in v.from .. (v.to - 1), NEW u \in w.from .. (w.to - 1),
             <<v.symbol, v.timeframe, t>> = <<w.symbol, w.timeframe, u>>
      PROVE  FALSE
  <2>1. v.symbol = w.symbol /\ v.timeframe = w.timeframe /\ t = u
    BY <1>2
  <2>2. v.from < w.to /\ v.to > w.from
    BY <1>1, <2>1
  <2> QED BY <2>1, <2>2
<1> QED BY <1>2 DEF Apart, Campaign!Bars

\* An empty registry has granted and reported nothing.
LEMMA InitCampaign == Campaign!Init => CampaignInv
<1> SUFFICES ASSUME Campaign!Init
             PROVE  CampaignInv
  OBVIOUS
<1>1. DOMAIN experiments = {} /\ DOMAIN reports = {} /\ consumed = {}
  BY DEF Campaign!Init
<1>2. /\ DOMAIN granted = Campaigns /\ DOMAIN status = Campaigns
      /\ \A c \in Campaigns : granted[c] = {} /\ status[c] # "CONFIRMED"
  BY DEF Campaign!Init, Campaign!Nothing
<1>3. RowsInv
  BY DEF Campaign!Init, RowsInv
<1> QED BY <1>1, <1>2, <1>3 DEF CampaignInv, GrantsInv, Campaign!VerdictsArePaidFor

\* A step that neither grants nor reports keeps both what is granted and what
\* is reported, as long as nothing that was consumed is forgotten.
LEMMA GrantsKept ==
  ASSUME GrantsInv, UNCHANGED <<granted, reports, status>>,
         consumed \subseteq consumed', consumed' \subseteq Campaign!Ids \X Periods,
         DOMAIN experiments \subseteq DOMAIN experiments'
  PROVE  GrantsInv'
BY DEF GrantsInv, Apart

(* A phase consumes the window it was granted and uses the grant up, so   *)
(* its report is apart from the report of the other phase.                *)
LEMMA RunPhaseKeeps ==
  ASSUME CampaignInv, NEW c \in Campaigns, NEW f \in Campaign!Phases, NEW m \in Metrics,
         NEW gates, gates = IF f = "DISC" THEN DiscoveryGates ELSE ConfirmationGates,
         NEW good, good = IF f = "DISC" THEN "CANDIDATE" ELSE "CONFIRMED",
         Campaign!RunPhase(c, f, gates, good, m)
  PROVE  CampaignInv'
<1> DEFINE i == <<c, f>>
<1>1. PICK g \in granted[c] :
        /\ i \notin DOMAIN experiments
        /\ experiments' = [j \in DOMAIN experiments \cup {i} |->
             IF j # i THEN experiments[j]
             ELSE [status |-> IF Campaign!Passes(gates, m) THEN good ELSE "REJECTED",
                   hash |-> Campaign!Pending, results |-> {m}]]
        /\ consumed' = consumed \cup {<<i, g.window>>}
        /\ reports' = [r \in DOMAIN reports \cup {i} |->
             IF r = i THEN [window |-> g.window, passed |-> Campaign!Passes(gates, m)]
             ELSE reports[r]]
        /\ granted' = [granted EXCEPT ![c] = Campaign!Nothing]
        /\ status' = status
  BY DEF Campaign!RunPhase
<1>2. i \in Campaign!Ids /\ g.window \in Periods
  BY DEF Campaign!Ids, CampaignInv, GrantsInv
<1>3. /\ DOMAIN reports' = DOMAIN reports \cup {i} /\ i \notin DOMAIN reports
      /\ reports'[i].window = g.window
      /\ \A r \in DOMAIN reports : reports'[r] = reports[r] /\ r # i
      /\ DOMAIN experiments' = DOMAIN experiments \cup {i}
      /\ \A j \in DOMAIN experiments : experiments'[j] = experiments[j]
      /\ experiments'[i].status = IF Campaign!Passes(gates, m) THEN good ELSE "REJECTED"
      /\ experiments'[i].results = {m}
  BY <1>1 DEF CampaignInv, GrantsInv
<1>4. /\ DOMAIN granted' = Campaigns /\ granted'[c] = {}
      /\ \A d \in Campaigns : d # c => granted'[d] = granted[d]
  BY <1>1 DEF CampaignInv, GrantsInv, Campaign!Nothing
<1>5. GrantsInv'
  <2>1. /\ DOMAIN granted' = Campaigns /\ DOMAIN status' = Campaigns
        /\ consumed' \subseteq Campaign!Ids \X Periods
        /\ DOMAIN reports' \subseteq DOMAIN experiments'
    BY <1>1, <1>2, <1>3, <1>4 DEF CampaignInv, GrantsInv
  <2>2. \A d \in Campaigns : \A h \in granted'[d] :
          /\ h.window \in Periods
          /\ \A p \in h.before : Apart(h.window, p)
          /\ \A e \in Campaign!Phases : <<d, e>> \in DOMAIN reports' =>
               Apart(h.window, reports'[<<d, e>>].window)
    <3> SUFFICES ASSUME NEW d \in Campaigns, NEW h \in granted'[d]
                 PROVE  /\ h.window \in Periods
                        /\ \A p \in h.before : Apart(h.window, p)
                        /\ \A e \in Campaign!Phases : <<d, e>> \in DOMAIN reports' =>
                             Apart(h.window, reports'[<<d, e>>].window)
      OBVIOUS
    <3>1. d # c /\ h \in granted[d]
      BY <1>4
    <3>2. \A e \in Campaign!Phases : <<d, e>> # i
      BY <3>1
    <3> QED BY <1>3, <3>1, <3>2 DEF CampaignInv, GrantsInv
  <2>3. \A r \in DOMAIN reports' :
          reports'[r].window \in Periods /\ <<r, reports'[r].window>> \in consumed'
    BY <1>1, <1>2, <1>3 DEF CampaignInv, GrantsInv
  <2>4. \A d \in Campaigns :
          {<<d, "DISC">>, <<d, "CONF">>} \subseteq DOMAIN reports' =>
            Apart(reports'[<<d, "DISC">>].window, reports'[<<d, "CONF">>].window)
    <3>1. \A v, w : Apart(v, w) => Apart(w, v)
      BY DEF Apart
    <3>2. \A e \in Campaign!Phases : <<c, e>> \in DOMAIN reports =>
            Apart(g.window, reports[<<c, e>>].window)
      BY DEF CampaignInv, GrantsInv
    <3>3. Campaign!Phases = {"DISC", "CONF"}
      BY DEF Campaign!Phases
    <3>4. ASSUME NEW d \in Campaigns, {<<d, "DISC">>, <<d, "CONF">>} \subseteq DOMAIN reports'
          PROVE  Apart(reports'[<<d, "DISC">>].window, reports'[<<d, "CONF">>].window)
      <4>1. CASE d # c
        <5>1. <<d, "DISC">> # i /\ <<d, "CONF">> # i
          BY <4>1
        <5> QED BY <1>3, <3>4, <5>1 DEF CampaignInv, GrantsInv
      <4>2. CASE d = c /\ f = "DISC"
        <5>1. <<d, "CONF">> # i /\ <<d, "DISC">> = i
          BY <4>2
        <5> QED BY <1>3, <3>2, <3>3, <3>4, <4>2, <5>1
      <4>3. CASE d = c /\ f = "CONF"
        <5>1. <<d, "DISC">> # i /\ <<d, "CONF">> = i
          BY <4>3
        <5> QED BY <1>3, <3>1, <3>2, <3>3, <3>4, <4>3, <5>1
      <4> QED BY <3>3, <4>1, <4>2, <4>3
    <3> QED BY <3>4
  <2>5. \A d \in Campaigns : status'[d] = "CONFIRMED" =>
          \A e \in Campaign!Phases : <<d, e>> \in DOMAIN reports' /\ reports'[<<d, e>>].passed
    BY <1>1, <1>3 DEF CampaignInv, GrantsInv
  <2> QED BY <2>1, <2>2, <2>3, <2>4, <2>5 DEF GrantsInv
<1>6. Campaign!VerdictsArePaidFor'
  <2> SUFFICES ASSUME NEW j \in DOMAIN experiments',
                      experiments'[j].status \in {"CANDIDATE", "CONFIRMED", "REJECTED"}
               PROVE  /\ \E w \in Periods : <<j, w>> \in consumed'
                      /\ \A n \in experiments'[j].results :
                           CASE experiments'[j].status = "CANDIDATE" -> Campaign!Passes(DiscoveryGates, n)
                             [] experiments'[j].status = "CONFIRMED" -> Campaign!Passes(ConfirmationGates, n)
                             [] OTHER -> ~(Campaign!Passes(DiscoveryGates, n)
                                           /\ Campaign!Passes(ConfirmationGates, n))
    BY DEF Campaign!VerdictsArePaidFor
  <2>1. CASE j = i
    <3> HIDE DEF i
    <3> QED BY <1>1, <1>2, <1>3, <2>1
  <2>2. CASE j # i
    <3>1. j \in DOMAIN experiments /\ experiments'[j] = experiments[j] /\ consumed \subseteq consumed'
      BY <1>1, <1>3, <2>2
    <3> QED BY <3>1 DEF CampaignInv, Campaign!VerdictsArePaidFor
  <2> QED BY <2>1, <2>2
<1>7. RowsInv'
  <2> DEFINE e == [status |-> IF Campaign!Passes(gates, m) THEN good ELSE "REJECTED",
                   hash |-> Campaign!Pending, results |-> {m}]
  <2>1. e \in Experiment
    BY DEF Experiment, Campaign!Statuses
  <2>2. experiments' = [j \in DOMAIN experiments \cup {i} |-> IF j # i THEN experiments[j] ELSE e]
    BY <1>1
  <2> HIDE DEF e, i
  <2> QED BY <2>1, <2>2 DEF CampaignInv, RowsInv
<1> QED BY <1>5, <1>6, <1>7 DEF CampaignInv

\* A new experiment has no verdict, and an identifier is registered once.
LEMMA RegisterKeeps ==
  ASSUME CampaignInv, NEW i \in Campaign!ManualIds, NEW h \in Hashes,
         Campaign!RegisterManually(i, h)
  PROVE  CampaignInv'
<1>1. /\ DOMAIN experiments' = DOMAIN experiments \cup {i} /\ i \notin DOMAIN experiments
      /\ \A j \in DOMAIN experiments : experiments'[j] = experiments[j]
      /\ experiments'[i].status = "PREREGISTERED"
      /\ UNCHANGED <<consumed, granted, reports, status>>
  BY DEF Campaign!RegisterManually, Campaign!Preregister
<1>2. GrantsInv'
  BY <1>1, GrantsKept DEF CampaignInv, GrantsInv
<1>3. Campaign!VerdictsArePaidFor'
  BY <1>1 DEF CampaignInv, Campaign!VerdictsArePaidFor
<1>4. RowsInv'
  <2> DEFINE e == [status |-> "PREREGISTERED", hash |-> h, results |-> Campaign!Nothing]
  <2>1. e \in Experiment
    BY DEF Experiment, Campaign!Statuses, Campaign!Nothing
  <2>2. experiments' = [j \in DOMAIN experiments \cup {i} |-> IF j = i THEN e ELSE experiments[j]]
    BY DEF Campaign!RegisterManually, Campaign!Preregister
  <2> HIDE DEF e
  <2> QED BY <2>1, <2>2 DEF CampaignInv, RowsInv
<1> QED BY <1>2, <1>3, <1>4 DEF CampaignInv

\* Results under a hash, right or wrong, leave an experiment without a verdict.
LEMMA ExecuteKeeps ==
  ASSUME CampaignInv, NEW i, NEW h, NEW m \in Metrics, Campaign!ExecuteAndVerify(i, h, m)
  PROVE  CampaignInv'
<1>1. /\ DOMAIN experiments' = DOMAIN experiments /\ i \in DOMAIN experiments
      /\ \A j \in DOMAIN experiments : j # i => experiments'[j] = experiments[j]
      /\ experiments'[i].status \in {"RUNNING", "INVALIDATED"}
      /\ UNCHANGED <<consumed, granted, reports, status>>
      /\ RowsInv'
  <2>1. PICK new \in {"RUNNING", "INVALIDATED"}, found \in SUBSET Metrics :
          experiments' = Campaign!UpdateStatus(experiments, i, new, found)
    <3>1. {m} \in SUBSET Metrics /\ Campaign!Nothing \in SUBSET Metrics
      BY DEF Campaign!Nothing
    <3>2. \/ experiments' = Campaign!UpdateStatus(experiments, i, "RUNNING", {m})
          \/ experiments' = Campaign!UpdateStatus(experiments, i, "INVALIDATED", Campaign!Nothing)
      BY DEF Campaign!ExecuteAndVerify
    <3> QED BY <3>1, <3>2
  <2>2. new \in Campaign!Statuses /\ i \in DOMAIN experiments
    BY DEF Campaign!Statuses, Campaign!ExecuteAndVerify
  <2>3. PICK after : after = Campaign!UpdateStatus(experiments, i, new, found)
    OBVIOUS
  <2>4. /\ after \in [DOMAIN experiments -> Experiment]
        /\ after[i].status = new /\ after[i].results = found
        /\ \A j \in DOMAIN experiments : j # i => after[j] = experiments[j]
    BY <2>2, <2>3, Updated DEF CampaignInv, RowsInv
  <2>5. experiments' = after
    BY <2>1, <2>3
  <2>6. DOMAIN after = DOMAIN experiments
    BY <2>4
  <2> QED BY <2>2, <2>4, <2>5, <2>6 DEF Campaign!ExecuteAndVerify, RowsInv
<1>2. GrantsInv'
  BY <1>1, GrantsKept DEF CampaignInv, GrantsInv
<1>3. Campaign!VerdictsArePaidFor'
  BY <1>1 DEF CampaignInv, Campaign!VerdictsArePaidFor
<1> QED BY <1>1, <1>2, <1>3 DEF CampaignInv

(* A cycle consumes a period for each verdict it gives, also when it stops *)
(* half-way at an experiment that is not registered.                       *)
LEMMA CycleKeeps ==
  ASSUME CampaignInv, NEW d \in Campaign!ManualIds, NEW c \in Campaign!ManualIds, d # c,
         NEW v \in Periods, NEW w \in Periods,
         NEW m \in Metrics, NEW n \in Metrics,
         Campaign!ExecuteCycle(d, c, v, w, m, n)
  PROVE  CampaignInv'
<1> DEFINE found == Campaign!Passes(DiscoveryGates, m)
           confirmed == Campaign!Passes(ConfirmationGates, n)
           reached == d \in DOMAIN experiments /\ found /\ c \in DOMAIN experiments
<1>1. /\ consumed' = consumed \cup {<<d, v>>} \cup (IF reached THEN {<<c, w>>} ELSE {})
      /\ UNCHANGED <<granted, reports, status>>
      /\ DOMAIN experiments' = DOMAIN experiments /\ RowsInv'
      /\ \A j \in DOMAIN experiments :
           \/ experiments'[j] = experiments[j]
           \/ /\ j = d /\ experiments'[j].results = {m}
              /\ experiments'[j].status = IF found THEN "CANDIDATE" ELSE "REJECTED"
           \/ /\ reached /\ j = c /\ experiments'[j].results = {n}
              /\ experiments'[j].status = IF confirmed THEN "CONFIRMED" ELSE "REJECTED"
  <2> DEFINE first == IF found THEN "CANDIDATE" ELSE "REJECTED"
             second == IF confirmed THEN "CONFIRMED" ELSE "REJECTED"
  <2>1. /\ first \in Campaign!Statuses /\ second \in Campaign!Statuses
        /\ {m} \in SUBSET Metrics /\ {n} \in SUBSET Metrics
        /\ experiments \in [DOMAIN experiments -> Experiment]
    BY DEF Campaign!Statuses, CampaignInv, RowsInv
  <2>2. /\ consumed' = consumed \cup {<<d, v>>} \cup (IF reached THEN {<<c, w>>} ELSE {})
        /\ UNCHANGED <<granted, reports, status>>
    BY DEF Campaign!ExecuteCycle
  <2>3. CASE d \notin DOMAIN experiments
    <3>1. experiments' = experiments
      BY <2>3 DEF Campaign!ExecuteCycle
    <3> HIDE DEF found, confirmed, reached
    <3> QED BY <2>1, <2>2, <3>1 DEF RowsInv
  <2>4. CASE d \in DOMAIN experiments
    <3>1. PICK mid : mid = Campaign!UpdateStatus(experiments, d, first, {m})
      OBVIOUS
    <3>2. experiments' = IF ~reached THEN mid ELSE Campaign!UpdateStatus(mid, c, second, {n})
      BY <2>4, <3>1 DEF Campaign!ExecuteCycle
    <3> HIDE DEF first, second
    <3>3. /\ mid \in [DOMAIN experiments -> Experiment]
          /\ mid[d].status = first /\ mid[d].results = {m}
          /\ \A j \in DOMAIN experiments : j # d => mid[j] = experiments[j]
      BY <2>1, <2>4, <3>1, Updated
    <3>4. mid \in [DOMAIN mid -> Experiment] /\ DOMAIN mid = DOMAIN experiments
      BY <3>3
    <3>5. CASE ~reached
      <4>1. experiments' = mid
        BY <3>2, <3>5
      <4> HIDE DEF found, reached
      <4> QED BY <2>2, <3>3, <3>4, <4>1 DEF RowsInv, first
    <3>6. CASE reached
      <4>1. PICK after : after = Campaign!UpdateStatus(mid, c, second, {n})
        OBVIOUS
      <4>2. experiments' = after
        BY <3>2, <3>6, <4>1
      <4>3. c \in DOMAIN mid
        BY <3>4, <3>6
      <4>4. /\ after \in [DOMAIN mid -> Experiment]
            /\ after[c].status = second /\ after[c].results = {n}
            /\ \A j \in DOMAIN mid : j # c => after[j] = mid[j]
        BY <2>1, <3>4, <4>1, <4>3, Updated
      <4> HIDE DEF found, confirmed, reached
      <4>5. DOMAIN after = DOMAIN experiments
        BY <3>4, <4>4
      <4> QED BY <2>2, <3>3, <3>4, <3>6, <4>2, <4>4, <4>5 DEF RowsInv, first, second
    <3> QED BY <3>5, <3>6
  <2> QED BY <2>3, <2>4
<1>2. GrantsInv'
  <2>1. d \in Campaign!Ids /\ c \in Campaign!Ids
    BY DEF Campaign!Ids, Campaign!ManualIds
  <2>2. consumed \subseteq consumed' /\ consumed' \subseteq Campaign!Ids \X Periods
    BY <1>1, <2>1 DEF CampaignInv, GrantsInv
  <2> QED BY <1>1, <2>2, GrantsKept DEF CampaignInv
<1>3. Campaign!VerdictsArePaidFor'
  <2> SUFFICES ASSUME NEW j \in DOMAIN experiments',
                      experiments'[j].status \in {"CANDIDATE", "CONFIRMED", "REJECTED"}
               PROVE  /\ \E u \in Periods : <<j, u>> \in consumed'
                      /\ \A k \in experiments'[j].results :
                           CASE experiments'[j].status = "CANDIDATE" -> Campaign!Passes(DiscoveryGates, k)
                             [] experiments'[j].status = "CONFIRMED" -> Campaign!Passes(ConfirmationGates, k)
                             [] OTHER -> ~(Campaign!Passes(DiscoveryGates, k)
                                           /\ Campaign!Passes(ConfirmationGates, k))
    BY DEF Campaign!VerdictsArePaidFor
  <2>1. j \in DOMAIN experiments /\ consumed \subseteq consumed'
    BY <1>1
  <2>2. CASE experiments'[j] = experiments[j]
    BY <2>1, <2>2 DEF CampaignInv, Campaign!VerdictsArePaidFor
  <2>3. CASE /\ j = d /\ experiments'[j].results = {m}
             /\ experiments'[j].status = IF found THEN "CANDIDATE" ELSE "REJECTED"
    <3>1. <<j, v>> \in consumed'
      BY <1>1, <2>3
    <3> QED BY <2>3, <3>1
  <2>4. CASE /\ reached /\ j = c /\ experiments'[j].results = {n}
             /\ experiments'[j].status = IF confirmed THEN "CONFIRMED" ELSE "REJECTED"
    <3>1. <<j, w>> \in consumed'
      BY <1>1, <2>4
    <3> QED BY <2>4, <3>1
  <2> QED BY <1>1, <2>1, <2>2, <2>3, <2>4
<1> QED BY <1>1, <1>2, <1>3 DEF CampaignInv

\* What is granted is apart from everything consumed by then, reports included.
LEMMA CheckKeeps ==
  ASSUME CampaignInv, NEW c \in Campaigns, NEW w \in Periods, Campaign!CheckFreshData(c, w)
  PROVE  CampaignInv'
<1>1. /\ UNCHANGED <<experiments, consumed, reports, status>>
      /\ DOMAIN granted' = Campaigns
      /\ \A d \in Campaigns : d # c => granted'[d] = granted[d]
      /\ granted'[c] = IF Campaign!IsConsumed(w) THEN {}
                       ELSE {[window |-> w, before |-> {p[2] : p \in consumed}]}
  BY DEF Campaign!CheckFreshData, Campaign!Nothing, CampaignInv, GrantsInv
<1>2. ASSUME ~Campaign!IsConsumed(w), NEW p \in consumed
      PROVE  Apart(w, p[2])
  <2>1. p[2] \in Periods
    BY DEF CampaignInv, GrantsInv
  <2> QED BY <1>2, <2>1, FreshIsApart DEF Campaign!IsConsumed
<1>3. ASSUME NEW h \in granted'[c]
      PROVE  /\ h.window \in Periods
             /\ \A q \in h.before : Apart(h.window, q)
             /\ \A e \in Campaign!Phases : <<c, e>> \in DOMAIN reports =>
                  Apart(h.window, reports[<<c, e>>].window)
  <2>1. ~Campaign!IsConsumed(w) /\ h = [window |-> w, before |-> {p[2] : p \in consumed}]
    BY <1>1, <1>3
  <2>2. h.window = w /\ h.before = {p[2] : p \in consumed}
    BY <2>1
  <2>3. \A q \in h.before : Apart(h.window, q)
    BY <1>2, <2>1, <2>2
  <2>4. ASSUME NEW e \in Campaign!Phases, <<c, e>> \in DOMAIN reports
        PROVE  Apart(h.window, reports[<<c, e>>].window)
    <3> DEFINE p == <<<<c, e>>, reports[<<c, e>>].window>>
    <3>1. p \in consumed
      BY <2>4 DEF CampaignInv, GrantsInv
    <3>2. p[2] = reports[<<c, e>>].window
      OBVIOUS
    <3> QED BY <1>2, <2>1, <2>2, <3>1, <3>2
  <2> QED BY <2>2, <2>3, <2>4
<1>4. GrantsInv'
  <2>1. \A d \in Campaigns : \A h \in granted'[d] :
          /\ h.window \in Periods
          /\ \A p \in h.before : Apart(h.window, p)
          /\ \A e \in Campaign!Phases : <<d, e>> \in DOMAIN reports =>
               Apart(h.window, reports[<<d, e>>].window)
    BY <1>1, <1>3 DEF CampaignInv, GrantsInv
  <2> QED BY <1>1, <2>1 DEF CampaignInv, GrantsInv
<1>5. Campaign!VerdictsArePaidFor'
  BY <1>1 DEF CampaignInv, Campaign!VerdictsArePaidFor
<1>9. RowsInv'
  BY <1>1 DEF CampaignInv, RowsInv
<1> QED BY <1>4, <1>5, <1>9 DEF CampaignInv

\* A campaign is confirmed on two reports that passed.
LEMMA CompleteKeeps ==
  ASSUME CampaignInv, NEW c \in Campaigns, Campaign!CompleteCampaign(c)
  PROVE  CampaignInv'
<1>1. /\ UNCHANGED <<experiments, consumed, granted, reports>>
      /\ DOMAIN status' = Campaigns
      /\ \A d \in Campaigns : d # c => status'[d] = status[d]
      /\ status'[c] = "CONFIRMED" => \A f \in Campaign!Phases :
           <<c, f>> \in DOMAIN reports /\ reports[<<c, f>>].passed
  BY DEF Campaign!CompleteCampaign, Campaign!Phases, CampaignInv, GrantsInv
<1>2. GrantsInv'
  BY <1>1 DEF CampaignInv, GrantsInv
<1>3. Campaign!VerdictsArePaidFor'
  BY <1>1 DEF CampaignInv, Campaign!VerdictsArePaidFor
<1>9. RowsInv'
  BY <1>1 DEF CampaignInv, RowsInv
<1> QED BY <1>2, <1>3, <1>9 DEF CampaignInv

\* Every step of registry, pipeline and controllers keeps the invariant.
LEMMA CampaignStepKeeps == CampaignInv /\ [Campaign!Next]_campaignVars => CampaignInv'
<1> SUFFICES ASSUME CampaignInv, [Campaign!Next]_campaignVars
             PROVE  CampaignInv'
  OBVIOUS
<1>1. CASE UNCHANGED campaignVars
  BY <1>1 DEF campaignVars, CampaignInv, RowsInv, GrantsInv, Campaign!VerdictsArePaidFor
<1>2. CASE \E i \in Campaign!ManualIds, h \in Hashes : Campaign!RegisterManually(i, h)
  BY <1>2, RegisterKeeps
<1>3. CASE \E i \in Campaign!Ids, h \in Hashes, m \in Metrics : Campaign!ExecuteAndVerify(i, h, m)
  BY <1>3, ExecuteKeeps
<1>4. CASE \E d, c \in Campaign!ManualIds, v, w \in Periods, m, n \in Metrics :
             d # c /\ Campaign!ExecuteCycle(d, c, v, w, m, n)
  BY <1>4, CycleKeeps
<1>5. CASE \E c \in Campaigns, w \in Periods : Campaign!CheckFreshData(c, w)
  BY <1>5, CheckKeeps
<1>6. CASE \E c \in Campaigns, m \in Metrics :
             Campaign!RunDiscovery(c, m) \/ Campaign!RunConfirmation(c, m)
  <2>1. "DISC" \in Campaign!Phases /\ "CONF" \in Campaign!Phases
    BY DEF Campaign!Phases
  <2> QED BY <1>6, <2>1, RunPhaseKeeps DEF Campaign!RunDiscovery, Campaign!RunConfirmation
<1>7. CASE \E c \in Campaigns : Campaign!CompleteCampaign(c)
  BY <1>7, CompleteKeeps
<1> QED BY <1>1, <1>2, <1>3, <1>4, <1>5, <1>6, <1>7 DEF Campaign!Next

\* The invariant carries what campaigns promise.
LEMMA CampaignSafe == CampaignInv => Campaign!Safe
<1> SUFFICES ASSUME CampaignInv
             PROVE  Campaign!Safe
  OBVIOUS
<1>1. Campaign!FreshIsUntouched
  BY DEF CampaignInv, GrantsInv, Campaign!FreshIsUntouched, Apart
<1>2. Campaign!ConfirmedOnDisjointData
  BY DEF CampaignInv, GrantsInv, Campaign!ConfirmedOnDisjointData, Apart, Campaign!Phases
<1> QED BY <1>1, <1>2 DEF Campaign!Safe, CampaignInv

---------------------------------------------------------------------------
(* Confirmation of the frozen candidate, the queue and the gates            *)

FrozenInv ==
  /\ \A f \in frozen : f.candidate \in Candidates /\ f.window \in Spans
  /\ \A f, g \in frozen : f = g

\* A result is one of the frozen candidate's runs, and says what was compared.
ResultInv ==
  \A r \in result :
    /\ r \in [state : Qualify!States, match : BOOLEAN, disjoint : BOOLEAN,
              candidate : Candidates, window : Spans]
    /\ frozen # {}
    /\ \A f \in frozen :
         /\ r.match => f.candidate = r.candidate
         /\ r.disjoint => ~Qualify!Overlaps(f.window, r.window)
    /\ r.state = "CONFIRMED" => r.match /\ r.disjoint /\ TRUE \in audited

QueueInv == queue.pointer \in Nat /\ Qualify!QueueInOrder

\* A verdict was computed from the result that still stands, or without one.
VerdictInv ==
  \A v \in verdict :
    /\ v.in \in GateInputs /\ v.shown \subseteq result
    /\ v.checks = Qualify!Checks(v.in.run, v.shown)
    /\ v.full = Qualify!FullyQualified(v.in.market)

QualifyInv == FrozenInv /\ ResultInv /\ QueueInv /\ VerdictInv

\* Nothing is frozen and the queue is at its start.
LEMMA InitQualify == Qualify!Init => QualifyInv
<1> SUFFICES ASSUME Qualify!Init
             PROVE  QualifyInv
  OBVIOUS
<1>1. frozen = {} /\ result = {} /\ verdict = {}
  BY DEF Qualify!Init
<1>2. queue = [pointer |-> 0, completed |-> <<>>, exhausted |-> Hypotheses = 0]
  BY DEF Qualify!Init
<1>3. queue.pointer = 0 /\ queue.completed = <<>> /\ queue.exhausted = (Hypotheses = 0)
  BY <1>2
<1>4. QueueInv
  <2>1. Hypotheses \in Nat
    BY VerdictsAssumption DEF VerdictsAssumption, Qualify!QualificationAssumption
  <2>2. queue.exhausted <=> queue.pointer >= Hypotheses
    <3>1. (Hypotheses = 0) <=> queue.pointer >= Hypotheses
      BY <1>3, <2>1
    <3> QED BY <1>3, <3>1, Zenon
  <2>3. queue.completed = [i \in 1 .. queue.pointer |-> i - 1]
    BY <1>3
  <2> QED BY <1>3, <2>2, <2>3 DEF QueueInv, Qualify!QueueInOrder
<1> QED BY <1>1, <1>4 DEF QualifyInv, FrozenInv, ResultInv, VerdictInv

\* An advance appends the hypothesis at the pointer, also past the end.
LEMMA AdvanceKeeps == QualifyInv /\ Qualify!Advance => QualifyInv'
<1> SUFFICES ASSUME QualifyInv, Qualify!Advance
             PROVE  QualifyInv'
  OBVIOUS
<1>1. frozen' = {} /\ result' = {} /\ verdict' = {}
  BY DEF Qualify!Advance
<1>2. /\ queue'.pointer = queue.pointer + 1
      /\ queue'.completed = Append(queue.completed, queue.pointer)
      /\ queue'.exhausted = (queue.exhausted \/ queue.pointer + 1 >= Hypotheses)
  BY DEF Qualify!Advance
<1>3. QueueInv'
  <2>1. /\ queue.pointer \in Nat /\ queue.completed = [i \in 1 .. queue.pointer |-> i - 1]
        /\ queue.exhausted <=> queue.pointer >= Hypotheses
    BY DEF QualifyInv, QueueInv, Qualify!QueueInOrder
  <2>2. queue.completed \in Seq(Int) /\ Len(queue.completed) = queue.pointer
    BY <2>1
  <2>3. queue'.completed = [i \in 1 .. queue'.pointer |-> i - 1]
    BY <1>2, <2>1, <2>2
  <2>4. Hypotheses \in Nat
    BY VerdictsAssumption DEF VerdictsAssumption, Qualify!QualificationAssumption
  <2>5. queue'.exhausted <=> queue'.pointer >= Hypotheses
    <3>1. (queue.pointer >= Hypotheses \/ queue.pointer + 1 >= Hypotheses)
            <=> queue.pointer + 1 >= Hypotheses
      BY <2>1, <2>4
    <3> QED BY <1>2, <2>1, <3>1, Zenon
  <2> QED BY <1>2, <2>1, <2>3, <2>5 DEF QueueInv, Qualify!QueueInOrder
<1> QED BY <1>1, <1>3 DEF QualifyInv, FrozenInv, ResultInv, VerdictInv

\* A candidate is frozen only while there is none, so no result exists yet.
LEMMA FreezeKeeps ==
  ASSUME QualifyInv, NEW c \in Candidates, NEW w \in Spans, Qualify!FreezeCandidate(c, w)
  PROVE  QualifyInv'
<1>1. /\ frozen' = {[candidate |-> c, window |-> w]} /\ frozen = {}
      /\ UNCHANGED <<result, audited, queue, verdict>>
  BY DEF Qualify!FreezeCandidate
<1>2. result = {}
  BY <1>1 DEF QualifyInv, ResultInv
<1> QED
  BY <1>1, <1>2
  DEF QualifyInv, FrozenInv, ResultInv, QueueInv, Qualify!QueueInOrder, VerdictInv

\* A confirmation run records what it compared with the frozen candidate.
LEMMA ConfirmationKeeps ==
  ASSUME QualifyInv, NEW c \in Candidates, NEW w \in Spans, Qualify!RunConfirmation(c, w)
  PROVE  QualifyInv'
<1>1. PICK f \in frozen :
        result' = {IF Qualify!Overlaps(f.window, w)
                   THEN Qualify!Outcome("REJECT_WINDOW_OVERLAP", FALSE, FALSE, c, w)
                   ELSE IF f.candidate # c
                   THEN Qualify!Outcome("NOT_CONFIRMATION_INVALIDATED", FALSE, TRUE, c, w)
                   ELSE Qualify!Outcome("RUNNING_CONFIRMATION", TRUE, TRUE, c, w)}
  BY DEF Qualify!RunConfirmation
<1>2. verdict' = {} /\ UNCHANGED <<frozen, queue>>
  BY DEF Qualify!RunConfirmation
<1>3. \A g \in frozen : g = f
  BY DEF QualifyInv, FrozenInv
<1>4. ResultInv'
  <2> SUFFICES ASSUME NEW r \in result'
               PROVE  /\ r \in [state : Qualify!States, match : BOOLEAN, disjoint : BOOLEAN,
                                candidate : Candidates, window : Spans]
                      /\ frozen' # {}
                      /\ \A g \in frozen' :
                           /\ r.match => g.candidate = r.candidate
                           /\ r.disjoint => ~Qualify!Overlaps(g.window, r.window)
                      /\ r.state = "CONFIRMED" => r.match /\ r.disjoint /\ TRUE \in audited'
    BY DEF ResultInv
  <2>1. CASE Qualify!Overlaps(f.window, w)
    <3>1. r = [state |-> "REJECT_WINDOW_OVERLAP", match |-> FALSE, disjoint |-> FALSE,
               candidate |-> c, window |-> w]
      BY <1>1, <2>1 DEF Qualify!Outcome
    <3>2. r \in [state : Qualify!States, match : BOOLEAN, disjoint : BOOLEAN,
                 candidate : Candidates, window : Spans]
      BY <3>1 DEF Qualify!States
    <3>3. /\ r.state = "REJECT_WINDOW_OVERLAP" /\ r.match = FALSE /\ r.disjoint = FALSE
          /\ r.candidate = c /\ r.window = w
      BY <3>1
    <3> QED BY <1>2, <1>3, <2>1, <3>2, <3>3
  <2>2. CASE ~Qualify!Overlaps(f.window, w) /\ f.candidate # c
    <3>1. r = [state |-> "NOT_CONFIRMATION_INVALIDATED", match |-> FALSE, disjoint |-> TRUE,
               candidate |-> c, window |-> w]
      BY <1>1, <2>2 DEF Qualify!Outcome
    <3>2. r \in [state : Qualify!States, match : BOOLEAN, disjoint : BOOLEAN,
                 candidate : Candidates, window : Spans]
      BY <3>1 DEF Qualify!States
    <3>3. /\ r.state = "NOT_CONFIRMATION_INVALIDATED" /\ r.match = FALSE /\ r.disjoint = TRUE
          /\ r.candidate = c /\ r.window = w
      BY <3>1
    <3> QED BY <1>2, <1>3, <2>2, <3>2, <3>3
  <2>3. CASE ~Qualify!Overlaps(f.window, w) /\ f.candidate = c
    <3>1. r = [state |-> "RUNNING_CONFIRMATION", match |-> TRUE, disjoint |-> TRUE,
               candidate |-> c, window |-> w]
      BY <1>1, <2>3 DEF Qualify!Outcome
    <3>2. r \in [state : Qualify!States, match : BOOLEAN, disjoint : BOOLEAN,
                 candidate : Candidates, window : Spans]
      BY <3>1 DEF Qualify!States
    <3>3. /\ r.state = "RUNNING_CONFIRMATION" /\ r.match = TRUE /\ r.disjoint = TRUE
          /\ r.candidate = c /\ r.window = w
      BY <3>1
    <3> QED BY <1>2, <1>3, <2>3, <3>2, <3>3
  <2> QED BY <2>1, <2>2, <2>3
<1>5. FrozenInv' /\ QueueInv' /\ VerdictInv'
  BY <1>2 DEF QualifyInv, FrozenInv, QueueInv, Qualify!QueueInOrder, VerdictInv
<1> QED BY <1>4, <1>5 DEF QualifyInv

\* Completing a result again reads the same comparison, so it stays honest.
LEMMA CompletionKeeps ==
  ASSUME QualifyInv, NEW a \in BOOLEAN, Qualify!CompleteConfirmation(a)
  PROVE  QualifyInv'
<1>1. /\ result' = {[r EXCEPT !.state = Qualify!Completed(r, a)] : r \in result}
      /\ audited' = audited \cup {a} /\ verdict' = {} /\ UNCHANGED <<frozen, queue>>
  BY DEF Qualify!CompleteConfirmation
<1>2. ResultInv'
  <2> SUFFICES ASSUME NEW q \in result'
               PROVE  /\ q \in [state : Qualify!States, match : BOOLEAN, disjoint : BOOLEAN,
                                candidate : Candidates, window : Spans]
                      /\ frozen' # {}
                      /\ \A f \in frozen' :
                           /\ q.match => f.candidate = q.candidate
                           /\ q.disjoint => ~Qualify!Overlaps(f.window, q.window)
                      /\ q.state = "CONFIRMED" => q.match /\ q.disjoint /\ TRUE \in audited'
    BY DEF ResultInv
  <2>0. PICK r \in result : q = [r EXCEPT !.state = Qualify!Completed(r, a)]
    BY <1>1
  <2>1. PICK s : s = Qualify!Completed(r, a)
    OBVIOUS
  <2>2. s \in Qualify!States /\ (s = "CONFIRMED" => r.match /\ r.disjoint /\ a = TRUE)
    BY <2>1 DEF Qualify!Completed, Qualify!States
  <2>3. r \in [state : Qualify!States, match : BOOLEAN, disjoint : BOOLEAN,
               candidate : Candidates, window : Spans]
    BY DEF QualifyInv, ResultInv
  <2>4. q = [r EXCEPT !.state = s]
    BY <2>0, <2>1
  <2>5. /\ q \in [state : Qualify!States, match : BOOLEAN, disjoint : BOOLEAN,
                  candidate : Candidates, window : Spans]
        /\ q.state = s /\ q.match = r.match /\ q.disjoint = r.disjoint
        /\ q.candidate = r.candidate /\ q.window = r.window
    BY <2>2, <2>3, <2>4
  <2> QED BY <1>1, <2>1, <2>2, <2>4, <2>5 DEF QualifyInv, ResultInv
<1>3. FrozenInv' /\ QueueInv' /\ VerdictInv'
  BY <1>1 DEF QualifyInv, FrozenInv, QueueInv, Qualify!QueueInOrder, VerdictInv
<1> QED BY <1>2, <1>3 DEF QualifyInv

\* An evaluation is computed from the result there is, or from none.
LEMMA EvaluationKeeps ==
  ASSUME QualifyInv, NEW in \in GateInputs, Qualify!Evaluate(in)
  PROVE  QualifyInv'
<1>1. PICK shown \in SUBSET result :
        verdict' = {[in |-> in, shown |-> shown, checks |-> Qualify!Checks(in.run, shown),
                     full |-> Qualify!FullyQualified(in.market)]}
  BY DEF Qualify!Evaluate
<1>2. UNCHANGED <<frozen, result, audited, queue>>
  BY DEF Qualify!Evaluate
<1>3. ASSUME NEW v \in verdict'
      PROVE  /\ v.in \in GateInputs /\ v.shown \subseteq result'
             /\ v.checks = Qualify!Checks(v.in.run, v.shown)
             /\ v.full = Qualify!FullyQualified(v.in.market)
  BY <1>1, <1>2
<1> QED
  BY <1>2, <1>3
  DEF QualifyInv, FrozenInv, ResultInv, QueueInv, Qualify!QueueInOrder, VerdictInv

\* Every step of queue, protocol and gates keeps the invariant.
LEMMA QualifyStepKeeps == QualifyInv /\ [Qualify!Next]_qualificationVars => QualifyInv'
<1> SUFFICES ASSUME QualifyInv, [Qualify!Next]_qualificationVars
             PROVE  QualifyInv'
  OBVIOUS
<1>1. CASE UNCHANGED qualificationVars
  BY <1>1
  DEF qualificationVars, QualifyInv, FrozenInv, ResultInv, QueueInv, Qualify!QueueInOrder, VerdictInv
<1>2. CASE Qualify!Advance
  BY <1>2, AdvanceKeeps
<1>3. CASE \E c \in Candidates, w \in Spans :
             Qualify!FreezeCandidate(c, w) \/ Qualify!RunConfirmation(c, w)
  BY <1>3, FreezeKeeps, ConfirmationKeeps
<1>4. CASE \E a \in BOOLEAN : Qualify!CompleteConfirmation(a)
  BY <1>4, CompletionKeeps
<1>5. CASE \E in \in GateInputs : Qualify!Evaluate(in)
  BY <1>5, EvaluationKeeps
<1> QED BY <1>1, <1>2, <1>3, <1>4, <1>5 DEF Qualify!Next

\* Windows that do not overlap have no time in common.
LEMMA DisjointTimes ==
  ASSUME NEW v \in Spans, NEW w \in Spans, ~Qualify!Overlaps(v, w), v.symbol = w.symbol
  PROVE  (v.from .. (v.to - 1)) \cap (w.from .. (w.to - 1)) = {}
BY VerdictsAssumption DEF VerdictsAssumption, Qualify!QualificationAssumption, Qualify!Overlaps

\* Full evidence leaves the operational gate nothing to refuse but what it
\* alone is told of.
LEMMA FullyQualifiedChecks ==
  ASSUME NEW in \in GateInputs, NEW shown, Qualify!ToldTheSame(in),
         Qualify!FullyQualified(in.market), NEW k \in Qualify!Checks(in.run, shown),
         k[1] \in {"INFRASTRUCTURE", "METHODOLOGY"}, k[2] \notin Qualify!UntoldToResearch
  PROVE  k[3]
<1> DEFINE run == in.run
<1>1. /\ run.reconciled /\ run.quality = {TRUE}
      /\ run.evidence \cap Qualify!Operational # {}
  <2>1. in.market.quality \in BOOLEAN
    BY VerdictsAssumption DEF VerdictsAssumption, Qualify!QualificationAssumption,
       Qualify!InputSet, Qualify!MarketInputs
  <2>2. in.market.accounting /\ in.market.quality /\ in.market.class = "HISTORICAL_MARKET_REAL"
    BY DEF Qualify!FullyQualified, Qualify!MarketEvidence
  <2>3. /\ run.evidence = {in.market.class} /\ run.quality = {in.market.quality}
        /\ run.reconciled = in.market.accounting
    BY DEF Qualify!ToldTheSame
  <2>4. run.quality = {TRUE}
    BY <2>1, <2>2, <2>3
  <2>5. run.evidence \cap Qualify!Operational # {}
    BY <2>2, <2>3 DEF Qualify!Operational
  <2>6. run.reconciled
    BY <2>2, <2>3, Zenon
  <2> QED BY <2>4, <2>5, <2>6
<1>2. ASSUME NEW x, NEW a, NEW b, NEW c, x = <<a, b, c>>
      PROVE  x[1] = a /\ x[2] = b /\ x[3] = c
  BY <1>2
<1> HIDE DEF run
<1>3. ASSUME NEW a, NEW b, NEW c, k = <<a, b, c>>, c
      PROVE  k[3]
  <2>1. k[3] = c
    BY <1>2, <1>3
  <2> QED BY <1>3, <2>1, Zenon
<1>4. ASSUME NEW a, NEW c, NEW b \in Qualify!UntoldToResearch, k = <<a, b, c>>
      PROVE  FALSE
  BY <1>2, <1>4
<1>5. ASSUME NEW a, NEW b, NEW c, k = <<a, b, c>>, a \in {"CONFIRMATION", "ECONOMIC", "FREQUENCY"}
      PROVE  FALSE
  <2>1. k[1] = a
    BY <1>2, <1>5
  <2>2. a # "INFRASTRUCTURE" /\ a # "METHODOLOGY"
    BY <1>5
  <2> QED BY <2>1, <2>2
<1>6. CASE k \in Qualify!StandingChecks(run)
  <2>1. \/ k = <<"INFRASTRUCTURE", "real_data", run.evidence \cap Qualify!Operational # {}>>
        \/ k = <<"INFRASTRUCTURE", "data_quality", run.quality = {TRUE}>>
        \/ k = <<"METHODOLOGY", "pnl_reconciliation", run.reconciled>>
        \/ \E a, c : \E b \in Qualify!UntoldToResearch : k = <<a, b, c>>
    <3>1. {"real_backtest_engine", "trade_evidence", "audit_pass", "hash_integrity",
           "no_live_effects", "no_paper_effects", "dataset_classification"}
            \subseteq Qualify!UntoldToResearch
      BY DEF Qualify!UntoldToResearch
    <3> QED BY <1>6, <3>1, Zenon DEF Qualify!StandingChecks
  <2> QED BY <1>1, <1>3, <1>4, <2>1, Zenon
<1>7. CASE k \in Qualify!OccasionalChecks(run, shown)
  <2>1. \E a \in {"CONFIRMATION", "ECONOMIC", "FREQUENCY"} : \E b, c : k = <<a, b, c>>
    BY <1>7, Zenon DEF Qualify!OccasionalChecks
  <2> QED BY <1>5, <2>1, Zenon
<1> QED BY <1>6, <1>7 DEF Qualify!Checks, run

\* An engine that qualifies misses full qualification only for what the
\* operational gate is not told of.
LEMMA QualifiedEngine ==
  ASSUME NEW in \in GateInputs, NEW shown, Qualify!ToldTheSame(in),
         Qualify!EngineQualified(Qualify!Checks(in.run, shown)),
         in.market.class # "PAPER_REALTIME", in.market.provenance = {TRUE},
         in.market.checksum, in.market.granted = Qualify!Required
  PROVE  Qualify!FullyQualified(in.market)
<1> DEFINE run == in.run
           checks == Qualify!Checks(run, shown)
<1>1. ASSUME NEW b, NEW c \in BOOLEAN, NEW a \in {"INFRASTRUCTURE", "METHODOLOGY"},
             <<a, b, c>> \in checks
      PROVE  c = TRUE
  <2>1. PICK k \in checks : k = <<a, b, c>>
    BY <1>1
  <2>2. k[1] = a /\ k[3] = c
    BY <2>1
  <2>3. k[3]
    BY <1>1, <2>1, <2>2, Zenon DEF Qualify!EngineQualified, Qualify!PassedIn
  <2>4. c
    BY <2>2, <2>3, Zenon
  <2> QED BY <2>4
<1>2. /\ <<"INFRASTRUCTURE", "real_data", run.evidence \cap Qualify!Operational # {}>> \in checks
      /\ <<"INFRASTRUCTURE", "data_quality", run.quality = {TRUE}>> \in checks
      /\ <<"METHODOLOGY", "pnl_reconciliation", run.reconciled>> \in checks
  BY Zenon DEF Qualify!Checks, Qualify!StandingChecks
<1> HIDE DEF checks
<1>3. "INFRASTRUCTURE" \in {"INFRASTRUCTURE", "METHODOLOGY"}
      /\ "METHODOLOGY" \in {"INFRASTRUCTURE", "METHODOLOGY"}
  OBVIOUS
<1>4. run.evidence \cap Qualify!Operational # {} /\ run.quality = {TRUE} /\ run.reconciled
  <2>1. PICK real \in BOOLEAN : real <=> run.evidence \cap Qualify!Operational # {}
    OBVIOUS
  <2>2. PICK good \in BOOLEAN : good <=> run.quality = {TRUE}
    OBVIOUS
  <2>3. real = (run.evidence \cap Qualify!Operational # {}) /\ good = (run.quality = {TRUE})
    BY <2>1, <2>2
  <2>4. /\ <<"INFRASTRUCTURE", "real_data", real>> \in checks
        /\ <<"INFRASTRUCTURE", "data_quality", good>> \in checks
    BY <1>2, <2>3, Zenon
  <2>5. real = TRUE /\ good = TRUE
    BY <1>1, <1>3, <2>4
  <2>6. run.reconciled \in BOOLEAN
    BY VerdictsAssumption DEF VerdictsAssumption, Qualify!QualificationAssumption,
       Qualify!InputSet, Qualify!RunInputs, run
  <2>7. run.reconciled = TRUE
    BY <1>1, <1>2, <1>3, <2>6
  <2> QED BY <2>1, <2>2, <2>5, <2>7
<1>5. /\ run.evidence = {in.market.class} /\ run.quality = {in.market.quality}
      /\ run.reconciled = in.market.accounting
  BY DEF Qualify!ToldTheSame
<1> HIDE DEF run
<1>6. in.market.quality = TRUE
  BY <1>4, <1>5
<1>7. in.market.class = "HISTORICAL_MARKET_REAL"
  BY <1>4, <1>5 DEF Qualify!Operational
<1>8. in.market.accounting
  BY <1>4, <1>5, Zenon
<1> QED BY <1>6, <1>7, <1>8, Zenon DEF Qualify!FullyQualified, Qualify!MarketEvidence

\* The invariant carries what confirmation and gates promise.
LEMMA QualifySafe == QualifyInv => Qualify!Safe
<1> SUFFICES ASSUME QualifyInv
             PROVE  Qualify!Safe
  OBVIOUS
<1>1. Qualify!OnlyTheFrozenIsConfirmed
  <2> SUFFICES ASSUME NEW r \in result, r.state = "CONFIRMED", NEW f \in frozen
               PROVE  /\ TRUE \in audited /\ f.candidate = r.candidate
                      /\ f.window.symbol = r.window.symbol =>
                           (f.window.from .. (f.window.to - 1))
                             \cap (r.window.from .. (r.window.to - 1)) = {}
    BY DEF Qualify!OnlyTheFrozenIsConfirmed, QualifyInv, ResultInv
  <2>1. /\ TRUE \in audited /\ f.candidate = r.candidate
        /\ ~Qualify!Overlaps(f.window, r.window) /\ f.window \in Spans /\ r.window \in Spans
    BY DEF QualifyInv, ResultInv, FrozenInv
  <2> QED BY <2>1, DisjointTimes
<1>2. Qualify!QueueInOrder
  BY DEF QualifyInv, QueueInv
<1>3. Qualify!GatesAgree
  <2> SUFFICES ASSUME NEW v \in verdict
               PROVE  /\ Qualify!ToldTheSame(v.in) =>
                           /\ v.full => \A k \in v.checks :
                                k[1] \in {"INFRASTRUCTURE", "METHODOLOGY"}
                                  /\ k[2] \notin Qualify!UntoldToResearch => k[3]
                           /\ Qualify!EngineQualified(v.checks) /\ ~v.full =>
                                \/ v.in.market.class = "PAPER_REALTIME"
                                \/ v.in.market.provenance # {TRUE}
                                \/ ~v.in.market.checksum
                                \/ v.in.market.granted # Qualify!Required
                      /\ Qualify!OverallPass(v.checks) => \A r \in v.shown :
                           TRUE \in audited /\ \A f \in frozen : f.candidate = r.candidate
    BY Zenon DEF Qualify!GatesAgree
  <2>1. /\ v.in \in GateInputs /\ v.shown \subseteq result
        /\ v.checks = Qualify!Checks(v.in.run, v.shown)
        /\ v.full = Qualify!FullyQualified(v.in.market)
    BY DEF QualifyInv, VerdictInv
  <2>2. ASSUME Qualify!ToldTheSame(v.in), v.full, NEW k \in v.checks,
               k[1] \in {"INFRASTRUCTURE", "METHODOLOGY"}, k[2] \notin Qualify!UntoldToResearch
        PROVE  k[3]
    <3>1. Qualify!FullyQualified(v.in.market)
      BY <2>1, <2>2, Zenon
    <3> QED BY <2>1, <2>2, <3>1, FullyQualifiedChecks, Zenon
  <2>3. ASSUME Qualify!ToldTheSame(v.in), Qualify!EngineQualified(v.checks), ~v.full,
               v.in.market.class # "PAPER_REALTIME", v.in.market.provenance = {TRUE},
               v.in.market.checksum, v.in.market.granted = Qualify!Required
        PROVE  FALSE
    <3>1. ~Qualify!FullyQualified(v.in.market)
      BY <2>1, <2>3, Zenon
    <3> QED BY <2>1, <2>3, <3>1, QualifiedEngine, Zenon
  <2>4. ASSUME Qualify!OverallPass(v.checks), NEW r \in v.shown
        PROVE  TRUE \in audited /\ \A f \in frozen : f.candidate = r.candidate
    <3> DEFINE k == <<"CONFIRMATION", "confirmation", r.state = "CONFIRMED">>
    <3>1. k \in Qualify!OccasionalChecks(v.in.run, v.shown)
      BY DEF Qualify!OccasionalChecks
    <3>2. k \in v.checks
      BY <2>1, <3>1 DEF Qualify!Checks
    <3>3. k[3]
      BY <2>4, <3>2 DEF Qualify!OverallPass
    <3>4. r.state = "CONFIRMED" /\ r \in result
      BY <2>1, <2>4, <3>3
    <3> QED BY <1>1, <3>4 DEF Qualify!OnlyTheFrozenIsConfirmed
  <2> QED BY <2>2, <2>3, <2>4, Zenon
<1> QED BY <1>1, <1>2, <1>3 DEF Qualify!Safe

---------------------------------------------------------------------------
(* The event stores                                                        *)

BlockedRow == [family : BlockedFamilies, reason : BlockReasons, at : 0 .. StoreTime]

\* The digest of an event is what was appended up to it, and an event names
\* the digest before its own.
ChainInv ==
  /\ appended \in Seq(Tickets \X Types \X Values) /\ DOMAIN events = 1 .. Len(appended)
  /\ last = appended
  /\ \A i \in 1 .. Len(appended) :
       /\ events[i].hash = SubSeq(appended, 1, i)
       /\ events[i].previous = SubSeq(appended, 1, i - 1)

EventInv ==
  /\ value \in [Payloads -> Values]
  /\ events \in Seq([ticket : Tickets, type : Types, payload : Payloads,
                     previous : Seq(Tickets \X Types \X Values),
                     hash : Seq(Tickets \X Types \X Values)])

StoresInv == EventInv /\ ChainInv /\ blocked \in Seq(BlockedRow)

LEMMA InitStores == Stores!Init => StoresInv
BY DEF Stores!Init, StoresInv, EventInv, ChainInv

\* An event appended is hashed after what was appended before it.
LEMMA AppendKeeps ==
  ASSUME StoresInv, NEW t \in Tickets, NEW y \in Types, NEW p \in Payloads,
         Stores!AppendEvent(t, y, p)
  PROVE  StoresInv'
<1> DEFINE C == Tickets \X Types \X Values
           Event == [ticket : Tickets, type : Types, payload : Payloads,
                     previous : Seq(C), hash : Seq(C)]
           c == <<t, y, value[p]>>
           e == [ticket |-> t, type |-> y, payload |-> p,
                 previous |-> last, hash |-> Append(appended, c)]
           n == Len(appended)
<1>1. /\ value \in [Payloads -> Values] /\ events \in Seq(Event)
      /\ appended \in Seq(C) /\ DOMAIN events = 1 .. n /\ last = appended
      /\ \A i \in 1 .. n : /\ events[i].hash = SubSeq(appended, 1, i)
                           /\ events[i].previous = SubSeq(appended, 1, i - 1)
  BY DEF StoresInv, EventInv, ChainInv
<1>2. /\ events' = Append(events, e) /\ appended' = Append(appended, c)
      /\ last' = Append(appended, c) /\ value' = value /\ blocked' = blocked
  BY <1>1 DEF Stores!AppendEvent, Stores!EventHash, Stores!Content
<1>3. c \in C /\ Append(appended, c) \in Seq(C)
  BY <1>1
<1>4. e \in Event
  BY <1>1, <1>3
<1>5. events' \in Seq(Event) /\ Len(events) = n /\ n \in Nat
  BY <1>1, <1>2, <1>4
<1>6. DOMAIN events' = 1 .. n + 1 /\ Len(appended') = n + 1
  BY <1>1, <1>2, <1>5
<1>7. \A i \in 1 .. n : events'[i] = events[i]
  BY <1>1, <1>2, <1>5
<1>8. events'[n + 1] = e
  BY <1>1, <1>2, <1>5
<1>9. \A i \in 0 .. n : SubSeq(appended', 1, i) = SubSeq(appended, 1, i)
  BY <1>1, <1>2, <1>3
<1>10. /\ SubSeq(appended', 1, n + 1) = Append(appended, c)
       /\ SubSeq(appended', 1, n) = appended
  BY <1>1, <1>2, <1>3, <1>9
<1>11. e.hash = Append(appended, c) /\ e.previous = appended
  BY <1>1
<1> HIDE DEF e, Event, C, c, n
<1>12. ASSUME NEW i \in 1 .. n + 1
       PROVE  /\ events'[i].hash = SubSeq(appended', 1, i)
              /\ events'[i].previous = SubSeq(appended', 1, i - 1)
  <2>1. CASE i = n + 1
    <3>1. i - 1 = n
      BY <1>5, <2>1
    <3> QED BY <1>8, <1>10, <1>11, <2>1, <3>1
  <2>2. CASE i # n + 1
    <3>1. i \in 1 .. n /\ i \in 0 .. n /\ i - 1 \in 0 .. n
      BY <1>5, <2>2
    <3> QED BY <1>1, <1>7, <1>9, <3>1
  <2> QED BY <2>1, <2>2
<1>13. ChainInv'
  <2>1. appended' \in Seq(C) /\ last' = appended'
    BY <1>2, <1>3
  <2>2. DOMAIN events' = 1 .. Len(appended')
    BY <1>6
  <2> QED BY <1>6, <1>12, <2>1, <2>2 DEF ChainInv, C
<1>14. EventInv'
  BY <1>1, <1>2, <1>5 DEF EventInv, Event, C
<1> QED BY <1>2, <1>13, <1>14 DEF StoresInv

LEMMA StoresStepKeeps == StoresInv /\ [Stores!Next]_storeVars => StoresInv'
<1> SUFFICES ASSUME StoresInv, [Stores!Next]_storeVars PROVE StoresInv'
  OBVIOUS
<1>1. CASE UNCHANGED storeVars
  BY <1>1 DEF storeVars, StoresInv, EventInv, ChainInv
<1>2. ASSUME NEW t \in Tickets, NEW y \in Types, NEW p \in Payloads, Stores!AppendEvent(t, y, p)
      PROVE  StoresInv'
  BY <1>2, AppendKeeps
<1>3. ASSUME NEW p \in Payloads, NEW v \in Values, Stores!ChangePayload(p, v)
      PROVE  StoresInv'
  BY <1>3 DEF Stores!ChangePayload, StoresInv, EventInv, ChainInv
<1>4. CASE Stores!Clear
  BY <1>4 DEF Stores!Clear, StoresInv, EventInv, ChainInv
<1>5. ASSUME NEW batch \in Seq(BlockedRow), Stores!RecordBatch(batch)
      PROVE  StoresInv'
  <2>1. blocked' \in Seq(BlockedRow)
    BY <1>5 DEF Stores!RecordBatch, StoresInv
  <2> QED BY <1>5, <2>1 DEF Stores!RecordBatch, StoresInv, EventInv, ChainInv
<1>6. \A r \in Stores!Rows : r \in BlockedRow /\ <<r>> \in Seq(BlockedRow)
                             /\ \A q \in Stores!Rows : <<r, q>> \in Seq(BlockedRow)
  BY DEF Stores!Rows, BlockedRow
<1> QED BY <1>1, <1>2, <1>3, <1>4, <1>5, <1>6 DEF Stores!Next

\* With the chain as it should be up to an event, its digest is right exactly
\* when it says what was appended.
LEMMA ChainTells ==
  ASSUME StoresInv
  PROVE  /\ Stores!VerifyIntegrity
              <=> \A i \in DOMAIN events : Stores!Content(events[i]) = appended[i]
         /\ DOMAIN events = 1 .. Len(appended) /\ Len(events) = Len(appended)
<1> DEFINE C == Tickets \X Types \X Values
           n == Len(appended)
<1>1. /\ appended \in Seq(C) /\ DOMAIN events = 1 .. n /\ n \in Nat /\ Len(events) = n
      /\ \A i \in 1 .. n : /\ events[i].hash = SubSeq(appended, 1, i)
                           /\ events[i].previous = SubSeq(appended, 1, i - 1)
  BY DEF StoresInv, EventInv, ChainInv
<1>2. ASSUME NEW i \in 1 .. n
      PROVE  Stores!PreviousHash(i) = SubSeq(appended, 1, i - 1)
  <2>1. CASE i = 1
    <3>1. SubSeq(appended, 1, 0) = <<>>
      BY <1>1
    <3> QED BY <2>1, <3>1 DEF Stores!PreviousHash
  <2>2. CASE i # 1
    <3>1. i - 1 \in 1 .. n
      BY <1>1, <2>2
    <3> QED BY <1>1, <2>2, <3>1 DEF Stores!PreviousHash
  <2> QED BY <2>1, <2>2
<1>3. ASSUME NEW i \in 1 .. n, NEW x
      PROVE  SubSeq(appended, 1, i) = Append(SubSeq(appended, 1, i - 1), x) <=> x = appended[i]
  <2>1. /\ SubSeq(appended, 1, i) \in Seq(C) /\ SubSeq(appended, 1, i - 1) \in Seq(C)
        /\ Len(SubSeq(appended, 1, i)) = i /\ Len(SubSeq(appended, 1, i - 1)) = i - 1
        /\ \A k \in 1 .. i : SubSeq(appended, 1, i)[k] = appended[k]
        /\ \A k \in 1 .. i - 1 : SubSeq(appended, 1, i - 1)[k] = appended[k]
    BY <1>1
  <2>2. Append(SubSeq(appended, 1, i - 1), x)[i] = x
    BY <2>1
  <2>3. ASSUME x = appended[i]
        PROVE  SubSeq(appended, 1, i) = Append(SubSeq(appended, 1, i - 1), x)
    BY <1>1, <2>3
  <2> QED BY <1>1, <2>1, <2>2, <2>3
<1>4. ASSUME NEW i \in 1 .. n
      PROVE  (/\ events[i].hash = Stores!EventHash(events[i], Stores!PreviousHash(i))
              /\ events[i].previous = Stores!PreviousHash(i))
             <=> Stores!Content(events[i]) = appended[i]
  BY <1>1, <1>2, <1>3 DEF Stores!EventHash
<1> QED BY <1>1, <1>4 DEF Stores!VerifyIntegrity

LEMMA StoresVerified ==
  StoresInv => Stores!VerifiedMeansUnchanged /\ Stores!ReconstructionIsTrue
<1> SUFFICES ASSUME StoresInv
             PROVE  Stores!VerifiedMeansUnchanged /\ Stores!ReconstructionIsTrue
  OBVIOUS
<1>1. Stores!VerifiedMeansUnchanged
  BY ChainTells DEF Stores!VerifiedMeansUnchanged
<1>2. ASSUME Stores!VerifyIntegrity
      PROVE  [i \in DOMAIN events |-> Stores!Content(events[i])] = appended
  <2>1. \A i \in 1 .. Len(appended) : Stores!Content(events[i]) = appended[i]
    BY <1>2, ChainTells
  <2>2. DOMAIN events = 1 .. Len(appended)
    BY ChainTells
  <2>3. appended = [i \in 1 .. Len(appended) |-> appended[i]]
    BY DEF StoresInv, ChainInv
  <2> QED BY <2>1, <2>2, <2>3
<1> QED BY <1>1, <1>2, Zenon DEF Stores!ReconstructionIsTrue

LEMMA StoresTotalIsSum ==
  \A amounts : Stores!FoldFunction(+, 0, amounts) = Sum(amounts, DOMAIN amounts)
BY DEF Stores!FoldFunction, Stores!FoldFunctionOnSet,
       Stores!MapThenFoldSet, Sum, FoldFunctionOnSet, MapThenFoldSet

\* Later times first and, at one time, earlier rows first.
Newness(n, t, i) == t * (n + 1) - i

LEMMA LaterFirst ==
  ASSUME NEW n \in Nat, NEW i \in 1 .. n, NEW j \in 1 .. n, NEW s \in Nat, NEW t \in Nat
  PROVE  Newness(n, t, j) > Newness(n, s, i) <=> (t > s \/ (t = s /\ j < i))
<1> SUFFICES (t * (n + 1) - j > s * (n + 1) - i) <=> (t > s \/ (t = s /\ j < i))
  BY DEF Newness
<1>1. CASE t = s
  BY <1>1
<1>2. CASE t > s
  <2>1. t - s \in Nat /\ t - s >= 1 /\ t * (n + 1) = s * (n + 1) + (t - s) * (n + 1)
    BY <1>2
  <2>2. \A d \in Nat : d >= 1 => d * (n + 1) >= n + 1
    OBVIOUS
  <2>3. (t - s) * (n + 1) >= n + 1 /\ (t - s) * (n + 1) \in Nat /\ s * (n + 1) \in Nat
    BY <2>1, <2>2
  <2> DEFINE p == (t - s) * (n + 1)
             q == s * (n + 1)
             r == t * (n + 1)
  <2>4. p \in Nat /\ q \in Nat /\ r = q + p /\ p >= n + 1
    BY <2>1, <2>3
  <2> HIDE DEF p, q, r
  <2>5. r - j > q - i
    BY <2>4
  <2> QED BY <1>2, <2>5 DEF p, q, r
<1>3. CASE t < s
  <2>1. s - t \in Nat /\ s - t >= 1 /\ s * (n + 1) = t * (n + 1) + (s - t) * (n + 1)
    BY <1>3
  <2>2. \A d \in Nat : d >= 1 => d * (n + 1) >= n + 1
    OBVIOUS
  <2>3. (s - t) * (n + 1) >= n + 1 /\ (s - t) * (n + 1) \in Nat /\ t * (n + 1) \in Nat
    BY <2>1, <2>2
  <2> DEFINE p == (s - t) * (n + 1)
             q == s * (n + 1)
             r == t * (n + 1)
  <2>4. p \in Nat /\ r \in Nat /\ q = r + p /\ p >= n + 1
    BY <2>1, <2>3
  <2> HIDE DEF p, q, r
  <2>5. ~(r - j > q - i)
    BY <2>4
  <2> QED BY <1>3, <2>5 DEF p, q, r
<1> QED BY <1>1, <1>2, <1>3

\* A query returns the newest rows of those that match.
LEMMA QueryIsNewest ==
  ASSUME StoresInv, NEW f \in BlockedFamilies, NEW a \in 0 .. StoreTime, NEW b \in 0 .. StoreTime
  PROVE  LET rows == Stores!Matching(f, a, b)  q == Stores!Query(f, a, b)
         IN /\ IsFiniteSet(rows) /\ Cardinality(rows) \in Nat
            /\ Len(q) = Stores!Smaller(Cardinality(rows), QueryLimit)
            /\ \A i \in rows \ Stores!Range(q), j \in Stores!Range(q) :
                 blocked[j].at >= blocked[i].at
<1> DEFINE rows == Stores!Matching(f, a, b)
           n == Len(blocked)
           v == [i \in rows |-> Newness(n, blocked[i].at, i)]
           before(i) == {j \in rows : blocked[j].at > blocked[i].at
                                        \/ (blocked[j].at = blocked[i].at /\ j < i)}
           size == Stores!Smaller(Cardinality(rows), QueryLimit)
           q == Stores!Query(f, a, b)
<1>1. /\ n \in Nat /\ DOMAIN blocked = 1 .. n
      /\ \A i \in 1 .. n : blocked[i].at \in Nat
  <2>1. n \in Nat /\ DOMAIN blocked = 1 .. n /\ \A i \in 1 .. n : blocked[i] \in BlockedRow
    BY DEF StoresInv
  <2>2. \A r \in BlockedRow : r.at \in Nat
    BY DEF BlockedRow
  <2> QED BY <2>1, <2>2
<1>2. rows \subseteq 1 .. n
  BY <1>1 DEF Stores!Matching
<1> HIDE DEF rows
<1>3. IsFiniteSet(rows) /\ Cardinality(rows) \in Nat
  <2>1. IsFiniteSet(1 .. n)
    BY <1>1, FS_Interval
  <2> QED BY <1>2, <2>1, FS_Subset, FS_CardinalityType
<1>4. ASSUME NEW i \in rows, NEW j \in rows
      PROVE  v[j] > v[i] <=> j \in before(i)
  <2>1. i \in 1 .. n /\ j \in 1 .. n /\ blocked[i].at \in Nat /\ blocked[j].at \in Nat
    BY <1>1, <1>2
  <2>2. PICK s \in Nat, t \in Nat : s = blocked[i].at /\ t = blocked[j].at
    BY <2>1
  <2>3. v[j] = Newness(n, t, j) /\ v[i] = Newness(n, s, i)
    BY <2>2
  <2>4. j \in before(i) <=> t > s \/ (t = s /\ j < i)
    BY <2>2
  <2> HIDE DEF v, n, before
  <2>5. Newness(n, t, j) > Newness(n, s, i) <=> (t > s \/ (t = s /\ j < i))
    BY <1>1, <2>1, LaterFirst
  <2> QED BY <2>3, <2>4, <2>5
<1>5. \A i \in rows : v[i] \in Int
  <2> SUFFICES ASSUME NEW i \in rows PROVE v[i] \in Int
    OBVIOUS
  <2>1. i \in Int /\ blocked[i].at \in Int /\ v[i] = Newness(n, blocked[i].at, i)
    BY <1>1, <1>2
  <2> QED BY <1>1, <2>1 DEF Newness
<1>6. ASSUME NEW i \in rows, NEW j \in rows, v[i] = v[j]
      PROVE  i = j
  <2>1. ~(v[i] > v[j]) /\ ~(v[j] > v[i])
    BY <1>5, <1>6
  <2>2. i \notin before(j) /\ j \notin before(i)
    BY <1>4, <2>1
  <2> QED BY <1>1, <1>2, <2>2
<1>7. \A i \in rows : before(i) = {j \in rows : v[j] > v[i]}
  BY <1>4
<1>8. size \in Nat /\ size <= Cardinality(rows)
  BY <1>3, HistoryAssumption DEF HistoryAssumption, Stores!StoreAssumption, Stores!Smaller
<1>9. q = [k \in 1 .. size |-> CHOOSE i \in rows : Cardinality(before(i)) = k - 1]
  BY DEF Stores!Query, rows, Stores!Cardinality, Cardinality
<1> HIDE DEF v, size, q, n
<1>10. ASSUME NEW k \in 1 .. size, NEW x \in rows,
               Ahead(rows, v, x) = k - 1
       PROVE  q[k] \in rows /\ Ahead(rows, v, q[k]) = k - 1
  <2>1. Cardinality(before(x)) = k - 1
    BY <1>7, <1>10 DEF Ahead
  <2>2. q[k] = CHOOSE i \in rows : Cardinality(before(i)) = k - 1
    BY <1>9
  <2> HIDE DEF before
  <2>3. q[k] \in rows /\ Cardinality(before(q[k])) = k - 1
    BY <2>1, <2>2
  <2> QED BY <1>7, <2>3 DEF Ahead
<1> HIDE DEF before
<1>11. TopOnes(rows, v, size, q)
  <2>1. \A x, y \in rows : v[x] = v[y] => x = y
    BY <1>6
  <2>2. ByRank(rows, v, size, q)
    BY <1>10 DEF ByRank
  <2> QED BY <1>3, <1>5, <1>8, <2>1, <2>2, TakenByRank
<1>12. Len(q) = size /\ DOMAIN q = 1 .. size /\ Stores!Range(q) = {q[k] : k \in 1 .. size}
  BY <1>8, <1>9 DEF Stores!Range
<1>13. ASSUME NEW i \in rows \ Stores!Range(q), NEW j \in Stores!Range(q)
       PROVE  blocked[j].at >= blocked[i].at
  <2>1. j \in rows /\ v[j] > v[i]
    BY <1>11, <1>12, <1>13 DEF TopOnes
  <2>2. j \in before(i)
    BY <1>4, <2>1
  <2>3. blocked[j].at \in Nat /\ blocked[i].at \in Nat
    BY <1>1, <1>2, <2>1
  <2> QED BY <2>2, <2>3 DEF before
<1> QED BY <1>3, <1>12, <1>13 DEF rows, q, size

\* The counts of the reasons add up to the rows that match.
LEMMA ReasonsCount ==
  ASSUME StoresInv, NEW f \in BlockedFamilies, NEW a \in 0 .. StoreTime, NEW b \in 0 .. StoreTime
  PROVE  Stores!FoldFunction(+, 0, Stores!CountByReason(f, a, b))
           = Cardinality(Stores!Matching(f, a, b))
<1> DEFINE rows == Stores!Matching(f, a, b)
           L == {blocked[i].reason : i \in rows}
           group == [r \in L |-> {i \in rows : blocked[i].reason = r}]
           counts == [r \in L |-> Cardinality(group[r])]
           one == [i \in rows |-> 1]
<1>1. IsFiniteSet(rows) /\ Cardinality(rows) \in Nat
  BY QueryIsNewest
<1>2. Stores!CountByReason(f, a, b) = counts
  <2>1. \A r \in L : counts[r] = Cardinality({i \in rows : blocked[i].reason = r})
    OBVIOUS
  <2>2. Stores!CountByReason(f, a, b)
          = [r \in L |-> Cardinality({i \in rows : blocked[i].reason = r})]
    BY Zenon DEF Stores!CountByReason, Stores!Cardinality, Cardinality
  <2> HIDE DEF L, rows
  <2> QED BY <2>1, <2>2
<1> HIDE DEF rows
<1>3. Grouped(rows, L, group)
  BY DEF Grouped
<1>4. ASSUME NEW some \in SUBSET rows
      PROVE  Sum(one, some) = Cardinality(some)
  <2>1. IsFiniteSet(some) /\ Cardinality(some) \in Nat
    BY <1>1, FS_Subset, FS_CardinalityType
  <2>2. \A x \in some : one[x] = IF x \in some THEN 1 ELSE 0
    OBVIOUS
  <2> HIDE DEF one
  <2>3. Sum(one, some) = Weighed(1, Cardinality(some), 0, Cardinality(some))
    BY <2>1, <2>2, SumCounts
  <2> QED BY <2>1, <2>3 DEF Weighed
<1>5. \A r \in L : counts[r] = Sum(one, group[r])
  BY <1>4
<1>6. \A x \in rows : one[x] \in Int
  OBVIOUS
<1>7. DOMAIN counts = L
  OBVIOUS
<1> HIDE DEF L, group, counts, one
<1>8. Sum(counts, L) = Sum(one, rows)
  BY <1>1, <1>3, <1>5, <1>6, SumParts
<1>9. Sum(one, rows) = Cardinality(rows)
  BY <1>4
<1> QED BY <1>2, <1>7, <1>8, <1>9, StoresTotalIsSum DEF rows

LEMMA StoresInvSafe == StoresInv => Stores!Safe
<1> SUFFICES ASSUME StoresInv PROVE Stores!Safe
  OBVIOUS
<1>1. ASSUME NEW f \in BlockedFamilies, NEW a \in 0 .. StoreTime, NEW b \in 0 .. StoreTime
      PROVE  LET rows == Stores!Query(f, a, b)
                 counts == Stores!CountByReason(f, a, b)
             IN /\ Len(rows) = Stores!Smaller(Stores!FoldFunction(+, 0, counts), QueryLimit)
                /\ \A i \in Stores!Matching(f, a, b) \ Stores!Range(rows), j \in Stores!Range(rows) :
                     blocked[j].at >= blocked[i].at
  <2>1. Stores!FoldFunction(+, 0, Stores!CountByReason(f, a, b)) = Cardinality(Stores!Matching(f, a, b))
    BY ReasonsCount
  <2>2. Len(Stores!Query(f, a, b)) = Stores!Smaller(Cardinality(Stores!Matching(f, a, b)), QueryLimit)
    BY QueryIsNewest
  <2>3. \A i \in Stores!Matching(f, a, b) \ Stores!Range(Stores!Query(f, a, b)),
           j \in Stores!Range(Stores!Query(f, a, b)) : blocked[j].at >= blocked[i].at
    BY QueryIsNewest
  <2> QED BY <2>1, <2>2, <2>3
<1>2. Stores!QueriesAgreeWithCounts
  BY <1>1, Zenon DEF Stores!QueriesAgreeWithCounts
<1> QED BY <1>2, StoresVerified DEF Stores!Safe

---------------------------------------------------------------------------
(* The checks of a series                                                  *)

SeriesBar == [ts : Int, kind : Dataset!Kinds]

SeriesInv ==
  /\ dataset \in Seq(SeriesBar)
  /\ dataset # <<>> => dataset[1].ts = DatasetOrigin

LEMMA DatasetNumbers ==
  /\ DatasetOrigin \in Nat /\ DatasetBarsPerDay \in Nat /\ DatasetBarsPerDay > 0
  /\ SplitGap \in Nat /\ MinSplit \in Nat /\ MinSplit > 0 /\ Warmup \in Nat
  /\ \A r \in Strides : r \in Int
  /\ \A r \in Shares : r[1] \in 0 .. 100 /\ r[2] \in 0 .. 100
BY HistoryAssumption DEF HistoryAssumption, Dataset!DatasetAssumption

LEMMA InitSeries == Dataset!Init => SeriesInv
BY DEF Dataset!Init, SeriesInv

LEMMA SeriesStepKeeps ==
  ASSUME SeriesInv, [Dataset!Next]_datasetVars
  PROVE  SeriesInv'
<1>1. CASE UNCHANGED datasetVars
  BY <1>1 DEF datasetVars, SeriesInv
<1>2. CASE Dataset!Next
  <2>1. PICK stride \in Strides, kind \in Dataset!Kinds : Dataset!Extend(stride, kind)
    BY <1>2 DEF Dataset!Next
  <2>2. dataset \in Seq(SeriesBar) /\ stride \in Int /\ DatasetOrigin \in Int
    BY DatasetNumbers DEF SeriesInv
  <2> DEFINE time == IF dataset = <<>> THEN DatasetOrigin ELSE Dataset!Last(dataset).ts + stride
             b == [ts |-> time, kind |-> kind]
  <2>3. dataset' = Append(dataset, b)
    BY <2>1 DEF Dataset!Extend
  <2>4. time \in Int
    <3>1. CASE dataset # <<>>
      <4>1. Len(dataset) \in 1 .. Len(dataset)
        BY <2>2, <3>1
      <4>2. dataset[Len(dataset)] \in SeriesBar
        BY <2>2, <4>1
      <4>3. dataset[Len(dataset)].ts \in Int
        BY <4>2 DEF SeriesBar
      <4> QED BY <2>2, <3>1, <4>3 DEF Dataset!Last
    <3> QED BY <2>2, <3>1
  <2>5. b \in SeriesBar
    BY <2>4 DEF SeriesBar
  <2>6. b.ts = time
    OBVIOUS
  <2> HIDE DEF b
  <2>7. dataset' \in Seq(SeriesBar) /\ dataset'[1] = (IF dataset = <<>> THEN b ELSE dataset[1])
    BY <2>2, <2>3, <2>5
  <2>8. dataset'[1].ts = DatasetOrigin
    BY <2>6, <2>7 DEF SeriesInv
  <2> QED BY <2>7, <2>8 DEF SeriesInv
<1> QED BY <1>1, <1>2

\* What a series is made of.
LEMMA SeriesFacts ==
  ASSUME SeriesInv
  PROVE  /\ Len(dataset) \in Nat /\ DOMAIN dataset = 1 .. Len(dataset)
         /\ \A i \in 1 .. Len(dataset) : dataset[i].ts \in Int
         /\ dataset = <<>> <=> Len(dataset) = 0
         /\ dataset # <<>> => dataset[1].ts = DatasetOrigin
<1>1. dataset \in Seq(SeriesBar)
  BY DEF SeriesInv
<1>2. \A i \in 1 .. Len(dataset) : dataset[i] \in SeriesBar
  BY <1>1
<1> QED BY <1>1, <1>2 DEF SeriesBar, SeriesInv

\* Steps up take a series up from any bar to any later one.
LEMMA StepsGrow ==
  ASSUME NEW n \in Nat, NEW v, \A i \in 1 .. n : v[i] \in Int,
         \A i \in 2 .. n : v[i] > v[i - 1]
  PROVE  \A i, j \in 1 .. n : i <= j => v[i] <= v[j]
<1> SUFFICES ASSUME NEW i \in 1 .. n PROVE \A j \in 1 .. n : i <= j => v[i] <= v[j]
  OBVIOUS
<1> DEFINE S == {k \in Nat : i + k \in 1 .. n => v[i] <= v[i + k]}
<1>1. 0 \in S
  BY Z3
<1>2. ASSUME NEW k \in Nat, k \in S PROVE k + 1 \in S
  <2> SUFFICES ASSUME i + (k + 1) \in 1 .. n PROVE v[i] <= v[i + (k + 1)]
    OBVIOUS
  <2>1. i + k \in 1 .. n /\ i + (k + 1) \in 2 .. n /\ (i + (k + 1)) - 1 = i + k
    OBVIOUS
  <2>2. v[i] <= v[i + k]
    BY <1>2, <2>1
  <2>3. v[i + (k + 1)] > v[i + k]
    BY <2>1
  <2>4. v[i] \in Int /\ v[i + k] \in Int /\ v[i + (k + 1)] \in Int
    BY <2>1
  <2> QED BY <2>2, <2>3, <2>4
<1> HIDE DEF S
<1>3. Nat \subseteq S
  BY <1>1, <1>2, NatInduct
<1> SUFFICES ASSUME NEW j \in 1 .. n, i <= j PROVE v[i] <= v[j]
  OBVIOUS
<1>4. j - i \in Nat /\ i + (j - i) = j
  OBVIOUS
<1>5. j - i \in S
  BY <1>3, <1>4
<1> QED BY <1>4, <1>5 DEF S

\* Steps of one leave no bar out.
LEMMA StepsOfOne ==
  ASSUME NEW n \in Nat, NEW v, \A i \in 1 .. n : v[i] \in Int,
         \A i \in 2 .. n : v[i] = v[i - 1] + 1
  PROVE  \A i \in 1 .. n : v[i] = v[1] + i - 1
<1> DEFINE S == {k \in Nat : k + 1 \in 1 .. n => v[k + 1] = v[1] + (k + 1) - 1}
<1>1. 0 \in S
  OBVIOUS
<1>2. ASSUME NEW k \in Nat, k \in S PROVE k + 1 \in S
  <2> SUFFICES ASSUME (k + 1) + 1 \in 1 .. n PROVE v[(k + 1) + 1] = v[1] + ((k + 1) + 1) - 1
    OBVIOUS
  <2>1. k + 1 \in 1 .. n /\ (k + 1) + 1 \in 2 .. n /\ ((k + 1) + 1) - 1 = k + 1 /\ 1 \in 1 .. n
    OBVIOUS
  <2>2. v[k + 1] = v[1] + (k + 1) - 1
    BY <1>2, <2>1
  <2>3. v[(k + 1) + 1] = v[k + 1] + 1
    BY <2>1
  <2>4. v[1] \in Int
    BY <2>1
  <2> QED BY <2>2, <2>3, <2>4
<1> HIDE DEF S
<1>3. Nat \subseteq S
  BY <1>1, <1>2, NatInduct
<1> SUFFICES ASSUME NEW i \in 1 .. n PROVE v[i] = v[1] + i - 1
  OBVIOUS
<1>4. i - 1 \in Nat /\ (i - 1) + 1 = i
  OBVIOUS
<1>5. i - 1 \in S
  BY <1>3, <1>4
<1> QED BY <1>4, <1>5 DEF S

\* Division keeps the order.
LEMMA DivMonotone ==
  ASSUME NEW a \in Int, NEW b \in Int, a <= b, NEW d \in Nat, d > 0
  PROVE  a \div d \in Int /\ a \div d <= b \div d
OBVIOUS

LEMMA ShareOf ==
  ASSUME NEW n \in Nat, NEW p \in 0 .. 100
  PROVE  (n * p) \div 100 \in 0 .. n
<1>1. PICK x \in Int : x = n * p
  OBVIOUS
<1>2. 0 <= x /\ x <= 100 * n
  BY <1>1
<1>3. x \div 100 \in 0 .. n
  BY <1>2
<1> QED BY <1>1, <1>3

\* A growing series does not go back before its first bar.
LEMMA SeriesGrows ==
  ASSUME SeriesInv, Dataset!Increasing(dataset)
  PROVE  \A i, j \in 1 .. Len(dataset) : i <= j => dataset[i].ts <= dataset[j].ts
<1> DEFINE n == Len(dataset)
           v == [i \in 1 .. n |-> dataset[i].ts]
<1>1. n \in Nat /\ \A i \in 1 .. n : v[i] \in Int /\ v[i] = dataset[i].ts
  BY SeriesFacts
<1>2. \A i \in 2 .. n : dataset[i].ts > dataset[i - 1].ts
  BY DEF Dataset!Increasing
<1> HIDE DEF n, v
<1>3. \A i \in 2 .. n : v[i] > v[i - 1]
  <2> SUFFICES ASSUME NEW i \in 2 .. n PROVE v[i] > v[i - 1]
    OBVIOUS
  <2>1. i \in 1 .. n /\ i - 1 \in 1 .. n
    BY <1>1
  <2> QED BY <1>1, <1>2, <2>1
<1>4. \A i, j \in 1 .. n : i <= j => v[i] <= v[j]
  BY <1>1, <1>3, StepsGrow
<1> QED BY <1>1, <1>4 DEF n

\* The names of the checks that fail, one by one.
LEMMA NoCheckFails ==
  ASSUME NEW s
  PROVE  /\ s # <<>> /\ Dataset!GateFails(s) = {} <=>
              /\ s # <<>> /\ Dataset!Increasing(s) /\ Dataset!Unique(s)
              /\ ~Dataset!Some(s, Dataset!Misshapen) /\ ~Dataset!Some(s, {"negativeVolume"})
              /\ Dataset!GateGaps(s) = {} /\ ~(Len(s) < Warmup) /\ Dataset!Last(s).kind # "zeroVolume"
         /\ s = <<>> => Dataset!GateFails(s) # {}
         /\ Dataset!CheckerFails(s) = {} <=>
              /\ Dataset!Increasing(s) /\ Dataset!Unique(s)
              /\ ~Dataset!Some(s, Dataset!Misshapen \cup {"negativeVolume", "negativePrice"})
              /\ Dataset!CheckerGaps(s) = {} /\ ~(Len(s) < Warmup)
<1>1. s = <<>> => Dataset!GateFails(s) # {}
  BY DEF Dataset!GateFails
<1>2. ASSUME s # <<>>
      PROVE  Dataset!GateFails(s) = {} <=>
              /\ Dataset!Increasing(s) /\ Dataset!Unique(s)
              /\ ~Dataset!Some(s, Dataset!Misshapen) /\ ~Dataset!Some(s, {"negativeVolume"})
              /\ Dataset!GateGaps(s) = {} /\ ~(Len(s) < Warmup) /\ Dataset!Last(s).kind # "zeroVolume"
  BY <1>2 DEF Dataset!GateFails
<1>3. Dataset!CheckerFails(s) = {} <=>
              /\ Dataset!Increasing(s) /\ Dataset!Unique(s)
              /\ ~Dataset!Some(s, Dataset!Misshapen \cup {"negativeVolume", "negativePrice"})
              /\ Dataset!CheckerGaps(s) = {} /\ ~(Len(s) < Warmup)
  BY DEF Dataset!CheckerFails
<1> QED BY <1>1, <1>2, <1>3

LEMMA CheckersAgreeHolds == ASSUME SeriesInv PROVE Dataset!CheckersAgree
<1> DEFINE n == Len(dataset)
<1>0. /\ n \in Nat /\ \A i \in 1 .. n : dataset[i].ts \in Int
      /\ \A i \in 2 .. n : i \in 1 .. n /\ i - 1 \in 1 .. n
      /\ DOMAIN dataset = 1 .. n /\ (dataset = <<>> <=> n = 0)
  BY SeriesFacts
<1>1. ASSUME Dataset!GateFails(dataset) = {}, Dataset!CheckerFails(dataset) # {}
      PROVE  \/ \E i \in 2 .. n : dataset[i].ts - dataset[i - 1].ts >= 2
             \/ Dataset!Some(dataset, {"negativePrice"})
  <2>1. /\ Dataset!Increasing(dataset) /\ Dataset!Unique(dataset)
        /\ ~Dataset!Some(dataset, Dataset!Misshapen) /\ ~Dataset!Some(dataset, {"negativeVolume"})
        /\ ~(n < Warmup)
    BY <1>1, NoCheckFails
  <2>2. \/ Dataset!Some(dataset, Dataset!Misshapen \cup {"negativeVolume", "negativePrice"})
        \/ Dataset!CheckerGaps(dataset) # {}
    BY <1>1, <2>1, NoCheckFails
  <2>3. CASE Dataset!Some(dataset, Dataset!Misshapen \cup {"negativeVolume", "negativePrice"})
    BY <2>1, <2>3 DEF Dataset!Some
  <2>4. CASE Dataset!CheckerGaps(dataset) # {}
    <3>1. PICK i \in 2 .. n : 2 * (dataset[i].ts - dataset[i - 1].ts) > 3
      BY <2>4 DEF Dataset!CheckerGaps
    <3>2. dataset[i].ts \in Int /\ dataset[i - 1].ts \in Int
      BY <1>0
    <3>3. dataset[i].ts - dataset[i - 1].ts >= 2
      BY <3>1, <3>2
    <3> QED BY <3>3
  <2> QED BY <2>2, <2>3, <2>4
\* Steps of at most one interval: the checker's gaps.
<1>2. ASSUME Dataset!CheckerFails(dataset) = {}
      PROVE  /\ Dataset!Increasing(dataset)
             /\ \A i \in 2 .. n : dataset[i].ts = dataset[i - 1].ts + 1
  <2>1. Dataset!Increasing(dataset) /\ Dataset!CheckerGaps(dataset) = {}
    BY <1>2, NoCheckFails
  <2>2. ASSUME NEW i \in 2 .. n PROVE dataset[i].ts = dataset[i - 1].ts + 1
    <3>1. ~(2 * (dataset[i].ts - dataset[i - 1].ts) > 3) /\ dataset[i].ts > dataset[i - 1].ts
      BY <2>1 DEF Dataset!Increasing, Dataset!CheckerGaps
    <3>2. dataset[i].ts \in Int /\ dataset[i - 1].ts \in Int
      BY <1>0
    <3> QED BY <3>1, <3>2
  <2> QED BY <2>1, <2>2
<1>3. ASSUME Dataset!CheckerFails(dataset) = {}, Dataset!GateFails(dataset) # {}, dataset # <<>>
      PROVE  Dataset!Last(dataset).kind = "zeroVolume"
  <2>1. /\ Dataset!Increasing(dataset) /\ Dataset!Unique(dataset)
        /\ ~Dataset!Some(dataset, Dataset!Misshapen \cup {"negativeVolume", "negativePrice"})
        /\ ~(n < Warmup)
    BY <1>3, NoCheckFails
  <2>2. ~Dataset!Some(dataset, Dataset!Misshapen) /\ ~Dataset!Some(dataset, {"negativeVolume"})
    BY <2>1 DEF Dataset!Some
  <2>3. Dataset!GateGaps(dataset) = {}
    <3> SUFFICES ASSUME NEW i \in 2 .. n PROVE ~(2 * dataset[i].ts > 3 * (dataset[i - 1].ts + 1))
      BY DEF Dataset!GateGaps
    <3>1. dataset[i].ts = dataset[i - 1].ts + 1 /\ dataset[i - 1].ts \in Int
      BY <1>0, <1>2, <1>3
    <3>2. 1 \in 1 .. n /\ 1 <= i - 1 /\ i - 1 \in 1 .. n
      BY <1>0
    <3>3. dataset[1].ts <= dataset[i - 1].ts
      BY <2>1, <3>2, SeriesGrows
    <3>4. dataset[1].ts \in Nat
      BY <1>3, SeriesFacts, DatasetNumbers
    <3> QED BY <3>1, <3>3, <3>4
  <2> QED BY <1>3, <2>1, <2>2, <2>3, NoCheckFails
<1>4. ASSUME Dataset!CheckerFails(dataset) = {}, NEW i \in DOMAIN dataset
      PROVE  dataset[i].ts = dataset[1].ts + i - 1
  <2> DEFINE v == [k \in 1 .. n |-> dataset[k].ts]
  <2>1. \A k \in 1 .. n : v[k] = dataset[k].ts /\ v[k] \in Int
    BY <1>0
  <2> HIDE DEF v, n
  <2>2. \A k \in 2 .. n : v[k] = v[k - 1] + 1
    BY <1>0, <1>2, <1>4, <2>1
  <2>3. \A k \in 1 .. n : v[k] = v[1] + k - 1
    BY <1>0, <2>1, <2>2, StepsOfOne
  <2>4. i \in 1 .. n /\ 1 \in 1 .. n
    BY <1>0
  <2> QED BY <2>1, <2>3, <2>4
<1> QED BY <1>1, <1>3, <1>4 DEF Dataset!CheckersAgree

LEMMA SplitSharesNothingHolds == ASSUME SeriesInv PROVE Dataset!SplitSharesNothing
<1> SUFFICES ASSUME NEW share \in Shares, Len(dataset) >= MinSplit, Dataset!Increasing(dataset)
             PROVE  LET w == Dataset!Split(dataset, share) IN
                    /\ Dataset!AreDisjoint(dataset, w)
                    /\ w.bars[1] > 0 /\ w.bars[2] > 0 =>
                         /\ w.discovery[2] < w.confirmation[1]
                         /\ w.bars[2] = w.confirmation[2] - w.confirmation[1] + 1
  BY Zenon DEF Dataset!SplitSharesNothing
<1> DEFINE w == Dataset!Split(dataset, share)
<1>1. PICK n \in Nat : n = Len(dataset)
  BY SeriesFacts
<1>2. n > 0 /\ SplitGap \in Nat
  BY <1>1, DatasetNumbers
<1>3. PICK d \in 0 .. n : d = (n * share[1]) \div 100
  BY DatasetNumbers, ShareOf
<1>4. PICK c \in 0 .. n : c = (n * share[2]) \div 100
  BY DatasetNumbers, ShareOf
<1>5. PICK e \in Nat : e = d + SplitGap
  BY <1>2
<1>6. PICK f \in Nat : f = IF e + c > n THEN n ELSE e + c
  OBVIOUS
<1>7. /\ w.discovery = <<1, IF d > 0 THEN d ELSE 1>>
      /\ w.confirmation = <<IF e < n THEN e + 1 ELSE n, IF f > 0 THEN f ELSE n>>
      /\ w.bars = <<d, f - e>>
  BY <1>1, <1>3, <1>4, <1>5, <1>6 DEF Dataset!Split
<1> HIDE DEF w
<1>8. /\ w.discovery[2] = (IF d > 0 THEN d ELSE 1)
      /\ w.confirmation[1] = (IF e < n THEN e + 1 ELSE n)
      /\ w.confirmation[2] = (IF f > 0 THEN f ELSE n)
      /\ w.bars[1] = d /\ w.bars[2] = f - e
  BY <1>7
<1>9. w.discovery[2] \in 1 .. n /\ w.confirmation[1] \in 1 .. n /\ w.discovery[2] <= w.confirmation[1]
  BY <1>2, <1>5, <1>8
<1>10. Dataset!AreDisjoint(dataset, w)
  BY <1>1, <1>9, SeriesGrows DEF Dataset!AreDisjoint
<1>11. w.bars[1] > 0 /\ w.bars[2] > 0 =>
         /\ w.discovery[2] < w.confirmation[1]
         /\ w.bars[2] = w.confirmation[2] - w.confirmation[1] + 1
  BY <1>2, <1>5, <1>6, <1>8
<1> QED BY <1>10, <1>11 DEF w
\* Counting positions from the end counts as many.
LEMMA CountsBackwards ==
  ASSUME NEW n \in Nat, NEW A \in SUBSET (1 .. n), NEW B \in SUBSET (1 .. n),
         \A j \in 1 .. n : j \in B <=> n - j + 1 \in A
  PROVE  Cardinality(B) = Cardinality(A)
<1> DEFINE f == [j \in A |-> n - j + 1]
<1>1. IsFiniteSet(A)
  <2>1. IsFiniteSet(1 .. n)
    BY FS_Interval
  <2> QED BY <2>1, FS_Subset
<1>2. \A j \in 1 .. n : n - j + 1 \in 1 .. n /\ n - (n - j + 1) + 1 = j
  OBVIOUS
<1>3. \A j \in A : f[j] \in B
  BY <1>2
<1>4. \A j, k \in A : f[j] = f[k] => j = k
  <2>1. \A j \in A : j \in Int
    OBVIOUS
  <2> QED BY <2>1
<1>5. \A b \in B : \E j \in A : f[j] = b
  <2> SUFFICES ASSUME NEW b \in B PROVE \E j \in A : f[j] = b
    OBVIOUS
  <2>1. n - b + 1 \in A /\ n - (n - b + 1) + 1 = b
    BY <1>2
  <2>2. f[n - b + 1] = b
    BY <2>1
  <2> QED BY <2>1, <2>2
<1>6. f = [j \in A |-> f[j]]
  OBVIOUS
<1>8. DOMAIN f = A
  OBVIOUS
<1> HIDE DEF f
<1>7. f \in Bijection(A, B)
  <2>1. f \in [A -> B]
    BY <1>3, <1>6
  <2> QED BY <1>4, <1>5, <2>1 DEF Bijection, Injection, Surjection, IsInjective
<1> QED BY <1>1, <1>7, FS_Bijection DEF ExistsBijection

\* The place of a bar among the bars sorted by their open times.
PlaceOf(s, i) == Cardinality({j \in 1 .. Len(s) : s[j].ts < s[i].ts \/ (s[j].ts = s[i].ts /\ j <= i)})
BarsAt(s, k) == {s[i] : i \in {i \in 1 .. Len(s) : PlaceOf(s, i) = k}}

LEMMA ChecksumOf ==
  ASSUME NEW s, DOMAIN s = 1 .. Len(s)
  PROVE  Dataset!Checksum(s) = [k \in 1 .. Len(s) |-> CHOOSE b \in BarsAt(s, k) : TRUE]
BY DEF Dataset!Checksum, PlaceOf, BarsAt, Dataset!Cardinality, Cardinality

LEMMA ChecksumIgnoresOrderHolds == ASSUME SeriesInv PROVE Dataset!ChecksumIgnoresOrder
<1> SUFFICES ASSUME Dataset!Unique(dataset)
             PROVE  Dataset!Checksum(Dataset!Backwards(dataset)) = Dataset!Checksum(dataset)
  BY Zenon DEF Dataset!ChecksumIgnoresOrder
<1>1. PICK n \in Nat : n = Len(dataset)
  BY SeriesFacts
<1>2. PICK b : b = Dataset!Backwards(dataset)
  OBVIOUS
<1>3. DOMAIN dataset = 1 .. n /\ \A i \in 1 .. n : dataset[i].ts \in Int
  BY <1>1, SeriesFacts
<1>4. b = [i \in 1 .. n |-> dataset[n - i + 1]]
  BY <1>1, <1>2, <1>3 DEF Dataset!Backwards
<1>5. DOMAIN b = 1 .. n /\ Len(b) = n
  <2>1. dataset \in Seq(SeriesBar)
    BY DEF SeriesInv
  <2>2. \A i \in 1 .. n : dataset[n - i + 1] \in SeriesBar
    BY <1>1, <2>1
  <2>3. b \in [1 .. n -> SeriesBar]
    BY <1>4, <2>2
  <2> QED BY <1>4, <2>3
<1>6. \A i \in 1 .. n : n - i + 1 \in 1 .. n /\ b[i] = dataset[n - i + 1] /\ n - (n - i + 1) + 1 = i
  BY <1>4
<1>7. \A i, j \in 1 .. n : dataset[i].ts = dataset[j].ts => i = j
  BY <1>3 DEF Dataset!Unique
<1>8. ASSUME NEW i \in 1 .. n
      PROVE  PlaceOf(b, i) = PlaceOf(dataset, n - i + 1)
  <2>1. PICK p \in 1 .. n : p = n - i + 1
    BY <1>6
  <2> DEFINE A == {j \in 1 .. n : dataset[j].ts < dataset[p].ts \/ (dataset[j].ts = dataset[p].ts /\ j <= p)}
             B == {j \in 1 .. n : b[j].ts < b[i].ts \/ (b[j].ts = b[i].ts /\ j <= i)}
  <2>2. ASSUME NEW j \in 1 .. n
        PROVE  j \in B <=> n - j + 1 \in A
    <3>1. PICK q \in 1 .. n : q = n - j + 1 /\ b[j] = dataset[q] /\ b[i] = dataset[p]
      BY <1>6, <2>1
    <3>2. dataset[q].ts = dataset[p].ts => q = p
      BY <1>7
    <3>3. q = p => j <= i /\ q <= p
      BY <2>1, <3>1
    <3>4. q \in A <=> dataset[q].ts < dataset[p].ts \/ (dataset[q].ts = dataset[p].ts /\ q <= p)
      OBVIOUS
    <3>5. j \in B <=> dataset[q].ts < dataset[p].ts \/ (dataset[q].ts = dataset[p].ts /\ j <= i)
      BY <3>1
    <3> QED BY <3>1, <3>2, <3>3, <3>4, <3>5
  <2>3. A \in SUBSET (1 .. n) /\ B \in SUBSET (1 .. n)
    OBVIOUS
  <2>4. PlaceOf(b, i) = Cardinality(B) /\ PlaceOf(dataset, n - i + 1) = Cardinality(A)
    BY <1>1, <1>5, <2>1 DEF PlaceOf
  <2> HIDE DEF A, B
  <2>5. Cardinality(B) = Cardinality(A)
    BY <2>2, <2>3, CountsBackwards
  <2> QED BY <2>4, <2>5
<1>9. ASSUME NEW k
      PROVE  BarsAt(b, k) = BarsAt(dataset, k)
  <2>1. ASSUME NEW x \in BarsAt(b, k) PROVE x \in BarsAt(dataset, k)
    <3>1. PICK i \in 1 .. n : x = b[i] /\ PlaceOf(b, i) = k
      BY <1>5 DEF BarsAt
    <3>2. PICK p \in 1 .. n : p = n - i + 1 /\ b[i] = dataset[p]
      BY <1>6
    <3>3. PlaceOf(dataset, p) = k
      BY <1>8, <3>1, <3>2
    <3> QED BY <1>1, <3>1, <3>2, <3>3 DEF BarsAt
  <2>2. ASSUME NEW x \in BarsAt(dataset, k) PROVE x \in BarsAt(b, k)
    <3>1. PICK p \in 1 .. n : x = dataset[p] /\ PlaceOf(dataset, p) = k
      BY <1>1 DEF BarsAt
    <3>2. PICK i \in 1 .. n : i = n - p + 1 /\ n - i + 1 = p /\ b[i] = dataset[p]
      BY <1>6
    <3>3. PlaceOf(b, i) = k
      BY <1>8, <3>1, <3>2
    <3> QED BY <1>5, <3>1, <3>2, <3>3 DEF BarsAt
  <2> QED BY <2>1, <2>2
<1>10. /\ Dataset!Checksum(b) = [k \in 1 .. n |-> CHOOSE x \in BarsAt(b, k) : TRUE]
       /\ Dataset!Checksum(dataset) = [k \in 1 .. n |-> CHOOSE x \in BarsAt(dataset, k) : TRUE]
  BY <1>1, <1>3, <1>5, ChecksumOf
<1>11. ASSUME NEW k \in 1 .. n
       PROVE  (CHOOSE x \in BarsAt(b, k) : TRUE) = (CHOOSE x \in BarsAt(dataset, k) : TRUE)
  BY <1>9
<1> QED BY <1>2, <1>10, <1>11

\* A finite set of numbers has a smallest and a largest one.
LEMMA Extremes ==
  ASSUME NEW S, IsFiniteSet(S), S # {}, \A x \in S : x \in Int
  PROVE  \E low, high \in S : \A x \in S : low <= x /\ x <= high
<1> DEFINE up == [x \in S |-> x]
           down == [x \in S |-> -x]
<1>1. Cardinality(S) \in Nat /\ 1 \in 1 .. Cardinality(S)
  BY FS_CardinalityType, FS_EmptySet
<1>2. ASSUME NEW v, \A x \in S : v[x] \in Int, \A x, y \in S : v[x] = v[y] => x = y
      PROVE  \E x \in S : \A y \in S : ~(v[y] > v[x])
  <2>1. PICK x \in S : Cardinality({y \in S : v[y] > v[x]}) = 1 - 1
    <3>1. \A i \in 1 .. Cardinality(S) : \E x \in S : Cardinality({y \in S : v[y] > v[x]}) = i - 1
      BY <1>2, Ranked
    <3> QED BY <1>1, <3>1
  <2>2. IsFiniteSet({y \in S : v[y] > v[x]})
    BY FS_Subset
  <2>3. {y \in S : v[y] > v[x]} = {}
    BY <2>1, <2>2, FS_EmptySet
  <2> QED BY <2>3
<1>3. PICK high \in S : \A y \in S : ~(up[y] > up[high])
  <2>1. \A x \in S : up[x] \in Int
    OBVIOUS
  <2>2. \A x, y \in S : up[x] = up[y] => x = y
    OBVIOUS
  <2> HIDE DEF up
  <2> QED BY <1>2, <2>1, <2>2
<1>4. PICK low \in S : \A y \in S : ~(down[y] > down[low])
  <2>1. \A x \in S : down[x] \in Int
    OBVIOUS
  <2>2. \A x, y \in S : down[x] = down[y] => x = y
    OBVIOUS
  <2> HIDE DEF down
  <2> QED BY <1>2, <2>1, <2>2
<1>5. \A y \in S : y <= high
  BY <1>3
<1>6. \A y \in S : low <= y
  BY <1>4
<1> QED BY <1>5, <1>6

LEMMA EvaluationIsInteriorHolds == ASSUME SeriesInv PROVE Dataset!EvaluationIsInterior
<1> DEFINE n == Len(dataset)
           D == Dataset!Days(dataset)
           day == [i \in 1 .. n |-> Dataset!DayOf(dataset[i])]
           C == {d \in D : Dataset!IsCompleteDay(dataset, d)}
           P == {d \in D : ~Dataset!IsCompleteDay(dataset, d)}
           E == {d \in D : Dataset!IsEvaluation(dataset, d)}
           a == Dataset!Analyze(dataset)
<1>1. /\ n \in Nat /\ DOMAIN dataset = 1 .. n /\ \A i \in 1 .. n : dataset[i].ts \in Int
  BY SeriesFacts
<1>2. \A i \in 1 .. n : day[i] = dataset[i].ts \div DatasetBarsPerDay
  BY DEF Dataset!DayOf
<1>3. \A i \in 1 .. n : day[i] \in Int /\ day[i] = Dataset!DayOf(dataset[i])
  BY <1>1, <1>2, DivMonotone, DatasetNumbers
<1>4. D = {day[i] : i \in 1 .. n}
  BY <1>1 DEF Dataset!Days
<1>5. /\ a.total = Cardinality(D) /\ a.complete = Cardinality(C) /\ a.partial = Cardinality(P)
      /\ a.evaluation = Cardinality(E)
  <2>1. a = [total |-> Cardinality(D), complete |-> Cardinality(C), partial |-> Cardinality(P),
             evaluation |-> Cardinality(E)]
    BY DEF Dataset!Analyze, Dataset!Cardinality, Cardinality
  <2> HIDE DEF a, C, P, E, D
  <2> QED BY <2>1
<1> HIDE DEF day, D
<1>6. IsFiniteSet(D) /\ (\A d \in D : d \in Int) /\ Cardinality(D) \in Nat
  <2>1. IsFiniteSet(1 .. n)
    <3>1. n \in Nat
      BY <1>1
    <3> HIDE DEF n
    <3> QED BY <3>1, FS_Interval
  <2>2. IsFiniteSet(D)
    BY <1>4, <2>1, ImageFinite
  <2> QED BY <1>3, <1>4, <2>2, FS_CardinalityType
<1>7. \A d : Dataset!IsEvaluation(dataset, d) <=>
               d \notin DstDays /\ (\E e \in D : e < d) /\ \E f \in D : f > d
  BY DEF Dataset!IsEvaluation, D
<1>8. Cardinality(C) + Cardinality(P) = Cardinality(D)
  <2>1. P = D \ C /\ D \cap C = C
    OBVIOUS
  <2>2. Cardinality(D \ C) = Cardinality(D) - Cardinality(D \cap C)
    BY <1>6, FS_Difference
  <2>3. Cardinality(C) \in Nat
    BY <1>6, FS_Subset, FS_CardinalityType
  <2> HIDE DEF C, P
  <2> QED BY <1>6, <2>1, <2>2, <2>3
<1>9. ASSUME Cardinality(D) > 0
      PROVE  Cardinality(E) <= IF Cardinality(D) < 2 THEN 0 ELSE Cardinality(D) - 2
  <2>1. D # {}
    BY <1>6, <1>9, FS_EmptySet
  <2>2. PICK low \in D, high \in D : \A d \in D : low <= d /\ d <= high
    BY <1>6, <2>1, Extremes
  <2>3. low \in Int /\ high \in Int
    BY <1>6
  <2>4. low \notin E /\ high \notin E
    BY <1>6, <1>7, <2>2, <2>3
  <2> HIDE DEF E
  <2>5. E \subseteq (D \ {low}) \ {high}
    BY <2>4 DEF E
  <2>6. IsFiniteSet(D \ {low}) /\ Cardinality(D \ {low}) = Cardinality(D) - 1
    BY <1>6, FS_RemoveElement
  <2>7. CASE low = high
    <3>1. E = {}
      <4> SUFFICES ASSUME NEW d \in E PROVE FALSE
        OBVIOUS
      <4>1. d \in D /\ d # low
        BY <2>4 DEF E
      <4>2. d \in Int /\ low <= d /\ d <= low
        BY <1>6, <2>2, <2>7, <4>1
      <4> QED BY <2>3, <4>1, <4>2
    <3>2. Cardinality(E) = 0
      BY <3>1, FS_EmptySet
    <3> QED BY <1>6, <3>2
  <2>8. CASE low # high
    <3>1. IsFiniteSet((D \ {low}) \ {high}) /\ Cardinality((D \ {low}) \ {high}) = Cardinality(D) - 2
      <4>1. high \in D \ {low}
        BY <2>8
      <4>2. IsFiniteSet((D \ {low}) \ {high})
            /\ Cardinality((D \ {low}) \ {high}) = Cardinality(D \ {low}) - 1
        BY <2>6, <4>1, FS_RemoveElement
      <4> QED BY <1>6, <2>6, <4>2
    <3>2. Cardinality(E) <= Cardinality(D) - 2 /\ IsFiniteSet(E)
      BY <2>5, <3>1, FS_Subset
    <3>3. Cardinality(E) \in Nat
      BY <3>2, FS_CardinalityType
    <3> QED BY <1>6, <3>2, <3>3
  <2> QED BY <2>7, <2>8
<1>10. ASSUME NEW i \in Dataset!EvaluationBars(dataset)
       PROVE  /\ i \in 1 .. n /\ day[i] \notin DstDays
              /\ \E e \in 1 .. n : day[e] < day[i]
              /\ \E f \in 1 .. n : day[f] > day[i]
  <2>1. i \in 1 .. n /\ Dataset!IsEvaluation(dataset, day[i])
    BY <1>1, <1>3 DEF Dataset!EvaluationBars
  <2> QED BY <1>4, <1>7, <2>1
<1>11. ASSUME NEW i \in Dataset!EvaluationBars(dataset), NEW b \in Dataset!Range(dataset),
              (\A c \in Dataset!Range(dataset) : c.ts <= b.ts) \/ (\A c \in Dataset!Range(dataset) : c.ts >= b.ts)
       PROVE  Dataset!DayOf(dataset[i]) # Dataset!DayOf(b)
  <2>1. Dataset!Range(dataset) = {dataset[k] : k \in 1 .. n}
    BY <1>1 DEF Dataset!Range, Range
  <2>2. PICK k \in 1 .. n : b = dataset[k]
    BY <2>1
  <2>3. \A l \in 1 .. n : dataset[l] \in Dataset!Range(dataset)
    BY <2>1
  <2>4. i \in 1 .. n /\ day[i] \in Int /\ day[k] \in Int
    BY <1>3, <1>10
  <2>5. \A l, m \in 1 .. n : dataset[l].ts <= dataset[m].ts => day[l] <= day[m]
    BY <1>1, <1>2, DivMonotone, DatasetNumbers
  <2>6. CASE \A c \in Dataset!Range(dataset) : c.ts <= b.ts
    <3>1. PICK f \in 1 .. n : day[f] > day[i]
      BY <1>10
    <3>2. day[f] <= day[k]
      BY <2>2, <2>3, <2>5, <2>6
    <3>3. day[i] # day[k]
      BY <1>3, <2>4, <3>1, <3>2
    <3> QED BY <1>3, <2>2, <2>4, <3>3
  <2>7. CASE \A c \in Dataset!Range(dataset) : c.ts >= b.ts
    <3>1. PICK f \in 1 .. n : day[f] < day[i]
      BY <1>10
    <3>a. dataset[k].ts <= dataset[f].ts
      <4>1. dataset[f].ts >= dataset[k].ts
        BY <2>2, <2>3, <2>7
      <4> QED BY <1>1, <4>1
    <3>2. day[k] <= day[f]
      BY <2>5, <3>a
    <3>3. day[i] # day[k]
      BY <1>3, <2>4, <3>1, <3>2
    <3> QED BY <1>3, <2>2, <2>4, <3>3
  <2> QED BY <1>11, <2>6, <2>7
<1> HIDE DEF C, P, E, a
<1>12. a.complete + a.partial = a.total
       /\ (a.total > 0 => a.evaluation <= (IF a.total < 2 THEN 0 ELSE a.total - 2))
  BY <1>5, <1>8, <1>9
<1>13. \A i \in Dataset!EvaluationBars(dataset) : Dataset!DayOf(dataset[i]) \notin DstDays
  BY <1>3, <1>10
<1> QED BY <1>11, <1>12, <1>13 DEF Dataset!EvaluationIsInterior, a

LEMMA SeriesInvSafe == ASSUME SeriesInv PROVE Dataset!Safe
BY CheckersAgreeHolds, ChecksumIgnoresOrderHolds, EvaluationIsInteriorHolds, SplitSharesNothingHolds
   DEF Dataset!Safe

---------------------------------------------------------------------------
(* The snapshots of candles                                                *)

Candles == [ts : Snapshots!Stamps, closed : BOOLEAN]

\* The bars read lie in the range, before the cursor, in order.
ReadInOrder(bars, range, cursor) ==
  /\ \A i \in 1 .. Len(bars) : range[1] <= bars[i].ts /\ bars[i].ts <= range[2] /\ bars[i].ts < cursor
  /\ \A i, j \in 1 .. Len(bars) : i < j => bars[i].ts < bars[j].ts

\* Every candle between two times was read, but those there are not.
AllRead(holes, bars, from, below) ==
  \A s \in Snapshots!Stamps \ holes :
    from <= s /\ s < below => \E i \in 1 .. Len(bars) : bars[i].ts = s

Downloads == [range : Ranges, cursor : Nat, bars : Seq(Candles), done : BOOLEAN, settled : BOOLEAN]

DownloadInv(d, now, holes) ==
  /\ d \in Downloads /\ d.cursor >= d.range[1]
  /\ d.cursor = d.range[1] \/ d.cursor - 1 \in Snapshots!Stamps
  /\ ReadInOrder(d.bars, d.range, d.cursor)
  /\ AllRead(holes, d.bars, d.range[1], d.cursor)
  /\ d.settled => d.range[2] <= now
  /\ d.done /\ d.settled /\ d.range[1] < d.range[2] =>
       AllRead(holes, d.bars, d.range[1], d.range[2] + 1)

FetchInv == fetch # Snapshots!Idle => DownloadInv(fetch, clock, gaps)

\* What metadata say of the bars they name.
Told(meta) ==
  /\ meta.bars = Len(meta.checksum)
  /\ meta.checksum # <<>> =>
       meta.start = meta.checksum[1].ts /\ meta.end = meta.checksum[Len(meta.checksum)].ts

\* What is still to be written: the last n files of one snapshot.
Trio(meta, n) ==
  IF n = 3 THEN <<<<"ohlcv", meta.checksum>>, <<"metadata", meta>>, <<"checksum", meta.checksum>>>>
  ELSE IF n = 2 THEN <<<<"metadata", meta>>, <<"checksum", meta.checksum>>>>
  ELSE <<<<"checksum", meta.checksum>>>>

FilesInv ==
  /\ files = [f \in Snapshots!Files |-> files[f]]
  /\ \A m \in files["metadata"] : Told(m) /\ \A k \in files["metadata"] : m = k
  /\ \A b, c \in files["ohlcv"] : b = c

\* The first snapshot of a directory, file by file.
FirstInv(meta, n) ==
  taken = 1 =>
    /\ files["checksum"] = {}
    /\ n = 1 => files["metadata"] = {meta}

WritingInv ==
  \/ /\ writing = <<>>
     /\ taken = 0 => fetch = Snapshots!Idle
     /\ taken = 0 \/ (taken = 1 /\ fetch # Snapshots!Idle) => files["checksum"] = {}
     /\ taken = 1 /\ files["checksum"] # {} => Snapshots!Named
  \/ \E meta : \E n \in 1 .. 3 :
       /\ Told(meta) /\ writing = Trio(meta, n) /\ fetch = Snapshots!Idle /\ taken > 0
       /\ FirstInv(meta, n)

SnapInv ==
  /\ clock \in Snapshots!Stamps /\ taken \in Nat
  /\ FetchInv /\ FilesInv /\ WritingInv

LEMMA SnapNumbers ==
  /\ Interval \in Nat /\ Interval > 1 /\ PageLimit \in Nat /\ PageLimit >= 1 /\ LastStamp \in Nat
  /\ \A r \in Ranges : r[1] \in Nat /\ r[2] \in Nat
  /\ LastStamp \div Interval \in Nat
<1>1. Interval \in Nat /\ Interval > 1 /\ PageLimit \in Nat /\ PageLimit >= 1 /\ LastStamp \in Nat
      /\ Ranges \subseteq Nat \X Nat
  BY HistoryAssumption DEF HistoryAssumption, Snapshots!SnapshotAssumption
<1> QED BY <1>1

\* The time stamps are numbers, finitely many, and none follows another at once.
LEMMA StampFacts ==
  /\ Snapshots!Stamps \subseteq Nat /\ IsFiniteSet(Snapshots!Stamps)
  /\ \A s \in Snapshots!Stamps : s + 1 \notin Snapshots!Stamps
<1> DEFINE K == 0 .. (LastStamp \div Interval)
<1>1. Snapshots!Stamps = {k * Interval : k \in K}
  BY DEF Snapshots!Stamps
<1>2. K \subseteq Nat /\ IsFiniteSet(K)
  BY SnapNumbers, FS_Interval
<1>3. \A k \in Nat : k * Interval \in Nat
  BY SnapNumbers
<1> HIDE DEF K
<1>4. IsFiniteSet({k * Interval : k \in K})
  <2> DEFINE times == [k \in K |-> k * Interval]
  <2>1. {k * Interval : k \in K} = {times[k] : k \in K}
    OBVIOUS
  <2> HIDE DEF times
  <2>2. IsFiniteSet({times[k] : k \in K})
    BY <1>2, ImageFinite
  <2> QED BY <2>1, <2>2
<1>5. ASSUME NEW k \in Nat, NEW m \in Nat
      PROVE  k * Interval + 1 # m * Interval
  <2>1. CASE m <= k
    <3>1. k - m \in Nat /\ k * Interval = m * Interval + (k - m) * Interval
      BY <2>1, SnapNumbers
    <3>2. (k - m) * Interval \in Nat /\ m * Interval \in Nat
      BY <1>3, <3>1
    <3> QED BY <3>1, <3>2
  <2>2. CASE m > k
    <3>1. PICK d \in Nat : d = m - k - 1
      BY <2>2
    <3>2. m * Interval = k * Interval + Interval + d * Interval
      <4>1. m = k + 1 + d
        BY <3>1
      <4> QED BY <4>1, SnapNumbers
    <3>3. d * Interval \in Nat /\ k * Interval \in Nat
      BY <1>3
    <3> QED BY <3>2, <3>3, SnapNumbers
  <2> QED BY <2>1, <2>2
<1> QED BY <1>1, <1>2, <1>3, <1>4, <1>5

\* What a page holds: the oldest candles of those asked for, in order.
LEMMA PageIsOldest ==
  ASSUME NEW from \in Nat, NEW to \in Nat
  PROVE  LET found == Snapshots!Listed(from, to)
             page == Snapshots!Page(from, to)
         IN /\ page \in Seq(Candles) /\ Len(page) \in Nat
            /\ \A k \in 1 .. Len(page) : page[k].ts \in found
            /\ \A k, l \in 1 .. Len(page) : k < l => page[k].ts < page[l].ts
            /\ \A s \in found : (\E k \in 1 .. Len(page) : page[k].ts = s)
                                \/ \A k \in 1 .. Len(page) : page[k].ts < s
            /\ Snapshots!Short(page) \/ page = <<>> =>
                 \A s \in found : \E k \in 1 .. Len(page) : page[k].ts = s
<1> DEFINE found == Snapshots!Listed(from, to)
           size == IF Cardinality(found) < PageLimit THEN Cardinality(found) ELSE PageLimit
           v == [s \in found |-> -s]
           q == [k \in 1 .. size |-> CHOOSE s \in found : Cardinality({x \in found : x < s}) = k - 1]
           page == Snapshots!Page(from, to)
<1>1. found \subseteq Nat /\ found \subseteq Snapshots!Stamps /\ IsFiniteSet(found)
  BY StampFacts, FS_Subset DEF Snapshots!Listed
<1>2. page = [k \in 1 .. size |-> Snapshots!Bar(q[k])]
  BY DEF Snapshots!Page, Snapshots!Cardinality, Cardinality
<1> HIDE DEF found
<1>3. Cardinality(found) \in Nat
  BY <1>1, FS_CardinalityType
<1>4. size \in Nat /\ size <= Cardinality(found) /\ size <= PageLimit
      /\ (size < PageLimit \/ size = 0 => size = Cardinality(found))
  BY <1>3, SnapNumbers
<1>5. /\ \A s \in found : v[s] \in Int
      /\ \A s, t \in found : v[s] = v[t] => s = t
      /\ \A s, t \in found : v[t] > v[s] <=> t < s
  BY <1>1
<1>6. ASSUME NEW s \in found
      PROVE  Ahead(found, v, s) = Cardinality({x \in found : x < s})
  <2>1. {x \in found : v[x] > v[s]} = {x \in found : x < s}
    BY <1>5
  <2> HIDE DEF v
  <2> QED BY <2>1 DEF Ahead
<1> HIDE DEF v, size
<1>7. ByRank(found, v, size, q)
  <2> SUFFICES ASSUME NEW k \in 1 .. size, NEW s \in found, Ahead(found, v, s) = k - 1
               PROVE  q[k] \in found /\ Ahead(found, v, q[k]) = k - 1
    BY DEF ByRank
  <2>1. Cardinality({x \in found : x < s}) = k - 1
    BY <1>6
  <2>2. q[k] \in found /\ Cardinality({x \in found : x < q[k]}) = k - 1
    BY <2>1
  <2> QED BY <1>6, <2>2
<1> HIDE DEF q
<1>8. TopOnes(found, v, size, q)
  <2>1. \A s \in found : v[s] \in Int
    BY <1>5
  <2>2. \A s, t \in found : v[s] = v[t] => s = t
    BY <1>5
  <2> QED BY <1>1, <1>4, <1>7, <2>1, <2>2, TakenByRank
<1>9. ASSUME NEW k \in 1 .. size
      PROVE  page[k] \in Candles /\ page[k].ts = q[k]
  <2>1. q[k] \in Snapshots!Stamps /\ page[k] = Snapshots!Bar(q[k])
    BY <1>1, <1>2, <1>8 DEF TopOnes
  <2>2. (q[k] < clock) \in BOOLEAN
    OBVIOUS
  <2> QED BY <2>1, <2>2 DEF Snapshots!Bar, Candles
<1>10. DOMAIN page = 1 .. size /\ page \in Seq(Candles) /\ Len(page) = size
  <2>1. page \in [1 .. size -> Candles]
    <3>1. page = [k \in 1 .. size |-> page[k]]
      BY <1>2
    <3> HIDE DEF page
    <3> QED BY <1>9, <3>1
  <2> HIDE DEF page
  <2> QED BY <1>4, <2>1
<1> HIDE DEF page
<1>11. \A k, l \in 1 .. size : k < l => page[k].ts < page[l].ts
  BY <1>5, <1>8, <1>9 DEF TopOnes
<1>12. \A s \in found : (\E k \in 1 .. size : page[k].ts = s) \/ \A k \in 1 .. size : page[k].ts < s
  BY <1>5, <1>8, <1>9 DEF TopOnes
<1>13. ASSUME Snapshots!Short(page) \/ page = <<>>, NEW s \in found
       PROVE  \E k \in 1 .. size : page[k].ts = s
  <2>1. size < PageLimit \/ size = 0
    BY <1>10, <1>13 DEF Snapshots!Short
  <2>2. \E k \in 1 .. size : q[k] = s
    BY <1>4, <1>8, <2>1 DEF TopOnes
  <2> QED BY <1>9, <2>2
<1>14. \A k \in 1 .. size : page[k].ts \in found
  BY <1>8, <1>9 DEF TopOnes
<1> QED BY <1>4, <1>10, <1>11, <1>12, <1>13, <1>14 DEF found, page

LEMMA InitSnapshots == Snapshots!Init => SnapInv
<1> SUFFICES ASSUME Snapshots!Init PROVE SnapInv
  OBVIOUS
<1>1. clock \in Snapshots!Stamps /\ fetch = Snapshots!Idle /\ writing = <<>> /\ taken = 0
      /\ files = [f \in Snapshots!Files |-> {}]
  BY DEF Snapshots!Init
<1>2. FilesInv
  BY <1>1 DEF FilesInv, Snapshots!Files
<1>3. FetchInv
  BY <1>1 DEF FetchInv
<1>4. files["checksum"] = {}
  BY <1>1 DEF Snapshots!Files
<1>5. WritingInv
  BY <1>1, <1>4 DEF WritingInv
<1> QED BY <1>1, <1>2, <1>3, <1>5 DEF SnapInv

\* A page that is read is joined to what was read before.
LEMMA PageJoins ==
  ASSUME NEW range \in Ranges, NEW cursor \in Nat, cursor >= range[1],
         NEW bars \in Seq(Candles), ReadInOrder(bars, range, cursor),
         AllRead(gaps, bars, range[1], cursor),
         Snapshots!Page(cursor, range[2]) # <<>>, clock \in Nat
  PROVE  LET page == Snapshots!Page(cursor, range[2])
             more == bars \o page
             next == Snapshots!NextCursor(page)
         IN /\ more \in Seq(Candles) /\ next \in Nat /\ next - 1 \in Snapshots!Stamps
            /\ next >= range[1] /\ ReadInOrder(more, range, next) /\ AllRead(gaps, more, range[1], next)
            /\ Snapshots!Short(page) /\ range[2] <= clock => AllRead(gaps, more, range[1], range[2] + 1)
<1> DEFINE found == Snapshots!Listed(cursor, range[2])
           page == Snapshots!Page(cursor, range[2])
           more == bars \o page
           next == Snapshots!NextCursor(page)
<1>1. /\ page \in Seq(Candles) /\ Len(page) \in Nat
      /\ \A k \in 1 .. Len(page) : page[k].ts \in found
      /\ \A k, l \in 1 .. Len(page) : k < l => page[k].ts < page[l].ts
      /\ \A s \in found : (\E k \in 1 .. Len(page) : page[k].ts = s)
                            \/ \A k \in 1 .. Len(page) : page[k].ts < s
      /\ Snapshots!Short(page) \/ page = <<>> =>
           \A s \in found : \E k \in 1 .. Len(page) : page[k].ts = s
  BY SnapNumbers, PageIsOldest
<1>2. found = {s \in Snapshots!Stamps \ gaps : cursor <= s /\ s <= range[2] /\ s <= clock}
  BY DEF Snapshots!Listed
<1>3. page # <<>>
  OBVIOUS
<1> HIDE DEF found, page
<1>4. PICK m \in Nat : m = Len(bars)
  OBVIOUS
<1>5. PICK n \in Nat : n = Len(page)
  BY <1>1
<1>6. n > 0
  BY <1>1, <1>3, <1>5
<1>7. /\ more \in Seq(Candles) /\ Len(more) = m + n
      /\ \A i \in 1 .. m : more[i] = bars[i]
      /\ \A i \in m + 1 .. m + n : more[i] = page[i - m]
  BY <1>1, <1>4, <1>5
<1>8. \A i \in 1 .. m : bars[i].ts \in Nat /\ bars[i].ts < cursor /\ range[1] <= bars[i].ts
                        /\ bars[i].ts <= range[2]
  <2>1. \A i \in 1 .. m : bars[i] \in Candles
    BY <1>4
  <2>2. \A c \in Candles : c.ts \in Nat
    BY StampFacts DEF Candles
  <2> QED BY <1>4, <2>1, <2>2 DEF ReadInOrder
<1>9. \A k \in 1 .. n : page[k].ts \in Nat /\ cursor <= page[k].ts /\ page[k].ts <= range[2]
  BY <1>1, <1>2, <1>5, StampFacts
<1>10. next = page[n].ts + 1 /\ page[n].ts \in Snapshots!Stamps /\ page[n].ts \in Nat
  <2>1. n \in 1 .. n
    BY <1>6
  <2> QED BY <1>1, <1>2, <1>5, <1>9, <2>1 DEF Snapshots!NextCursor
<1>11. next \in Nat /\ next - 1 \in Snapshots!Stamps /\ cursor < next /\ range[1] <= next /\ next - 1 <= range[2]
  <2>1. n \in 1 .. n /\ next - 1 = page[n].ts /\ range[1] \in Nat
    BY <1>6, <1>10, SnapNumbers
  <2>2. cursor <= page[n].ts /\ page[n].ts <= range[2]
    BY <1>9, <2>1
  <2> QED BY <1>10, <2>1, <2>2
<1>12. \A k \in 1 .. n : page[k].ts < next
  <2> SUFFICES ASSUME NEW k \in 1 .. n PROVE page[k].ts < next
    OBVIOUS
  <2>1. CASE k = n
    BY <1>10, <2>1
  <2>2. CASE k # n
    <3>1. page[k].ts < page[n].ts
      BY <1>1, <1>5, <2>2
    <3> QED BY <1>9, <1>10, <3>1
  <2> QED BY <2>1, <2>2
<1> HIDE DEF more, next
<1>13. \A i \in 1 .. m + n : i \in 1 .. m \/ (i \in m + 1 .. m + n /\ i - m \in 1 .. n)
  OBVIOUS
<1>14. ASSUME NEW i \in 1 .. m + n
       PROVE  range[1] <= more[i].ts /\ more[i].ts <= range[2] /\ more[i].ts < next
  <2>1. CASE i \in 1 .. m
    <3>1. more[i] = bars[i]
      BY <1>7, <2>1
    <3>2. bars[i].ts \in Nat /\ bars[i].ts < cursor /\ range[1] <= bars[i].ts /\ bars[i].ts <= range[2]
      BY <1>8, <2>1
    <3> QED BY <1>11, <3>1, <3>2
  <2>2. CASE i \in m + 1 .. m + n /\ i - m \in 1 .. n
    <3>1. more[i] = page[i - m]
      BY <1>7, <2>2
    <3>2. page[i - m].ts \in Nat /\ cursor <= page[i - m].ts /\ page[i - m].ts <= range[2] /\ page[i - m].ts < next
      BY <1>9, <1>12, <2>2
    <3> QED BY <3>1, <3>2, SnapNumbers
  <2> QED BY <1>13, <2>1, <2>2
<1>15. ASSUME NEW i \in 1 .. m + n, NEW j \in 1 .. m + n, i < j
       PROVE  more[i].ts < more[j].ts
  <2>1. CASE j \in 1 .. m
    <3>1. i \in 1 .. m
      BY <1>15, <2>1
    <3>2. bars[i].ts < bars[j].ts
      BY <1>4, <1>15, <2>1, <3>1 DEF ReadInOrder
    <3>3. more[i] = bars[i] /\ more[j] = bars[j]
      BY <1>7, <2>1, <3>1
    <3> QED BY <3>2, <3>3
  <2>2. CASE j \in m + 1 .. m + n /\ j - m \in 1 .. n
    <3>1. more[j] = page[j - m] /\ page[j - m].ts \in Nat /\ cursor <= page[j - m].ts
      BY <1>7, <1>9, <2>2
    <3>2. CASE i \in 1 .. m
      <4>1. more[i] = bars[i]
        BY <1>7, <3>2
      <4>2. bars[i].ts \in Nat /\ bars[i].ts < cursor
        BY <1>8, <3>2
      <4> QED BY <3>1, <4>1, <4>2
    <3>3. CASE i \in m + 1 .. m + n /\ i - m \in 1 .. n
      <4>1. i - m < j - m
        BY <1>15
      <4>2. more[i] = page[i - m]
        BY <1>7, <3>3
      <4> QED BY <1>1, <1>5, <2>2, <3>1, <3>3, <4>1, <4>2
    <3> QED BY <1>13, <3>2, <3>3
  <2> QED BY <1>13, <2>1, <2>2
<1>16. ReadInOrder(more, range, next)
  BY <1>7, <1>14, <1>15 DEF ReadInOrder
\* What there is from the cursor on is in the page or comes after it.
<1>17. ASSUME NEW s \in Snapshots!Stamps \ gaps, range[1] <= s, s < cursor \/ \E k \in 1 .. n : page[k].ts = s
       PROVE  \E i \in 1 .. Len(more) : more[i].ts = s
  <2>1. CASE s < cursor
    <3>1. PICK i \in 1 .. m : bars[i].ts = s
      BY <1>4, <1>17, <2>1 DEF AllRead
    <3>2. i \in 1 .. m + n
      OBVIOUS
    <3> QED BY <1>7, <3>1, <3>2
  <2>2. CASE \E k \in 1 .. n : page[k].ts = s
    <3>1. PICK k \in 1 .. n : page[k].ts = s
      BY <2>2
    <3>2. m + k \in m + 1 .. m + n /\ m + k \in 1 .. m + n /\ (m + k) - m = k
      OBVIOUS
    <3> QED BY <1>7, <3>1, <3>2
  <2> QED BY <1>17, <2>1, <2>2
<1>18. ASSUME NEW s \in Snapshots!Stamps \ gaps, range[1] <= s, s < next
       PROVE  s < cursor \/ \E k \in 1 .. n : page[k].ts = s
  <2> SUFFICES ASSUME ~(s < cursor) PROVE \E k \in 1 .. n : page[k].ts = s
    OBVIOUS
  <2>a. s \in Nat
    BY StampFacts
  <2>1. s \in Nat /\ cursor <= s /\ s <= page[n].ts /\ n \in 1 .. n
    BY <1>6, <1>10, <1>18, <2>a
  <2>2. page[n].ts \in found /\ page[n].ts <= clock /\ page[n].ts <= range[2]
    BY <1>1, <1>2, <1>5, <2>1
  <2>3. s <= clock
    BY <2>1, <2>2, <1>10
  <2>4. s <= range[2]
    BY <1>10, <2>1, <2>2, SnapNumbers
  <2>5. s \in found
    BY <1>2, <2>1, <2>3, <2>4
  <2>6. ~(page[n].ts < s)
    BY <1>10, <2>1
  <2> QED BY <1>1, <1>5, <2>1, <2>5, <2>6
<1>19. AllRead(gaps, more, range[1], next)
  BY <1>17, <1>18 DEF AllRead
<1>20. ASSUME Snapshots!Short(page), range[2] <= clock
       PROVE  AllRead(gaps, more, range[1], range[2] + 1)
  <2> SUFFICES ASSUME NEW s \in Snapshots!Stamps \ gaps, range[1] <= s, s < range[2] + 1
               PROVE  \E i \in 1 .. Len(more) : more[i].ts = s
    BY DEF AllRead
  <2>1. CASE s < cursor
    BY <1>17, <2>1
  <2>2. CASE ~(s < cursor)
    <3>a. s \in Nat /\ range[2] \in Nat
      BY StampFacts, SnapNumbers
    <3>1. s \in found
      BY <1>2, <1>20, <2>2, <3>a
    <3> QED BY <1>1, <1>5, <1>17, <1>20, <3>1
  <2> QED BY <2>1, <2>2
<1> QED BY <1>7, <1>11, <1>16, <1>19, <1>20 DEF more, next, page

\* A download is one once it has begun.
LEMMA DownloadsAreNotIdle ==
  ASSUME NEW d \in Downloads
  PROVE  /\ d # Snapshots!Idle
         /\ d.range \in Ranges /\ d.range[1] \in Nat /\ d.range[2] \in Nat
         /\ d.cursor \in Nat /\ d.bars \in Seq(Candles) /\ d.done \in BOOLEAN /\ d.settled \in BOOLEAN
<1>1. DOMAIN d = {"range", "cursor", "bars", "done", "settled"}
  BY DEF Downloads
<1>2. DOMAIN Snapshots!Idle = {"range"}
  BY DEF Snapshots!Idle
<1>3. "cursor" \in DOMAIN d /\ "cursor" \notin DOMAIN Snapshots!Idle
  BY <1>1, <1>2
<1> QED BY <1>3, SnapNumbers DEF Downloads

LEMMA AskKeeps ==
  ASSUME SnapInv, NEW range \in Ranges, Snapshots!Ask(range)
  PROVE  SnapInv'
<1> DEFINE d == [range |-> range, cursor |-> range[1], bars |-> <<>>, done |-> FALSE,
                 settled |-> range[2] <= clock]
<1>1. /\ fetch = Snapshots!Idle /\ writing = <<>> /\ fetch' = d /\ taken' = taken + 1
      /\ clock' = clock /\ gaps' = gaps /\ writing' = writing /\ files' = files
  BY DEF Snapshots!Ask
<1>2. clock \in Nat /\ clock \in Snapshots!Stamps /\ taken \in Nat /\ range[1] \in Nat /\ range[2] \in Nat
  BY StampFacts, SnapNumbers DEF SnapInv
<1>3. d \in Downloads
  BY <1>2 DEF Downloads
<1>4. d # Snapshots!Idle
  BY <1>3, DownloadsAreNotIdle
<1>5. DownloadInv(d, clock, gaps)
  <2>1. d.range = range /\ d.cursor = range[1] /\ d.bars = <<>> /\ ~d.done
        /\ (d.settled => range[2] <= clock)
    OBVIOUS
  <2>2. Len(d.bars) = 0
    BY <2>1
  <2> HIDE DEF d
  <2>3. ReadInOrder(d.bars, d.range, d.cursor)
    BY <2>2 DEF ReadInOrder
  <2>4. \A s \in Snapshots!Stamps : s \in Nat
    BY StampFacts
  <2>5. AllRead(gaps, d.bars, d.range[1], d.cursor)
    BY <1>2, <2>1, <2>4 DEF AllRead
  <2>6. d.cursor >= d.range[1] /\ d.cursor = d.range[1] /\ (d.settled => d.range[2] <= clock)
    BY <1>2, <2>1
  <2> QED BY <1>3, <2>1, <2>3, <2>5, <2>6 DEF DownloadInv
<1>10. FetchInv'
  BY <1>1, <1>5 DEF FetchInv
<1>6. ~\E meta : \E n \in 1 .. 3 : writing = Trio(meta, n)
  <2>1. \A meta : \A n \in 1 .. 3 : Trio(meta, n) # <<>>
    BY DEF Trio
  <2> QED BY <1>1, <2>1
<1>7. taken = 0 => files["checksum"] = {}
  BY <1>6 DEF SnapInv, WritingInv
<1>8. WritingInv'
  BY <1>1, <1>2, <1>7 DEF WritingInv
<1>9. FilesInv'
  BY <1>1 DEF SnapInv, FilesInv, Snapshots!Files, Told
<1> QED BY <1>1, <1>2, <1>10, <1>8, <1>9 DEF SnapInv, Snapshots!Stamps

\* Files to be written mean that no download is under way.
LEMMA DownloadsWriteLater ==
  ASSUME SnapInv
  PROVE  /\ fetch # Snapshots!Idle => writing = <<>> /\ taken > 0
         /\ writing = <<>> =>
              /\ taken = 0 => fetch = Snapshots!Idle
              /\ taken = 0 \/ (taken = 1 /\ fetch # Snapshots!Idle) => files["checksum"] = {}
              /\ taken = 1 /\ files["checksum"] # {} => Snapshots!Named
         /\ writing # <<>> =>
              \E meta : \E n \in 1 .. 3 :
                /\ Told(meta) /\ writing = Trio(meta, n) /\ fetch = Snapshots!Idle /\ taken > 0
                /\ FirstInv(meta, n)
<1>1. \A meta : \A n \in 1 .. 3 : Trio(meta, n) # <<>>
  BY DEF Trio
<1>2. taken \in Nat /\ WritingInv
  BY DEF SnapInv
<1>3. writing = <<>> =>
              /\ taken = 0 => fetch = Snapshots!Idle
              /\ taken = 0 \/ (taken = 1 /\ fetch # Snapshots!Idle) => files["checksum"] = {}
              /\ taken = 1 /\ files["checksum"] # {} => Snapshots!Named
  BY <1>1, <1>2 DEF WritingInv
<1>4. writing # <<>> =>
              \E meta : \E n \in 1 .. 3 :
                /\ Told(meta) /\ writing = Trio(meta, n) /\ fetch = Snapshots!Idle /\ taken > 0
                /\ FirstInv(meta, n)
  BY <1>2 DEF WritingInv
<1> QED BY <1>2, <1>3, <1>4

\* A step of the download leaves the rest as it is.
LEMMA DownloadSteps ==
  ASSUME SnapInv, fetch # Snapshots!Idle, fetch' = Snapshots!Idle \/ DownloadInv(fetch', clock, gaps),
         clock' = clock, gaps' = gaps, writing' = writing, files' = files, taken' = taken
  PROVE  SnapInv'
<1>1. clock \in Snapshots!Stamps /\ taken \in Nat /\ FilesInv
  BY DEF SnapInv
<1>2. writing = <<>> /\ taken > 0
      /\ (taken = 1 => files["checksum"] = {})
  BY DownloadsWriteLater
<1>3. FetchInv'
  BY DEF FetchInv
<1>4. WritingInv'
  BY <1>1, <1>2 DEF WritingInv
<1>5. FilesInv'
  BY <1>1 DEF FilesInv, Snapshots!Files, Told
<1> QED BY <1>1, <1>3, <1>4, <1>5 DEF SnapInv, Snapshots!Stamps

\* What a turn of the loop makes of a download.
LEMMA ReadPageKeeps ==
  ASSUME SnapInv, Snapshots!ReadPage
  PROVE  SnapInv'
<1> DEFINE d == fetch
           to == d.range[2]
           page == Snapshots!Page(d.cursor, to)
           ended == [d EXCEPT !.done = TRUE]
           read == [d EXCEPT !.bars = @ \o page, !.cursor = Snapshots!NextCursor(page),
                             !.done = Snapshots!Short(page)]
<1>1. /\ fetch # Snapshots!Idle /\ ~d.done
      /\ fetch' = IF d.cursor >= to \/ page = <<>> THEN ended ELSE read
      /\ clock' = clock /\ gaps' = gaps /\ writing' = writing /\ files' = files /\ taken' = taken
  BY DEF Snapshots!ReadPage
<1>2. d \in Downloads /\ DownloadInv(d, clock, gaps)
  BY <1>1 DEF SnapInv, FetchInv, DownloadInv
<1>3. clock \in Nat /\ clock \in Snapshots!Stamps
  BY StampFacts DEF SnapInv
<1> HIDE DEF page, d
<1>4. /\ d.range \in Ranges /\ d.range[1] \in Nat /\ to \in Nat
      /\ d.cursor \in Nat /\ d.bars \in Seq(Candles) /\ d.done \in BOOLEAN /\ d.settled \in BOOLEAN
  BY <1>2, DownloadsAreNotIdle
<1>5. d = [range |-> d.range, cursor |-> d.cursor, bars |-> d.bars, done |-> d.done, settled |-> d.settled]
  BY <1>2 DEF Downloads
<1>a. DownloadInv(fetch', clock, gaps) => SnapInv'
  BY <1>1, DownloadSteps
<1>6. CASE d.cursor >= to \/ page = <<>>
  <2>1. fetch' = ended
    BY <1>1, <1>6
  <2>2. /\ ended \in Downloads /\ ended.range = d.range /\ ended.cursor = d.cursor /\ ended.bars = d.bars
        /\ ended.settled = d.settled
    BY <1>2 DEF Downloads
  <2> HIDE DEF ended
  <2>3. ASSUME d.settled, d.range[1] < to
        PROVE  AllRead(gaps, d.bars, d.range[1], to + 1)
    <3>1. to <= clock
      BY <1>2, <2>3 DEF DownloadInv
    <3> SUFFICES ASSUME NEW s \in Snapshots!Stamps \ gaps, d.range[1] <= s, s < to + 1
                 PROVE  \E i \in 1 .. Len(d.bars) : d.bars[i].ts = s
      BY DEF AllRead
    <3>2. s \in Nat
      BY StampFacts
    <3>3. s < d.cursor
      <4>1. CASE d.cursor >= to
        <5>1. d.cursor # d.range[1]
          BY <1>4, <2>3, <4>1
        <5>2. d.cursor - 1 \in Snapshots!Stamps
          BY <1>2, <5>1 DEF DownloadInv
        <5>3. (d.cursor - 1) + 1 \notin Snapshots!Stamps
          BY <5>2, StampFacts
        <5>4. s # d.cursor
          BY <1>4, <5>3
        <5> QED BY <1>4, <3>2, <4>1, <5>4
      <4>2. CASE page = <<>>
        <5> SUFFICES ASSUME s >= d.cursor PROVE FALSE
          BY <1>4, <3>2
        <5>1. s \in Snapshots!Listed(d.cursor, to)
          BY <1>3, <1>4, <3>1, <3>2 DEF Snapshots!Listed
        <5>a. page = <<>> => \A x \in Snapshots!Listed(d.cursor, to) :
                              \E k \in 1 .. Len(page) : page[k].ts = x
          BY <1>4, PageIsOldest DEF page
        <5>2. \E k \in 1 .. Len(page) : page[k].ts = s
          BY <4>2, <5>1, <5>a
        <5> QED BY <4>2, <5>2
      <4> QED BY <1>6, <4>1, <4>2
    <3> QED BY <1>2, <3>3 DEF DownloadInv, AllRead
  <2>4. DownloadInv(ended, clock, gaps)
    BY <1>2, <2>2, <2>3 DEF DownloadInv
  <2> QED BY <1>a, <2>1, <2>4
<1>7. CASE ~(d.cursor >= to \/ page = <<>>)
  <2> DEFINE more == d.bars \o page
             next == Snapshots!NextCursor(page)
             short == Snapshots!Short(page)
  <2>1. fetch' = read
    BY <1>1, <1>7
  <2>2. d.cursor >= d.range[1] /\ ReadInOrder(d.bars, d.range, d.cursor)
        /\ AllRead(gaps, d.bars, d.range[1], d.cursor)
    BY <1>2 DEF DownloadInv
  <2>3. /\ more \in Seq(Candles) /\ next \in Nat /\ next - 1 \in Snapshots!Stamps
        /\ next >= d.range[1] /\ ReadInOrder(more, d.range, next) /\ AllRead(gaps, more, d.range[1], next)
        /\ (short /\ to <= clock => AllRead(gaps, more, d.range[1], to + 1))
    BY <1>3, <1>4, <1>7, <2>2, PageJoins DEF page
  <2>4. short \in BOOLEAN
    BY DEF Snapshots!Short
  <2>5. read = [d EXCEPT !.bars = more, !.cursor = next, !.done = short]
    OBVIOUS
  <2> HIDE DEF more, next, short, read
  <2>6. /\ read \in Downloads /\ read.range = d.range /\ read.cursor = next /\ read.bars = more
        /\ read.settled = d.settled /\ read.done = short
    BY <1>2, <2>3, <2>4, <2>5 DEF Downloads
  <2>7. d.settled => to <= clock
    BY <1>2 DEF DownloadInv
  <2>8. DownloadInv(read, clock, gaps)
    BY <2>3, <2>6, <2>7 DEF DownloadInv
  <2> QED BY <1>a, <2>1, <2>8
<1> QED BY <1>6, <1>7

LEMMA FetchFailsKeeps ==
  ASSUME SnapInv, Snapshots!FetchFails
  PROVE  SnapInv'
BY DownloadSteps DEF Snapshots!FetchFails

LEMMA ClockKeeps ==
  ASSUME SnapInv, Snapshots!Advance
  PROVE  SnapInv'
<1>1. clock + Interval \in Snapshots!Stamps /\ clock' = clock + Interval
      /\ gaps' = gaps /\ fetch' = fetch /\ writing' = writing /\ files' = files /\ taken' = taken
  BY DEF Snapshots!Advance
<1>2. clock \in Snapshots!Stamps /\ clock \in Nat /\ taken \in Nat /\ FilesInv /\ WritingInv /\ Interval \in Nat
  BY StampFacts, SnapNumbers DEF SnapInv
<1>3. ASSUME DownloadInv(fetch, clock, gaps)
      PROVE  DownloadInv(fetch, clock + Interval, gaps)
  <2>1. fetch.range[2] \in Nat
    BY <1>3, DownloadsAreNotIdle DEF DownloadInv
  <2> QED BY <1>2, <1>3, <2>1 DEF DownloadInv
<1>4. FetchInv'
  BY <1>1, <1>3 DEF SnapInv, FetchInv
<1>5. WritingInv'
  BY <1>1, <1>2 DEF WritingInv, FirstInv, Snapshots!Named, Trio, Told
<1>6. FilesInv'
  BY <1>1, <1>2 DEF FilesInv, Snapshots!Files, Told
<1> QED BY <1>1, <1>2, <1>4, <1>5, <1>6 DEF SnapInv, Snapshots!Stamps

LEMMA DescribeKeeps ==
  ASSUME SnapInv, Snapshots!Describe
  PROVE  SnapInv'
<1> DEFINE meta == Snapshots!Provenance(fetch.range, fetch.bars)
           content == [ohlcv |-> fetch.bars, metadata |-> meta, checksum |-> fetch.bars]
<1>1. /\ fetch # Snapshots!Idle /\ fetch' = Snapshots!Idle
      /\ writing' = [i \in 1 .. 3 |-> <<Snapshots!Order[i], content[Snapshots!Order[i]]>>]
      /\ clock' = clock /\ gaps' = gaps /\ files' = files /\ taken' = taken
  BY DEF Snapshots!Describe
<1>2. clock \in Snapshots!Stamps /\ taken \in Nat /\ FilesInv /\ taken > 0
      /\ (taken = 1 => files["checksum"] = {})
  BY DownloadsWriteLater, <1>1 DEF SnapInv
<1>3. Told(meta) /\ meta.checksum = fetch.bars
  BY DEF Told, Snapshots!Provenance
<1>4. writing' = Trio(meta, 3)
  <2>1. content["ohlcv"] = meta.checksum /\ content["metadata"] = meta /\ content["checksum"] = meta.checksum
    BY <1>3
  <2> HIDE DEF meta, content
  <2>2. writing' = <<<<"ohlcv", content["ohlcv"]>>, <<"metadata", content["metadata"]>>,
                     <<"checksum", content["checksum"]>>>>
    BY <1>1 DEF Snapshots!Order
  <2> QED BY <2>1, <2>2 DEF Trio
<1> HIDE DEF meta
<1>5. WritingInv'
  <2>1. PICK m : m = meta
    OBVIOUS
  <2>2. Told(m) /\ writing' = Trio(m, 3) /\ 3 \in 1 .. 3
    BY <1>3, <1>4, <2>1
  <2>3. (taken' = 1 => files'["checksum"] = {}) /\ fetch' = Snapshots!Idle /\ taken' > 0
    BY <1>1, <1>2
  <2> QED BY <2>2, <2>3 DEF WritingInv, FirstInv, Told, Trio
<1>6. FetchInv'
  BY <1>1 DEF FetchInv
<1>7. FilesInv'
  BY <1>1, <1>2 DEF FilesInv, Snapshots!Files, Told
<1> QED BY <1>1, <1>2, <1>5, <1>6, <1>7 DEF SnapInv, Snapshots!Stamps
\* The last files of a snapshot: the first of them, and those after it.
LEMMA TrioFiles ==
  ASSUME NEW meta
  PROVE  /\ Trio(meta, 3) = <<<<"ohlcv", meta.checksum>>, <<"metadata", meta>>, <<"checksum", meta.checksum>>>>
         /\ Head(Trio(meta, 3)) = <<"ohlcv", meta.checksum>> /\ Tail(Trio(meta, 3)) = Trio(meta, 2)
         /\ Head(Trio(meta, 2)) = <<"metadata", meta>> /\ Tail(Trio(meta, 2)) = Trio(meta, 1)
         /\ Head(Trio(meta, 1)) = <<"checksum", meta.checksum>> /\ Tail(Trio(meta, 1)) = <<>>
<1> DEFINE a == <<"ohlcv", meta.checksum>>
           b == <<"metadata", meta>>
           c == <<"checksum", meta.checksum>>
<1>1. Trio(meta, 3) = <<a, b, c>> /\ Trio(meta, 2) = <<b, c>> /\ Trio(meta, 1) = <<c>>
  BY DEF Trio
<1> HIDE DEF a, b, c
<1>2. /\ Head(<<a, b, c>>) = a /\ Tail(<<a, b, c>>) = <<b, c>>
      /\ Head(<<b, c>>) = b /\ Tail(<<b, c>>) = <<c>>
      /\ Head(<<c>>) = c /\ Tail(<<c>>) = <<>>
  OBVIOUS
<1> QED BY <1>1, <1>2 DEF a, b, c

LEMMA WriteFileKeeps ==
  ASSUME SnapInv, Snapshots!WriteFile
  PROVE  SnapInv'
<1>1. /\ writing # <<>> /\ writing' = Tail(writing)
      /\ files' = [files EXCEPT ![Head(writing)[1]] = {Head(writing)[2]}]
      /\ clock' = clock /\ gaps' = gaps /\ fetch' = fetch /\ taken' = taken
  BY DEF Snapshots!WriteFile
<1>2. clock \in Snapshots!Stamps /\ taken \in Nat /\ FilesInv /\ DOMAIN files = {"ohlcv", "metadata", "checksum"}
  BY DEF SnapInv, FilesInv, Snapshots!Files
<1>3. PICK meta : \E n \in 1 .. 3 :
        /\ Told(meta) /\ writing = Trio(meta, n) /\ fetch = Snapshots!Idle /\ taken > 0
        /\ FirstInv(meta, n)
  BY <1>1, DownloadsWriteLater
<1>4. FetchInv'
  BY <1>1, <1>3 DEF FetchInv
<1>5. CASE writing = Trio(meta, 3) /\ FirstInv(meta, 3)
  <2>1. /\ writing' = Trio(meta, 2) /\ files'["ohlcv"] = {meta.checksum}
        /\ files'["metadata"] = files["metadata"] /\ files'["checksum"] = files["checksum"]
        /\ DOMAIN files' = DOMAIN files
    <3>1. Head(writing) = <<"ohlcv", meta.checksum>>
      BY <1>5, TrioFiles
    <3>2. files' = [files EXCEPT !["ohlcv"] = {meta.checksum}]
      <4>1. PICK h : h = Head(writing)
        OBVIOUS
      <4>2. files' = [files EXCEPT ![h[1]] = {h[2]}]
        BY ONLY <1>1, <4>1, Zenon
      <4>3. h[1] = "ohlcv" /\ h[2] = meta.checksum
        BY <3>1, <4>1
      <4> QED BY ONLY <4>2, <4>3, Zenon
    <3> QED BY <1>1, <1>2, <1>5, <3>2, TrioFiles
  <2>2. FilesInv'
    BY <1>1, <1>2, <2>1 DEF FilesInv, Snapshots!Files, Told
  <2>3. taken' = 1 => files'["checksum"] = {}
    BY <1>1, <1>5, <2>1 DEF FirstInv
  <2>4. WritingInv'
    BY <1>1, <1>3, <2>1, <2>3 DEF WritingInv, FirstInv, Told, Trio
  <2> QED BY <1>1, <1>2, <1>4, <2>2, <2>4 DEF SnapInv, Snapshots!Stamps
<1>6. CASE writing = Trio(meta, 2) /\ FirstInv(meta, 2)
  <2>1. /\ writing' = Trio(meta, 1) /\ files'["ohlcv"] = files["ohlcv"]
        /\ files'["metadata"] = {meta} /\ files'["checksum"] = files["checksum"]
        /\ DOMAIN files' = DOMAIN files
    <3>1. Head(writing) = <<"metadata", meta>>
      BY <1>6, TrioFiles
    <3>2. files' = [files EXCEPT !["metadata"] = {meta}]
      <4>1. PICK h : h = Head(writing)
        OBVIOUS
      <4>2. files' = [files EXCEPT ![h[1]] = {h[2]}]
        BY ONLY <1>1, <4>1, Zenon
      <4>3. h[1] = "metadata" /\ h[2] = meta
        BY <3>1, <4>1
      <4> QED BY ONLY <4>2, <4>3, Zenon
    <3> QED BY <1>1, <1>2, <1>6, <3>2, TrioFiles
  <2>2. FilesInv'
    BY <1>1, <1>2, <1>3, <2>1 DEF FilesInv, Snapshots!Files, Told
  <2>3. taken' = 1 => files'["checksum"] = {}
    BY <1>1, <1>6, <2>1 DEF FirstInv
  <2>4. WritingInv'
    BY <1>1, <1>3, <2>1, <2>3 DEF WritingInv, FirstInv, Told, Trio
  <2> QED BY <1>1, <1>2, <1>4, <2>2, <2>4 DEF SnapInv, Snapshots!Stamps
<1>7. CASE writing = Trio(meta, 1) /\ FirstInv(meta, 1)
  <2>1. /\ writing' = <<>> /\ files'["ohlcv"] = files["ohlcv"]
        /\ files'["metadata"] = files["metadata"] /\ files'["checksum"] = {meta.checksum}
        /\ DOMAIN files' = DOMAIN files
    <3>1. Head(writing) = <<"checksum", meta.checksum>>
      BY <1>7, TrioFiles
    <3>2. files' = [files EXCEPT !["checksum"] = {meta.checksum}]
      <4>1. PICK h : h = Head(writing)
        OBVIOUS
      <4>2. files' = [files EXCEPT ![h[1]] = {h[2]}]
        BY ONLY <1>1, <4>1, Zenon
      <4>3. h[1] = "checksum" /\ h[2] = meta.checksum
        BY <3>1, <4>1
      <4> QED BY ONLY <4>2, <4>3, Zenon
    <3> QED BY <1>1, <1>2, <1>7, <3>2, TrioFiles
  <2>2. FilesInv'
    BY <1>1, <1>2, <2>1 DEF FilesInv, Snapshots!Files, Told
  <2>3. taken' = 1 => files'["metadata"] = {meta}
    BY <1>1, <1>7, <2>1 DEF FirstInv
  <2>4. taken' = 1 => Snapshots!Named'
    BY <2>1, <2>3 DEF Snapshots!Named
  <2>5. WritingInv'
    BY <1>1, <1>2, <1>3, <2>1, <2>4 DEF WritingInv
  <2> QED BY <1>1, <1>2, <1>4, <2>2, <2>5 DEF SnapInv, Snapshots!Stamps
<1> QED BY <1>3, <1>5, <1>6, <1>7

LEMMA CrashKeeps ==
  ASSUME SnapInv, Snapshots!Crash
  PROVE  SnapInv'
<1>1. /\ writing # <<>> /\ writing' = <<>>
      /\ clock' = clock /\ gaps' = gaps /\ fetch' = fetch /\ taken' = taken /\ files' = files
  BY DEF Snapshots!Crash
<1>2. clock \in Snapshots!Stamps /\ taken \in Nat /\ FilesInv
  BY DEF SnapInv
<1>3. fetch = Snapshots!Idle /\ taken > 0 /\ (taken = 1 => files["checksum"] = {})
  BY <1>1, DownloadsWriteLater DEF FirstInv
<1>4. FetchInv'
  BY <1>1, <1>3 DEF FetchInv
<1>5. FilesInv'
  BY <1>1, <1>2 DEF FilesInv, Snapshots!Files, Told
<1>6. WritingInv'
  BY <1>1, <1>2, <1>3 DEF WritingInv
<1> QED BY <1>1, <1>2, <1>4, <1>5, <1>6 DEF SnapInv, Snapshots!Stamps

LEMMA SnapshotsStepKeeps ==
  ASSUME SnapInv, [Snapshots!Next]_snapshotVars
  PROVE  SnapInv'
<1>1. CASE UNCHANGED snapshotVars
  <2>1. /\ clock' = clock /\ gaps' = gaps /\ fetch' = fetch /\ taken' = taken /\ files' = files
        /\ writing' = writing
    BY <1>1 DEF snapshotVars
  <2>2. clock \in Snapshots!Stamps /\ taken \in Nat /\ FilesInv /\ FetchInv /\ WritingInv
    BY DEF SnapInv
  <2>3. FilesInv'
    BY <2>1, <2>2 DEF FilesInv, Snapshots!Files, Told
  <2>4. FetchInv'
    BY <2>1, <2>2 DEF FetchInv
  <2>5. WritingInv'
    BY <2>1, <2>2 DEF WritingInv, FirstInv, Snapshots!Named, Trio, Told
  <2> QED BY <2>1, <2>2, <2>3, <2>4, <2>5 DEF SnapInv, Snapshots!Stamps
<1>2. CASE Snapshots!Next
  BY <1>2, AskKeeps, ClockKeeps, ReadPageKeeps, FetchFailsKeeps, DescribeKeeps, WriteFileKeeps,
     CrashKeeps DEF Snapshots!Next
<1> QED BY <1>1, <1>2

LEMMA SnapInvSafe == SnapInv => Snapshots!Safe
<1> SUFFICES ASSUME SnapInv PROVE Snapshots!Safe
  OBVIOUS
<1>1. clock \in Nat /\ taken \in Nat /\ FilesInv /\ FetchInv
  BY StampFacts DEF SnapInv
<1>2. Snapshots!PagesJoin
  <2> SUFFICES ASSUME fetch # Snapshots!Idle
               PROVE  /\ \A i, j \in DOMAIN fetch.bars : i < j => fetch.bars[i].ts < fetch.bars[j].ts
                      /\ \A i \in DOMAIN fetch.bars :
                           fetch.range[1] <= fetch.bars[i].ts /\ fetch.bars[i].ts <= fetch.range[2]
    BY DEF Snapshots!PagesJoin
  <2>1. fetch.bars \in Seq(Candles) /\ ReadInOrder(fetch.bars, fetch.range, fetch.cursor)
    BY <1>1, DownloadsAreNotIdle DEF FetchInv, DownloadInv
  <2>2. DOMAIN fetch.bars = 1 .. Len(fetch.bars)
    BY <2>1
  <2> QED BY <2>1, <2>2 DEF ReadInOrder
<1>3. Snapshots!NothingSkipped
  <2> DEFINE read == {b.ts : b \in Snapshots!Range(fetch.bars)}
  <2> SUFFICES ASSUME fetch # Snapshots!Idle, fetch.done, fetch.range[1] < fetch.range[2],
                      NEW s \in Snapshots!Listed(fetch.range[1], fetch.range[2]), s \notin read
               PROVE  ~fetch.settled /\ \A r \in read : r < s
    BY DEF Snapshots!NothingSkipped
  <2>1. DownloadInv(fetch, clock, gaps)
    BY <1>1 DEF FetchInv
  <2>2. /\ fetch.bars \in Seq(Candles) /\ fetch.range[1] \in Nat /\ fetch.range[2] \in Nat
        /\ fetch.cursor \in Nat
    BY <2>1, DownloadsAreNotIdle DEF DownloadInv
  <2>3. s \in Snapshots!Stamps \ gaps /\ s \in Nat /\ fetch.range[1] <= s /\ s <= fetch.range[2]
    BY StampFacts DEF Snapshots!Listed
  <2>4. read = {fetch.bars[i].ts : i \in 1 .. Len(fetch.bars)}
    BY <2>2 DEF Snapshots!Range, Range
  <2> HIDE DEF read
  <2>5. ~\E i \in 1 .. Len(fetch.bars) : fetch.bars[i].ts = s
    BY <2>4
  <2>6. ~fetch.settled
    <3>1. ~AllRead(gaps, fetch.bars, fetch.range[1], fetch.range[2] + 1)
      BY <2>2, <2>3, <2>5 DEF AllRead
    <3> QED BY <2>1, <3>1 DEF DownloadInv
  <2>7. s >= fetch.cursor
    BY <2>1, <2>2, <2>3, <2>5 DEF DownloadInv, AllRead
  <2>8. ASSUME NEW r \in read PROVE r < s
    <3>1. PICK i \in 1 .. Len(fetch.bars) : r = fetch.bars[i].ts
      BY <2>4
    <3>2. fetch.bars[i] \in Candles
      BY <2>2
    <3>3. r \in Nat
      BY <3>1, <3>2, StampFacts DEF Candles
    <3>4. r < fetch.cursor
      BY <2>1, <3>1 DEF DownloadInv, ReadInOrder
    <3> QED BY <2>2, <2>3, <2>7, <3>3, <3>4
  <2> QED BY <2>6, <2>8
<1>4. Snapshots!MetadataDescribes
  <2> SUFFICES ASSUME Snapshots!Checked, Snapshots!Named, NEW meta \in files["metadata"],
                      NEW bars \in files["ohlcv"]
               PROVE  /\ meta.bars = Len(bars)
                      /\ bars # <<>> => meta.start = bars[1].ts /\ meta.end = bars[Len(bars)].ts
    BY DEF Snapshots!MetadataDescribes
  <2>1. PICK m \in files["metadata"] : files["checksum"] = {m.checksum}
    BY DEF Snapshots!Named
  <2>2. m = meta /\ Told(meta)
    BY <1>1 DEF FilesInv
  <2>3. bars = meta.checksum
    BY <2>1, <2>2 DEF Snapshots!Checked
  <2> QED BY <2>2, <2>3 DEF Told
<1>5. Snapshots!SumComesLast
  <2> SUFFICES ASSUME taken = 1, Snapshots!Checked PROVE Snapshots!Named
    BY DEF Snapshots!SumComesLast
  <2>1. files["checksum"] # {}
    BY DEF Snapshots!Checked
  <2>2. writing = <<>>
    BY <2>1, DownloadsWriteLater DEF FirstInv
  <2> QED BY <2>1, <2>2, DownloadsWriteLater
<1> QED BY <1>2, <1>3, <1>4, <1>5 DEF Snapshots!Safe

---------------------------------------------------------------------------
(* The run's specification                                                 *)

\* Another part's step, or none, leaves a part's variables alone.
LEMMA PartsStep ==
  ASSUME [Next]_vars
  PROVE  /\ [Campaign!Next]_campaignVars /\ [Qualify!Next]_qualificationVars
         /\ [Stores!Next]_storeVars /\ [Dataset!Next]_datasetVars /\ [Snapshots!Next]_snapshotVars
<1>1. CASE UNCHANGED vars
  BY <1>1 DEF vars
<1>2. CASE CampaignStep
  BY <1>2 DEF CampaignStep, Others
<1>3. CASE QualificationStep
  BY <1>3 DEF QualificationStep, Others
<1>4. CASE StoresStep
  BY <1>4 DEF StoresStep, Others
<1>5. CASE DatasetStep
  BY <1>5 DEF DatasetStep, Others
<1>6. CASE SnapshotsStep
  BY <1>6 DEF SnapshotsStep, Others
<1>7. CASE BacktestStep \/ LongRunStep \/ PortfolioStep \/ ReviewStep
  BY <1>7 DEF BacktestStep, LongRunStep, PortfolioStep, ReviewStep, Others
<1> QED BY <1>1, <1>2, <1>3, <1>4, <1>5, <1>6, <1>7 DEF Next

(* Data handed out as fresh shares no bar with a period consumed before, a *)
(* verdict has its consumed period and the metrics it follows from, a      *)
(* campaign is confirmed on disjoint windows, and only the frozen          *)
(* candidate is confirmed, audited, on a window its discovery never saw    *)
(* (research/registry.py, campaign.py, validation.py, confirmation.py,     *)
(* gates.py).                                                              *)
THEOREM VerdictsAreEarned == Spec => []VerdictsHold
<1>1. Init => CampaignInv /\ QualifyInv
  BY InitCampaign, InitQualify DEF Init
<1>2. CampaignInv /\ QualifyInv /\ [Next]_vars => (CampaignInv /\ QualifyInv)'
  BY PartsStep, CampaignStepKeeps, QualifyStepKeeps
<1>3. CampaignInv /\ QualifyInv => VerdictsHold
  BY CampaignSafe, QualifySafe DEF VerdictsHold
<1> QED BY <1>1, <1>2, <1>3, PTL DEF Spec

(* What a verified event chain says is what was appended, in its order; a  *)
(* query hands out the newest of what it counts; checks of a series agree  *)
(* with one another and its evaluation and split share nothing; a download *)
(* leaves nothing out and is described by what is saved beside it          *)
(* (storage/event_store.py, research/event_store.py, data_integrity.py,    *)
(* historical_data.py, calendar.py, market_provenance.py).                 *)
THEOREM HistoryHolds == Spec => []HistoryIsHonest
<1>1. Init => StoresInv /\ SeriesInv /\ SnapInv
  BY InitStores, InitSeries, InitSnapshots DEF Init
<1>2. StoresInv /\ SeriesInv /\ SnapInv /\ [Next]_vars => (StoresInv /\ SeriesInv /\ SnapInv)'
  BY PartsStep, StoresStepKeeps, SeriesStepKeeps, SnapshotsStepKeeps
<1>3. StoresInv /\ SeriesInv /\ SnapInv => HistoryIsHonest
  BY StoresInvSafe, SeriesInvSafe, SnapInvSafe DEF HistoryIsHonest
<1> QED BY <1>1, <1>2, <1>3, PTL DEF Spec

=============================================================================
