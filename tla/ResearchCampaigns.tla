------------------------- MODULE ResearchCampaigns -------------------------
(***************************************************************************)
(* The experiment registry (research/registry.py), the discovery and       *)
(* confirmation pipeline over it (research/validation.py) and the campaign *)
(* controllers that drive both (research/campaign.py).  Every registry     *)
(* call is one committed transaction; a controller's caller works between  *)
(* them: it asks for fresh data, runs a strategy on it, and only then      *)
(* comes back with the metrics, one phase at a time, in the order of the   *)
(* controller's docstring.  Controllers share one registry.                *)
(*                                                                         *)
(* The code, configuration and data hashes are one value, equal when all   *)
(* three are.  A window is half open, as the overlap query reads it.       *)
(***************************************************************************)
EXTENDS Integers, FiniteSets

CONSTANTS
  Campaigns,             \* campaign identifiers, one controller each
  Manual,                \* experiments registered directly by a caller
  Windows,               \* [symbol, timeframe, from, to]
  Hashes,                \* hashes a caller computes
  Metrics,               \* [trades, expR, pf, pnl, drawdown]
  DiscoveryGates,        \* [trades, expR, pf, pnl, drawdown]
  ConfirmationGates

CampaignAssumption == \A w \in Windows : w.from \in Int /\ w.to \in Int

VARIABLES
  experiments,           \* id |-> [status, hash, results]
  consumed,              \* rows of consumed_periods: <<id, window>>
  granted,               \* per campaign: the last fresh window, if still unused
  reports,               \* <<campaign, phase>> |-> [window, passed]
  status                 \* per campaign, as complete_campaign leaves it

campaignVars == <<experiments, consumed, granted, reports, status>>

Nothing == {}
Pending == "pending"     \* the hash a controller registers with
Phases == {"DISC", "CONF"}
Ids == (Campaigns \X Phases) \cup (Manual \X {"MANUAL"})
Statuses == {"PREREGISTERED", "RUNNING", "REJECTED", "CANDIDATE", "CONFIRMING",
             "CONFIRMED", "INVALIDATED"}

TypeOK ==
  /\ DOMAIN experiments \subseteq Ids
  /\ \A i \in DOMAIN experiments :
       /\ experiments[i].status \in Statuses
       /\ experiments[i].hash \in Hashes \cup {Pending}
       /\ experiments[i].results \in {Nothing} \cup {{m} : m \in Metrics}
  /\ consumed \subseteq Ids \X Windows
  /\ DOMAIN reports \subseteq Campaigns \X Phases
  /\ \A c \in Campaigns :
       /\ \A g \in granted[c] : g.window \in Windows
       /\ status[c] \in {"WAITING_FOR_DATA", "CONFIRMED", "CAMPAIGN_REJECTED"}

Init ==
  /\ experiments = [i \in {} |-> 0] /\ consumed = {}
  /\ granted = [c \in Campaigns |-> Nothing]
  /\ reports = [r \in {} |-> 0]
  /\ status = [c \in Campaigns |-> "WAITING_FOR_DATA"]

(***************************************************************************)
(* The registry.                                                           *)
(***************************************************************************)

\* A second registration of an identifier is refused.
Preregister(i, hash) ==
  experiments' = [j \in DOMAIN experiments \cup {i} |->
     IF j = i THEN [status |-> "PREREGISTERED", hash |-> hash, results |-> Nothing]
     ELSE experiments[j]]

\* No transition is checked, and results that are not given are erased.
UpdateStatus(exps, i, new, results) ==
  [exps EXCEPT ![i].status = new, ![i].results = results]

\* Faulty variant of IsConsumed: only a period that covers the window counts.
IsConsumedWhole(w) ==
  \E p \in consumed : /\ p[2].symbol = w.symbol /\ p[2].timeframe = w.timeframe
                      /\ p[2].from <= w.from /\ p[2].to >= w.to

IsConsumed(w) ==
  \E p \in consumed : /\ p[2].symbol = w.symbol /\ p[2].timeframe = w.timeframe
                      /\ p[2].from < w.to /\ p[2].to > w.from

RegisterManually(i, hash) ==
  /\ i \notin DOMAIN experiments
  /\ Preregister(i, hash)
  /\ UNCHANGED <<consumed, granted, reports, status>>

\* verify_hash and execute_and_verify: the results are accepted only under
\* the registered hash; any other invalidates the experiment.
ExecuteAndVerify(i, hash, m) ==
  /\ i \in DOMAIN experiments
  /\ experiments' = IF experiments[i].hash = hash
                    THEN UpdateStatus(experiments, i, "RUNNING", {m})
                    ELSE UpdateStatus(experiments, i, "INVALIDATED", Nothing)
  /\ UNCHANGED <<consumed, granted, reports, status>>

(***************************************************************************)
(* The pipeline.  A validation records its window as consumed whatever the *)
(* gates say, and does not ask whether it was consumed already.            *)
(***************************************************************************)
Passes(g, m) ==
  /\ m.trades >= g.trades /\ m.expR >= g.expR /\ m.pf >= g.pf
  /\ m.pnl > g.pnl /\ m.drawdown <= g.drawdown

Overlaps(v, w) == v.symbol = w.symbol /\ v.from < w.to /\ w.from < v.to

\* execute_discovery_confirmation.  update_status raises on an identifier
\* that is not registered: what was consumed by then stays consumed.
ExecuteCycle(d, c, v, w, m, n) ==
  LET found == Passes(DiscoveryGates, m)
      confirmed == Passes(ConfirmationGates, n)
      discovered == UpdateStatus(experiments, d,
                      IF found THEN "CANDIDATE" ELSE "REJECTED", {m})
      reached == d \in DOMAIN experiments /\ found /\ c \in DOMAIN experiments
  IN /\ ~Overlaps(v, w)
     /\ consumed' = consumed \cup {<<d, v>>} \cup (IF reached THEN {<<c, w>>} ELSE {})
     /\ experiments' =
          IF d \notin DOMAIN experiments THEN experiments
          ELSE IF ~reached THEN discovered
          ELSE UpdateStatus(discovered, c,
                 IF confirmed THEN "CONFIRMED" ELSE "REJECTED", {n})
     /\ UNCHANGED <<granted, reports, status>>

(***************************************************************************)
(* The controllers.                                                        *)
(***************************************************************************)

\* A grant remembers what had been consumed when it was given.
CheckFreshData(c, w) ==
  /\ granted' = [granted EXCEPT ![c] =
       IF IsConsumed(w) THEN Nothing
       ELSE {[window |-> w, before |-> {p[2] : p \in consumed}]}]
  /\ UNCHANGED <<experiments, consumed, reports, status>>

\* Registration, validation and verdict of one phase.  Neither phase looks at
\* the other, nor at the window's freshness: the caller checked that before.
RunPhase(c, phase, gates, good, m) ==
  \E g \in granted[c] :
  LET i == <<c, phase>>
      passed == Passes(gates, m)
  IN /\ i \notin DOMAIN experiments
     /\ experiments' = [j \in DOMAIN experiments \cup {i} |->
          IF j # i THEN experiments[j]
          ELSE [status |-> IF passed THEN good ELSE "REJECTED", hash |-> Pending,
                results |-> {m}]]
     /\ consumed' = consumed \cup {<<i, g.window>>}
     /\ reports' = [r \in DOMAIN reports \cup {i} |->
          IF r = i THEN [window |-> g.window, passed |-> passed] ELSE reports[r]]
     /\ granted' = [granted EXCEPT ![c] = Nothing]
     /\ UNCHANGED status

RunDiscovery(c, m) == RunPhase(c, "DISC", DiscoveryGates, "CANDIDATE", m)
RunConfirmation(c, m) == RunPhase(c, "CONF", ConfirmationGates, "CONFIRMED", m)

CompleteCampaign(c) ==
  /\ {<<c, "DISC">>, <<c, "CONF">>} \subseteq DOMAIN reports
  /\ status' = [status EXCEPT ![c] =
       IF reports[<<c, "DISC">>].passed /\ reports[<<c, "CONF">>].passed
       THEN "CONFIRMED" ELSE "CAMPAIGN_REJECTED"]
  /\ UNCHANGED <<experiments, consumed, granted, reports>>

ManualIds == Manual \X {"MANUAL"}

Next ==
  \/ \E i \in ManualIds, h \in Hashes : RegisterManually(i, h)
  \/ \E i \in Ids, h \in Hashes, m \in Metrics : ExecuteAndVerify(i, h, m)
  \/ \E d, c \in ManualIds, v, w \in Windows, m, n \in Metrics :
       d # c /\ ExecuteCycle(d, c, v, w, m, n)
  \/ \E c \in Campaigns, w \in Windows : CheckFreshData(c, w)
  \/ \E c \in Campaigns, m \in Metrics : RunDiscovery(c, m) \/ RunConfirmation(c, m)
  \/ \E c \in Campaigns : CompleteCampaign(c)

Spec == Init /\ [][Next]_campaignVars

(***************************************************************************)
(* Properties.                                                             *)
(***************************************************************************)
Bars(w) == {<<w.symbol, w.timeframe, t>> : t \in w.from..(w.to - 1)}

\* Data handed out as fresh shares no bar with any period consumed before it
\* was handed out, in whatever pieces those periods were consumed.
FreshIsUntouched ==
  \A c \in Campaigns : \A g \in granted[c] :
    \A p \in g.before : Bars(g.window) \cap Bars(p) = {}

\* An experiment with a verdict has paid for it: a period is consumed under
\* its name, and its stored metrics are the ones the verdict follows from.
VerdictsArePaidFor ==
  \A i \in DOMAIN experiments :
    LET e == experiments[i]
    IN e.status \in {"CANDIDATE", "CONFIRMED", "REJECTED"} =>
         /\ \E w \in Windows : <<i, w>> \in consumed
         /\ \A m \in e.results :
              CASE e.status = "CANDIDATE" -> Passes(DiscoveryGates, m)
                [] e.status = "CONFIRMED" -> Passes(ConfirmationGates, m)
                [] OTHER -> ~(Passes(DiscoveryGates, m) /\ Passes(ConfirmationGates, m))

\* A confirmed campaign passed both phases, on windows it consumed, and the
\* window of its later phase was untouched by its earlier one.
ConfirmedOnDisjointData ==
  \A c \in Campaigns : status[c] = "CONFIRMED" =>
    /\ \A f \in Phases : /\ reports[<<c, f>>].passed
                         /\ <<<<c, f>>, reports[<<c, f>>].window>> \in consumed
    /\ Bars(reports[<<c, "DISC">>].window) \cap Bars(reports[<<c, "CONF">>].window) = {}

Safe == FreshIsUntouched /\ VerdictsArePaidFor /\ ConfirmedOnDisjointData
=============================================================================
