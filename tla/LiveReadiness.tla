---------------------------- MODULE LiveReadiness ----------------------------
(***************************************************************************)
(* From configuration to a live start: the sources load_settings merges    *)
(* (config/settings.py), the validators of config/runtime.py, risk.py and  *)
(* settings.py that accept or refuse the result, and the pre-flight gate   *)
(* of execution/live_gate.py over what was accepted.  A process keeps the  *)
(* settings it started with, but the gate reads the credentials afresh.    *)
(***************************************************************************)
EXTENDS Integers, Sequences

CONSTANTS
  Base,                  \* what the YAML files say, every setting
  Overrides,             \* <<key, value>>, what another source may set
  Targets                \* universe.exchanges: [id, enabled, sandbox]

VARIABLES
  sources,               \* per source above YAML: a set of at most one override
  credentials,           \* EXCHANGE_API_KEY and _SECRET are in the environment
  running,               \* the settings of the process: {} or a singleton
  report                 \* ids of the failed gates, {} until a validation

readinessVars == <<sources, credentials, running, report>>

\* Highest precedence first.  The nested names of .env come before the flat
\* ones, even those of the process environment.
Order == <<"env", "dotenv", "flatEnv", "flatDotenv">>
Sources == {Order[i] : i \in DOMAIN Order}
Flat == {"flatEnv", "flatDotenv"}
FlatKeys == {"mode", "live", "understood", "exchangeId", "sandbox"}
Modes == {"research", "paper", "shadow_live", "live"}

TypeOK ==
  /\ DOMAIN sources = Sources /\ \A s \in Sources : sources[s] \subseteq Overrides
  /\ credentials \in BOOLEAN
  /\ \A r \in running : DOMAIN r = DOMAIN Base /\ r.mode \in Modes

Init ==
  /\ sources = [s \in Sources |-> {}] /\ credentials = FALSE
  /\ running = {} /\ report = {}

(***************************************************************************)
(* Loading.                                                                *)
(***************************************************************************)

\* A flat name without an alias is ignored without a word.
Sets(s, key) == \E o \in sources[s] : o[1] = key /\ (s \in Flat => key \in FlatKeys)
ValueIn(s, key) == (CHOOSE o \in sources[s] : o[1] = key)[2]

Resolved(key) ==
  LET setting == {i \in DOMAIN Order : Sets(Order[i], key)}
  IN IF setting = {} THEN Base[key]
     ELSE ValueIn(Order[CHOOSE i \in setting : \A j \in setting : i <= j], key)
Loaded == [key \in DOMAIN Base |-> Resolved(key)]

RiskAccepts(s) == ~s.riskLive

RuntimeAccepts(s) ==
  /\ s.live => s.understood /\ s.confirm
  /\ s.mode = "live" => s.live
  /\ s.mode = "shadow_live" => ~s.live

Enabled(id) == {t \in Targets : t.enabled /\ t.id = id}

TargetAccepts(s) ==
  IF s.exchangeId = "" THEN Targets = {}
  ELSE \E t \in Targets : /\ Enabled(s.exchangeId) = {t}
                          /\ s.mode = "paper" => t.sandbox
                          /\ s.mode = "live" => ~t.sandbox

\* Faulty variant of Accepted: the kill switch is not asked for in live mode.
AcceptedWithoutSwitch(s) == RiskAccepts(s) /\ RuntimeAccepts(s) /\ TargetAccepts(s)

Accepted(s) ==
  /\ RiskAccepts(s) /\ RuntimeAccepts(s)
  /\ s.mode = "live" => s.kill
  /\ TargetAccepts(s)

(***************************************************************************)
(* The pre-flight gate.  The checks of the risk limits cannot fail on      *)
(* settings that were accepted, and neither can the one of the logging.    *)
(***************************************************************************)
Gates == {"MODE", "KILL_SWITCH", "API_KEYS", "SANDBOX", "EXCHANGE", "SECURITY"}
Critical == Gates \ {"SECURITY"}

Failing(s) ==
  {g \in Gates :
     CASE g = "MODE" -> (s.mode = "live" /\ ~s.live)
                        \/ (s.live /\ s.mode \notin {"live", "shadow_live"})
       [] g = "KILL_SWITCH" -> ~s.kill
       [] g = "API_KEYS" -> ~credentials
       [] g = "SANDBOX" -> s.mode = "live" /\ s.sandbox
       [] g = "EXCHANGE" -> s.exchangeId = ""
       [] g = "SECURITY" -> s.riskLive}

AllPassed(failed) == failed \cap Critical = {}

(***************************************************************************)
(* Steps.                                                                  *)
(***************************************************************************)
\* An edit under a running process is seen by the next start only.
Edit(s, setting) ==
  /\ running = {}
  /\ sources' = [sources EXCEPT ![s] = setting]
  /\ UNCHANGED <<credentials, running, report>>

SetCredentials(present) ==
  /\ credentials' = present /\ UNCHANGED <<sources, running, report>>

\* A ValidationError leaves no process.
Start ==
  /\ running = {}
  /\ running' = IF Accepted(Loaded) THEN {Loaded} ELSE {}
  /\ report' = {}
  /\ UNCHANGED <<sources, credentials>>

Validate ==
  /\ \E s \in running : report' = {<<s, Failing(s), credentials>>}
  /\ UNCHANGED <<sources, credentials, running>>

Stop == running' = {} /\ report' = {} /\ UNCHANGED <<sources, credentials>>

Next ==
  \/ \E s \in Sources : Edit(s, {}) \/ \E o \in Overrides : Edit(s, {o})
  \/ \E b \in BOOLEAN : SetCredentials(b)
  \/ Start \/ Validate \/ Stop

Spec == Init /\ [][Next]_readinessVars

(***************************************************************************)
(* Properties.                                                             *)
(***************************************************************************)

\* No combination of sources starts a live process that was not armed in
\* every place it has to be, or whose exchange target is a sandbox.  A
\* universe without exchanges has no target to compare with.
LiveIsArmed ==
  \A s \in running : s.mode = "live" =>
    /\ s.live /\ s.understood /\ s.confirm /\ s.kill /\ ~s.riskLive
    /\ Targets # {} => \E t \in Targets : t.enabled /\ t.id = s.exchangeId /\ ~t.sandbox

\* What the loader accepts in live mode, the gate can refuse only for missing
\* credentials or the sandbox flag of the exchange block, which the loader
\* does not compare with the target's; without exchanges, also for the missing one.
LoaderCoversTheGate ==
  \A r \in report : r[1].mode = "live" =>
    r[2] \cap Critical \subseteq
      {"API_KEYS", "SANDBOX"} \cup {g \in {"EXCHANGE"} : Targets = {}}

\* A report that passed was made of settings that could not reach an exchange
\* with the order path half open: live settings with both sandbox flags off,
\* or settings that are not enabled for live at all.
PassedMeansConsistent ==
  \A r \in report : AllPassed(r[2]) =>
    /\ r[3] /\ r[1].kill
    /\ IF r[1].mode = "live" THEN ~r[1].sandbox ELSE ~r[1].live

Safe == LiveIsArmed /\ LoaderCoversTheGate /\ PassedMeansConsistent
=============================================================================
