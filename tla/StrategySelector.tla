-------------------------- MODULE StrategySelector --------------------------
(***************************************************************************)
(* trading_bot/paper/strategy_selector.py: the strategies allowed to trade *)
(* on paper, in memory and in one JSON file each, across restarts.  An     *)
(* operator may edit a file; a write may fail.  Entry and exit rules, which*)
(* no code reads and to_dict leaves out of the file, are left out here.    *)
(*                                                                         *)
(* vouched, fileVouched and astray are history variables: whose            *)
(* configuration in memory, or in the file, says so on somebody's word     *)
(* that it may trade; and whose file was edited, or could not be written,  *)
(* since it was last written or read.                                      *)
(***************************************************************************)
EXTENDS Integers, FiniteSets

CONSTANTS
  Strategies,
  TradeBound             \* bound: total_trades

Statuses == {"PENDING", "READY", "ACTIVE", "SUSPENDED", "DEPRECATED"}
Missing == "missing"

\* Statuses that trade, or that activate_strategy makes trade.
Vouching == {"READY", "ACTIVE", "SUSPENDED"}

VARIABLES
  config,                \* strategy |-> [status, trades], as in memory
  saved,                 \* the same, as its file says
  readable,              \* strategies with a file that can be parsed
  vouched, fileVouched, astray

selectorVars == <<config, saved, readable, vouched, fileVouched, astray>>

Config == [status : Statuses, trades : 0..TradeBound]
NoConfig == [status |-> Missing]

TypeOK ==
  /\ config \in [Strategies -> Config \cup {NoConfig}]
  /\ saved \in [Strategies -> Config \cup {NoConfig}]
  /\ {readable, vouched, fileVouched, astray} \subseteq SUBSET Strategies

Init ==
  /\ config = [s \in Strategies |-> NoConfig] /\ saved = config
  /\ readable = {} /\ vouched = {} /\ fileVouched = {} /\ astray = {}

Known(s) == config[s] # NoConfig

Told(S, s, yes) == IF yes THEN S \cup {s} ELSE S \ {s}

\* _save_strategy, after the memory was changed: the file is written, or
\* write_text raises and the file stays as it was.
Save(s, c, yes) ==
  /\ config' = [config EXCEPT ![s] = c]
  /\ vouched' = Told(vouched, s, yes)
  /\ \/ /\ saved' = [saved EXCEPT ![s] = c]
        /\ readable' = readable \cup {s}
        /\ fileVouched' = Told(fileVouched, s, yes)
        /\ astray' = astray \ {s}
     \/ /\ astray' = astray \cup {s}
        /\ UNCHANGED <<saved, readable, fileVouched>>

\* An existing strategy is replaced, statistics included; any status goes.
Register(s, status) ==
  Save(s, [status |-> status, trades |-> 0], status \in Vouching)

\* Faulty variant of Activate: every status but DEPRECATED may be activated.
ActivateAny(s) ==
  /\ Known(s) /\ config[s].status # "DEPRECATED"
  /\ Save(s, [config[s] EXCEPT !.status = "ACTIVE"], s \in vouched)

Activate(s) ==
  /\ Known(s) /\ config[s].status \in {"READY", "SUSPENDED"}
  /\ Save(s, [config[s] EXCEPT !.status = "ACTIVE"], s \in vouched)

\* Any status becomes SUSPENDED, PENDING and DEPRECATED ones as well.
Deactivate(s) ==
  /\ Known(s)
  /\ Save(s, [config[s] EXCEPT !.status = "SUSPENDED"], TRUE)

UpdateTradeStats(s) ==
  /\ Known(s) /\ config[s].trades < TradeBound
  /\ Save(s, [config[s] EXCEPT !.trades = @ + 1], s \in vouched)

\* A hand edit or a cut write leaves a file that does not parse, or none.
DamageFile(s) ==
  /\ readable' = readable \ {s}
  /\ UNCHANGED <<config, saved, vouched, fileVouched, astray>>

\* A hand edit leaves any configuration that parses, of a strategy that was
\* never registered as well.
EditFile(s, c) ==
  /\ saved' = [saved EXCEPT ![s] = c]
  /\ readable' = readable \cup {s}
  /\ fileVouched' = Told(fileVouched, s, c.status \in Vouching)
  /\ astray' = astray \cup {s}
  /\ UNCHANGED <<config, vouched>>

\* Each file is loaded on its own, with the status it has: one that does not
\* parse is skipped.
Restart ==
  /\ config' = [s \in Strategies |-> IF s \in readable THEN saved[s] ELSE NoConfig]
  /\ vouched' = fileVouched \cap readable
  /\ astray' = {}
  /\ UNCHANGED <<saved, readable, fileVouched>>

Next ==
  \/ \E s \in Strategies :
       \/ Activate(s) \/ Deactivate(s) \/ UpdateTradeStats(s) \/ DamageFile(s)
       \/ \E status \in Statuses : Register(s, status)
       \/ \E c \in Config : EditFile(s, c)
  \/ Restart

Spec == Init /\ [][Next]_selectorVars

---------------------------------------------------------------------------

(* A strategy trades only if whoever registered it last, or edited the     *)
(* file it was last read from, gave it a status that may trade, or if it   *)
(* was deactivated since.  No method of the selector promotes a PENDING or *)
(* DEPRECATED strategy otherwise: over failed writes, lost files and       *)
(* restarts, a registration as PENDING stays withdrawn.                    *)
ActiveWasVouchedFor ==
  \A s \in Strategies : config[s].status = "ACTIVE" => s \in vouched

(* What a strategy did is not lost at a restart: memory and file agree for *)
(* every strategy whose file can be read, was not edited since it was last *)
(* written or read, and could be written.                                  *)
FileAgrees == \A s \in readable \ astray : Known(s) => config[s] = saved[s]

Safe == ActiveWasVouchedFor /\ FileAgrees

============================================================================
