---------------------------- MODULE Qualification ----------------------------
(***************************************************************************)
(* From a discovery pass to a qualified engine: the queue of hypotheses    *)
(* and the confirmation protocol (research/confirmation.py), the           *)
(* operational gate (research/qualification.py), and the qualification and *)
(* evidence gates of research/gates.py.  The caller freezes a candidate,   *)
(* runs the confirmation with whatever candidate and windows it then has,  *)
(* and may complete a result more than once.                               *)
(***************************************************************************)
EXTENDS Integers, Sequences, FiniteSets

CONSTANTS
  Candidates,            \* [code, risk]: the hashed parts, and one that is not
  Windows,               \* [symbol, from, to]
  Inputs,                \* what the gates are told of a run and its market, see InputSet
  Hypotheses,            \* how many the queue holds
  MaxAdvances            \* bound

Classes == {"SYNTHETIC", "HISTORICAL_FIXTURE", "HISTORICAL_MARKET_REAL", "PAPER_REALTIME"}
Operational == {"HISTORICAL_MARKET_REAL", "PAPER_REALTIME"}
Required == {"engine", "risk", "methodology", "freeze", "restart", "calendar"}

\* What the operational gate is told of a run, and what the two research gates
\* are told; an input that may be absent is a set of at most one value.  They
\* are arguments of different calls: nothing in the code makes the quality, the
\* evidence class or the reconciliation of one that of the other, and a
\* checksum of the market snapshot is no hash of a candidate.
RunInputs ==
  [evidence : SUBSET Classes, quality : SUBSET BOOLEAN,
   backtest : SUBSET [trades : Nat, calculated : BOOLEAN],
   reconciled : BOOLEAN, audit : BOOLEAN, hashValid : BOOLEAN,
   effects : SUBSET {"live", "paper"}, dataset : SUBSET Classes]
MarketInputs ==
  [class : Classes, provenance : SUBSET BOOLEAN, checksum : BOOLEAN, quality : BOOLEAN,
   accounting : BOOLEAN, granted : SUBSET Required]
InputSet == [run : RunInputs, market : MarketInputs]

QualificationAssumption ==
  /\ Hypotheses \in Nat /\ \A w \in Windows : w.from \in Int /\ w.to \in Int
  /\ Inputs \subseteq InputSet

VARIABLES
  frozen,                \* candidate and window as they were frozen: {} or a singleton
  result,                \* the last ConfirmationResult, {} before the first
  audited,               \* history: the audits a result was completed with
  queue,                 \* [pointer, completed, exhausted]
  verdict                \* the last evaluation of the gates, {} before the first

qualificationVars == <<frozen, result, audited, queue, verdict>>

States == {"RUNNING_CONFIRMATION", "CONFIRMED", "CONFIRMATION_REJECTED",
           "NOT_CONFIRMATION_INVALIDATED", "REJECT_WINDOW_OVERLAP"}

TypeOK ==
  /\ \A f \in frozen : f.candidate \in Candidates /\ f.window \in Windows
  /\ \A r \in result : r.state \in States /\ r.match \in BOOLEAN /\ r.disjoint \in BOOLEAN
  /\ queue.pointer \in Nat /\ queue.exhausted \in BOOLEAN
  /\ Cardinality(frozen) <= 1 /\ Cardinality(result) <= 1

Init ==
  /\ frozen = {} /\ result = {} /\ audited = {} /\ verdict = {}
  /\ queue = [pointer |-> 0, completed |-> <<>>, exhausted |-> Hypotheses = 0]

(***************************************************************************)
(* The queue.  Nothing stops an advance past its end.                      *)
(***************************************************************************)
Advance ==
  /\ queue.pointer < MaxAdvances
  /\ queue' = [pointer |-> queue.pointer + 1,
               completed |-> Append(queue.completed, queue.pointer),
               exhausted |-> queue.exhausted \/ queue.pointer + 1 >= Hypotheses]
  /\ frozen' = {} /\ result' = {} /\ audited' = {} /\ verdict' = {}

(***************************************************************************)
(* The protocol.                                                           *)
(***************************************************************************)
Overlaps(v, w) == v.symbol = w.symbol /\ v.from < w.to /\ w.from < v.to

FreezeCandidate(c, w) ==
  /\ frozen = {}
  /\ frozen' = {[candidate |-> c, window |-> w]}
  /\ UNCHANGED <<result, audited, queue, verdict>>

Outcome(state, match, disjoint, c, w) ==
  [state |-> state, match |-> match, disjoint |-> disjoint, candidate |-> c, window |-> w]

\* The windows are looked at first; a rejected result has hash_match unset.
RunConfirmation(c, w) ==
  /\ \E f \in frozen :
       result' = {IF Overlaps(f.window, w)
                  THEN Outcome("REJECT_WINDOW_OVERLAP", FALSE, FALSE, c, w)
                  ELSE IF f.candidate # c
                  THEN Outcome("NOT_CONFIRMATION_INVALIDATED", FALSE, TRUE, c, w)
                  ELSE Outcome("RUNNING_CONFIRMATION", TRUE, TRUE, c, w)}
  /\ audited' = {} /\ verdict' = {}
  /\ UNCHANGED <<frozen, queue>>

\* Faulty variant of Completed: the match of the candidate is not looked at again.
CompletedAnyMatch(r, audit) ==
  IF ~r.disjoint THEN "REJECT_WINDOW_OVERLAP"
  ELSE IF audit THEN "CONFIRMED" ELSE "CONFIRMATION_REJECTED"

Completed(r, audit) ==
  IF ~r.match THEN "NOT_CONFIRMATION_INVALIDATED"
  ELSE IF ~r.disjoint THEN "REJECT_WINDOW_OVERLAP"
  ELSE IF audit THEN "CONFIRMED" ELSE "CONFIRMATION_REJECTED"

CompleteConfirmation(audit) ==
  /\ result # {}
  /\ result' = {[r EXCEPT !.state = Completed(r, audit)] : r \in result}
  /\ audited' = audited \cup {audit}
  /\ verdict' = {}
  /\ UNCHANGED <<frozen, queue>>

(***************************************************************************)
(* The gates.                                                              *)
(***************************************************************************)

\* The checks of the operational gate, with their category and outcome.
StandingChecks(run) ==
  {<<"INFRASTRUCTURE", "real_data", run.evidence \cap Operational # {}>>,
   <<"INFRASTRUCTURE", "data_quality", run.quality = {TRUE}>>,
   <<"INFRASTRUCTURE", "real_backtest_engine", \E b \in run.backtest : b.calculated>>,
   <<"INFRASTRUCTURE", "no_live_effects", "live" \notin run.effects>>,
   <<"INFRASTRUCTURE", "no_paper_effects", "paper" \notin run.effects>>,
   <<"METHODOLOGY", "trade_evidence", run.backtest # {}>>,
   <<"METHODOLOGY", "pnl_reconciliation", run.reconciled>>,
   <<"METHODOLOGY", "audit_pass", run.audit>>,
   <<"METHODOLOGY", "hash_integrity", run.hashValid>>,
   <<"METHODOLOGY", "dataset_classification", "SYNTHETIC" \notin run.dataset>>}

\* These are there only when there is something to make them from.
OccasionalChecks(run, shown) ==
  {<<"CONFIRMATION", "confirmation", r.state = "CONFIRMED">> : r \in shown}
  \cup {<<"ECONOMIC", "has_trades", b.trades > 0>> : b \in run.backtest}
  \cup {<<"FREQUENCY", "frequency_from_trades", TRUE>> : b \in run.backtest}

Checks(run, shown) == StandingChecks(run) \cup OccasionalChecks(run, shown)

PassedIn(checks, category) == \A k \in checks : k[1] = category => k[3]
EngineQualified(checks) == PassedIn(checks, "INFRASTRUCTURE") /\ PassedIn(checks, "METHODOLOGY")
OverallPass(checks) == \A k \in checks : k[3]

\* MarketEvidenceGate: real history only, with a complete provenance.
MarketEvidence(market) ==
  /\ market.class = "HISTORICAL_MARKET_REAL" /\ market.provenance = {TRUE}
  /\ market.checksum /\ market.quality

FullyQualified(market) ==
  market.accounting /\ MarketEvidence(market) /\ market.granted = Required

\* The caller shows the operational gate its confirmation, or none.
Evaluate(in) ==
  /\ verdict = {}
  /\ \E shown \in SUBSET result :
       verdict' = {[in |-> in, shown |-> shown, checks |-> Checks(in.run, shown),
                    full |-> FullyQualified(in.market)]}
  /\ UNCHANGED <<frozen, result, audited, queue>>

Next ==
  \/ Advance
  \/ \E c \in Candidates, w \in Windows : FreezeCandidate(c, w) \/ RunConfirmation(c, w)
  \/ \E a \in BOOLEAN : CompleteConfirmation(a)
  \/ \E in \in Inputs : Evaluate(in)

Spec == Init /\ [][Next]_qualificationVars

(***************************************************************************)
(* Properties.                                                             *)
(***************************************************************************)

\* Whatever is completed, and however often: only the frozen candidate, on a
\* window disjoint from its discovery, is ever confirmed, and never unaudited.
OnlyTheFrozenIsConfirmed ==
  \A r \in result : r.state = "CONFIRMED" =>
    /\ TRUE \in audited
    /\ \A f \in frozen :
         /\ f.candidate = r.candidate
         /\ f.window.symbol = r.window.symbol =>
              (f.window.from..(f.window.to - 1)) \cap (r.window.from..(r.window.to - 1)) = {}

\* The queue has been through every hypothesis before its pointer, once each,
\* and is exhausted exactly when none is left.
QueueInOrder ==
  /\ queue.completed = [i \in 1..queue.pointer |-> i - 1]
  /\ queue.exhausted <=> queue.pointer >= Hypotheses

\* What the gates can agree on, they agree on: told the same evidence class,
\* quality and reconciliation, a fully qualified run fails no engine check but
\* for what the research gates are not told, and a qualified engine misses full
\* qualification only for what the operational gate is not told.  An overall
\* pass over a confirmation is one over the frozen candidate, audited.
ToldTheSame(in) ==
  /\ in.run.evidence = {in.market.class} /\ in.run.quality = {in.market.quality}
  /\ in.run.reconciled = in.market.accounting
UntoldToResearch ==
  {"real_backtest_engine", "trade_evidence", "audit_pass", "hash_integrity",
   "no_live_effects", "no_paper_effects", "dataset_classification"}
GatesAgree ==
  \A v \in verdict :
    /\ ToldTheSame(v.in) =>
         /\ v.full => \A k \in v.checks :
              k[1] \in {"INFRASTRUCTURE", "METHODOLOGY"} /\ k[2] \notin UntoldToResearch => k[3]
         /\ EngineQualified(v.checks) /\ ~v.full =>
              \/ v.in.market.class = "PAPER_REALTIME" \/ v.in.market.provenance # {TRUE}
              \/ ~v.in.market.checksum \/ v.in.market.granted # Required
    /\ OverallPass(v.checks) => \A r \in v.shown :
         TRUE \in audited /\ \A f \in frozen : f.candidate = r.candidate

Safe == OnlyTheFrozenIsConfirmed /\ QueueInOrder /\ GatesAgree
=============================================================================
