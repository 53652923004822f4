----------------------------- MODULE MetricsGate -----------------------------
(***************************************************************************)
(* The economics of a project and the gate that closes its phases on them: *)
(* records of cost, cost baselines, the metrics a background collector     *)
(* computes, and the transition of a phase that trusts them                *)
(* (internal/economics, internal/metrics, TransitionPhase of               *)
(* internal/project/phase.go, and the triggers of 0017, 0018, 0020, 0023). *)
(*                                                                         *)
(* Granularity: transactions run at READ COMMITTED.  The collector takes a *)
(* step for each of its reads, the approval of a baseline one up to the    *)
(* snapshot of the approved ones, a transition one for the facts and one   *)
(* for the blockers.  The other commands are one action: they lock what    *)
(* they check until they commit.                                           *)
(*                                                                         *)
(* Abstractions.  Every hour is of one role and every expense of one unit. *)
(* An earned value is a phase's deliverable being approved or not; planned *)
(* value, weights, indices and rounding are arithmetic on the same inputs. *)
(* The three metrics a gate requires are recorded together, so they are    *)
(* one observation.  Records are dated no later than the calculation and   *)
(* planned value does not move with the clock, but an observation may be   *)
(* too old whenever it is read.  A delivery repeats until it succeeds, and *)
(* every handler has the same clock: leases, attempts and dead handlers    *)
(* are in EventDelivery.                                                   *)
(***************************************************************************)
EXTENDS Naturals, FiniteSets

CONSTANTS
    Phase,          \* phases of the plan in force
    Baseline,       \* cost baselines that may be created
    Planner,        \* users with economics.write, who create baselines
    Approver,       \* users with economics.approve
    Collector,      \* handlers of after_economics_changed running at once
    Currency,       \* currencies
    BaseCurrency,   \* BaseCurrency[b]: currency of baseline b
    RateCurrency,   \* currency of the labour rates
    Limit,          \* Limit[b][p]: funding limit of phase p, 0 for none
    SystemRate,     \* hourly rate of the system, 0 for none
    ProjectRate,    \* hourly rate a project may set for itself
    ExpenseAmount,  \* amount of one expense
    None,           \* no user, no baseline, no phase
    MaxHours,       \* bound: hours logged in one phase
    MaxVersion      \* bound: changes of the inputs

ASSUME CostAssumption ==
    /\ BaseCurrency \in [Baseline -> Currency]
    /\ Limit \in [Baseline -> [Phase -> Nat]]
    /\ RateCurrency \in Currency
    /\ SystemRate \in Nat /\ ProjectRate \in Nat \ {0} /\ ExpenseAmount \in Nat
ASSUME NoneAssumption == None \notin Planner \cup Baseline \cup Phase
ASSUME SetsAssumption == IsFiniteSet(Collector) /\ IsFiniteSet(Phase) /\ IsFiniteSet(Currency)
ASSUME BoundsAssumption == MaxHours \in Nat /\ MaxVersion \in Nat

VARIABLES
    phase,      \* phase[p]: project_phases.status
    hours,      \* hours[p]: work_records
    expenses,   \* expense_records: a phase and a currency each
    rate,       \* labor_rates: the rate that applies, 0 for none
    link,       \* phase_deliverables: the phase of the deliverable, or None
    delivered,  \* is the deliverable approved
    generation, \* project_plan_bindings.config_generation
    baseline,   \* baseline[b]: cost_baselines
    approval,   \* approval[b]: the transaction approving b
    version,    \* metric_input_versions.version
    pending,    \* deliveries of after_economics_changed not handled
    collector,  \* collector[c]: the computation c is at
    latest,     \* the observation Latest finds: the last computed_at
    gate        \* gate[p]: the transition of p in progress

inputs == <<phase, hours, expenses, rate, link, delivered, generation>>
baselines == <<baseline, approval>>
metrics == <<collector, latest>>
vars == <<inputs, baselines, version, pending, metrics, gate>>

BaselineStatus == {"absent", "draft", "approved", "superseded"}
Quality == {"valid", "no_data", "error"}
Value == [cost : [Phase -> Nat], earned : SUBSET Phase]
NoValue == [cost |-> [p \in Phase |-> 0], earned |-> {}]
Observation == [at : Nat, version : Nat, baseline : Baseline \cup {None}, generation : Nat,
                quality : Quality, value : Value]
Stage == {"idle", "claimed", "versioned", "based", "validated", "computed", "recorded"}
Facts == [cost : Nat, baseline : Baseline \cup {None}, rate : Nat]
NoFacts == [cost |-> 0, baseline |-> None, rate |-> 0]
NoGate == [stage |-> "none", facts |-> NoFacts, fresh |-> FALSE]
NoApproval == [open |-> FALSE, seen |-> {}]
Nothing == [at |-> 0, version |-> 0, baseline |-> None, generation |-> 0,
            quality |-> "no_data", value |-> NoValue]
Free == [stage |-> "idle", obs |-> Nothing]

\* No baseline yet, or one in force.
InitialBaselines ==
    {[b \in Baseline |-> IF b = x THEN [status |-> "approved", by |-> u]
                         ELSE [status |-> "absent", by |-> None]] :
        x \in Baseline \cup {None}, u \in Planner}

\* A plan is in force and some of its phases were started.  Versions count
\* from the last of the events so far, whose delivery is due.
Init ==
    /\ phase \in [Phase -> {"not_started", "active"}]
    /\ hours = [p \in Phase |-> 0]
    /\ expenses = {}
    /\ rate = SystemRate
    /\ link = None
    /\ delivered = FALSE
    /\ generation = 1
    /\ baseline \in InitialBaselines
    /\ approval = [b \in Baseline |-> NoApproval]
    /\ version = 1
    /\ pending = 1
    /\ collector = [c \in Collector |-> Free]
    /\ latest = Nothing
    /\ gate = [p \in Phase |-> NoGate]

-----------------------------------------------------------------------------
(* The inputs of the metrics.                                              *)

\* The event of a change: the trigger on event_outbox counts the version up
\* and the subscription makes a delivery, in the same transaction.
EmitInputsChanged ==
    /\ version < MaxVersion
    /\ version' = version + 1
    /\ pending' = pending + 1

\* Faulty variant, to test GateHoldsTheLimit: the phase is read without FOR SHARE.
ReadsActive(p) == phase[p] = "active"

\* LogWorkRecord and RecordExpense read the phase FOR SHARE: not while a
\* transition holds it.
LocksActive(p) == phase[p] = "active" /\ gate[p] = NoGate

Approved == {b \in Baseline : baseline[b].status = "approved"}

\* The approved baseline, or None.
CurrentBaseline == IF Approved = {} THEN None ELSE CHOOSE b \in Approved : TRUE

LogWorkRecord(p) ==
    /\ LocksActive(p)
    /\ hours[p] < MaxHours
    /\ EmitInputsChanged
    /\ hours' = [hours EXCEPT ![p] = @ + 1]
    /\ UNCHANGED <<phase, expenses, rate, link, delivered, generation, baselines, metrics, gate>>

RecordExpense(p, cur) ==
    /\ LocksActive(p)
    /\ \A b \in Approved : BaseCurrency[b] = cur
    /\ <<p, cur>> \notin expenses
    /\ EmitInputsChanged
    /\ expenses' = expenses \cup {<<p, cur>>}
    /\ UNCHANGED <<phase, hours, rate, link, delivered, generation, baselines, metrics, gate>>

\* A project rate goes before the system rate; periods may not overlap.
SetLaborRate ==
    /\ rate # ProjectRate
    /\ EmitInputsChanged
    /\ rate' = ProjectRate
    /\ UNCHANGED <<phase, hours, expenses, link, delivered, generation, baselines, metrics, gate>>

LinkPhaseDeliverable(p) ==
    /\ link # p
    /\ EmitInputsChanged
    /\ link' = p
    /\ UNCHANGED <<phase, hours, expenses, rate, delivered, generation, baselines, metrics, gate>>

\* wp.approved, wp.revision_committed or wp.retired.
ChangeDeliverable ==
    /\ EmitInputsChanged
    /\ delivered' = ~delivered
    /\ UNCHANGED <<phase, hours, expenses, rate, link, generation, baselines, metrics, gate>>

ApplyPlan ==
    /\ EmitInputsChanged
    /\ generation' = generation + 1
    /\ UNCHANGED <<phase, hours, expenses, rate, link, delivered, baselines, metrics, gate>>

-----------------------------------------------------------------------------
(* Cost baselines.                                                         *)

CreateCostBaseline(u, b) ==
    /\ baseline[b].status = "absent"
    /\ baseline' = [baseline EXCEPT ![b] = [status |-> "draft", by |-> u]]
    /\ UNCHANGED <<inputs, approval, version, pending, metrics, gate>>

\* The row of b is locked and checked, the statement that supersedes the
\* approved ones takes its snapshot.
BeginApproval(u, b) ==
    /\ ~approval[b].open
    /\ baseline[b].status \notin {"absent", "approved"}
    /\ u # baseline[b].by
    /\ approval' = [approval EXCEPT ![b] = [open |-> TRUE, seen |-> Approved]]
    /\ UNCHANGED <<inputs, baseline, version, pending, metrics, gate>>

\* Faulty variant, to test BaselineStaysUnique: no unique index.
NoIndex(b) == TRUE

\* cost_baselines_single_approved_idx: what was approved since is in the way.
SingleApproved(b) == Approved \subseteq approval[b].seen

CommitApproval(b) ==
    /\ approval[b].open
    /\ SingleApproved(b)
    /\ EmitInputsChanged
    /\ baseline' = [x \in Baseline |->
                      IF x = b THEN [baseline[x] EXCEPT !.status = "approved"]
                      ELSE IF x \in Approved \cap approval[b].seen
                           THEN [baseline[x] EXCEPT !.status = "superseded"]
                           ELSE baseline[x]]
    /\ approval' = [approval EXCEPT ![b] = NoApproval]
    /\ UNCHANGED <<inputs, metrics, gate>>

AbandonApproval(b) ==
    /\ approval[b].open
    /\ approval' = [approval EXCEPT ![b] = NoApproval]
    /\ UNCHANGED <<inputs, baseline, version, pending, metrics, gate>>

-----------------------------------------------------------------------------
(* What is computed from the inputs.                                       *)

Cost(p) ==
    hours[p] * rate + ExpenseAmount * Cardinality({e \in expenses : e[1] = p})

\* validateCostInputs: a rate for every hour, every amount in this currency.
CostsComplete(b) ==
    /\ (\E p \in Phase : hours[p] > 0) => rate # 0 /\ RateCurrency = BaseCurrency[b]
    /\ \A e \in expenses : e[2] = BaseCurrency[b]

EarnedValue == [cost |-> [p \in Phase |-> Cost(p)],
                earned |-> IF delivered THEN {link} \ {None} ELSE {}]

-----------------------------------------------------------------------------
(* The collector.                                                          *)

At(c, stage) == collector[c].stage = stage
Move(c, stage, obs) == collector' = [collector EXCEPT ![c] = [stage |-> stage, obs |-> obs]]
Busy == {c \in Collector : ~At(c, "idle")}
Elsewhere == <<inputs, baselines, version, gate>>

\* The last computed_at there is.  Only the order of these times matters: they
\* count from that of the latest observation.
Newest ==
    LET ats == {0} \cup {collector[c].obs.at : c \in Busy}
    IN  CHOOSE n \in ats : \A m \in ats : m <= n
CountedFrom(at, n) == IF n > at THEN n - at ELSE 0

Unclaimed == pending > Cardinality(Busy)

\* A delivery is claimed and its handler takes the time, which will be
\* computed_at.  The delivery stays due until the handler commits.
Claim(c) ==
    /\ At(c, "idle")
    /\ Unclaimed
    /\ Move(c, "claimed", [Nothing EXCEPT !.at = Newest + 1])
    /\ UNCHANGED <<Elsewhere, pending, latest>>

ReadVersion(c) ==
    /\ At(c, "claimed")
    /\ Move(c, "versioned", [collector[c].obs EXCEPT !.version = version])
    /\ UNCHANGED <<Elsewhere, pending, latest>>

\* The generation and the approved baseline; without one there is no data.
ReadBaseline(c) ==
    /\ At(c, "versioned")
    /\ LET obs == [collector[c].obs EXCEPT !.baseline = CurrentBaseline, !.generation = generation]
       IN  IF Approved = {} THEN Move(c, "recorded", obs) ELSE Move(c, "based", obs)
    /\ UNCHANGED <<Elsewhere, pending, latest>>

ValidateCostInputs(c) ==
    /\ At(c, "based")
    /\ LET obs == collector[c].obs
       IN  IF CostsComplete(obs.baseline)
           THEN Move(c, "validated", obs)
           ELSE Move(c, "recorded", [obs EXCEPT !.quality = "error"])
    /\ UNCHANGED <<Elsewhere, pending, latest>>

ComputeEarnedValue(c) ==
    /\ At(c, "validated")
    /\ Move(c, "computed", [collector[c].obs EXCEPT !.quality = "valid", !.value = EarnedValue])
    /\ UNCHANGED <<Elsewhere, pending, latest>>

\* A valid observation is recorded if the version has not moved since it was read.
RecheckInputs(c) ==
    /\ At(c, "computed") /\ collector[c].obs.version = version
    /\ Move(c, "recorded", collector[c].obs)
    /\ UNCHANGED <<Elsewhere, pending, latest>>

\* The inputs changed during the computation: the transaction is undone and
\* the delivery falls due again.
RetryCollection(c) ==
    /\ At(c, "computed") /\ collector[c].obs.version # version
    /\ Move(c, "idle", Nothing)
    /\ UNCHANGED <<Elsewhere, pending, latest>>

\* Faulty variant, to test FreshObservationIsExact: an observation carries
\* the version there is when it is recorded.
RecordedNow(obs) == [obs EXCEPT !.version = version]
Record(obs) == obs

\* Faulty variant, to test QuietIsCurrent: the last to commit is latest.
LaterCommitted(obs) == TRUE
LaterComputed(obs) == obs.at > 0

\* The handler commits with its delivery.
CommitObservation(c) ==
    LET obs == Record(collector[c].obs)
    IN  /\ At(c, "recorded")
        /\ latest' = IF LaterComputed(obs) THEN [obs EXCEPT !.at = 0] ELSE latest
        /\ pending' = pending - 1
        /\ collector' = [x \in Collector |->
                            IF x = c THEN Free
                            ELSE [collector[x] EXCEPT !.obs.at = CountedFrom(obs.at, @)]]
        /\ UNCHANGED Elsewhere

-----------------------------------------------------------------------------
(* The gate of a phase.                                                    *)

\* Latest: the quality of an observation when it is read.
Current ==
    /\ latest.version = version
    /\ latest.baseline = CurrentBaseline
    /\ latest.generation = generation
Fresh == latest.quality = "valid" /\ Current

SetGate(p, stage, facts, fresh) ==
    gate' = [gate EXCEPT ![p] = [stage |-> stage, facts |-> facts, fresh |-> fresh]]
NotGate == <<inputs, baselines, version, pending, metrics>>

\* The phase is locked, then the facts are read.  Incomplete cost data refuse
\* any transition of a project with a baseline.
PhaseGateFacts(p) ==
    /\ gate[p] = NoGate
    /\ phase[p] # "completed"
    /\ \A b \in Approved : CostsComplete(b)
    /\ SetGate(p, "facts", [cost |-> Cost(p), baseline |-> CurrentBaseline, rate |-> rate], FALSE)
    /\ UNCHANGED NotGate

\* The observation may also have become older than max_age_seconds.
GateBlockers(p) ==
    /\ gate[p].stage = "facts"
    /\ \E aged \in BOOLEAN : SetGate(p, "judged", gate[p].facts, Fresh /\ ~aged)
    /\ UNCHANGED NotGate

\* The rules of before_phase_transition that may veto.  The third one, on the
\* cost index, only leaves a remark in the audit.
RuleDefinitions ==
    {[when |-> {"completes"}, assert |-> "within_funding_limit"],
     [when |-> {"completes", "economics_applicable"}, assert |-> "metrics_fresh"]}

WithinFundingLimit(facts, p) ==
    facts.baseline # None =>
        Limit[facts.baseline][p] = 0 \/ facts.cost <= Limit[facts.baseline][p]

\* What holds of the transition of p, by the facts collected for the rules.
Evaluate(p) ==
    [completes            |-> phase[p] = "active",
     economics_applicable |-> gate[p].facts.baseline # None,
     within_funding_limit |-> WithinFundingLimit(gate[p].facts, p),
     metrics_fresh        |-> gate[p].fresh]

EnforceRules(p) ==
    \A rule \in RuleDefinitions :
        (\A condition \in rule.when : Evaluate(p)[condition]) => Evaluate(p)[rule.assert]

CommitTransition(p) ==
    /\ gate[p].stage = "judged"
    /\ EnforceRules(p)
    /\ EmitInputsChanged
    /\ phase' = [phase EXCEPT ![p] = IF @ = "active" THEN "completed" ELSE "active"]
    /\ gate' = [gate EXCEPT ![p] = NoGate]
    /\ UNCHANGED <<hours, expenses, rate, link, delivered, generation, baselines, metrics>>

AbandonTransition(p) ==
    /\ gate[p] # NoGate
    /\ gate' = [gate EXCEPT ![p] = NoGate]
    /\ UNCHANGED NotGate

-----------------------------------------------------------------------------
Collect(c) ==
    \/ Claim(c)
    \/ ReadVersion(c)
    \/ ReadBaseline(c)
    \/ ValidateCostInputs(c)
    \/ ComputeEarnedValue(c)
    \/ RecheckInputs(c)
    \/ RetryCollection(c)
    \/ CommitObservation(c)

Next ==
    \/ \E p \in Phase : LogWorkRecord(p) \/ LinkPhaseDeliverable(p)
    \/ \E p \in Phase, cur \in Currency : RecordExpense(p, cur)
    \/ SetLaborRate \/ ChangeDeliverable \/ ApplyPlan
    \/ \E b \in Baseline :
          \/ \E u \in Planner : CreateCostBaseline(u, b)
          \/ \E u \in Approver : BeginApproval(u, b)
          \/ CommitApproval(b) \/ AbandonApproval(b)
    \/ \E c \in Collector : Collect(c)
    \/ \E p \in Phase : \/ PhaseGateFacts(p) \/ GateBlockers(p)
                        \/ CommitTransition(p) \/ AbandonTransition(p)

Spec == Init /\ [][Next]_vars

-----------------------------------------------------------------------------
(* Properties.                                                             *)

TypeOK ==
    /\ phase \in [Phase -> {"not_started", "active", "completed"}]
    /\ hours \in [Phase -> Nat]
    /\ expenses \subseteq Phase \X Currency
    /\ rate \in Nat
    /\ link \in Phase \cup {None}
    /\ delivered \in BOOLEAN
    /\ generation \in Nat
    /\ baseline \in [Baseline -> [status : BaselineStatus, by : Planner \cup {None}]]
    /\ approval \in [Baseline -> [open : BOOLEAN, seen : SUBSET Baseline]]
    /\ version \in Nat
    /\ pending \in Nat
    /\ collector \in [Collector -> [stage : Stage, obs : Observation]]
    /\ latest \in Observation
    /\ gate \in [Phase -> [stage : {"none", "facts", "judged"}, facts : Facts,
                           fresh : BOOLEAN]]

\* An observation that Latest calls valid is what a calculation would give at
\* this moment, on this baseline, whatever changed while it was computed.
FreshObservationIsExact ==
    Fresh => Approved # {} /\ latest.value = EarnedValue /\ CostsComplete(CurrentBaseline)

\* Once a project has an approved baseline it keeps exactly one, whoever
\* approves which at the same time.
BaselineStaysUnique ==
    [][Approved # {} => Cardinality(Approved') = 1]_vars

\* A phase is completed within the limit of the baseline it was judged by:
\* no charge slips in between the facts and the change of status (the comment
\* of TransitionPhase), if neither rate nor baseline change meanwhile.
GateHoldsTheLimit ==
    [][\A p \in Phase :
          /\ phase[p] = "active" /\ phase'[p] = "completed"
          /\ gate[p].facts.baseline = CurrentBaseline /\ Approved # {}
          /\ gate[p].facts.rate = rate
          => \/ Limit[CurrentBaseline][p] = 0
             \/ Cost(p)' <= Limit[CurrentBaseline][p]]_vars

\* When every delivery was handled, the latest observation is one of the
\* current inputs: a late computation of older inputs does not stay on top.
QuietIsCurrent == pending = 0 => latest.version = version
=============================================================================
