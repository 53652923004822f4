--------------------------- MODULE PlanExecution ---------------------------
(***************************************************************************)
(* A project's plan in force: its revisions, the phases and milestones     *)
(* that ApplyPlan projects from one of them, the start and completion of   *)
(* phases and the acceptance of milestones (internal/project: plan.go,     *)
(* phase.go, milestone.go).                                                *)
(*                                                                         *)
(* Granularity: TransitionPhase holds the row lock of one phase from its   *)
(* first statement to its commit, AcceptMilestone that of one milestone    *)
(* and, one by one, a share lock on each work product it takes as          *)
(* evidence.  What they read besides is not locked, so each statement that *)
(* reads is a step.  ApplyPlan, the other commands on the plan, the review *)
(* of work products and the logging of work lock every row they read, so   *)
(* each is one action, taken when the rows are free: what they write shows *)
(* at their commit.                                                        *)
(*                                                                         *)
(* Abstractions.  A plan revision is its author, its approver and its      *)
(* phases and milestones; expected row versions and reviews step by step   *)
(* are in WorkProductReview, here a review is the approval it ends in.     *)
(* Every deliverable names a work product and requires approved: any other *)
(* makes AcceptMilestone fail, as do acceptance rules.  Economic facts,    *)
(* metrics and rules may refuse a transition at any time (Rollback); what  *)
(* they decide on is in MetricsGate.                                       *)
(***************************************************************************)
EXTENDS Naturals, Sequences, FiniteSets

CONSTANTS
    User,           \* core.users with every permission of the project
    Phase,          \* phase keys
    Milestone,      \* milestone keys
    Product,        \* work products that are deliverables of the plan
    Manifest,       \* plan manifests the editors may write
    EmptyManifest,  \* DefaultGenericPlanManifest
    Worker,         \* transactions that may be open at once
    Nobody,         \* no user
    MaxPlans,       \* bound: revisions of the plan
    MaxRevisions,   \* bound: revisions of one deliverable
    MaxGeneration,  \* bound: plans applied
    MaxAccepts      \* bound: calls of AcceptMilestone

ManifestType == [phases : SUBSET Phase, deps : [Phase -> SUBSET Phase],
                 milestones : SUBSET Milestone, phaseOf : [Milestone -> Phase],
                 deliverables : [Milestone -> SUBSET Product]]

ASSUME ManifestAssumption ==
    /\ Manifest \subseteq ManifestType
    /\ EmptyManifest \in ManifestType
    /\ EmptyManifest.phases = {} /\ EmptyManifest.milestones = {}
ASSUME NobodyAssumption == Nobody \notin User
ASSUME SetsAssumption == IsFiniteSet(Product) /\ IsFiniteSet(Phase) /\ Phase # {}
ASSUME BoundsAssumption ==
    MaxPlans \in Nat /\ MaxRevisions \in Nat /\ MaxGeneration \in Nat /\ MaxAccepts \in Nat

VARIABLES
    plan,       \* plan[r]: author, approver and manifest of plan revision r
    effective,  \* project_plan_bindings.effective_plan_revision_id, or 0
    generation, \* project_plan_bindings.config_generation
    phase,      \* project_phases: status (or "absent"), deps, generation
    milestone,  \* project_milestones: status (or "absent"), phase, ...
    decisions,  \* gate_decisions with their gate_decision_evidence
    product,    \* product[d]: status and authors of the revisions
    activity,   \* phases with work_records or expense_records
    tx,         \* tx[w]: the transaction worker w has open
    clock       \* now() of the transactions that accept a milestone

rows == <<phase, milestone, decisions>>
plans == <<plan, effective, generation>>
vars == <<plans, rows, product, activity, tx, clock>>

PlanRevision == [by : User, approvedBy : User \cup {Nobody}, manifest : ManifestType]
PhaseRow == [status : {"absent", "not_started", "active", "completed"},
             deps : SUBSET Phase, generation : Nat]
MilestoneRow == [status : {"absent", "pending", "passed"}, phase : Phase,
                 deliverables : SUBSET Product, generation : Nat]
Evidence == [wp : Product, revision : Nat, by : User]
NoRow == [status |-> "absent", phase |-> CHOOSE p \in Phase : TRUE,
          deliverables |-> {}, generation |-> 0]
GateDecision == [milestone : Milestone, plan : Nat, generation : Nat, by : User,
                 at : Nat, evidence : SUBSET Evidence]

Idle == [op |-> "idle"]
TransitionTx == [op : {"transition"}, phase : Phase, to : {"active", "completed"},
                 stage : {"locked", "checked"}]
AcceptTx == [op : {"accept"}, stage : {"begun", "locked", "deciding"}, milestone : Milestone,
             by : User, at : Nat, row : MilestoneRow, plan : Nat, evidence : SUBSET Evidence]

Present(table, k) == table[k].status # "absent"
PhaseHeld(p) == \E w \in Worker : tx[w].op = "transition" /\ tx[w].phase = p
MilestoneHeld(m) ==
    \E w \in Worker : tx[w].op = "accept" /\ tx[w].stage # "begun" /\ tx[w].milestone = m
\* Faulty variant, to test DecisionEvidenceCurrent: a SELECT without FOR SHARE.
Unshared(d) == FALSE

\* FOR SHARE of a work product by an acceptance that took it as evidence.
Shared(d) ==
    \E w \in Worker : tx[w].op = "accept" /\ \E e \in tx[w].evidence : e.wp = d

Latest(d) == Len(product[d].authors)

Init ==
    /\ \E u \in User : plan = <<[by |-> u, approvedBy |-> Nobody, manifest |-> EmptyManifest]>>
    /\ effective = 0
    /\ generation = 0
    /\ phase = [p \in Phase |-> [status |-> "absent", deps |-> {}, generation |-> 0]]
    /\ milestone = [m \in Milestone |-> NoRow]
    /\ decisions = {}
    /\ product \in [Product -> [status : {"draft"}, authors : {<<u>> : u \in User}]]
    /\ activity = {}
    /\ tx = [w \in Worker |-> Idle]
    /\ clock = 0

-----------------------------------------------------------------------------
(* The plan.                                                               *)

\* Faulty variant, to test SomePhaseCanProceed: only a phase that depends on
\* itself counts.
HasSelfDependency(M) == \E p \in M.phases : p \in M.deps[p]

\* Depth-first search from key: TRUE when it meets a phase it is visiting.
HasPhaseCycle(M) ==
    LET visit[visiting \in SUBSET M.phases] ==
            [key \in M.phases |->
                \/ key \in visiting
                \/ \E d \in M.deps[key] \cap M.phases : visit[visiting \cup {key}][d]]
    IN  \E key \in M.phases : visit[{}][key]

ValidManifest(M) ==
    /\ \A p \in M.phases : M.deps[p] \subseteq M.phases \ {p}
    /\ ~HasPhaseCycle(M)
    /\ \A m \in M.milestones : M.phaseOf[m] \in M.phases

RevisePlan(u, M) ==
    /\ Len(plan) < MaxPlans
    /\ ValidManifest(M)
    /\ plan' = Append(plan, [by |-> u, approvedBy |-> Nobody, manifest |-> M])
    /\ UNCHANGED <<effective, generation, rows, product, activity, tx, clock>>

\* The positive approval a review of the latest revision may end in.
ApprovePlanRevision(u) ==
    LET r == Len(plan)
    IN  /\ u # plan[r].by
        /\ plan[r].approvedBy = Nobody
        /\ plan' = [plan EXCEPT ![r].approvedBy = u]
        /\ UNCHANGED <<effective, generation, rows, product, activity, tx, clock>>

\* Faulty variant, to test ProjectionMatchesPlan: the DELETE of phases the
\* manifest lacks is missing.
ProjectedPhaseKept(M, p, g) ==
    IF p \in M.phases
    THEN [status |-> IF Present(phase, p) THEN phase[p].status ELSE "not_started",
          deps |-> M.deps[p], generation |-> g]
    ELSE phase[p]

\* The projection of a manifest: phases keep their status, milestones do not.
ProjectedPhase(M, p, g) ==
    IF p \in M.phases
    THEN [status |-> IF Present(phase, p) THEN phase[p].status ELSE "not_started",
          deps |-> M.deps[p], generation |-> g]
    ELSE [phase[p] EXCEPT !.status = "absent"]

\* Faulty variant, to test PassedUnderThisPlan: status = 'pending' is missing
\* in the upsert.
ProjectedMilestoneKept(M, m, g) ==
    IF m \in M.milestones
    THEN [status |-> IF milestone[m].status = "passed" THEN "passed" ELSE "pending",
          phase |-> M.phaseOf[m], deliverables |-> M.deliverables[m], generation |-> g]
    ELSE [milestone[m] EXCEPT !.status = "absent"]

ProjectedMilestone(M, m, g) ==
    IF m \in M.milestones
    THEN [status |-> "pending", phase |-> M.phaseOf[m],
          deliverables |-> M.deliverables[m], generation |-> g]
    ELSE [milestone[m] EXCEPT !.status = "absent"]

\* Faulty variant, to test RecordsKeepTheirRows: ON DELETE CASCADE.
AllDeletionsAllowed(M) == TRUE

\* ON DELETE RESTRICT of what would refer to a deleted phase or milestone.
DeletionsAllowed(M) ==
    /\ activity \subseteq M.phases
    /\ \A d \in decisions : d.milestone \in M.milestones

\* Faulty variant, to test CompletionNeedsPassedMilestones: a plan is applied
\* beside an open transition.
MilestonesFree == \A m \in Milestone : ~MilestoneHeld(m)

\* ApplyPlan updates or deletes every projected row, so it waits for them all.
RowsFree ==
    /\ \A p \in Phase : ~PhaseHeld(p)
    /\ \A m \in Milestone : ~MilestoneHeld(m)

ApplyPlan(r) ==
    LET M == plan[r].manifest
    IN  /\ generation < MaxGeneration
        /\ RowsFree
        /\ ValidManifest(M)
        /\ plan[r].approvedBy # Nobody
        /\ r # effective
        /\ DeletionsAllowed(M)
        /\ effective' = r
        /\ generation' = generation + 1
        /\ phase' = [p \in Phase |-> ProjectedPhase(M, p, generation + 1)]
        /\ milestone' = [m \in Milestone |-> ProjectedMilestone(M, m, generation + 1)]
        /\ UNCHANGED <<plan, decisions, product, activity, tx, clock>>

-----------------------------------------------------------------------------
(* Deliverables and records of work.                                       *)

ProductCommand(d, status, authors) ==
    /\ ~Shared(d)
    /\ product[d].status # "obsolete"
    /\ product' = [product EXCEPT ![d] = [status |-> status, authors |-> authors]]
    /\ UNCHANGED <<plans, rows, activity, tx, clock>>

ReviseProduct(u, d) ==
    /\ Latest(d) < MaxRevisions
    /\ ProductCommand(d, "draft", Append(product[d].authors, u))

ApproveProduct(d) ==
    /\ product[d].status = "draft"
    /\ ProductCommand(d, "approved", product[d].authors)

RetireProduct(d) == ProductCommand(d, "obsolete", product[d].authors)

\* LogWorkRecord and RecordExpense take the phase FOR SHARE and want it active.
LogWork(p) ==
    /\ ~PhaseHeld(p)
    /\ phase[p].status = "active"
    /\ activity' = activity \cup {p}
    /\ UNCHANGED <<plans, rows, product, tx, clock>>

-----------------------------------------------------------------------------
(* Decisions on milestones.                                                *)

DecisionsOn(m, g) == {x \in decisions : x.milestone = m /\ x.generation = g}

\* ORDER BY decided_at DESC LIMIT 1, as a set of at most one decision.
LatestDecision(m, g) ==
    {x \in DecisionsOn(m, g) : \A y \in DecisionsOn(m, g) : y.at <= x.at}

Covers(x, deliverables) == Cardinality(x.evidence) = Cardinality(deliverables)

EvidenceCurrent(x) ==
    \A e \in x.evidence : product[e.wp].status = "approved" /\ e.revision = Latest(e.wp)

BeginAccept(w, u, m) ==
    /\ tx[w] = Idle
    /\ clock < MaxAccepts
    /\ clock' = clock + 1
    /\ tx' = [tx EXCEPT ![w] = [op |-> "accept", stage |-> "begun", milestone |-> m, by |-> u,
                                at |-> clock + 1, row |-> NoRow, plan |-> 0,
                                evidence |-> {}]]
    /\ UNCHANGED <<plans, rows, product, activity>>

InStage(w, op, stage) == tx[w].op = op /\ tx[w].stage = stage

LockMilestone(w) ==
    /\ InStage(w, "accept", "begun")
    /\ Present(milestone, tx[w].milestone)
    /\ ~MilestoneHeld(tx[w].milestone)
    /\ tx' = [tx EXCEPT ![w].stage = "locked", ![w].row = milestone[tx[w].milestone]]
    /\ UNCHANGED <<plans, rows, product, activity, clock>>

\* Faulty variant, to test DecisionIndependent.
AnyoneDecides(w, author) == TRUE

\* Neither the author of the plan nor that of a deliverable decides.
NotTheAuthor(w, author) == tx[w].by # author

\* A passed milestone whose latest decision still stands: nothing to decide.
AlreadyAccepted(m, row) ==
    /\ row.status = "passed"
    /\ \E x \in LatestDecision(m, row.generation) :
          EvidenceCurrent(x) /\ Covers(x, row.deliverables)

\* The binding, the author and the manifest of the plan in force are read.
ReadPlan(w) ==
    LET row == tx[w].row
        m == tx[w].milestone
        M == plan[effective].manifest
    IN  /\ InStage(w, "accept", "locked")
        /\ effective # 0
        /\ row.generation = generation
        /\ NotTheAuthor(w, plan[effective].by)
        /\ ~AlreadyAccepted(m, row)
        /\ row.status = "passed" => LatestDecision(m, row.generation) # {}
        /\ m \in M.milestones
        /\ M.phaseOf[m] = row.phase
        /\ M.deliverables[m] = row.deliverables
        /\ tx' = [tx EXCEPT ![w].stage = "deciding", ![w].plan = effective]
        /\ UNCHANGED <<plans, rows, product, activity, clock>>

TakeEvidence(w, d) ==
    LET e == [wp |-> d, revision |-> Latest(d), by |-> product[d].authors[Latest(d)]]
    IN  /\ InStage(w, "accept", "deciding")
        /\ d \in tx[w].row.deliverables
        /\ \A f \in tx[w].evidence : f.wp # d
        /\ product[d].status = "approved"
        /\ NotTheAuthor(w, e.by)
        /\ tx' = [tx EXCEPT ![w].evidence = @ \cup {e}]
        /\ UNCHANGED <<plans, rows, product, activity, clock>>

EvidenceTaken(w) == \A d \in tx[w].row.deliverables : \E e \in tx[w].evidence : e.wp = d

CommitAccept(w) ==
    LET m == tx[w].milestone
    IN  /\ InStage(w, "accept", "deciding")
        /\ EvidenceTaken(w)
        /\ decisions' = decisions \cup
              {[milestone |-> m, plan |-> tx[w].plan, generation |-> tx[w].row.generation,
                by |-> tx[w].by, at |-> tx[w].at, evidence |-> tx[w].evidence]}
        /\ milestone' = [milestone EXCEPT ![m].status = "passed"]
        /\ tx' = [tx EXCEPT ![w] = Idle]
        /\ UNCHANGED <<plans, phase, product, activity, clock>>

-----------------------------------------------------------------------------
(* Transitions of phases.                                                  *)

PhaseTransitionAllowed(from, to) ==
    <<from, to>> \in {<<"not_started", "active">>, <<"active", "completed">>}

LockPhase(w, p, to) ==
    /\ tx[w] = Idle
    /\ ~PhaseHeld(p)
    /\ PhaseTransitionAllowed(phase[p].status, to)
    /\ tx' = [tx EXCEPT ![w] = [op |-> "transition", phase |-> p, to |-> to, stage |-> "locked"]]
    /\ UNCHANGED <<plans, rows, product, activity, clock>>

\* The decision on m is of the plan in force, complete and about what stands.
DecisionStands(m) ==
    \E x \in LatestDecision(m, milestone[m].generation) :
        /\ x.plan = effective
        /\ x.generation = generation
        /\ Covers(x, milestone[m].deliverables)
        /\ EvidenceCurrent(x)

PendingMilestones(p) ==
    {m \in Milestone : /\ Present(milestone, m)
                       /\ milestone[m].phase = p
                       /\ milestone[m].status # "passed" \/ ~DecisionStands(m)}

\* Faulty variant, to test ActivationNeedsCompletedDependencies: a dependency
\* that is under way counts as met.
UnstartedDependencies(p) ==
    {d \in phase[p].deps : Present(phase, d) /\ phase[d].status = "not_started"}

UnmetDependencies(p) ==
    {d \in phase[p].deps : Present(phase, d) /\ phase[d].status # "completed"}

CheckPhase(w) ==
    LET p == tx[w].phase
    IN  /\ InStage(w, "transition", "locked")
        /\ tx[w].to = "completed" => PendingMilestones(p) = {}
        /\ tx[w].to = "active" => UnmetDependencies(p) = {}
        /\ tx' = [tx EXCEPT ![w].stage = "checked"]
        /\ UNCHANGED <<plans, rows, product, activity, clock>>

CommitPhase(w) ==
    /\ InStage(w, "transition", "checked")
    /\ phase' = [phase EXCEPT ![tx[w].phase].status = tx[w].to]
    /\ tx' = [tx EXCEPT ![w] = Idle]
    /\ UNCHANGED <<plans, milestone, decisions, product, activity, clock>>

\* A refusal, an error, a closed connection or a dead process.
Rollback(w) ==
    /\ tx[w] # Idle
    /\ tx' = [tx EXCEPT ![w] = Idle]
    /\ UNCHANGED <<plans, rows, product, activity, clock>>

Next ==
    \/ \E u \in User, M \in Manifest : RevisePlan(u, M)
    \/ \E u \in User : ApprovePlanRevision(u)
    \/ \E r \in DOMAIN plan : ApplyPlan(r)
    \/ \E u \in User, d \in Product : ReviseProduct(u, d)
    \/ \E d \in Product : ApproveProduct(d) \/ RetireProduct(d)
    \/ \E p \in Phase : LogWork(p)
    \/ \E w \in Worker :
          \/ \E u \in User, m \in Milestone : BeginAccept(w, u, m)
          \/ LockMilestone(w)
          \/ ReadPlan(w)
          \/ \E d \in Product : TakeEvidence(w, d)
          \/ CommitAccept(w)
          \/ \E p \in Phase, to \in {"active", "completed"} : LockPhase(w, p, to)
          \/ CheckPhase(w)
          \/ CommitPhase(w)
          \/ Rollback(w)

Spec == Init /\ [][Next]_vars

-----------------------------------------------------------------------------
(* Properties.                                                             *)

TypeOK ==
    /\ plan \in Seq(PlanRevision)
    /\ effective \in 0..Len(plan)
    /\ generation \in Nat
    /\ phase \in [Phase -> PhaseRow]
    /\ milestone \in [Milestone -> MilestoneRow]
    /\ decisions \subseteq GateDecision
    /\ product \in [Product -> [status : {"draft", "approved", "obsolete"}, authors : Seq(User)]]
    /\ \A d \in Product : product[d].authors # <<>>
    /\ activity \subseteq Phase
    /\ tx \in [Worker -> {Idle} \cup TransitionTx \cup AcceptTx]
    /\ clock \in Nat

\* The projected rows are those of the plan in force, of its generation,
\* whichever plans were applied before and whatever they contained.
ProjectionMatchesPlan ==
    LET M == plan[effective].manifest
    IN  /\ effective = 0 => /\ \A p \in Phase : ~Present(phase, p)
                            /\ \A m \in Milestone : ~Present(milestone, m)
        /\ effective # 0 =>
              /\ M.phases = {p \in Phase : Present(phase, p)}
              /\ M.milestones = {m \in Milestone : Present(milestone, m)}
              /\ \A p \in M.phases : phase[p].deps = M.deps[p] /\ phase[p].generation = generation
              /\ \A m \in M.milestones :
                    /\ milestone[m].phase = M.phaseOf[m]
                    /\ milestone[m].deliverables = M.deliverables[m]
                    /\ milestone[m].generation = generation

\* A milestone is passed only by a decision taken under the plan in force
\* whose evidence covers every deliverable: re-planning withdraws it.
PassedUnderThisPlan ==
    \A m \in Milestone : milestone[m].status = "passed" =>
        \E x \in DecisionsOn(m, generation) :
            x.plan = effective /\ {e.wp : e \in x.evidence} = milestone[m].deliverables

\* Nobody accepts a milestone of a plan he wrote, or on evidence he wrote.
DecisionIndependent ==
    \A x \in decisions :
        /\ x.by # plan[x.plan].by
        /\ \A e \in x.evidence : x.by # e.by

\* Charged phases and decided milestones are never planned away.
RecordsKeepTheirRows ==
    /\ \A p \in activity : phase[p].status \in {"active", "completed"}
    /\ \A x \in decisions : Present(milestone, x.milestone)

\* The phases never all wait on each other: while one is not completed, one
\* is under way or has every phase it depends on completed.
SomePhaseCanProceed ==
    (\E p \in Phase : Present(phase, p) /\ phase[p].status # "completed") =>
        \E p \in Phase : \/ phase[p].status = "active"
                         \/ phase[p].status = "not_started" /\ UnmetDependencies(p) = {}

\* When a phase is completed, every milestone the plan in force gives it is
\* passed, by a decision of that plan: no other plan came into force since
\* the check.  (That the evidence still stands is not promised: it is read
\* without a lock.)
CompletionNeedsPassedMilestones ==
    [][\A p \in Phase : phase[p].status = "active" /\ phase'[p].status = "completed" =>
          \A m \in plan'[effective'].manifest.milestones :
              plan'[effective'].manifest.phaseOf[m] = p =>
                  /\ milestone'[m].status = "passed"
                  /\ \E x \in DecisionsOn(m, generation') : x.plan = effective']_vars

\* When a phase becomes active, every phase the plan in force makes it
\* depend on is completed at that moment.
ActivationNeedsCompletedDependencies ==
    [][\A p \in Phase : phase[p].status = "not_started" /\ phase'[p].status = "active" =>
          \A d \in plan'[effective'].manifest.deps[p] : phase'[d].status = "completed"]_vars

\* A decision is about the latest revision of each deliverable of the plan in
\* force, each of them approved when the decision is committed.
DecisionEvidenceCurrent ==
    [][\A x \in decisions' \ decisions :
          /\ x.plan = effective
          /\ {e.wp : e \in x.evidence} = plan[effective].manifest.deliverables[x.milestone]
          /\ EvidenceCurrent(x)]_vars
=============================================================================
