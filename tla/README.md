# delmos in TLA+

delmos is a single Go binary on PostgreSQL that keeps projects, their plan, work
products with immutable revisions, reviews and approvals, phases and milestones, cost
baselines, work records and metrics. HTTP handlers call stores; a store does its work in
one READ COMMITTED transaction with row locks, and writes events to an outbox in the
same transaction. A background engine in the same process delivers those events to
handlers. Several processes may share one database.

This directory holds the models of that program, the TLC instances that check them and
the TLAPS proofs about them.

| file | content |
| --- | --- |
| `EventDelivery.tla` | the outbox and the delivery engine |
| `ReliableEffects.tla` | what the engine promises, abstractly |
| `WorkProductReview.tla` | work products: revisions, review, approval, plan in force |
| `IndependentApproval.tla` | what the review promises (ADR-009), abstractly |
| `PlanExecution.tla` | the plan applied: phases, milestones, gate decisions |
| `MetricsGate.tla` | cost records, baselines, the metrics collector, the gate of a phase |
| `Access.tla` | sessions, role bindings, the check of a request, two commands that rest on it |
| `TraceImpact.tla` | trace links, their recursive queries, suspicion |
| `Scheduler.tla` | schedules and ticks |
| `Cron.tla` | calendar expressions, as operators |
| `CalendarSchedules.tla` | `Scheduler` with the calendars of `Cron` |
| `*Proofs.tla` | theorems about the module of that name |
| `MC*.tla`, `MC*_*.cfg` | instances for TLC |
| `PROJECT.json` | components, runs, source map, findings, hazards, theorems |

## Inventory

**automation: outbox and delivery engine** (`internal/automation/envelope.go`,
`dispatcher.go`). State: `core.event_outbox` (dispatched or not) and
`core.event_deliveries` (status, attempts, lease, token). Operations: `EmitEvent` inside
a business transaction; `Engine.Run` repeats `DispatchPending` and `ClaimAndProcess`,
which calls `processOne` and `markFailed`. Hard: several engines, a crash at any point,
leases that run out under a running handler, failure reports outside the transaction.
Correct when: every event yields exactly one delivery per subscription; a delivery is
worked on under a valid token; a handler's effect commits once; everything settles.

**project: work products, review, approval** (`internal/project/workproduct.go`,
`review.go`, `decision.go`, `composition_store.go`). State: the work product row
(status, row_version), its revisions, review requests with assignments, decisions with
operation keys. Operations: create, revise (an ordinary product, a plan, a
specification), retire, submit, decide. Hard: edits based on stale versions, retries
that overlap the call they repeat, revisions that arrive during a review. Correct when:
approval rests on the quorum of the revision it is for; evidence never changes; a key
signs once; no update is lost.

**project: plan, phases, milestones** (`plan.go`, `phase.go`, `milestone.go`). State:
the plan binding (effective revision, generation), phases, milestones, gate decisions
with evidence. Operations: `RevisePlan`, `ApplyPlan`, `TransitionPhase`,
`AcceptMilestone`. Hard: they lock different rows and read each other's. Correct when:
the plan in force was approved; a phase completes only on milestones accepted under the
current plan with evidence that still stands.

**project: trace links** (`trace.go`, `automation_handlers.go`). State: links with
`is_suspect`. Operations: create, traverse, acknowledge, propagate (from the outbox).
Hard: propagation is late, repeated and out of order, links form cycles. Correct when:
the queries find what is reachable; after a revision no dependent link stays unmarked
for good.

**economics** (`internal/economics`). State: labor rates, work records, expenses, cost
baselines, deliverable weights. Operations: one transaction each; phase rows are locked
FOR SHARE against closing. Correct when: nothing is booked on a phase that is not
active; one approved baseline per project; each change announces itself.

**metrics** (`internal/metrics`). State: input version per project (a database trigger
counts it up), observations. Operations: `CollectEconomics` from the outbox,
`GateBlockers` at a phase gate. Hard: recomputation is asynchronous and may run twice at
once. Correct when: a gate never passes on an observation older than its inputs.

**automation: scheduler** (`scheduler.go`, `cron.go`). State: schedules with a next run,
and occurrences, unique by schedule and second. Operations: create, `TickScheduler`.
Hard: late ticks, lost transactions, several processes, calendars over the ends of
months and years. Correct when: no run happens twice, and what is due is fired. No code
of `cmd/delmos` calls `TickScheduler`.

**automation: rules, conditions, workflows** (`rules.go`, `condition.go`,
`workflow.go`). Rules loaded per trigger and evaluated as a tree of conditions; workflow
definitions are validated and not executed.

**auth** (`internal/auth`). State: users, sessions, role bindings, audit events.
Operations: bootstrap, login, logout, grant, revoke, the permissions of a request. Hard:
a permission is read before the command it allows; two grants at once. Correct when: a
revocation binds later requests, and nobody signs by a role he gave himself.

**migrate**, **pidfile**, **main**: start-up; an advisory lock, checksums, one process
per host. **ratelimit**: a table of token buckets. **repository**: export to a git
remote. **server**: routing, permission checks, encoding. **config, logging, version,
webassets**: no state.

Interactions: handlers → stores (calls); stores → engine (outbox rows); engine →
`ApplyRevisionCommittedEffects` and `Collector.HandleEvent` (callbacks in the delivery's
transaction); stores ↔ stores (shared rows); phase gate → economics, metrics, rules
(calls inside the gate's transaction).

## EventDelivery

State. `rows` groups the delivery table (status, attempts, token, whether the lease is
current); the outbox rows, the row locks taken by a dispatcher's transaction, and per
engine its program counter, its token, its claimed batch and the delivery in hand. A
history counts committed effects and failure reports, for the properties.

Actions. One per statement or transaction boundary at which another engine, a crash or
the clock can intervene: `EmitEvent`, `SelectPending`, `CommitDispatch`,
`DispatchFails`, `Claim`, `NothingToClaim`, `LoadDetails`, `LoadFails`, `ProcessNext`,
`BeginFails`, `HandlerReturns`, `Ack`, `AckFails`, `MarkFailed`, `MarkFailedLost`,
`EndBatch`, `Crash`, `LeaseLapses`. Ack and commit are one step because the ack keeps
the row lock until the commit. The pool of one process is modelled as far as its size
matters: the report of a failure takes a connection while the handler's transaction
still holds one.

| run | shows | bounds |
| --- | --- | --- |
| `delivery_cluster` | dispatch exactly once, sound token, effects accounted for, dead letters on the last attempt, everything settles | 2 events, 1 subscription, 2 engines, 1 fault, 3 attempts |
| `delivery_engine` | one engine commits an effect at most once and implements `ReliableEffects`, liveness included | 2 events, fan-out, one route without handler, one event without route, 3 faults, 2 attempts |
| `delivery_repeated_effect` | **violated**: an effect commits twice when a late failure report overwrites `delivered` | 2 engines |
| `delivery_attempts` | **violated**: attempts pass `max_attempts` when no failure is ever reported | 2 engines, 3 faults |
| `delivery_pool_of_one` | **violated**: with one connection a failed handler blocks the engine | pool of 1 |

The bounds are enough because an interleaving needs two engines and one delivery to
contend for, a repeated effect needs one lapse, and the boundary of `max_attempts` needs
at least two attempts. `MaxFaults` bounds crashes, lost statements and leases that run
out under a handler; a lease of an engine that is no longer working lapses freely.

Fairness (`FairSpec`): weak fairness of the steps of each engine's loop, because
`Engine.Run` is a ticker loop that never stops while the process runs and every
iteration ends, and of the lapse of a lease, because time passes. Nothing is assumed of
business transactions, of faults, or of a handler's success.

`DeadLetterAfterMaxAttempts`, `EffectsMatchStatus`, `TokenMeansLeased` and
`OneRowPerRoute` are invariants of any number of engines; `EffectAtMostOnce` is not (see
above) and holds for one engine.

### Proofs

`EventDeliveryProofs` proves, for all values of the constants under the named
assumptions of `EventDelivery`:

* `TypeCorrect`: `Spec => []TypeOK`.
* `Invariant`: the inductive invariant `IInv`. The safety properties are not inductive
  alone. `LocksHeld` says which events an open dispatch transaction holds, and with
  `RowsExist` gives `OneRowPerRoute`; `TokensDrawn` says that every token in a row or in
  an engine's hand was drawn before and belongs to one engine; `WorkInHand` ties the
  delivery an engine works on to its batch and program counter. `DispatchExactlyOnce`,
  `TokenFencing`, `EffectsAccounted` and `DeadLetters` follow from it.
* `AtMostOnce` (one engine): `SoleInv` adds that the rows of a batch still carry the
  engine's own token, since nobody else can take them over. So a failure report never
  meets a delivered row, and `delivered` is final.
* `Refinement` (one engine): the initial states and each step of `EventDelivery` map to
  those of `ReliableEffects` or to a stutter, so `Spec => RE!Spec`.

The liveness half of the refinement and `Settled` are model-checked only: fairness and
ENABLED are beyond the prover.

## WorkProductReview

State. Per work product: kind, status, row_version, revisions (author, and whether it
carries a plan manifest), the plan revision in force. `requests` and `decisions` are the
two review tables. `call` is what is in flight: an edit that carries the version its
client read, or a decision that has or has not looked its operation key up.

Actions. A command locks the work product and keeps the lock to its commit, so
everything after the lock is one action: `CreateWorkProduct`, `CreateSpecification`,
`CreateWithPlan`, `ReviseWorkProduct`, `RevisePlan`, `ReviseSpecification`,
`RetireWorkProduct`, `SubmitWorkProduct`, `RecordReview`, `RecordApproval`,
`RecordRequestChanges`, `ApplyPlan`. What comes before the lock is a step of its own:
`Read`, `RequestDecision`, `LookUpOperationKey`. A refused command rolls back:
`EditRefused`, `DecisionRefused`.

Left out: texts, hashes (a hash stands for its revision), reasons (a call with another
reason is like one of another kind), audit rows, the events (see EventDelivery), and
rules other than the one the migrations install. Who may submit and sign is a constant
here; role bindings that change are in Access. A retry that overlaps the call it repeats
is refused (`DecisionRefused`), because the operation key is looked up before the lock
and not again after it (`decision.go:106-109`).

| run | shows | bounds |
| --- | --- | --- |
| `review_lifecycle` | the seven properties below | 1 product of any kind, 3 persons, 2 calls in flight, 1 key, 2 revisions, 2 requests, a plan applied up to version 8 |
| `review_specification` | **violated**: a specification is approved with a latest revision nobody reviewed | 1 call |

* `ReviewMatchesStatus`: in review exactly while one request is open, on the latest
  revision.
* `ApprovedByQuorum`: approved only with a review and an approval, by assigned persons
  other than the author, of the latest revision.
* `EffectivePlanApproved`: the same for the plan revision in force, latest or not.
* `KeySignsOnce`, `EvidenceStands`, `NoLostUpdate`: see the comments there.
* `ImplementsIndependentApproval`: every step is one of `IndependentApproval`, which has
  no requests, assignments, statuses, versions or calls. A revision is endorsed and then
  approved by others than its author; the product stands on the approval of its latest
  revision until it is revised or withdrawn; only an approved revision comes into force.
  The signatures are the decisions by the revision of their request, `standing` is the
  status approved; creations and revisions are `Write`, a withdrawal is `Withdraw`, and
  submissions, requests for changes and moves of a call show nothing.

The bounds are enough: a stale edit, an overlapping retry and a lost update each need
two calls; carrying a decision over needs two requests or two revisions; a return to an
older plan needs two revisions, two requests, and version 8. Two editors who also
approve exercise the author's exclusion from both sides; they and the two calls are
interchangeable, hence the symmetry, and there is no liveness property in these runs. No
fairness is assumed: a client need not finish what it began.

`ReviewMatchesStatus` (its last part), `ApprovedByQuorum` and
`ImplementsIndependentApproval` leave specifications out, because `ReviseSpecification`
does not keep them; `review_specification` shows it.

### Proofs

`WorkProductReviewProofs` proves every property of `review_lifecycle` for any number of
persons, products, calls, keys, revisions and requests, under the named assumptions of
the module.

* `TypeCorrect`: `Spec => []TypeOK`.
* `RInv`, the inductive invariant, adds to the properties what makes them inductive:
  `RowsWellFormed` (a row has revisions once it exists, and a request is about one of
  them), `EditsOnRows` (an edit in flight is for a row that exists), `SignersAssigned`
  (a signer was assigned and is not the author) and `ApprovalsClose` (an approval has
  closed its request, which had been reviewed). With the last two, one approval stands
  for the whole quorum of its revision, which is all that `planRevisionApproved` looks
  for.
* The argument: each step keeps the evidence (`EvidenceStep`), and a quorum rests on
  evidence alone, so a revision that has it keeps it (`QuorumKept`). What remains is the
  step that makes a new claim: an approval (`ApprovedStep`) or a plan coming into force
  (`EffectiveStep`). `ReviewMatches` is needed there: the open request that is approved
  is on the latest revision.
* `ReviewMatches`, `ApprovedHasQuorum`, `EffectivePlanHasQuorum`, `KeySignsAtMostOnce`
  and `EvidencePermanent` follow from `RInv`.
* `Refinement`: `Spec => ImplementsIndependentApproval`. From `RInv`, each action maps
  to a step of the abstract specification or to a stutter (`CreateShown` to
  `ApplyShown`). What a request points at comes from `ReviewMatches`, that nobody signed
  a product before it had a kind from `RowsWellFormed`, and that a signature once shown
  stays the same from `EvidenceStep` (`SignaturesKept`, `SignaturesAdded`).
* `NoUpdateLost` needs one more invariant, `VersionsSeen`: a version in flight is not
  ahead of its row, and while the two agree the row is as its reader saw it. It holds
  because whatever changes the view of a row counts its version up (`VersionCounts`).

Nothing is said of specifications in `ApprovedHasQuorum`, and nothing of termination.

## PlanExecution

State. `plan` holds the revisions of the plan (author, approver, manifest), `effective`
and `generation` the plan binding; `phase`, `milestone` and `decisions` the projected
rows and the gate decisions with their evidence; `product` the deliverables; `activity`
the phases that have been charged; `tx` the open transactions; `clock` orders the
`BEGIN`s of acceptances, since `decided_at` is the `now()` of a transaction.

Actions. `AcceptMilestone` and `TransitionPhase` read rows they do not lock, so they
take several steps: `BeginAccept`, `LockMilestone`, `ReadPlan`, `TakeEvidence` (one per
deliverable, each locked FOR SHARE), `CommitAccept`; `LockPhase`, `CheckPhase`,
`CommitPhase`; `Rollback` at any point, for refusals, errors and dead processes.
`RevisePlan`, `ApplyPlan` and the commands on work products hold what they read and are
one action each (`ApprovePlanRevision` and `ApproveProduct` stand for a whole review,
which is in WorkProductReview). `ApplyPlan` waits until no open transaction holds a row
it writes (`RowsFree`), which is where the lock of the phase row in `TransitionPhase`
protects its unlocked reads.

`HasPhaseCycle` is the depth-first search of `plan.go:764`, as a function of the set of
phases it is visiting; the instance offers it a cycle of two phases.

| run | shows | bounds |
| --- | --- | --- |
| `plan_execution` | the eight properties of the module's last section | 2 users, 2 phases, 1 milestone, 1 deliverable with 2 revisions, 3 plan revisions, 2 plans applied, 2 transactions, 2 acceptances |

The bounds are enough: a plan that comes into force between a check and a commit needs
two applied plans and one open transaction; a lost lock needs two transactions; a stale
evidence one more revision; a decision carried over two generations. The three manifests
are a staged plan, one that drops a phase and its milestone, and a cyclic one. Users are
interchangeable and so are transactions, and no property is temporal beyond one step,
hence the symmetry. No fairness: nobody must complete a phase.

What is deliberately not promised: the evidence of a milestone is read at the completion
of a phase without locking the work products (`phase.go:80`), so it may be revised just
before the phase completes. `CompletionNeedsPassedMilestones` says that the milestone is
passed by a decision of the plan in force, and no more. A renewed decision whose
transaction began first sorts before the one it renews; the phase is then refused until
the milestone is accepted again.

### Proofs

`PlanExecutionProofs` proves the eight properties for any number of users, phases,
milestones, work products and transactions, and `TypeCorrect`. The inductive invariant
`PInv` has two parts. `RowsSound` is about what is stored: the types, the projection,
the decisions behind passed milestones and charged phases. `TxSound` is about what an
open transaction has in hand: which row it holds, and that what it has checked is still
so, because every action that could change it needs that row. The step properties then
follow from the part of `TxSound` that the committing step uses.

`SomePhaseProceeds` rests on `CycleSearchIsExact`: the depth-first search of the
validation reports a cycle exactly when there is a `Knot`, a set of phases, not empty,
each of which waits for one of the set. From a phase and the phases visited on the way
to it, the search reports a cycle exactly when the phase is `Trapped`: it belongs to a
set whose members were visited or wait for another member. `Trapped` satisfies the
equation of the search (`TrappedStep`), and so does the search; if they differed, they
would at a largest set of visited phases (`MaximalExists`, from the well-founded order
of the library), where one step of the equation shows that they do not (`Visit`).
`EffectiveValid`, a part of the invariant, says that the plan in force has no knot; if
every open phase waited for another, the open phases would be one. For the largest set
`SetsAssumption` asks that phases are finitely many.

## MetricsGate

State. The inputs of the calculation (`phase`, `hours`, `expenses`, `rate`, `link`,
`delivered`, `generation`), the cost baselines and their approvals in progress, the
`version` of the inputs, the deliveries `pending`, per collector what it has read so
far, the `latest` observation, and per phase the `gate` in progress.

Actions. Commands: `LogWorkRecord`, `RecordExpense`, `SetLaborRate`,
`LinkPhaseDeliverable`, `ChangeDeliverable`, `ApplyPlan`, `CreateCostBaseline`, and the
approval in two steps, `BeginApproval` (up to the snapshot of the approved baselines)
and `CommitApproval`, where the unique index decides. Each that changes an input also
counts the version up and adds a delivery (`EmitInputsChanged`: trigger and outbox). The
collector, one step per read: `Claim`, `ReadVersion`, `ReadBaseline`,
`ValidateCostInputs`, `ComputeEarnedValue`, `RecheckInputs`, `CommitObservation`,
`RetryCollection`. The gate: `PhaseGateFacts`, `GateBlockers`, `CommitTransition` under
the rules that the migrations install, `AbandonTransition`.

| run | shows | bounds |
| --- | --- | --- |
| `metrics_gate` | `FreshObservationIsExact`, `QuietIsCurrent`, `BaselineStaysUnique`, `GateHoldsTheLimit` | 1 phase, 2 baselines in 2 currencies, 2 collectors, 1 hour, 3 changes of the inputs |

The bounds are enough: a stale observation needs one change between two reads of one
collector; a late computation on top of a newer one needs two collectors; two approvals
need two baselines, and two currencies make one of them incomplete; the limit is passed
by a single expense. Collectors are interchangeable. No fairness is assumed, and no
liveness checked here: that a delivery is handled in the end is `Settled` of
EventDelivery.

Two facts of the code that the properties take into account: a rate or a baseline may
change between the facts and the completion, since the gate locks the phase and not the
project (`GateHoldsTheLimit` supposes they do not), and a superseded baseline may be
approved again.

### Proofs

`MetricsGateProofs` proves all four properties and `TypeCorrect` for any number of
phases, baselines, collectors and currencies. `MInv` is `TypeOK`, `OneApproved` (at most
one baseline is approved), `MetricsSound` and `GateSound`. `MetricsSound` says that
nothing was computed from a version to come; that while the inputs stay at the version
of an observation, each value it has collected is what the inputs give now; and
(`Accounted`) that the last of the observations, recorded or on the way, is of the
current inputs, unless a delivery is still unclaimed. `QuietIsCurrent` follows from the
last part. `GateSound` says that costs of a phase in transition do not grow while the
rate stays, because a charge needs the phase row.

## Access

State. Accounts, `binding` (the role bindings in the order of their commits), the
sessions in force, the requests in progress, and the persons assigned and decided in the
review of the plan. A request also remembers which bindings had been revoked when it
came; only the properties read that.

Actions. `Bootstrap`, `Login`, `EndSession`; `FindActiveSession` and `CheckPermission`,
the two reads of the middleware before every command; the commands: `GrantSystemRole`,
`LockGrant`, `InsertGrant`, `CommitGrant` (the grant of a review role, under an advisory
lock), `RevokeRoleBinding`, `RevokeProjectReviewRole`, `CheckAssignee`,
`CommitSubmission`, `Decide`; `Abandon` for refusals and broken connections.

| run | shows | bounds |
| --- | --- | --- |
| `access_roles` | `OneReviewRole`, `RevocationIsEffective`, `DecisionNeedsAnotherGrantor`, `AssigneeHoldsRole` | 2 users, 1 session, 2 requests, 3 roles, 5 bindings |

The bounds are enough: each race is between two requests, the two bindings of the first
administrator leave room for three more (a second administrator, a role for the system,
a review role), and a session ends and another begins, so both users act. Requests are
interchangeable. No fairness is assumed.

A request is allowed or not when it comes: a binding revoked after `CheckPermission`
still lets that one request through. `RevocationIsEffective` promises nothing else. The
last administrator may have his role revoked; the operator bootstraps another one.

### Proofs

`AccessProofs` proves the four properties and `TypeCorrect` for any number of users,
requests, sessions and bindings. `AInv` is `TypeOK`, `BindingsSound` (who can be bound
to what by whom), `OneGrantor` (two requests are never inside the same grant: the
advisory lock) and `Sound(r)` of each request: what its stage says of the bindings it
rests on. The argument for `DecisionNeedsAnotherGrantor` is that only an owner's binding
is a project binding made by its own holder, and that role has no review permission
(`RoleAssumption`).

## TraceImpact

State. `links`, those that are `suspect`, per work product the deliveries `due` of its
revisions, per handler what it is marking. `unseen` is a history for the properties: for
a watched link, which revisions nobody has looked at.

Actions. `CreateTraceLink`, `CommitRevision` (a revision and its event), `BeginEffect`
(the snapshot of the handler's UPDATE, which locks the links it found), `CommitEffect`,
`AbortEffect`, `AcknowledgeTraceLink`. `Impact` and `Traverse` are the two recursive
queries, as the rows that a path of bounded length yields; `Reached` is the reference
they are compared with, the least closed set of links.

| run | shows | bounds |
| --- | --- | --- |
| `trace_suspicion` | `TypeOK`, `ImpactIsClosure`, `TraversalIsComplete`, `SuspicionIsNotLost`, `SuspectInTheEnd` | 3 work products, every graph of up to 4 links, 2 revisions, 2 handlers |

The bounds are enough: four links on three work products hold every kind of cycle, of
one, two and three work products, with a link that leads into it or a second path; two
revisions and two handlers give late, repeated and overlapping deliveries. `MaxDepth` is
4 instead of 100, and larger than the number of work products: a path of more than 100
links is outside the model. A work product is as good as another, so the watched links
are one to another work product and one to itself.

Fairness: a handler that can begin does (weak), because the engine's loop goes on; a
handler that begins again and again commits in the end (strong), because a failed
delivery is claimed again and a handler does not fail for ever. Without the second
assumption a delivery becomes a dead letter and the suspicion is never seen. Nothing is
assumed of reviewers.

Facts of the code that no property contradicts: an acknowledgement carries no version,
so it may lift a suspicion newer than the one looked at (`trace.go:246`), and
`ReviseSpecification` emits no `wp.revision_committed`, so links to a specification
never become suspect (`composition_store.go:268`).

### Proofs

`TraceImpactProofs` proves `TypeCorrect`, `ImpactIsExact`, `TraversalIsExact` and
`SuspicionIsKept` for any number of links, revisions and handlers, and for any finite
number of work products below the depth of the queries (`DepthAssumption`).

* The queries. A path adds a work product at each depth, so below the depth bound no row
  is left to follow (`RowsTraverse`), and the rows are the least set with the first rows
  and the rows after each row that closes no cycle. Hence every link found is reached
  (`FoundIsReached`). For the converse, a row that closes a cycle is not followed, but
  the work product it came back to is on its path, and the links of every work product
  on a path are found from elsewhere (`PathIsExplored`, `ReachedIsFound`). The induction
  on the depth is stated once, for a set of depths (`DepthInduction`).
* `TInv` adds that handlers and deliveries match (`EffectSound`, `Counted`), that an
  unseen revision is of something the link rests on (`UnseenRests`) and that each one is
  covered by a mark, by a handler that has it in hand, or by a delivery not yet claimed
  (`UnseenCovered`). Links are never removed, so reachability only grows
  (`DependentsGrow` and its lemmas).

## Scheduler, Cron, CalendarSchedules

State. `definition` (active, next run), `occurrences`, per ticker the `tick` in
progress, the clock of the database `now`. A ticker's own clock may lag behind it. An
occurrence also carries the run it was for; the table has only the second it was fired,
and the properties speak of both.

Actions. `CreateSchedule`; of a tick, `LoadDueSchedules`, `ReadClock`, `FireSchedule`
(occurrence and next run, one transaction) or `FireFails` (rolled back because there is
no next run), per schedule; `Fault` (a lost transaction or a restart), `PassTime`.
`Cron` has the fields and the match of an expression, `CalendarSchedules` gives a
schedule the days its expression matches and compares them with what it means.

| run | shows | bounds |
| --- | --- | --- |
| `scheduler_one` | `NeverTwice`, `KeepsInterval`, `YearlyIsFound`, `DueIsFired`, `RunsWhenMeant` | 1 ticker, 6 schedules, 27 February to 1 March 2024, 1 fault |

A moment is a day, so the search of 366 days is 366 moments. The schedules: one that
runs once, one every two days, one whose interval is 0, 28 February, Thursday 29
February written with steps and lists, and an expression that is refused. Creation at
any of four days, ticks as late as the bound allows and one fault let a schedule be
skipped, fired late, failed and fired again.

Fairness (`FairSpec`): time passes, and each ticker goes on ticking. That somebody ticks
at all is an assumption: no code of `cmd/delmos` calls `TickScheduler`. `DueIsFired` is
of the schedules for which a next run exists, or that run once (`Sound`); the two others
fail each time, and a tick goes on past them.

Two tickers, or one on a clock that lags behind the database, are not an instance: with
them `NeverTwice` fails, because a firing neither locks nor re-reads the schedule and
the unique key of an occurrence is the second of the firing.

### Proofs

`SchedulerProofs` proves `TypeCorrect` for any number of tickers and any lag, and
`NoRunTwice` and `IntervalIsKept` under `OneTicker`: at most one ticker, no lag. `SInv`
adds `TicksSound` (what a tick has in hand is still due as the tick read it: nobody else
changes it) and `HistorySound` (every occurrence lies before the next run by the
interval, if there is one).

`CalendarSchedulesProofs` is about the calendars, for every expression and every start,
under `CalendarAssumption` (the search looks 366 days ahead, and the calendars reach as
far as it does).

* The calendar. Every day of the cycle of four years is a day of a month of a year
  (`EachDay`), and every such day has its place in the cycle (`DateAt`). A date that is
  not 29 February has four places, never more than 366 days apart, so it comes again
  within 366 days of any day (`DateRecurs`); 366 and not 365, because of the leap day.
* The expressions. What `parseCronField` makes of a field is what the field means, value
  by value, unless it refuses it (`ParseMeans`), so a calendar that has a day at all has
  the days that its expression means (`CalendarMeans`).
* `YearlyIsAlwaysFound`, for any number of tickers: a schedule that exists was found a
  first run, so its calendar is not empty, and no tick is ahead of the clock (`CInv`).
* `CalendarRunsWhenMeant`, under `OneTicker`: what `nextCronMatch` finds is the least
  match (`NextIsFirst`), hence the first day meant (`NextIsMeant`); that the firing
  records the run that was due, and is not one the unique key drops, is `SInv`.

## What is proved and what is only checked

Theorems hold for all values of the constants under the named assumptions of the
modules; every instance evaluates those assumptions. Type correctness is a theorem of
each module, so most runs do not check `TypeOK` again. Every invariant and every action
property that a run checks is a theorem, some of them under a hypothesis the run has
too: one engine (`EffectAtMostOnce`, the steps of the refinement) or one ticker without
lag (`NeverTwice`, `KeepsInterval`, `RunsWhenMeant`).

Only model-checked are `Settled`, `SuspectInTheEnd`, `DueIsFired` and the liveness of
`ImplementsReliableEffects`: fairness and ENABLED are beyond the prover. So is an
induction whose hypothesis is a parameter, of an operator or of a theorem; the proofs
above do without, by a least counterexample (the library's well-founded orders are sets,
not operators) or by induction on a set of numbers.

## Findings

Each is the violation run named.

1. `markFailed` is not fenced by the lease token, so a late report turns a delivered row
   back to pending and the effect is repeated (`delivery_repeated_effect`).
2. Only a reported failure can produce a dead letter, so attempts are unbounded
   (`delivery_attempts`).
3. A pool of one connection, which the configuration accepts, blocks the engine at the
   first failed handler (`delivery_pool_of_one`).
4. `ReviseSpecification` leaves status and open request as they are
   (`review_specification`).

Observations made while modelling, without a run of their own:

* A retry that overlaps the call it repeats is refused and not answered with the first
  result: the operation key is looked up before the lock only (`decision.go:106-109`).
* Two tickers fire a run twice (`scheduler.go:94`); `EVENTS_TRIGGERS_RULES.md:164`
  promises one occurrence per schedule and due time.
* The next run of `fixed_rate` is counted from the firing, so a late tick shifts the
  series (`scheduler.go:140`).
* A calendar whose next match is more than 366 days away is rolled back and never fires
  (`scheduler.go:117`): 29 February, or a weekday on a given date.
* Nothing in `cmd/delmos` calls `TickScheduler` (`main.go:139` starts the delivery
  engine only).

## Plan

Done: delivery, review, plan execution, metrics and the phase gate, access, trace
impact, scheduler, with their proofs. What is left, most useful first:

1. Liveness of metrics: with a fair collector and no further change of the inputs the
   latest observation is fresh in the end. `QuietIsCurrent` is its safety half.
2. Start-up: the pid file (checked and then written without a lock, and a pid may be
   reused) and the migrations under their advisory lock.
3. Rules in general: the tree of conditions against a reference evaluation.
4. The composition of TraceImpact and MetricsGate with EventDelivery, instead of the
   delivery each of them assumes.

## Not modelled

* Workflow definitions: a structural validation; nothing executes them.
* Start-up (`migrate`, `pidfile`): runs before the server and beside nothing else.
  EventDelivery assumes several processes whatever the pid file does.
* Login limiter: one map under one mutex around a library's token buckets; its promise
  is about real time.
* Export to git, HTTP routing and encoding, logging, configuration: input and output.
* Stakeholders, risks, composition manifests, embeddings: single inserts and
  validations.
* The generic interpreter of conditions (`condition.go`): only the predicates of the
  installed rules are evaluated, in MetricsGate.
* Earned value beyond actual cost: decimal arithmetic of the same inputs. The cascade
  that deletes budget lines with a phase, and the age limit of an observation (any
  observation may be too old) are abstracted.
* `GetPlan` reads its binding and its rows in several statements and may mix two plans;
  it only reads. Audit rows that are written in a statement of their own.
