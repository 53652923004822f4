-------------------------- MODULE WorkProductReview --------------------------
(***************************************************************************)
(* The life of a work product in delmos: creation, revisions, the review   *)
(* of an exact revision, its approval by two signatures, withdrawal, and   *)
(* the plan's entry into force (internal/project: workproduct.go,          *)
(* review.go, decision.go, composition_store.go, and RevisePlan and        *)
(* ApplyPlan of plan.go).                                                  *)
(*                                                                         *)
(* Granularity: every command reads core.work_products with FOR UPDATE and *)
(* keeps that row lock until it commits, so what follows the lock is one   *)
(* action.  What comes before the lock is a step of its own: the GET that  *)
(* gave the client its row_version, the permission check of the HTTP       *)
(* handler, and the lookup of the operation key in RecordDecision.         *)
(*                                                                         *)
(* Abstractions.  A revision is its author and whether it carries a plan   *)
(* manifest; payload_hash stands for the revision, so the comparison of    *)
(* the request's hash with the hash of the request's own revision always   *)
(* agrees.  A reason is left out: a call with another reason counts as one *)
(* of another kind.  Role bindings do not change (see Access).  Rules      *)
(* other than no_revision_when_obsolete, which 0013 installs, are absent.  *)
(* What ApplyPlan projects into phases and milestones is in PlanExecution. *)
(***************************************************************************)
EXTENDS Naturals, Sequences, FiniteSets

CONSTANTS
    Person,         \* core.users
    Editor,         \* persons with wp.edit, wp.submit, plan.apply
    Holder,         \* Holder[role]: persons with that role's permission
    WorkProduct,    \* rows that may be created in core.work_products
    Call,           \* HTTP requests that may be in flight at once
    Key,            \* operation keys a client may send
    NoKey,          \* no operation key
    MaxRevisions,   \* bound: revisions of one work product
    MaxRequests,    \* bound: review requests of one work product
    MaxVersion      \* bound: row_version up to which a plan is applied

Role == {"reviewer", "approver"}
Kind == {"ordinary", "specification", "plan"}
Status == {"draft", "in_review", "approved", "obsolete"}
RequestStatus == {"open", "approved", "changes_requested", "superseded"}
Decision == {"review", "approval", "request_changes"}

ASSUME PeopleAssumption ==
    Editor \subseteq Person /\ Holder \in [Role -> SUBSET Person]
ASSUME NothingAssumption == NoKey \notin Key
ASSUME BoundsAssumption ==
    MaxRevisions \in Nat /\ MaxRequests \in Nat /\ MaxVersion \in Nat

VARIABLES
    kind,       \* kind[p]: type and profile, fixed when p is created
    status,     \* status[p]: work_products.status, "absent" before creation
    rowVersion, \* rowVersion[p]: work_products.row_version
    revisions,  \* revisions[p]: work_product_revisions by revision_number
    effective,  \* effective[p]: revision number of a plan in force, or 0
    requests,   \* review_requests in the order of their creation
    decisions,  \* review_decisions
    call        \* call[c]: the request in flight in slot c

products == <<kind, status, rowVersion, revisions, effective>>
vars == <<products, requests, decisions, call>>

Revision == [by : Person, manifest : BOOLEAN]
Latest(p) == Len(revisions[p])

\* What a client sees of a work product when it reads its row_version.
View(p) == <<status[p], Latest(p), effective[p]>>

Idle == [op |-> "idle"]
Refused == [op |-> "refused"]
EditCall == [op : {"edit"}, wp : WorkProduct, version : Nat,
             seen : Status \X Nat \X Nat]
DecideCall == [op : {"decide"}, by : Person, wp : WorkProduct, kind : Decision,
               key : Key \cup {NoKey}, looked : BOOLEAN]

Init ==
    /\ kind = [p \in WorkProduct |-> "ordinary"]
    /\ status = [p \in WorkProduct |-> "absent"]
    /\ rowVersion = [p \in WorkProduct |-> 0]
    /\ revisions = [p \in WorkProduct |-> <<>>]
    /\ effective = [p \in WorkProduct |-> 0]
    /\ requests = <<>>
    /\ decisions = {}
    /\ call = [c \in Call |-> Idle]

Free(c) == call[c].op \in {"idle", "refused"}
Answer(c, answer) == call' = [call EXCEPT ![c] = answer]

-----------------------------------------------------------------------------
(* Creation and revisions.                                                 *)

\* A row of kind k with its first revision, written by u.
Create(u, p, k) ==
    /\ status[p] = "absent"
    /\ kind' = [kind EXCEPT ![p] = k]
    /\ status' = [status EXCEPT ![p] = "draft"]
    /\ rowVersion' = [rowVersion EXCEPT ![p] = 1]
    /\ revisions' = [revisions EXCEPT ![p] = <<[by |-> u, manifest |-> k = "plan"]>>]
    /\ UNCHANGED <<effective, requests, decisions, call>>

CreateWorkProduct(u, p) == Create(u, p, "ordinary")
CreateSpecification(u, p) == Create(u, p, "specification")
CreateWithPlan(u, p) == Create(u, p, "plan")

\* An editor reads the work product and will send its row_version back.
Read(c, p) ==
    /\ Free(c)
    /\ status[p] # "absent"
    /\ Answer(c, [op |-> "edit", wp |-> p, version |-> rowVersion[p], seen |-> View(p)])
    /\ UNCHANGED <<products, requests, decisions>>

\* Faulty variant, to test NoLostUpdate: the version is not counted up.
TransitionUncounted(p, s) ==
    /\ status' = [status EXCEPT ![p] = s]
    /\ rowVersion' = rowVersion

\* UPDATE core.work_products SET status, row_version = row_version + 1.
Transition(p, s) ==
    /\ status' = [status EXCEPT ![p] = s]
    /\ rowVersion' = [rowVersion EXCEPT ![p] = @ + 1]

AddRevision(p, revision) ==
    revisions' = [revisions EXCEPT ![p] = Append(@, revision)]

\* Faulty variant, to test ReviewMatchesStatus: the request is left open.
SupersedeNothing(request) == request

\* Faulty variant, to test EvidenceStands: WHERE status = 'open' is missing.
SupersedeClosed(request) == [request EXCEPT !.status = "superseded"]

\* What a new revision or a withdrawal does to a request of the work product.
Supersede(request) ==
    [request EXCEPT !.status = IF @ = "open" THEN "superseded" ELSE @]

SupersedeOpenReviewRequest(p) ==
    requests' = [r \in DOMAIN requests |->
                    IF requests[r].wp = p THEN Supersede(requests[r]) ELSE requests[r]]

\* The command of call c may change p: the version it was sent still stands.
VersionStands(c, p) ==
    /\ call[c].op = "edit"
    /\ call[c].wp = p
    /\ call[c].version = rowVersion[p]

Revise(c, u, p, manifest) ==
    /\ VersionStands(c, p)
    /\ status[p] # "obsolete"
    /\ manifest => kind[p] = "plan"
    /\ Latest(p) < MaxRevisions
    /\ AddRevision(p, [by |-> u, manifest |-> manifest])
    /\ Transition(p, "draft")
    /\ SupersedeOpenReviewRequest(p)
    /\ Answer(c, Idle)
    /\ UNCHANGED <<kind, effective, decisions>>

ReviseWorkProduct(c, u, p) == Revise(c, u, p, FALSE)
RevisePlan(c, u, p) == Revise(c, u, p, TRUE)

\* ReviseSpecification leaves the status and the open request as they are.
ReviseSpecification(c, u, p) ==
    /\ VersionStands(c, p)
    /\ kind[p] = "specification"
    /\ status[p] # "obsolete"
    /\ Latest(p) < MaxRevisions
    /\ AddRevision(p, [by |-> u, manifest |-> FALSE])
    /\ rowVersion' = [rowVersion EXCEPT ![p] = @ + 1]
    /\ Answer(c, Idle)
    /\ UNCHANGED <<kind, status, effective, requests, decisions>>

RetireWorkProduct(c, p) ==
    /\ VersionStands(c, p)
    /\ kind[p] # "plan"
    /\ status[p] # "obsolete"
    /\ Transition(p, "obsolete")
    /\ SupersedeOpenReviewRequest(p)
    /\ Answer(c, Idle)
    /\ UNCHANGED <<kind, revisions, effective, decisions>>

\* A version conflict, an obsolete work product or a reserved type: the
\* transaction is rolled back.
EditRefused(c) ==
    /\ call[c].op = "edit"
    /\ \/ call[c].version # rowVersion[call[c].wp]
       \/ status[call[c].wp] = "obsolete"
       \/ kind[call[c].wp] = "plan"
    /\ Answer(c, Idle)
    /\ UNCHANGED <<products, requests, decisions>>

-----------------------------------------------------------------------------
(* Review of the latest revision.                                          *)

OpenRequests(p) == {r \in DOMAIN requests : requests[r].wp = p /\ requests[r].status = "open"}
RequestsOf(p) == {r \in DOMAIN requests : requests[r].wp = p}

\* Pairs of a person and a role whose permission the person holds.
Candidate == {a \in Person \X Role : a[1] \in Holder[a[2]]}

\* Both roles are filled, and neither by the author.
ValidAssignments(assigned, author) ==
    /\ {a[2] : a \in assigned} = Role
    /\ \A a \in assigned : a[1] # author

SubmitWorkProduct(p, assigned) ==
    /\ status[p] = "draft"
    /\ ValidAssignments(assigned, revisions[p][Latest(p)].by)
    /\ OpenRequests(p) = {}
    /\ Cardinality(RequestsOf(p)) < MaxRequests
    /\ requests' = Append(requests, [wp |-> p, revision |-> Latest(p),
                                     status |-> "open", assigned |-> assigned])
    /\ Transition(p, "in_review")
    /\ UNCHANGED <<kind, revisions, effective, decisions, call>>

\* Assignments that let a person give a decision (requiredAssignment).
RequiredAssignment(k) ==
    CASE k = "review" -> {"reviewer"}
      [] k = "approval" -> {"approver"}
      [] k = "request_changes" -> Role

\* handleReviewDecision and the checks of RecordDecision before Begin.
RequestDecision(c, u, p, k, key) ==
    /\ Free(c)
    /\ status[p] # "absent"
    /\ \E role \in RequiredAssignment(k) : u \in Holder[role]
    /\ Answer(c, [op |-> "decide", by |-> u, wp |-> p, kind |-> k, key |-> key,
                  looked |-> key = NoKey])
    /\ UNCHANGED <<products, requests, decisions>>

\* d is the signature that call c asks for, and its revision is the latest.
IsReplay(c, d) ==
    /\ d.by = call[c].by /\ d.kind = call[c].kind
    /\ requests[d.request].wp = call[c].wp
    /\ requests[d.request].revision = Latest(call[c].wp)

\* loadDecisionByOperationKey, before the work product is locked: the earlier
\* decision is returned, or a conflict, or the command goes on.
LookUpOperationKey(c) ==
    /\ call[c].op = "decide" /\ ~call[c].looked
    /\ LET known == {d \in decisions : d.key = call[c].key} IN
         \/ known = {} /\ Answer(c, [call[c] EXCEPT !.looked = TRUE])
         \/ \E d \in known : IsReplay(c, d) /\ Answer(c, Idle)
         \/ \E d \in known : ~IsReplay(c, d) /\ Answer(c, Refused)
    /\ UNCHANGED <<products, requests, decisions>>

\* Faulty variant, to test KeySignsOnce: the index is missing.
KeyUnchecked(key) == TRUE

\* review_decisions_operation_key_idx.
KeyUnused(key) == key = NoKey \/ \A d \in decisions : d.key # key

\* Faulty variant, to test ApprovedByQuorum: a review of the work product, not
\* of this request.
ReviewedOnce(r, k) ==
    k = "approval" =>
      \E d \in decisions : requests[d.request].wp = requests[r].wp /\ d.kind = "review"

\* Faulty variant, to test ImplementsIndependentApproval: an approval alone.
ApprovalAlone(r, k) == TRUE

\* An approval needs a positive review on the same request.
QuorumMet(r, k) ==
    k = "approval" => \E d \in decisions : d.request = r /\ d.kind = "review"

\* Every check that RecordDecision makes under the lock, and the unique keys
\* of review_decisions.
MaySign(c, r) ==
    LET p == call[c].wp  u == call[c].by  k == call[c].kind IN
      /\ status[p] = "in_review"
      /\ r \in OpenRequests(p)
      /\ \E role \in RequiredAssignment(k) : <<u, role>> \in requests[r].assigned
      /\ u # revisions[p][requests[r].revision].by
      /\ QuorumMet(r, k)
      /\ \A d \in decisions : ~(d.request = r /\ d.by = u /\ d.kind = k)
      /\ KeyUnused(call[c].key)

Sign(c, r) ==
    /\ call[c].op = "decide" /\ call[c].looked
    /\ MaySign(c, r)
    /\ decisions' = decisions \cup {[request |-> r, by |-> call[c].by, kind |-> call[c].kind,
                                     key |-> call[c].key]}
    /\ Answer(c, Idle)

CloseRequest(r, s) == requests' = [requests EXCEPT ![r].status = s]

\* A positive review changes neither the request nor the work product.
RecordReview(c, r) ==
    /\ call[c].op = "decide" /\ call[c].kind = "review"
    /\ Sign(c, r)
    /\ UNCHANGED <<products, requests>>

RecordApproval(c, r) ==
    /\ call[c].op = "decide" /\ call[c].kind = "approval"
    /\ Sign(c, r)
    /\ CloseRequest(r, "approved")
    /\ Transition(call[c].wp, "approved")
    /\ UNCHANGED <<kind, revisions, effective>>

RecordRequestChanges(c, r) ==
    /\ call[c].op = "decide" /\ call[c].kind = "request_changes"
    /\ Sign(c, r)
    /\ CloseRequest(r, "changes_requested")
    /\ Transition(call[c].wp, "draft")
    /\ UNCHANGED <<kind, revisions, effective>>

DecisionRefused(c) ==
    /\ call[c].op = "decide" /\ call[c].looked
    /\ \A r \in DOMAIN requests : ~MaySign(c, r)
    /\ Answer(c, Refused)
    /\ UNCHANGED <<products, requests, decisions>>

-----------------------------------------------------------------------------
(* The plan's entry into force.                                            *)

\* Faulty variant, to test EffectivePlanApproved: the status of the plan is
\* asked instead of the decisions on the revision.
PlanApproved(p, n) == status[p] = "approved"

\* Revision n of p has an approval (planRevisionApproved).
PlanRevisionApproved(p, n) ==
    \E d \in decisions : /\ requests[d.request].wp = p
                         /\ requests[d.request].revision = n
                         /\ d.kind = "approval"

\* ApplyPlan of any revision with a manifest, older ones included; applying
\* the one in force changes nothing.
ApplyPlan(c, p, n) ==
    /\ VersionStands(c, p)
    /\ kind[p] = "plan"
    /\ revisions[p][n].manifest
    /\ PlanRevisionApproved(p, n)
    /\ rowVersion[p] < MaxVersion
    /\ \/ /\ effective[p] # n
          /\ effective' = [effective EXCEPT ![p] = n]
          /\ rowVersion' = [rowVersion EXCEPT ![p] = @ + 1]
       \/ effective[p] = n /\ UNCHANGED <<effective, rowVersion>>
    /\ Answer(c, Idle)
    /\ UNCHANGED <<kind, status, revisions, requests, decisions>>

-----------------------------------------------------------------------------
Edit(c, p) ==
    \/ \E u \in Editor : \/ ReviseWorkProduct(c, u, p)
                        \/ RevisePlan(c, u, p)
                        \/ ReviseSpecification(c, u, p)
    \/ RetireWorkProduct(c, p)
    \/ \E n \in 1..Latest(p) : ApplyPlan(c, p, n)

Decide(c) ==
    \/ LookUpOperationKey(c)
    \/ \E r \in DOMAIN requests :
         RecordReview(c, r) \/ RecordApproval(c, r) \/ RecordRequestChanges(c, r)
    \/ DecisionRefused(c)

Next ==
    \/ \E u \in Editor, p \in WorkProduct :
          CreateWorkProduct(u, p) \/ CreateSpecification(u, p) \/ CreateWithPlan(u, p)
    \/ \E c \in Call, p \in WorkProduct : Read(c, p) \/ Edit(c, p)
    \/ \E c \in Call : EditRefused(c)
    \/ \E p \in WorkProduct, assigned \in SUBSET Candidate :
          SubmitWorkProduct(p, assigned)
    \/ \E c \in Call, u \in Person, p \in WorkProduct, k \in Decision,
          key \in Key \cup {NoKey} : RequestDecision(c, u, p, k, key)
    \/ \E c \in Call : Decide(c)

Spec == Init /\ [][Next]_vars

-----------------------------------------------------------------------------
(* Properties.                                                             *)

\* Every variable keeps the shape the schema of 0003 and 0015 gives it.
TypeOK ==
    /\ kind \in [WorkProduct -> Kind]
    /\ status \in [WorkProduct -> Status \cup {"absent"}]
    /\ rowVersion \in [WorkProduct -> Nat]
    /\ revisions \in [WorkProduct -> Seq(Revision)]
    /\ effective \in [WorkProduct -> Nat]
    /\ requests \in Seq([wp : WorkProduct, revision : Nat, status : RequestStatus,
                         assigned : SUBSET (Person \X Role)])
    /\ decisions \subseteq [request : DOMAIN requests, by : Person, kind : Decision,
                            key : Key \cup {NoKey}]
    /\ call \in [Call -> {Idle, Refused} \cup EditCall \cup DecideCall]

\* A work product is in review exactly while one request on it is open, and,
\* unless it is a specification, that request is on its latest revision: a new
\* revision, a withdrawal and a decision each close the request they end
\* (supersedeOpenReviewRequest, applyDecisionEffect).
ReviewMatchesStatus ==
    \A p \in WorkProduct :
      /\ status[p] = "in_review" => \E r \in DOMAIN requests : OpenRequests(p) = {r}
      /\ status[p] # "in_review" => OpenRequests(p) = {}
      /\ kind[p] # "specification" =>
           \A r \in OpenRequests(p) : requests[r].revision = Latest(p)

\* Revision n of p has the quorum of ADR-009: on one approved request, a review
\* and an approval by assigned persons other than the author.
HasQuorum(p, n) ==
    \E r \in DOMAIN requests :
      /\ requests[r].wp = p /\ requests[r].revision = n /\ requests[r].status = "approved"
      /\ \A need \in {<<"review", "reviewer">>, <<"approval", "approver">>} :
           \E d \in decisions : /\ d.request = r /\ d.kind = need[1]
                                /\ <<d.by, need[2]>> \in requests[r].assigned
                                /\ d.by # revisions[p][n].by

\* A work product that is not a specification is approved only while its latest
\* revision has the quorum, whatever revisions, reviews, retries and requests
\* for changes went before (RecordDecision, ReviseWorkProduct).
ApprovedByQuorum ==
    \A p \in WorkProduct :
      status[p] = "approved" /\ kind[p] # "specification" => HasQuorum(p, Latest(p))

\* The plan revision in force, the latest one or not, has the quorum
\* (ApplyPlan, planRevisionApproved).
EffectivePlanApproved ==
    \A p \in WorkProduct : effective[p] # 0 => HasQuorum(p, effective[p])

\* One operation key signs at most once, however often and however late the
\* call that carries it is repeated (RecordDecision).
KeySignsOnce ==
    \A d, e \in decisions : d.key = e.key /\ d.key # NoKey => d = e

\* Evidence is permanent: no revision or decision and no closed request ever
\* changes or goes away, and an open request changes its status only (the
\* comments of 0015 on review_decisions and payload_hash).
EvidenceKept ==
    /\ decisions \subseteq decisions'
    /\ \A r \in DOMAIN requests :
         /\ r \in DOMAIN requests'
         /\ requests'[r] = [requests[r] EXCEPT !.status = requests'[r].status]
         /\ requests[r].status # "open" => requests'[r] = requests[r]
    /\ \A p \in WorkProduct : revisions[p] # <<>> =>
         SubSeq(revisions'[p], 1, Latest(p)) = revisions[p]

EvidenceStands == [][EvidenceKept]_vars

\* A command sent with a row_version changes the work product only if nobody
\* has revised, submitted, decided, withdrawn or applied it since the client
\* read it (expectedRowVersion in every editing command).
NoLostUpdate ==
    [][\A c \in Call :
         call[c].op = "edit" /\ products' # products /\ call'[c] # call[c]
           => call[c].seen = View(call[c].wp)]_vars

\* The signatures of one kind, by the revision they are for.  Specifications
\* are left out: ReviseSpecification keeps an approval that is of another
\* revision.
Promised(p) == kind[p] # "specification"
Signature(d) == [artifact |-> requests[d.request].wp,
                 revision |-> requests[d.request].revision, by |-> d.by]
Counted(k) == {d \in decisions : d.kind = k /\ Promised(requests[d.request].wp)}
SignaturesOf(k) == {Signature(d) : d \in Counted(k)}
AuthorsOf(p) ==
    IF Promised(p) THEN [i \in 1..Latest(p) |-> revisions[p][i].by] ELSE <<>>
StandingOf(p) == IF Promised(p) /\ status[p] = "approved" THEN Latest(p) ELSE 0

IA == INSTANCE IndependentApproval WITH
        Artifact <- WorkProduct,
        authors <- [p \in WorkProduct |-> AuthorsOf(p)],
        endorsements <- SignaturesOf("review"),
        approvals <- SignaturesOf("approval"),
        standing <- [p \in WorkProduct |-> StandingOf(p)],
        inForce <- effective

\* Requests, assignments, row versions, operation keys and calls in flight
\* implement IndependentApproval: at every step, whatever is stale, repeated
\* or superseded, a work product that is not a specification gains or loses
\* its standing only as ADR-009 has it.
ImplementsIndependentApproval == IA!Spec

\* WORK_PRODUCTS.md: before wp.approve, a review and an approval of the very
\* revision.  An approved work product of any kind shows a latest revision
\* that has the quorum; ReviseSpecification breaks it.
ApprovedRevisionReviewed ==
    \A p \in WorkProduct : status[p] = "approved" => HasQuorum(p, Latest(p))
=============================================================================
