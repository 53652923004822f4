----------------------- MODULE WorkProductReviewProofs -----------------------
(***************************************************************************)
(* Proofs about WorkProductReview, for any number of persons, work         *)
(* products, calls, operation keys, revisions and requests: the type       *)
(* invariant, that evidence is permanent, and that the plan in force and   *)
(* every approved work product stand on a full quorum.                     *)
(***************************************************************************)
EXTENDS WorkProductReview, SequenceTheorems, TLAPS

\* The actions that only move a call between its stages.
CallMoves == UNCHANGED <<products, requests, decisions>>

Request == [wp : WorkProduct, revision : Nat, status : RequestStatus,
            assigned : SUBSET (Person \X Role)]

-----------------------------------------------------------------------------
(* Type correctness.                                                       *)

\* Appending a value to a sequence over S yields a sequence over S.
LEMMA AppendType ==
  ASSUME NEW S, NEW s \in Seq(S), NEW e \in S
  PROVE  /\ Append(s, e) \in Seq(S)
         /\ Len(Append(s, e)) = Len(s) + 1
         /\ DOMAIN Append(s, e) = 1..(Len(s) + 1)
         /\ DOMAIN s = 1..Len(s)
         /\ \A i \in 1..Len(s) : Append(s, e)[i] = s[i]
         /\ Append(s, e)[Len(s) + 1] = e
  OBVIOUS

\* A function on the domain of a sequence with values in S is a sequence.
LEMMA MapType ==
  ASSUME NEW S, NEW T, NEW s \in Seq(S), NEW f \in [DOMAIN s -> T]
  PROVE  f \in Seq(T) /\ Len(f) = Len(s)
<1>1. DOMAIN s = 1..Len(s) /\ Len(s) \in Nat
  OBVIOUS
<1>. QED
  BY <1>1

\* SupersedeOpenReviewRequest and CloseRequest yield requests again.
LEMMA SupersedeType ==
  ASSUME TypeOK, NEW p \in WorkProduct, SupersedeOpenReviewRequest(p)
  PROVE  requests' \in Seq(Request) /\ DOMAIN requests' = DOMAIN requests
<1>1. requests \in Seq(Request)
  BY DEF TypeOK, Request
<1>2. \A r \in DOMAIN requests : requests[r] \in Request
  BY <1>1
<1>3. \A q \in Request : Supersede(q) \in Request
  BY DEF Supersede, Request, RequestStatus
<1>4. requests' \in [DOMAIN requests -> Request]
  BY <1>2, <1>3 DEF SupersedeOpenReviewRequest
<1>. QED
  BY <1>1, <1>4, MapType

\* Closing one request keeps all of them requests.
LEMMA CloseType ==
  ASSUME TypeOK, NEW r \in DOMAIN requests, NEW s \in RequestStatus, CloseRequest(r, s)
  PROVE  requests' \in Seq(Request) /\ DOMAIN requests' = DOMAIN requests
<1>1. requests \in Seq(Request)
  BY DEF TypeOK, Request
<1>2. \A q \in DOMAIN requests : requests[q] \in Request
  BY <1>1
<1>3. requests' \in [DOMAIN requests -> Request]
  BY <1>2 DEF CloseRequest, Request
<1>. QED
  BY <1>1, <1>3, MapType

\* The type invariant of what the database stores, and of the calls.
StoredType ==
    /\ kind \in [WorkProduct -> Kind]
    /\ status \in [WorkProduct -> Status \cup {"absent"}]
    /\ rowVersion \in [WorkProduct -> Nat]
    /\ revisions \in [WorkProduct -> Seq(Revision)]
    /\ effective \in [WorkProduct -> Nat]
    /\ requests \in Seq(Request)
    /\ decisions \subseteq [request : DOMAIN requests, by : Person, kind : Decision,
                            key : Key \cup {NoKey}]

CallType == call \in [Call -> {Idle, Refused} \cup EditCall \cup DecideCall]

\* The two parts make up the type invariant.
LEMMA TypeParts == TypeOK <=> StoredType /\ CallType
  BY DEF TypeOK, StoredType, CallType, Request

\* A row that exists has a status of the schema.
LEMMA ViewType ==
  ASSUME TypeOK, NEW p \in WorkProduct, status[p] # "absent"
  PROVE  View(p) \in Status \X Nat \X Nat
<1>1. Len(revisions[p]) \in Nat
  BY DEF TypeOK
<1>. QED
  BY <1>1 DEF View, Latest, TypeOK

\* An answer of the right shape keeps every call in shape.
LEMMA AnswerType ==
  ASSUME TypeOK, NEW c \in Call,
         NEW a \in {Idle, Refused} \cup EditCall \cup DecideCall, Answer(c, a)
  PROVE  CallType'
  BY DEF TypeOK, CallType, Answer

\* A call that edits, and one that decides, has the fields of its kind.
LEMMA CallFields ==
  ASSUME TypeOK, NEW c \in Call
  PROVE  /\ call[c].op = "edit" => call[c] \in EditCall
         /\ call[c].op = "decide" => call[c] \in DecideCall
<1>1. call[c] \in {Idle, Refused} \cup EditCall \cup DecideCall
  BY DEF TypeOK
<1>2. Idle.op = "idle" /\ Refused.op = "refused"
  BY DEF Idle, Refused
<1>3. \A x \in EditCall : x.op = "edit"
  BY DEF EditCall
<1>4. \A x \in DecideCall : x.op = "decide"
  BY DEF DecideCall
<1>. QED
  BY <1>1, <1>2, <1>3, <1>4

\* A new revision leaves revisions a function to sequences.
LEMMA RevisionType ==
  ASSUME TypeOK, NEW p \in WorkProduct, NEW x \in Revision, AddRevision(p, x)
  PROVE  /\ revisions' \in [WorkProduct -> Seq(Revision)]
         /\ revisions'[p] = Append(revisions[p], x)
         /\ \A q \in WorkProduct : q # p => revisions'[q] = revisions[q]
<1>1. Append(revisions[p], x) \in Seq(Revision)
  BY AppendType DEF TypeOK
<1>. QED
  BY <1>1 DEF TypeOK, AddRevision

\* Every step of Next keeps every variable in its domain.
LEMMA TypeStep == TypeOK /\ [Next]_vars => TypeOK'
<1>. SUFFICES ASSUME TypeOK, [Next]_vars
              PROVE  TypeOK'
  OBVIOUS
<1>. USE PeopleAssumption, NothingAssumption
<1>a. StoredType /\ CallType
  BY TypeParts
<1>b. StoredType' /\ CallType' => TypeOK'
  BY DEF TypeOK, StoredType, CallType, Request
<1>c. \A p \in WorkProduct : Latest(p) \in Nat
  BY DEF TypeOK, Latest
<1>i. Idle \in {Idle, Refused} \cup EditCall \cup DecideCall
  OBVIOUS
<1>r. Refused \in {Idle, Refused} \cup EditCall \cup DecideCall
  OBVIOUS
<1>0. ASSUME CallMoves
      PROVE  StoredType'
  BY <1>0, <1>a DEF StoredType, CallMoves, products
<1>1. ASSUME NEW u \in Editor, NEW p \in WorkProduct, NEW k \in Kind, Create(u, p, k)
      PROVE  TypeOK'
  <2>1. <<[by |-> u, manifest |-> k = "plan"]>> \in Seq(Revision)
    BY DEF Revision
  <2>. QED
    BY <1>1, <1>a, <1>b, <2>1 DEF Create, StoredType, CallType, Status
<1>2. ASSUME NEW c \in Call, NEW p \in WorkProduct, Read(c, p)
      PROVE  TypeOK'
  <2>1. [op |-> "edit", wp |-> p, version |-> rowVersion[p], seen |-> View(p)] \in EditCall
    BY <1>2, ViewType DEF Read, EditCall, TypeOK
  <2>2. CallType'
    BY <1>2, <2>1, AnswerType DEF Read
  <2>. QED
    BY <1>0, <1>2, <2>2, <1>b DEF Read, CallMoves
<1>3. ASSUME NEW c \in Call, NEW u \in Editor, NEW p \in WorkProduct, NEW m \in BOOLEAN,
             Revise(c, u, p, m)
      PROVE  TypeOK'
  <2>1. revisions' \in [WorkProduct -> Seq(Revision)]
    BY <1>3, RevisionType DEF Revise, Revision
  <2>2. requests' \in Seq(Request) /\ DOMAIN requests' = DOMAIN requests
    BY <1>3, SupersedeType DEF Revise
  <2>3. CallType'
    BY <1>3, <1>i, AnswerType DEF Revise
  <2>. QED
    BY <1>3, <1>a, <1>b, <2>1, <2>2, <2>3 DEF Revise, Transition, StoredType, Status
<1>4. ASSUME NEW c \in Call, NEW u \in Editor, NEW p \in WorkProduct,
             ReviseSpecification(c, u, p)
      PROVE  TypeOK'
  <2>1. revisions' \in [WorkProduct -> Seq(Revision)]
    BY <1>4, RevisionType DEF ReviseSpecification, Revision
  <2>2. CallType'
    BY <1>4, <1>i, AnswerType DEF ReviseSpecification
  <2>. QED
    BY <1>4, <1>a, <1>b, <2>1, <2>2 DEF ReviseSpecification, StoredType
<1>5. ASSUME NEW c \in Call, NEW p \in WorkProduct, RetireWorkProduct(c, p)
      PROVE  TypeOK'
  <2>1. requests' \in Seq(Request) /\ DOMAIN requests' = DOMAIN requests
    BY <1>5, SupersedeType DEF RetireWorkProduct
  <2>2. CallType'
    BY <1>5, <1>i, AnswerType DEF RetireWorkProduct
  <2>. QED
    BY <1>5, <1>a, <1>b, <2>1, <2>2 DEF RetireWorkProduct, Transition, StoredType, Status
<1>6. ASSUME NEW c \in Call, EditRefused(c)
      PROVE  TypeOK'
  <2>1. CallType'
    BY <1>6, <1>i, AnswerType DEF EditRefused
  <2>. QED
    BY <1>0, <1>6, <2>1, <1>b DEF EditRefused, CallMoves
<1>7. ASSUME NEW p \in WorkProduct, NEW assigned \in SUBSET Candidate,
             SubmitWorkProduct(p, assigned)
      PROVE  TypeOK'
  <2>1. [wp |-> p, revision |-> Latest(p), status |-> "open", assigned |-> assigned]
            \in Request
    BY <1>c DEF Request, RequestStatus, Candidate
  <2>2. requests' \in Seq(Request) /\ DOMAIN requests \subseteq DOMAIN requests'
    BY <1>7, <1>a, <2>1, AppendType DEF SubmitWorkProduct, StoredType
  <2>. QED
    BY <1>7, <1>a, <1>b, <2>2
    DEF SubmitWorkProduct, Transition, StoredType, CallType, Status
<1>8. ASSUME NEW c \in Call, NEW u \in Person, NEW p \in WorkProduct, NEW k \in Decision,
             NEW key \in Key \cup {NoKey}, RequestDecision(c, u, p, k, key)
      PROVE  TypeOK'
  <2>1. [op |-> "decide", by |-> u, wp |-> p, kind |-> k, key |-> key,
         looked |-> key = NoKey] \in DecideCall
    BY DEF DecideCall
  <2>2. CallType'
    BY <1>8, <2>1, AnswerType DEF RequestDecision
  <2>. QED
    BY <1>0, <1>8, <2>2, <1>b DEF RequestDecision, CallMoves
<1>9. ASSUME NEW c \in Call, LookUpOperationKey(c)
      PROVE  TypeOK'
  <2>1. [call[c] EXCEPT !.looked = TRUE] \in DecideCall
    BY <1>9, CallFields DEF LookUpOperationKey, DecideCall
  <2>2. CallType'
    BY <1>9, <2>1, <1>i, <1>r, AnswerType DEF LookUpOperationKey
  <2>. QED
    BY <1>0, <1>9, <2>2, <1>b DEF LookUpOperationKey, CallMoves
<1>10. ASSUME NEW c \in Call, NEW r \in DOMAIN requests, Sign(c, r)
       PROVE  /\ decisions' \subseteq [request : DOMAIN requests, by : Person,
                                       kind : Decision, key : Key \cup {NoKey}]
              /\ call[c].wp \in WorkProduct
              /\ CallType'
  <2>1. call[c] \in DecideCall
    BY <1>10, CallFields DEF Sign
  <2>2. CallType'
    BY <1>10, <1>i, AnswerType DEF Sign
  <2>. QED
    BY <1>10, <1>a, <2>1, <2>2 DEF Sign, StoredType, DecideCall
<1>11. ASSUME NEW c \in Call, NEW r \in DOMAIN requests, RecordReview(c, r)
       PROVE  TypeOK'
  BY <1>11, <1>10, <1>a, <1>b DEF RecordReview, StoredType, products
<1>12. ASSUME NEW c \in Call, NEW r \in DOMAIN requests, RecordApproval(c, r)
       PROVE  TypeOK'
  <2>1. requests' \in Seq(Request) /\ DOMAIN requests' = DOMAIN requests
    BY <1>12, CloseType DEF RecordApproval, RequestStatus
  <2>. QED
    BY <1>12, <1>10, <1>a, <1>b, <2>1 DEF RecordApproval, Transition, StoredType, Status
<1>13. ASSUME NEW c \in Call, NEW r \in DOMAIN requests, RecordRequestChanges(c, r)
       PROVE  TypeOK'
  <2>1. requests' \in Seq(Request) /\ DOMAIN requests' = DOMAIN requests
    BY <1>13, CloseType DEF RecordRequestChanges, RequestStatus
  <2>. QED
    BY <1>13, <1>10, <1>a, <1>b, <2>1
    DEF RecordRequestChanges, Transition, StoredType, Status
<1>14. ASSUME NEW c \in Call, DecisionRefused(c)
       PROVE  TypeOK'
  <2>1. CallType'
    BY <1>14, <1>r, AnswerType DEF DecisionRefused
  <2>. QED
    BY <1>0, <1>14, <2>1, <1>b DEF DecisionRefused, CallMoves
<1>15. ASSUME NEW c \in Call, NEW p \in WorkProduct, NEW n \in 1..Latest(p), ApplyPlan(c, p, n)
       PROVE  TypeOK'
  <2>1. CallType'
    BY <1>15, <1>i, AnswerType DEF ApplyPlan
  <2>2. n \in Nat
    BY <1>c
  <2>3. effective' \in [WorkProduct -> Nat] /\ rowVersion' \in [WorkProduct -> Nat]
    <3>1. CASE UNCHANGED <<effective, rowVersion>>
      BY <3>1, <1>a DEF StoredType
    <3>2. CASE /\ effective' = [effective EXCEPT ![p] = n]
               /\ rowVersion' = [rowVersion EXCEPT ![p] = @ + 1]
      BY <3>2, <1>a, <2>2 DEF StoredType
    <3>. QED
      BY <3>1, <3>2, <1>15 DEF ApplyPlan
  <2>. QED
    BY <1>15, <1>a, <1>b, <2>1, <2>3 DEF ApplyPlan, StoredType
<1>16. CASE UNCHANGED vars
  BY <1>16, <1>a, <1>b DEF vars, products, StoredType, CallType
<1>. QED
  BY <1>1, <1>2, <1>3, <1>4, <1>5, <1>6, <1>7, <1>8, <1>9, <1>11, <1>12, <1>13, <1>14,
     <1>15, <1>16
  DEF Next, CreateWorkProduct, CreateSpecification, CreateWithPlan, Edit, Decide,
      ReviseWorkProduct, RevisePlan, Kind

\* Every reachable state has the shape of the schema.
THEOREM TypeCorrect == Spec => []TypeOK
<1>1. Init => TypeOK
  BY DEF Init, TypeOK, Kind, Idle
<1>. QED
  BY <1>1, TypeStep, PTL DEF Spec

-----------------------------------------------------------------------------
(* The inductive invariant.                                                *)

\* A request is about a revision that exists.
RequestsOnRevisions ==
    \A r \in DOMAIN requests : requests[r].revision \in 1..Latest(requests[r].wp)

\* A row has revisions once it is created, and only then is it edited.
RowsWellFormed ==
    /\ \A p \in WorkProduct :
         /\ status[p] = "absent" => revisions[p] = <<>> /\ effective[p] = 0
         /\ status[p] # "absent" => revisions[p] # <<>>
    /\ RequestsOnRevisions

EditsOnRows ==
    \A c \in Call : call[c].op = "edit" => status[call[c].wp] # "absent"

\* Whoever signed a request was assigned to it and did not write its revision.
SignersAssigned ==
    \A d \in decisions :
      /\ \E role \in RequiredAssignment(d.kind) :
            <<d.by, role>> \in requests[d.request].assigned
      /\ d.by # revisions[requests[d.request].wp][requests[d.request].revision].by

\* An approval has closed its request, which had been reviewed before.
ApprovalsClose ==
    \A d \in decisions : d.kind = "approval" =>
      /\ requests[d.request].status = "approved"
      /\ \E e \in decisions : e.request = d.request /\ e.kind = "review"

RInv ==
    /\ TypeOK
    /\ RowsWellFormed
    /\ EditsOnRows
    /\ ReviewMatchesStatus
    /\ SignersAssigned
    /\ ApprovalsClose
    /\ ApprovedByQuorum
    /\ EffectivePlanApproved
    /\ KeySignsOnce

\* The invariant holds at the start.
LEMMA RInvInit == Init => RInv
<1>. SUFFICES ASSUME Init
              PROVE  RInv
  OBVIOUS
<1>1. TypeOK
  BY DEF Init, TypeOK, Kind, Idle
<1>2. DOMAIN requests = {}
  BY DEF Init
<1>. QED
  BY <1>1, <1>2 DEF Init, RInv, RowsWellFormed, RequestsOnRevisions, EditsOnRows,
     Idle, ReviewMatchesStatus, OpenRequests,
     SignersAssigned, ApprovalsClose, ApprovedByQuorum, EffectivePlanApproved, KeySignsOnce

\* The kinds of step that change a row, a request or a decision.
LEMMA StepCases ==
  ASSUME [Next]_vars
  PROVE  \/ CallMoves
         \/ \E u \in Editor, p \in WorkProduct, k \in Kind : Create(u, p, k)
         \/ \E c \in Call, u \in Editor, p \in WorkProduct, m \in BOOLEAN : Revise(c, u, p, m)
         \/ \E c \in Call, u \in Editor, p \in WorkProduct : ReviseSpecification(c, u, p)
         \/ \E c \in Call, p \in WorkProduct : RetireWorkProduct(c, p)
         \/ \E p \in WorkProduct, a \in SUBSET Candidate : SubmitWorkProduct(p, a)
         \/ \E c \in Call, r \in DOMAIN requests : RecordReview(c, r)
         \/ \E c \in Call, r \in DOMAIN requests : RecordApproval(c, r)
         \/ \E c \in Call, r \in DOMAIN requests : RecordRequestChanges(c, r)
         \/ \E c \in Call, p \in WorkProduct : \E n \in 1..Latest(p) : ApplyPlan(c, p, n)
<1>1. CASE UNCHANGED vars
  BY <1>1 DEF vars, products, CallMoves
<1>2. CASE Next
  <2>1. ASSUME NEW c \in Call, NEW p \in WorkProduct, Read(c, p) \/ Edit(c, p)
        PROVE  \/ CallMoves
               \/ \E u \in Editor, m \in BOOLEAN : Revise(c, u, p, m)
               \/ \E u \in Editor : ReviseSpecification(c, u, p)
               \/ RetireWorkProduct(c, p)
               \/ \E n \in 1..Latest(p) : ApplyPlan(c, p, n)
    BY <2>1 DEF Read, Edit, CallMoves, ReviseWorkProduct, RevisePlan
  <2>2. ASSUME NEW c \in Call, EditRefused(c)
        PROVE  CallMoves
    BY <2>2 DEF EditRefused, CallMoves
  <2>3. ASSUME NEW c \in Call, NEW u \in Person, NEW p \in WorkProduct, NEW k \in Decision,
               NEW key \in Key \cup {NoKey}, RequestDecision(c, u, p, k, key)
        PROVE  CallMoves
    BY <2>3 DEF RequestDecision, CallMoves
  <2>4. ASSUME NEW c \in Call, Decide(c)
        PROVE  \/ CallMoves
               \/ \E r \in DOMAIN requests :
                    RecordReview(c, r) \/ RecordApproval(c, r) \/ RecordRequestChanges(c, r)
    BY <2>4 DEF Decide, LookUpOperationKey, DecisionRefused, CallMoves
  <2>5. ASSUME NEW u \in Editor, NEW p \in WorkProduct,
               CreateWorkProduct(u, p) \/ CreateSpecification(u, p) \/ CreateWithPlan(u, p)
        PROVE  \E k \in Kind : Create(u, p, k)
    BY <2>5 DEF CreateWorkProduct, CreateSpecification, CreateWithPlan, Kind
  <2>. QED
    BY <1>2, <2>1, <2>2, <2>3, <2>4, <2>5 DEF Next
<1>. QED
  BY <1>1, <1>2

-----------------------------------------------------------------------------
(* Evidence is permanent.                                                  *)

RequestsStand ==
    \A r \in DOMAIN requests :
      /\ r \in DOMAIN requests'
      /\ requests'[r] = [requests[r] EXCEPT !.status = requests'[r].status]
      /\ requests[r].status # "open" => requests'[r] = requests[r]

RevisionsStand ==
    \A p \in WorkProduct : revisions[p] # <<>> =>
      SubSeq(revisions'[p], 1, Latest(p)) = revisions[p]

\* The conjuncts of EvidenceKept by their names.
LEMMA EvidenceParts ==
  EvidenceKept <=> decisions \subseteq decisions' /\ RequestsStand /\ RevisionsStand
  BY DEF EvidenceKept, RequestsStand, RevisionsStand

\* A stored request has the fields of Request.
LEMMA RequestFields ==
  ASSUME TypeOK, NEW r \in DOMAIN requests
  PROVE  /\ requests[r] \in Request
         /\ requests[r] = [requests[r] EXCEPT !.status = requests[r].status]
<1>1. requests \in Seq(Request)
  BY DEF TypeOK, Request
<1>2. requests[r] \in Request
  BY <1>1
<1>. QED
  BY <1>2 DEF Request

\* A withdrawal or a revision closes the open requests of p and changes no other.
LEMMA SupersedeEffect ==
  ASSUME TypeOK, NEW p \in WorkProduct, SupersedeOpenReviewRequest(p)
  PROVE  /\ DOMAIN requests' = DOMAIN requests
         /\ RequestsStand
         /\ \A r \in DOMAIN requests :
              requests'[r].status = IF r \in OpenRequests(p) THEN "superseded"
                                                             ELSE requests[r].status
<1>1. DOMAIN requests' = DOMAIN requests
  BY SupersedeType
<1>2. ASSUME NEW r \in DOMAIN requests
      PROVE  /\ requests'[r] = [requests[r] EXCEPT !.status = requests'[r].status]
             /\ requests[r].status # "open" => requests'[r] = requests[r]
             /\ requests'[r].status = IF r \in OpenRequests(p) THEN "superseded"
                                                               ELSE requests[r].status
  <2>1. requests'[r] = IF requests[r].wp = p THEN Supersede(requests[r]) ELSE requests[r]
    BY DEF SupersedeOpenReviewRequest
  <2>. QED
    BY <2>1, RequestFields DEF Supersede, Request, OpenRequests
<1>. QED
  BY <1>1, <1>2 DEF RequestsStand

\* A decision that ends the review closes one open request.
LEMMA CloseEffect ==
  ASSUME TypeOK, NEW r \in DOMAIN requests, requests[r].status = "open",
         NEW s \in RequestStatus, CloseRequest(r, s)
  PROVE  /\ DOMAIN requests' = DOMAIN requests
         /\ RequestsStand
         /\ \A q \in DOMAIN requests :
              requests'[q].status = IF q = r THEN s ELSE requests[q].status
<1>1. DOMAIN requests' = DOMAIN requests
  BY CloseType
<1>2. ASSUME NEW q \in DOMAIN requests
      PROVE  /\ requests'[q] = [requests[q] EXCEPT !.status = requests'[q].status]
             /\ requests[q].status # "open" => requests'[q] = requests[q]
             /\ requests'[q].status = IF q = r THEN s ELSE requests[q].status
  <2>1. requests'[q] = IF q = r THEN [requests[r] EXCEPT !.status = s] ELSE requests[q]
    BY DEF CloseRequest
  <2>. QED
    BY <2>1, RequestFields DEF Request
<1>. QED
  BY <1>1, <1>2 DEF RequestsStand

\* A submission adds a request behind the others.
LEMMA SubmitEffect ==
  ASSUME TypeOK, NEW p \in WorkProduct, NEW a \in SUBSET Candidate, SubmitWorkProduct(p, a)
  PROVE  LET new == Len(requests) + 1 IN
         /\ DOMAIN requests' = DOMAIN requests \cup {new}
         /\ new \notin DOMAIN requests
         /\ RequestsStand
         /\ \A r \in DOMAIN requests : requests'[r] = requests[r]
         /\ requests'[new] = [wp |-> p, revision |-> Latest(p), status |-> "open",
                              assigned |-> a]
<1>1. requests \in Seq(Request) /\ Latest(p) \in Nat
  BY DEF TypeOK, Request, Latest
<1>2. [wp |-> p, revision |-> Latest(p), status |-> "open", assigned |-> a] \in Request
  BY <1>1 DEF Request, RequestStatus, Candidate
<1>3. requests' = Append(requests, [wp |-> p, revision |-> Latest(p), status |-> "open",
                                    assigned |-> a])
  BY DEF SubmitWorkProduct
<1>4. /\ DOMAIN requests = 1..Len(requests) /\ Len(requests) \in Nat
      /\ DOMAIN requests' = 1..(Len(requests) + 1)
      /\ \A r \in DOMAIN requests : requests'[r] = requests[r]
      /\ requests'[Len(requests) + 1] = [wp |-> p, revision |-> Latest(p),
                                         status |-> "open", assigned |-> a]
  BY <1>1, <1>2, <1>3, AppendType
<1>5. RequestsStand
  BY <1>4, RequestFields DEF RequestsStand
<1>. QED
  BY <1>4, <1>5

\* Nobody alters a revision by adding one behind it.
LEMMA PrefixOfAppend ==
  ASSUME NEW S, NEW s \in Seq(S), NEW e \in S, s # <<>>
  PROVE  SubSeq(Append(s, e), 1, Len(s)) = s
<1>1. /\ Append(s, e) = s \o <<e>>
      /\ <<e>> \in Seq(S)
      /\ Len(s) \in 1..Len(s) /\ 1 \in 1..Len(s)
  BY AppendIsConcat
<1>. QED
  BY <1>1, SubSeqOfConcat1, SubSeqFull

\* What a sequence starts with, it keeps element by element.
LEMMA PrefixElement ==
  ASSUME NEW S, NEW s \in Seq(S), NEW t \in Seq(S), SubSeq(t, 1, Len(s)) = s,
         NEW i \in 1..Len(s)
  PROVE  t[i] = s[i]
  OBVIOUS

\* A new revision adds one to its row and leaves every other row alone.
LEMMA RevisionEffect ==
  ASSUME TypeOK, NEW p \in WorkProduct, NEW x \in Revision, AddRevision(p, x)
  PROVE  /\ RevisionsStand
         /\ Latest(p)' = Latest(p) + 1
         /\ \A q \in WorkProduct : q # p => Latest(q)' = Latest(q)
<1>1. revisions[p] \in Seq(Revision)
  BY DEF TypeOK
<1>2. /\ revisions'[p] = Append(revisions[p], x)
      /\ \A q \in WorkProduct : q # p => revisions'[q] = revisions[q]
  BY RevisionType
<1>3. revisions[p] # <<>> => SubSeq(revisions'[p], 1, Latest(p)) = revisions[p]
  BY <1>1, <1>2, PrefixOfAppend DEF Latest
<1>4. \A q \in WorkProduct : SubSeq(revisions[q], 1, Latest(q)) = revisions[q]
  BY SubSeqFull DEF Latest, TypeOK
<1>5. RevisionsStand
  BY <1>2, <1>3, <1>4 DEF RevisionsStand
<1>. QED
  BY <1>1, <1>2, <1>5, AppendType DEF Latest

\* What is not touched stands.
LEMMA StandUnchanged ==
  ASSUME TypeOK
  PROVE  /\ UNCHANGED requests => RequestsStand
         /\ UNCHANGED revisions => RevisionsStand
<1>1. \A q \in WorkProduct : SubSeq(revisions[q], 1, Latest(q)) = revisions[q]
  BY SubSeqFull DEF Latest, TypeOK
<1>. QED
  BY <1>1, RequestFields DEF RequestsStand, RevisionsStand

\* Every step keeps the evidence.
LEMMA EvidenceStep ==
  ASSUME TypeOK, RowsWellFormed, [Next]_vars
  PROVE  EvidenceKept
<1>1. CASE CallMoves
  BY <1>1, StandUnchanged, EvidenceParts DEF CallMoves, products
<1>2. ASSUME NEW u \in Editor, NEW p \in WorkProduct, NEW k \in Kind, Create(u, p, k)
      PROVE  EvidenceKept
  <2>1. revisions[p] = <<>>
    BY <1>2 DEF Create, RowsWellFormed
  <2>2. \A q \in WorkProduct : q # p => revisions'[q] = revisions[q]
    BY <1>2 DEF Create, TypeOK
  <2>3. \A q \in WorkProduct : SubSeq(revisions[q], 1, Latest(q)) = revisions[q]
    BY SubSeqFull DEF Latest, TypeOK
  <2>4. RevisionsStand
    BY <2>1, <2>2, <2>3 DEF RevisionsStand
  <2>. QED
    BY <1>2, <2>4, StandUnchanged, EvidenceParts DEF Create
<1>3. ASSUME NEW c \in Call, NEW u \in Editor, NEW p \in WorkProduct, NEW m \in BOOLEAN,
             Revise(c, u, p, m)
      PROVE  EvidenceKept
  BY <1>3, PeopleAssumption, SupersedeEffect, RevisionEffect, EvidenceParts
  DEF Revise, Revision
<1>4. ASSUME NEW c \in Call, NEW u \in Editor, NEW p \in WorkProduct,
             ReviseSpecification(c, u, p)
      PROVE  EvidenceKept
  BY <1>4, PeopleAssumption, RevisionEffect, StandUnchanged, EvidenceParts
  DEF ReviseSpecification, Revision
<1>5. ASSUME NEW c \in Call, NEW p \in WorkProduct, RetireWorkProduct(c, p)
      PROVE  EvidenceKept
  BY <1>5, SupersedeEffect, StandUnchanged, EvidenceParts DEF RetireWorkProduct
<1>6. ASSUME NEW p \in WorkProduct, NEW a \in SUBSET Candidate, SubmitWorkProduct(p, a)
      PROVE  EvidenceKept
  <2>1. RequestsStand
    BY <1>6, SubmitEffect
  <2>. QED
    BY <1>6, <2>1, StandUnchanged, EvidenceParts DEF SubmitWorkProduct
<1>7. ASSUME NEW c \in Call, NEW r \in DOMAIN requests, RecordReview(c, r)
      PROVE  EvidenceKept
  BY <1>7, StandUnchanged, EvidenceParts DEF RecordReview, Sign, products
<1>8. ASSUME NEW c \in Call, NEW r \in DOMAIN requests, RecordApproval(c, r)
      PROVE  EvidenceKept
  <2>1. RequestsStand
    BY <1>8, CloseEffect DEF RecordApproval, Sign, MaySign, OpenRequests, RequestStatus
  <2>. QED
    BY <1>8, <2>1, StandUnchanged, EvidenceParts DEF RecordApproval, Sign
<1>9. ASSUME NEW c \in Call, NEW r \in DOMAIN requests, RecordRequestChanges(c, r)
      PROVE  EvidenceKept
  <2>1. RequestsStand
    BY <1>9, CloseEffect
    DEF RecordRequestChanges, Sign, MaySign, OpenRequests, RequestStatus
  <2>. QED
    BY <1>9, <2>1, StandUnchanged, EvidenceParts DEF RecordRequestChanges, Sign
<1>10. ASSUME NEW c \in Call, NEW p \in WorkProduct, NEW n \in 1..Latest(p), ApplyPlan(c, p, n)
       PROVE  EvidenceKept
  BY <1>10, StandUnchanged, EvidenceParts DEF ApplyPlan
<1>. QED
  BY <1>1, <1>2, <1>3, <1>4, <1>5, <1>6, <1>7, <1>8, <1>9, <1>10, StepCases

-----------------------------------------------------------------------------
(* What permanent evidence keeps true.                                     *)

\* A request that stands keeps its fields, a closed one its status too.
LEMMA RequestsKept ==
  ASSUME TypeOK, EvidenceKept, NEW r \in DOMAIN requests
  PROVE  /\ r \in DOMAIN requests'
         /\ requests'[r].wp = requests[r].wp
         /\ requests'[r].revision = requests[r].revision
         /\ requests'[r].assigned = requests[r].assigned
         /\ requests[r].status # "open" => requests'[r].status = requests[r].status
  BY RequestFields DEF EvidenceKept, Request

\* A revision that stands keeps its author and its manifest.
LEMMA RevisionsKept ==
  ASSUME TypeOK, TypeOK', EvidenceKept, NEW p \in WorkProduct, NEW n \in 1..Latest(p)
  PROVE  revisions'[p][n] = revisions[p][n]
<1>1. /\ revisions[p] \in Seq(Revision) /\ revisions'[p] \in Seq(Revision)
      /\ n \in 1..Len(revisions[p])
  BY DEF TypeOK, Latest
<1>2. revisions[p] # <<>>
  BY <1>1
<1>3. SubSeq(revisions'[p], 1, Len(revisions[p])) = revisions[p]
  BY <1>2 DEF EvidenceKept, Latest
<1>. QED
  BY <1>1, <1>3, PrefixElement

\* The quorum of a revision, spelled out: a request, a review, an approval.
QuorumOf(p, n, r, d, e) ==
    /\ requests[r].wp = p /\ requests[r].revision = n /\ requests[r].status = "approved"
    /\ d.request = r /\ d.kind = "review"
    /\ <<d.by, "reviewer">> \in requests[r].assigned /\ d.by # revisions[p][n].by
    /\ e.request = r /\ e.kind = "approval"
    /\ <<e.by, "approver">> \in requests[r].assigned /\ e.by # revisions[p][n].by

\* A quorum has a request, a review and an approval to show.
LEMMA QuorumWitness ==
  ASSUME NEW p, NEW n, HasQuorum(p, n)
  PROVE  \E r \in DOMAIN requests, d, e \in decisions : QuorumOf(p, n, r, d, e)
<1>1. PICK r \in DOMAIN requests :
        /\ requests[r].wp = p /\ requests[r].revision = n /\ requests[r].status = "approved"
        /\ \A need \in {<<"review", "reviewer">>, <<"approval", "approver">>} :
             \E d \in decisions : /\ d.request = r /\ d.kind = need[1]
                                  /\ <<d.by, need[2]>> \in requests[r].assigned
                                  /\ d.by # revisions[p][n].by
  BY DEF HasQuorum
<1>2. PICK d \in decisions : /\ d.request = r /\ d.kind = "review"
                             /\ <<d.by, "reviewer">> \in requests[r].assigned
                             /\ d.by # revisions[p][n].by
  BY <1>1
<1>3. PICK e \in decisions : /\ e.request = r /\ e.kind = "approval"
                             /\ <<e.by, "approver">> \in requests[r].assigned
                             /\ e.by # revisions[p][n].by
  BY <1>1
<1>. QED
  BY <1>1, <1>2, <1>3 DEF QuorumOf

\* A request, a review and an approval that fit make a quorum ...
LEMMA WitnessedQuorum ==
  ASSUME NEW p, NEW n, NEW r \in DOMAIN requests, NEW d \in decisions, NEW e \in decisions,
         QuorumOf(p, n, r, d, e)
  PROVE  HasQuorum(p, n)
<1>1. ASSUME NEW need \in {<<"review", "reviewer">>, <<"approval", "approver">>}
      PROVE  \E x \in decisions : /\ x.request = r /\ x.kind = need[1]
                                  /\ <<x.by, need[2]>> \in requests[r].assigned
                                  /\ x.by # revisions[p][n].by
  <2>1. CASE need = <<"review", "reviewer">>
    <3>1. need[1] = "review" /\ need[2] = "reviewer"
      BY <2>1
    <3>. QED
      BY <3>1 DEF QuorumOf
  <2>2. CASE need = <<"approval", "approver">>
    <3>1. need[1] = "approval" /\ need[2] = "approver"
      BY <2>2
    <3>. QED
      BY <3>1 DEF QuorumOf
  <2>. QED
    BY <2>1, <2>2
<1>. QED
  BY <1>1 DEF QuorumOf, HasQuorum

\* ... and so they do in the state after a step.
LEMMA WitnessedQuorumNext ==
  ASSUME NEW p, NEW n, NEW r \in DOMAIN requests', NEW d \in decisions', NEW e \in decisions',
         QuorumOf(p, n, r, d, e)'
  PROVE  HasQuorum(p, n)'
<1>1. ASSUME NEW need \in {<<"review", "reviewer">>, <<"approval", "approver">>}
      PROVE  \E x \in decisions' : /\ x.request = r /\ x.kind = need[1]
                                  /\ <<x.by, need[2]>> \in requests'[r].assigned
                                  /\ x.by # revisions'[p][n].by
  <2>1. CASE need = <<"review", "reviewer">>
    <3>1. need[1] = "review" /\ need[2] = "reviewer"
      BY <2>1
    <3>. QED
      BY <3>1 DEF QuorumOf
  <2>2. CASE need = <<"approval", "approver">>
    <3>1. need[1] = "approval" /\ need[2] = "approver"
      BY <2>2
    <3>. QED
      BY <3>1 DEF QuorumOf
  <2>. QED
    BY <2>1, <2>2
<1>. QED
  BY <1>1 DEF QuorumOf, HasQuorum

\* A revision that has its quorum keeps it.
LEMMA QuorumKept ==
  ASSUME TypeOK, TypeOK', RowsWellFormed, EvidenceKept,
         NEW p \in WorkProduct, NEW n, HasQuorum(p, n)
  PROVE  HasQuorum(p, n)'
<1>1. PICK r \in DOMAIN requests, d \in decisions, e \in decisions : QuorumOf(p, n, r, d, e)
  BY QuorumWitness
<1>2. n \in 1..Latest(p)
  BY <1>1 DEF QuorumOf, RowsWellFormed, RequestsOnRevisions
<1>3. revisions'[p][n] = revisions[p][n]
  BY <1>2, RevisionsKept
<1>4. d \in decisions' /\ e \in decisions'
  BY DEF EvidenceKept
<1>5. QuorumOf(p, n, r, d, e)'
  BY <1>1, <1>3, RequestsKept DEF QuorumOf
<1>. QED
  BY <1>4, <1>5, RequestsKept, WitnessedQuorumNext

\* An approval stands for the whole quorum of its request's revision.
LEMMA QuorumOfApproval ==
  ASSUME TypeOK, SignersAssigned, ApprovalsClose,
         NEW d \in decisions, d.kind = "approval"
  PROVE  HasQuorum(requests[d.request].wp, requests[d.request].revision)
<1>1. PICK e \in decisions : e.request = d.request /\ e.kind = "review"
  BY DEF ApprovalsClose
<1>2. d.request \in DOMAIN requests
  BY DEF TypeOK
<1>3. QuorumOf(requests[d.request].wp, requests[d.request].revision, d.request, e, d)
  BY <1>1, <1>2 DEF SignersAssigned, ApprovalsClose, RequiredAssignment, QuorumOf
<1>. QED
  BY <1>1, <1>2, <1>3, WitnessedQuorum

\* The same in the state after a step.
LEMMA QuorumOfApprovalNext ==
  ASSUME TypeOK', SignersAssigned', ApprovalsClose',
         NEW d \in decisions', d.kind = "approval",
         NEW p, NEW n, requests'[d.request].wp = p, requests'[d.request].revision = n
  PROVE  HasQuorum(p, n)'
<1>1. PICK e \in decisions' : e.request = d.request /\ e.kind = "review"
  BY DEF ApprovalsClose
<1>2. d.request \in DOMAIN requests'
  BY DEF TypeOK
<1>3. QuorumOf(p, n, d.request, e, d)'
  BY <1>1, <1>2 DEF SignersAssigned, ApprovalsClose, RequiredAssignment, QuorumOf
<1>. QED
  BY <1>1, <1>2, <1>3, WitnessedQuorumNext

-----------------------------------------------------------------------------
(* Each part of the invariant is preserved.                                *)

\* The requests keep pointing at revisions, if no row loses one.
LEMMA RequestsWellFormed ==
  ASSUME TypeOK, TypeOK', RowsWellFormed, RequestsStand, DOMAIN requests' = DOMAIN requests,
         \A p \in WorkProduct : Latest(p)' >= Latest(p)
  PROVE  RequestsOnRevisions'
<1>. SUFFICES ASSUME NEW r \in DOMAIN requests'
              PROVE  requests'[r].revision \in 1..Len(revisions'[requests'[r].wp])
  BY DEF RequestsOnRevisions, Latest
<1>1. requests'[r].wp = requests[r].wp /\ requests'[r].revision = requests[r].revision
  BY RequestFields DEF RequestsStand, Request
<1>2. requests[r].wp \in WorkProduct
  BY RequestFields DEF Request
<1>a. \A p \in WorkProduct : revisions[p] \in Seq(Revision) /\ revisions'[p] \in Seq(Revision)
  BY DEF TypeOK
<1>3. \A p \in WorkProduct : Len(revisions[p]) \in Nat /\ Len(revisions'[p]) \in Nat
  BY <1>a, LenProperties
<1>. QED
  BY <1>1, <1>2, <1>3 DEF RowsWellFormed, RequestsOnRevisions, Latest

\* Rows and requests stay well formed: no row loses a revision.
LEMMA RowsStep ==
  ASSUME TypeOK, TypeOK', RowsWellFormed, EditsOnRows, [Next]_vars
  PROVE  RowsWellFormed'
<1>a. \A p \in WorkProduct : Latest(p) \in Nat
  BY DEF TypeOK, Latest
<1>b. \A p \in WorkProduct : revisions[p] \in Seq(Revision) /\ revisions'[p] \in Seq(Revision)
  BY DEF TypeOK
<1>c. \A p \in WorkProduct : /\ revisions'[p] = <<>> <=> Latest(p)' = 0
                             /\ revisions[p] = <<>> <=> Latest(p) = 0
  BY <1>b DEF Latest
<1>0. ASSUME UNCHANGED requests, UNCHANGED revisions
      PROVE  RequestsOnRevisions'
  BY <1>0 DEF RowsWellFormed, RequestsOnRevisions, Latest
<1>1. CASE CallMoves
  BY <1>1, <1>0 DEF CallMoves, products, RowsWellFormed
<1>2. ASSUME NEW u \in Editor, NEW p \in WorkProduct, NEW k \in Kind, Create(u, p, k)
      PROVE  RowsWellFormed'
  <2>1. revisions'[p] = <<[by |-> u, manifest |-> k = "plan"]>>
    BY <1>2 DEF Create, TypeOK
  <2>2. Latest(p) = 0 /\ Latest(p)' = 1
    BY <1>2, <2>1 DEF Latest, Create, RowsWellFormed
  <2>3. \A q \in WorkProduct : q # p => revisions'[q] = revisions[q]
    BY <1>2 DEF Create, TypeOK
  <2>4. \A q \in WorkProduct : Latest(q)' >= Latest(q)
    BY <2>2, <2>3, <1>a DEF Latest
  <2>5. RequestsOnRevisions'
    BY <1>2, <2>4, RequestsWellFormed, StandUnchanged DEF Create
  <2>. QED
    BY <1>2, <2>2, <2>3, <2>5, <1>c DEF Create, RowsWellFormed, TypeOK
<1>3. ASSUME NEW c \in Call, NEW u \in Editor, NEW p \in WorkProduct, NEW m \in BOOLEAN,
             Revise(c, u, p, m)
      PROVE  RowsWellFormed'
  <2>1. /\ Latest(p)' = Latest(p) + 1
        /\ \A q \in WorkProduct : q # p => Latest(q)' = Latest(q)
    BY <1>3, PeopleAssumption, RevisionEffect DEF Revise, Revision
  <2>2. DOMAIN requests' = DOMAIN requests /\ RequestsStand
    BY <1>3, SupersedeEffect DEF Revise
  <2>3. RequestsOnRevisions'
    BY <2>1, <2>2, <1>a, RequestsWellFormed
  <2>4. \A q \in WorkProduct : status'[q] = IF q = p THEN "draft" ELSE status[q]
    BY <1>3 DEF Revise, Transition, TypeOK
  <2>5. p \in WorkProduct /\ effective' = effective
    BY <1>3 DEF Revise
  <2>. QED
    BY <2>1, <2>3, <2>4, <2>5, <1>a, <1>c DEF RowsWellFormed
<1>4. ASSUME NEW c \in Call, NEW u \in Editor, NEW p \in WorkProduct,
             ReviseSpecification(c, u, p)
      PROVE  RowsWellFormed'
  <2>1. /\ Latest(p)' = Latest(p) + 1
        /\ \A q \in WorkProduct : q # p => Latest(q)' = Latest(q)
    BY <1>4, PeopleAssumption, RevisionEffect DEF ReviseSpecification, Revision
  <2>2. RequestsOnRevisions'
    BY <1>4, <2>1, <1>a, RequestsWellFormed, StandUnchanged DEF ReviseSpecification
  <2>3. status' = status /\ effective' = effective
    BY <1>4 DEF ReviseSpecification
  <2>4. status[p] # "absent"
    BY <1>4 DEF ReviseSpecification, VersionStands, EditsOnRows
  <2>. QED
    BY <2>1, <2>2, <2>3, <2>4, <1>a, <1>c DEF RowsWellFormed
<1>5. ASSUME NEW c \in Call, NEW p \in WorkProduct, RetireWorkProduct(c, p)
      PROVE  RowsWellFormed'
  <2>1. DOMAIN requests' = DOMAIN requests /\ RequestsStand
    BY <1>5, SupersedeEffect DEF RetireWorkProduct
  <2>2. RequestsOnRevisions'
    BY <1>5, <2>1, <1>a, RequestsWellFormed DEF RetireWorkProduct, Latest
  <2>3. status[p] # "absent"
    BY <1>5 DEF RetireWorkProduct, VersionStands, EditsOnRows
  <2>4. \A q \in WorkProduct : status'[q] = IF q = p THEN "obsolete" ELSE status[q]
    BY <1>5 DEF RetireWorkProduct, Transition, TypeOK
  <2>. QED
    BY <1>5, <2>2, <2>3, <2>4 DEF RetireWorkProduct, RowsWellFormed
<1>6. ASSUME NEW p \in WorkProduct, NEW a \in SUBSET Candidate, SubmitWorkProduct(p, a)
      PROVE  RowsWellFormed'
  <2>1. revisions' = revisions /\ effective' = effective /\ status[p] = "draft"
    BY <1>6 DEF SubmitWorkProduct
  <2>2. Latest(p) \in 1..Latest(p)
    BY <2>1, <1>a, <1>c DEF RowsWellFormed
  <2>a. ASSUME NEW r \in DOMAIN requests'
        PROVE  requests'[r].revision \in 1..Len(revisions[requests'[r].wp])
    <3>1. CASE r \in DOMAIN requests
      BY <1>6, <3>1, SubmitEffect DEF RowsWellFormed, RequestsOnRevisions, Latest
    <3>2. CASE r \notin DOMAIN requests
      <4>0. requests'[r] = [wp |-> p, revision |-> Latest(p), status |-> "open",
                            assigned |-> a]
        BY <1>6, <3>2, SubmitEffect
      <4>1. requests'[r].wp = p /\ requests'[r].revision = Latest(p)
        BY <4>0
      <4>. QED
        BY <4>1, <2>2 DEF Latest
    <3>. QED
      BY <3>1, <3>2
  <2>3. RequestsOnRevisions'
    BY <2>1, <2>a DEF RequestsOnRevisions, Latest
  <2>4. \A q \in WorkProduct : status'[q] = IF q = p THEN "in_review" ELSE status[q]
    BY <1>6 DEF SubmitWorkProduct, Transition, TypeOK
  <2>. QED
    BY <2>1, <2>3, <2>4 DEF RowsWellFormed
<1>7. ASSUME NEW c \in Call, NEW r \in DOMAIN requests, RecordReview(c, r)
      PROVE  RowsWellFormed'
  BY <1>7, <1>0 DEF RecordReview, products, RowsWellFormed
\* An approval or a request for changes closes r and moves a row in review to s.
<1>e. ASSUME NEW c \in Call, NEW r \in DOMAIN requests, Sign(c, r),
             NEW s \in RequestStatus, CloseRequest(r, s),
             NEW t \in Status, Transition(call[c].wp, t),
             UNCHANGED <<kind, revisions, effective>>
      PROVE  RowsWellFormed'
  <2>1. /\ call[c].wp \in WorkProduct
        /\ status[call[c].wp] = "in_review"
        /\ requests[r].status = "open"
    BY <1>e, CallFields DEF Sign, MaySign, OpenRequests, DecideCall
  <2>2. DOMAIN requests' = DOMAIN requests /\ RequestsStand
    BY <1>e, <2>1, CloseEffect
  <2>3. RequestsOnRevisions'
    BY <1>e, <2>2, <1>a, RequestsWellFormed DEF Latest
  <2>4. \A q \in WorkProduct : status'[q] = IF q = call[c].wp THEN t ELSE status[q]
    BY <1>e DEF Transition, TypeOK
  <2>5. t # "absent"
    BY DEF Status
  <2>. QED
    BY <1>e, <2>1, <2>3, <2>4, <2>5 DEF RowsWellFormed
<1>8. ASSUME NEW c \in Call, NEW r \in DOMAIN requests, RecordApproval(c, r)
      PROVE  RowsWellFormed'
  BY <1>8, <1>e DEF RecordApproval, RequestStatus, Status
<1>9. ASSUME NEW c \in Call, NEW r \in DOMAIN requests, RecordRequestChanges(c, r)
      PROVE  RowsWellFormed'
  BY <1>9, <1>e DEF RecordRequestChanges, RequestStatus, Status
<1>10. ASSUME NEW c \in Call, NEW p \in WorkProduct, NEW n \in 1..Latest(p), ApplyPlan(c, p, n)
       PROVE  RowsWellFormed'
  <2>1. requests' = requests /\ revisions' = revisions /\ status' = status
    BY <1>10 DEF ApplyPlan
  <2>2. status[p] # "absent"
    BY <1>10 DEF ApplyPlan, VersionStands, EditsOnRows
  <2>3. \A q \in WorkProduct : q # p => effective'[q] = effective[q]
    BY <1>10 DEF ApplyPlan, TypeOK
  <2>. QED
    BY <2>1, <2>2, <2>3, <1>0 DEF RowsWellFormed
<1>. QED
  BY <1>1, <1>2, <1>3, <1>4, <1>5, <1>6, <1>7, <1>8, <1>9, <1>10, StepCases

\* A call that edits after a step did so before, or has just read its row.
LEMMA EditCalls ==
  ASSUME TypeOK, [Next]_vars, NEW c \in Call, call'[c].op = "edit"
  PROVE  \/ call'[c] = call[c]
         \/ \E p \in WorkProduct : Read(c, p)
<1>a. ASSUME NEW b \in Call, NEW a, Answer(b, a), a.op # "edit"
      PROVE  call'[c] = call[c]
  BY <1>a DEF Answer, TypeOK
<1>b. Idle.op # "edit" /\ Refused.op # "edit"
  BY DEF Idle, Refused
<1>1. CASE UNCHANGED vars
  BY <1>1 DEF vars
<1>2. ASSUME NEW u \in Editor, NEW p \in WorkProduct,
             CreateWorkProduct(u, p) \/ CreateSpecification(u, p) \/ CreateWithPlan(u, p)
      PROVE  call'[c] = call[c]
  BY <1>2 DEF CreateWorkProduct, CreateSpecification, CreateWithPlan, Create
<1>3. ASSUME NEW b \in Call, NEW p \in WorkProduct, Read(b, p)
      PROVE  call'[c] = call[c] \/ Read(c, p)
  BY <1>3 DEF Read, Answer, TypeOK
<1>4. ASSUME NEW b \in Call, NEW p \in WorkProduct, Edit(b, p)
      PROVE  call'[c] = call[c]
  <2>1. Answer(b, Idle)
    BY <1>4 DEF Edit, ReviseWorkProduct, RevisePlan, Revise, ReviseSpecification,
       RetireWorkProduct, ApplyPlan
  <2>. QED
    BY <2>1, <1>a, <1>b
<1>5. ASSUME NEW b \in Call, EditRefused(b)
      PROVE  call'[c] = call[c]
  BY <1>5, <1>a, <1>b DEF EditRefused
<1>6. ASSUME NEW p \in WorkProduct, NEW a \in SUBSET Candidate, SubmitWorkProduct(p, a)
      PROVE  call'[c] = call[c]
  BY <1>6 DEF SubmitWorkProduct
<1>7. ASSUME NEW b \in Call, NEW u \in Person, NEW p \in WorkProduct, NEW k \in Decision,
             NEW key \in Key \cup {NoKey}, RequestDecision(b, u, p, k, key)
      PROVE  call'[c] = call[c]
  BY <1>7, <1>a DEF RequestDecision
<1>8. ASSUME NEW b \in Call, Decide(b)
      PROVE  call'[c] = call[c]
  <2>1. CASE LookUpOperationKey(b)
    <3>1. [call[b] EXCEPT !.looked = TRUE].op # "edit"
      BY <2>1, CallFields DEF LookUpOperationKey, DecideCall
    <3>. QED
      BY <2>1, <3>1, <1>a, <1>b DEF LookUpOperationKey
  <2>2. ASSUME NEW r \in DOMAIN requests,
               RecordReview(b, r) \/ RecordApproval(b, r) \/ RecordRequestChanges(b, r)
        PROVE  call'[c] = call[c]
    BY <2>2, <1>a, <1>b DEF RecordReview, RecordApproval, RecordRequestChanges, Sign
  <2>3. CASE DecisionRefused(b)
    BY <2>3, <1>a, <1>b DEF DecisionRefused
  <2>. QED
    BY <1>8, <2>1, <2>2, <2>3 DEF Decide
<1>. QED
  BY <1>1, <1>2, <1>3, <1>4, <1>5, <1>6, <1>7, <1>8 DEF Next

\* No row goes away under an edit in flight.
LEMMA EditsStep ==
  ASSUME TypeOK, TypeOK', EditsOnRows, [Next]_vars
  PROVE  EditsOnRows'
<1>1. \A q \in WorkProduct : status[q] # "absent" => status'[q] # "absent"
  <2>a. \A q \in WorkProduct, s \in Status, p \in WorkProduct :
          Transition(p, s) /\ status[q] # "absent" => status'[q] # "absent"
    BY DEF Transition, TypeOK, Status
  <2>b. \A c \in Call : call[c].op = "decide" => call[c].wp \in WorkProduct
    BY CallFields DEF DecideCall
  <2>1. CASE CallMoves
    BY <2>1 DEF CallMoves, products
  <2>2. ASSUME NEW u \in Editor, NEW p \in WorkProduct, NEW k \in Kind, Create(u, p, k)
        PROVE  \A q \in WorkProduct : status[q] # "absent" => status'[q] # "absent"
    BY <2>2 DEF Create, TypeOK
  <2>. QED
    BY <2>1, <2>2, <2>a, <2>b, StepCases
    DEF Revise, ReviseSpecification, RetireWorkProduct, SubmitWorkProduct, RecordReview,
        RecordApproval, RecordRequestChanges, Sign, ApplyPlan, products, Status
<1>2. ASSUME NEW c \in Call, call'[c].op = "edit"
      PROVE  \/ call'[c] = call[c]
             \/ \E p \in WorkProduct : Read(c, p)
  BY <1>2, EditCalls
<1>3. ASSUME NEW c \in Call, call'[c].op = "edit"
      PROVE  status'[call'[c].wp] # "absent"
  <2>1. CASE call'[c] = call[c]
    <3>1. call[c].wp \in WorkProduct
      BY <1>3, <2>1, CallFields DEF EditCall
    <3>. QED
      BY <1>1, <1>3, <2>1, <3>1 DEF EditsOnRows
  <2>2. ASSUME NEW p \in WorkProduct, Read(c, p)
        PROVE  status'[call'[c].wp] # "absent"
    BY <2>2, <1>1 DEF Read, Answer, TypeOK
  <2>. QED
    BY <1>2, <1>3, <2>1, <2>2
<1>. QED
  BY <1>3 DEF EditsOnRows

\* ReviewMatchesStatus for one work product.
ReviewInOrder(p) ==
    /\ status[p] = "in_review" => \E r \in DOMAIN requests : OpenRequests(p) = {r}
    /\ status[p] # "in_review" => OpenRequests(p) = {}
    /\ kind[p] # "specification" =>
         \A r \in OpenRequests(p) : requests[r].revision = Latest(p)

\* A row whose open requests, status, kind and revisions stay is still in order.
LEMMA ReviewKept ==
  ASSUME TypeOK, ReviewMatchesStatus, RequestsStand, NEW p \in WorkProduct,
         OpenRequests(p)' = OpenRequests(p), status'[p] = status[p],
         kind'[p] = kind[p], Latest(p)' = Latest(p) \/ kind[p] = "specification"
  PROVE  ReviewInOrder(p)'
<1>1. OpenRequests(p) \subseteq DOMAIN requests /\ DOMAIN requests \subseteq DOMAIN requests'
  BY DEF OpenRequests, RequestsStand
<1>2. \A r \in DOMAIN requests : requests'[r].revision = requests[r].revision
  BY RequestFields DEF RequestsStand, Request
<1>. QED
  BY <1>1, <1>2 DEF ReviewInOrder, ReviewMatchesStatus

\* Whatever ends a review closes its request, whatever begins one opens one.
LEMMA ReviewStep ==
  ASSUME TypeOK, TypeOK', RowsWellFormed, ReviewMatchesStatus, [Next]_vars
  PROVE  ReviewMatchesStatus'
<1>. SUFFICES ASSUME NEW q \in WorkProduct
              PROVE  ReviewInOrder(q)'
  BY DEF ReviewMatchesStatus, ReviewInOrder
<1>a. RequestsStand /\ RevisionsStand
  BY EvidenceStep, EvidenceParts
<1>b. UNCHANGED requests => OpenRequests(q)' = OpenRequests(q)
  BY DEF OpenRequests
<1>c. ASSUME OpenRequests(q)' = {}, status'[q] # "in_review"
      PROVE  ReviewInOrder(q)'
  BY <1>c DEF ReviewInOrder
<1>d. ASSUME NEW p \in WorkProduct, SupersedeOpenReviewRequest(p)
      PROVE  OpenRequests(q)' = IF q = p THEN {} ELSE OpenRequests(q)
  <2>1. \A r \in DOMAIN requests : requests'[r].wp = requests[r].wp
    BY <1>a, RequestFields DEF RequestsStand, Request
  <2>. QED
    BY <1>d, <2>1, SupersedeEffect DEF OpenRequests
<1>e. ASSUME NEW r \in DOMAIN requests, requests[r].status = "open",
             NEW s \in RequestStatus \ {"open"}, CloseRequest(r, s)
      PROVE  OpenRequests(q)' = OpenRequests(q) \ {r}
  <2>1. \A n \in DOMAIN requests : requests'[n].wp = requests[n].wp
    BY <1>a, RequestFields DEF RequestsStand, Request
  <2>. QED
    BY <1>e, <2>1, CloseEffect DEF OpenRequests
<1>1. CASE CallMoves
  BY <1>1, <1>a, <1>b, ReviewKept DEF CallMoves, products, Latest
<1>2. ASSUME NEW u \in Editor, NEW p \in WorkProduct, NEW k \in Kind, Create(u, p, k)
      PROVE  ReviewInOrder(q)'
  <2>1. CASE q = p
    BY <1>2, <2>1, <1>b, <1>c DEF Create, TypeOK, ReviewMatchesStatus
  <2>2. CASE q # p
    <3>1. status'[q] = status[q] /\ kind'[q] = kind[q] /\ Latest(q)' = Latest(q)
      BY <1>2, <2>2 DEF Create, TypeOK, Latest
    <3>. QED
      BY <1>2, <3>1, <1>a, <1>b, ReviewKept DEF Create
  <2>. QED
    BY <2>1, <2>2
<1>3. ASSUME NEW c \in Call, NEW u \in Editor, NEW p \in WorkProduct, NEW m \in BOOLEAN,
             Revise(c, u, p, m)
      PROVE  ReviewInOrder(q)'
  <2>1. CASE q = p
    BY <1>3, <2>1, <1>c, <1>d DEF Revise, Transition, TypeOK
  <2>2. CASE q # p
    <3>1. status'[q] = status[q] /\ kind'[q] = kind[q]
      BY <1>3, <2>2 DEF Revise, Transition, TypeOK
    <3>2. Latest(q)' = Latest(q)
      BY <1>3, <2>2, PeopleAssumption, RevisionEffect DEF Revise, Revision
    <3>. QED
      BY <1>3, <2>2, <3>1, <3>2, <1>a, <1>d, ReviewKept DEF Revise
  <2>. QED
    BY <2>1, <2>2
<1>4. ASSUME NEW c \in Call, NEW u \in Editor, NEW p \in WorkProduct,
             ReviseSpecification(c, u, p)
      PROVE  ReviewInOrder(q)'
  <2>1. Latest(q)' = Latest(q) \/ kind[q] = "specification"
    BY <1>4, PeopleAssumption, RevisionEffect DEF ReviseSpecification, Revision
  <2>. QED
    BY <1>4, <2>1, <1>a, <1>b, ReviewKept DEF ReviseSpecification
<1>5. ASSUME NEW c \in Call, NEW p \in WorkProduct, RetireWorkProduct(c, p)
      PROVE  ReviewInOrder(q)'
  <2>1. CASE q = p
    BY <1>5, <2>1, <1>c, <1>d DEF RetireWorkProduct, Transition, TypeOK
  <2>2. CASE q # p
    <3>1. status'[q] = status[q]
      BY <1>5, <2>2 DEF RetireWorkProduct, Transition, TypeOK
    <3>. QED
      BY <1>5, <2>2, <3>1, <1>a, <1>d, ReviewKept DEF RetireWorkProduct, Latest
  <2>. QED
    BY <2>1, <2>2
<1>6. ASSUME NEW p \in WorkProduct, NEW a \in SUBSET Candidate, SubmitWorkProduct(p, a)
      PROVE  ReviewInOrder(q)'
  <2>1. PICK new : /\ DOMAIN requests' = DOMAIN requests \cup {new}
                   /\ new \notin DOMAIN requests
                   /\ \A r \in DOMAIN requests : requests'[r] = requests[r]
                   /\ requests'[new] = [wp |-> p, revision |-> Latest(p),
                                        status |-> "open", assigned |-> a]
    BY <1>6, SubmitEffect
  <2>2. requests'[new].wp = p /\ requests'[new].revision = Latest(p)
        /\ requests'[new].status = "open"
    BY <2>1
  <2>3. OpenRequests(q)' = IF q = p THEN OpenRequests(q) \cup {new} ELSE OpenRequests(q)
    BY <2>1, <2>2 DEF OpenRequests
  <2>4. Latest(q)' = Latest(q) /\ kind' = kind
    BY <1>6 DEF SubmitWorkProduct, Latest
  <2>5. CASE q = p
    <3>1. OpenRequests(q)' = {new} /\ status'[q] = "in_review"
      BY <1>6, <2>3, <2>5 DEF SubmitWorkProduct, Transition, TypeOK
    <3>. QED
      BY <2>1, <2>2, <2>4, <2>5, <3>1 DEF ReviewInOrder
  <2>6. CASE q # p
    <3>1. status'[q] = status[q]
      BY <1>6, <2>6 DEF SubmitWorkProduct, Transition, TypeOK
    <3>. QED
      BY <2>3, <2>4, <2>6, <3>1, <1>a, ReviewKept
  <2>. QED
    BY <2>5, <2>6
<1>7. ASSUME NEW c \in Call, NEW r \in DOMAIN requests, RecordReview(c, r)
      PROVE  ReviewInOrder(q)'
  BY <1>7, <1>a, <1>b, ReviewKept DEF RecordReview, products, Latest
<1>f. ASSUME NEW c \in Call, NEW r \in DOMAIN requests, Sign(c, r),
             NEW s \in RequestStatus \ {"open"}, CloseRequest(r, s),
             NEW t \in Status \ {"in_review"}, Transition(call[c].wp, t),
             UNCHANGED <<kind, revisions, effective>>
      PROVE  ReviewInOrder(q)'
  <2>1. /\ call[c].wp \in WorkProduct
        /\ status[call[c].wp] = "in_review"
        /\ requests[r].wp = call[c].wp
        /\ requests[r].status = "open"
        /\ r \in OpenRequests(call[c].wp)
    BY <1>f, CallFields DEF Sign, MaySign, OpenRequests, DecideCall
  <2>2. OpenRequests(q)' = OpenRequests(q) \ {r}
    BY <1>e, <1>f, <2>1
  <2>3. CASE q = call[c].wp
    <3>1. OpenRequests(q) = {r}
      BY <2>1, <2>3 DEF ReviewMatchesStatus
    <3>2. status'[q] = t
      BY <1>f, <2>3 DEF Transition, TypeOK
    <3>. QED
      BY <1>c, <2>2, <3>1, <3>2
  <2>4. CASE q # call[c].wp
    <3>1. r \notin OpenRequests(q)
      BY <2>1, <2>4 DEF OpenRequests
    <3>2. status'[q] = status[q] /\ kind' = kind /\ Latest(q)' = Latest(q)
      BY <1>f, <2>4 DEF Transition, TypeOK, Latest
    <3>3. OpenRequests(q)' = OpenRequests(q)
      BY <2>2, <3>1
    <3>. QED
      BY <3>2, <3>3, <1>a, ReviewKept
  <2>. QED
    BY <2>3, <2>4
<1>8. ASSUME NEW c \in Call, NEW r \in DOMAIN requests, RecordApproval(c, r)
      PROVE  ReviewInOrder(q)'
  BY <1>8, <1>f DEF RecordApproval, RequestStatus, Status
<1>9. ASSUME NEW c \in Call, NEW r \in DOMAIN requests, RecordRequestChanges(c, r)
      PROVE  ReviewInOrder(q)'
  BY <1>9, <1>f DEF RecordRequestChanges, RequestStatus, Status
<1>10. ASSUME NEW c \in Call, NEW p \in WorkProduct, NEW n \in 1..Latest(p), ApplyPlan(c, p, n)
       PROVE  ReviewInOrder(q)'
  BY <1>10, <1>a, <1>b, ReviewKept DEF ApplyPlan, Latest
<1>. QED
  BY <1>1, <1>2, <1>3, <1>4, <1>5, <1>6, <1>7, <1>8, <1>9, <1>10, StepCases

\* The decisions of the step before are in order after it as well.
LEMMA OldDecisions ==
  ASSUME TypeOK, TypeOK', RowsWellFormed, SignersAssigned, ApprovalsClose, EvidenceKept,
         NEW d \in decisions
  PROVE  /\ \E role \in RequiredAssignment(d.kind) :
               <<d.by, role>> \in requests'[d.request].assigned
         /\ d.by # revisions'[requests'[d.request].wp][requests'[d.request].revision].by
         /\ d.kind = "approval" =>
              /\ requests'[d.request].status = "approved"
              /\ \E e \in decisions' : e.request = d.request /\ e.kind = "review"
<1>1. d.request \in DOMAIN requests
  BY DEF TypeOK
<1>2. /\ requests'[d.request].wp = requests[d.request].wp
      /\ requests'[d.request].revision = requests[d.request].revision
      /\ requests'[d.request].assigned = requests[d.request].assigned
      /\ requests[d.request].status # "open" =>
           requests'[d.request].status = requests[d.request].status
  BY <1>1, RequestsKept
<1>3. requests[d.request].wp \in WorkProduct
  BY <1>1, RequestFields DEF Request
<1>4. requests[d.request].revision \in 1..Latest(requests[d.request].wp)
  BY <1>1 DEF RowsWellFormed, RequestsOnRevisions
<1>5. revisions'[requests[d.request].wp][requests[d.request].revision]
        = revisions[requests[d.request].wp][requests[d.request].revision]
  BY <1>3, <1>4, RevisionsKept
<1>6. d.kind = "approval" =>
        /\ requests'[d.request].status = "approved"
        /\ \E e \in decisions' : e.request = d.request /\ e.kind = "review"
  BY <1>2 DEF ApprovalsClose, EvidenceKept
<1>. QED
  BY <1>2, <1>5, <1>6 DEF SignersAssigned

\* A signature passes every check, and old signatures stay in order.
LEMMA SignStep ==
  ASSUME TypeOK, TypeOK', RowsWellFormed, SignersAssigned, ApprovalsClose, KeySignsOnce,
         [Next]_vars
  PROVE  SignersAssigned' /\ ApprovalsClose' /\ KeySignsOnce'
<1>a. EvidenceKept
  BY EvidenceStep
<1>1. CASE decisions' = decisions
  <2>1. SignersAssigned'
    BY <1>1, <1>a, OldDecisions DEF SignersAssigned
  <2>2. ApprovalsClose'
    BY <1>1, <1>a, OldDecisions DEF ApprovalsClose
  <2>. QED
    BY <1>1, <2>1, <2>2 DEF KeySignsOnce
<1>2. ASSUME NEW c \in Call, NEW r \in DOMAIN requests, Sign(c, r),
             requests'[r].status = "approved" \/ call[c].kind # "approval"
      PROVE  SignersAssigned' /\ ApprovalsClose' /\ KeySignsOnce'
  <2>. DEFINE new == [request |-> r, by |-> call[c].by, kind |-> call[c].kind,
                      key |-> call[c].key]
  <2>1. /\ \E role \in RequiredAssignment(new.kind) : <<new.by, role>> \in requests[r].assigned
        /\ requests[r].wp = call[c].wp
        /\ new.by # revisions[requests[r].wp][requests[r].revision].by
        /\ new.kind = "approval" => \E e \in decisions : e.request = r /\ e.kind = "review"
        /\ new.key = NoKey \/ \A d \in decisions : d.key # new.key
    BY <1>2 DEF Sign, MaySign, OpenRequests, QuorumMet, KeyUnused
  <2>2. decisions' = decisions \cup {new}
    BY <1>2 DEF Sign
  <2>3. requests'[r].wp = requests[r].wp /\ requests'[r].revision = requests[r].revision
        /\ requests'[r].assigned = requests[r].assigned
    BY <1>a, RequestsKept
  <2>4. requests[r].wp \in WorkProduct
    BY RequestFields DEF Request
  <2>5. requests[r].revision \in 1..Latest(requests[r].wp)
    BY DEF RowsWellFormed, RequestsOnRevisions
  <2>6. revisions'[requests[r].wp][requests[r].revision]
          = revisions[requests[r].wp][requests[r].revision]
    BY <1>a, <2>4, <2>5, RevisionsKept
  <2>7. new.request = r /\ new.kind = call[c].kind
    OBVIOUS
  <2>8. /\ \E role \in RequiredAssignment(new.kind) :
               <<new.by, role>> \in requests'[new.request].assigned
        /\ new.by # revisions'[requests'[new.request].wp][requests'[new.request].revision].by
        /\ new.kind = "approval" =>
             /\ requests'[new.request].status = "approved"
             /\ \E e \in decisions' : e.request = new.request /\ e.kind = "review"
    BY <1>2, <2>1, <2>2, <2>3, <2>6, <2>7
  <2>. HIDE DEF new
  <2>9. SignersAssigned'
    BY <1>a, <2>2, <2>8, OldDecisions DEF SignersAssigned
  <2>10. ApprovalsClose'
    BY <1>a, <2>2, <2>8, OldDecisions DEF ApprovalsClose
  <2>11. KeySignsOnce'
    BY <2>1, <2>2 DEF KeySignsOnce
  <2>. QED
    BY <2>9, <2>10, <2>11
<1>3. ASSUME NEW c \in Call, NEW r \in DOMAIN requests, RecordReview(c, r)
      PROVE  SignersAssigned' /\ ApprovalsClose' /\ KeySignsOnce'
  BY <1>3, <1>2 DEF RecordReview
<1>4. ASSUME NEW c \in Call, NEW r \in DOMAIN requests, RecordApproval(c, r)
      PROVE  SignersAssigned' /\ ApprovalsClose' /\ KeySignsOnce'
  <2>1. requests'[r].status = "approved"
    BY <1>4, CloseEffect DEF RecordApproval, Sign, MaySign, OpenRequests, RequestStatus
  <2>. QED
    BY <1>4, <1>2, <2>1 DEF RecordApproval
<1>5. ASSUME NEW c \in Call, NEW r \in DOMAIN requests, RecordRequestChanges(c, r)
      PROVE  SignersAssigned' /\ ApprovalsClose' /\ KeySignsOnce'
  BY <1>5, <1>2 DEF RecordRequestChanges
<1>. QED
  BY <1>1, <1>3, <1>4, <1>5, StepCases
  DEF CallMoves, Create, Revise, ReviseSpecification, RetireWorkProduct, SubmitWorkProduct,
      ApplyPlan

\* The approval that ends a review completes the quorum of the latest revision.
LEMMA ApprovedStep ==
  ASSUME RInv, TypeOK', SignersAssigned', ApprovalsClose', [Next]_vars
  PROVE  ApprovedByQuorum'
<1>. SUFFICES ASSUME NEW q \in WorkProduct, status'[q] = "approved",
                     kind'[q] # "specification"
              PROVE  HasQuorum(q, Latest(q))'
  BY DEF ApprovedByQuorum
<1>a. EvidenceKept /\ TypeOK /\ RowsWellFormed
  BY EvidenceStep DEF RInv
<1>b. ASSUME status[q] = "approved", kind[q] = kind'[q], Latest(q)' = Latest(q)
      PROVE  HasQuorum(q, Latest(q))'
  <2>1. HasQuorum(q, Latest(q))
    BY <1>b DEF RInv, ApprovedByQuorum
  <2>2. PICK n : n = Latest(q)
    OBVIOUS
  <2>3. HasQuorum(q, n)'
    BY <1>a, <2>1, <2>2, QuorumKept
  <2>. QED
    BY <1>b, <2>2, <2>3
<1>1. CASE CallMoves
  BY <1>1, <1>b DEF CallMoves, products, Latest
<1>2. ASSUME NEW u \in Editor, NEW p \in WorkProduct, NEW k \in Kind, Create(u, p, k)
      PROVE  HasQuorum(q, Latest(q))'
  BY <1>2, <1>a, <1>b DEF Create, TypeOK, Latest
<1>3. ASSUME NEW c \in Call, NEW u \in Editor, NEW p \in WorkProduct, NEW m \in BOOLEAN,
             Revise(c, u, p, m)
      PROVE  HasQuorum(q, Latest(q))'
  <2>1. q # p /\ status'[q] = status[q] /\ kind' = kind
    BY <1>3, <1>a DEF Revise, Transition, TypeOK
  <2>2. Latest(q)' = Latest(q)
    BY <1>3, <1>a, <2>1, PeopleAssumption, RevisionEffect DEF Revise, Revision
  <2>. QED
    BY <1>b, <2>1, <2>2
<1>4. ASSUME NEW c \in Call, NEW u \in Editor, NEW p \in WorkProduct,
             ReviseSpecification(c, u, p)
      PROVE  HasQuorum(q, Latest(q))'
  <2>1. q # p /\ status' = status /\ kind' = kind
    BY <1>4 DEF ReviseSpecification
  <2>2. Latest(q)' = Latest(q)
    BY <1>4, <1>a, <2>1, PeopleAssumption, RevisionEffect DEF ReviseSpecification, Revision
  <2>. QED
    BY <1>b, <2>1, <2>2
<1>5. ASSUME NEW c \in Call, NEW p \in WorkProduct, RetireWorkProduct(c, p)
      PROVE  HasQuorum(q, Latest(q))'
  BY <1>5, <1>a, <1>b DEF RetireWorkProduct, Transition, TypeOK, Latest
<1>6. ASSUME NEW p \in WorkProduct, NEW a \in SUBSET Candidate, SubmitWorkProduct(p, a)
      PROVE  HasQuorum(q, Latest(q))'
  BY <1>6, <1>a, <1>b DEF SubmitWorkProduct, Transition, TypeOK, Latest
<1>7. ASSUME NEW c \in Call, NEW r \in DOMAIN requests, RecordReview(c, r)
      PROVE  HasQuorum(q, Latest(q))'
  BY <1>7, <1>b DEF RecordReview, products, Latest
<1>8. ASSUME NEW c \in Call, NEW r \in DOMAIN requests, RecordApproval(c, r)
      PROVE  HasQuorum(q, Latest(q))'
  <2>1. /\ Sign(c, r) /\ call[c].kind = "approval" /\ kind' = kind
        /\ revisions' = revisions /\ Latest(q)' = Latest(q)
    BY <1>8 DEF RecordApproval, Latest
  <2>2. CASE q = call[c].wp
    <3>1. r \in OpenRequests(q)
      BY <2>1, <2>2 DEF Sign, MaySign
    <3>2. requests[r].wp = q /\ requests[r].revision = Latest(q)
      BY <2>1, <3>1 DEF OpenRequests, RInv, ReviewMatchesStatus
    <3>3. requests'[r].wp = q /\ requests'[r].revision = Latest(q)'
      BY <1>a, <2>1, <3>2, RequestsKept
    <3>4. PICK d \in decisions' : d.request = r /\ d.kind = "approval"
      <4>1. [request |-> r, by |-> call[c].by, kind |-> call[c].kind, key |-> call[c].key]
              \in decisions'
        BY <2>1 DEF Sign
      <4>. QED
        BY <2>1, <4>1
    <3>5. PICK n : n = Latest(q)'
      OBVIOUS
    <3>6. HasQuorum(q, n)'
      BY <3>3, <3>4, <3>5, QuorumOfApprovalNext
    <3>. QED
      BY <3>5, <3>6
  <2>3. CASE q # call[c].wp
    <3>1. status'[q] = status[q]
      BY <1>8, <1>a, <2>3 DEF RecordApproval, Transition, TypeOK
    <3>. QED
      BY <1>b, <2>1, <3>1
  <2>. QED
    BY <2>2, <2>3
<1>9. ASSUME NEW c \in Call, NEW r \in DOMAIN requests, RecordRequestChanges(c, r)
      PROVE  HasQuorum(q, Latest(q))'
  BY <1>9, <1>a, <1>b DEF RecordRequestChanges, Transition, TypeOK, Latest
<1>10. ASSUME NEW c \in Call, NEW p \in WorkProduct, NEW n \in 1..Latest(p), ApplyPlan(c, p, n)
       PROVE  HasQuorum(q, Latest(q))'
  BY <1>10, <1>b DEF ApplyPlan, Latest
<1>. QED
  BY <1>1, <1>2, <1>3, <1>4, <1>5, <1>6, <1>7, <1>8, <1>9, <1>10, StepCases

\* A plan revision comes into force with an approval, and keeps its quorum.
LEMMA EffectiveStep ==
  ASSUME RInv, TypeOK', [Next]_vars
  PROVE  EffectivePlanApproved'
<1>. SUFFICES ASSUME NEW q \in WorkProduct, effective'[q] # 0
              PROVE  HasQuorum(q, effective[q])'
  BY DEF EffectivePlanApproved
<1>a. EvidenceKept /\ TypeOK /\ RowsWellFormed
  BY EvidenceStep DEF RInv
<1>b. ASSUME effective'[q] = effective[q]
      PROVE  HasQuorum(q, effective[q])'
  <2>1. PICK n : n = effective[q]
    OBVIOUS
  <2>2. HasQuorum(q, n)
    BY <1>b, <2>1 DEF RInv, EffectivePlanApproved
  <2>3. HasQuorum(q, n)'
    BY <1>a, <2>2, QuorumKept
  <2>. QED
    BY <1>b, <2>1, <2>3
<1>1. CASE effective' = effective
  BY <1>1, <1>b
<1>2. ASSUME NEW c \in Call, NEW p \in WorkProduct, NEW n \in 1..Latest(p), ApplyPlan(c, p, n)
      PROVE  HasQuorum(q, effective[q])'
  <2>1. CASE q = p /\ effective'[q] # effective[q]
    <3>1. effective'[q] = n
      BY <1>2, <1>a, <2>1 DEF ApplyPlan, TypeOK
    <3>2. PICK d \in decisions : /\ requests[d.request].wp = q
                                 /\ requests[d.request].revision = n
                                 /\ d.kind = "approval"
      BY <1>2, <2>1 DEF ApplyPlan, PlanRevisionApproved
    <3>3. HasQuorum(q, n)
      BY <3>2, QuorumOfApproval DEF RInv
    <3>4. HasQuorum(q, n)'
      BY <1>a, <3>3, QuorumKept
    <3>. QED
      BY <3>1, <3>4
  <2>2. CASE q # p
    BY <1>2, <1>a, <1>b, <2>2 DEF ApplyPlan, TypeOK
  <2>. QED
    BY <1>b, <2>1, <2>2
<1>. QED
  BY <1>1, <1>2, StepCases
  DEF CallMoves, products, Create, Revise, ReviseSpecification, RetireWorkProduct,
      SubmitWorkProduct, RecordReview, RecordApproval, RecordRequestChanges

\* Every step keeps the invariant.
LEMMA RInvStep == RInv /\ [Next]_vars => RInv'
<1>. SUFFICES ASSUME RInv, [Next]_vars
              PROVE  RInv'
  OBVIOUS
<1>1. TypeOK /\ RowsWellFormed /\ EditsOnRows /\ ReviewMatchesStatus /\ SignersAssigned
      /\ ApprovalsClose /\ KeySignsOnce
  BY DEF RInv
<1>2. TypeOK'
  BY <1>1, TypeStep
<1>3. RowsWellFormed' /\ EditsOnRows' /\ ReviewMatchesStatus'
  BY <1>1, <1>2, RowsStep, EditsStep, ReviewStep
<1>4. SignersAssigned' /\ ApprovalsClose' /\ KeySignsOnce'
  BY <1>1, <1>2, SignStep
<1>5. ApprovedByQuorum' /\ EffectivePlanApproved'
  BY <1>2, <1>4, ApprovedStep, EffectiveStep
<1>. QED
  BY <1>2, <1>3, <1>4, <1>5 DEF RInv

-----------------------------------------------------------------------------
(* The theorems.                                                           *)

\* The invariant holds in every reachable state.
LEMMA Invariance == Spec => []RInv
  BY RInvInit, RInvStep, PTL DEF Spec

\* A work product is in review exactly while one request on it is open, on its
\* latest revision unless it is a specification.
THEOREM ReviewMatches == Spec => []ReviewMatchesStatus
<1>1. RInv => ReviewMatchesStatus
  BY DEF RInv
<1>. QED
  BY <1>1, Invariance, PTL

\* An approved work product that is not a specification has the quorum of a
\* review and an approval by assigned persons other than its author.
THEOREM ApprovedHasQuorum == Spec => []ApprovedByQuorum
<1>1. RInv => ApprovedByQuorum
  BY DEF RInv
<1>. QED
  BY <1>1, Invariance, PTL

\* The plan revision in force has the quorum, however many revisions follow.
THEOREM EffectivePlanHasQuorum == Spec => []EffectivePlanApproved
<1>1. RInv => EffectivePlanApproved
  BY DEF RInv
<1>. QED
  BY <1>1, Invariance, PTL

\* One operation key signs at most once, whatever is repeated and when.
THEOREM KeySignsAtMostOnce == Spec => []KeySignsOnce
<1>1. RInv => KeySignsOnce
  BY DEF RInv
<1>. QED
  BY <1>1, Invariance, PTL

\* No revision, decision or closed request ever changes or goes away.
THEOREM EvidencePermanent == Spec => EvidenceStands
<1>1. RInv /\ [Next]_vars => EvidenceKept
  BY EvidenceStep DEF RInv
<1>2. RInv /\ [Next]_vars => [EvidenceKept]_vars
  BY <1>1
<1>. QED
  BY <1>2, Invariance, PTL DEF Spec, EvidenceStands

-----------------------------------------------------------------------------
(* No update is lost.                                                      *)

\* A version that still stands still shows what its reader saw.
VersionsSeen ==
    \A c \in Call : call[c].op = "edit" =>
      /\ call[c].version <= rowVersion[call[c].wp]
      /\ call[c].version = rowVersion[call[c].wp] => call[c].seen = View(call[c].wp)

\* Whatever changes what a client sees of an existing row counts its version up.
LEMMA VersionCounts ==
  ASSUME TypeOK, [Next]_vars, NEW q \in WorkProduct, status[q] # "absent"
  PROVE  \/ rowVersion'[q] = rowVersion[q] /\ View(q)' = View(q)
         \/ rowVersion'[q] = rowVersion[q] + 1
<1>a. ASSUME NEW p \in WorkProduct, NEW s, Transition(p, s), effective' = effective,
             q # p => revisions'[q] = revisions[q]
      PROVE  \/ rowVersion'[q] = rowVersion[q] /\ View(q)' = View(q)
             \/ rowVersion'[q] = rowVersion[q] + 1
  BY <1>a DEF Transition, TypeOK, View, Latest
<1>b. \A c \in Call : call[c].op = "decide" => call[c].wp \in WorkProduct
  BY CallFields DEF DecideCall
<1>1. CASE CallMoves
  BY <1>1 DEF CallMoves, products, View, Latest
<1>2. ASSUME NEW u \in Editor, NEW p \in WorkProduct, NEW k \in Kind, Create(u, p, k)
      PROVE  rowVersion'[q] = rowVersion[q] /\ View(q)' = View(q)
  <2>1. q # p
    BY <1>2 DEF Create
  <2>. QED
    BY <1>2, <2>1 DEF Create, TypeOK, View, Latest
<1>3. ASSUME NEW c \in Call, NEW u \in Editor, NEW p \in WorkProduct, NEW m \in BOOLEAN,
             Revise(c, u, p, m)
      PROVE  \/ rowVersion'[q] = rowVersion[q] /\ View(q)' = View(q)
             \/ rowVersion'[q] = rowVersion[q] + 1
  BY <1>3, <1>a DEF Revise, AddRevision, TypeOK
<1>4. ASSUME NEW c \in Call, NEW u \in Editor, NEW p \in WorkProduct,
             ReviseSpecification(c, u, p)
      PROVE  \/ rowVersion'[q] = rowVersion[q] /\ View(q)' = View(q)
             \/ rowVersion'[q] = rowVersion[q] + 1
  BY <1>4 DEF ReviseSpecification, AddRevision, TypeOK, View, Latest
<1>5. ASSUME NEW c \in Call, NEW p \in WorkProduct, RetireWorkProduct(c, p)
      PROVE  \/ rowVersion'[q] = rowVersion[q] /\ View(q)' = View(q)
             \/ rowVersion'[q] = rowVersion[q] + 1
  BY <1>5, <1>a DEF RetireWorkProduct
<1>6. ASSUME NEW p \in WorkProduct, NEW a \in SUBSET Candidate, SubmitWorkProduct(p, a)
      PROVE  \/ rowVersion'[q] = rowVersion[q] /\ View(q)' = View(q)
             \/ rowVersion'[q] = rowVersion[q] + 1
  BY <1>6, <1>a DEF SubmitWorkProduct
<1>7. ASSUME NEW c \in Call, NEW r \in DOMAIN requests, RecordReview(c, r)
      PROVE  rowVersion'[q] = rowVersion[q] /\ View(q)' = View(q)
  BY <1>7 DEF RecordReview, products, View, Latest
<1>8. ASSUME NEW c \in Call, NEW r \in DOMAIN requests,
             RecordApproval(c, r) \/ RecordRequestChanges(c, r)
      PROVE  \/ rowVersion'[q] = rowVersion[q] /\ View(q)' = View(q)
             \/ rowVersion'[q] = rowVersion[q] + 1
  BY <1>8, <1>a, <1>b DEF RecordApproval, RecordRequestChanges, Sign
<1>9. ASSUME NEW c \in Call, NEW p \in WorkProduct, NEW n \in 1..Latest(p), ApplyPlan(c, p, n)
      PROVE  \/ rowVersion'[q] = rowVersion[q] /\ View(q)' = View(q)
             \/ rowVersion'[q] = rowVersion[q] + 1
  <2>1. status' = status /\ revisions' = revisions
    BY <1>9 DEF ApplyPlan
  <2>2. CASE UNCHANGED <<effective, rowVersion>>
    BY <2>1, <2>2 DEF View, Latest
  <2>3. CASE /\ effective' = [effective EXCEPT ![p] = n]
             /\ rowVersion' = [rowVersion EXCEPT ![p] = @ + 1]
    BY <2>1, <2>3 DEF View, Latest, TypeOK
  <2>. QED
    BY <1>9, <2>2, <2>3 DEF ApplyPlan
<1>. QED
  BY <1>1, <1>2, <1>3, <1>4, <1>5, <1>6, <1>7, <1>8, <1>9, StepCases

\* A version in flight stays behind its row or shows what was read.
LEMMA VersionsStep ==
  ASSUME TypeOK, EditsOnRows, VersionsSeen, [Next]_vars
  PROVE  VersionsSeen'
<1>. SUFFICES ASSUME NEW c \in Call, call'[c].op = "edit"
              PROVE  /\ call'[c].version <= rowVersion'[call'[c].wp]
                     /\ call'[c].version = rowVersion'[call'[c].wp]
                          => call'[c].seen = <<status'[call'[c].wp],
                                Len(revisions'[call'[c].wp]), effective'[call'[c].wp]>>
  BY DEF VersionsSeen, View, Latest
<1>1. CASE call'[c] = call[c]
  <2>1. PICK p : p = call[c].wp
    OBVIOUS
  <2>2. /\ call[c].op = "edit" /\ call[c] \in EditCall
        /\ p \in WorkProduct /\ call[c].version \in Nat
    BY <1>1, <2>1, CallFields DEF EditCall
  <2>3. rowVersion[p] \in Nat
    BY <2>2 DEF TypeOK
  <2>4. \/ rowVersion'[p] = rowVersion[p] /\ View(p)' = View(p)
        \/ rowVersion'[p] = rowVersion[p] + 1
    BY <2>1, <2>2, VersionCounts DEF EditsOnRows
  <2>5. /\ call[c].version <= rowVersion[p]
        /\ call[c].version = rowVersion[p] => call[c].seen = View(p)
    BY <2>1, <2>2 DEF VersionsSeen
  <2>6. /\ call[c].version <= rowVersion'[p]
        /\ call[c].version = rowVersion'[p] => call[c].seen = View(p)'
    BY <2>2, <2>3, <2>4, <2>5
  <2>. QED
    BY <1>1, <2>1, <2>6 DEF View, Latest
<1>2. ASSUME NEW p \in WorkProduct, Read(c, p)
      PROVE  /\ call'[c].version <= rowVersion'[call'[c].wp]
             /\ call'[c].version = rowVersion'[call'[c].wp]
                  => call'[c].seen = <<status'[call'[c].wp],
                        Len(revisions'[call'[c].wp]), effective'[call'[c].wp]>>
  <2>1. call'[c] = [op |-> "edit", wp |-> p, version |-> rowVersion[p], seen |-> View(p)]
    BY <1>2 DEF Read, Answer, TypeOK
  <2>2. rowVersion[p] \in Nat
    BY DEF TypeOK
  <2>. QED
    BY <1>2, <2>1, <2>2 DEF Read, products, View, Latest
<1>. QED
  BY <1>1, <1>2, EditCalls

\* The only step of an editing call that changes a row is the edit it was sent for.
LEMMA EditingStep ==
  ASSUME TypeOK, Next, NEW c \in Call, call[c].op = "edit", call'[c] # call[c],
         products' # products
  PROVE  \E p \in WorkProduct : VersionStands(c, p)
<1>1. ASSUME NEW b \in Call, NEW a, Answer(b, a)
      PROVE  b = c
  BY <1>1 DEF Answer, TypeOK
<1>2. ASSUME NEW b \in Call, NEW p \in WorkProduct, Edit(b, p)
      PROVE  VersionStands(c, p)
  <2>1. VersionStands(b, p) /\ Answer(b, Idle)
    BY <1>2 DEF Edit, ReviseWorkProduct, RevisePlan, Revise, ReviseSpecification,
       RetireWorkProduct, ApplyPlan
  <2>. QED
    BY <2>1, <1>1
<1>3. ASSUME NEW b \in Call, Decide(b)
      PROVE  FALSE
  <2>1. ASSUME NEW r \in DOMAIN requests,
               RecordReview(b, r) \/ RecordApproval(b, r) \/ RecordRequestChanges(b, r)
        PROVE  FALSE
    BY <2>1, <1>1 DEF RecordReview, RecordApproval, RecordRequestChanges, Sign
  <2>. QED
    BY <1>3, <2>1 DEF Decide, LookUpOperationKey, DecisionRefused
<1>. QED
  BY <1>2, <1>3
  DEF Next, CreateWorkProduct, CreateSpecification, CreateWithPlan, Create, Read,
      EditRefused, SubmitWorkProduct, RequestDecision

\* An edit changes only what its sender had read.
THEOREM NoUpdateLost == Spec => NoLostUpdate
<1>. DEFINE Changes(c) == call[c].op = "edit" /\ products' # products /\ call'[c] # call[c]
            Seen == \A c \in Call : Changes(c) => call[c].seen = View(call[c].wp)
<1>1. Init => VersionsSeen
  BY DEF Init, VersionsSeen, Idle
<1>2. RInv /\ VersionsSeen /\ [Next]_vars => VersionsSeen'
  BY VersionsStep DEF RInv
<1>3. RInv /\ VersionsSeen /\ [Next]_vars => [Seen]_vars
  <2>. SUFFICES ASSUME RInv, VersionsSeen, Next, NEW c \in Call, Changes(c)
                PROVE  call[c].seen = View(call[c].wp)
    OBVIOUS
  <2>1. PICK p \in WorkProduct : VersionStands(c, p)
    BY EditingStep DEF RInv
  <2>. QED
    BY <2>1 DEF VersionStands, VersionsSeen
<1>4. NoLostUpdate <=> [][Seen]_vars
  BY DEF NoLostUpdate
<1>. QED
  BY <1>1, <1>2, <1>3, <1>4, Invariance, PTL DEF Spec

-----------------------------------------------------------------------------
(* The review implements independent approval.                             *)

\* The initial states map to the initial state.
LEMMA RefinementInit == Init => IA!Init
<1>1. ASSUME Init, NEW p \in WorkProduct
      PROVE  AuthorsOf(p) = <<>> /\ StandingOf(p) = 0
  <2>1. Latest(p) = 0 /\ revisions[p] = <<>> /\ status[p] = "absent"
    BY <1>1 DEF Init, Latest
  <2>. QED
    BY <2>1 DEF AuthorsOf, StandingOf
<1>2. ASSUME Init, NEW k
      PROVE  SignaturesOf(k) = {}
  BY <1>2 DEF Init, SignaturesOf, Counted
<1>. QED
  BY <1>1, <1>2 DEF IA!Init, Init

\* The authors of a row are the authors of its revisions, one by one.
LEMMA AuthorsType ==
  ASSUME TypeOK, NEW p \in WorkProduct, Promised(p)
  PROVE  /\ AuthorsOf(p) \in Seq(Person)
         /\ Len(AuthorsOf(p)) = Latest(p)
         /\ \A i \in 1..Latest(p) : AuthorsOf(p)[i] = revisions[p][i].by
<1>1. Latest(p) \in Nat /\ \A i \in 1..Latest(p) : revisions[p][i] \in Revision
  BY DEF TypeOK, Latest
<1>2. AuthorsOf(p) = [i \in 1..Latest(p) |-> revisions[p][i].by]
  BY DEF AuthorsOf
<1>3. \A i \in 1..Latest(p) : revisions[p][i].by \in Person
  BY <1>1 DEF Revision
<1>. QED
  BY <1>1, <1>2, <1>3

\* A row without a revision has no author, whatever its kind.
LEMMA NoAuthors ==
  ASSUME NEW p, revisions[p] = <<>>
  PROVE  AuthorsOf(p) = <<>>
<1>1. Latest(p) = 0
  BY DEF Latest
<1>. QED
  BY <1>1 DEF AuthorsOf

\* A new revision adds its author behind the others.
LEMMA AuthorsAppended ==
  ASSUME TypeOK, TypeOK', NEW p \in WorkProduct, NEW u \in Person, NEW m \in BOOLEAN,
         AddRevision(p, [by |-> u, manifest |-> m]), Promised(p), Promised(p)'
  PROVE  AuthorsOf(p)' = Append(AuthorsOf(p), u)
<1>. DEFINE x == [by |-> u, manifest |-> m]
            new == Append(AuthorsOf(p), u)
<1>1. x \in Revision /\ x.by = u
  BY DEF Revision
<1>2. /\ revisions[p] \in Seq(Revision) /\ Latest(p) \in Nat
      /\ revisions'[p] = Append(revisions[p], x)
  BY <1>1 DEF TypeOK, Latest, AddRevision
<1>3. /\ Latest(p)' = Latest(p) + 1
      /\ \A i \in 1..Latest(p) : revisions'[p][i] = revisions[p][i]
      /\ revisions'[p][Latest(p) + 1] = x
  BY <1>1, <1>2, AppendType DEF Latest
<1>4. /\ AuthorsOf(p)' \in Seq(Person)
      /\ Len(AuthorsOf(p)') = Latest(p)'
      /\ \A i \in 1..Latest(p)' : AuthorsOf(p)'[i] = revisions'[p][i].by
  <2>1. /\ Latest(p)' \in Nat
        /\ \A i \in 1..Latest(p)' : revisions'[p][i] \in Revision
    BY DEF TypeOK, Latest
  <2>2. AuthorsOf(p)' = [i \in 1..Latest(p)' |-> revisions'[p][i].by]
    BY DEF AuthorsOf
  <2>3. \A i \in 1..Latest(p)' : revisions'[p][i].by \in Person
    BY <2>1 DEF Revision
  <2>. QED
    BY <2>1, <2>2, <2>3
<1>5. /\ AuthorsOf(p) \in Seq(Person)
      /\ Len(AuthorsOf(p)) = Latest(p)
      /\ \A i \in 1..Latest(p) : AuthorsOf(p)[i] = revisions[p][i].by
  BY AuthorsType
<1>6. /\ new \in Seq(Person) /\ Len(new) = Latest(p) + 1
      /\ \A i \in 1..Latest(p) : new[i] = AuthorsOf(p)[i]
      /\ new[Latest(p) + 1] = u
  BY <1>5, AppendType
<1>7. ASSUME NEW i \in 1..Len(new)
      PROVE  AuthorsOf(p)'[i] = new[i]
  <2>1. i \in 1..Latest(p) \/ i = Latest(p) + 1
    BY <1>2, <1>6
  <2>2. i \in 1..Latest(p)'
    BY <1>3, <1>6
  <2>. QED
    BY <1>1, <1>3, <1>4, <1>5, <1>6, <2>1, <2>2
<1>. HIDE DEF new
<1>. QED
  BY <1>3, <1>4, <1>6, <1>7, SeqEqual DEF new

\* A row that keeps its revisions and its kind keeps its authors.
LEMMA AuthorsKept ==
  ASSUME NEW p, revisions'[p] = revisions[p], kind'[p] = kind[p]
  PROVE  AuthorsOf(p)' = AuthorsOf(p)
  BY DEF AuthorsOf, Promised, Latest

\* Signatures change only with the decisions and the kind of their rows.
LEMMA SignaturesKept ==
  ASSUME TypeOK, EvidenceKept, NEW k,
         \A d \in decisions' : d.kind = k /\ d \notin decisions
                                => ~Promised(requests[d.request].wp),
         \A d \in decisions' : d.request \in DOMAIN requests,
         \A d \in decisions' : Promised(requests[d.request].wp)'
                                 <=> Promised(requests[d.request].wp)
  PROVE  SignaturesOf(k)' = SignaturesOf(k)
<1>1. decisions \subseteq decisions'
  BY DEF EvidenceKept
<1>2. Counted(k)' = Counted(k)
  BY <1>1 DEF Counted
<1>3. \A d \in Counted(k) : Signature(d)' = Signature(d)
  BY <1>1, RequestsKept DEF Counted, Signature
<1>. QED
  BY <1>2, <1>3 DEF SignaturesOf

\* A new decision on a row that counts adds its signature.
LEMMA SignaturesAdded ==
  ASSUME TypeOK, EvidenceKept, NEW k, NEW e, e.kind = k, e.request \in DOMAIN requests,
         decisions' = decisions \cup {e}, UNCHANGED kind,
         Promised(requests[e.request].wp)
  PROVE  SignaturesOf(k)' = SignaturesOf(k) \cup {Signature(e)}
<1>1. ASSUME NEW d \in decisions'
      PROVE  /\ Promised(requests[d.request].wp)' <=> Promised(requests[d.request].wp)
             /\ Signature(d)' = Signature(d)
  <2>1. d.request \in DOMAIN requests
    BY DEF TypeOK
  <2>. QED
    BY <2>1, RequestsKept DEF Promised, Signature
<1>2. Counted(k)' = Counted(k) \cup {e}
  BY <1>1 DEF Counted
<1>3. \A d \in Counted(k)' : Signature(d)' = Signature(d)
  BY <1>1 DEF Counted
<1>. QED
  BY <1>2, <1>3 DEF SignaturesOf

\* What the abstract variables show of a state.
Shown == /\ \A k \in {"review", "approval"} : SignaturesOf(k)' = SignaturesOf(k)
         /\ UNCHANGED effective

\* A step that touches no signature and no standing stutters.
LEMMA Stutters ==
  ASSUME Shown, \A p \in WorkProduct : AuthorsOf(p)' = AuthorsOf(p),
         \A p \in WorkProduct : StandingOf(p)' = StandingOf(p)
  PROVE  UNCHANGED IA!vars
  BY DEF Shown, IA!vars

\* A revision of p by u that counts is a Write.
LEMMA WriteShown ==
  ASSUME Shown, NEW p \in WorkProduct, NEW u \in Person,
         AuthorsOf(p)' = Append(AuthorsOf(p), u), StandingOf(p)' = 0,
         \A q \in WorkProduct : q # p => /\ AuthorsOf(q)' = AuthorsOf(q)
                                       /\ StandingOf(q)' = StandingOf(q)
  PROVE  IA!Next
<1>1. IA!Write(u, p)
  BY DEF Shown, IA!Write
<1>. QED
  BY <1>1 DEF IA!Next

\* The same decisions, requests and kinds show the same signatures.
LEMMA SignaturesUnchanged ==
  ASSUME TypeOK, EvidenceKept, UNCHANGED <<kind, decisions>>, NEW k
  PROVE  SignaturesOf(k)' = SignaturesOf(k)
<1>1. \A d \in decisions : d.request \in DOMAIN requests
  BY DEF TypeOK
<1>. QED
  BY <1>1, RequestsKept, SignaturesKept DEF Promised

\* A new row has no request, so its kind is not asked for yet.
LEMMA CreateShown ==
  ASSUME TypeOK, TypeOK', RowsWellFormed, EvidenceKept, NEW u \in Editor,
         NEW p \in WorkProduct, NEW k \in Kind, Create(u, p, k)
  PROVE  [IA!Next]_IA!vars
<1>1. /\ revisions[p] = <<>> /\ status[p] = "absent" /\ kind'[p] = k
      /\ revisions'[p] = <<[by |-> u, manifest |-> k = "plan"]>> /\ status'[p] = "draft"
      /\ UNCHANGED <<effective, requests, decisions>>
      /\ \A q \in WorkProduct : q # p => /\ revisions'[q] = revisions[q]
                                       /\ kind'[q] = kind[q]
                                       /\ status'[q] = status[q]
  BY DEF Create, RowsWellFormed, TypeOK
<1>2. ASSUME NEW q \in WorkProduct, q # p
      PROVE  AuthorsOf(q)' = AuthorsOf(q) /\ StandingOf(q)' = StandingOf(q)
  BY <1>1, <1>2, AuthorsKept DEF StandingOf, Promised, Latest
<1>3. StandingOf(p)' = 0 /\ StandingOf(p) = 0
  BY <1>1 DEF StandingOf
<1>4. AuthorsOf(p) = <<>>
  BY <1>1, NoAuthors
<1>5. \A d \in decisions : /\ d.request \in DOMAIN requests
                          /\ requests[d.request].wp \in WorkProduct \ {p}
  <2>1. ASSUME NEW d \in decisions
        PROVE  /\ d.request \in DOMAIN requests
               /\ requests[d.request].wp \in WorkProduct \ {p}
    <3>1. d.request \in DOMAIN requests
      BY DEF TypeOK
    <3>2. /\ requests[d.request].wp \in WorkProduct
          /\ requests[d.request].revision \in 1..Latest(requests[d.request].wp)
      BY <3>1, RequestFields DEF Request, RowsWellFormed, RequestsOnRevisions
    <3>3. Latest(p) = 0
      BY <1>1 DEF Latest
    <3>. QED
      BY <3>1, <3>2, <3>3
  <2>. QED
    BY <2>1
<1>6. Shown
  BY <1>1, <1>5, SignaturesKept DEF Shown, Promised
<1>7. CASE k = "specification"
  <2>1. AuthorsOf(p)' = <<>>
    BY <1>1, <1>7 DEF AuthorsOf, Promised
  <2>. QED
    BY <1>2, <1>3, <1>4, <1>6, <2>1, Stutters
<1>8. CASE k # "specification"
  <2>1. Promised(p)' /\ Latest(p)' = 1 /\ revisions'[p][1].by = u
    BY <1>1, <1>8 DEF Promised, Latest
  <2>2. AuthorsOf(p)' = <<u>>
    BY <2>1 DEF AuthorsOf
  <2>3. AuthorsOf(p)' = Append(AuthorsOf(p), u)
    BY <1>4, <2>2
  <2>. QED
    BY <1>2, <1>3, <1>6, <2>3, PeopleAssumption, WriteShown
<1>. QED
  BY <1>7, <1>8

\* Of p and the others, an edit touches p alone.
LEMMA OthersShown ==
  ASSUME TypeOK, UNCHANGED kind, NEW p \in WorkProduct, NEW s, Transition(p, s),
         \A q \in WorkProduct : q # p => revisions'[q] = revisions[q]
  PROVE  /\ status'[p] = s
         /\ \A q \in WorkProduct : q # p => /\ AuthorsOf(q)' = AuthorsOf(q)
                                        /\ StandingOf(q)' = StandingOf(q)
<1>1. status'[p] = s /\ \A q \in WorkProduct : q # p => status'[q] = status[q]
  BY DEF Transition, TypeOK
<1>. QED
  BY <1>1, AuthorsKept DEF StandingOf, Promised, Latest

\* A revision is written, and the row stands no longer.
LEMMA ReviseShown ==
  ASSUME TypeOK, TypeOK', EvidenceKept, NEW c \in Call, NEW u \in Editor,
         NEW p \in WorkProduct, NEW m \in BOOLEAN, Revise(c, u, p, m)
  PROVE  [IA!Next]_IA!vars
<1>1. /\ AddRevision(p, [by |-> u, manifest |-> m]) /\ Transition(p, "draft")
      /\ UNCHANGED <<kind, effective, decisions>>
  BY DEF Revise
<1>2. u \in Person /\ [by |-> u, manifest |-> m] \in Revision
  BY PeopleAssumption DEF Revision
<1>3. \A q \in WorkProduct : q # p => revisions'[q] = revisions[q]
  BY <1>1, <1>2, RevisionType
<1>4. /\ status'[p] = "draft"
      /\ \A q \in WorkProduct : q # p => /\ AuthorsOf(q)' = AuthorsOf(q)
                                     /\ StandingOf(q)' = StandingOf(q)
  BY <1>1, <1>3, OthersShown
<1>5. Shown
  BY <1>1, SignaturesUnchanged DEF Shown
<1>6. StandingOf(p)' = 0
  BY <1>4 DEF StandingOf
<1>7. CASE Promised(p)
  <2>1. AuthorsOf(p)' = Append(AuthorsOf(p), u)
    BY <1>1, <1>2, <1>7, AuthorsAppended DEF Promised
  <2>. QED
    BY <1>2, <1>4, <1>5, <1>6, <2>1, WriteShown
<1>8. CASE ~Promised(p)
  <2>1. AuthorsOf(p)' = AuthorsOf(p) /\ StandingOf(p) = 0
    BY <1>1, <1>8 DEF AuthorsOf, StandingOf, Promised
  <2>. QED
    BY <1>4, <1>5, <1>6, <2>1, Stutters
<1>. QED
  BY <1>7, <1>8

\* A specification shows neither authors nor standing.
LEMMA SpecificationShown ==
  ASSUME TypeOK, TypeOK', EvidenceKept, NEW c \in Call, NEW u \in Editor,
         NEW p \in WorkProduct, ReviseSpecification(c, u, p)
  PROVE  UNCHANGED IA!vars
<1>1. /\ AddRevision(p, [by |-> u, manifest |-> FALSE]) /\ kind[p] = "specification"
      /\ UNCHANGED <<kind, status, effective, decisions>>
  BY DEF ReviseSpecification
<1>2. [by |-> u, manifest |-> FALSE] \in Revision
  BY PeopleAssumption DEF Revision
<1>3. \A q \in WorkProduct : q # p => revisions'[q] = revisions[q]
  BY <1>1, <1>2, RevisionType
<1>4. ASSUME NEW q \in WorkProduct
      PROVE  AuthorsOf(q)' = AuthorsOf(q) /\ StandingOf(q)' = StandingOf(q)
  <2>1. CASE q = p
    BY <1>1, <2>1 DEF AuthorsOf, StandingOf, Promised
  <2>2. CASE q # p
    BY <1>1, <1>3, <2>2, AuthorsKept DEF StandingOf, Latest, Promised
  <2>. QED
    BY <2>1, <2>2
<1>5. Shown
  BY <1>1, SignaturesUnchanged DEF Shown
<1>. QED
  BY <1>4, <1>5, Stutters

\* A withdrawn row stands no longer.
LEMMA RetireShown ==
  ASSUME TypeOK, EvidenceKept, NEW c \in Call, NEW p \in WorkProduct,
         RetireWorkProduct(c, p)
  PROVE  IA!Next
<1>1. Transition(p, "obsolete") /\ UNCHANGED <<kind, revisions, effective, decisions>>
  BY DEF RetireWorkProduct
<1>2. /\ status'[p] = "obsolete"
      /\ \A q \in WorkProduct : q # p => StandingOf(q)' = StandingOf(q)
  BY <1>1, OthersShown
<1>3. \A q \in WorkProduct : AuthorsOf(q)' = AuthorsOf(q)
  BY <1>1, AuthorsKept
<1>4. StandingOf(p)' = 0
  BY <1>2 DEF StandingOf
<1>5. Shown
  BY <1>1, SignaturesUnchanged DEF Shown
<1>6. IA!Withdraw(p)
  BY <1>2, <1>3, <1>4, <1>5 DEF Shown, IA!Withdraw
<1>. QED
  BY <1>6 DEF IA!Next

\* A row in draft or in review does not stand, nor does it by a submission.
LEMMA SubmitShown ==
  ASSUME TypeOK, EvidenceKept, NEW p \in WorkProduct, NEW a \in SUBSET Candidate,
         SubmitWorkProduct(p, a)
  PROVE  UNCHANGED IA!vars
<1>1. /\ Transition(p, "in_review") /\ status[p] = "draft"
      /\ UNCHANGED <<kind, revisions, effective, decisions>>
  BY DEF SubmitWorkProduct
<1>2. /\ status'[p] = "in_review"
      /\ \A q \in WorkProduct : q # p => StandingOf(q)' = StandingOf(q)
  BY <1>1, OthersShown
<1>3. \A q \in WorkProduct : AuthorsOf(q)' = AuthorsOf(q)
  BY <1>1, AuthorsKept
<1>4. StandingOf(p)' = 0 /\ StandingOf(p) = 0
  BY <1>1, <1>2 DEF StandingOf
<1>5. Shown
  BY <1>1, SignaturesUnchanged DEF Shown
<1>. QED
  BY <1>2, <1>3, <1>4, <1>5, Stutters

\* What a decision on a row that counts has seen to: it is on the latest
\* revision, and by another than its author.
LEMMA SignerIndependent ==
  ASSUME RInv, NEW c \in Call, NEW r \in DOMAIN requests, Sign(c, r)
  PROVE  LET p == call[c].wp  u == call[c].by IN
         /\ p \in WorkProduct /\ u \in Person
         /\ requests[r].wp = p /\ status[p] = "in_review"
         /\ Promised(p) => /\ requests[r].revision = Latest(p)
                           /\ Latest(p) # 0
                           /\ u # AuthorsOf(p)[Latest(p)]
                           /\ Len(AuthorsOf(p)) = Latest(p)
<1>. DEFINE p == call[c].wp
            u == call[c].by
<1>1. p \in WorkProduct /\ u \in Person
  BY CallFields DEF Sign, DecideCall, RInv
<1>2. /\ status[p] = "in_review" /\ r \in OpenRequests(p)
      /\ u # revisions[p][requests[r].revision].by
  BY DEF Sign, MaySign
<1>3. requests[r].wp = p
  BY <1>2 DEF OpenRequests
<1>4. ASSUME Promised(p)
      PROVE  /\ requests[r].revision = Latest(p) /\ Latest(p) # 0
             /\ u # AuthorsOf(p)[Latest(p)] /\ Len(AuthorsOf(p)) = Latest(p)
  <2>1. requests[r].revision = Latest(p)
    BY <1>1, <1>2, <1>4 DEF RInv, ReviewMatchesStatus, Promised
  <2>2. requests[r].revision \in 1..Latest(p) /\ Latest(p) \in Nat
    BY <1>1, <1>3 DEF RInv, RowsWellFormed, RequestsOnRevisions, TypeOK, Latest
  <2>3. AuthorsOf(p)[Latest(p)] = revisions[p][Latest(p)].by
    BY <1>1, <1>4, <2>1, <2>2, AuthorsType DEF RInv
  <2>. QED
    BY <1>1, <1>2, <1>4, <2>1, <2>2, <2>3, AuthorsType DEF RInv
<1>. QED
  BY <1>1, <1>2, <1>3, <1>4

\* A decision shows as one signature of its kind, if its row counts.
LEMMA SignShown ==
  ASSUME RInv, TypeOK', EvidenceKept, NEW c \in Call, NEW r \in DOMAIN requests,
         Sign(c, r), UNCHANGED kind, NEW k
  PROVE  LET p == call[c].wp IN
         SignaturesOf(k)' = IF call[c].kind = k /\ Promised(p)
                            THEN SignaturesOf(k) \cup
                                   {IA!Signature(p, Latest(p), call[c].by)}
                            ELSE SignaturesOf(k)
<1>. DEFINE p == call[c].wp
            e == [request |-> r, by |-> call[c].by, kind |-> call[c].kind,
                  key |-> call[c].key]
<1>1. decisions' = decisions \cup {e} /\ e.kind = call[c].kind /\ e.request = r
      /\ e.by = call[c].by
  BY DEF Sign
<1>. HIDE DEF e
<1>2. TypeOK /\ requests[r].wp = p
  BY SignerIndependent DEF RInv
<1>3. \A d \in decisions' : d.request \in DOMAIN requests
  BY <1>1, <1>2 DEF TypeOK
<1>4. \A d \in decisions' : Promised(requests[d.request].wp)'
                            <=> Promised(requests[d.request].wp)
  BY <1>2, <1>3, RequestsKept DEF Promised
<1>5. CASE call[c].kind = k /\ Promised(p)
  <2>1. SignaturesOf(k)' = SignaturesOf(k) \cup {Signature(e)}
    BY <1>1, <1>2, <1>5, SignaturesAdded
  <2>2. Signature(e) = IA!Signature(p, Latest(p), call[c].by)
    BY <1>1, <1>2, <1>5, SignerIndependent DEF Signature, IA!Signature
  <2>. QED
    BY <1>5, <2>1, <2>2
<1>6. CASE ~(call[c].kind = k /\ Promised(p))
  <2>1. \A d \in decisions' : d.kind = k /\ d \notin decisions
                                => ~Promised(requests[d.request].wp)
    BY <1>1, <1>2, <1>6
  <2>2. SignaturesOf(k)' = SignaturesOf(k)
    BY <1>2, <1>3, <1>4, <2>1, SignaturesKept
  <2>. QED
    BY <1>6, <2>2
<1>. QED
  BY <1>5, <1>6

\* A positive review endorses.
LEMMA ReviewShown ==
  ASSUME RInv, TypeOK', EvidenceKept, NEW c \in Call, NEW r \in DOMAIN requests,
         RecordReview(c, r)
  PROVE  [IA!Next]_IA!vars
<1>. DEFINE p == call[c].wp
            u == call[c].by
<1>1. /\ Sign(c, r) /\ call[c].kind = "review"
      /\ UNCHANGED <<kind, status, revisions, effective>>
  BY DEF RecordReview, products
<1>2. \A q \in WorkProduct : AuthorsOf(q)' = AuthorsOf(q) /\ StandingOf(q)' = StandingOf(q)
  BY <1>1, AuthorsKept DEF StandingOf, Promised, Latest
<1>3. SignaturesOf("approval")' = SignaturesOf("approval")
  BY <1>1, SignShown
<1>4. CASE Promised(p)
  <2>1. SignaturesOf("review")' =
          SignaturesOf("review") \cup {IA!Signature(p, Latest(p), u)}
    BY <1>1, <1>4, SignShown
  <2>2. /\ p \in WorkProduct /\ u \in Person /\ Latest(p) # 0
        /\ u # AuthorsOf(p)[Latest(p)] /\ Len(AuthorsOf(p)) = Latest(p)
    BY <1>1, <1>4, SignerIndependent
  <2>3. IA!Endorse(u, p)
    BY <1>1, <1>2, <1>3, <2>1, <2>2 DEF IA!Endorse, IA!Independent
  <2>. QED
    BY <2>2, <2>3 DEF IA!Next
<1>5. CASE ~Promised(p)
  <2>1. SignaturesOf("review")' = SignaturesOf("review")
    BY <1>1, <1>5, SignShown
  <2>. QED
    BY <1>1, <1>2, <1>3, <2>1, Stutters DEF Shown
<1>. QED
  BY <1>4, <1>5

\* An approval that the quorum lets through approves what was endorsed.
LEMMA ApprovalShown ==
  ASSUME RInv, TypeOK', EvidenceKept, NEW c \in Call, NEW r \in DOMAIN requests,
         RecordApproval(c, r)
  PROVE  [IA!Next]_IA!vars
<1>0. PICK p \in WorkProduct, u \in Person : p = call[c].wp /\ u = call[c].by
  BY SignerIndependent DEF RecordApproval
<1>1. /\ Sign(c, r) /\ call[c].kind = "approval" /\ Transition(p, "approved")
      /\ UNCHANGED <<kind, revisions, effective>>
  BY <1>0 DEF RecordApproval
<1>2. TypeOK /\ requests[r].wp = p
  BY <1>0, <1>1, SignerIndependent DEF RInv
<1>3. /\ status'[p] = "approved"
      /\ \A q \in WorkProduct : q # p => StandingOf(q)' = StandingOf(q)
  BY <1>1, <1>2, OthersShown
<1>4. \A q \in WorkProduct : AuthorsOf(q)' = AuthorsOf(q)
  BY <1>1, AuthorsKept
<1>5. SignaturesOf("review")' = SignaturesOf("review")
  BY <1>1, SignShown
<1>6. CASE Promised(p)
  <2>1. SignaturesOf("approval")' =
          SignaturesOf("approval") \cup {IA!Signature(p, Latest(p), u)}
    BY <1>0, <1>1, <1>6, SignShown
  <2>2. /\ requests[r].revision = Latest(p) /\ Latest(p) # 0
        /\ u # AuthorsOf(p)[Latest(p)] /\ Len(AuthorsOf(p)) = Latest(p)
    BY <1>0, <1>1, <1>6, SignerIndependent
  <2>3. PICK d \in decisions : d.request = r /\ d.kind = "review"
    BY <1>1 DEF Sign, MaySign, QuorumMet
  <2>4. d.by \in Person
    BY <1>2 DEF TypeOK
  <2>5. IA!Signature(p, Latest(p), d.by) \in SignaturesOf("review")
    <3>1. d \in Counted("review")
      BY <1>2, <1>6, <2>3 DEF Counted
    <3>2. Signature(d) = IA!Signature(p, Latest(p), d.by)
      BY <1>2, <2>2, <2>3 DEF Signature, IA!Signature
    <3>. QED
      BY <3>1, <3>2 DEF SignaturesOf
  <2>6. StandingOf(p)' = Latest(p)
    BY <1>1, <1>3, <1>6 DEF StandingOf, Promised, Latest
  <2>7. IA!Independent(u, p, Latest(p))
    BY <1>2, <2>2 DEF IA!Independent
  <2>8. IA!Carries(SignaturesOf("review"), p, Latest(p))
    BY <2>4, <2>5 DEF IA!Carries
  <2>9. IA!Approve(u, p)
    BY <1>1, <1>2, <1>3, <1>4, <1>5, <2>1, <2>2, <2>6, <2>7, <2>8 DEF IA!Approve
  <2>. QED
    BY <1>2, <2>9 DEF IA!Next
<1>7. CASE ~Promised(p)
  <2>1. SignaturesOf("approval")' = SignaturesOf("approval")
    BY <1>0, <1>1, <1>7, SignShown
  <2>2. StandingOf(p)' = StandingOf(p)
    BY <1>1, <1>7 DEF StandingOf, Promised
  <2>. QED
    BY <1>1, <1>3, <1>4, <1>5, <2>1, <2>2, Stutters DEF Shown
<1>. QED
  BY <1>6, <1>7

\* A request for changes is not a signature, and its row did not stand.
LEMMA RequestChangesShown ==
  ASSUME RInv, TypeOK', EvidenceKept, NEW c \in Call, NEW r \in DOMAIN requests,
         RecordRequestChanges(c, r)
  PROVE  UNCHANGED IA!vars
<1>0. PICK p \in WorkProduct : p = call[c].wp
  BY SignerIndependent DEF RecordRequestChanges
<1>1. /\ Sign(c, r) /\ call[c].kind = "request_changes" /\ Transition(p, "draft")
      /\ UNCHANGED <<kind, revisions, effective>>
  BY <1>0 DEF RecordRequestChanges
<1>2. TypeOK /\ status[p] = "in_review"
  BY <1>0, <1>1, SignerIndependent DEF RInv
<1>3. /\ status'[p] = "draft"
      /\ \A q \in WorkProduct : q # p => StandingOf(q)' = StandingOf(q)
  BY <1>1, <1>2, OthersShown
<1>4. \A q \in WorkProduct : AuthorsOf(q)' = AuthorsOf(q)
  BY <1>1, AuthorsKept
<1>5. StandingOf(p)' = 0 /\ StandingOf(p) = 0
  BY <1>2, <1>3 DEF StandingOf
<1>6. Shown
  BY <1>1, SignShown DEF Shown
<1>. QED
  BY <1>3, <1>4, <1>5, <1>6, Stutters

\* A plan revision that comes into force carries an approval.
LEMMA ApplyShown ==
  ASSUME TypeOK, EvidenceKept, NEW c \in Call, NEW p \in WorkProduct,
         NEW n \in 1..Latest(p), ApplyPlan(c, p, n)
  PROVE  [IA!Next]_IA!vars
<1>1. /\ kind[p] = "plan" /\ PlanRevisionApproved(p, n)
      /\ UNCHANGED <<kind, status, revisions, decisions>>
      /\ UNCHANGED effective \/ effective' = [effective EXCEPT ![p] = n]
  BY DEF ApplyPlan
<1>2. \A q \in WorkProduct : AuthorsOf(q)' = AuthorsOf(q) /\ StandingOf(q)' = StandingOf(q)
  BY <1>1, AuthorsKept DEF StandingOf, Promised, Latest
<1>3. \A k : SignaturesOf(k)' = SignaturesOf(k)
  BY <1>1, SignaturesUnchanged
<1>4. CASE UNCHANGED effective
  BY <1>2, <1>3, <1>4, Stutters DEF Shown
<1>5. CASE effective' = [effective EXCEPT ![p] = n]
  <2>1. PICK d \in decisions : /\ requests[d.request].wp = p
                               /\ requests[d.request].revision = n
                               /\ d.kind = "approval"
    BY <1>1 DEF PlanRevisionApproved
  <2>2. d.by \in Person
    BY DEF TypeOK
  <2>3. d \in Counted("approval")
    BY <1>1, <2>1 DEF Counted, Promised
  <2>4. Signature(d) = IA!Signature(p, n, d.by)
    BY <2>1 DEF Signature, IA!Signature
  <2>5. IA!Carries(SignaturesOf("approval"), p, n)
    BY <2>2, <2>3, <2>4 DEF IA!Carries, SignaturesOf
  <2>6. IA!PutInForce(p, n)
    BY <1>2, <1>3, <1>5, <2>5 DEF IA!PutInForce
  <2>7. Len(AuthorsOf(p)) = Latest(p)
    BY <1>1, AuthorsType DEF Promised
  <2>. QED
    BY <2>6, <2>7 DEF IA!Next
<1>. QED
  BY <1>1, <1>4, <1>5

\* Every step is a step of independent approval, or stutters.
LEMMA RefinementStep ==
  ASSUME RInv, TypeOK', [Next]_vars
  PROVE  [IA!Next]_IA!vars
<1>1. TypeOK /\ RowsWellFormed /\ EvidenceKept
  BY EvidenceStep DEF RInv
<1>2. CASE CallMoves
  <2>1. UNCHANGED <<kind, status, revisions, effective, decisions>>
    BY <1>2 DEF CallMoves, products
  <2>2. Shown
    BY <1>1, <2>1, SignaturesUnchanged DEF Shown
  <2>3. \A q \in WorkProduct :
          AuthorsOf(q)' = AuthorsOf(q) /\ StandingOf(q)' = StandingOf(q)
    BY <2>1, AuthorsKept DEF StandingOf, Promised, Latest
  <2>. QED
    BY <2>2, <2>3, Stutters
<1>. QED
  BY <1>1, <1>2, CreateShown, ReviseShown, SpecificationShown, RetireShown, SubmitShown,
     ReviewShown, ApprovalShown, RequestChangesShown, ApplyShown, StepCases

\* The review of work products implements independent approval.
THEOREM Refinement == Spec => ImplementsIndependentApproval
<1>1. RInv /\ [Next]_vars => [IA!Next]_IA!vars
  <2>1. RInv /\ [Next]_vars => TypeOK'
    BY TypeStep DEF RInv
  <2>. QED
    BY <2>1, RefinementStep
<1>. QED
  BY RefinementInit, <1>1, Invariance, PTL DEF Spec, IA!Spec, ImplementsIndependentApproval
=============================================================================
