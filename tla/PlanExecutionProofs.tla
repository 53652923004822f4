------------------------- MODULE PlanExecutionProofs -------------------------
(***************************************************************************)
(* Proofs about PlanExecution, for any number of users, phases,            *)
(* milestones, work products, transactions and plan revisions: the type    *)
(* invariant, that the projected rows follow the plan in force, and what   *)
(* decisions, completions and activations rest on.                         *)
(***************************************************************************)
EXTENDS PlanExecution, FiniteSetTheorems, WellFoundedInduction, TLAPS

-----------------------------------------------------------------------------
(* What the properties rest on.                                            *)

Tx == {Idle} \cup TransitionTx \cup AcceptTx
ProductRow == [status : {"draft", "approved", "obsolete"}, authors : Seq(User)]

\* The type invariant without the transactions.
StoredType ==
    /\ plan \in Seq(PlanRevision)
    /\ effective \in 0..Len(plan)
    /\ generation \in Nat
    /\ phase \in [Phase -> PhaseRow]
    /\ milestone \in [Milestone -> MilestoneRow]
    /\ decisions \subseteq GateDecision
    /\ product \in [Product -> ProductRow]
    /\ \A d \in Product : product[d].authors # <<>>
    /\ activity \subseteq Phase

\* Phases that all wait for one of themselves.
Knot(M, T) == T # {} /\ \A t \in T : M.deps[t] \cap T # {}

\* ApplyPlan checked the plan in force.
EffectiveValid ==
    effective # 0 =>
        LET M == plan[effective].manifest
        IN  /\ \A p \in M.phases : M.deps[p] \subseteq M.phases
            /\ \A T \in SUBSET M.phases : ~Knot(M, T)

\* A decision names a revision of the plan that exists.
DecisionsOfPlans == \A x \in decisions : x.plan \in 1..Len(plan)

\* Row locks have one holder.
OneTransition ==
    \A v, w \in Worker :
        /\ tx[v].op = "transition" /\ tx[w].op = "transition"
        /\ tx[v].phase = tx[w].phase
        => v = w
Accepting(w) == tx[w].op = "accept" /\ tx[w].stage # "begun"
OneAcceptance ==
    \A v, w \in Worker :
        Accepting(v) /\ Accepting(w) /\ tx[v].milestone = tx[w].milestone => v = w

MilestonesPassed(p) ==
    \A m \in Milestone :
        Present(milestone, m) /\ milestone[m].phase = p => milestone[m].status = "passed"

\* What a transition checked is still so.
TransitionSound(w) ==
    tx[w].op = "transition" =>
        /\ PhaseTransitionAllowed(phase[tx[w].phase].status, tx[w].to)
        /\ tx[w].stage = "checked" /\ tx[w].to = "completed" => MilestonesPassed(tx[w].phase)
        /\ tx[w].stage = "checked" /\ tx[w].to = "active" => UnmetDependencies(tx[w].phase) = {}

\* What an acceptance read is still so, and its evidence is independent.
EvidenceSound(w, e) ==
    /\ e.wp \in tx[w].row.deliverables
    /\ e.by # tx[w].by
    /\ product[e.wp].status = "approved"
    /\ e.revision = Latest(e.wp)
AcceptSound(w) ==
    tx[w].op = "accept" =>
        /\ tx[w].stage # "begun" => /\ tx[w].row = milestone[tx[w].milestone]
                                    /\ Present(milestone, tx[w].milestone)
        /\ tx[w].stage # "deciding" => tx[w].evidence = {}
        /\ tx[w].stage = "deciding" => /\ effective # 0 /\ tx[w].plan = effective
                                       /\ tx[w].by # plan[effective].by
                                       /\ \A e \in tx[w].evidence : EvidenceSound(w, e)

RowsSound ==
    /\ StoredType
    /\ ProjectionMatchesPlan
    /\ PassedUnderThisPlan
    /\ DecisionIndependent
    /\ RecordsKeepTheirRows
    /\ EffectiveValid
    /\ DecisionsOfPlans
TxSound ==
    /\ tx \in [Worker -> Tx]
    /\ clock \in Nat
    /\ OneTransition
    /\ OneAcceptance
    /\ \A w \in Worker : TransitionSound(w) /\ AcceptSound(w)

PInv == RowsSound /\ TxSound

-----------------------------------------------------------------------------
(* The depth-first search of the validation.                               *)

\* T is a set of phases that wait for each other, or for one in V.
Trap(M, V, T) == \A t \in T : t \in V \/ M.deps[t] \cap T # {}
Trapped(M, V, key) == \E T \in SUBSET M.phases : key \in T /\ Trap(M, V, T)

LEMMA TrappedStep ==
  ASSUME NEW M \in ManifestType, NEW V \in SUBSET M.phases, NEW key \in M.phases
  PROVE  Trapped(M, V, key) <=>
            \/ key \in V
            \/ \E d \in M.deps[key] \cap M.phases : Trapped(M, V \cup {key}, d)
<1>1. ASSUME Trapped(M, V, key), key \notin V
      PROVE  \E d \in M.deps[key] \cap M.phases : Trapped(M, V \cup {key}, d)
  <2>1. PICK T \in SUBSET M.phases : key \in T /\ Trap(M, V, T)
    BY <1>1 DEF Trapped
  <2>2. PICK d \in M.deps[key] : d \in T
    BY <1>1, <2>1 DEF Trap
  <2>3. Trap(M, V \cup {key}, T)
    BY <2>1 DEF Trap
  <2>. QED
    BY <2>1, <2>2, <2>3 DEF Trapped
<1>2. ASSUME key \in V
      PROVE  Trapped(M, V, key)
  BY <1>2, {key} \in SUBSET M.phases DEF Trapped, Trap
<1>3. ASSUME NEW d \in M.deps[key] \cap M.phases, Trapped(M, V \cup {key}, d)
      PROVE  Trapped(M, V, key)
  <2>1. PICK T \in SUBSET M.phases : d \in T /\ Trap(M, V \cup {key}, T)
    BY <1>3 DEF Trapped
  <2>2. Trap(M, V, T \cup {key})
    BY <1>3, <2>1 DEF Trap
  <2>. QED
    BY <2>1, <2>2, T \cup {key} \in SUBSET M.phases DEF Trapped
<1>. QED
  BY <1>1, <1>2, <1>3


\* Of the sets in a family of subsets of a finite set one is not smaller than
\* another.
LEMMA MaximalExists ==
  ASSUME NEW S, IsFiniteSet(S), NEW T \in SUBSET SUBSET S, T # {}
  PROVE  \E U \in T : \A V \in T : ~(U \subseteq V /\ U # V)
<1>. DEFINE Rest == {S \ U : U \in T}
<1>1. Rest \subseteq FiniteSubsetsOf(S) /\ Rest # {}
  <2>1. \A U \in T : S \ U \in SUBSET S
    OBVIOUS
  <2>2. \A X \in SUBSET S : IsFiniteSet(X)
    BY FS_Subset
  <2>3. \A U \in T : S \ U \in FiniteSubsetsOf(S)
    BY <2>1, <2>2 DEF FiniteSubsetsOf
  <2>4. PICK U : U \in T
    OBVIOUS
  <2>5. S \ U \in Rest
    BY <2>4
  <2>6. Rest \subseteq FiniteSubsetsOf(S)
    BY <2>3
  <2>. QED
    BY <2>5, <2>6
<1>2. IsWellFoundedOn(StrictSubsetOrdering(S), FiniteSubsetsOf(S))
  BY FS_StrictSubsetOrderingWellFounded
<1>3. \E X \in Rest : \A Y \in Rest : <<Y, X>> \notin StrictSubsetOrdering(S)
  <2>. HIDE DEF Rest
  <2>. QED
    BY <1>1, <1>2, WFMin
<1>4. PICK U \in T : \A V \in T : <<S \ V, S \ U>> \notin StrictSubsetOrdering(S)
  BY <1>3
<1>5. ASSUME NEW V \in T, U \subseteq V, U # V
      PROVE  FALSE
  <2>1. S \ V \subseteq S \ U /\ S \ V # S \ U
    BY <1>5
  <2>2. <<S \ V, S \ U>> \in StrictSubsetOrdering(S)
    BY <2>1 DEF StrictSubsetOrdering
  <2>. QED
    BY <1>4, <2>2
<1>. QED
  BY <1>5

\* The depth-first search finds exactly the phases that are trapped.
LEMMA Visit ==
  ASSUME NEW M \in ManifestType
  PROVE  HasPhaseCycle(M) <=> \E key \in M.phases : Trapped(M, {}, key)
<1>. DEFINE Step(v, V, key) ==
               \/ key \in V
               \/ \E d \in M.deps[key] \cap M.phases : v[V \cup {key}][d]
            IsVisit(v) ==
               v = [V \in SUBSET M.phases |-> [key \in M.phases |-> Step(v, V, key)]]
            visit == CHOOSE v : IsVisit(v)
            trapped == [V \in SUBSET M.phases |-> [key \in M.phases |-> Trapped(M, V, key)]]
<1>1. IsVisit(trapped)
  <2>1. ASSUME NEW V \in SUBSET M.phases, NEW key \in M.phases
        PROVE  Trapped(M, V, key) <=> Step(trapped, V, key)
    <3>1. V \cup {key} \in SUBSET M.phases
      OBVIOUS
    <3>2. \A d \in M.deps[key] \cap M.phases :
              trapped[V \cup {key}][d] <=> Trapped(M, V \cup {key}, d)
      BY <3>1, Zenon
    <3>. HIDE DEF trapped
    <3>. QED
      BY <3>2, TrappedStep
  <2>2. ASSUME NEW V \in SUBSET M.phases, NEW key \in M.phases
        PROVE  Trapped(M, V, key) = Step(trapped, V, key)
    BY <2>1, Zenon DEF Trapped
  <2>. HIDE DEF Step
  <2>. QED
    BY <2>2, Zenon
<1>2. IsVisit(visit)
  BY <1>1
<1>3. HasPhaseCycle(M) <=> \E key \in M.phases : visit[{}][key]
  BY DEF HasPhaseCycle
<1>4. \A V \in SUBSET M.phases : \A key \in M.phases :
          visit[V][key] <=> Step(visit, V, key)
  <2>. HIDE DEF Step, visit
  <2>1. ASSUME NEW V \in SUBSET M.phases, NEW key \in M.phases
        PROVE  visit[V][key] = Step(visit, V, key)
    <3>1. visit[V] = [k \in M.phases |-> Step(visit, V, k)]
      BY <1>2, Zenon
    <3>. QED
      BY <3>1
  <2>. QED
    BY <2>1, Zenon
<1>. DEFINE Agrees(V) == \A key \in M.phases : visit[V][key] <=> Trapped(M, V, key)
            Wrong == {V \in SUBSET M.phases : ~Agrees(V)}
<1>. HIDE DEF visit
<1>5. Wrong = {}
  <2>. SUFFICES ASSUME Wrong # {}
                PROVE  FALSE
    OBVIOUS
  <2>1. IsFiniteSet(M.phases) /\ Wrong \in SUBSET SUBSET M.phases
    BY SetsAssumption, FS_Subset DEF ManifestType
  <2>2. PICK V \in Wrong : \A U \in Wrong : ~(V \subseteq U /\ V # U)
    <3>. HIDE DEF Wrong
    <3>. QED
      BY <2>1, MaximalExists
  <2>3. PICK key \in M.phases : ~(visit[V][key] <=> Trapped(M, V, key))
    OBVIOUS
  <2>4. V \in SUBSET M.phases
    OBVIOUS
  <2>5. key \notin V
    BY <1>4, <2>3, <2>4, TrappedStep
  <2>6. V \cup {key} \in SUBSET M.phases /\ V \cup {key} \notin Wrong
    BY <2>2, <2>4, <2>5
  <2>7. \A d \in M.phases : visit[V \cup {key}][d] <=> Trapped(M, V \cup {key}, d)
    BY <2>6
  <2>8. Step(visit, V, key) <=> Trapped(M, V, key)
    BY <2>4, <2>7, TrappedStep
  <2>. QED
    <3>. HIDE DEF Step
    <3>. QED
      BY <1>4, <2>3, <2>4, <2>8
<1>6. \A key \in M.phases : visit[{}][key] <=> Trapped(M, {}, key)
  BY <1>5
<1>. QED
  BY <1>3, <1>6, Zenon

\* The search of the validation is exact: it reports a cycle just when some
\* phases all wait for one of themselves.
THEOREM CycleSearchIsExact ==
  ASSUME NEW M \in ManifestType
  PROVE  HasPhaseCycle(M) <=> \E T \in SUBSET M.phases : Knot(M, T)
<1>1. ASSUME NEW key \in M.phases, Trapped(M, {}, key)
      PROVE  \E T \in SUBSET M.phases : Knot(M, T)
  BY <1>1 DEF Trapped, Trap, Knot
<1>2. ASSUME NEW T \in SUBSET M.phases, Knot(M, T)
      PROVE  \E key \in M.phases : Trapped(M, {}, key)
  BY <1>2 DEF Trapped, Trap, Knot
<1>. QED
  BY <1>1, <1>2, Visit

-----------------------------------------------------------------------------
(* Types.                                                                  *)

LEMMA TypeParts == TypeOK <=> StoredType /\ tx \in [Worker -> Tx] /\ clock \in Nat
  BY DEF TypeOK, StoredType, Tx, ProductRow

\* Appending a value to a sequence over S yields a sequence over S.
LEMMA AppendType ==
  ASSUME NEW S, NEW s \in Seq(S), NEW e \in S
  PROVE  /\ Append(s, e) \in Seq(S)
         /\ Len(Append(s, e)) = Len(s) + 1
         /\ Append(s, e)[Len(s) + 1] = e
         /\ \A i \in 1..Len(s) : Append(s, e)[i] = s[i]
  OBVIOUS

\* A function on the domain of a sequence with values in S is a sequence.
LEMMA MapType ==
  ASSUME NEW S, NEW T, NEW s \in Seq(S), NEW f \in [DOMAIN s -> T]
  PROVE  f \in Seq(T) /\ Len(f) = Len(s)
<1>1. DOMAIN s = 1..Len(s) /\ Len(s) \in Nat
  OBVIOUS
<1>. QED
  BY <1>1

\* A transaction has the fields of its kind.
LEMMA TxFields ==
  ASSUME tx \in [Worker -> Tx], NEW w \in Worker
  PROVE  /\ tx[w].op = "transition" => tx[w] \in TransitionTx
         /\ tx[w].op = "accept" => tx[w] \in AcceptTx
         /\ tx[w].op # "transition" /\ tx[w].op # "accept" => tx[w] = Idle
<1>1. tx[w] \in {Idle} \cup TransitionTx \cup AcceptTx
  BY DEF Tx
<1>2. Idle.op = "idle"
  BY DEF Idle
<1>3. \A x \in TransitionTx : x.op = "transition"
  BY DEF TransitionTx
<1>4. \A x \in AcceptTx : x.op = "accept"
  BY DEF AcceptTx
<1>. QED
  BY <1>1, <1>2, <1>3, <1>4

\* The revisions of the plan and of the work products.
LEMMA StoredFields ==
  ASSUME StoredType
  PROVE  /\ Len(plan) \in Nat
         /\ \A r \in 1..Len(plan) : plan[r] \in PlanRevision
         /\ \A d \in Product : /\ product[d] \in ProductRow
                               /\ Latest(d) \in Nat
                               /\ product[d].authors[Latest(d)] \in User
<1>1. plan \in Seq(PlanRevision)
  BY DEF StoredType
<1>2. ASSUME NEW d \in Product
      PROVE  /\ product[d] \in ProductRow
             /\ Latest(d) \in Nat
             /\ product[d].authors[Latest(d)] \in User
  <2>1. product[d] \in ProductRow /\ product[d].authors \in Seq(User) /\ product[d].authors # <<>>
    BY DEF StoredType, ProductRow
  <2>2. Len(product[d].authors) \in Nat /\ Len(product[d].authors) # 0
    BY <2>1
  <2>. QED
    BY <2>1, <2>2 DEF Latest
<1>. QED
  BY <1>1, <1>2

\* NoRow is a row of the table.
LEMMA NoRowType == NoRow \in MilestoneRow
  BY SetsAssumption DEF NoRow, MilestoneRow

\* The manifest of a revision.
LEMMA ManifestFields ==
  ASSUME StoredType, NEW r \in 1..Len(plan)
  PROVE  /\ plan[r].manifest \in ManifestType
         /\ plan[r].by \in User
  BY StoredFields DEF PlanRevision

-----------------------------------------------------------------------------
(* Steps of transactions that write no row.                                *)

\* Worker w is the only one to hold what it holds.
SoleHolder(w) ==
    \A v \in Worker \ {w} :
        /\ tx[w].op = "transition" /\ tx[v].op = "transition" => tx[v].phase # tx[w].phase
        /\ Accepting(w) /\ Accepting(v) => tx[v].milestone # tx[w].milestone

\* The transaction of w becomes x and the rows stay.
LEMMA TxStep ==
  ASSUME PInv, NEW w \in Worker, NEW x \in Tx, tx' = [tx EXCEPT ![w] = x],
         UNCHANGED <<plans, rows, product, activity>>, clock' \in Nat,
         TransitionSound(w)', AcceptSound(w)', SoleHolder(w)'
  PROVE  PInv'
<1>. USE DEF plans, rows
<1>1. RowsSound'
  BY DEF PInv, RowsSound, StoredType, ProjectionMatchesPlan, PassedUnderThisPlan,
         DecisionIndependent, RecordsKeepTheirRows, EffectiveValid, DecisionsOfPlans,
         DecisionsOn, Present
<1>2. /\ tx' \in [Worker -> Tx] /\ tx'[w] = x
      /\ \A v \in Worker \ {w} : tx'[v] = tx[v]
  BY DEF PInv, TxSound
<1>3. OneTransition'
  BY <1>2 DEF PInv, TxSound, OneTransition, SoleHolder
<1>4. OneAcceptance'
  BY <1>2 DEF PInv, TxSound, OneAcceptance, SoleHolder, Accepting
<1>5. ASSUME NEW v \in Worker \ {w}
      PROVE  TransitionSound(v)' /\ AcceptSound(v)'
  <2>1. tx'[v] = tx[v] /\ TransitionSound(v) /\ AcceptSound(v)
    BY <1>2 DEF PInv, TxSound
  <2>2. TransitionSound(v)'
    BY <2>1 DEF TransitionSound, MilestonesPassed, UnmetDependencies, Present
  <2>3. AcceptSound(v)'
    BY <2>1 DEF AcceptSound, EvidenceSound, Latest, Present
  <2>. QED
    BY <2>2, <2>3
<1>. QED
  BY <1>1, <1>2, <1>3, <1>4, <1>5 DEF PInv, TxSound

\* Nothing is known of a transaction that is not open.
LEMMA IdleSound ==
  ASSUME NEW w \in Worker, tx'[w] = Idle
  PROVE  TransitionSound(w)' /\ AcceptSound(w)' /\ SoleHolder(w)'
  BY DEF TransitionSound, AcceptSound, SoleHolder, Accepting, Idle

LEMMA RollbackSound ==
  ASSUME PInv, NEW w \in Worker, Rollback(w)
  PROVE  PInv'
<1>1. tx' = [tx EXCEPT ![w] = Idle] /\ tx'[w] = Idle
  BY DEF Rollback, PInv, TxSound
<1>2. Idle \in Tx
  BY DEF Tx
<1>. QED
  BY <1>1, <1>2, IdleSound, TxStep DEF Rollback, PInv, TxSound

LEMMA BeginAcceptSound ==
  ASSUME PInv, NEW w \in Worker, NEW u \in User, NEW m \in Milestone, BeginAccept(w, u, m)
  PROVE  PInv'
<1>. DEFINE x == [op |-> "accept", stage |-> "begun", milestone |-> m, by |-> u,
                  at |-> clock + 1, row |-> NoRow, plan |-> 0, evidence |-> {}]
<1>1. clock \in Nat /\ tx \in [Worker -> Tx]
  BY DEF PInv, TxSound
<1>2. x \in Tx
  BY <1>1, NoRowType DEF Tx, AcceptTx
<1>3. tx' = [tx EXCEPT ![w] = x] /\ tx'[w] = x
  BY <1>1 DEF BeginAccept
<1>4. TransitionSound(w)' /\ AcceptSound(w)' /\ SoleHolder(w)'
  BY <1>3 DEF TransitionSound, AcceptSound, SoleHolder, Accepting
<1>5. clock' \in Nat /\ UNCHANGED <<plans, rows, product, activity>>
  BY <1>1 DEF BeginAccept
<1>. HIDE DEF x
<1>. QED
  BY <1>2, <1>3, <1>4, <1>5, TxStep

LEMMA LockMilestoneSound ==
  ASSUME PInv, NEW w \in Worker, LockMilestone(w)
  PROVE  PInv'
<1>. DEFINE m == tx[w].milestone
            x == [tx[w] EXCEPT !.stage = "locked", !.row = milestone[m]]
<1>1. /\ tx \in [Worker -> Tx] /\ clock \in Nat /\ AcceptSound(w)
      /\ tx[w].op = "accept" /\ tx[w].stage = "begun"
  BY DEF PInv, TxSound, LockMilestone, InStage
<1>2. tx[w] \in AcceptTx /\ milestone[m] \in MilestoneRow
  BY <1>1, TxFields DEF AcceptTx, PInv, RowsSound, StoredType
<1>3. x \in Tx
  BY <1>2 DEF Tx, AcceptTx
<1>4. tx' = [tx EXCEPT ![w] = x] /\ tx'[w] = x
  BY <1>1 DEF LockMilestone
<1>5. /\ x.op = "accept" /\ x.stage = "locked" /\ x.row = milestone[m] /\ x.milestone = m
      /\ x.evidence = {}
  BY <1>1, <1>2 DEF AcceptTx, AcceptSound
<1>6. AcceptSound(w)' /\ TransitionSound(w)'
  BY <1>4, <1>5 DEF AcceptSound, TransitionSound, LockMilestone, rows, Present
<1>7. SoleHolder(w)'
  BY <1>1, <1>4, <1>5 DEF SoleHolder, Accepting, LockMilestone, MilestoneHeld
<1>. HIDE DEF x
<1>. QED
  BY <1>1, <1>3, <1>4, <1>6, <1>7, TxStep DEF LockMilestone

\* The holder of a milestone goes on, with the same milestone.
LEMMA StillHolder ==
  ASSUME PInv, NEW w \in Worker, NEW x \in Tx, tx' = [tx EXCEPT ![w] = x],
         Accepting(w), x.op = "accept", x.milestone = tx[w].milestone
  PROVE  SoleHolder(w)'
<1>1. tx'[w] = x /\ \A v \in Worker \ {w} : tx'[v] = tx[v]
  BY DEF PInv, TxSound
<1>. QED
  BY <1>1 DEF SoleHolder, Accepting, PInv, TxSound, OneAcceptance

LEMMA ReadPlanSound ==
  ASSUME PInv, NEW w \in Worker, ReadPlan(w)
  PROVE  PInv'
<1>. DEFINE x == [tx[w] EXCEPT !.stage = "deciding", !.plan = effective]
<1>1. /\ tx \in [Worker -> Tx] /\ clock \in Nat /\ AcceptSound(w)
      /\ tx[w].op = "accept" /\ tx[w].stage = "locked"
      /\ effective # 0 /\ NotTheAuthor(w, plan[effective].by)
  BY DEF PInv, TxSound, ReadPlan, InStage
<1>2. tx[w] \in AcceptTx /\ effective \in Nat
  BY <1>1, TxFields, StoredFields DEF PInv, RowsSound, StoredType
<1>3. x \in Tx
  BY <1>2 DEF Tx, AcceptTx
<1>4. tx' = [tx EXCEPT ![w] = x] /\ tx'[w] = x
  BY <1>1 DEF ReadPlan
<1>5. /\ x.op = "accept" /\ x.stage = "deciding" /\ x.row = tx[w].row
      /\ x.milestone = tx[w].milestone /\ x.evidence = {} /\ x.plan = effective
      /\ x.by = tx[w].by
  BY <1>1, <1>2 DEF AcceptTx, AcceptSound
<1>6. AcceptSound(w)' /\ TransitionSound(w)'
  BY <1>1, <1>4, <1>5
  DEF AcceptSound, TransitionSound, ReadPlan, NotTheAuthor, plans, rows, Present
<1>. HIDE DEF x
<1>7. SoleHolder(w)'
  BY <1>1, <1>3, <1>4, <1>5, StillHolder DEF Accepting
<1>. QED
  BY <1>1, <1>3, <1>4, <1>6, <1>7, TxStep DEF ReadPlan

LEMMA TakeEvidenceSound ==
  ASSUME PInv, NEW w \in Worker, NEW d \in Product, TakeEvidence(w, d)
  PROVE  PInv'
<1>. DEFINE e == [wp |-> d, revision |-> Latest(d), by |-> product[d].authors[Latest(d)]]
            x == [tx[w] EXCEPT !.evidence = @ \cup {e}]
<1>1. /\ tx \in [Worker -> Tx] /\ clock \in Nat /\ AcceptSound(w)
      /\ tx[w].op = "accept" /\ tx[w].stage = "deciding"
      /\ d \in tx[w].row.deliverables /\ product[d].status = "approved"
      /\ NotTheAuthor(w, e.by)
  BY DEF PInv, TxSound, TakeEvidence, InStage
<1>2. tx[w] \in AcceptTx /\ e \in Evidence
  BY <1>1, TxFields, StoredFields DEF PInv, RowsSound, Evidence
<1>3. x \in Tx
  BY <1>2 DEF Tx, AcceptTx
<1>4. tx' = [tx EXCEPT ![w] = x] /\ tx'[w] = x
  BY <1>1 DEF TakeEvidence
<1>5. /\ x.op = "accept" /\ x.stage = "deciding" /\ x.row = tx[w].row
      /\ x.milestone = tx[w].milestone /\ x.evidence = tx[w].evidence \cup {e}
      /\ x.plan = tx[w].plan /\ x.by = tx[w].by
  BY <1>1, <1>2 DEF AcceptTx
<1>6. /\ UNCHANGED <<plan, effective, generation, phase, milestone, decisions, product>>
  BY DEF TakeEvidence, plans, rows
<1>7. \A f \in x.evidence : EvidenceSound(w, f)'
  <2>1. ASSUME NEW f, f = e
        PROVE  EvidenceSound(w, f)'
    BY <2>1, <1>1, <1>4, <1>5, <1>6 DEF EvidenceSound, NotTheAuthor, Latest
  <2>2. \A f \in tx[w].evidence : EvidenceSound(w, f)'
    <3>. HIDE DEF e, x
    <3>. QED
      BY <1>1, <1>4, <1>5, <1>6 DEF EvidenceSound, AcceptSound, Latest
  <2>. HIDE DEF e, x
  <2>. QED
    BY <1>5, <2>1, <2>2
<1>. HIDE DEF e, x
<1>8. AcceptSound(w)' /\ TransitionSound(w)'
  BY <1>1, <1>4, <1>5, <1>6, <1>7 DEF AcceptSound, TransitionSound, Present
<1>9. SoleHolder(w)'
  BY <1>1, <1>3, <1>4, <1>5, StillHolder DEF Accepting
<1>. QED
  BY <1>1, <1>3, <1>4, <1>8, <1>9, TxStep DEF TakeEvidence

LEMMA LockPhaseSound ==
  ASSUME PInv, NEW w \in Worker, NEW p \in Phase, NEW to \in {"active", "completed"},
         LockPhase(w, p, to)
  PROVE  PInv'
<1>. DEFINE x == [op |-> "transition", phase |-> p, to |-> to, stage |-> "locked"]
<1>1. tx \in [Worker -> Tx] /\ clock \in Nat
  BY DEF PInv, TxSound
<1>2. x \in Tx
  BY DEF Tx, TransitionTx
<1>3. tx' = [tx EXCEPT ![w] = x] /\ tx'[w] = x /\ \A v \in Worker \ {w} : tx'[v] = tx[v]
  BY <1>1 DEF LockPhase
<1>4. TransitionSound(w)' /\ AcceptSound(w)'
  BY <1>3 DEF TransitionSound, AcceptSound, LockPhase, PhaseTransitionAllowed, rows
<1>5. SoleHolder(w)'
  BY <1>3 DEF SoleHolder, Accepting, LockPhase, PhaseHeld
<1>. HIDE DEF x
<1>. QED
  BY <1>1, <1>2, <1>3, <1>4, <1>5, TxStep DEF LockPhase

LEMMA CheckPhaseSound ==
  ASSUME PInv, NEW w \in Worker, CheckPhase(w)
  PROVE  PInv'
<1>. DEFINE p == tx[w].phase
            x == [tx[w] EXCEPT !.stage = "checked"]
<1>1. /\ tx \in [Worker -> Tx] /\ clock \in Nat /\ TransitionSound(w)
      /\ tx[w].op = "transition" /\ tx[w].stage = "locked"
      /\ tx[w].to = "completed" => PendingMilestones(p) = {}
      /\ tx[w].to = "active" => UnmetDependencies(p) = {}
  BY DEF PInv, TxSound, CheckPhase, InStage
<1>2. tx[w] \in TransitionTx
  BY <1>1, TxFields
<1>3. x \in Tx
  BY <1>2 DEF Tx, TransitionTx
<1>4. tx' = [tx EXCEPT ![w] = x] /\ tx'[w] = x /\ \A v \in Worker \ {w} : tx'[v] = tx[v]
  BY <1>1 DEF CheckPhase
<1>5. /\ x.op = "transition" /\ x.stage = "checked" /\ x.phase = p /\ x.to = tx[w].to
  BY <1>1, <1>2 DEF TransitionTx
<1>6. tx[w].to = "completed" => MilestonesPassed(p)
  BY <1>1 DEF PendingMilestones, MilestonesPassed
<1>7. AcceptSound(w)' /\ TransitionSound(w)'
  BY <1>1, <1>4, <1>5, <1>6
  DEF AcceptSound, TransitionSound, CheckPhase, rows, MilestonesPassed, UnmetDependencies, Present
<1>8. SoleHolder(w)'
  BY <1>1, <1>4, <1>5 DEF SoleHolder, Accepting, PInv, TxSound, OneTransition
<1>. HIDE DEF x
<1>. QED
  BY <1>1, <1>3, <1>4, <1>7, <1>8, TxStep DEF CheckPhase

-----------------------------------------------------------------------------
(* Steps that write rows.                                                  *)

\* What never changes of a plan revision.
PlanGrows ==
    /\ plan' \in Seq(PlanRevision)
    /\ Len(plan) <= Len(plan')
    /\ \A r \in 1..Len(plan) : /\ plan'[r].by = plan[r].by
                                /\ plan'[r].manifest = plan[r].manifest

\* More or newly approved revisions disturb nothing.
LEMMA PlanStep ==
  ASSUME PInv, PlanGrows, UNCHANGED <<effective, generation, rows, product, activity, tx, clock>>
  PROVE  PInv'
<1>. USE DEF rows
<1>1. Len(plan) \in Nat /\ Len(plan') \in Nat /\ effective \in 0..Len(plan)
  BY DEF PInv, RowsSound, StoredType, PlanGrows
<1>2. /\ \A r \in 1..Len(plan) : r \in 1..Len(plan')
      /\ effective # 0 => effective \in 1..Len(plan)
      /\ effective \in 0..Len(plan')
  BY <1>1 DEF PlanGrows
<1>3. effective # 0 => /\ plan'[effective].by = plan[effective].by
                       /\ plan'[effective].manifest = plan[effective].manifest
  BY <1>2 DEF PlanGrows
<1>4. StoredType'
  BY <1>2 DEF PInv, RowsSound, StoredType, PlanGrows
<1>5. ProjectionMatchesPlan' /\ EffectiveValid'
  BY <1>3 DEF PInv, RowsSound, ProjectionMatchesPlan, EffectiveValid, Present
<1>6. PassedUnderThisPlan' /\ RecordsKeepTheirRows'
  BY DEF PInv, RowsSound, PassedUnderThisPlan, RecordsKeepTheirRows, DecisionsOn, Present
<1>7. DecisionsOfPlans' /\ DecisionIndependent'
  BY <1>2 DEF PInv, RowsSound, DecisionsOfPlans, DecisionIndependent, PlanGrows
<1>8. ASSUME NEW w \in Worker
      PROVE  TransitionSound(w)' /\ AcceptSound(w)'
  <2>1. TransitionSound(w) /\ AcceptSound(w)
    BY DEF PInv, TxSound
  <2>2. TransitionSound(w)'
    BY <2>1 DEF TransitionSound, MilestonesPassed, UnmetDependencies, Present
  <2>3. AcceptSound(w)'
    BY <2>1, <1>3 DEF AcceptSound, EvidenceSound, Latest, Present
  <2>. QED
    BY <2>2, <2>3
<1>. QED
  BY <1>4, <1>5, <1>6, <1>7, <1>8
  DEF PInv, RowsSound, TxSound, OneTransition, OneAcceptance, Accepting

LEMMA RevisePlanSound ==
  ASSUME PInv, NEW u \in User, NEW M \in Manifest, RevisePlan(u, M)
  PROVE  PInv'
<1>1. [by |-> u, approvedBy |-> Nobody, manifest |-> M] \in PlanRevision
  BY ManifestAssumption DEF PlanRevision
<1>2. plan \in Seq(PlanRevision) /\ Len(plan) \in Nat
  BY DEF PInv, RowsSound, StoredType
<1>3. PlanGrows
  BY <1>1, <1>2, AppendType DEF RevisePlan, PlanGrows
<1>. QED
  BY <1>3, PlanStep DEF RevisePlan

LEMMA ApprovePlanRevisionSound ==
  ASSUME PInv, NEW u \in User, ApprovePlanRevision(u)
  PROVE  PInv'
<1>1. /\ plan \in Seq(PlanRevision) /\ Len(plan) \in Nat /\ DOMAIN plan = 1..Len(plan)
      /\ \A r \in 1..Len(plan) : plan[r] \in PlanRevision
  BY DEF PInv, RowsSound, StoredType
<1>2. plan' = [plan EXCEPT ![Len(plan)].approvedBy = u]
  BY DEF ApprovePlanRevision
<1>3. plan' \in [DOMAIN plan -> PlanRevision]
  BY <1>1, <1>2 DEF PlanRevision
<1>4. plan' \in Seq(PlanRevision) /\ Len(plan') = Len(plan)
  BY <1>1, <1>3, MapType
<1>5. \A r \in 1..Len(plan) : /\ plan'[r].by = plan[r].by
                              /\ plan'[r].manifest = plan[r].manifest
  BY <1>1, <1>2 DEF PlanRevision
<1>6. PlanGrows
  BY <1>1, <1>4, <1>5 DEF PlanGrows
<1>. QED
  BY <1>6, PlanStep DEF ApprovePlanRevision

\* While rows are free, no transaction is known to hold anything.
LEMMA FreeSound ==
  ASSUME PInv, RowsFree, tx' = tx, NEW w \in Worker
  PROVE  TransitionSound(w)' /\ AcceptSound(w)'
<1>1. tx[w].op = "transition" => tx[w].phase \in Phase
  BY TxFields DEF PInv, TxSound, TransitionTx
<1>2. tx[w].op = "accept" => tx[w].milestone \in Milestone /\ tx[w].stage \in {"begun", "locked", "deciding"}
  BY TxFields DEF PInv, TxSound, AcceptTx
<1>3. tx[w].op # "transition"
  BY <1>1 DEF RowsFree, PhaseHeld
<1>4. tx[w].op = "accept" => tx[w].stage = "begun"
  BY <1>2 DEF RowsFree, MilestoneHeld
<1>5. AcceptSound(w)
  BY DEF PInv, TxSound
<1>. QED
  BY <1>3, <1>4, <1>5 DEF TransitionSound, AcceptSound

\* What ApplyPlan leaves: the rows of the manifest, of a new generation.
LEMMA ProjectedRows ==
  ASSUME StoredType, NEW r \in DOMAIN plan, ApplyPlan(r)
  PROVE  /\ plan[r].manifest \in ManifestType
         /\ \A p \in Phase :
               /\ phase'[p] \in PhaseRow
               /\ Present(phase, p)' <=> p \in plan[r].manifest.phases
               /\ p \in plan[r].manifest.phases =>
                     /\ phase'[p].status = IF Present(phase, p) THEN phase[p].status
                                          ELSE "not_started"
                     /\ phase'[p].deps = plan[r].manifest.deps[p]
                     /\ phase'[p].generation = generation'
         /\ \A m \in Milestone :
               /\ milestone'[m] \in MilestoneRow
               /\ Present(milestone, m)' <=> m \in plan[r].manifest.milestones
               /\ m \in plan[r].manifest.milestones =>
                     /\ milestone'[m].status = "pending"
                     /\ milestone'[m].phase = plan[r].manifest.phaseOf[m]
                     /\ milestone'[m].deliverables = plan[r].manifest.deliverables[m]
                     /\ milestone'[m].generation = generation'
               /\ milestone'[m].status # "passed"
<1>. DEFINE M == plan[r].manifest
<1>1. M \in ManifestType /\ generation \in Nat /\ generation' = generation + 1 /\ generation' \in Nat
  BY ManifestFields DEF StoredType, ApplyPlan
<1>2. ASSUME NEW p \in Phase
      PROVE  /\ phase'[p] \in PhaseRow
             /\ Present(phase, p)' <=> p \in M.phases
             /\ p \in M.phases => /\ phase'[p].status = IF Present(phase, p) THEN phase[p].status
                                                        ELSE "not_started"
                                  /\ phase'[p].deps = M.deps[p]
                                  /\ phase'[p].generation = generation'
  <2>1. phase'[p] = ProjectedPhase(M, p, generation') /\ phase[p] \in PhaseRow
    BY <1>1 DEF ApplyPlan, StoredType
  <2>2. CASE p \in M.phases
    BY <1>1, <2>1, <2>2 DEF ProjectedPhase, ManifestType, PhaseRow, Present
  <2>3. CASE p \notin M.phases
    BY <1>1, <2>1, <2>3 DEF ProjectedPhase, PhaseRow, Present
  <2>. QED
    BY <2>2, <2>3
<1>3. ASSUME NEW m \in Milestone
      PROVE  /\ milestone'[m] \in MilestoneRow
             /\ Present(milestone, m)' <=> m \in M.milestones
             /\ m \in M.milestones => /\ milestone'[m].status = "pending"
                                      /\ milestone'[m].phase = M.phaseOf[m]
                                      /\ milestone'[m].deliverables = M.deliverables[m]
                                      /\ milestone'[m].generation = generation'
             /\ milestone'[m].status # "passed"
  <2>1. milestone'[m] = ProjectedMilestone(M, m, generation') /\ milestone[m] \in MilestoneRow
    BY <1>1 DEF ApplyPlan, StoredType
  <2>2. CASE m \in M.milestones
    BY <1>1, <2>1, <2>2 DEF ProjectedMilestone, ManifestType, MilestoneRow, Present
  <2>3. CASE m \notin M.milestones
    BY <1>1, <2>1, <2>3 DEF ProjectedMilestone, MilestoneRow, Present
  <2>. QED
    BY <2>2, <2>3
<1>. QED
  BY <1>1, <1>2, <1>3

LEMMA ApplyPlanSound ==
  ASSUME PInv, NEW r \in DOMAIN plan, ApplyPlan(r)
  PROVE  PInv'
<1>. DEFINE M == plan[r].manifest
<1>1. StoredType /\ Len(plan) \in Nat /\ r \in 1..Len(plan) /\ r # 0
  BY StoredFields DEF PInv, RowsSound, StoredType
<1>2. /\ effective' = r /\ generation' \in Nat /\ generation \in Nat
      /\ UNCHANGED <<plan, decisions, product, activity, tx, clock>>
      /\ RowsFree /\ ValidManifest(M) /\ DeletionsAllowed(M)
  BY <1>1 DEF ApplyPlan, StoredType
<1>3. /\ M \in ManifestType
      /\ \A p \in Phase :
            /\ phase'[p] \in PhaseRow
            /\ phase'[p].status # "absent" <=> p \in M.phases
            /\ p \in M.phases => /\ phase'[p].status = IF Present(phase, p) THEN phase[p].status
                                                       ELSE "not_started"
                                 /\ phase'[p].deps = M.deps[p]
                                 /\ phase'[p].generation = generation'
      /\ \A m \in Milestone :
            /\ milestone'[m] \in MilestoneRow
            /\ milestone'[m].status # "absent" <=> m \in M.milestones
            /\ m \in M.milestones => /\ milestone'[m].phase = M.phaseOf[m]
                                     /\ milestone'[m].deliverables = M.deliverables[m]
                                     /\ milestone'[m].generation = generation'
            /\ milestone'[m].status # "passed"
  BY <1>1, ProjectedRows DEF Present
<1>4. StoredType'
  <2>1. phase' \in [Phase -> PhaseRow]
    BY <1>3 DEF ApplyPlan
  <2>2. milestone' \in [Milestone -> MilestoneRow]
    BY <1>3 DEF ApplyPlan
  <2>. QED
    BY <1>1, <1>2, <2>1, <2>2 DEF StoredType
<1>. HIDE DEF M
<1>5. ProjectionMatchesPlan'
  <2>1. plan'[effective'].manifest = M
    BY <1>2 DEF M
  <2>2. /\ M.phases = {p \in Phase : phase'[p].status # "absent"}
        /\ M.milestones = {m \in Milestone : milestone'[m].status # "absent"}
    BY <1>3 DEF ManifestType
  <2>3. /\ \A p \in M.phases : phase'[p].deps = M.deps[p] /\ phase'[p].generation = generation'
        /\ \A m \in M.milestones :
              /\ milestone'[m].phase = M.phaseOf[m]
              /\ milestone'[m].deliverables = M.deliverables[m]
              /\ milestone'[m].generation = generation'
    BY <1>3 DEF ManifestType
  <2>. QED
    BY <1>1, <1>2, <2>1, <2>2, <2>3 DEF ProjectionMatchesPlan, Present
<1>6. EffectiveValid'
  <2>1. plan'[effective'].manifest = M
    BY <1>2 DEF M
  <2>2. \A T \in SUBSET M.phases : ~Knot(M, T)
    BY <1>2, <1>3, CycleSearchIsExact DEF ValidManifest
  <2>3. \A p \in M.phases : M.deps[p] \subseteq M.phases
    BY <1>2 DEF ValidManifest
  <2>. QED
    BY <2>1, <2>2, <2>3 DEF EffectiveValid
<1>7. PassedUnderThisPlan'
  BY <1>3 DEF PassedUnderThisPlan
<1>8. RecordsKeepTheirRows'
  <2>1. ASSUME NEW p \in activity
        PROVE  phase'[p].status \in {"active", "completed"}
    BY <1>1, <1>2, <1>3, <2>1
    DEF PInv, RowsSound, RecordsKeepTheirRows, DeletionsAllowed, Present, StoredType
  <2>2. ASSUME NEW x \in decisions
        PROVE  milestone'[x.milestone].status # "absent"
    <3>1. x.milestone \in Milestone
      BY <1>1 DEF StoredType, GateDecision
    <3>. QED
      BY <1>2, <1>3, <3>1 DEF DeletionsAllowed
  <2>. QED
    BY <1>2, <2>1, <2>2 DEF RecordsKeepTheirRows, Present
<1>9. DecisionIndependent' /\ DecisionsOfPlans'
  BY <1>2 DEF PInv, RowsSound, DecisionIndependent, DecisionsOfPlans
<1>10. \A w \in Worker : TransitionSound(w)' /\ AcceptSound(w)'
  BY <1>2, FreeSound
<1>. QED
  BY <1>2, <1>4, <1>5, <1>6, <1>7, <1>8, <1>9, <1>10
  DEF PInv, RowsSound, TxSound, OneTransition, OneAcceptance, Accepting

\* A command on a deliverable leaves the ones taken as evidence alone.
LEMMA ProductSound ==
  ASSUME PInv, NEW d \in Product, NEW status \in {"draft", "approved", "obsolete"},
         NEW authors \in Seq(User), authors # <<>>, ProductCommand(d, status, authors)
  PROVE  PInv'
<1>1. /\ ~Shared(d)
      /\ product' = [product EXCEPT ![d] = [status |-> status, authors |-> authors]]
      /\ UNCHANGED <<plan, effective, generation, phase, milestone, decisions, activity, tx, clock>>
  BY DEF ProductCommand, plans, rows
<1>2. product \in [Product -> ProductRow] /\ \A c \in Product : product[c].authors # <<>>
  BY DEF PInv, RowsSound, StoredType
<1>3. /\ product' \in [Product -> ProductRow]
      /\ \A c \in Product \ {d} : product'[c] = product[c]
      /\ product'[d].authors = authors
  BY <1>1, <1>2 DEF ProductRow
<1>4. StoredType'
  BY <1>1, <1>2, <1>3 DEF PInv, RowsSound, StoredType
<1>5. /\ ProjectionMatchesPlan' /\ PassedUnderThisPlan' /\ DecisionIndependent'
      /\ RecordsKeepTheirRows' /\ EffectiveValid' /\ DecisionsOfPlans'
  BY <1>1 DEF PInv, RowsSound, ProjectionMatchesPlan, PassedUnderThisPlan, DecisionIndependent,
     RecordsKeepTheirRows, EffectiveValid, DecisionsOfPlans, DecisionsOn, Present
<1>6. ASSUME NEW w \in Worker
      PROVE  TransitionSound(w)' /\ AcceptSound(w)'
  <2>1. TransitionSound(w) /\ AcceptSound(w)
    BY DEF PInv, TxSound
  <2>2. TransitionSound(w)'
    BY <1>1, <2>1 DEF TransitionSound, MilestonesPassed, UnmetDependencies, Present
  <2>3. ASSUME tx[w].op = "accept", tx[w].stage = "deciding", NEW e \in tx[w].evidence
        PROVE  EvidenceSound(w, e)'
    <3>1. e.wp # d
      BY <1>1, <2>3 DEF Shared
    <3>2. e.wp \in Product
      <4>1. tx[w] \in AcceptTx
        BY <2>3, TxFields DEF PInv, TxSound
      <4>. QED
        BY <2>3, <4>1 DEF AcceptTx, Evidence
    <3>3. EvidenceSound(w, e)
      BY <2>1, <2>3 DEF AcceptSound
    <3>. QED
      BY <1>1, <1>3, <3>1, <3>2, <3>3 DEF EvidenceSound, Latest
  <2>4. AcceptSound(w)'
    BY <1>1, <2>1, <2>3 DEF AcceptSound, Present
  <2>. QED
    BY <2>2, <2>4
<1>. QED
  BY <1>1, <1>4, <1>5, <1>6
  DEF PInv, RowsSound, TxSound, OneTransition, OneAcceptance, Accepting

LEMMA ProductStep ==
  ASSUME PInv, NEW d \in Product,
         (\E u \in User : ReviseProduct(u, d)) \/ ApproveProduct(d) \/ RetireProduct(d)
  PROVE  PInv'
<1>1. product[d].authors \in Seq(User) /\ product[d].authors # <<>>
  BY DEF PInv, RowsSound, StoredType, ProductRow
<1>2. ASSUME NEW u \in User
      PROVE  Append(product[d].authors, u) \in Seq(User) /\ Append(product[d].authors, u) # <<>>
  <2>1. /\ Append(product[d].authors, u) \in Seq(User)
        /\ Len(Append(product[d].authors, u)) = Len(product[d].authors) + 1
        /\ Len(product[d].authors) \in Nat
    BY <1>1, AppendType
  <2>. QED
    BY <2>1
<1>. QED
  BY <1>1, <1>2, ProductSound DEF ReviseProduct, ApproveProduct, RetireProduct

LEMMA LogWorkSound ==
  ASSUME PInv, NEW p \in Phase, LogWork(p)
  PROVE  PInv'
<1>1. /\ activity' = activity \cup {p} /\ phase[p].status = "active"
      /\ UNCHANGED <<plan, effective, generation, phase, milestone, decisions, product, tx, clock>>
  BY DEF LogWork, plans, rows
<1>2. StoredType' /\ RecordsKeepTheirRows'
  BY <1>1 DEF PInv, RowsSound, StoredType, RecordsKeepTheirRows, Present
<1>3. /\ ProjectionMatchesPlan' /\ PassedUnderThisPlan' /\ DecisionIndependent'
      /\ EffectiveValid' /\ DecisionsOfPlans'
  BY <1>1 DEF PInv, RowsSound, ProjectionMatchesPlan, PassedUnderThisPlan, DecisionIndependent,
     EffectiveValid, DecisionsOfPlans, DecisionsOn, Present
<1>4. TxSound'
  BY <1>1 DEF PInv, TxSound, TransitionSound, AcceptSound, EvidenceSound, Latest,
     MilestonesPassed, UnmetDependencies, Present, OneTransition, OneAcceptance, Accepting
<1>. QED
  BY <1>2, <1>3, <1>4 DEF PInv, RowsSound

\* What a decision is when it is committed.
LEMMA NewDecision ==
  ASSUME PInv, NEW w \in Worker, CommitAccept(w)
  PROVE  LET m == tx[w].milestone
             x == [milestone |-> m, plan |-> tx[w].plan, generation |-> tx[w].row.generation,
                   by |-> tx[w].by, at |-> tx[w].at, evidence |-> tx[w].evidence]
         IN  /\ decisions' = decisions \cup {x} /\ x \in GateDecision
             /\ tx[w].op = "accept" /\ Accepting(w) /\ m \in Milestone
             /\ tx[w].row = milestone[m] /\ Present(milestone, m)
             /\ effective # 0 /\ x.plan = effective /\ effective \in 1..Len(plan)
             /\ x.generation = generation
             /\ x.by # plan[effective].by
             /\ {e.wp : e \in x.evidence} = milestone[m].deliverables
             /\ \A e \in x.evidence : EvidenceSound(w, e)
             /\ milestone[m].deliverables = plan[effective].manifest.deliverables[m]
<1>. DEFINE m == tx[w].milestone
            x == [milestone |-> m, plan |-> tx[w].plan, generation |-> tx[w].row.generation,
                  by |-> tx[w].by, at |-> tx[w].at, evidence |-> tx[w].evidence]
<1>1. /\ tx[w].op = "accept" /\ tx[w].stage = "deciding" /\ EvidenceTaken(w)
      /\ decisions' = decisions \cup {x}
  BY DEF CommitAccept, InStage
<1>2. tx[w] \in AcceptTx
  BY <1>1, TxFields DEF PInv, TxSound
<1>3. /\ tx[w].row = milestone[m] /\ Present(milestone, m)
      /\ effective # 0 /\ tx[w].plan = effective /\ tx[w].by # plan[effective].by
      /\ \A e \in tx[w].evidence : EvidenceSound(w, e)
  BY <1>1 DEF PInv, TxSound, AcceptSound
<1>4. m \in Milestone /\ tx[w].row \in MilestoneRow /\ x \in GateDecision
  BY <1>2 DEF AcceptTx, GateDecision, MilestoneRow
<1>5. {e.wp : e \in tx[w].evidence} = milestone[m].deliverables
  BY <1>1, <1>3 DEF EvidenceTaken, EvidenceSound
<1>6. /\ milestone[m].generation = generation
      /\ milestone[m].deliverables = plan[effective].manifest.deliverables[m]
  BY <1>3, <1>4 DEF PInv, RowsSound, ProjectionMatchesPlan, Present
<1>7. effective \in 1..Len(plan)
  BY <1>3, StoredFields DEF PInv, RowsSound, StoredType
<1>. QED
  BY <1>1, <1>3, <1>4, <1>5, <1>6, <1>7 DEF Accepting

LEMMA CommitAcceptSound ==
  ASSUME PInv, NEW w \in Worker, CommitAccept(w)
  PROVE  PInv'
<1>. DEFINE m == tx[w].milestone
            x == [milestone |-> m, plan |-> tx[w].plan, generation |-> tx[w].row.generation,
                  by |-> tx[w].by, at |-> tx[w].at, evidence |-> tx[w].evidence]
<1>1. /\ decisions' = decisions \cup {x} /\ x \in GateDecision
      /\ tx[w].op = "accept" /\ Accepting(w) /\ m \in Milestone /\ Present(milestone, m)
      /\ x.plan = effective /\ effective \in 1..Len(plan) /\ x.generation = generation
      /\ x.by # plan[effective].by
      /\ {e.wp : e \in x.evidence} = milestone[m].deliverables
      /\ \A e \in x.evidence : EvidenceSound(w, e)
  BY NewDecision
<1>2. x.milestone = m /\ x.by = tx[w].by
  OBVIOUS
<1>3. /\ milestone' = [milestone EXCEPT ![m].status = "passed"]
      /\ tx' = [tx EXCEPT ![w] = Idle]
      /\ UNCHANGED <<plan, effective, generation, phase, product, activity, clock>>
  BY DEF CommitAccept, plans
<1>. HIDE DEF x
<1>4. StoredType
  BY DEF PInv, RowsSound
<1>5. /\ milestone' \in [Milestone -> MilestoneRow]
      /\ \A n \in Milestone :
            /\ milestone'[n].phase = milestone[n].phase
            /\ milestone'[n].deliverables = milestone[n].deliverables
            /\ milestone'[n].generation = milestone[n].generation
            /\ milestone'[n].status # "absent" <=> milestone[n].status # "absent"
            /\ n # m => milestone'[n] = milestone[n]
            /\ milestone[n].status = "passed" => milestone'[n].status = "passed"
  BY <1>1, <1>3, <1>4 DEF StoredType, MilestoneRow, Present
<1>6. StoredType'
  BY <1>1, <1>3, <1>4, <1>5 DEF StoredType
<1>7. ProjectionMatchesPlan'
  BY <1>3, <1>4, <1>5 DEF PInv, RowsSound, ProjectionMatchesPlan, Present
<1>8. PassedUnderThisPlan'
  <2>. SUFFICES ASSUME NEW n \in Milestone, milestone'[n].status = "passed"
                PROVE  \E y \in decisions' :
                          /\ y.milestone = n /\ y.generation = generation /\ y.plan = effective
                          /\ {e.wp : e \in y.evidence} = milestone[n].deliverables
    BY <1>3, <1>5 DEF PassedUnderThisPlan, DecisionsOn
  <2>1. CASE n = m
    BY <1>1, <1>2, <2>1
  <2>2. CASE n # m
    BY <1>1, <1>5, <2>2 DEF PInv, RowsSound, PassedUnderThisPlan, DecisionsOn
  <2>. QED
    BY <2>1, <2>2
<1>9. DecisionIndependent'
  BY <1>1, <1>2, <1>3 DEF PInv, RowsSound, DecisionIndependent, EvidenceSound
<1>10. DecisionsOfPlans' /\ EffectiveValid'
  BY <1>1, <1>3 DEF PInv, RowsSound, DecisionsOfPlans, EffectiveValid
<1>11. RecordsKeepTheirRows'
  <2>1. \A y \in decisions' : y.milestone \in Milestone
    BY <1>6 DEF StoredType, GateDecision
  <2>. QED
    BY <1>1, <1>2, <1>3, <1>5, <2>1 DEF PInv, RowsSound, RecordsKeepTheirRows, Present
<1>12. /\ tx' \in [Worker -> Tx] /\ tx'[w] = Idle
       /\ \A v \in Worker \ {w} : tx'[v] = tx[v]
  BY <1>3 DEF PInv, TxSound, Tx
<1>13. OneTransition' /\ OneAcceptance'
  BY <1>12 DEF PInv, TxSound, OneTransition, OneAcceptance, Accepting, Idle
<1>14. ASSUME NEW v \in Worker \ {w}
       PROVE  TransitionSound(v)' /\ AcceptSound(v)'
  <2>1. TransitionSound(v) /\ AcceptSound(v) /\ tx'[v] = tx[v]
    BY <1>12 DEF PInv, TxSound
  <2>2. TransitionSound(v)'
    BY <1>3, <1>5, <2>1 DEF TransitionSound, MilestonesPassed, UnmetDependencies, Present
  <2>3. Accepting(v) => tx[v].milestone # m /\ tx[v].milestone \in Milestone
    <3>1. tx[v].op = "accept" => tx[v].milestone \in Milestone
      BY TxFields DEF PInv, TxSound, AcceptTx
    <3>. QED
      BY <1>1, <3>1 DEF PInv, TxSound, OneAcceptance, Accepting
  <2>4. AcceptSound(v)'
    BY <1>3, <1>5, <2>1, <2>3 DEF AcceptSound, Accepting, EvidenceSound, Latest, Present
  <2>. QED
    BY <2>2, <2>4
<1>15. TransitionSound(w)' /\ AcceptSound(w)'
  BY <1>12, IdleSound
<1>. QED
  BY <1>3, <1>6, <1>7, <1>8, <1>9, <1>10, <1>11, <1>12, <1>13, <1>14, <1>15
  DEF PInv, RowsSound, TxSound

LEMMA CommitPhaseSound ==
  ASSUME PInv, NEW w \in Worker, CommitPhase(w)
  PROVE  PInv'
<1>. DEFINE p == tx[w].phase
            to == tx[w].to
<1>1. /\ tx[w].op = "transition" /\ tx[w].stage = "checked"
      /\ phase' = [phase EXCEPT ![p].status = to]
      /\ tx' = [tx EXCEPT ![w] = Idle]
      /\ UNCHANGED <<plan, effective, generation, milestone, decisions, product, activity, clock>>
  BY DEF CommitPhase, InStage, plans
<1>2. p \in Phase /\ to \in {"active", "completed"}
  BY <1>1, TxFields DEF PInv, TxSound, TransitionTx
<1>3. PhaseTransitionAllowed(phase[p].status, to)
  BY <1>1 DEF PInv, TxSound, TransitionSound
<1>4. StoredType
  BY DEF PInv, RowsSound
<1>. HIDE DEF p, to
<1>5. /\ phase' \in [Phase -> PhaseRow]
      /\ phase'[p].status = to
      /\ \A q \in Phase : /\ phase'[q].deps = phase[q].deps
                          /\ phase'[q].generation = phase[q].generation
                          /\ q # p => phase'[q] = phase[q]
  BY <1>1, <1>2, <1>4 DEF StoredType, PhaseRow
<1>6. \A q \in Phase : phase'[q].status # "absent" <=> phase[q].status # "absent"
  BY <1>2, <1>3, <1>5 DEF PhaseTransitionAllowed
<1>7. StoredType'
  BY <1>1, <1>4, <1>5 DEF StoredType
<1>8. ProjectionMatchesPlan'
  BY <1>1, <1>5, <1>6, StoredFields, <1>4
  DEF PInv, RowsSound, ProjectionMatchesPlan, Present
<1>9. RecordsKeepTheirRows'
  BY <1>1, <1>2, <1>5, <1>4 DEF PInv, RowsSound, RecordsKeepTheirRows, Present, StoredType
<1>10. PassedUnderThisPlan' /\ DecisionIndependent' /\ EffectiveValid' /\ DecisionsOfPlans'
  BY <1>1 DEF PInv, RowsSound, PassedUnderThisPlan, DecisionIndependent, EffectiveValid,
     DecisionsOfPlans, DecisionsOn
<1>11. /\ tx' \in [Worker -> Tx] /\ tx'[w] = Idle
       /\ \A v \in Worker \ {w} : tx'[v] = tx[v]
  BY <1>1 DEF PInv, TxSound, Tx
<1>12. OneTransition' /\ OneAcceptance'
  BY <1>11 DEF PInv, TxSound, OneTransition, OneAcceptance, Accepting, Idle
<1>13. ASSUME NEW v \in Worker \ {w}
       PROVE  TransitionSound(v)' /\ AcceptSound(v)'
  <2>1. TransitionSound(v) /\ AcceptSound(v) /\ tx'[v] = tx[v]
    BY <1>11 DEF PInv, TxSound
  <2>2. AcceptSound(v)'
    BY <1>1, <2>1 DEF AcceptSound, EvidenceSound, Latest, Present
  <2>3. ASSUME tx[v].op = "transition"
        PROVE  /\ tx[v].phase \in Phase /\ tx[v].phase # p
               /\ phase'[tx[v].phase] = phase[tx[v].phase]
    <3>1. tx[v].phase \in Phase
      BY <2>3, TxFields DEF PInv, TxSound, TransitionTx
    <3>2. tx[v].phase # p
      BY <1>1, <2>3 DEF PInv, TxSound, OneTransition, p
    <3>. QED
      BY <1>5, <3>1, <3>2
  <2>4. ASSUME tx[v].op = "transition", UnmetDependencies(tx[v].phase) = {}
        PROVE  UnmetDependencies(tx[v].phase)' = {}
    <3>. DEFINE q == tx[v].phase
    <3>1. q \in Phase /\ phase'[q] = phase[q] /\ tx'[v].phase = q
      BY <2>1, <2>3, <2>4
    <3>2. phase[q].deps \subseteq Phase
      BY <1>4, <3>1 DEF StoredType, PhaseRow
    <3>3. p \notin phase[q].deps
      BY <1>2, <1>3, <2>4 DEF UnmetDependencies, PhaseTransitionAllowed, Present
    <3>. QED
      BY <1>5, <2>4, <3>1, <3>2, <3>3 DEF UnmetDependencies, Present
  <2>5. TransitionSound(v)'
    BY <1>1, <2>1, <2>3, <2>4 DEF TransitionSound, MilestonesPassed, Present
  <2>. QED
    BY <2>2, <2>5
<1>14. TransitionSound(w)' /\ AcceptSound(w)'
  BY <1>11, IdleSound
<1>. QED
  BY <1>1, <1>7, <1>8, <1>9, <1>10, <1>11, <1>12, <1>13, <1>14
  DEF PInv, RowsSound, TxSound

\* A step that changes nothing.
LEMMA StutterSound ==
  ASSUME PInv, UNCHANGED vars
  PROVE  PInv'
<1>1. UNCHANGED <<plan, effective, generation, phase, milestone, decisions, product, activity,
                  tx, clock>>
  BY DEF vars, plans, rows
<1>2. RowsSound'
  BY <1>1 DEF PInv, RowsSound, StoredType, ProjectionMatchesPlan, PassedUnderThisPlan,
         DecisionIndependent, RecordsKeepTheirRows, EffectiveValid, DecisionsOfPlans,
         DecisionsOn, Present
<1>3. TxSound'
  BY <1>1 DEF PInv, TxSound, TransitionSound, AcceptSound, EvidenceSound, Latest,
     MilestonesPassed, UnmetDependencies, Present, OneTransition, OneAcceptance, Accepting
<1>. QED
  BY <1>2, <1>3 DEF PInv

-----------------------------------------------------------------------------
(* The inductive invariant.                                                *)

LEMMA InitSound ==
  ASSUME Init
  PROVE  PInv
<1>. PICK u \in User :
       plan = <<[by |-> u, approvedBy |-> Nobody, manifest |-> EmptyManifest]>>
  BY DEF Init
<1>1. /\ effective = 0 /\ generation = 0 /\ decisions = {} /\ activity = {} /\ clock = 0
      /\ phase = [p \in Phase |-> [status |-> "absent", deps |-> {}, generation |-> 0]]
      /\ milestone = [m \in Milestone |-> NoRow]
      /\ product \in [Product -> [status : {"draft"}, authors : {<<v>> : v \in User}]]
      /\ tx = [w \in Worker |-> Idle]
  BY DEF Init
<1>2. plan \in Seq(PlanRevision) /\ Len(plan) = 1
  BY ManifestAssumption DEF PlanRevision
<1>3. phase \in [Phase -> PhaseRow] /\ milestone \in [Milestone -> MilestoneRow]
  BY <1>1, NoRowType DEF PhaseRow
<1>4. ASSUME NEW d \in Product
      PROVE  product[d] \in ProductRow /\ product[d].authors # <<>>
  <2>1. PICK v \in User : product[d].authors = <<v>> /\ product[d].status = "draft"
    BY <1>1
  <2>2. product[d] = [status |-> "draft", authors |-> <<v>>]
    BY <1>1, <2>1
  <2>3. <<v>> \in Seq(User) /\ <<v>> # <<>>
    OBVIOUS
  <2>. QED
    BY <2>2, <2>3 DEF ProductRow
<1>5. product \in [Product -> ProductRow]
  BY <1>1, <1>4
<1>6. effective \in 0..Len(plan)
  BY <1>1, <1>2
<1>7. StoredType
  BY <1>1, <1>2, <1>3, <1>4, <1>5, <1>6 DEF StoredType
<1>8. NoRow.status = "absent" /\ Idle.op = "idle"
  BY DEF NoRow, Idle
<1>9. ProjectionMatchesPlan
  BY <1>1, <1>8 DEF ProjectionMatchesPlan, Present
<1>10. PassedUnderThisPlan
  BY <1>1, <1>8 DEF PassedUnderThisPlan
<1>11. DecisionIndependent /\ RecordsKeepTheirRows /\ EffectiveValid /\ DecisionsOfPlans
  BY <1>1 DEF DecisionIndependent, RecordsKeepTheirRows, EffectiveValid, DecisionsOfPlans
<1>12. TxSound
  BY <1>1, <1>8
  DEF TxSound, Tx, OneTransition, OneAcceptance, Accepting, TransitionSound, AcceptSound
<1>. QED
  BY <1>7, <1>9, <1>10, <1>11, <1>12 DEF PInv, RowsSound

LEMMA InvariantStep ==
  ASSUME PInv, [Next]_vars
  PROVE  PInv'
<1>1. ASSUME NEW u \in User, NEW M \in Manifest, RevisePlan(u, M)
      PROVE  PInv'
  BY <1>1, RevisePlanSound
<1>2. ASSUME NEW u \in User, ApprovePlanRevision(u)
      PROVE  PInv'
  BY <1>2, ApprovePlanRevisionSound
<1>3. ASSUME NEW r \in DOMAIN plan, ApplyPlan(r)
      PROVE  PInv'
  BY <1>3, ApplyPlanSound
<1>4. ASSUME NEW d \in Product,
             (\E u \in User : ReviseProduct(u, d)) \/ ApproveProduct(d) \/ RetireProduct(d)
      PROVE  PInv'
  BY <1>4, ProductStep
<1>5. ASSUME NEW p \in Phase, LogWork(p)
      PROVE  PInv'
  BY <1>5, LogWorkSound
<1>6. ASSUME NEW w \in Worker,
             \/ \E u \in User, m \in Milestone : BeginAccept(w, u, m)
             \/ LockMilestone(w)
             \/ ReadPlan(w)
             \/ \E d \in Product : TakeEvidence(w, d)
             \/ CommitAccept(w)
      PROVE  PInv'
  BY <1>6, BeginAcceptSound, LockMilestoneSound, ReadPlanSound, TakeEvidenceSound,
     CommitAcceptSound
<1>7. ASSUME NEW w \in Worker,
             \/ \E p \in Phase, to \in {"active", "completed"} : LockPhase(w, p, to)
             \/ CheckPhase(w)
             \/ CommitPhase(w)
             \/ Rollback(w)
      PROVE  PInv'
  BY <1>7, LockPhaseSound, CheckPhaseSound, CommitPhaseSound, RollbackSound
<1>8. ASSUME UNCHANGED vars
      PROVE  PInv'
  BY <1>8, StutterSound
<1>. QED
  BY <1>1, <1>2, <1>3, <1>4, <1>5, <1>6, <1>7, <1>8 DEF Next

\* What the stored rows and the open transactions keep at every step.
THEOREM Invariant == Spec => []PInv
<1>1. Init => PInv
  BY InitSound
<1>2. PInv /\ [Next]_vars => PInv'
  BY InvariantStep
<1>. QED
  BY <1>1, <1>2, PTL DEF Spec

\* Every variable has the type of its table or transaction.
THEOREM TypeCorrect == Spec => []TypeOK
<1>1. PInv => TypeOK
  BY TypeParts DEF PInv, RowsSound, TxSound
<1>. QED
  BY <1>1, Invariant, PTL

\* ApplyPlan leaves exactly the rows of the plan in force.
THEOREM RowsFollowPlan == Spec => []ProjectionMatchesPlan
<1>1. PInv => ProjectionMatchesPlan
  BY DEF PInv, RowsSound
<1>. QED
  BY <1>1, Invariant, PTL

\* A passed milestone rests on a decision of the plan in force.
THEOREM PassedByThisPlan == Spec => []PassedUnderThisPlan
<1>1. PInv => PassedUnderThisPlan
  BY DEF PInv, RowsSound
<1>. QED
  BY <1>1, Invariant, PTL

\* Nobody accepts a milestone of a plan or on a deliverable he wrote.
THEOREM Independence == Spec => []DecisionIndependent
<1>1. PInv => DecisionIndependent
  BY DEF PInv, RowsSound
<1>. QED
  BY <1>1, Invariant, PTL

\* Charged phases and decided milestones keep their rows.
THEOREM RecordsAreKept == Spec => []RecordsKeepTheirRows
<1>1. PInv => RecordsKeepTheirRows
  BY DEF PInv, RowsSound
<1>. QED
  BY <1>1, Invariant, PTL

-----------------------------------------------------------------------------
(* What completions, activations and decisions rest on.                    *)

\* ApplyPlan starts and completes no phase.
LEMMA ApplyKeepsStatus ==
  ASSUME PInv, NEW r \in DOMAIN plan, ApplyPlan(r), NEW p \in Phase,
         phase'[p].status \in {"active", "completed"}
  PROVE  phase'[p].status = phase[p].status
<1>1. /\ p \in plan[r].manifest.phases => phase'[p].status = IF Present(phase, p)
                                                           THEN phase[p].status
                                                           ELSE "not_started"
      /\ phase'[p].status # "absent" <=> p \in plan[r].manifest.phases
  BY ProjectedRows DEF PInv, RowsSound, Present
<1>. QED
  BY <1>1

\* Only the commit of a transition does.
LEMMA OnlyCommitPhase ==
  ASSUME PInv, [Next]_vars, NEW p \in Phase, phase'[p].status # phase[p].status,
         phase'[p].status \in {"active", "completed"}
  PROVE  \E w \in Worker : CommitPhase(w) /\ tx[w].phase = p /\ phase'[p].status = tx[w].to
<1>1. ~(\E r \in DOMAIN plan : ApplyPlan(r))
  BY ApplyKeepsStatus
<1>2. phase' # phase
  OBVIOUS
<1>3. \E w \in Worker : CommitPhase(w)
  BY <1>1, <1>2
  DEF Next, vars, plans, rows, RevisePlan, ApprovePlanRevision, ReviseProduct, ApproveProduct,
      RetireProduct, ProductCommand, LogWork, BeginAccept, LockMilestone, ReadPlan, TakeEvidence,
      CommitAccept, LockPhase, CheckPhase, Rollback
<1>4. PICK w \in Worker : CommitPhase(w)
  BY <1>3
<1>5. phase \in [Phase -> PhaseRow] /\ phase' = [phase EXCEPT ![tx[w].phase].status = tx[w].to]
  BY <1>4 DEF PInv, RowsSound, StoredType, CommitPhase
<1>6. tx[w].phase \in Phase
  BY <1>4, TxFields DEF PInv, TxSound, TransitionTx, CommitPhase, InStage
<1>7. tx[w].phase = p
  BY <1>5, <1>6
<1>8. phase'[p].status = tx[w].to
  BY <1>5, <1>7 DEF PhaseRow
<1>. QED
  BY <1>4, <1>7, <1>8

\* The plan in force, seen from a present row.
LEMMA RowsOfPlan ==
  ASSUME PInv, NEW M, M = plan[effective].manifest
  PROVE  /\ effective # 0 => M \in ManifestType
         /\ \A p \in Phase : Present(phase, p) =>
               /\ effective # 0 /\ p \in M.phases
               /\ phase[p].deps = M.deps[p]
               /\ M.deps[p] \subseteq M.phases
         /\ effective # 0 =>
               /\ \A p \in M.phases : Present(phase, p) /\ p \in Phase
               /\ \A m \in M.milestones :
                     /\ m \in Milestone /\ Present(milestone, m)
                     /\ milestone[m].phase = M.phaseOf[m]
<1>1. effective # 0 => effective \in 1..Len(plan)
  BY StoredFields DEF PInv, RowsSound, StoredType
<1>2. effective # 0 => M \in ManifestType
  BY <1>1, ManifestFields DEF PInv, RowsSound
<1>. QED
  BY <1>2 DEF PInv, RowsSound, ProjectionMatchesPlan, EffectiveValid, ManifestType

\* Completing a phase, however the check and the commit are interleaved with
\* plans applied and milestones accepted.
THEOREM CompletionRests == Spec => CompletionNeedsPassedMilestones
<1>1. ASSUME PInv, [Next]_vars, NEW p \in Phase,
             phase[p].status = "active", phase'[p].status = "completed",
             NEW m \in plan'[effective'].manifest.milestones,
             plan'[effective'].manifest.phaseOf[m] = p
      PROVE  /\ milestone'[m].status = "passed"
             /\ \E x \in decisions : /\ x.milestone = m /\ x.generation = generation'
                                     /\ x.plan = effective'
  <2>1. PICK w \in Worker : CommitPhase(w) /\ tx[w].phase = p /\ tx[w].to = "completed"
    BY <1>1, OnlyCommitPhase
  <2>2. UNCHANGED <<plan, effective, generation, milestone, decisions>>
    BY <2>1 DEF CommitPhase, plans
  <2>3. MilestonesPassed(p)
    BY <1>1, <2>1 DEF CommitPhase, InStage, PInv, TxSound, TransitionSound
  <2>4. m \in Milestone /\ Present(milestone, m) /\ milestone[m].phase = p
    <3>1. Present(phase, p)
      BY <1>1 DEF Present
    <3>. QED
      BY <1>1, <2>2, <3>1, RowsOfPlan
  <2>5. milestone[m].status = "passed"
    BY <2>3, <2>4 DEF MilestonesPassed
  <2>. QED
    BY <1>1, <2>2, <2>4, <2>5 DEF PInv, RowsSound, PassedUnderThisPlan, DecisionsOn
<1>2. PInv /\ [Next]_vars =>
        [\A p \in Phase : phase[p].status = "active" /\ phase'[p].status = "completed" =>
          \A m \in plan'[effective'].manifest.milestones :
              plan'[effective'].manifest.phaseOf[m] = p =>
                  /\ milestone'[m].status = "passed"
                  /\ \E x \in DecisionsOn(m, generation') : x.plan = effective']_vars
  <2>. SUFFICES ASSUME PInv, [Next]_vars, NEW p \in Phase,
                       phase[p].status = "active", phase'[p].status = "completed",
                       NEW m \in plan'[effective'].manifest.milestones,
                       plan'[effective'].manifest.phaseOf[m] = p
                PROVE  /\ milestone'[m].status = "passed"
                       /\ \E x \in DecisionsOn(m, generation') : x.plan = effective'
    OBVIOUS
  <2>. QED
    BY <1>1 DEF DecisionsOn
<1>. QED
  BY <1>2, Invariant, PTL DEF Spec, CompletionNeedsPassedMilestones

\* Activating a phase: the dependencies checked cannot be undone before the
\* commit.
THEOREM ActivationRests == Spec => ActivationNeedsCompletedDependencies
<1>1. ASSUME PInv, [Next]_vars, NEW p \in Phase,
             phase[p].status = "not_started", phase'[p].status = "active",
             NEW d \in plan'[effective'].manifest.deps[p]
      PROVE  phase'[d].status = "completed"
  <2>1. PICK w \in Worker : CommitPhase(w) /\ tx[w].phase = p /\ tx[w].to = "active"
    BY <1>1, OnlyCommitPhase
  <2>2. UNCHANGED <<plan, effective>> /\ phase' = [phase EXCEPT ![p].status = "active"]
    BY <2>1 DEF CommitPhase, plans
  <2>3. UnmetDependencies(p) = {}
    BY <1>1, <2>1 DEF CommitPhase, InStage, PInv, TxSound, TransitionSound
  <2>4. Present(phase, p)
    BY <1>1 DEF Present
  <2>5. d \in phase[p].deps /\ d \in Phase /\ Present(phase, d)
    BY <1>1, <2>2, <2>4, RowsOfPlan
  <2>6. phase[d].status = "completed" /\ d # p
    BY <1>1, <2>3, <2>5 DEF UnmetDependencies
  <2>. QED
    BY <1>1, <2>2, <2>5, <2>6 DEF PInv, RowsSound, StoredType
<1>2. PInv /\ [Next]_vars =>
        [\A p \in Phase : phase[p].status = "not_started" /\ phase'[p].status = "active" =>
          \A d \in plan'[effective'].manifest.deps[p] : phase'[d].status = "completed"]_vars
  BY <1>1
<1>. QED
  BY <1>2, Invariant, PTL DEF Spec, ActivationNeedsCompletedDependencies

\* The phases that are not completed do not all wait for each other: the plan
\* in force has no knot, and the rows have its dependencies.
LEMMA SomePhaseIsFree ==
  ASSUME PInv
  PROVE  SomePhaseCanProceed
<1>. DEFINE M == plan[effective].manifest
            T == {p \in Phase : Present(phase, p) /\ phase[p].status # "completed"}
<1>1. phase \in [Phase -> PhaseRow]
  BY DEF PInv, RowsSound, StoredType
<1>2. SUFFICES ASSUME T # {},
                      \A p \in Phase : /\ phase[p].status # "active"
                                       /\ phase[p].status = "not_started" =>
                                             UnmetDependencies(p) # {}
               PROVE  FALSE
  BY DEF SomePhaseCanProceed
<1>3. \A p \in T : /\ p \in Phase /\ effective # 0 /\ p \in M.phases
                   /\ phase[p].deps = M.deps[p]
                   /\ phase[p].deps \subseteq Phase
  <2>1. \A p \in T : p \in Phase /\ Present(phase, p)
    OBVIOUS
  <2>. HIDE DEF M, T
  <2>2. \A p \in T : effective # 0 /\ p \in M.phases /\ phase[p].deps = M.deps[p]
    BY <2>1, RowsOfPlan DEF M
  <2>. QED
    BY <1>1, <2>1, <2>2 DEF PhaseRow
<1>4. ASSUME NEW p \in T
      PROVE  M.deps[p] \cap T # {}
  <2>1. phase[p].status = "not_started"
    BY <1>1, <1>2 DEF PhaseRow, Present
  <2>2. PICK d \in phase[p].deps : Present(phase, d) /\ phase[d].status # "completed"
    BY <1>2, <2>1 DEF UnmetDependencies
  <2>3. d \in T
    BY <1>3, <2>2
  <2>. QED
    BY <1>3, <2>2, <2>3
<1>5. T \in SUBSET M.phases /\ Knot(M, T) /\ effective # 0
  <2>. HIDE DEF M, T
  <2>. QED
    BY <1>2, <1>3, <1>4 DEF Knot
<1>. QED
  <2>. HIDE DEF T
  <2>. QED
    BY <1>5 DEF PInv, RowsSound, EffectiveValid

\* A project is never stuck in its plan: while a phase is open, one is under
\* way or waits for no other.
THEOREM SomePhaseProceeds == Spec => []SomePhaseCanProceed
  BY Invariant, SomePhaseIsFree, PTL

\* Only the commit of an acceptance decides.
LEMMA OnlyCommitAccept ==
  ASSUME [Next]_vars, decisions' # decisions
  PROVE  \E w \in Worker : CommitAccept(w)
  BY DEF Next, vars, plans, rows, RevisePlan, ApprovePlanRevision, ApplyPlan, ReviseProduct,
      ApproveProduct, RetireProduct, ProductCommand, LogWork, BeginAccept, LockMilestone, ReadPlan,
      TakeEvidence, CommitPhase, LockPhase, CheckPhase, Rollback

\* A decision is about what stands when it is committed.
THEOREM DecisionsAreCurrent == Spec => DecisionEvidenceCurrent
<1>1. ASSUME PInv, [Next]_vars, NEW x \in decisions' \ decisions
      PROVE  /\ x.plan = effective
             /\ {e.wp : e \in x.evidence} = plan[effective].manifest.deliverables[x.milestone]
             /\ EvidenceCurrent(x)
  <2>1. PICK w \in Worker : CommitAccept(w)
    BY <1>1, OnlyCommitAccept
  <2>. DEFINE m == tx[w].milestone
              y == [milestone |-> m, plan |-> tx[w].plan, generation |-> tx[w].row.generation,
                    by |-> tx[w].by, at |-> tx[w].at, evidence |-> tx[w].evidence]
  <2>2. /\ decisions' = decisions \cup {y} /\ y.plan = effective
        /\ {e.wp : e \in y.evidence} = plan[effective].manifest.deliverables[m]
        /\ \A e \in y.evidence : EvidenceSound(w, e)
    BY <1>1, <2>1, NewDecision
  <2>3. x = y /\ y.milestone = m
    BY <1>1, <2>2
  <2>. HIDE DEF y
  <2>. QED
    BY <2>2, <2>3 DEF EvidenceCurrent, EvidenceSound
<1>2. PInv /\ [Next]_vars =>
        [\A x \in decisions' \ decisions :
          /\ x.plan = effective
          /\ {e.wp : e \in x.evidence} = plan[effective].manifest.deliverables[x.milestone]
          /\ EvidenceCurrent(x)]_vars
  BY <1>1
<1>. QED
  BY <1>2, Invariant, PTL DEF Spec, DecisionEvidenceCurrent
=============================================================================
