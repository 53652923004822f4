---------------------------- MODULE TraceImpact ----------------------------
(***************************************************************************)
(* Trace links between the work products of a project and the spread of    *)
(* suspicion when one of them gets a new revision                          *)
(* (internal/project/trace.go and automation_handlers.go).  A link says    *)
(* that its source rests on its target.  A revision only leaves an event;  *)
(* the handler of its delivery marks the links that depend on the work     *)
(* product, and a reviewer lifts the mark of a link he has looked at.      *)
(*                                                                         *)
(* Granularity: the handler takes one step for the snapshot of its UPDATE, *)
(* which holds the links it found, and one for its commit; the other       *)
(* commands are one statement or hold nothing they read.                   *)
(*                                                                         *)
(* Abstractions.  Links are of one kind and pin no revision.  Deliveries   *)
(* come in any order, later than the revision by any time, and are done    *)
(* again until one commits: EventDelivery says how.  The embedding, the    *)
(* audit and the events of the links are left out.                         *)
(***************************************************************************)
EXTENDS Naturals, FiniteSets

CONSTANTS
    WorkProduct,   \* work products of the project
    Handler,       \* handlers of after_revision_committed running at once
    Watched,       \* links whose history the properties follow
    MaxDepth,      \* length of a path at which the traversals stop, 100
    MaxLinks,      \* bound: links created
    MaxRevisions   \* bound: revisions committed

\* No path without a cycle is as long as the traversals go.
ASSUME DepthAssumption == MaxDepth \in Nat /\ MaxDepth > Cardinality(WorkProduct)
ASSUME SetsAssumption == IsFiniteSet(WorkProduct) /\ IsFiniteSet(Handler)
ASSUME BoundsAssumption == MaxLinks \in Nat /\ MaxRevisions \in Nat

Link == [source : WorkProduct, target : WorkProduct]
ASSUME WatchedAssumption == Watched \subseteq Link

VARIABLES
    links,     \* core.trace_links
    suspect,   \* those with is_suspect
    revisions, \* revisions committed so far
    due,       \* due[w]: deliveries of revisions of w not handled
    effect,    \* effect[h]: what handler h is marking
    unseen     \* for each watched link, the work products it depended on when they
               \* got revisions nobody has looked at; kept for the properties

vars == <<links, suspect, revisions, due, effect, unseen>>

NoEffect == [running |-> FALSE, of |-> {}, impact |-> {}]

Init ==
    /\ links = {}
    /\ suspect = {}
    /\ revisions = 0
    /\ due = [w \in WorkProduct |-> 0]
    /\ effect = [h \in Handler |-> NoEffect]
    /\ unseen = [l \in Watched |-> {}]

-----------------------------------------------------------------------------
(* The recursive queries.                                                  *)

Source(l) == l.source
Target(l) == l.target
BothEnds(l) == {l.source, l.target}

\* The rows of a WITH RECURSIVE query from w, by depth: a link, the work
\* products of the path to it and whether it closes a cycle, when it is not
\* followed.  From and To give the ends of a link in the direction of the
\* traversal, First the path of a first link and Seen what a later one adds.
Rows(w, From(_), To(_), First(_), Seen(_)) ==
    LET start == {[link |-> l, path |-> First(l), cycle |-> FALSE] :
                     l \in {x \in links : From(x) = w}}
        after(row) ==
            {[link |-> l, path |-> row.path \cup {Seen(l)}, cycle |-> Seen(l) \in row.path] :
                l \in {x \in links : From(x) = To(row.link)}}
        rows[n \in 1..MaxDepth] ==
            IF n = 1 THEN start
            ELSE UNION {after(row) : row \in {x \in rows[n - 1] : ~x.cycle}}
    IN  UNION {rows[n] : n \in 1..MaxDepth}

\* propagateSuspect: the links that rest on w, directly or not.  BothEnds,
\* right for the other query, would be a fault here and so test
\* ImpactIsClosure: every second link closes a cycle.
FirstOfImpact(l) == {l.target}
Impact(w) == {row.link : row \in Rows(w, Target, Source, FirstOfImpact, Target)}

\* TraverseTraceability: the links below w.  Source would be a fault here
\* and so tests TraversalIsComplete.
SeenByTraverse(l) == l.target
Traverse(w) == {row.link : row \in Rows(w, Source, Target, BothEnds, SeenByTraverse)}

\* What both are meant to find: the links reached from w, those in every
\* closed set that holds the first ones.
Closed(S, From(_), To(_)) ==
    \A l \in S, x \in links : From(x) = To(l) => x \in S
Reached(w, From(_), To(_)) ==
    {l \in links :
        \A S \in SUBSET links :
            {x \in links : From(x) = w} \subseteq S /\ Closed(S, From, To) => l \in S}
Dependents(w) == Reached(w, Target, Source)

-----------------------------------------------------------------------------
CreateTraceLink(l) ==
    /\ l \notin links
    /\ Cardinality(links) < MaxLinks
    /\ links' = links \cup {l}
    /\ UNCHANGED <<suspect, revisions, due, effect, unseen>>

\* A revision and its event, wp.revision_committed.
CommitRevision(w) ==
    /\ revisions < MaxRevisions
    /\ revisions' = revisions + 1
    /\ due' = [due EXCEPT ![w] = @ + 1]
    /\ LET found == Dependents(w)
       IN  unseen' = [l \in Watched |-> IF l \in found THEN unseen[l] \cup {w} ELSE unseen[l]]
    /\ UNCHANGED <<links, suspect, effect>>

\* The links a handler has found stay locked until it ends.
LinkFree(l) == \A h \in Handler : l \notin effect[h].impact

\* Deliveries are claimed one by one (EventDelivery).
\* Faulty variant, to test TypeOK: two handlers take the same delivery.
DueAtAll(w) == due[w] > 0
Unhandled(w) == due[w] > Cardinality({h \in Handler : w \in effect[h].of})

\* Faulty variant, to test SuspicionIsNotLost: only direct links are marked.
DirectImpact(w) == {l \in Impact(w) : l.target = w}
Marked(w) == Impact(w)

\* ApplyRevisionCommittedEffects, up to the snapshot of propagateSuspect.
BeginEffect(h, w) ==
    /\ ~effect[h].running
    /\ Unhandled(w)
    /\ LET found == Marked(w)
       IN  /\ \A l \in found : LinkFree(l)
           /\ effect' = [effect EXCEPT ![h] = [running |-> TRUE, of |-> {w}, impact |-> found]]
    /\ UNCHANGED <<links, suspect, revisions, due, unseen>>

\* Faulty variant, to test SuspectInTheEnd: the delivery is done without its
\* effect.
CommitNothing(h) == {}
CommitMarks(h) == effect[h].impact

\* The handler commits with its delivery.
CommitEffect(h) ==
    /\ effect[h].running
    /\ suspect' = suspect \cup CommitMarks(h)
    /\ due' = [w \in WorkProduct |-> IF w \in effect[h].of THEN due[w] - 1 ELSE due[w]]
    /\ effect' = [effect EXCEPT ![h] = NoEffect]
    /\ UNCHANGED <<links, revisions, unseen>>

\* The handler fails or dies and its delivery falls due again.
AbortEffect(h) ==
    /\ effect[h].running
    /\ effect' = [effect EXCEPT ![h] = NoEffect]
    /\ UNCHANGED <<links, suspect, revisions, due, unseen>>

\* One UPDATE, whatever revision the reviewer had in front of him.
AcknowledgeTraceLink(l) ==
    /\ l \in suspect
    /\ LinkFree(l)
    /\ suspect' = suspect \ {l}
    /\ unseen' = [k \in Watched |-> IF k = l THEN {} ELSE unseen[k]]
    /\ UNCHANGED <<links, revisions, due, effect>>

Effect(h) == CommitEffect(h) \/ \E w \in WorkProduct : BeginEffect(h, w)

Next ==
    \/ \E l \in Link : CreateTraceLink(l) \/ AcknowledgeTraceLink(l)
    \/ \E w \in WorkProduct : CommitRevision(w)
    \/ \E h \in Handler : Effect(h) \/ AbortEffect(h)

\* The engine goes on delivering what is due, and a handler does not fail for
\* ever (EventDelivery); nobody is bound to acknowledge anything.
Fairness == \A h \in Handler : WF_vars(\E w \in WorkProduct : BeginEffect(h, w))
                               /\ SF_vars(CommitEffect(h))

Spec == Init /\ [][Next]_vars /\ Fairness

-----------------------------------------------------------------------------
(* Properties.                                                             *)

TypeOK ==
    /\ links \subseteq Link
    /\ suspect \subseteq links
    /\ revisions \in Nat
    /\ due \in [WorkProduct -> Nat]
    /\ effect \in [Handler -> [running : BOOLEAN, of : SUBSET WorkProduct,
                               impact : SUBSET Link]]
    /\ unseen \in [Watched -> SUBSET WorkProduct]

\* The query of the suspicion finds exactly the links that rest on a work
\* product, through whatever cycles there are.
ImpactIsClosure == \A w \in WorkProduct : Impact(w) = Dependents(w)

\* So does the traversal shown to a user, downwards.
TraversalIsComplete == \A w \in WorkProduct : Traverse(w) = Reached(w, Source, Target)

\* A link that rested on a work product when it was revised is suspect, or
\* was looked at since, or the delivery that will mark it is still due: no
\* new link, acknowledgement or failing handler loses it.
SuspicionIsNotLost ==
    \A l \in Watched : unseen[l] # {} =>
        l \in suspect \/ \E w \in unseen[l] : due[w] > 0

\* So it becomes suspect in the end.
SuspectInTheEnd == \A l \in Watched : unseen[l] # {} ~> (l \in suspect \/ unseen[l] = {})
=============================================================================
