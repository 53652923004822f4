-------------------------- MODULE MCPlanExecution --------------------------
(* Instances of PlanExecution for TLC. *)
EXTENDS PlanExecution, TLC

CONSTANTS ann, bob, p1, p2, m1, d1, w1, w2

\* The manifest with these phases, p1 waiting for before[1] and p2 for
\* before[2], and these milestones, m1 closing p1.
Make(phases, before1, before2, milestones) ==
    [phases |-> phases, deps |-> p1 :> before1 @@ p2 :> before2,
     milestones |-> milestones, phaseOf |-> m1 :> p1, deliverables |-> m1 :> {d1}]

Empty == Make({}, {}, {}, {})
Staged == Make({p1, p2}, {}, {p1}, {m1})
OnlySecond == Make({p2}, {}, {}, {})
Cyclic == Make({p1, p2}, {p2}, {p1}, {m1})
Manifests == {Staged, OnlySecond, Cyclic}

Slots == Permutations(Worker) \cup Permutations({ann, bob})
=============================================================================
