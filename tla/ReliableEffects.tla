--------------------------- MODULE ReliableEffects ---------------------------
(***************************************************************************)
(* What the delivery engine promises to the code that emits events and to  *)
(* the code that registers handlers, without outbox, leases, batches or    *)
(* engines: once an event is committed, each of its subscribers owes it    *)
(* one run of its handler.  The duty is either performed, exactly once, or *)
(* given up for an administrator to look at; it is never performed for an  *)
(* event that was rolled back and never after it was given up.             *)
(***************************************************************************)
EXTENDS Naturals

CONSTANT Duty       \* pairs of an event and a subscriber

VARIABLES
    duty,           \* the state of each duty
    performed       \* how often its effect has been committed

vars == <<duty, performed>>

Init ==
    /\ duty = [d \in Duty |-> "none"]
    /\ performed = [d \in Duty |-> 0]

\* A business transaction commits an event with subscribers D.
Commit(D) ==
    /\ \A d \in D : duty[d] = "none"
    /\ duty' = [d \in Duty |-> IF d \in D THEN "owed" ELSE duty[d]]
    /\ UNCHANGED performed

Perform(d) ==
    /\ duty[d] = "owed"
    /\ duty' = [duty EXCEPT ![d] = "performed"]
    /\ performed' = [performed EXCEPT ![d] = @ + 1]

GiveUp(d) ==
    /\ duty[d] = "owed"
    /\ duty' = [duty EXCEPT ![d] = "given_up"]
    /\ UNCHANGED performed

Next ==
    \/ \E D \in SUBSET Duty : Commit(D)
    \/ \E d \in Duty : Perform(d) \/ GiveUp(d)

Spec == Init /\ [][Next]_vars

\* Nothing stays owed for ever.
FairSpec == Spec /\ \A d \in Duty : WF_vars(Perform(d) \/ GiveUp(d))
=============================================================================
