------------------------- MODULE IndependentApproval -------------------------
(***************************************************************************)
(* What the approval of an artifact promises (ADR-009), without requests,  *)
(* assignments, statuses, row versions or calls: an exact revision is      *)
(* endorsed by one who did not write it, and only then approved by one who *)
(* did not write it either.  Both are evidence for good, but only for that *)
(* revision.  An artifact stands on the approval of its latest revision,   *)
(* until it is revised or withdrawn; what is in force was approved.        *)
(***************************************************************************)
EXTENDS Naturals, Sequences

CONSTANTS Person, Artifact

VARIABLES
    authors,        \* authors[a]: who wrote each revision of a
    endorsements,   \* revisions and who has endorsed them
    approvals,      \* revisions and who has approved them
    standing,       \* standing[a]: the approved revision a stands on, or 0
    inForce         \* inForce[a]: the revision in force, or 0

vars == <<authors, endorsements, approvals, standing, inForce>>

Signature(a, n, u) == [artifact |-> a, revision |-> n, by |-> u]
Carries(signatures, a, n) == \E u \in Person : Signature(a, n, u) \in signatures

Init ==
    /\ authors = [a \in Artifact |-> <<>>]
    /\ endorsements = {}
    /\ approvals = {}
    /\ standing = [a \in Artifact |-> 0]
    /\ inForce = [a \in Artifact |-> 0]

\* A new revision carries no signature, and the artifact stands no longer.
Write(u, a) ==
    /\ authors' = [authors EXCEPT ![a] = Append(@, u)]
    /\ standing' = [standing EXCEPT ![a] = 0]
    /\ UNCHANGED <<endorsements, approvals, inForce>>

Withdraw(a) ==
    /\ standing' = [standing EXCEPT ![a] = 0]
    /\ UNCHANGED <<authors, endorsements, approvals, inForce>>

\* n is the latest revision of a, and u did not write it.
Independent(u, a, n) ==
    /\ n = Len(authors[a])
    /\ n # 0
    /\ u # authors[a][n]

Endorse(u, a) ==
    LET n == Len(authors[a])
    IN  /\ Independent(u, a, n)
        /\ endorsements' = endorsements \cup {Signature(a, n, u)}
        /\ UNCHANGED <<authors, approvals, standing, inForce>>

Approve(u, a) ==
    LET n == Len(authors[a])
    IN  /\ Independent(u, a, n)
        /\ Carries(endorsements, a, n)
        /\ approvals' = approvals \cup {Signature(a, n, u)}
        /\ standing' = [standing EXCEPT ![a] = n]
        /\ UNCHANGED <<authors, endorsements, inForce>>

\* Of an artifact, any approved revision may come into force.
PutInForce(a, n) ==
    /\ Carries(approvals, a, n)
    /\ inForce' = [inForce EXCEPT ![a] = n]
    /\ UNCHANGED <<authors, endorsements, approvals, standing>>

Next ==
    \/ \E u \in Person, a \in Artifact : Write(u, a) \/ Endorse(u, a) \/ Approve(u, a)
    \/ \E a \in Artifact : Withdraw(a)
    \/ \E a \in Artifact : \E n \in 1..Len(authors[a]) : PutInForce(a, n)

Spec == Init /\ [][Next]_vars
=============================================================================
