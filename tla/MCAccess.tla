------------------------------ MODULE MCAccess ------------------------------
(* An instance of Access for TLC. *)
EXTENDS Access, TLC

CONSTANTS ann, bob, t1, r1, r2

Permissions ==
    "system.administrator" :> {"access.grant", "access.revoke"} @@
    "project.owner" :> {"wp.submit"} @@
    "project.approver" :> {"wp.approve"}
Requests == Permutations({r1, r2})
=============================================================================
