------------------------------- MODULE Access -------------------------------
(***************************************************************************)
(* Who may do what: sessions, role bindings and the check every request    *)
(* goes through (internal/auth, internal/server/middleware.go, the role    *)
(* binding handlers, projectScopePermission), with two commands that rest  *)
(* on it, the submission of a plan for review and the decision on it.      *)
(*                                                                         *)
(* Granularity: a request takes one step to find its session, one to read  *)
(* the permissions it needs and then those of its command.  Its command is *)
(* one step when it is one statement; the grant of a review role and the   *)
(* submission are transactions at READ COMMITTED that hold a lock.         *)
(*                                                                         *)
(* Abstractions.  One project, whose creator owns it.  Users are never     *)
(* deactivated and role bindings never expire by themselves: no code does  *)
(* either.  What a command is about is chosen when it runs.  Passwords,    *)
(* tokens, CSRF secrets, cookies, reasons and the audit are left out.      *)
(***************************************************************************)
EXTENDS Naturals, Sequences

CONSTANTS
    User,             \* people
    Administrator,    \* the first one bootstrapped, creator of the project
    Token,            \* session tokens
    Request,          \* requests handled at once
    Role,             \* core.role_definitions
    RolePermission,   \* RolePermission[role]: its permission_keys
    AdministratorRole, OwnerRole,
    SystemGrant,      \* bound: the roles anybody is granted for the system
    ReviewRole,       \* roles the project end points grant
    ReviewPermission, \* wp.review, wp.approve
    None,             \* no user, no permission
    MaxBindings       \* bound: role bindings ever made

Permission == {"access.grant", "access.revoke", "wp.submit", "wp.approve"}

ASSUME RoleAssumption ==
    /\ RolePermission \in [Role -> SUBSET Permission]
    /\ {AdministratorRole, OwnerRole} \cup SystemGrant \cup ReviewRole \subseteq Role
    /\ ReviewPermission \subseteq Permission \ {"access.grant", "access.revoke"}
    /\ RolePermission[OwnerRole] \cap ReviewPermission = {}
ASSUME UserAssumption == Administrator \in User /\ None \notin User \cup Permission
ASSUME BoundsAssumption == MaxBindings \in Nat

VARIABLES
    users,     \* core.users
    binding,   \* core.role_bindings, in the order of their commits
    session,   \* session[t]: the user of the session of t that is in force
    request,   \* request[r]: the request handled
    assigned,  \* users asked for their decision on the plan
    decided    \* users who decided

people == <<users, binding>>
review == <<assigned, decided>>
vars == <<people, session, request, review>>

Scope == {"system", "project"}
BindingRecord == [user : User, role : Role, scope : Scope, by : User, revoked : BOOLEAN]
Stage == {"idle", "found", "allowed", "locked", "inserted", "checked"}
NoArgument == [user |-> None, role |-> None, binding |-> 0]

Bind(u, role, scope, by) ==
    [user |-> u, role |-> role, scope |-> scope, by |-> by, revoked |-> FALSE]

\* revoked: the bindings for the permission that had been revoked when the
\* request came, kept to state the properties; nothing reads it.
Idle == [stage |-> "idle", user |-> None, permission |-> None, revoked |-> {},
         arg |-> NoArgument]

\* The first administrator was bootstrapped and created the project.
Init ==
    /\ users = {Administrator}
    /\ binding = <<Bind(Administrator, AdministratorRole, "system", Administrator),
                   Bind(Administrator, OwnerRole, "project", Administrator)>>
    /\ session = [t \in Token |-> None]
    /\ request = [r \in Request |-> Idle]
    /\ assigned = {}
    /\ decided = {}

-----------------------------------------------------------------------------
(* Accounts and sessions.                                                  *)

Room == Len(binding) < MaxBindings

\* BootstrapAdministrator: the operator of the host makes a new account.
Bootstrap(u) ==
    /\ u \notin users
    /\ Room
    /\ users' = users \cup {u}
    /\ binding' = Append(binding, Bind(u, AdministratorRole, "system", u))
    /\ UNCHANGED <<session, request, review>>

FindActiveUserByLogin(u) == u \in users

Login(t, u) ==
    /\ session[t] = None
    /\ FindActiveUserByLogin(u)
    /\ session' = [session EXCEPT ![t] = u]
    /\ UNCHANGED <<people, request, review>>

\* RevokeSession by a logout, or expires_at goes by.  The token is of no use
\* again, and t stands for a new one.
EndSession(t) ==
    /\ session[t] # None
    /\ session' = [session EXCEPT ![t] = None]
    /\ UNCHANGED <<people, request, review>>

-----------------------------------------------------------------------------
(* The check of a request.                                                 *)

InForce(i) == ~binding[i].revoked
Confers(i, u, permission) ==
    binding[i].user = u /\ permission \in RolePermission[binding[i].role]

\* Faulty variant, to test RevocationIsEffective: revoked bindings still give
\* their permissions.
GivesEver(i, u, permission) == Confers(i, u, permission)
Gives(i, u, permission) == InForce(i) /\ Confers(i, u, permission)

ActivePermissions(u) ==
    {x \in Permission : \E i \in DOMAIN binding :
        binding[i].scope = "system" /\ Gives(i, u, x)}

\* Faulty variant, to test DecisionNeedsAnotherGrantor: a role granted for the
\* system counts in the project.
PermissionsAnywhere(u) ==
    {x \in Permission : \E i \in DOMAIN binding : Gives(i, u, x)}
ActiveProjectPermissions(u) ==
    {x \in Permission : \E i \in DOMAIN binding :
        binding[i].scope = "project" /\ Gives(i, u, x)}

\* The permission a command asks for decides the scope it is looked up in.
PermissionsFor(u, permission) ==
    IF permission \in {"access.grant", "access.revoke"}
    THEN ActivePermissions(u) ELSE ActiveProjectPermissions(u)

Done(r) == request' = [request EXCEPT ![r] = Idle]
Advance(r, stage, arg) == request' = [request EXCEPT ![r].stage = stage, ![r].arg = arg]
NotRequest == <<people, session, review>>

\* A request comes with a token; withSession finds who it is from.
FindActiveSession(r, t, permission) ==
    /\ request[r] = Idle
    /\ session[t] # None
    /\ request' = [request EXCEPT ![r] =
          [Idle EXCEPT !.stage = "found", !.user = session[t],
                       !.permission = permission,
                       !.revoked = {i \in DOMAIN binding :
                                       ~InForce(i) /\ Confers(i, session[t], permission)}]]
    /\ UNCHANGED NotRequest

CheckPermission(r) ==
    /\ request[r].stage = "found"
    /\ request[r].permission \in PermissionsFor(request[r].user, request[r].permission)
    /\ Advance(r, "allowed", NoArgument)
    /\ UNCHANGED NotRequest

Allowed(r, permission) == request[r].stage = "allowed" /\ request[r].permission = permission

\* Not allowed, refused by the command, failed or given up; what it had not
\* committed is undone.
Abandon(r) ==
    /\ request[r] # Idle
    /\ Done(r)
    /\ UNCHANGED NotRequest

-----------------------------------------------------------------------------
(* Role bindings.                                                          *)

GrantSystemRole(r, u, role) ==
    /\ Allowed(r, "access.grant")
    /\ u \in users
    /\ Room
    /\ binding' = Append(binding, Bind(u, role, "system", request[r].user))
    /\ Done(r)
    /\ UNCHANGED <<users, session, review>>

\* Faulty variant, to test OneReviewRole: no advisory lock.
NoLock(u, role) == TRUE

\* Nobody else is granting this role to this user: pg_advisory_xact_lock.
GrantLockFree(u, role) ==
    \A x \in Request : request[x].stage \in {"locked", "inserted"} =>
        request[x].arg.user # u \/ request[x].arg.role # role

\* GrantProjectReviewRole, up to its advisory lock.
LockGrant(r, u, role) ==
    /\ Allowed(r, "access.grant")
    /\ u \in users /\ u # request[r].user
    /\ GrantLockFree(u, role)
    /\ Advance(r, "locked", [NoArgument EXCEPT !.user = u, !.role = role])
    /\ UNCHANGED NotRequest

HasReviewRole(u, role) ==
    \E i \in DOMAIN binding : /\ InForce(i) /\ binding[i].scope = "project"
                              /\ binding[i].user = u /\ binding[i].role = role

\* INSERT ... WHERE NOT EXISTS, on the rows committed so far.
InsertGrant(r) ==
    /\ request[r].stage = "locked"
    /\ ~HasReviewRole(request[r].arg.user, request[r].arg.role)
    /\ Advance(r, "inserted", request[r].arg)
    /\ UNCHANGED NotRequest

CommitGrant(r) ==
    /\ request[r].stage = "inserted"
    /\ Room
    /\ binding' = Append(binding, Bind(request[r].arg.user, request[r].arg.role,
                                       "project", request[r].user))
    /\ Done(r)
    /\ UNCHANGED <<users, session, review>>

\* Faulty variant, to test AssigneeHoldsRole: the row is not locked FOR SHARE.
NoShare(i) == TRUE

\* No submission holds the row FOR SHARE.
RowFree(i) == \A x \in Request : request[x].stage = "checked" => request[x].arg.binding # i

Revoke(r, i) ==
    /\ Allowed(r, "access.revoke")
    /\ InForce(i)
    /\ RowFree(i)
    /\ binding' = [binding EXCEPT ![i].revoked = TRUE]
    /\ Done(r)
    /\ UNCHANGED <<users, session, review>>

\* The end point of the system revokes any binding, the one of the project
\* those of its review roles.
RevokeRoleBinding(r, i) == Revoke(r, i)
RevokeProjectReviewRole(r, i) ==
    /\ binding[i].scope = "project" /\ binding[i].role \in ReviewRole
    /\ Revoke(r, i)

-----------------------------------------------------------------------------
(* The review of the plan.                                                 *)

\* SubmitForReview, up to the check of who is to decide: a binding that makes
\* him able to is held FOR SHARE.  The author of the revision submits.
CheckAssignee(r, i) ==
    /\ Allowed(r, "wp.submit")
    /\ binding[i].scope = "project"
    /\ binding[i].user # request[r].user
    /\ \E x \in ReviewPermission : Gives(i, binding[i].user, x)
    /\ Advance(r, "checked", [NoArgument EXCEPT !.binding = i])
    /\ UNCHANGED NotRequest

CommitSubmission(r) ==
    /\ request[r].stage = "checked"
    /\ assigned' = assigned \cup {binding[request[r].arg.binding].user}
    /\ Done(r)
    /\ UNCHANGED <<people, session, decided>>

\* RecordDecision: of one who was assigned.
Decide(r) ==
    /\ \E x \in ReviewPermission : Allowed(r, x)
    /\ request[r].user \in assigned
    /\ decided' = decided \cup {request[r].user}
    /\ Done(r)
    /\ UNCHANGED <<people, session, assigned>>

-----------------------------------------------------------------------------
Next ==
    \/ \E u \in User : Bootstrap(u)
    \/ \E t \in Token : EndSession(t) \/ \E u \in User : Login(t, u)
    \/ \E r \in Request :
          \/ \E t \in Token, x \in Permission : FindActiveSession(r, t, x)
          \/ CheckPermission(r) \/ Abandon(r)
          \/ \E u \in User, role \in SystemGrant : GrantSystemRole(r, u, role)
          \/ \E u \in User, role \in ReviewRole : LockGrant(r, u, role)
          \/ InsertGrant(r) \/ CommitGrant(r)
          \/ \E i \in DOMAIN binding : \/ RevokeRoleBinding(r, i)
                                       \/ RevokeProjectReviewRole(r, i)
                                       \/ CheckAssignee(r, i)
          \/ CommitSubmission(r) \/ Decide(r)

Spec == Init /\ [][Next]_vars

-----------------------------------------------------------------------------
(* Properties.                                                             *)

TypeOK ==
    /\ users \subseteq User
    /\ binding \in Seq(BindingRecord)
    /\ session \in [Token -> users \cup {None}]
    /\ request \in [Request ->
          [stage : Stage, user : users \cup {None}, permission : Permission \cup {None},
           revoked : SUBSET (1..Len(binding)),
           arg : [user : User \cup {None}, role : ReviewRole \cup {None},
                  binding : 0..Len(binding)]]]
    /\ assigned \subseteq users
    /\ decided \subseteq assigned

\* A user holds a review role of the project through one binding at most,
\* whoever grants it at the same time: revoking it takes the role away.
OneReviewRole ==
    \A i, j \in DOMAIN binding :
        /\ InForce(i) /\ InForce(j)
        /\ binding[i].scope = "project" /\ binding[j].scope = "project"
        /\ binding[i].role \in ReviewRole /\ binding[i].role = binding[j].role
        /\ binding[i].user = binding[j].user
        => i = j

\* A revocation binds every request that comes after it (SWR-48): none is
\* allowed what it asks on bindings that had all been revoked when it came.
RevocationIsEffective ==
    \A r \in Request : request[r].stage \notin {"idle", "found"} =>
        \E i \in DOMAIN binding \ request[r].revoked :
            Confers(i, request[r].user, request[r].permission)

\* Nobody comes to an independent signature by granting himself a role
\* (SWR-43): who decides was given a role in the project by someone else, and
\* it had not been revoked when he asked.
DecisionNeedsAnotherGrantor ==
    [][\A r \in Request, u \in decided' \ decided :
          request[r].user = u /\ request'[r] # request[r] =>
              \E i \in DOMAIN binding \ request[r].revoked :
                  /\ Confers(i, u, request[r].permission)
                  /\ binding[i].scope = "project" /\ binding[i].by # u]_vars

\* When a plan goes to review, those asked to decide hold the role they need:
\* a revocation meanwhile waits for the submission or is seen by it.
AssigneeHoldsRole ==
    [][\A u \in assigned' \ assigned : \E i \in DOMAIN binding :
          /\ InForce(i) /\ binding[i].user = u /\ binding[i].scope = "project"
          /\ RolePermission[binding[i].role] \cap ReviewPermission # {}]_vars
=============================================================================
