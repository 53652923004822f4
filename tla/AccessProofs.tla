----------------------------- MODULE AccessProofs -----------------------------
(***************************************************************************)
(* Proofs about Access, for any number of users, requests, sessions, roles *)
(* and bindings: the type invariant, that review roles are held once, that *)
(* revocations bind later requests and open submissions, and that nobody   *)
(* decides by a role he gave himself.                                      *)
(***************************************************************************)
EXTENDS Access, TLAPS

-----------------------------------------------------------------------------
(* What the properties rest on.                                            *)

\* The type of a request, given the users and bindings there are.
RequestRecord ==
    [stage : Stage, user : users \cup {None}, permission : Permission \cup {None},
     revoked : SUBSET (1..Len(binding)),
     arg : [user : User \cup {None}, role : ReviewRole \cup {None},
            binding : 0..Len(binding)]]

Granting(r) == request[r].stage \in {"locked", "inserted"}

\* A request is of a user there is, and what had been revoked stays so.
FromUser(r) ==
    /\ request[r].stage # "idle" => request[r].user \in users /\ request[r].permission \in Permission
    /\ \A i \in request[r].revoked : binding[i].revoked

\* A grant under way is to somebody else, and while the row is inserted and
\* not committed there is no other.
GrantSound(r) ==
    /\ Granting(r) => /\ request[r].arg.user \in users
                      /\ request[r].arg.user # request[r].user
                      /\ request[r].arg.role \in ReviewRole
    /\ request[r].stage = "inserted" => ~HasReviewRole(request[r].arg.user, request[r].arg.role)

\* The binding a submission checked is as it was checked.
Able(i) ==
    /\ i \in DOMAIN binding
    /\ InForce(i) /\ binding[i].scope = "project"
    /\ \E x \in ReviewPermission : Gives(i, binding[i].user, x)
SubmissionSound(r) == request[r].stage = "checked" => Able(request[r].arg.binding)

\* What the check of a request found is still a reason for it.
Reason(r, i) ==
    /\ Confers(i, request[r].user, request[r].permission)
    /\ request[r].permission \notin {"access.grant", "access.revoke"} =>
          binding[i].scope = "project"
CheckSound(r) ==
    request[r].stage \notin {"idle", "found"} =>
        \E i \in DOMAIN binding \ request[r].revoked : Reason(r, i)

Sound(r) == FromUser(r) /\ GrantSound(r) /\ SubmissionSound(r) /\ CheckSound(r)

BindingUsers == \A i \in DOMAIN binding : binding[i].user \in users

\* A role in the project comes from somebody else, or is the owner's.
ProjectGrants ==
    \A i \in DOMAIN binding : binding[i].scope = "project" =>
        binding[i].by # binding[i].user \/ binding[i].role = OwnerRole

\* The advisory lock has one holder.
OneGrantor ==
    \A r, q \in Request :
        /\ Granting(r) /\ Granting(q)
        /\ request[r].arg.user = request[q].arg.user
        /\ request[r].arg.role = request[q].arg.role
        => r = q

BindingsSound == BindingUsers /\ ProjectGrants /\ OneReviewRole

AInv == TypeOK /\ BindingsSound /\ OneGrantor /\ \A r \in Request : Sound(r)

-----------------------------------------------------------------------------
(* Bindings are only added and revoked.                                    *)

Kept ==
    /\ users \subseteq users'
    /\ binding' \in Seq(BindingRecord)
    /\ Len(binding) <= Len(binding')
    /\ \A i \in DOMAIN binding :
          /\ i \in DOMAIN binding'
          /\ binding'[i].user = binding[i].user
          /\ binding'[i].role = binding[i].role
          /\ binding'[i].scope = binding[i].scope
          /\ binding'[i].by = binding[i].by
          /\ binding[i].revoked => binding'[i].revoked

\* Appending a value to a sequence over S yields a sequence over S.
LEMMA AppendType ==
  ASSUME NEW S, NEW s \in Seq(S), NEW e \in S
  PROVE  /\ Append(s, e) \in Seq(S)
         /\ Len(Append(s, e)) = Len(s) + 1
         /\ DOMAIN Append(s, e) = 1..(Len(s) + 1)
         /\ DOMAIN s = 1..Len(s)
         /\ \A i \in 1..Len(s) : Append(s, e)[i] = s[i]
         /\ Append(s, e)[Len(s) + 1] = e
  OBVIOUS

\* A function on the domain of a sequence with values in S is a sequence.
LEMMA MapType ==
  ASSUME NEW S, NEW T, NEW s \in Seq(S), NEW f \in [DOMAIN s -> T]
  PROVE  f \in Seq(T) /\ Len(f) = Len(s)
<1>1. DOMAIN s = 1..Len(s) /\ Len(s) \in Nat
  OBVIOUS
<1>. QED
  BY <1>1

\* Every binding is a record of the table.
LEMMA BindingType ==
  ASSUME TypeOK
  PROVE  /\ DOMAIN binding = 1..Len(binding) /\ Len(binding) \in Nat
         /\ \A i \in DOMAIN binding : binding[i] \in BindingRecord
  BY DEF TypeOK

\* Nothing changes while no binding and no user does.
LEMMA SameKept ==
  ASSUME TypeOK, UNCHANGED people
  PROVE  Kept
  BY BindingType DEF TypeOK, people, Kept

\* A new binding leaves the others.
LEMMA MadeKept ==
  ASSUME TypeOK, users \subseteq users',
         NEW u \in User, NEW role \in Role, NEW scope \in Scope, NEW v \in User,
         binding' = Append(binding, Bind(u, role, scope, v))
  PROVE  /\ Kept
         /\ DOMAIN binding' = DOMAIN binding \cup {Len(binding) + 1}
         /\ Len(binding) + 1 \notin DOMAIN binding
         /\ \A i \in DOMAIN binding : binding'[i] = binding[i]
         /\ binding'[Len(binding) + 1] = Bind(u, role, scope, v)
<1>1. Bind(u, role, scope, v) \in BindingRecord
  BY DEF Bind, BindingRecord
<1>2. binding \in Seq(BindingRecord) /\ Len(binding) \in Nat
  BY DEF TypeOK
<1>3. /\ binding' \in Seq(BindingRecord)
      /\ Len(binding') = Len(binding) + 1
      /\ DOMAIN binding' = 1..(Len(binding) + 1)
      /\ DOMAIN binding = 1..Len(binding)
      /\ \A i \in 1..Len(binding) : binding'[i] = binding[i]
      /\ binding'[Len(binding) + 1] = Bind(u, role, scope, v)
  BY <1>1, <1>2, AppendType
<1>. QED
  BY <1>2, <1>3 DEF Kept

\* A revocation leaves the others, and of its own all but that.
LEMMA RevokedKept ==
  ASSUME TypeOK, NEW j \in DOMAIN binding, users' = users,
         binding' = [binding EXCEPT ![j].revoked = TRUE]
  PROVE  /\ Kept
         /\ DOMAIN binding' = DOMAIN binding
         /\ \A i \in DOMAIN binding \ {j} : binding'[i] = binding[i]
         /\ binding'[j].revoked
<1>1. binding \in Seq(BindingRecord)
  BY DEF TypeOK
<1>2. binding' \in [DOMAIN binding -> BindingRecord]
  BY BindingType DEF BindingRecord
<1>3. binding' \in Seq(BindingRecord) /\ Len(binding') = Len(binding)
  BY <1>1, <1>2, MapType
<1>4. /\ DOMAIN binding' = DOMAIN binding
      /\ \A i \in DOMAIN binding \ {j} : binding'[i] = binding[i]
      /\ binding'[j] = [binding[j] EXCEPT !.revoked = TRUE]
  OBVIOUS
<1>5. binding[j] \in BindingRecord
  BY BindingType
<1>. QED
  BY <1>1, <1>3, <1>4, <1>5 DEF Kept, BindingRecord

-----------------------------------------------------------------------------
(* A request keeps what is known of it while others are served.            *)

\* Types of requests only widen.
LEMMA RecordWidens ==
  ASSUME TypeOK, Kept
  PROVE  \A x \in RequestRecord : x \in RequestRecord'
<1>1. Len(binding) \in Nat /\ Len(binding') \in Nat /\ Len(binding) <= Len(binding')
  BY DEF TypeOK, Kept
<1>2. users \subseteq users'
  BY DEF Kept
<1>3. 0..Len(binding) \subseteq 0..Len(binding') /\ 1..Len(binding) \subseteq 1..Len(binding')
  BY <1>1
<1>. QED
  BY <1>2, <1>3 DEF RequestRecord

\* The request of r is one more record.
LEMMA RequestType ==
  ASSUME TypeOK, Kept, NEW r \in Request, NEW x \in RequestRecord',
         request' = [request EXCEPT ![r] = x]
  PROVE  /\ request' \in [Request -> RequestRecord']
         /\ request'[r] = x
         /\ \A q \in Request \ {r} : request'[q] = request[q]
<1>1. request \in [Request -> RequestRecord]
  BY DEF TypeOK, RequestRecord
<1>. QED
  BY <1>1, RecordWidens

LEMMA RequestFields ==
  ASSUME TypeOK, NEW r \in Request
  PROVE  /\ request[r] \in RequestRecord
         /\ request[r].revoked \subseteq DOMAIN binding
         /\ request[r].user \in User \cup {None}
<1>1. request[r] \in RequestRecord /\ users \subseteq User
  BY DEF TypeOK, RequestRecord
<1>. QED
  BY <1>1, BindingType DEF RequestRecord

\* A reason of a request goes on being one.
LEMMA ReasonKept ==
  ASSUME TypeOK, Kept, NEW q \in Request, request'[q].user = request[q].user,
         request'[q].permission = request[q].permission,
         NEW i \in DOMAIN binding, Reason(q, i)
  PROVE  i \in DOMAIN binding' /\ Reason(q, i)'
  BY DEF Kept, Reason, Confers

\* No binding is made that the grant of q is about, nor the one revoked that
\* its submission holds.
Undisturbed(q) ==
    /\ \A u \in users, role \in ReviewRole :
          /\ request[q].stage = "inserted"
          /\ request[q].arg.user = u /\ request[q].arg.role = role
          => ~HasReviewRole(u, role)'
    /\ \A i \in DOMAIN binding :
          request[q].stage = "checked" /\ request[q].arg.binding = i => InForce(i)'

\* A request that is not served keeps what is known of it, if its grant is
\* still the only one and its binding was not revoked.
LEMMA SoundKept ==
  ASSUME TypeOK, Kept, NEW q \in Request, Sound(q), request'[q] = request[q],
         Undisturbed(q)
  PROVE  Sound(q)'
<1>1. FromUser(q)'
  BY RequestFields DEF Sound, FromUser, Kept
<1>2. GrantSound(q)'
  <2>1. Granting(q)' = Granting(q)
    BY DEF Granting
  <2>. QED
    BY <2>1 DEF Sound, GrantSound, Kept, HasReviewRole, Granting, Undisturbed
<1>3. SubmissionSound(q)'
  <2>. SUFFICES ASSUME request[q].stage = "checked"
                PROVE  Able(request[q].arg.binding)'
    BY DEF SubmissionSound
  <2>. DEFINE b == request[q].arg.binding
  <2>1. Able(b) /\ ~binding'[b].revoked
    BY DEF Sound, SubmissionSound, Able, Undisturbed, InForce
  <2>2. b \in DOMAIN binding' /\ binding'[b].user = binding[b].user
        /\ binding'[b].role = binding[b].role /\ binding'[b].scope = binding[b].scope
    BY <2>1 DEF Able, Kept
  <2>. QED
    BY <2>1, <2>2 DEF Able, Gives, InForce, Confers
<1>4. CheckSound(q)'
  <2>. SUFFICES ASSUME request[q].stage \notin {"idle", "found"}
                PROVE  \E i \in DOMAIN binding' \ request[q].revoked : Reason(q, i)'
    BY DEF CheckSound
  <2>1. PICK i \in DOMAIN binding \ request[q].revoked : Reason(q, i)
    BY DEF Sound, CheckSound
  <2>. QED
    BY <2>1, ReasonKept
<1>. QED
  BY <1>1, <1>2, <1>3, <1>4 DEF Sound

\* Nothing is known of an idle request but that it is one.
LEMMA IdleSound ==
  ASSUME NEW r \in Request, request'[r] = Idle
  PROVE  Sound(r)'
  BY DEF Idle, Sound, FromUser, GrantSound, SubmissionSound, CheckSound, Granting

LEMMA IdleType ==
  ASSUME Kept
  PROVE  Idle \in RequestRecord'
<1>1. 0 \in 0..Len(binding')
  BY DEF Kept
<1>. QED
  BY <1>1 DEF Idle, RequestRecord, Stage, NoArgument

-----------------------------------------------------------------------------
(* One request is served.                                                  *)

\* r becomes x and everybody else's request stays.
Served(r, x) == request' = [request EXCEPT ![r] = x]

\* No other grant is under way for the user and role r asks for.
SoleGrantor(r) ==
    Granting(r) => \A q \in Request \ {r} :
        Granting(q) => request[q].arg.user # request[r].arg.user
                       \/ request[q].arg.role # request[r].arg.role

\* What remains to be shown of a step that serves r.
LEMMA ServedStep ==
  ASSUME AInv, Kept, NEW r \in Request, NEW x \in RequestRecord', Served(r, x),
         users' \subseteq User, session' = session,
         assigned' \subseteq users', decided' \subseteq assigned',
         BindingsSound', SoleGrantor(r)', Sound(r)',
         \A q \in Request \ {r} : Undisturbed(q)
  PROVE  AInv'
<1>1. /\ request' \in [Request -> RequestRecord']
      /\ \A q \in Request \ {r} : request'[q] = request[q]
  BY RequestType DEF Served, AInv
<1>2. TypeOK'
  BY <1>1 DEF AInv, TypeOK, Kept, RequestRecord
<1>3. OneGrantor'
  <2>. SUFFICES ASSUME NEW q \in Request, NEW y \in Request, Granting(q)', Granting(y)',
                       request'[q].arg.user = request'[y].arg.user,
                       request'[q].arg.role = request'[y].arg.role, q # y
                PROVE  FALSE
    BY DEF OneGrantor
  <2>1. CASE q # r /\ y # r
    BY <1>1, <2>1 DEF AInv, OneGrantor, Granting
  <2>2. CASE q = r \/ y = r
    BY <2>2 DEF SoleGrantor
  <2>. QED
    BY <2>1, <2>2
<1>4. \A q \in Request : Sound(q)'
  <2>. SUFFICES ASSUME NEW q \in Request \ {r}
                PROVE  Sound(q)'
    OBVIOUS
  <2>1. request'[q] = request[q] /\ Sound(q) /\ TypeOK
    BY <1>1 DEF AInv
  <2>. QED
    BY <2>1, SoundKept
<1>. QED
  BY <1>2, <1>3, <1>4 DEF AInv

\* The same when neither users nor bindings change.
LEMMA QuietStep ==
  ASSUME AInv, NEW r \in Request, NEW x \in RequestRecord, Served(r, x),
         UNCHANGED people, session' = session,
         assigned' \subseteq users, decided' \subseteq assigned',
         SoleGrantor(r)', Sound(r)'
  PROVE  AInv'
<1>1. Kept
  BY SameKept DEF AInv
<1>2. x \in RequestRecord' /\ assigned' \subseteq users' /\ users' \subseteq User
  BY DEF RequestRecord, people, AInv, TypeOK
<1>3. BindingsSound'
  BY DEF AInv, BindingsSound, BindingUsers, ProjectGrants, OneReviewRole, InForce, people
<1>4. ASSUME NEW q \in Request
      PROVE  Undisturbed(q)
  <2>1. Sound(q)
    BY DEF AInv
  <2>. QED
    BY <2>1 DEF Undisturbed, Sound, GrantSound, SubmissionSound, Able, HasReviewRole,
                InForce, people
<1>. QED
  BY <1>1, <1>2, <1>3, <1>4, ServedStep

\* An idle request grants nothing.
LEMMA IdleGrants ==
  ASSUME NEW r \in Request, request'[r] = Idle
  PROVE  SoleGrantor(r)'
  BY DEF SoleGrantor, Granting, Idle

\* A binding for the system concerns no grant and no submission.
LEMMA SystemBinding ==
  ASSUME AInv, users \subseteq users', NEW u \in User, u \in users', NEW role \in Role, NEW v \in User,
         binding' = Append(binding, Bind(u, role, "system", v))
  PROVE  Kept /\ BindingsSound' /\ \A q \in Request : Undisturbed(q)
<1>1. "system" \in Scope /\ TypeOK
  BY DEF Scope, AInv
<1>2. /\ Kept
      /\ DOMAIN binding' = DOMAIN binding \cup {Len(binding) + 1}
      /\ Len(binding) + 1 \notin DOMAIN binding
      /\ \A i \in DOMAIN binding : binding'[i] = binding[i]
      /\ binding'[Len(binding) + 1] = Bind(u, role, "system", v)
  BY <1>1, MadeKept
<1>3. /\ binding'[Len(binding) + 1].scope = "system"
      /\ binding'[Len(binding) + 1].user = u
  BY <1>2 DEF Bind
<1>4. BindingUsers'
  BY <1>2, <1>3 DEF AInv, BindingsSound, BindingUsers
<1>5. ProjectGrants'
  BY <1>2, <1>3 DEF AInv, BindingsSound, ProjectGrants
<1>6. OneReviewRole'
  BY <1>2, <1>3 DEF AInv, BindingsSound, OneReviewRole, InForce
<1>7. ASSUME NEW q \in Request
      PROVE  Undisturbed(q)
  <2>1. Sound(q)
    BY DEF AInv
  <2>2. ASSUME NEW a \in users, NEW b \in ReviewRole, request[q].stage = "inserted",
               request[q].arg.user = a, request[q].arg.role = b
        PROVE  ~HasReviewRole(a, b)'
    BY <1>2, <1>3, <2>1, <2>2 DEF Sound, GrantSound, HasReviewRole, InForce
  <2>3. ASSUME NEW i \in DOMAIN binding, request[q].stage = "checked",
               request[q].arg.binding = i
        PROVE  InForce(i)'
    BY <1>2, <2>1, <2>3 DEF Sound, SubmissionSound, Able, InForce
  <2>. QED
    BY <2>2, <2>3 DEF Undisturbed
<1>. QED
  BY <1>2, <1>4, <1>5, <1>6, <1>7 DEF BindingsSound

\* A step that serves no request.
LEMMA OtherStep ==
  ASSUME AInv, Kept, UNCHANGED <<request, review>>, users' \subseteq User,
         session' \in [Token -> users' \cup {None}],
         BindingsSound', \A q \in Request : Undisturbed(q)
  PROVE  AInv'
<1>1. request' \in [Request -> RequestRecord']
  BY RecordWidens DEF AInv, TypeOK, RequestRecord
<1>2. TypeOK'
  BY <1>1 DEF AInv, TypeOK, Kept, RequestRecord, review
<1>3. OneGrantor'
  BY DEF AInv, OneGrantor, Granting
<1>4. \A q \in Request : Sound(q)'
  BY SoundKept DEF AInv
<1>. QED
  BY <1>2, <1>3, <1>4 DEF AInv

-----------------------------------------------------------------------------
(* The invariant holds of every step.                                      *)

LEMMA InitSound == Init => AInv
<1>. SUFFICES ASSUME Init
              PROVE  AInv
  OBVIOUS
<1>. USE RoleAssumption, UserAssumption
<1>1. \A r \in Request : request[r] = Idle
  BY DEF Init
<1>2. /\ Bind(Administrator, AdministratorRole, "system", Administrator) \in BindingRecord
      /\ Bind(Administrator, OwnerRole, "project", Administrator) \in BindingRecord
  BY DEF Bind, BindingRecord, Scope
<1>3. /\ binding \in Seq(BindingRecord) /\ Len(binding) = 2 /\ DOMAIN binding = {1, 2}
      /\ binding[1] = Bind(Administrator, AdministratorRole, "system", Administrator)
      /\ binding[2] = Bind(Administrator, OwnerRole, "project", Administrator)
  BY <1>2 DEF Init
<1>4. TypeOK
  BY <1>3 DEF Init, TypeOK, Idle, Stage, NoArgument
<1>5. BindingsSound
  BY <1>3 DEF Init, BindingsSound, BindingUsers, ProjectGrants, OneReviewRole, Bind
<1>6. OneGrantor
  BY <1>1 DEF OneGrantor, Granting, Idle
<1>7. \A r \in Request : Sound(r)
  BY <1>1 DEF Idle, Sound, FromUser, GrantSound, SubmissionSound, CheckSound, Granting
<1>. QED
  BY <1>4, <1>5, <1>6, <1>7 DEF AInv

LEMMA BootstrapSound ==
  ASSUME AInv, NEW u \in User, Bootstrap(u)
  PROVE  AInv'
<1>1. AdministratorRole \in Role
  BY RoleAssumption
<1>2. /\ users \subseteq users' /\ u \in users' /\ users' \subseteq User
      /\ binding' = Append(binding, Bind(u, AdministratorRole, "system", u))
  BY DEF Bootstrap, AInv, TypeOK
<1>3. Kept /\ BindingsSound' /\ \A q \in Request : Undisturbed(q)
  BY <1>1, <1>2, SystemBinding
<1>4. session' \in [Token -> users' \cup {None}]
  BY <1>2 DEF Bootstrap, AInv, TypeOK
<1>. QED
  BY <1>2, <1>3, <1>4, OtherStep DEF Bootstrap

\* A session opens or ends.
LEMMA SessionSound ==
  ASSUME AInv, NEW t \in Token, EndSession(t) \/ \E u \in User : Login(t, u)
  PROVE  AInv'
<1>1. UNCHANGED <<people, request, review>>
  BY DEF EndSession, Login
<1>2. session' \in [Token -> users' \cup {None}]
  BY DEF EndSession, Login, FindActiveUserByLogin, AInv, TypeOK, people
<1>3. Kept /\ users' \subseteq User
  BY <1>1, SameKept DEF AInv, TypeOK, people
<1>4. BindingsSound'
  BY <1>1 DEF AInv, BindingsSound, BindingUsers, ProjectGrants, OneReviewRole, InForce, people
<1>5. ASSUME NEW q \in Request
      PROVE  Undisturbed(q)
  <2>1. Sound(q)
    BY DEF AInv
  <2>. QED
    BY <1>1, <2>1 DEF Undisturbed, Sound, GrantSound, SubmissionSound, Able, HasReviewRole,
                InForce, people
<1>. QED
  BY <1>1, <1>2, <1>3, <1>4, <1>5, OtherStep

\* A request comes in.
LEMMA FindSound ==
  ASSUME AInv, NEW r \in Request, NEW t \in Token, NEW p \in Permission,
         FindActiveSession(r, t, p)
  PROVE  AInv'
<1>. DEFINE R == {i \in DOMAIN binding : ~InForce(i) /\ Confers(i, session[t], p)}
            x == [Idle EXCEPT !.stage = "found", !.user = session[t],
                              !.permission = p, !.revoked = R]
<1>1. /\ Served(r, x) /\ UNCHANGED <<people, session, review>> /\ session[t] \in users
  BY DEF FindActiveSession, Served, NotRequest, AInv, TypeOK
<1>2. R \subseteq 1..Len(binding) /\ 0 \in 0..Len(binding)
  BY BindingType DEF AInv
<1>3. x \in RequestRecord
  <2>. HIDE DEF R
  <2>. QED
    BY <1>1, <1>2 DEF Idle, RequestRecord, Stage, NoArgument
<1>4. request'[r] = x
  BY <1>1 DEF Served, AInv, TypeOK
<1>5. /\ request'[r].stage = "found" /\ request'[r].user = session[t]
      /\ request'[r].permission = p /\ request'[r].revoked = R
  BY <1>4 DEF Idle
<1>6. \A i \in R : binding'[i].revoked
  BY <1>1 DEF InForce, people
<1>7. Sound(r)'
  <2>. HIDE DEF R
  <2>. QED
    BY <1>1, <1>5, <1>6
    DEF Sound, FromUser, GrantSound, SubmissionSound, CheckSound, Granting, people
<1>8. SoleGrantor(r)'
  BY <1>5 DEF SoleGrantor, Granting
<1>9. assigned' \subseteq users /\ decided' \subseteq assigned'
  BY <1>1 DEF AInv, TypeOK, review
<1>. QED
  BY <1>1, <1>3, <1>7, <1>8, <1>9, QuietStep

\* The answer to a request leaves it idle.
LEMMA DoneQuiet ==
  ASSUME AInv, NEW r \in Request, Done(r), UNCHANGED <<people, session>>,
         assigned' \subseteq users, decided' \subseteq assigned'
  PROVE  AInv'
<1>1. Idle \in RequestRecord
  <2>1. 0 \in 0..Len(binding)
    BY BindingType DEF AInv
  <2>. QED
    BY <2>1 DEF Idle, RequestRecord, Stage, NoArgument
<1>2. Served(r, Idle) /\ request'[r] = Idle
  BY DEF Done, Served, AInv, TypeOK
<1>. QED
  BY <1>1, <1>2, IdleSound, IdleGrants, QuietStep

\* A request takes another step with argument a.
LEMMA AdvanceQuiet ==
  ASSUME AInv, NEW r \in Request, NEW stage \in Stage,
         NEW a \in [user : User \cup {None}, role : ReviewRole \cup {None},
                    binding : 0..Len(binding)],
         Advance(r, stage, a), UNCHANGED NotRequest, request[r].stage # "idle",
         SoleGrantor(r)', GrantSound(r)', SubmissionSound(r)', CheckSound(r)'
  PROVE  AInv'
<1>. DEFINE x == [request[r] EXCEPT !.stage = stage, !.arg = a]
<1>1. Served(r, x) /\ x \in RequestRecord
  BY RequestFields DEF Served, Advance, AInv, TypeOK, RequestRecord
<1>2. /\ request'[r].user = request[r].user
      /\ request'[r].permission = request[r].permission
      /\ request'[r].revoked = request[r].revoked
  BY RequestFields DEF Advance, AInv, TypeOK, RequestRecord
<1>3. Sound(r)'
  <2>1. Sound(r)
    BY DEF AInv
  <2>. QED
    BY <1>2, <2>1 DEF Sound, FromUser, NotRequest, people
<1>. QED
  BY <1>1, <1>3, QuietStep DEF NotRequest, review, AInv, TypeOK

\* What Advance leaves of a request.
LEMMA AdvanceFields ==
  ASSUME AInv, NEW r \in Request, NEW stage, NEW a, Advance(r, stage, a)
  PROVE  /\ request'[r].stage = stage /\ request'[r].arg = a
         /\ request'[r].user = request[r].user
         /\ request'[r].permission = request[r].permission
         /\ request'[r].revoked = request[r].revoked
         /\ \A q \in Request \ {r} : request'[q] = request[q]
  BY RequestFields DEF Advance, AInv, TypeOK, RequestRecord

\* A check that holds goes on holding while bindings do not change.
LEMMA CheckKept ==
  ASSUME AInv, NEW r \in Request, request[r].stage \notin {"idle", "found"}, Kept,
         request'[r].user = request[r].user,
         request'[r].permission = request[r].permission,
         request'[r].revoked = request[r].revoked
  PROVE  CheckSound(r)'
<1>1. PICK i \in DOMAIN binding \ request[r].revoked : Reason(r, i)
  BY DEF AInv, Sound, CheckSound
<1>2. i \in DOMAIN binding' /\ Reason(r, i)'
  BY <1>1, ReasonKept DEF AInv
<1>. QED
  BY <1>2 DEF CheckSound

\* CheckPermission finds a binding in force, so none that had been revoked.
LEMMA CheckPermissionSound ==
  ASSUME AInv, NEW r \in Request, CheckPermission(r)
  PROVE  AInv'
<1>. DEFINE u == request[r].user
            p == request[r].permission
<1>1. /\ request[r].stage = "found" /\ Advance(r, "allowed", NoArgument)
      /\ p \in PermissionsFor(u, p) /\ UNCHANGED NotRequest
  BY DEF CheckPermission
<1>2. /\ request'[r].stage = "allowed" /\ request'[r].user = u
      /\ request'[r].permission = p /\ request'[r].revoked = request[r].revoked
  BY <1>1, AdvanceFields
<1>3. PICK i \in DOMAIN binding :
          /\ Gives(i, u, p)
          /\ p \notin {"access.grant", "access.revoke"} => binding[i].scope = "project"
  BY <1>1 DEF PermissionsFor, ActivePermissions, ActiveProjectPermissions
<1>4. i \notin request[r].revoked
  BY <1>3 DEF AInv, Sound, FromUser, Gives, InForce
<1>5. Reason(r, i)'
  BY <1>1, <1>2, <1>3 DEF Reason, Gives, Confers, NotRequest, people
<1>6. CheckSound(r)'
  BY <1>1, <1>2, <1>4, <1>5 DEF CheckSound, NotRequest, people
<1>7. SoleGrantor(r)' /\ GrantSound(r)' /\ SubmissionSound(r)'
  BY <1>2 DEF SoleGrantor, GrantSound, SubmissionSound, Granting
<1>8. NoArgument \in [user : User \cup {None}, role : ReviewRole \cup {None},
                      binding : 0..Len(binding)]
  BY BindingType DEF NoArgument, AInv
<1>. QED
  BY <1>1, <1>6, <1>7, <1>8, AdvanceQuiet DEF Stage

\* An allowed request to grant or revoke is by a user.
LEMMA AllowedUser ==
  ASSUME AInv, NEW r \in Request, request[r].stage # "idle"
  PROVE  request[r].user \in users /\ request[r].user \in User
  BY DEF AInv, Sound, FromUser, TypeOK

LEMMA GrantSystemSound ==
  ASSUME AInv, NEW r \in Request, NEW u \in User, NEW role \in SystemGrant,
         GrantSystemRole(r, u, role)
  PROVE  AInv'
<1>1. role \in Role /\ request[r].user \in User
  BY RoleAssumption, AllowedUser DEF GrantSystemRole, Allowed
<1>2. /\ users' = users /\ u \in users /\ users' \subseteq User
      /\ binding' = Append(binding, Bind(u, role, "system", request[r].user))
  BY DEF GrantSystemRole, AInv, TypeOK
<1>3. Kept /\ BindingsSound' /\ \A q \in Request : Undisturbed(q)
  BY <1>1, <1>2, SystemBinding
<1>4. Served(r, Idle) /\ request'[r] = Idle
  BY DEF GrantSystemRole, Done, Served, AInv, TypeOK
<1>5. /\ Idle \in RequestRecord' /\ Sound(r)' /\ SoleGrantor(r)'
  BY <1>3, <1>4, IdleType, IdleSound, IdleGrants
<1>. QED
  BY <1>2, <1>3, <1>4, <1>5, ServedStep DEF GrantSystemRole, AInv, TypeOK, review

LEMMA LockGrantSound ==
  ASSUME AInv, NEW r \in Request, NEW u \in User, NEW role \in ReviewRole,
         LockGrant(r, u, role)
  PROVE  AInv'
<1>. DEFINE a == [NoArgument EXCEPT !.user = u, !.role = role]
<1>1. /\ Advance(r, "locked", a) /\ UNCHANGED NotRequest
      /\ request[r].stage = "allowed" /\ u \in users /\ u # request[r].user
      /\ GrantLockFree(u, role)
  BY DEF LockGrant, Allowed
<1>2. a \in [user : User \cup {None}, role : ReviewRole \cup {None},
             binding : 0..Len(binding)]
  <2>1. 0 \in 0..Len(binding)
    BY BindingType DEF AInv
  <2>. QED
    BY <2>1 DEF NoArgument
<1>3. a.user = u /\ a.role = role
  BY DEF NoArgument
<1>4. /\ request'[r].stage = "locked" /\ request'[r].arg = a
      /\ request'[r].user = request[r].user
      /\ request'[r].permission = request[r].permission
      /\ request'[r].revoked = request[r].revoked
      /\ \A q \in Request \ {r} : request'[q] = request[q]
  BY <1>1, AdvanceFields
<1>5. Kept
  BY <1>1, SameKept DEF AInv, NotRequest
<1>6. CheckSound(r)'
  BY <1>1, <1>4, <1>5, CheckKept
<1>7. GrantSound(r)' /\ SubmissionSound(r)'
  BY <1>1, <1>3, <1>4 DEF GrantSound, SubmissionSound, Granting, NotRequest, people
<1>8. SoleGrantor(r)'
  BY <1>1, <1>3, <1>4 DEF SoleGrantor, Granting, GrantLockFree
<1>. QED
  BY <1>1, <1>2, <1>6, <1>7, <1>8, AdvanceQuiet DEF Stage

LEMMA InsertGrantSound ==
  ASSUME AInv, NEW r \in Request, InsertGrant(r)
  PROVE  AInv'
<1>. DEFINE a == request[r].arg
<1>1. /\ Advance(r, "inserted", a) /\ UNCHANGED NotRequest
      /\ request[r].stage = "locked" /\ ~HasReviewRole(a.user, a.role)
  BY DEF InsertGrant
<1>2. a \in [user : User \cup {None}, role : ReviewRole \cup {None},
             binding : 0..Len(binding)]
  BY RequestFields DEF RequestRecord, AInv
<1>4. /\ request'[r].stage = "inserted" /\ request'[r].arg = a
      /\ request'[r].user = request[r].user
      /\ request'[r].permission = request[r].permission
      /\ request'[r].revoked = request[r].revoked
      /\ \A q \in Request \ {r} : request'[q] = request[q]
  BY <1>1, AdvanceFields
<1>5. Kept
  BY <1>1, SameKept DEF AInv, NotRequest
<1>6. CheckSound(r)'
  BY <1>1, <1>4, <1>5, CheckKept
<1>7. GrantSound(r)' /\ SubmissionSound(r)'
  <2>1. GrantSound(r) /\ Granting(r)
    BY <1>1 DEF AInv, Sound, Granting
  <2>. QED
    BY <1>1, <1>4, <2>1
    DEF GrantSound, SubmissionSound, Granting, HasReviewRole, InForce, NotRequest, people
<1>8. SoleGrantor(r)'
  BY <1>1, <1>4 DEF SoleGrantor, Granting, AInv, OneGrantor
<1>. QED
  BY <1>1, <1>2, <1>6, <1>7, <1>8, AdvanceQuiet DEF Stage

\* A review role is granted: to somebody else, who did not have it.
LEMMA CommitGrantSound ==
  ASSUME AInv, NEW r \in Request, CommitGrant(r)
  PROVE  AInv'
<1>. DEFINE u == request[r].arg.user
            role == request[r].arg.role
            b == Bind(u, role, "project", request[r].user)
            n == Len(binding) + 1
<1>1. /\ request[r].stage = "inserted" /\ binding' = Append(binding, b)
      /\ Served(r, Idle) /\ UNCHANGED <<users, session, review>>
  BY DEF CommitGrant, Done, Served
<1>2. /\ u \in users /\ u \in User /\ u # request[r].user /\ role \in ReviewRole /\ role \in Role
      /\ ~HasReviewRole(u, role) /\ "project" \in Scope /\ request[r].user \in User
  <2>1. GrantSound(r) /\ Granting(r)
    BY <1>1 DEF AInv, Sound, Granting
  <2>. QED
    BY <1>1, <2>1, AllowedUser, RoleAssumption DEF GrantSound, AInv, TypeOK, Scope
<1>3. /\ Kept
      /\ DOMAIN binding' = DOMAIN binding \cup {n} /\ n \notin DOMAIN binding
      /\ \A i \in DOMAIN binding : binding'[i] = binding[i]
      /\ binding'[n] = b
  BY <1>1, <1>2, MadeKept DEF AInv
<1>4. /\ b.user = u /\ b.role = role /\ b.scope = "project" /\ b.by = request[r].user
  BY DEF Bind
<1>. HIDE DEF b, n
<1>5. BindingsSound'
  <2>1. BindingUsers'
    BY <1>1, <1>2, <1>3, <1>4 DEF AInv, BindingsSound, BindingUsers
  <2>2. ProjectGrants'
    BY <1>2, <1>3, <1>4 DEF AInv, BindingsSound, ProjectGrants
  <2>3. OneReviewRole'
    BY <1>2, <1>3, <1>4 DEF AInv, BindingsSound, OneReviewRole, InForce, HasReviewRole
  <2>. QED
    BY <2>1, <2>2, <2>3 DEF BindingsSound
<1>6. ASSUME NEW q \in Request \ {r}
      PROVE  Undisturbed(q)
  <2>1. Sound(q)
    BY DEF AInv
  <2>2. ASSUME NEW v \in users, NEW x \in ReviewRole, request[q].stage = "inserted",
               request[q].arg.user = v, request[q].arg.role = x
        PROVE  ~HasReviewRole(v, x)'
    <3>1. v # u \/ x # role
      BY <1>1, <2>2 DEF AInv, OneGrantor, Granting
    <3>. QED
      BY <1>3, <1>4, <2>1, <2>2, <3>1 DEF Sound, GrantSound, HasReviewRole, InForce
  <2>3. ASSUME NEW i \in DOMAIN binding, request[q].stage = "checked",
               request[q].arg.binding = i
        PROVE  InForce(i)'
    BY <1>3, <2>1, <2>3 DEF Sound, SubmissionSound, Able, InForce
  <2>. QED
    BY <2>2, <2>3 DEF Undisturbed
<1>7. request'[r] = Idle
  BY <1>1 DEF Served, AInv, TypeOK
<1>8. Idle \in RequestRecord' /\ Sound(r)' /\ SoleGrantor(r)'
  BY <1>3, <1>7, IdleType, IdleSound, IdleGrants
<1>. QED
  BY <1>1, <1>3, <1>5, <1>6, <1>8, ServedStep DEF AInv, TypeOK, review

\* A revocation waits for the submission that holds the binding.
LEMMA RevokeSound ==
  ASSUME AInv, NEW r \in Request, NEW j \in DOMAIN binding, Revoke(r, j)
  PROVE  AInv'
<1>1. /\ binding' = [binding EXCEPT ![j].revoked = TRUE] /\ RowFree(j)
      /\ Served(r, Idle) /\ UNCHANGED <<users, session, review>>
  BY DEF Revoke, Done, Served
<1>2. /\ Kept
      /\ DOMAIN binding' = DOMAIN binding
      /\ \A i \in DOMAIN binding \ {j} : binding'[i] = binding[i]
      /\ binding'[j].revoked
  BY <1>1, RevokedKept DEF AInv
<1>3. \A i \in DOMAIN binding : InForce(i)' => InForce(i)
  BY <1>2 DEF InForce
<1>4. BindingsSound'
  <2>1. BindingUsers'
    BY <1>1, <1>2 DEF AInv, BindingsSound, BindingUsers, Kept
  <2>2. ProjectGrants'
    BY <1>2 DEF AInv, BindingsSound, ProjectGrants, Kept
  <2>3. OneReviewRole'
    BY <1>2, <1>3 DEF AInv, BindingsSound, OneReviewRole, Kept
  <2>. QED
    BY <2>1, <2>2, <2>3 DEF BindingsSound
<1>5. ASSUME NEW q \in Request
      PROVE  Undisturbed(q)
  <2>1. Sound(q)
    BY DEF AInv
  <2>2. ASSUME NEW v \in users, NEW x \in ReviewRole, request[q].stage = "inserted",
               request[q].arg.user = v, request[q].arg.role = x
        PROVE  ~HasReviewRole(v, x)'
    BY <1>2, <1>3, <2>1, <2>2 DEF Sound, GrantSound, HasReviewRole, Kept
  <2>3. ASSUME NEW i \in DOMAIN binding, request[q].stage = "checked",
               request[q].arg.binding = i
        PROVE  InForce(i)'
    BY <1>1, <1>2, <2>1, <2>3 DEF Sound, SubmissionSound, Able, InForce, RowFree
  <2>. QED
    BY <2>2, <2>3 DEF Undisturbed
<1>6. request'[r] = Idle
  BY <1>1 DEF Served, AInv, TypeOK
<1>7. Idle \in RequestRecord' /\ Sound(r)' /\ SoleGrantor(r)'
  BY <1>2, <1>6, IdleType, IdleSound, IdleGrants
<1>. QED
  BY <1>1, <1>2, <1>4, <1>5, <1>7, ServedStep DEF AInv, TypeOK, review

LEMMA CheckAssigneeSound ==
  ASSUME AInv, NEW r \in Request, NEW j \in DOMAIN binding, CheckAssignee(r, j)
  PROVE  AInv'
<1>. DEFINE a == [NoArgument EXCEPT !.binding = j]
<1>1. /\ Advance(r, "checked", a) /\ UNCHANGED NotRequest
      /\ request[r].stage = "allowed" /\ binding[j].scope = "project"
      /\ \E x \in ReviewPermission : Gives(j, binding[j].user, x)
  BY DEF CheckAssignee, Allowed
<1>2. a \in [user : User \cup {None}, role : ReviewRole \cup {None},
             binding : 0..Len(binding)]
  <2>1. j \in 0..Len(binding)
    BY BindingType DEF AInv
  <2>. QED
    BY <2>1 DEF NoArgument
<1>3. a.binding = j
  BY DEF NoArgument
<1>4. /\ request'[r].stage = "checked" /\ request'[r].arg = a
      /\ request'[r].user = request[r].user
      /\ request'[r].permission = request[r].permission
      /\ request'[r].revoked = request[r].revoked
  BY <1>1, AdvanceFields
<1>5. Kept
  BY <1>1, SameKept DEF AInv, NotRequest
<1>6. CheckSound(r)'
  BY <1>1, <1>4, <1>5, CheckKept
<1>7. Able(j)'
  BY <1>1 DEF Able, Gives, InForce, Confers, NotRequest, people
<1>8. GrantSound(r)' /\ SubmissionSound(r)' /\ SoleGrantor(r)'
  BY <1>3, <1>4, <1>7 DEF GrantSound, SubmissionSound, SoleGrantor, Granting
<1>. QED
  BY <1>1, <1>2, <1>6, <1>8, AdvanceQuiet DEF Stage

LEMMA CommitSubmissionSound ==
  ASSUME AInv, NEW r \in Request, CommitSubmission(r)
  PROVE  AInv'
<1>1. Able(request[r].arg.binding)
  BY DEF CommitSubmission, AInv, Sound, SubmissionSound
<1>2. binding[request[r].arg.binding].user \in users
  BY <1>1 DEF Able, AInv, BindingsSound, BindingUsers
<1>3. assigned' \subseteq users /\ decided' \subseteq assigned'
  BY <1>2 DEF CommitSubmission, AInv, TypeOK
<1>. QED
  BY <1>3, DoneQuiet DEF CommitSubmission

LEMMA DecideSound ==
  ASSUME AInv, NEW r \in Request, Decide(r)
  PROVE  AInv'
<1>1. assigned' \subseteq users /\ decided' \subseteq assigned'
  BY DEF Decide, AInv, TypeOK
<1>. QED
  BY <1>1, DoneQuiet DEF Decide

LEMMA AbandonSound ==
  ASSUME AInv, NEW r \in Request, Abandon(r)
  PROVE  AInv'
<1>1. assigned' \subseteq users /\ decided' \subseteq assigned'
  BY DEF Abandon, NotRequest, review, AInv, TypeOK
<1>. QED
  BY <1>1, DoneQuiet DEF Abandon, NotRequest

\* A step that changes nothing.
LEMMA StutterSound ==
  ASSUME AInv, UNCHANGED vars
  PROVE  AInv'
<1>1. Kept
  BY SameKept DEF AInv, vars
<1>2. ASSUME NEW q \in Request
      PROVE  Undisturbed(q)
  <2>1. Sound(q)
    BY DEF AInv
  <2>. QED
    BY <2>1 DEF Undisturbed, Sound, GrantSound, SubmissionSound, Able, HasReviewRole,
                InForce, vars, people
<1>3. BindingsSound' /\ users' \subseteq User /\ session' \in [Token -> users' \cup {None}]
  BY DEF AInv, BindingsSound, BindingUsers, ProjectGrants, OneReviewRole, InForce,
         TypeOK, vars, people
<1>. QED
  BY <1>1, <1>2, <1>3, OtherStep DEF vars

LEMMA InvariantStep == AInv /\ [Next]_vars => AInv'
<1>. SUFFICES ASSUME AInv, [Next]_vars
              PROVE  AInv'
  OBVIOUS
<1>1. CASE UNCHANGED vars
  BY <1>1, StutterSound
<1>2. CASE \E u \in User : Bootstrap(u)
  BY <1>2, BootstrapSound
<1>3. CASE \E t \in Token : EndSession(t) \/ \E u \in User : Login(t, u)
  BY <1>3, SessionSound
<1>4. ASSUME NEW r \in Request,
             \/ \E t \in Token, x \in Permission : FindActiveSession(r, t, x)
             \/ CheckPermission(r) \/ Abandon(r)
             \/ \E u \in User, role \in SystemGrant : GrantSystemRole(r, u, role)
             \/ \E u \in User, role \in ReviewRole : LockGrant(r, u, role)
             \/ InsertGrant(r) \/ CommitGrant(r)
             \/ \E i \in DOMAIN binding : \/ RevokeRoleBinding(r, i)
                                          \/ RevokeProjectReviewRole(r, i)
                                          \/ CheckAssignee(r, i)
             \/ CommitSubmission(r) \/ Decide(r)
      PROVE  AInv'
  <2>1. CASE \E i \in DOMAIN binding : RevokeRoleBinding(r, i) \/ RevokeProjectReviewRole(r, i)
    BY <2>1, RevokeSound DEF RevokeRoleBinding, RevokeProjectReviewRole
  <2>. QED
    BY <1>4, <2>1, FindSound, CheckPermissionSound, AbandonSound, GrantSystemSound,
       LockGrantSound, InsertGrantSound, CommitGrantSound, CheckAssigneeSound,
       CommitSubmissionSound, DecideSound
<1>. QED
  BY <1>1, <1>2, <1>3, <1>4 DEF Next

-----------------------------------------------------------------------------
(* The theorems.                                                           *)

\* The inductive invariant: what is known of every binding and of every
\* request in progress (internal/auth, projectScopePermission).
THEOREM Invariant == Spec => []AInv
<1>. QED
  BY InitSound, InvariantStep, PTL DEF Spec

\* Type correctness, for any number of users, requests and bindings.
THEOREM TypeCorrect == Spec => []TypeOK
<1>1. AInv => TypeOK
  BY DEF AInv
<1>. QED
  BY <1>1, Invariant, PTL

\* The advisory lock of GrantProjectReviewRole keeps review roles single.
THEOREM ReviewRoleOnce == Spec => []OneReviewRole
<1>1. AInv => OneReviewRole
  BY DEF AInv, BindingsSound
<1>. QED
  BY <1>1, Invariant, PTL

\* No request is allowed what it asks on bindings revoked before it came
\* (ActivePermissions, ActiveProjectPermissions).
THEOREM RevocationBinds == Spec => []RevocationIsEffective
<1>1. AInv => RevocationIsEffective
  BY DEF AInv, Sound, CheckSound, Reason, RevocationIsEffective
<1>. QED
  BY <1>1, Invariant, PTL

\* decided grows by the decision of one request only.
LEMMA OnlyDecide ==
  ASSUME [Next]_vars, decided' # decided
  PROVE  \E r \in Request : Decide(r)
  BY DEF Next, vars, review, people, NotRequest, Bootstrap, EndSession, Login, FindActiveSession,
         CheckPermission, Abandon, GrantSystemRole, LockGrant, InsertGrant, CommitGrant,
         RevokeRoleBinding, RevokeProjectReviewRole, Revoke, CheckAssignee, CommitSubmission

\* Whoever decides was given a role for it by somebody else (the decision
\* handler and projectScopePermission).
THEOREM DecidedByGrant == Spec => DecisionNeedsAnotherGrantor
<1>1. ASSUME AInv, [Next]_vars, NEW r \in Request, NEW u \in decided' \ decided,
             request[r].user = u, request'[r] # request[r]
      PROVE  \E i \in DOMAIN binding \ request[r].revoked :
                /\ Confers(i, u, request[r].permission)
                /\ binding[i].scope = "project" /\ binding[i].by # u
  <2>1. PICK q \in Request : Decide(q)
    BY <1>1, OnlyDecide
  <2>2. q = r
    BY <1>1, <2>1 DEF Decide, Done, AInv, TypeOK
  <2>3. request[r].stage = "allowed" /\ request[r].permission \in ReviewPermission
    BY <2>1, <2>2 DEF Decide, Allowed
  <2>4. request[r].permission \notin {"access.grant", "access.revoke"}
    BY <2>3, RoleAssumption
  <2>5. PICK i \in DOMAIN binding \ request[r].revoked : Reason(r, i)
    BY <1>1, <2>3 DEF AInv, Sound, CheckSound
  <2>6. Confers(i, u, request[r].permission) /\ binding[i].scope = "project"
    BY <1>1, <2>4, <2>5 DEF Reason
  <2>7. binding[i].role # OwnerRole
    BY <2>3, <2>6, RoleAssumption DEF Confers
  <2>8. binding[i].user = u /\ binding[i].by # binding[i].user
    BY <1>1, <2>5, <2>6, <2>7 DEF Confers, AInv, BindingsSound, ProjectGrants
  <2>. QED
    BY <2>5, <2>6, <2>8
<1>2. AInv /\ [Next]_vars =>
        [\A r \in Request, u \in decided' \ decided :
          request[r].user = u /\ request'[r] # request[r] =>
              \E i \in DOMAIN binding \ request[r].revoked :
                  /\ Confers(i, u, request[r].permission)
                  /\ binding[i].scope = "project" /\ binding[i].by # u]_vars
  BY <1>1
<1>. QED
  BY <1>2, Invariant, PTL DEF Spec, DecisionNeedsAnotherGrantor

\* assigned grows by one submission only.
LEMMA OnlySubmission ==
  ASSUME [Next]_vars, assigned' # assigned
  PROVE  \E r \in Request : CommitSubmission(r)
  BY DEF Next, vars, review, people, NotRequest, Bootstrap, EndSession, Login, FindActiveSession,
         CheckPermission, Abandon, GrantSystemRole, LockGrant, InsertGrant, CommitGrant,
         RevokeRoleBinding, RevokeProjectReviewRole, Revoke, CheckAssignee, Decide

\* Those a submission asks to decide hold the role when it commits
\* (SubmitWorkProduct, FOR SHARE OF role_bindings).
THEOREM AssigneesHoldRole == Spec => AssigneeHoldsRole
<1>1. ASSUME AInv, [Next]_vars, NEW u \in assigned' \ assigned
      PROVE  \E i \in DOMAIN binding :
                /\ InForce(i) /\ binding[i].user = u /\ binding[i].scope = "project"
                /\ RolePermission[binding[i].role] \cap ReviewPermission # {}
  <2>1. PICK r \in Request : CommitSubmission(r)
    BY <1>1, OnlySubmission
  <2>2. Able(request[r].arg.binding) /\ binding[request[r].arg.binding].user = u
    BY <1>1, <2>1 DEF CommitSubmission, AInv, Sound, SubmissionSound
  <2>. QED
    BY <2>2 DEF Able, Gives, Confers
<1>2. AInv /\ [Next]_vars =>
        [\A u \in assigned' \ assigned : \E i \in DOMAIN binding :
          /\ InForce(i) /\ binding[i].user = u /\ binding[i].scope = "project"
          /\ RolePermission[binding[i].role] \cap ReviewPermission # {}]_vars
  BY <1>1
<1>. QED
  BY <1>2, Invariant, PTL DEF Spec, AssigneeHoldsRole
=============================================================================
