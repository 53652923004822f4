---------------------------- MODULE EventDelivery ----------------------------
(***************************************************************************)
(* The transactional outbox and the delivery engine of delmos              *)
(* (internal/automation/envelope.go and dispatcher.go).                    *)
(*                                                                         *)
(* A business transaction writes an event to core.event_outbox.  Every     *)
(* engine goroutine (Engine.Run) repeats two calls: DispatchPending turns  *)
(* the undispatched events into one core.event_deliveries row per active   *)
(* subscription, and ClaimAndProcess leases a batch of those rows and runs *)
(* the registered handler of each in a transaction of its own together     *)
(* with the acknowledgement.                                               *)
(*                                                                         *)
(* Granularity: one action per database statement or transaction boundary  *)
(* at which another engine, a crash or the clock can come between.  An     *)
(* autocommit UPDATE is atomic; so is "ack and commit", because the ack    *)
(* holds the row lock until the commit.                                    *)
(*                                                                         *)
(* Abstractions.  ORDER BY created_at is left out: a batch is any set of   *)
(* at most LIMIT eligible rows.  now() is left out: a lease is current     *)
(* until LeaseLapses says that lease_until has passed.  A lease token is a *)
(* natural number, fresh for every claim, in place of uuid.New().          *)
(***************************************************************************)
EXTENDS Naturals, FiniteSets

CONSTANTS
    Event,          \* rows a business transaction may add to event_outbox
    Subscription,   \* active rows of trigger_subscriptions
    Routes,         \* Routes[e]: the subscriptions of the event key of e
    Handled,        \* subscriptions whose trigger_key has a handler
    Worker,         \* engine goroutines: one per running delmos process
    NoDelivery,     \* "no delivery in hand"
    MaxAttempts,    \* event_deliveries.max_attempts
    DispatchLimit,  \* LIMIT of DispatchPending
    BatchSize,      \* LIMIT of ClaimAndProcess
    PoolSize,       \* connections in the pool of one process
    MaxFaults       \* bound: crashes, lost statements and outrun leases

Delivery == {d \in Event \X Subscription : d[2] \in Routes[d[1]]}

ASSUME RoutesAssumption == Routes \in [Event -> SUBSET Subscription]
ASSUME HandledAssumption == Handled \subseteq Subscription
ASSUME NoDeliveryAssumption == NoDelivery \notin Delivery
ASSUME LimitsAssumption ==
    /\ MaxAttempts \in Nat \ {0}
    /\ DispatchLimit \in Nat \ {0}
    /\ BatchSize \in Nat \ {0}
    /\ PoolSize \in Nat \ {0}
    /\ MaxFaults \in Nat

VARIABLES
    outbox,     \* state of each event_outbox row
    status,     \* event_deliveries.status, "absent" before the insert
    token,      \* event_deliveries.lease_token, 0 for NULL
    lapsed,     \* lease_until < now()
    attempts,   \* event_deliveries.delivery_attempts
    issued,     \* tokens drawn so far
    pc,         \* where each engine is in its loop
    locked,     \* outbox rows locked by its open dispatch transaction
    lease,      \* its workerToken, 0 outside ClaimAndProcess
    batch,      \* claimed deliveries it has not finished with
    current,    \* the delivery in processOne
    faults,     \* faults so far, at most MaxFaults
    inserted,   \* history: rows inserted for each event and subscription
    effects,    \* history: committed runs of the handler for each delivery
    undone      \* history: times a failure report undid "delivered"

rows == <<outbox, status, token, lapsed, attempts>>
engines == <<issued, pc, locked, lease, batch, current>>
history == <<inserted, effects, undone>>
vars == <<rows, engines, faults, history>>

Final == {"delivered", "dead_letter"}

\* Program counters at which an engine holds a connection with an open
\* transaction: dispatching, or from processOne's Begin to its return.
InTransaction == {"dispatching", "handler", "ack", "failed"}

TypeOK ==
    /\ outbox \in [Event -> {"absent", "uncommitted", "pending", "dispatched"}]
    /\ status \in [Delivery -> {"absent", "pending", "leased"} \cup Final]
    /\ token \in [Delivery -> Nat]
    /\ lapsed \in [Delivery -> BOOLEAN]
    /\ attempts \in [Delivery -> Nat]
    /\ issued \in Nat
    /\ pc \in [Worker -> {"dispatch", "claim", "load", "batch", "unrouted"}
                           \cup InTransaction]
    /\ locked \in [Worker -> SUBSET Event]
    /\ lease \in [Worker -> Nat]
    /\ batch \in [Worker -> SUBSET Delivery]
    /\ current \in [Worker -> Delivery \cup {NoDelivery}]
    /\ faults \in 0..MaxFaults
    /\ inserted \in [Delivery -> Nat]
    /\ effects \in [Delivery -> Nat]
    /\ undone \in [Delivery -> Nat]

Init ==
    /\ outbox = [e \in Event |-> "absent"]
    /\ status = [d \in Delivery |-> "absent"]
    /\ token = [d \in Delivery |-> 0]
    /\ lapsed = [d \in Delivery |-> FALSE]
    /\ attempts = [d \in Delivery |-> 0]
    /\ issued = 0
    /\ pc = [w \in Worker |-> "dispatch"]
    /\ locked = [w \in Worker |-> {}]
    /\ lease = [w \in Worker |-> 0]
    /\ batch = [w \in Worker |-> {}]
    /\ current = [w \in Worker |-> NoDelivery]
    /\ faults = 0
    /\ inserted = [d \in Delivery |-> 0]
    /\ effects = [d \in Delivery |-> 0]
    /\ undone = [d \in Delivery |-> 0]

-----------------------------------------------------------------------------
(* Business transactions *)

\* EmitEvent inserts the row in the caller's open transaction.
EmitEvent(e) ==
    /\ outbox[e] = "absent"
    /\ outbox' = [outbox EXCEPT ![e] = "uncommitted"]
    /\ UNCHANGED <<status, token, lapsed, attempts, engines, faults, history>>

\* The caller commits and the row becomes visible, or rolls back and there
\* was never a row.
EndBusinessTransaction(e) ==
    /\ outbox[e] = "uncommitted"
    /\ \E outcome \in {"pending", "absent"} :
           outbox' = [outbox EXCEPT ![e] = outcome]
    /\ UNCHANGED <<status, token, lapsed, attempts, engines, faults, history>>

-----------------------------------------------------------------------------
(* DispatchPending *)

\* Each process has a pool of its own.  pgxpool waits for a free connection.
FreeConnection(w) ==
    (IF pc[w] \in InTransaction THEN 1 ELSE 0) < PoolSize

\* Faulty variant, to test OneRowPerRoute: the SELECT takes no row locks.
UndispatchedUnlocked == {e \in Event : outbox[e] = "pending"}

\* SELECT ... WHERE dispatched_at IS NULL ... FOR UPDATE SKIP LOCKED: the
\* rows other engines hold are passed over.
Undispatched == {e \in Event : outbox[e] = "pending"
                                /\ \A w \in Worker : e \notin locked[w]}

SelectPending(w) ==
    /\ pc[w] = "dispatch"
    /\ FreeConnection(w)
    /\ IF Undispatched = {}
         THEN /\ pc' = [pc EXCEPT ![w] = "claim"]
              /\ UNCHANGED locked
         ELSE \E B \in SUBSET Undispatched \ {{}} :
              /\ Cardinality(B) <= DispatchLimit
              /\ locked' = [locked EXCEPT ![w] = B]
              /\ pc' = [pc EXCEPT ![w] = "dispatching"]
    /\ UNCHANGED <<rows, issued, lease, batch, current, faults, history>>

\* The INSERTs of the deliveries, dispatched_at = now() and the commit.
CommitDispatch(w) ==
    /\ pc[w] = "dispatching"
    /\ outbox' = [e \in Event |->
                    IF e \in locked[w] THEN "dispatched" ELSE outbox[e]]
    /\ status' = [d \in Delivery |->
                    IF d[1] \in locked[w] THEN "pending" ELSE status[d]]
    /\ inserted' = [d \in Delivery |->
                    IF d[1] \in locked[w] THEN inserted[d] + 1 ELSE inserted[d]]
    /\ locked' = [locked EXCEPT ![w] = {}]
    /\ pc' = [pc EXCEPT ![w] = "claim"]
    /\ UNCHANGED <<token, lapsed, attempts, issued, lease, batch, current,
                   faults, effects, undone>>

Fault == faults < MaxFaults /\ faults' = faults + 1

\* An error in DispatchPending rolls back; Run logs it and goes on.
DispatchFails(w) ==
    /\ pc[w] = "dispatching"
    /\ Fault
    /\ locked' = [locked EXCEPT ![w] = {}]
    /\ pc' = [pc EXCEPT ![w] = "claim"]
    /\ UNCHANGED <<rows, issued, lease, batch, current, history>>

-----------------------------------------------------------------------------
(* ClaimAndProcess *)

\* Faulty variant, to test Settled: leases that ran out are not taken over.
ClaimablePending(d) == status[d] = "pending"

Claimable(d) == \/ status[d] = "pending"
                \/ status[d] = "leased" /\ lapsed[d]

\* Faulty variant, to test TokenMeansLeased: one token for all calls.
SharedToken == 1

\* workerToken := uuid.New()
WorkerToken == issued + 1

\* The claiming UPDATE: a fresh token, a new lease, one more attempt.  It
\* does not look at max_attempts.
Claim(w) ==
    /\ pc[w] = "claim"
    /\ FreeConnection(w)
    /\ \E B \in SUBSET {d \in Delivery : Claimable(d)} \ {{}} :
         /\ Cardinality(B) <= BatchSize
         /\ status' = [d \in Delivery |->
                         IF d \in B THEN "leased" ELSE status[d]]
         /\ token' = [d \in Delivery |->
                         IF d \in B THEN WorkerToken ELSE token[d]]
         /\ lapsed' = [d \in Delivery |-> d \notin B /\ lapsed[d]]
         /\ attempts' = [d \in Delivery |->
                         IF d \in B THEN attempts[d] + 1 ELSE attempts[d]]
         /\ batch' = [batch EXCEPT ![w] = B]
         /\ lease' = [lease EXCEPT ![w] = WorkerToken]
    /\ issued' = issued + 1
    /\ pc' = [pc EXCEPT ![w] = "load"]
    /\ UNCHANGED <<outbox, locked, current, faults, history>>

NothingToClaim(w) ==
    /\ pc[w] = "claim"
    /\ FreeConnection(w)
    /\ \A d \in Delivery : ~Claimable(d)
    /\ pc' = [pc EXCEPT ![w] = "dispatch"]
    /\ UNCHANGED <<rows, issued, locked, lease, batch, current, faults, history>>

\* loadDeliveryDetails reads the envelopes of the claimed rows.
LoadDetails(w) ==
    /\ pc[w] = "load"
    /\ pc' = [pc EXCEPT ![w] = "batch"]
    /\ UNCHANGED <<rows, issued, locked, lease, batch, current, faults, history>>

\* The engine goes back to its ticker and forgets the call's token.
Forget(w) ==
    /\ pc' = [pc EXCEPT ![w] = "dispatch"]
    /\ lease' = [lease EXCEPT ![w] = 0]
    /\ batch' = [batch EXCEPT ![w] = {}]
    /\ current' = [current EXCEPT ![w] = NoDelivery]
    /\ locked' = [locked EXCEPT ![w] = {}]

\* An error while loading strands the whole batch in "leased".
LoadFails(w) ==
    /\ pc[w] = "load"
    /\ Fault
    /\ Forget(w)
    /\ UNCHANGED <<rows, issued, history>>

EndBatch(w) ==
    /\ pc[w] = "batch"
    /\ batch[w] = {}
    /\ Forget(w)
    /\ UNCHANGED <<rows, issued, faults, history>>

-----------------------------------------------------------------------------
(* processOne *)

\* The next delivery of the batch, in any order: loadDeliveryDetails has no
\* ORDER BY.  Without a registered handler it is reported failed at once,
\* otherwise Begin opens the transaction the handler runs in.
ProcessNext(w, d) ==
    /\ pc[w] = "batch"
    /\ d \in batch[w]
    /\ current' = [current EXCEPT ![w] = d]
    /\ IF d[2] \in Handled
         THEN FreeConnection(w) /\ pc' = [pc EXCEPT ![w] = "handler"]
         ELSE pc' = [pc EXCEPT ![w] = "unrouted"]
    /\ UNCHANGED <<rows, issued, locked, lease, batch, faults, history>>

\* processOne has returned for the delivery in hand.
Done(w) ==
    /\ pc' = [pc EXCEPT ![w] = "batch"]
    /\ batch' = [batch EXCEPT ![w] = @ \ {current[w]}]
    /\ current' = [current EXCEPT ![w] = NoDelivery]

\* Begin fails: nothing is recorded and the row stays "leased".
BeginFails(w, d) ==
    /\ pc[w] = "batch"
    /\ d \in batch[w]
    /\ d[2] \in Handled
    /\ Fault
    /\ batch' = [batch EXCEPT ![w] = @ \ {d}]
    /\ UNCHANGED <<rows, issued, pc, locked, lease, current, history>>

\* The handler returns an error or nil.  Its writes stay in the open
\* transaction.
HandlerReturns(w) ==
    /\ pc[w] = "handler"
    /\ \E outcome \in {"ack", "failed"} : pc' = [pc EXCEPT ![w] = outcome]
    /\ UNCHANGED <<rows, issued, locked, lease, batch, current, faults, history>>

\* Faulty variant, to test EffectsMatchStatus: the ack has no fence.
Unfenced(w) == TRUE

\* The fence of the ack, WHERE id = d AND lease_token = workerToken: the
\* status is not tested.
StillLeased(w) == token[current[w]] = lease[w]

\* The ack UPDATE, then Commit.  With no row affected the transaction, and with it
\* the effect of the handler, is rolled back.
Ack(w) ==
    /\ pc[w] = "ack"
    /\ LET d == current[w] IN
         IF StillLeased(w)
           THEN /\ status' = [status EXCEPT ![d] = "delivered"]
                /\ token' = [token EXCEPT ![d] = 0]
                /\ effects' = [effects EXCEPT ![d] = @ + 1]
           ELSE UNCHANGED <<status, token, effects>>
    /\ Done(w)
    /\ UNCHANGED <<outbox, lapsed, attempts, issued, locked, lease, faults,
                   inserted, undone>>

\* Faulty variant, to test ImplementsReliableEffects: the handler writes
\* through the pool instead of its transaction, so the rollback misses it.
AckFailsAfterEffect(w) ==
    /\ pc[w] = "ack"
    /\ Fault
    /\ effects' = [effects EXCEPT ![current[w]] = @ + 1]
    /\ Done(w)
    /\ UNCHANGED <<rows, issued, locked, lease, inserted, undone>>

\* The ack or the commit fails: all is rolled back, nothing is recorded.
\* (A commit whose answer is lost is Ack.)
AckFails(w) ==
    /\ pc[w] = "ack"
    /\ Fault
    /\ Done(w)
    /\ UNCHANGED <<rows, issued, locked, lease, history>>

\* Faulty variant, to test DeadLetterAfterMaxAttempts: one attempt too many.
AfterFailureLate(d) ==
    IF attempts[d] > MaxAttempts THEN "dead_letter" ELSE "pending"

\* The CASE of markFailed.
AfterFailure(d) ==
    IF attempts[d] >= MaxAttempts THEN "dead_letter" ELSE "pending"

\* markFailed: an autocommit UPDATE ... WHERE id = d on a connection of its
\* own, while the handler's transaction is still open.  It tests neither the
\* token nor the status.
MarkFailed(w) ==
    /\ pc[w] \in {"failed", "unrouted"}
    /\ FreeConnection(w)
    /\ LET d == current[w] IN
         /\ status' = [status EXCEPT ![d] = AfterFailure(d)]
         /\ token' = [token EXCEPT ![d] = 0]
         /\ undone' = [undone EXCEPT ![d] =
               IF status[d] = "delivered" THEN @ + 1 ELSE @]
    /\ Done(w)
    /\ UNCHANGED <<outbox, lapsed, attempts, issued, locked, lease, faults,
                   inserted, effects>>

\* The UPDATE of markFailed fails: it is only logged.
MarkFailedLost(w) ==
    /\ pc[w] \in {"failed", "unrouted"}
    /\ Fault
    /\ Done(w)
    /\ UNCHANGED <<rows, issued, locked, lease, history>>

-----------------------------------------------------------------------------
(* Crashes and the clock *)

\* The process dies (or a handler panics: the engine has no recover) and is
\* started again; the server rolls its open transaction back.
Crash(w) ==
    /\ pc[w] # "dispatch"
    /\ Fault
    /\ Forget(w)
    /\ UNCHANGED <<rows, issued, history>>

\* An engine is still working under the lease of d.
InHand(d) == \E w \in Worker : d \in batch[w] /\ lease[w] = token[d]

\* lease_until passes.  For a batch still being processed this is a fault:
\* the engine was slower than automation.lease_seconds.
LeaseLapses(d) ==
    /\ status[d] = "leased"
    /\ ~lapsed[d]
    /\ IF InHand(d) THEN Fault ELSE UNCHANGED faults
    /\ lapsed' = [lapsed EXCEPT ![d] = TRUE]
    /\ UNCHANGED <<outbox, status, token, attempts, engines, history>>

-----------------------------------------------------------------------------
EngineStep(w) ==
    \/ SelectPending(w) \/ CommitDispatch(w)
    \/ Claim(w) \/ NothingToClaim(w) \/ LoadDetails(w) \/ EndBatch(w)
    \/ \E d \in Delivery : ProcessNext(w, d)
    \/ HandlerReturns(w) \/ Ack(w) \/ MarkFailed(w)

EngineFault(w) ==
    \/ DispatchFails(w) \/ LoadFails(w) \/ AckFails(w) \/ MarkFailedLost(w)
    \/ \E d \in Delivery : BeginFails(w, d)
    \/ Crash(w)

Next ==
    \/ \E e \in Event : EmitEvent(e) \/ EndBusinessTransaction(e)
    \/ \E w \in Worker : EngineStep(w) \/ EngineFault(w)
    \/ \E d \in Delivery : LeaseLapses(d)

Spec == Init /\ [][Next]_vars

\* Every engine keeps running its loop and time passes.  No fairness for the
\* business transactions, for faults or for which way a handler returns.
Fairness ==
    /\ \A w \in Worker : WF_vars(EngineStep(w))
    /\ \A d \in Delivery : WF_vars(LeaseLapses(d) /\ ~InHand(d))

FairSpec == Spec /\ Fairness
-----------------------------------------------------------------------------
(* Properties *)

\* Dispatch neither loses nor repeats a route: an event marked dispatched has
\* exactly one delivery row per subscription, any other event has none,
\* whatever dispatchers run at once and wherever one of them fails.
OneRowPerRoute ==
    \A d \in Delivery :
        inserted[d] = IF outbox[d[1]] = "dispatched" THEN 1 ELSE 0

\* The ack tests the token only, so it is right only if a token is set on
\* exactly the leased rows, and no two engines can pass the fence for one row.
TokenMeansLeased ==
    /\ \A d \in Delivery : token[d] # 0 <=> status[d] = "leased"
    /\ \A d \in Delivery, v, w \in Worker :
          /\ d \in batch[v] /\ lease[v] = token[d]
          /\ d \in batch[w] /\ lease[w] = token[d]
          => v = w

\* What the handlers did is what the rows say: a delivery's effect has been
\* committed once if the row says "delivered", plus once for every failure
\* report that overwrote "delivered".  So repetition has that one source.
EffectsMatchStatus ==
    \A d \in Delivery :
        effects[d] = undone[d] + (IF status[d] = "delivered" THEN 1 ELSE 0)

\* A row is given up only after max_attempts claims, and never offered for
\* another claim after that many failures.
DeadLetterAfterMaxAttempts ==
    \A d \in Delivery :
        /\ status[d] = "dead_letter" => attempts[d] >= MaxAttempts
        /\ status[d] = "pending" => attempts[d] < MaxAttempts

\* Every committed event is eventually delivered to each of its subscriptions
\* or put on the dead-letter list, and stays there.
Settled ==
    \A d \in Delivery :
        outbox[d[1]] = "pending" ~> [](status[d] \in Final)

\* What a delivery row means to the two sides the engine stands between.
DutyOf(d) ==
    CASE outbox[d[1]] \in {"absent", "uncommitted"} -> "none"
      [] status[d] = "delivered" -> "performed"
      [] status[d] = "dead_letter" -> "given_up"
      [] OTHER -> "owed"

RE == INSTANCE ReliableEffects WITH
        Duty <- Delivery,
        duty <- [d \in Delivery |-> DutyOf(d)],
        performed <- effects

\* A single engine, the deployment of cmd/delmos, implements ReliableEffects:
\* crashes, lost statements, outrun leases and retries never repeat an effect,
\* never lose one, and never change an outcome.
ImplementsReliableEffects == RE!FairSpec

\* The comment in processOne: a lost lease rolls the effect back, "there is
\* no duplication".
EffectAtMostOnce == \A d \in Delivery : effects[d] <= 1

\* SPEC-04: a delivery with delivery_attempts >= max_attempts becomes a dead
\* letter, so no delivery is attempted more often.
AttemptsBounded == \A d \in Delivery : attempts[d] <= MaxAttempts

\* The comment on processOne: after an error of the handler the delivery goes
\* to "pending" or "dead_letter" (or the engine is restarted).
FailureReported ==
    \A w \in Worker : pc[w] = "failed" ~> pc[w] # "failed"

=============================================================================
