------------------------ MODULE EventDeliveryProofs ------------------------
(***************************************************************************)
(* What EventDelivery guarantees for every set of events, subscriptions    *)
(* and engines and for every limit, proved from one inductive invariant.   *)
(***************************************************************************)
EXTENDS EventDelivery, TLAPS

(* The inductive invariant *)

\* An open dispatch transaction holds undispatched rows, each row in one hand.
LocksHeld ==
    /\ \A w \in Worker, e \in Event :
          e \in locked[w] => pc[w] = "dispatching" /\ outbox[e] = "pending"
    /\ \A v, w \in Worker, e \in Event :
          e \in locked[v] /\ e \in locked[w] => v = w

\* A row exists once its event has been dispatched, and is untouched before.
RowsExist ==
    \A d \in Delivery :
        /\ status[d] = "absent" <=> outbox[d[1]] # "dispatched"
        /\ inserted[d] = IF status[d] = "absent" THEN 0 ELSE 1
        /\ status[d] = "absent" => attempts[d] = 0

\* Tokens are drawn in order, so no two calls share one.
TokensDrawn ==
    /\ \A d \in Delivery : token[d] <= issued
    /\ \A w \in Worker : lease[w] <= issued
    /\ \A v, w \in Worker : lease[v] = lease[w] /\ lease[v] # 0 => v = w

\* An engine that works on a batch holds a token and works on its own rows.
WorkInHand ==
    \A w \in Worker :
        /\ pc[w] \in {"dispatch", "dispatching", "claim"} => batch[w] = {}
        /\ pc[w] \notin {"dispatch", "dispatching", "claim"} => lease[w] # 0
        /\ pc[w] \in {"handler", "ack", "failed", "unrouted"}
              => current[w] \in batch[w]
        /\ \A d \in batch[w] : status[d] # "absent"

TokenOfLeasedRow == \A d \in Delivery : token[d] # 0 <=> status[d] = "leased"

IInv ==
    /\ TypeOK
    /\ LocksHeld
    /\ RowsExist
    /\ TokensDrawn
    /\ WorkInHand
    /\ TokenOfLeasedRow
    /\ EffectsMatchStatus
    /\ DeadLetterAfterMaxAttempts

\* With one engine a batch is never taken over while it is worked on, and so
\* a failure report never overwrites "delivered".
SoleInv ==
    /\ \A w \in Worker : \A d \in batch[w] : token[d] = lease[w]
    /\ \A d \in Delivery : undone[d] = 0

-----------------------------------------------------------------------------
(* Type correctness *)

\* The first part of a delivery is its event.
LEMMA DeliveryEvent == \A d \in Delivery : d[1] \in Event
  BY DEF Delivery

\* Every step of Next keeps every variable in its domain.
LEMMA TypeStep == TypeOK /\ [Next]_vars => TypeOK'
  <1> USE LimitsAssumption, RoutesAssumption, NoDeliveryAssumption
      DEF InTransaction, Final
  <1> SUFFICES ASSUME TypeOK, [Next]_vars
               PROVE  TypeOK'
    OBVIOUS
  <1> USE DEF TypeOK, rows, engines, history
  <1>1. ASSUME NEW e \in Event, EmitEvent(e)
        PROVE  TypeOK'
    BY <1>1 DEF EmitEvent
  <1>2. ASSUME NEW e \in Event, EndBusinessTransaction(e)
        PROVE  TypeOK'
    BY <1>2 DEF EndBusinessTransaction
  <1>3. ASSUME NEW d \in Delivery, LeaseLapses(d)
        PROVE  TypeOK'
    BY <1>3 DEF LeaseLapses, Fault
  <1>4. ASSUME NEW w \in Worker, SelectPending(w)
        PROVE  TypeOK'
    BY <1>4 DEF SelectPending, Undispatched
  <1>5. ASSUME NEW w \in Worker, CommitDispatch(w)
        PROVE  TypeOK'
    BY <1>5 DEF CommitDispatch
  <1>6. ASSUME NEW w \in Worker, Claim(w)
        PROVE  TypeOK'
    BY <1>6 DEF Claim, WorkerToken
  <1>7. ASSUME NEW w \in Worker, NothingToClaim(w)
        PROVE  TypeOK'
    BY <1>7 DEF NothingToClaim
  <1>8. ASSUME NEW w \in Worker, LoadDetails(w)
        PROVE  TypeOK'
    BY <1>8 DEF LoadDetails
  <1>9. ASSUME NEW w \in Worker, EndBatch(w)
        PROVE  TypeOK'
    BY <1>9 DEF EndBatch, Forget
  <1>10. ASSUME NEW w \in Worker, HandlerReturns(w)
        PROVE  TypeOK'
    BY <1>10 DEF HandlerReturns
  <1>11. ASSUME NEW w \in Worker, Ack(w)
        PROVE  TypeOK'
    BY <1>11 DEF Ack, Done
  <1>12. ASSUME NEW w \in Worker, MarkFailed(w)
        PROVE  TypeOK'
    <2>1. /\ status' \in [Delivery -> {"absent", "pending", "leased"} \cup Final]
          /\ token' \in [Delivery -> Nat]
      BY <1>12 DEF MarkFailed, AfterFailure
    <2>2. undone' \in [Delivery -> Nat]
      <3> DEFINE more == IF status[current[w]] = "delivered"
                           THEN undone[current[w]] + 1
                           ELSE undone[current[w]]
      <3>1. undone' = [undone EXCEPT ![current[w]] = more]
        BY <1>12 DEF MarkFailed
      <3>2. CASE current[w] \in Delivery
        <4>1. more \in Nat
          BY <3>2
        <4>2. QED
          BY <3>1, <4>1
      <3>3. CASE current[w] = NoDelivery
        BY <3>1, <3>3
      <3>4. QED
        BY <3>2, <3>3
    <2>3. QED
      BY <1>12, <2>1, <2>2 DEF MarkFailed, Done
  <1>13. ASSUME NEW w \in Worker, DispatchFails(w)
        PROVE  TypeOK'
    BY <1>13 DEF DispatchFails, Fault
  <1>14. ASSUME NEW w \in Worker, LoadFails(w)
        PROVE  TypeOK'
    BY <1>14 DEF LoadFails, Fault, Forget
  <1>15. ASSUME NEW w \in Worker, AckFails(w)
        PROVE  TypeOK'
    BY <1>15 DEF AckFails, Fault, Done
  <1>16. ASSUME NEW w \in Worker, MarkFailedLost(w)
        PROVE  TypeOK'
    BY <1>16 DEF MarkFailedLost, Fault, Done
  <1>17. ASSUME NEW w \in Worker, Crash(w)
        PROVE  TypeOK'
    BY <1>17 DEF Crash, Fault, Forget
  <1>18. ASSUME NEW w \in Worker, NEW d \in Delivery, ProcessNext(w, d)
        PROVE  TypeOK'
    BY <1>18 DEF ProcessNext
  <1>19. ASSUME NEW w \in Worker, NEW d \in Delivery, BeginFails(w, d)
        PROVE  TypeOK'
    BY <1>19 DEF BeginFails, Fault
  <1>20. CASE UNCHANGED vars
    BY <1>20 DEF vars
  <1>21. QED
    BY <1>1, <1>2, <1>3, <1>4, <1>5, <1>6, <1>7, <1>8, <1>9, <1>10, <1>11, <1>12, <1>13, <1>14, <1>15, <1>16, <1>17, <1>18, <1>19, <1>20
       DEF Next, EngineStep, EngineFault

\* Every variable keeps to its domain: the row of event_deliveries never
\* leaves the statuses the engine writes, a count never goes wrong.
THEOREM TypeCorrect == Spec => []TypeOK
  <1>1. Init => TypeOK
    BY LimitsAssumption DEF Init, TypeOK, InTransaction
  <1>2. QED
    BY <1>1, TypeStep, PTL DEF Spec

-----------------------------------------------------------------------------
(* The inductive invariant *)

\* Every step of Next preserves the inductive invariant.
LEMMA InvariantStep == IInv /\ [Next]_vars => IInv'
  <1> SUFFICES ASSUME TypeOK, LocksHeld, RowsExist, TokensDrawn, WorkInHand,
                      TokenOfLeasedRow, EffectsMatchStatus,
                      DeadLetterAfterMaxAttempts, [Next]_vars
               PROVE  IInv'
    BY DEF IInv
  <1> DEFINE Rest == /\ LocksHeld /\ RowsExist /\ TokensDrawn /\ WorkInHand
                     /\ TokenOfLeasedRow /\ EffectsMatchStatus
                     /\ DeadLetterAfterMaxAttempts
  <1> USE LimitsAssumption, RoutesAssumption, NoDeliveryAssumption, DeliveryEvent
      DEF TypeOK, rows, engines, history
  <1>1. ASSUME NEW e \in Event, EmitEvent(e)
        PROVE  Rest'
    <2>1. LocksHeld'
      BY <1>1 DEF EmitEvent, LocksHeld
    <2>2. RowsExist'
      BY <1>1 DEF EmitEvent, RowsExist
    <2>3. /\ TokensDrawn'
          /\ WorkInHand'
          /\ TokenOfLeasedRow'
          /\ EffectsMatchStatus'
          /\ DeadLetterAfterMaxAttempts'
      BY <1>1 DEF EmitEvent,
             TokensDrawn, WorkInHand, TokenOfLeasedRow, EffectsMatchStatus, DeadLetterAfterMaxAttempts
    <2>4. QED
      BY <2>1, <2>2, <2>3
  <1>2. ASSUME NEW e \in Event, EndBusinessTransaction(e)
        PROVE  Rest'
    <2>1. LocksHeld'
      BY <1>2 DEF EndBusinessTransaction, LocksHeld
    <2>2. RowsExist'
      BY <1>2 DEF EndBusinessTransaction, RowsExist
    <2>3. /\ TokensDrawn'
          /\ WorkInHand'
          /\ TokenOfLeasedRow'
          /\ EffectsMatchStatus'
          /\ DeadLetterAfterMaxAttempts'
      BY <1>2 DEF EndBusinessTransaction,
             TokensDrawn, WorkInHand, TokenOfLeasedRow, EffectsMatchStatus, DeadLetterAfterMaxAttempts
    <2>4. QED
      BY <2>1, <2>2, <2>3
  <1>3. ASSUME NEW d \in Delivery, LeaseLapses(d)
        PROVE  Rest'
    <2>1. /\ LocksHeld'
          /\ RowsExist'
          /\ TokensDrawn'
          /\ WorkInHand'
          /\ TokenOfLeasedRow'
          /\ EffectsMatchStatus'
          /\ DeadLetterAfterMaxAttempts'
      BY <1>3 DEF LeaseLapses,
             LocksHeld, RowsExist, TokensDrawn, WorkInHand, TokenOfLeasedRow, EffectsMatchStatus, DeadLetterAfterMaxAttempts
    <2>2. QED
      BY <2>1
  <1>4. ASSUME NEW w \in Worker, SelectPending(w)
        PROVE  Rest'
    <2>1. LocksHeld'
      <3>1. CASE Undispatched = {}
        BY <1>4, <3>1 DEF SelectPending, LocksHeld
      <3>2. CASE Undispatched # {}
        <4>1. PICK B \in SUBSET Undispatched :
                /\ locked' = [locked EXCEPT ![w] = B]
                /\ pc' = [pc EXCEPT ![w] = "dispatching"]
          BY <1>4, <3>2 DEF SelectPending
        <4>2. \A e \in B : /\ e \in Event
                            /\ outbox[e] = "pending"
                            /\ \A v \in Worker : e \notin locked[v]
          BY DEF Undispatched
        <4>3. outbox' = outbox /\ pc[w] = "dispatch"
          BY <1>4 DEF SelectPending
        <4>4. \A v \in Worker : locked'[v] = IF v = w THEN B ELSE locked[v]
          BY <4>1
        <4>5. \A v \in Worker :
                pc'[v] = IF v = w THEN "dispatching" ELSE pc[v]
          BY <4>1
        <4>6. QED
          BY <4>2, <4>3, <4>4, <4>5 DEF LocksHeld
      <3>3. QED
        BY <3>1, <3>2
    <2>2. WorkInHand'
      BY <1>4 DEF SelectPending, Undispatched, WorkInHand
    <2>3. /\ RowsExist'
          /\ TokensDrawn'
          /\ TokenOfLeasedRow'
          /\ EffectsMatchStatus'
          /\ DeadLetterAfterMaxAttempts'
      BY <1>4 DEF SelectPending, Undispatched,
             RowsExist, TokensDrawn, TokenOfLeasedRow, EffectsMatchStatus, DeadLetterAfterMaxAttempts
    <2>4. QED
      BY <2>1, <2>2, <2>3
  <1>5. ASSUME NEW w \in Worker, CommitDispatch(w)
        PROVE  Rest'
    <2>0. \A d \in Delivery :
            d[1] \in locked[w] => /\ status[d] = "absent" /\ token[d] = 0
                                 /\ attempts[d] = 0 /\ inserted[d] = 0
                                 /\ outbox[d[1]] = "pending"
      BY <1>5 DEF CommitDispatch, LocksHeld, RowsExist, TokenOfLeasedRow
    <2>1. LocksHeld'
      BY <1>5 DEF CommitDispatch, LocksHeld
    <2>2. RowsExist'
      BY <1>5, <2>0 DEF CommitDispatch, RowsExist
    <2>3. WorkInHand'
      BY <1>5 DEF CommitDispatch, WorkInHand
    <2>4. TokenOfLeasedRow'
      BY <1>5, <2>0 DEF CommitDispatch, TokenOfLeasedRow
    <2>5. EffectsMatchStatus'
      BY <1>5, <2>0 DEF CommitDispatch, EffectsMatchStatus
    <2>6. DeadLetterAfterMaxAttempts'
      BY <1>5, <2>0 DEF CommitDispatch, DeadLetterAfterMaxAttempts
    <2>7. TokensDrawn'
      BY <1>5 DEF CommitDispatch,
             TokensDrawn
    <2>8. QED
      BY <2>1, <2>2, <2>3, <2>4, <2>5, <2>6, <2>7
  <1>6. ASSUME NEW w \in Worker, Claim(w)
        PROVE  Rest'
    <2>1. LocksHeld'
      BY <1>6 DEF Claim, Claimable, WorkerToken, LocksHeld
    <2>2. RowsExist'
      BY <1>6 DEF Claim, Claimable, WorkerToken, RowsExist
    <2>3. TokensDrawn'
      BY <1>6 DEF Claim, Claimable, WorkerToken, TokensDrawn
    <2>4. WorkInHand'
      BY <1>6 DEF Claim, Claimable, WorkerToken, WorkInHand
    <2>5. TokenOfLeasedRow'
      BY <1>6 DEF Claim, Claimable, WorkerToken, TokenOfLeasedRow
    <2>6. EffectsMatchStatus'
      BY <1>6 DEF Claim, Claimable, WorkerToken, EffectsMatchStatus
    <2>7. DeadLetterAfterMaxAttempts'
      BY <1>6 DEF Claim, Claimable, WorkerToken, DeadLetterAfterMaxAttempts
    <2>8. QED
      BY <2>1, <2>2, <2>3, <2>4, <2>5, <2>6, <2>7
  <1>7. ASSUME NEW w \in Worker, NothingToClaim(w)
        PROVE  Rest'
    <2>1. LocksHeld'
      BY <1>7 DEF NothingToClaim, LocksHeld
    <2>2. WorkInHand'
      BY <1>7 DEF NothingToClaim, WorkInHand
    <2>3. /\ RowsExist'
          /\ TokensDrawn'
          /\ TokenOfLeasedRow'
          /\ EffectsMatchStatus'
          /\ DeadLetterAfterMaxAttempts'
      BY <1>7 DEF NothingToClaim,
             RowsExist, TokensDrawn, TokenOfLeasedRow, EffectsMatchStatus, DeadLetterAfterMaxAttempts
    <2>4. QED
      BY <2>1, <2>2, <2>3
  <1>8. ASSUME NEW w \in Worker, LoadDetails(w)
        PROVE  Rest'
    <2>1. LocksHeld'
      BY <1>8 DEF LoadDetails, LocksHeld
    <2>2. WorkInHand'
      BY <1>8 DEF LoadDetails, WorkInHand
    <2>3. /\ RowsExist'
          /\ TokensDrawn'
          /\ TokenOfLeasedRow'
          /\ EffectsMatchStatus'
          /\ DeadLetterAfterMaxAttempts'
      BY <1>8 DEF LoadDetails,
             RowsExist, TokensDrawn, TokenOfLeasedRow, EffectsMatchStatus, DeadLetterAfterMaxAttempts
    <2>4. QED
      BY <2>1, <2>2, <2>3
  <1>9. ASSUME NEW w \in Worker, EndBatch(w)
        PROVE  Rest'
    <2>1. LocksHeld'
      BY <1>9 DEF EndBatch, Forget, LocksHeld
    <2>2. TokensDrawn'
      BY <1>9 DEF EndBatch, Forget, TokensDrawn
    <2>3. WorkInHand'
      BY <1>9 DEF EndBatch, Forget, WorkInHand
    <2>4. /\ RowsExist'
          /\ TokenOfLeasedRow'
          /\ EffectsMatchStatus'
          /\ DeadLetterAfterMaxAttempts'
      BY <1>9 DEF EndBatch, Forget,
             RowsExist, TokenOfLeasedRow, EffectsMatchStatus, DeadLetterAfterMaxAttempts
    <2>5. QED
      BY <2>1, <2>2, <2>3, <2>4
  <1>10. ASSUME NEW w \in Worker, HandlerReturns(w)
        PROVE  Rest'
    <2>1. LocksHeld'
      BY <1>10 DEF HandlerReturns, LocksHeld
    <2>2. WorkInHand'
      BY <1>10 DEF HandlerReturns, WorkInHand
    <2>3. /\ RowsExist'
          /\ TokensDrawn'
          /\ TokenOfLeasedRow'
          /\ EffectsMatchStatus'
          /\ DeadLetterAfterMaxAttempts'
      BY <1>10 DEF HandlerReturns,
             RowsExist, TokensDrawn, TokenOfLeasedRow, EffectsMatchStatus, DeadLetterAfterMaxAttempts
    <2>4. QED
      BY <2>1, <2>2, <2>3
  <1>11. ASSUME NEW w \in Worker, Ack(w)
        PROVE  Rest'
    <2>0. /\ current[w] \in Delivery
          /\ status[current[w]] # "absent"
          /\ lease[w] # 0
          /\ StillLeased(w) => status[current[w]] = "leased"
      BY <1>11 DEF Ack, WorkInHand, StillLeased, TokenOfLeasedRow
    <2>1. LocksHeld'
      BY <1>11, <2>0 DEF Ack, Done, StillLeased, LocksHeld
    <2>2. RowsExist'
      BY <1>11, <2>0 DEF Ack, Done, StillLeased, RowsExist
    <2>3. TokensDrawn'
      BY <1>11, <2>0 DEF Ack, Done, StillLeased, TokensDrawn
    <2>4. WorkInHand'
      BY <1>11, <2>0 DEF Ack, Done, StillLeased, WorkInHand
    <2>5. TokenOfLeasedRow'
      BY <1>11, <2>0 DEF Ack, Done, StillLeased, TokenOfLeasedRow
    <2>6. EffectsMatchStatus'
      BY <1>11, <2>0 DEF Ack, Done, StillLeased, EffectsMatchStatus
    <2>7. DeadLetterAfterMaxAttempts'
      BY <1>11, <2>0 DEF Ack, Done, StillLeased, DeadLetterAfterMaxAttempts
    <2>8. QED
      BY <2>1, <2>2, <2>3, <2>4, <2>5, <2>6, <2>7
  <1>12. ASSUME NEW w \in Worker, MarkFailed(w)
        PROVE  Rest'
    <2>0. /\ current[w] \in Delivery
          /\ status[current[w]] # "absent"
          /\ lease[w] # 0
      BY <1>12 DEF MarkFailed, WorkInHand
    <2>1. LocksHeld'
      BY <1>12, <2>0 DEF MarkFailed, Done, AfterFailure, LocksHeld
    <2>2. RowsExist'
      BY <1>12, <2>0 DEF MarkFailed, Done, AfterFailure, RowsExist
    <2>3. TokensDrawn'
      BY <1>12, <2>0 DEF MarkFailed, Done, AfterFailure, TokensDrawn
    <2>4. WorkInHand'
      BY <1>12, <2>0 DEF MarkFailed, Done, AfterFailure, WorkInHand
    <2>5. TokenOfLeasedRow'
      BY <1>12, <2>0 DEF MarkFailed, Done, AfterFailure, TokenOfLeasedRow
    <2>6. EffectsMatchStatus'
      BY <1>12, <2>0 DEF MarkFailed, Done, AfterFailure, EffectsMatchStatus
    <2>7. DeadLetterAfterMaxAttempts'
      BY <1>12, <2>0 DEF MarkFailed, Done, AfterFailure, DeadLetterAfterMaxAttempts
    <2>8. QED
      BY <2>1, <2>2, <2>3, <2>4, <2>5, <2>6, <2>7
  <1>13. ASSUME NEW w \in Worker, DispatchFails(w)
        PROVE  Rest'
    <2>1. LocksHeld'
      BY <1>13 DEF DispatchFails, LocksHeld
    <2>2. WorkInHand'
      BY <1>13 DEF DispatchFails, WorkInHand
    <2>3. /\ RowsExist'
          /\ TokensDrawn'
          /\ TokenOfLeasedRow'
          /\ EffectsMatchStatus'
          /\ DeadLetterAfterMaxAttempts'
      BY <1>13 DEF DispatchFails,
             RowsExist, TokensDrawn, TokenOfLeasedRow, EffectsMatchStatus, DeadLetterAfterMaxAttempts
    <2>4. QED
      BY <2>1, <2>2, <2>3
  <1>14. ASSUME NEW w \in Worker, LoadFails(w)
        PROVE  Rest'
    <2>1. LocksHeld'
      BY <1>14 DEF LoadFails, Forget, LocksHeld
    <2>2. TokensDrawn'
      BY <1>14 DEF LoadFails, Forget, TokensDrawn
    <2>3. WorkInHand'
      BY <1>14 DEF LoadFails, Forget, WorkInHand
    <2>4. /\ RowsExist'
          /\ TokenOfLeasedRow'
          /\ EffectsMatchStatus'
          /\ DeadLetterAfterMaxAttempts'
      BY <1>14 DEF LoadFails, Forget,
             RowsExist, TokenOfLeasedRow, EffectsMatchStatus, DeadLetterAfterMaxAttempts
    <2>5. QED
      BY <2>1, <2>2, <2>3, <2>4
  <1>15. ASSUME NEW w \in Worker, AckFails(w)
        PROVE  Rest'
    <2>1. LocksHeld'
      BY <1>15 DEF AckFails, Done, LocksHeld
    <2>2. WorkInHand'
      BY <1>15 DEF AckFails, Done, WorkInHand
    <2>3. /\ RowsExist'
          /\ TokensDrawn'
          /\ TokenOfLeasedRow'
          /\ EffectsMatchStatus'
          /\ DeadLetterAfterMaxAttempts'
      BY <1>15 DEF AckFails, Done,
             RowsExist, TokensDrawn, TokenOfLeasedRow, EffectsMatchStatus, DeadLetterAfterMaxAttempts
    <2>4. QED
      BY <2>1, <2>2, <2>3
  <1>16. ASSUME NEW w \in Worker, MarkFailedLost(w)
        PROVE  Rest'
    <2>1. LocksHeld'
      BY <1>16 DEF MarkFailedLost, Done, LocksHeld
    <2>2. WorkInHand'
      BY <1>16 DEF MarkFailedLost, Done, WorkInHand
    <2>3. /\ RowsExist'
          /\ TokensDrawn'
          /\ TokenOfLeasedRow'
          /\ EffectsMatchStatus'
          /\ DeadLetterAfterMaxAttempts'
      BY <1>16 DEF MarkFailedLost, Done,
             RowsExist, TokensDrawn, TokenOfLeasedRow, EffectsMatchStatus, DeadLetterAfterMaxAttempts
    <2>4. QED
      BY <2>1, <2>2, <2>3
  <1>17. ASSUME NEW w \in Worker, Crash(w)
        PROVE  Rest'
    <2>1. LocksHeld'
      BY <1>17 DEF Crash, Forget, LocksHeld
    <2>2. TokensDrawn'
      BY <1>17 DEF Crash, Forget, TokensDrawn
    <2>3. WorkInHand'
      BY <1>17 DEF Crash, Forget, WorkInHand
    <2>4. /\ RowsExist'
          /\ TokenOfLeasedRow'
          /\ EffectsMatchStatus'
          /\ DeadLetterAfterMaxAttempts'
      BY <1>17 DEF Crash, Forget,
             RowsExist, TokenOfLeasedRow, EffectsMatchStatus, DeadLetterAfterMaxAttempts
    <2>5. QED
      BY <2>1, <2>2, <2>3, <2>4
  <1>18. ASSUME NEW w \in Worker, NEW d \in Delivery, ProcessNext(w, d)
        PROVE  Rest'
    <2>1. LocksHeld'
      BY <1>18 DEF ProcessNext, LocksHeld
    <2>2. WorkInHand'
      BY <1>18 DEF ProcessNext, WorkInHand
    <2>3. /\ RowsExist'
          /\ TokensDrawn'
          /\ TokenOfLeasedRow'
          /\ EffectsMatchStatus'
          /\ DeadLetterAfterMaxAttempts'
      BY <1>18 DEF ProcessNext,
             RowsExist, TokensDrawn, TokenOfLeasedRow, EffectsMatchStatus, DeadLetterAfterMaxAttempts
    <2>4. QED
      BY <2>1, <2>2, <2>3
  <1>19. ASSUME NEW w \in Worker, NEW d \in Delivery, BeginFails(w, d)
        PROVE  Rest'
    <2>1. WorkInHand'
      BY <1>19 DEF BeginFails, WorkInHand
    <2>2. /\ LocksHeld'
          /\ RowsExist'
          /\ TokensDrawn'
          /\ TokenOfLeasedRow'
          /\ EffectsMatchStatus'
          /\ DeadLetterAfterMaxAttempts'
      BY <1>19 DEF BeginFails,
             LocksHeld, RowsExist, TokensDrawn, TokenOfLeasedRow, EffectsMatchStatus, DeadLetterAfterMaxAttempts
    <2>3. QED
      BY <2>1, <2>2
  <1>20. ASSUME UNCHANGED vars
        PROVE  Rest'
    <2>1. LocksHeld'
      BY <1>20 DEF vars, LocksHeld
    <2>2. RowsExist'
      BY <1>20 DEF vars, RowsExist
    <2>3. TokensDrawn'
      BY <1>20 DEF vars, TokensDrawn
    <2>4. WorkInHand'
      BY <1>20 DEF vars, WorkInHand
    <2>5. TokenOfLeasedRow'
      BY <1>20 DEF vars, TokenOfLeasedRow
    <2>6. EffectsMatchStatus'
      BY <1>20 DEF vars, EffectsMatchStatus
    <2>7. DeadLetterAfterMaxAttempts'
      BY <1>20 DEF vars, DeadLetterAfterMaxAttempts
    <2>8. QED
      BY <2>1, <2>2, <2>3, <2>4, <2>5, <2>6, <2>7
  <1>21. TypeOK'
    BY TypeStep
  <1>22. QED
    BY <1>1, <1>2, <1>3, <1>4, <1>5, <1>6, <1>7, <1>8, <1>9, <1>10, <1>11, <1>12, <1>13, <1>14, <1>15, <1>16, <1>17, <1>18, <1>19, <1>20, <1>21
       DEF Next, EngineStep, EngineFault, IInv

\* The invariant holds in every state of every behaviour.
THEOREM Invariant == Spec => []IInv
  <1>1. Init => IInv
    <2> SUFFICES ASSUME Init
                 PROVE  IInv
      OBVIOUS
    <2> USE DEF Init
    <2>1. TypeOK
      BY LimitsAssumption DEF TypeOK, InTransaction
    <2>2. LocksHeld /\ TokensDrawn /\ WorkInHand
      BY DEF LocksHeld, TokensDrawn, WorkInHand
    <2>3. RowsExist
      BY DeliveryEvent DEF RowsExist
    <2>4. TokenOfLeasedRow /\ EffectsMatchStatus /\ DeadLetterAfterMaxAttempts
      BY DEF TokenOfLeasedRow, EffectsMatchStatus, DeadLetterAfterMaxAttempts
    <2>5. QED
      BY <2>1, <2>2, <2>3, <2>4 DEF IInv
  <1>2. QED
    BY <1>1, InvariantStep, PTL DEF Spec

\* Dispatch neither loses nor repeats a route, however many dispatchers run.
THEOREM DispatchExactlyOnce == Spec => []OneRowPerRoute
  <1>1. IInv => OneRowPerRoute
    BY DEF IInv, RowsExist, OneRowPerRoute
  <1>2. QED
    BY Invariant, <1>1, PTL

\* The ack may trust the token alone: tokens are on leased rows only, and one
\* engine at most can pass the fence for a row.
THEOREM TokenFencing == Spec => []TokenMeansLeased
  <1>1. IInv => TokenMeansLeased
    <2> SUFFICES ASSUME IInv
                 PROVE  TokenMeansLeased
      OBVIOUS
    <2>1. \A d \in Delivery, v, w \in Worker :
            /\ d \in batch[v] /\ lease[v] = token[d]
            /\ d \in batch[w] /\ lease[w] = token[d]
            => v = w
      <3> SUFFICES ASSUME NEW d \in Delivery, NEW v \in Worker, NEW w \in Worker,
                          d \in batch[v], lease[v] = token[d],
                          d \in batch[w], lease[w] = token[d]
                   PROVE  v = w
        OBVIOUS
      <3>1. lease[v] # 0
        BY DEF IInv, TypeOK, WorkInHand
      <3>2. QED
        BY <3>1 DEF IInv, TokensDrawn
    <2>2. QED
      BY <2>1 DEF IInv, TokenOfLeasedRow, TokenMeansLeased
  <1>2. QED
    BY Invariant, <1>1, PTL

\* With any number of engines, an effect is repeated only after a failure
\* report has overwritten "delivered".
THEOREM EffectsAccounted == Spec => []EffectsMatchStatus
  <1>1. IInv => EffectsMatchStatus
    BY DEF IInv
  <1>2. QED
    BY Invariant, <1>1, PTL

\* No delivery is given up early, and none that used up its attempts in
\* failures is offered again.
THEOREM DeadLetters == Spec => []DeadLetterAfterMaxAttempts
  <1>1. IInv => DeadLetterAfterMaxAttempts
    BY DEF IInv
  <1>2. QED
    BY Invariant, <1>1, PTL

-----------------------------------------------------------------------------
(* One engine, the deployment of cmd/delmos *)

SoleEngine == \A v, w \in Worker : v = w

\* With one engine every step also preserves SoleInv.
LEMMA SoleStep ==
    ASSUME SoleEngine, IInv, SoleInv, [Next]_vars
    PROVE  SoleInv'
  <1> USE DeliveryEvent DEF TypeOK, rows, engines, history
  <1>1. TypeOK /\ WorkInHand /\ TokenOfLeasedRow
    BY DEF IInv
  <1>2. ASSUME NEW e \in Event, EmitEvent(e) \/ EndBusinessTransaction(e)
        PROVE  SoleInv'
    BY <1>2 DEF EmitEvent, EndBusinessTransaction, SoleInv
  <1>3. ASSUME NEW d \in Delivery, LeaseLapses(d)
        PROVE  SoleInv'
    BY <1>3 DEF LeaseLapses, SoleInv
  <1>4. ASSUME NEW w \in Worker,
               \/ SelectPending(w) \/ CommitDispatch(w) \/ NothingToClaim(w)
               \/ LoadDetails(w) \/ HandlerReturns(w) \/ DispatchFails(w)
        PROVE  SoleInv'
    BY <1>4 DEF SelectPending, CommitDispatch, NothingToClaim, LoadDetails,
                HandlerReturns, DispatchFails, SoleInv
  <1>5. ASSUME NEW w \in Worker, Claim(w)
        PROVE  SoleInv'
    BY <1>1, <1>5 DEF Claim, WorkerToken, SoleInv, SoleEngine
  <1>6. ASSUME NEW w \in Worker, EndBatch(w) \/ LoadFails(w) \/ Crash(w)
        PROVE  SoleInv'
    BY <1>1, <1>6 DEF EndBatch, LoadFails, Crash, Forget, SoleInv
  <1>7. ASSUME NEW w \in Worker, AckFails(w) \/ MarkFailedLost(w)
        PROVE  SoleInv'
    BY <1>1, <1>7 DEF AckFails, MarkFailedLost, Done, SoleInv
  <1>8. ASSUME NEW w \in Worker, NEW d \in Delivery,
               ProcessNext(w, d) \/ BeginFails(w, d)
        PROVE  SoleInv'
    BY <1>1, <1>8 DEF ProcessNext, BeginFails, SoleInv
  <1>9. ASSUME NEW w \in Worker, Ack(w) \/ MarkFailed(w)
        PROVE  SoleInv'
    <2>1. /\ current[w] \in Delivery
          /\ current[w] \in batch[w]
          /\ status[current[w]] = "leased"
      BY <1>1, <1>9 DEF Ack, MarkFailed, WorkInHand, TokenOfLeasedRow, SoleInv
    <2>2. batch' = [batch EXCEPT ![w] = @ \ {current[w]}] /\ lease' = lease
      BY <1>9 DEF Ack, MarkFailed, Done
    <2>3. \A d \in Delivery : d # current[w] => token'[d] = token[d]
      BY <1>1, <1>9, <2>1 DEF Ack, MarkFailed
    <2>4. undone' = undone
      BY <1>1, <1>9, <2>1 DEF Ack, MarkFailed
    <2>5. \A v \in Worker : v = w
      BY DEF SoleEngine
    <2>6. QED
      BY <1>1, <2>1, <2>2, <2>3, <2>4, <2>5 DEF SoleInv
  <1>10. CASE UNCHANGED vars
    BY <1>10 DEF vars, SoleInv
  <1>11. QED
    BY <1>2, <1>3, <1>4, <1>5, <1>6, <1>7, <1>8, <1>9, <1>10
       DEF Next, EngineStep, EngineFault

\* With one engine no batch is taken over while it is worked on.
LEMMA SoleInvariant ==
    ASSUME SoleEngine
    PROVE  Spec => []SoleInv
  <1>1. Init => SoleInv
    BY DEF Init, SoleInv
  <1>2. IInv /\ SoleInv /\ [Next]_vars => SoleInv'
    BY SoleStep
  <1>3. QED
    BY <1>1, <1>2, Invariant, PTL DEF Spec

\* One engine commits the effect of a delivery at most once, whatever crashes,
\* lost statements, outrun leases and retries happen.
THEOREM AtMostOnce ==
    ASSUME SoleEngine
    PROVE  Spec => []EffectAtMostOnce
  <1>1. IInv /\ SoleInv => EffectAtMostOnce
    BY DEF IInv, TypeOK, SoleInv, EffectsMatchStatus, EffectAtMostOnce
  <1>2. QED
    BY <1>1, Invariant, SoleInvariant, PTL

\* With one engine every step of the engine is a step of ReliableEffects or
\* leaves its variables alone.
LEMMA RefinementStep ==
    ASSUME SoleEngine, IInv, SoleInv, [Next]_vars
    PROVE  [RE!Next]_RE!vars
  <1> USE DeliveryEvent DEF TypeOK, rows, engines, history
  <1>1. TypeOK /\ RowsExist /\ LocksHeld /\ WorkInHand /\ TokenOfLeasedRow
    BY DEF IInv
  <1>2. ASSUME \A d \in Delivery : DutyOf(d)' = DutyOf(d),
               UNCHANGED effects
        PROVE  UNCHANGED RE!vars
    BY <1>2 DEF RE!vars
  <1>3. ASSUME UNCHANGED <<outbox, status, effects>>
        PROVE  UNCHANGED RE!vars
    BY <1>2, <1>3 DEF DutyOf
  <1>4. ASSUME NEW e \in Event, EmitEvent(e)
        PROVE  UNCHANGED RE!vars
    BY <1>1, <1>2, <1>4 DEF EmitEvent, DutyOf
  <1>5. ASSUME NEW e \in Event, EndBusinessTransaction(e)
        PROVE  [RE!Next]_RE!vars
    <2>1. CASE outbox' = [outbox EXCEPT ![e] = "absent"]
      BY <1>1, <1>2, <1>5, <2>1 DEF EndBusinessTransaction, DutyOf
    <2>2. CASE outbox' = [outbox EXCEPT ![e] = "pending"]
      <3> DEFINE D == {d \in Delivery : d[1] = e}
      <3>1. \A d \in D : DutyOf(d) = "none" /\ status[d] = "absent"
        BY <1>1, <1>5 DEF EndBusinessTransaction, RowsExist, DutyOf
      <3>2. \A d \in Delivery :
              DutyOf(d)' = IF d \in D THEN "owed" ELSE DutyOf(d)
        BY <1>1, <1>5, <2>2, <3>1 DEF EndBusinessTransaction, DutyOf
      <3>3. UNCHANGED effects
        BY <1>5 DEF EndBusinessTransaction
      <3>4. RE!Commit(D)
        BY <3>1, <3>2, <3>3 DEF RE!Commit
      <3>5. QED
        BY <3>4 DEF RE!Next
    <2>3. QED
      BY <1>5, <2>1, <2>2 DEF EndBusinessTransaction
  <1>6. ASSUME NEW w \in Worker, CommitDispatch(w)
        PROVE  UNCHANGED RE!vars
    <2>1. \A d \in Delivery :
            d[1] \in locked[w] => status[d] = "absent" /\ outbox[d[1]] = "pending"
      BY <1>1, <1>6 DEF LocksHeld, RowsExist
    <2>2. QED
      BY <1>1, <1>2, <1>6, <2>1 DEF CommitDispatch, DutyOf
  <1>7. ASSUME NEW w \in Worker, Claim(w)
        PROVE  UNCHANGED RE!vars
    BY <1>1, <1>2, <1>7 DEF Claim, Claimable, WorkerToken, DutyOf
  <1>8. ASSUME NEW w \in Worker, Ack(w) \/ MarkFailed(w)
        PROVE  [RE!Next]_RE!vars
    <2>0. PICK c \in Delivery : c = current[w]
      BY <1>1, <1>8 DEF Ack, MarkFailed, WorkInHand
    <2>1. /\ status[c] = "leased"
          /\ outbox[c[1]] = "dispatched"
          /\ token[c] = lease[w]
      BY <1>1, <1>8, <2>0 DEF Ack, MarkFailed, WorkInHand, TokenOfLeasedRow,
                              SoleInv, RowsExist
    <2>2. outbox' = outbox /\ DutyOf(c) = "owed"
      BY <1>8, <2>0, <2>1 DEF Ack, MarkFailed, DutyOf
    <2>3. \A d \in Delivery : d # c => DutyOf(d)' = DutyOf(d)
      BY <1>1, <1>8, <2>0, <2>1 DEF Ack, MarkFailed, DutyOf
    <2>4. CASE Ack(w)
      <3>1. DutyOf(c)' = "performed"
        BY <1>1, <2>0, <2>1, <2>2, <2>4 DEF Ack, StillLeased, DutyOf
      <3>2. effects' = [effects EXCEPT ![c] = @ + 1]
        BY <2>0, <2>1, <2>4 DEF Ack, StillLeased
      <3>3. RE!Perform(c)
        BY <2>1, <2>2, <2>3, <3>1, <3>2 DEF RE!Perform
      <3>4. QED
        BY <2>1, <3>3 DEF RE!Next
    <2>5. CASE MarkFailed(w)
      <3>1. UNCHANGED effects
        BY <2>5 DEF MarkFailed
      <3>2. CASE AfterFailure(c) = "pending"
        <4>1. DutyOf(c)' = "owed"
          BY <1>1, <2>0, <2>1, <2>2, <2>5, <3>2 DEF MarkFailed, DutyOf
        <4>2. QED
          BY <1>2, <2>2, <2>3, <3>1, <4>1
      <3>3. CASE AfterFailure(c) = "dead_letter"
        <4>1. DutyOf(c)' = "given_up"
          BY <1>1, <2>0, <2>1, <2>2, <2>5, <3>3 DEF MarkFailed, DutyOf
        <4>2. RE!GiveUp(c)
          BY <2>1, <2>2, <2>3, <3>1, <4>1 DEF RE!GiveUp
        <4>3. QED
          BY <2>1, <4>2 DEF RE!Next
      <3>4. QED
        BY <3>2, <3>3 DEF AfterFailure
    <2>6. QED
      BY <1>8, <2>4, <2>5
  <1>9. ASSUME NEW w \in Worker,
               \/ SelectPending(w) \/ NothingToClaim(w) \/ LoadDetails(w)
               \/ EndBatch(w) \/ HandlerReturns(w) \/ DispatchFails(w)
               \/ LoadFails(w) \/ AckFails(w) \/ MarkFailedLost(w) \/ Crash(w)
        PROVE  UNCHANGED RE!vars
    BY <1>3, <1>9 DEF SelectPending, NothingToClaim, LoadDetails, EndBatch,
                      HandlerReturns, DispatchFails, LoadFails, AckFails,
                      MarkFailedLost, Crash
  <1>10. ASSUME NEW w \in Worker, NEW d \in Delivery,
                ProcessNext(w, d) \/ BeginFails(w, d)
         PROVE  UNCHANGED RE!vars
    BY <1>3, <1>10 DEF ProcessNext, BeginFails
  <1>11. ASSUME NEW d \in Delivery, LeaseLapses(d)
         PROVE  UNCHANGED RE!vars
    BY <1>3, <1>11 DEF LeaseLapses
  <1>12. CASE UNCHANGED vars
    BY <1>3, <1>12 DEF vars
  <1>13. QED
    BY <1>4, <1>5, <1>6, <1>7, <1>8, <1>9, <1>10, <1>11, <1>12
       DEF Next, EngineStep, EngineFault

\* One engine implements ReliableEffects (its safety part; TLC checks the
\* liveness part): a subscriber's duty arises with the commit of the event,
\* is performed at most once, and its outcome never changes.
THEOREM Refinement ==
    ASSUME SoleEngine
    PROVE  Spec => RE!Spec
  <1>1. Init => RE!Init
    BY DeliveryEvent DEF Init, RE!Init, DutyOf
  <1>2. IInv /\ SoleInv /\ [Next]_vars => [RE!Next]_RE!vars
    BY RefinementStep
  <1>3. QED
    BY <1>1, <1>2, Invariant, SoleInvariant, PTL DEF Spec, RE!Spec
=============================================================================
