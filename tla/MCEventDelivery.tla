-------------------------- MODULE MCEventDelivery --------------------------
(* Instances of EventDelivery for TLC. *)
EXTENDS EventDelivery, TLC

CONSTANTS e1, e2, s1, s2, w1, w2

\* Every event goes to one subscription.
OneRouteEach == e1 :> {s1} @@ e2 :> {s1}

\* One event fans out to a handled and an unhandled subscription, the other
\* has no subscriber at all.
FanOut == e1 :> {s1, s2} @@ e2 :> {}
=============================================================================
