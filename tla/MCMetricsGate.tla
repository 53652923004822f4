--------------------------- MODULE MCMetricsGate ---------------------------
(* An instance of MetricsGate for TLC. *)
EXTENDS MetricsGate, TLC

CONSTANTS ann, bob, p1, b1, b2, c1, c2

Currencies == b1 :> "EUR" @@ b2 :> "USD"
Collectors == Permutations({c1, c2})
Limits == b1 :> (p1 :> 1) @@ b2 :> (p1 :> 0)
=============================================================================
