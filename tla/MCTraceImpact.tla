--------------------------- MODULE MCTraceImpact ---------------------------
(* An instance of TraceImpact for TLC.  Work products can be renamed, so one *)
(* link to another work product and one to itself stand for all.             *)
EXTENDS TraceImpact

CONSTANTS a, b, c, h1, h2

MCWatched == {[source |-> a, target |-> b], [source |-> a, target |-> a]}
=============================================================================
