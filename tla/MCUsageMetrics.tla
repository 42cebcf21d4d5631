--------------------------- MODULE MCUsageMetrics ---------------------------
(* Instances of UsageMetrics for TLC.                                      *)
EXTENDS UsageMetrics

(* Two keys with one hash.                                                 *)
Colliding == [k \in Keys |-> 4]
=============================================================================
