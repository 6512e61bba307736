--------------------------------- MODULE MCDict ---------------------------------
(* Model-checking instance of Dict: hashes that collide in small tables and    *)
(* part in larger ones.                                                        *)
EXTENDS Dict, TLC

CONSTANTS k1, k2, k3, k4
MCHash == [k \in Keys |-> CASE k = k1 -> 0 [] k = k2 -> 2 [] k = k3 -> 6 [] k = k4 -> 5]
================================================================================
