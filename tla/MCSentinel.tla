------------------------------- MODULE MCSentinel -------------------------------
(* Model-checking instance of Sentinel. *)
EXTENDS Sentinel, TLC
\* Sentinels are alike, and so are the first slaves.
Symmetry == Permutations(Sentinels) \cup Permutations(Instances \ {FirstMaster})
================================================================================
