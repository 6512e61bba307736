----------------------------- MODULE MCReplication -----------------------------
(* Model-checking instance of Replication. *)
EXTENDS Replication, TLC

\* Slaves and connections are interchangeable (safety runs only).
Symmetry == Permutations(Slaves) \cup Permutations(Conns)
================================================================================
