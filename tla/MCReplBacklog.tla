----------------------------- MODULE MCReplBacklog -----------------------------
(* Model-checking instance of ReplBacklog. *)
EXTENDS ReplBacklog
================================================================================
