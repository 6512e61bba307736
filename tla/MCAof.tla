--------------------------------- MODULE MCAof ---------------------------------
(* Model-checking instance of Aof. *)
EXTENDS Aof
================================================================================
