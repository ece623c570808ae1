----------------------------- MODULE MCTaskFlow -----------------------------
(* TaskFlow with the tasks and calls the configurations name. *)
EXTENDS TaskFlow
=============================================================================
