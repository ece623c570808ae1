----------------------------- MODULE MCMessages -----------------------------
(***************************************************************************)
(* What travels between agents and verifiers: objects with extension       *)
(* metadata (Binding) and errors (Extension).  A behaviour follows one     *)
(* message of either kind.                                                 *)
(***************************************************************************)
EXTENDS Binding, Extension

MCInit == Init /\ ErrorInit

MCNext ==
  \/ error = Nothing /\ Next /\ UNCHANGED error_vars
  \/ sent = None /\ ErrorNext /\ UNCHANGED vars

MCSpec == MCInit /\ [][MCNext]_<<vars, error_vars>>
=============================================================================
