------------------------- MODULE MCEngineRefinement -------------------------
(***************************************************************************)
(* The instances of MCEngine, checked against the Authorizer.              *)
(***************************************************************************)
EXTENDS MCEngine, EngineRefinement
=============================================================================
