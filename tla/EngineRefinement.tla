-------------------------- MODULE EngineRefinement --------------------------
(***************************************************************************)
(* The engine, step by step, implements the Authorizer, where a call       *)
(* passes in one step.  The step that grants is TryConsume: a nonce that a *)
(* call has taken from the store and not yet used counts as outstanding.   *)
(***************************************************************************)
EXTENDS Engine

ASSUME AnswerAssumption == None \notin {"passed", "refused"}

(* The nonce of a request, and the mandates it stands on: every hop but the *)
(* closing one.                                                            *)
RequestNonce(r) == IF presentation[r] = None THEN None ELSE presentation[r].nonce

StandsOn(r) ==
  IF presentation[r] = None THEN {}
  ELSE LET segs == presentation[r].chain.segs
       IN  {segs[i].id : i \in 1..(Len(segs) - 1)}

(* Nonces in the store, or that a call has consumed and not yet used. *)
Outstanding ==
  issued \cup {RequestNonce(req[t]) : t \in {u \in Threads : pc[u] = "uses"}}

Since(t) == [revoked |-> before[t].revoked, broken |-> before[t].poisoned # {}]

Answer(t) ==
  IF pc[t] # "done" THEN None
  ELSE IF decision[t].kind = "Pass" THEN "passed" ELSE "refused"

Nonce == [r \in Requests |-> RequestNonce(r)]
Grounds == [r \in Requests |-> StandsOn(r)]
UseLimits == [m \in HopIds |-> {SignedLimit(m, k) : k \in SignedLimits(m)}]
Beginnings == [t \in Threads |-> Since(t)]
Answers == [t \in Threads |-> Answer(t)]

Auth == INSTANCE Authorizer WITH
  Mandates    <- HopIds,
  nonce       <- Nonce,
  authority   <- Grounds,
  limits      <- UseLimits,
  outstanding <- Outstanding,
  revoked     <- revokeDone,
  broken      <- poisoned # {},
  open        <- req,
  since       <- Beginnings,
  answer      <- Answers

(* decide(), with its separate look-ups, its separate consumption of nonce *)
(* and uses and its early returns, is indistinguishable from an engine     *)
(* that checks and spends everything at once (lib.rs:202-283), whatever the *)
(* other threads, the revokers and the stores do in between.               *)
AuthorizesAtomically == Auth!Safety
=============================================================================
