----------------------------- MODULE Narrowing -----------------------------
(***************************************************************************)
(* A mandate on its way down a chain of holders.  The trusted surface      *)
(* issues the open mandate; each holder may delegate by appending a hop    *)
(* whose constraints it chooses freely, looser ones included               *)
(* (chain.rs: "a delegation can carry any value").  What the verifier's    *)
(* evaluation makes of the chain, once somebody closes it, is compared     *)
(* before and after each delegation.  Nothing stops a holder from          *)
(* delegating further: only the verifier's split counts the segments       *)
(* (chain.rs, MAX_HOPS), which is in MandateChain.                         *)
(***************************************************************************)
EXTENDS Constraints, SequencesExt

CONSTANTS
  Calls,         \* the calls a verifier may be about to serve
  RootMandates,  \* what the surface may put under "constraints"
  HopMandates,   \* what a holder may put there
  MaxDelegations \* a model's bound on the delegations

ASSUME NarrowingAssumption == MaxDelegations \in Nat

(* "constraints" is absent, of the wrong type, or an array; in it, a bound  *)
(* on delegations is read as a u64, and a purpose that is absent is one of  *)
(* the wrong type.                                                          *)
ASSUME MandatesAssumption ==
  /\ None # Bad
  /\ \A cs \in RootMandates \cup HopMandates : cs \notin {None, Bad} =>
       /\ Len(cs) \in Nat /\ DOMAIN cs = 1..Len(cs)
       /\ \A k \in DOMAIN cs :
            /\ cs[k].type = "access.delegation" => cs[k].value \in Nat \cup {Bad}
            /\ cs[k].type = "access.purpose" => cs[k].value # None

VARIABLE hops    \* the authorizing hops so far

Hop(n, kind, cs) == [id |-> n, kind |-> kind, mandate |-> [constraints |-> cs]]

ClosingHop == Hop(0, "Closing", None)

(* The chain the verifier sees if the last holder closes it now. *)
Closed(hs) == Append(hs, ClosingHop)

issue_open == \E cs \in RootMandates : hops = <<Hop(1, "Root", cs)>>

(* present() with a mandate that names a cnf: a delegation. *)
Delegate ==
  /\ Len(hops) <= MaxDelegations
  /\ \E cs \in HopMandates : hops' = Append(hops, Hop(Len(hops) + 1, "Delegation", cs))

Init == issue_open
Next == Delegate
Spec == Init /\ [][Next]_hops

---------------------------------------------------------------------------
(* The loop of evaluate(), statement by statement: `acc` carries its       *)
(* mutable locals, and a set `refused` stands for the early return.        *)

StepConstraint(chain, i, call, acc, c) ==
  LET refuse   == [acc EXCEPT !.refused = TRUE]
      keepIf(ok) == IF ok THEN acc ELSE refuse
  IN  IF acc.refused THEN acc
      ELSE IF c.type = None THEN refuse
      ELSE CASE c.type = "access.authorization_details" ->
                  keepIf(authorization_details(c, call))
             [] c.type = "access.purpose" ->
                  IF c.value = Bad \/ acc.purpose \notin {None, c.value} THEN refuse
                  ELSE [acc EXCEPT !.purpose = c.value]
             [] c.type = "access.release" -> keepIf(release(c, call))
             [] c.type = "access.max_uses" ->
                  IF max_uses(c)
                  THEN [acc EXCEPT !.limits = Append(@, <<chain[i].id, c.value>>)]
                  ELSE refuse
             [] c.type = "access.delegation" ->
                  keepIf(delegation(c, DelegationsAfter(chain, i)))
             [] OTHER -> [acc EXCEPT !.unknown = TRUE]

(* The locals after all constraints of one hop, and after all hops. *)
StepHop(chain, call, acc, i) ==
  LET cs == chain[i].mandate.constraints
      after[k \in 0..Len(cs)] ==
        IF k = 0 THEN acc ELSE StepConstraint(chain, i, call, after[k - 1], cs[k])
  IN  IF chain[i].kind = "Closing" \/ cs = None THEN acc
      ELSE IF cs = Bad THEN [acc EXCEPT !.refused = TRUE]
      ELSE after[Len(cs)]

EvaluateLoop(chain, call) ==
  LET after[i \in 0..Len(chain)] ==
        IF i = 0 THEN [purpose |-> call.purpose, limits |-> <<>>,
                       unknown |-> FALSE, refused |-> FALSE]
        ELSE StepHop(chain, call, after[i - 1], i)
  IN  after[Len(chain)]

---------------------------------------------------------------------------
Covered(hs, call) == evaluate(Closed(hs), call).result = "Covered"

(* A delegation can only narrow (constraints.rs:1-2): a call the longer    *)
(* chain covers was covered by the shorter one, for the same purpose if it *)
(* already had one, and every use limit that was charged still is.         *)
OnlyNarrows ==
  \A call \in Calls :
    Covered(hops', call) =>
      /\ Covered(hops, call)
      /\ LET old == evaluate(Closed(hops), call)
             new == evaluate(Closed(hops'), call)
         IN  /\ old.purpose \in {None, new.purpose}
             /\ old.limits \subseteq new.limits

DelegationNarrows == [][OnlyNarrows]_hops

(* The quantified form of evaluate used throughout the project returns     *)
(* what the code's loop returns: same outcome, same purpose, and the same  *)
(* use limits, each as often as the loop pushes it.                        *)
LoopAgrees ==
  \A call \in Calls :
    LET e == evaluate(Closed(hops), call)
        l == EvaluateLoop(Closed(hops), call)
    IN  /\ e.result = IF l.refused THEN "Refused"
                      ELSE IF l.unknown THEN "Unresolved" ELSE "Covered"
        /\ e.result = "Covered" =>
             /\ e.purpose = l.purpose
             /\ \A x \in {<<y.id, y.limit>> : y \in e.limits} \cup ToSet(l.limits) :
                  Cardinality({y \in e.limits : <<y.id, y.limit>> = x})
                    = Cardinality({k \in DOMAIN l.limits : l.limits[k] = x})
=============================================================================
