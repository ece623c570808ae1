---------------------------- MODULE Constraints ----------------------------
(***************************************************************************)
(* The `access.*` constraints a mandate carries and their evaluation       *)
(* against the call a verifier is about to serve                           *)
(* (crates/a2a-gov-pdp/src/constraints.rs).                                *)
(*                                                                         *)
(* A verified chain is a sequence of hops, root first; a hop is a record   *)
(* with fields id, kind and mandate.  JSON is abstracted to what the       *)
(* evaluation tells apart:                                                 *)
(*   None   an absent key,                                                 *)
(*   Bad    a value of the wrong JSON type,                                *)
(*   an array whose order and repetitions do not matter: a set,            *)
(*   an object: a function from its keys.                                  *)
(* A constraint is [type, value], value being the member that the type     *)
(* calls for.                                                              *)
(***************************************************************************)
EXTENDS Integers, Sequences

CONSTANTS None, Bad

(* How much of the data may leave: the enum's order. *)
Releases == {"answer-only", "records"}
ReleaseRank == [r \in Releases |-> IF r = "records" THEN 1 ELSE 0]

KnownTypes == {"access.authorization_details", "access.purpose",
               "access.release", "access.max_uses", "access.delegation"}

(* Mutant: the delegation in hand replaces the authority it came from. *)
LastAuthority(chain) ==
  {i \in DOMAIN chain : chain[i].kind # "Closing" /\ i = Len(chain) - 1}

(* The hops whose authority the call relies on. *)
authorizing_hops(chain) == {i \in DOMAIN chain : chain[i].kind # "Closing"}

---------------------------------------------------------------------------
(* One constraint at a time. *)

subset(requested, key, allowed) ==
  /\ allowed # Bad
  /\ key \in DOMAIN requested
  /\ requested[key] # Bad
  /\ requested[key] \subseteq allowed

covers(allowed, requested) ==
  /\ allowed # Bad
  /\ requested # Bad
  /\ "type" \in DOMAIN allowed
  /\ allowed["type"] # Bad
  /\ "type" \in DOMAIN requested
  /\ allowed["type"] = requested["type"]
  /\ \A k \in DOMAIN allowed \ {"type"} :
        IF k \in {"actions", "fields", "locations"}
        THEN subset(requested, k, allowed[k])
        ELSE k \in DOMAIN requested /\ requested[k] = allowed[k]

authorization_details(c, call) ==
  /\ c.value # Bad
  /\ \A i \in DOMAIN call.authorization_details :
        \E a \in c.value : covers(a, call.authorization_details[i])

release(c, call) ==
  /\ c.value # Bad
  /\ ReleaseRank[call.release] <= ReleaseRank[c.value]

max_uses(c) == c.value # Bad /\ c.value >= 1

(* As a bound on the delegations that follow the constraint's own hop. *)
delegation(c, delegationsAfter) == c.value # Bad /\ delegationsAfter <= c.value

---------------------------------------------------------------------------
(* All constraints of all authorizing hops. *)

(* The positions <<hop, index>> of every constraint that is looked at. *)
Positions(chain) ==
  UNION {{i} \X DOMAIN chain[i].mandate.constraints :
           i \in {h \in authorizing_hops(chain) :
                    chain[h].mandate.constraints \notin {None, Bad}}}

At(chain, p) == chain[p[1]].mandate.constraints[p[2]]

OfType(chain, type) == {p \in Positions(chain) : At(chain, p).type = type}

(* The purposes that the access.purpose constraints ask for. *)
RequiredPurposes(chain) ==
  {At(chain, p).value : p \in OfType(chain, "access.purpose")} \ {Bad}

(* Mutant: every hop's purpose is compared with the call's alone. *)
ComparePurposeWithCall(chain, call) ==
  \A p \in OfType(chain, "access.purpose") :
    At(chain, p).value # Bad /\ call.purpose \in {None, At(chain, p).value}

(* The running `purpose` starts as the call's and is fixed by the first    *)
(* constraint that requires one; a later one must ask for the same.        *)
constrain_purpose(chain, call) ==
  /\ \A p \in OfType(chain, "access.purpose") : At(chain, p).value # Bad
  /\ \A q \in RequiredPurposes(chain) :
        /\ call.purpose \in {None, q}
        /\ \A r \in RequiredPurposes(chain) : r = q

FixedPurpose(chain, call) ==
  IF call.purpose = None /\ RequiredPurposes(chain) # {}
  THEN CHOOSE q \in RequiredPurposes(chain) : TRUE
  ELSE call.purpose

(* Delegations after hop i: all later hops but the closing one. *)
DelegationsAfter(chain, i) == Len(chain) - 1 - i

(* Whether the loop meets an error: `return Evaluation::Refused`. *)
Refuses(chain, call) ==
  \/ \E i \in authorizing_hops(chain) : chain[i].mandate.constraints = Bad
  \/ \E p \in Positions(chain) :
       LET c == At(chain, p)
       IN  \/ c.type = None
           \/ c.type = "access.authorization_details" /\ ~authorization_details(c, call)
           \/ c.type = "access.release" /\ ~release(c, call)
           \/ c.type = "access.max_uses" /\ ~max_uses(c)
           \/ /\ c.type = "access.delegation"
              /\ ~delegation(c, DelegationsAfter(chain, p[1]))
  \/ ~constrain_purpose(chain, call)

Unknown(chain) == \E p \in Positions(chain) : At(chain, p).type \notin KnownTypes \cup {None}

(* The use limits to charge.  The code's Vec may hold a hop's id more than *)
(* once, so an entry keeps the position of its constraint.                 *)
Limits(chain) ==
  {[id |-> chain[p[1]].id, at |-> p, limit |-> At(chain, p).value] :
     p \in OfType(chain, "access.max_uses")}

evaluate(chain, call) ==
  IF Refuses(chain, call) THEN [result |-> "Refused"]
  ELSE IF Unknown(chain) THEN [result |-> "Unresolved"]
  ELSE [result  |-> "Covered",
        purpose |-> FixedPurpose(chain, call),
        limits  |-> Limits(chain)]
=============================================================================
