------------------------------ MODULE Receipts ------------------------------
(***************************************************************************)
(* A mandate receipt from the verifier that builds it to the holder that   *)
(* reads it (receipt/src/lib.rs).  The verifier builds a receipt with the  *)
(* with_* methods in any order, signs it, and the holder verifies the JWS, *)
(* reads the payload back and asks which presentation it is about.         *)
(* Receipts of other AP2 implementations arrive the same way, with any     *)
(* payload.                                                                *)
(*                                                                         *)
(* A payload has every member, None if absent, Bad if of another JSON type *)
(* than a reader expects.  A chain is its root's signing input and its     *)
(* closing segment [id, form, shown]: signing input, form of the ECDSA     *)
(* signature, disclosures.  Digests are symbolic.                          *)
(***************************************************************************)
EXTENDS Sequences, Integers

CONSTANTS
  None, Bad,
  Chains,           \* presentations a holder may ask about
  FieldPaths,       \* names that is_field_path accepts
  OtherNames,       \* names that it refuses
  ForeignPayloads,  \* what other implementations sign
  MaxReleased       \* bound on the released fields

VARIABLES
  receipt,    \* the receipt being built, or None
  about,      \* the chain it was made for, or None if it is foreign
  wire        \* the signed payload, or None

build_vars == <<receipt, about, wire>>

---------------------------------------------------------------------------
(* Naming a presentation. *)

reference_for(c) == [digest |-> c.closing]
jwt_only_reference(c) == [digest |-> [id |-> c.closing.id, form |-> c.closing.form]]

(* Mutant: the signature is hashed along. *)
SignedPresentationId(c) == [signed |-> c.closing]

presentation_id(c) == [input |-> c.closing.id, shown |-> c.closing.shown]

matches(r, c) ==
  IF r.presentation_id # None THEN r.presentation_id = presentation_id(c)
  ELSE r.reference \in {reference_for(c), jwt_only_reference(c)}

---------------------------------------------------------------------------
(* The payload. *)

(* The members of two records that share none. *)
Joined(f, g) == [m \in DOMAIN f \cup DOMAIN g |-> IF m \in DOMAIN f THEN f[m] ELSE g[m]]

Success == [status |-> "Success", code |-> None, description |-> None]
Error(code, description) == [status |-> "Error", code |-> code, description |-> description]

Optional == {"mandate_id", "presentation_id", "method", "task_id", "purpose", "prev"}

OutcomeMembers(outcome) ==
  [status |-> outcome.status, result |-> None,
   error |-> outcome.code, error_description |-> outcome.description]

(* Mutant: what was released is only written when the call passed. *)
PayloadOfSuccess(r) ==
  Joined([m \in DOMAIN r \ {"outcome"} |->
            IF m = "released" /\ (r.released = <<>> \/ r.outcome # Success) THEN None ELSE r[m]],
         OutcomeMembers(r.outcome))

(* An empty list of released fields is left out. *)
to_payload(r) ==
  Joined([m \in DOMAIN r \ {"outcome"} |-> IF m = "released" /\ r.released = <<>> THEN None ELSE r[m]],
         OutcomeMembers(r.outcome))

text(p, m) == IF p[m] = Bad THEN None ELSE p[m]

(* The outcome's word, from status or from AP2's prose name for it. *)
StatusWord(p) ==
  CASE p.result = None -> p.status
    [] p.status = None -> p.result
    [] OTHER -> Bad

is_success(p) ==
  StatusWord(p) \in {"Success", "success"} /\ p.error = None /\ p.error_description = None

is_error(p) ==
  /\ StatusWord(p) \in {"Error", "error"}
  /\ text(p, "error") # None /\ text(p, "error_description") # None

is_released(list) ==
  list = None \/ (list # Bad /\ \A i \in DOMAIN list : list[i] \in FieldPaths)

(* A mistyped optional member reads as absent; anything else mistyped or   *)
(* missing makes the receipt malformed.                                    *)
from_payload(p) ==
  IF /\ is_success(p) \/ is_error(p)
     /\ p.iat \notin {None, Bad}
     /\ is_released(p.released)
     /\ text(p, "iss") # None /\ text(p, "reference") # None
  THEN [ok |-> TRUE, receipt |->
          Joined([m \in Optional |-> text(p, m)],
                 [iss |-> p.iss, iat |-> p.iat, reference |-> p.reference,
                  released |-> IF p.released = None THEN <<>> ELSE p.released,
                  outcome |-> IF is_success(p) THEN Success ELSE Error(p.error, p.error_description)])]
  ELSE [ok |-> FALSE]

---------------------------------------------------------------------------
(* Building and sending. *)

New(outcome, c) ==
  Joined([m \in Optional |-> None],
         [iss |-> "vault", iat |-> 1, reference |-> reference_for(c),
          released |-> <<>>, outcome |-> outcome])

BuildInit == receipt = None /\ about = None /\ wire = None

(* Receipt::new, and for_chain, which adds the ids. *)
new(outcome, c) ==
  /\ receipt = None /\ wire = None
  /\ receipt' = New(outcome, c)
  /\ about' = c
  /\ UNCHANGED wire

for_chain(outcome, c) ==
  /\ receipt = None /\ wire = None
  /\ receipt' = [New(outcome, c) EXCEPT !.mandate_id = [input |-> c.root],
                                        !.presentation_id = presentation_id(c)]
  /\ about' = c
  /\ UNCHANGED wire

(* with_method, with_task_id, with_purpose, with_prev. *)
with(m, v) ==
  /\ receipt # None /\ wire = None
  /\ receipt' = [receipt EXCEPT ![m] = v]
  /\ UNCHANGED <<about, wire>>

(* The receipt is consumed by the call: one bad name and it is gone. *)
with_released(fields) ==
  /\ receipt # None /\ wire = None
  /\ Len(receipt.released) + Len(fields) <= MaxReleased
  /\ receipt' = IF \A i \in DOMAIN fields : fields[i] \in FieldPaths
                THEN [receipt EXCEPT !.released = @ \o fields] ELSE None
  /\ about' = IF receipt' = None THEN None ELSE about
  /\ UNCHANGED wire

sign ==
  /\ receipt # None /\ wire = None
  /\ wire' = to_payload(receipt)
  /\ UNCHANGED <<receipt, about>>

(* Another implementation's receipt. *)
Foreign ==
  /\ receipt = None /\ wire = None
  /\ wire' \in ForeignPayloads
  /\ UNCHANGED <<receipt, about>>

Names == FieldPaths \cup OtherNames

BuildNext ==
  \/ \E o \in {Success, Error("invalid_mandate", "revoked")}, c \in Chains :
       new(o, c) \/ for_chain(o, c)
  \/ \E m \in Optional \ {"mandate_id", "presentation_id"} : with(m, "v")
  \/ \E f, g \in Names : with_released(<<f>>) \/ with_released(<<f, g>>)
  \/ sign
  \/ Foreign

BuildSpec == BuildInit /\ [][BuildNext]_build_vars

---------------------------------------------------------------------------
(* What the builder makes. *)
Built ==
  [iss : {"vault"}, iat : {1}, reference : {reference_for(c) : c \in Chains},
   mandate_id : {[input |-> c.root] : c \in Chains} \cup {None},
   presentation_id : {presentation_id(c) : c \in Chains} \cup {None},
   method : {None, "v"}, task_id : {None, "v"}, purpose : {None, "v"}, prev : {None, "v"},
   released : Seq(FieldPaths), outcome : {Success, Error("invalid_mandate", "revoked")}]

(* None and Bad are no value a member has, and a closing segment has three *)
(* parts.                                                                  *)
ASSUME ReceiptsAssumption ==
  /\ None # Bad /\ None \notin Built
  /\ \A x \in {None, Bad} :
       /\ x \notin {"vault", "v", "invalid_mandate", "revoked"} /\ x # 1 /\ x \notin Seq(FieldPaths)
       /\ \A c \in Chains : x # reference_for(c) /\ x # presentation_id(c) /\ x # [input |-> c.root]
  /\ \A c \in Chains : DOMAIN c.closing = {"id", "form", "shown"}

(* What a verifier signs, its own holder reads back member by member; and  *)
(* what is read of any implementation's receipt can be signed again and    *)
(* read back without a change (to_payload, from_payload).                  *)
RoundTrip ==
  wire # None =>
    /\ receipt # None => from_payload(wire) = [ok |-> TRUE, receipt |-> receipt]
    /\ from_payload(wire).ok =>
         from_payload(to_payload(from_payload(wire).receipt)) = from_payload(wire)

(* A receipt made for a chain refers to that presentation under either     *)
(* form of its closing signature and to no other; one that carries only    *)
(* AP2's reference refers to the one encoding it was made of               *)
(* (receipt/src/lib.rs:10-14).                                             *)
MatchesItsPresentation ==
  wire # None /\ about # None =>
    LET r == from_payload(wire).receipt
        same(c) == c.closing.id = about.closing.id /\ c.closing.shown = about.closing.shown
    IN  \A c \in Chains :
          matches(r, c) <=> IF r.presentation_id # None THEN same(c) ELSE c.closing = about.closing
=============================================================================
