----------------------------- MODULE Disclosure -----------------------------
(***************************************************************************)
(* Selective disclosure (crates/a2a-gov-mandate/src/sdjwt.rs): an issuer   *)
(* hides parts of a mandate behind digests, a holder chooses which of the  *)
(* disclosures it forwards, and a verifier resolves them.                  *)
(*                                                                         *)
(* SHA-256 is symbolic: the digest of a disclosure names the disclosure.   *)
(* Every error of resolve is an Error::Disclosure, so the order of its     *)
(* checks is not visible.                                                  *)
(***************************************************************************)
EXTENDS Integers, Sequences, SequencesExt, Functions

CONSTANTS
  None,
  Mandates,      \* what surfaces sign with issue_open
  Disclosables,  \* the Disclosable values they use
  Others,        \* segments of other issuers: [payload, disclosures, mandate]
  Strangers,     \* disclosures that belong to no mandate here
  MaxChanges     \* bound on what a holder changes

VARIABLES
  issued,        \* the segment as signed, with the mandate that was meant
  shown,         \* the disclosures the holder forwards
  changes

vars == <<issued, shown, changes>>

SD == "_sd"
ELLIPSIS == "..."
SD_ALG == "sha-256"

(* serde_json::Value *)
String(s) == [t |-> "string", s |-> s]
Number(n) == [t |-> "number", n |-> n]
Array(s) == [t |-> "array", a |-> s]
Object(f) == [t |-> "object", f |-> f]

Salt(n) == [t |-> "salt", n |-> n]
digest(d) == [t |-> "digest", of |-> d]
is_string(v) == v.t \in {"string", "salt", "digest"}
Without(f, names) == [k \in DOMAIN f \ names |-> f[k]]
Placeholder(d) == Object(ELLIPSIS :> d)

---------------------------------------------------------------------------
(* Disclosable::none, fields, array_elements *)
Disclosable(fields, elements) == [fields |-> fields, array_elements |-> elements]

push(disclosures, parts) == Append(disclosures, <<Salt(Len(disclosures) + 1)>> \o parts)
Pushed(disclosures) == digest(Last(disclosures))

(* The two loops of delegate_payload; b is [item, made, digests], or None  *)
(* once an error was returned.                                             *)
HideElements(b, key) ==
  IF b = None \/ key \notin DOMAIN b.item \/ b.item[key].t # "array" THEN None
  ELSE LET hide(made, element) == push(made, <<element>>)
           made == FoldLeft(hide, b.made, b.item[key].a)
           hidden == [k \in DOMAIN b.item[key].a |-> Placeholder(digest(made[Len(b.made) + k]))]
       IN  [b EXCEPT !.item[key] = Array(hidden), !.made = made]

HideField(b, key) ==
  IF b = None \/ key \notin DOMAIN b.item THEN None
  ELSE LET made == push(b.made, <<String(key), b.item[key]>>)
       IN  [item |-> Without(b.item, {key}), made |-> made,
            digests |-> Append(b.digests, Pushed(made))]

(* In the order of the digests, which says nothing of the claims. *)
Sorted(digests) == SetToSeq(Range(digests))

delegate_payload(mandate, sd) ==
  LET start == [item |-> mandate, made |-> <<>>, digests |-> <<>>]
      b == FoldLeft(HideField, FoldLeft(HideElements, start, sd.array_elements), sd.fields)
  IN  IF b = None THEN None
      ELSE LET item == IF b.digests = <<>> THEN b.item
                       ELSE SD :> Array(Sorted(b.digests)) @@ b.item
               made == push(b.made, <<Object(item)>>)
           IN  [value |-> Array(<<Placeholder(Pushed(made))>>), made |-> made]

issue_open(mandate, sd) ==
  LET d == delegate_payload(mandate, sd)
  IN  IF d = None THEN None
      ELSE [payload |-> "delegate_payload" :> d.value @@ "_sd_alg" :> String(SD_ALG),
            disclosures |-> d.made, mandate |-> mandate]

---------------------------------------------------------------------------
(* Disclosure::parse of a disclosure that is a JSON array *)
parse(items) ==
  IF \/ Len(items) \notin {2, 3}
     \/ ~is_string(items[1])
     \/ Len(items) = 3 /\ (~is_string(items[2]) \/ items[2] \in {String(SD), String(ELLIPSIS)})
  THEN None
  ELSE [name |-> IF Len(items) = 3 THEN items[2].s ELSE None, value |-> Last(items)]

(* Mutant: what the holder withholds is passed over. *)
TakeShown(d, r) ==
  [r EXCEPT !.ok = @ /\ d \notin r.seen,
            !.seen = @ \cup {d},
            !.used = @ + IF d \in r.by_digest THEN 1 ELSE 0,
            !.by_digest = @ \ {d}]

(* Resolver::take on the resolver r = [by_digest, seen, used, withheld, ok] *)
take(d, r) ==
  [r EXCEPT !.ok = @ /\ d \notin r.seen,
            !.seen = @ \cup {d},
            !.used = @ + IF d \in r.by_digest THEN 1 ELSE 0,
            !.withheld = @ + IF d \in r.by_digest THEN 0 ELSE 1,
            !.by_digest = @ \ {d}]

Failed(x) == [x EXCEPT !.r.ok = FALSE]

RECURSIVE value(_, _)

(* The resolver after the disclosure `found` and what its value resolved   *)
(* to, if it is one of the kind that belongs here.                         *)
Reveal(x, found, inner, named) ==
  IF (found.name # None) = named THEN [r |-> inner.r, v |-> inner.v, name |-> found.name]
  ELSE [r |-> [x.r EXCEPT !.ok = FALSE], v |-> found.value, name |-> None]

(* Mutant: what a disclosure reveals is taken as it is. *)
DisclosedFlat(x, d, found, named) ==
  Reveal(x, found, [r |-> take(d, x.r), v |-> found.value], named)

(* What the digest d of `found` reveals to x = [r, ...]: a claim with a    *)
(* name, or an array's element without one.                                *)
Disclosed(x, d, found, named) == Reveal(x, found, value(found.value, take(d, x.r)), named)

AddClaim(x, c) ==
  IF ~c.r.ok \/ c.name \in DOMAIN x.f THEN Failed(x) ELSE [r |-> c.r, f |-> c.name :> c.v @@ x.f]

Claim(x, d) ==
  IF ~x.r.ok \/ ~is_string(d) THEN Failed(x)
  ELSE IF d \notin x.r.by_digest THEN [x EXCEPT !.r = take(d, @)]
  ELSE AddClaim(x, Disclosed(x, d, parse(d.of), TRUE))

Claims(plain, digests) ==
  IF digests.t # "array" THEN Failed(plain) ELSE FoldLeft(Claim, plain, digests.a)

AddMember(x, k, m) == [r |-> m.r, f |-> k :> m.v @@ x.f]

object(f, r) ==
  LET member(x, k) == AddMember(x, k, value(f[k], x.r))
  IN  Claims(FoldLeft(member, [r |-> r, f |-> <<>>], SetToSeq(DOMAIN f \ {SD})),
             IF SD \in DOMAIN f THEN f[SD] ELSE Array(<<>>))

IsPlaceholder(v) == v.t = "object" /\ DOMAIN v.f = {ELLIPSIS}

AddElement(x, e) == [r |-> e.r, out |-> Append(x.out, e.v)]

(* An element that is the placeholder of d. *)
HiddenElement(x, d) ==
  IF ~is_string(d) THEN Failed(x)
  ELSE IF d \notin x.r.by_digest THEN [x EXCEPT !.r = take(d, @)]
  ELSE AddElement(x, Disclosed(x, d, parse(d.of), FALSE))

Element(x, v) ==
  IF ~x.r.ok THEN x
  ELSE IF IsPlaceholder(v) THEN HiddenElement(x, v.f[ELLIPSIS])
  ELSE AddElement(x, value(v, x.r))

array(a, r) == FoldLeft(Element, [r |-> r, out |-> <<>>], a)

AsObject(o) == [r |-> o.r, v |-> Object(o.f)]
AsArray(a) == [r |-> a.r, v |-> Array(a.out)]

value(v, r) ==
  IF v.t = "object" THEN AsObject(object(v.f, r))
  ELSE IF v.t = "array" THEN AsArray(array(v.a, r))
  ELSE [r |-> r, v |-> v]

(* The claims of the payload that was resolved to o, or None for an error. *)
Checked(payload, disclosures, o) ==
  IF \/ "_sd_alg" \in DOMAIN payload /\ payload["_sd_alg"] # String(SD_ALG)
     \/ \E k \in DOMAIN disclosures : parse(disclosures[k]) = None
     \/ ~IsInjective(disclosures)
     \/ ~o.r.ok \/ o.r.used # Len(disclosures) \/ o.r.withheld > 0
  THEN None
  ELSE o.f

resolve(payload, disclosures) ==
  Checked(payload, disclosures,
    object(Without(payload, {"_sd_alg"}),
           [by_digest |-> {digest(disclosures[k]) : k \in DOMAIN disclosures},
            seen |-> {}, used |-> 0, withheld |-> 0, ok |-> TRUE]))

---------------------------------------------------------------------------
Init == issued = None /\ shown = <<>> /\ changes = 0

Sign(s) ==
  /\ issued = None /\ s # None
  /\ issued' = s
  /\ shown' = s.disclosures
  /\ UNCHANGED changes

Issue(mandate, sd) == Sign(issue_open(mandate, sd))

Change(s) ==
  /\ issued # None /\ changes < MaxChanges
  /\ shown' = s
  /\ changes' = changes + 1
  /\ UNCHANGED issued

Withhold == \E k \in DOMAIN shown : Change(RemoveAt(shown, k))
Repeat == \E k \in DOMAIN shown : Change(Append(shown, shown[k]))
Reorder == \E j, k \in DOMAIN shown : j < k /\ Change([shown EXCEPT ![j] = shown[k], ![k] = shown[j]])
Add == \E d \in Strangers : Change(<<d>> \o shown)

Next ==
  \/ \E m \in Mandates, sd \in Disclosables : Issue(m, sd)
  \/ \E s \in Others : Sign(s)
  \/ Withhold \/ Repeat \/ Reorder \/ Add

Spec == Init /\ [][Next]_vars
---------------------------------------------------------------------------
Resolved == resolve(issued.payload, shown)
Meant == "delegate_payload" :> Array(<<Object(issued.mandate)>>)

(* Whatever the holder withholds, adds, repeats or moves, a segment that   *)
(* resolves gives the mandate its issuer meant, with every constraint of   *)
(* it and nothing besides (resolve: "This profile therefore requires every *)
(* digest to be disclosed", sdjwt.rs:215).                                 *)
ResolvesToTheMandate ==
  issued # None /\ Resolved # None => issued.mandate # None /\ Resolved = Meant

(* Presented in full, in any order, a well-formed segment resolves, at any *)
(* depth of nesting.                                                       *)
PresentedInFullResolves ==
  (/\ issued # None
   /\ issued.mandate # None
   /\ Len(shown) = Len(issued.disclosures)
   /\ Range(shown) = Range(issued.disclosures)) => Resolved # None

(* "each constraint is its own disclosure, so an agent reveals only the    *)
(* constraints that apply to a verifier" (docs/wire-format.md:34-35): with *)
(* a constraint's disclosure left out, the rest still resolves.            *)
AgentRevealsWhatApplies ==
  (/\ issued # None
   /\ IsInjective(shown)
   /\ Last(issued.disclosures) \in Range(shown)
   /\ Range(shown) \subseteq Range(issued.disclosures)) => Resolved # None
=============================================================================
