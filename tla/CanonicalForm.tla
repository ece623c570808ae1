--------------------------- MODULE CanonicalForm ---------------------------
(***************************************************************************)
(* The canonical text of an Agent Card: crates/a2a-gov-card/canonical.rs   *)
(* and schema_types.rs.  Fields the schema lets be absent are stripped of  *)
(* their defaults; the A2A SDK's form drops unknown fields and everything  *)
(* empty as well.                                                          *)
(***************************************************************************)
EXTENDS Jcs

CONSTANT MESSAGES   \* message -> field -> [presence, shape, kind, of] (schema.rs)

---------------------------------------------------------------------------
field(message, key) ==
  IF message \in DOMAIN MESSAGES /\ key \in DOMAIN MESSAGES[message]
  THEN MESSAGES[message][key] ELSE None

(* The kinds Number and Enum are used by no field of the schema. *)
is_default(v, f) ==
  \/ f.shape = "Repeated" /\ v.t = "array" /\ v.items = <<>>
  \/ f.shape = "Map" /\ v.t = "object" /\ v.members = {}
  \/ f.shape = "Single" /\ f.kind = "Str" /\ v.t = "string" /\ v.s = <<>>
  \/ f.shape = "Single" /\ f.kind = "Bool" /\ v.t = "bool" /\ ~v.b

Keeps(v, f, mode) ==
  IF f = None THEN mode = "Spec" ELSE f.presence # "Implicit" \/ ~is_default(v, f)

(* The schema has no recursive message, so the recursion never gets near   *)
(* the depth the code limits it to.                                        *)
RECURSIVE strip(_, _, _)
strip(v, message, mode) ==
  LET Inner(key, e) ==
        LET f == field(message, key)
        IN  IF f = None \/ f.kind # "Message" THEN e
            ELSE IF f.shape = "Single" THEN strip(e, f.of, mode)
            ELSE IF f.shape = "Repeated" /\ e.t = "array"
            THEN Arr([i \in DOMAIN e.items |-> strip(e.items[i], f.of, mode)])
            ELSE IF f.shape = "Map" /\ e.t = "object"
            THEN Obj({<<m[1], strip(m[2], f.of, mode)>> : m \in e.members})
            ELSE e
  IN  IF v.t # "object" THEN v
      ELSE Obj({m \in {<<n[1], Inner(n[1], n[2])>> : n \in v.members} :
                  Keeps(m[2], field(message, m[1]), mode)})

ObjUnlessEmpty(members) == IF members = {} THEN None ELSE Obj(members)
ArrUnlessEmpty(items) == IF items = <<>> THEN None ELSE Arr(items)

RECURSIVE clean_empty(_)
clean_empty(v) ==
  CASE v.t = "object" ->
         ObjUnlessEmpty({m \in {<<n[1], clean_empty(n[2])>> : n \in v.members} : m[2] # None})
    [] v.t = "array" ->
         ArrUnlessEmpty(SelectSeq([i \in DOMAIN v.items |-> clean_empty(v.items[i])], LAMBDA e : e # None))
    [] v.t = "string" -> IF v.s = <<>> THEN None ELSE v
    [] OTHER -> v

OrNull(v) == IF v = None THEN Null ELSE v
InMode(cleaned, mode) == IF mode = "Spec" THEN cleaned ELSE OrNull(clean_empty(cleaned))

(* The text of a card's JSON object, or None. *)
TextOf(card, mode) == canonicalize(InMode(strip(card, "AgentCard", mode), mode))
=============================================================================
