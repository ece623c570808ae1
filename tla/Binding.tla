------------------------------ MODULE Binding ------------------------------
(***************************************************************************)
(* The carriage of the extension's metadata (crates/a2a-gov-binding):      *)
(* an object lists the extension's URI and holds the metadata under it;    *)
(* peers that keep messages as protobuf turn every number of the metadata  *)
(* into a double, and may change the list.  The status of a pending task   *)
(* stands for all objects: it is the one whose metadata has numbers, in    *)
(* the draft mandate, and has the most checks.                             *)
(***************************************************************************)
EXTENDS Integers, FiniteSets

CONSTANTS
  None,
  EXTENSION_URI, OtherUri,
  Parts,        \* places of the draft that hold numbers, at any depth
  Limit,        \* 2^53
  MaxInteger,   \* bound on the integers of a draft
  Hops          \* bound on the peers on the way

ASSUME BindingAssumption ==
  /\ EXTENSION_URI # OtherUri /\ Limit \in Nat \ {0} /\ MaxInteger \in Nat /\ Hops \in Nat
  /\ MaxInteger < 2 * Limit

VARIABLES
  sent,     \* the MandateRequest that was sent, or None
  object,   \* the object on its way: [extensions, metadata]
  hops

vars == <<sent, object, hops>>

(* serde_json::Number; a double in halves *)
Integer(i) == [t |-> "int", i |-> i]
Double(halves) == [t |-> "double", halves |-> halves]

Abs(n) == IF n < 0 THEN -n ELSE n

(* `as f64`, in this range: the nearest multiple of 1 or 2, ties to even *)
Nearest(i) ==
  IF Abs(i) <= Limit \/ i % 2 = 0 THEN i ELSE IF (i + 1) % 4 = 0 THEN i + 1 ELSE i - 1

InHalves(n) == IF n.t = "int" THEN 2 * n.i ELSE n.halves

(* google.protobuf.Struct *)
ToStruct(n) == IF n.t = "int" THEN Double(2 * Nearest(n.i)) ELSE n

(* Mutant: 2^53 itself is taken for exact. *)
RestoreUpToLimit(n) ==
  IF n.t = "double" /\ n.halves % 2 = 0 /\ Abs(n.halves) <= 2 * Limit
  THEN Integer(n.halves \div 2) ELSE n

(* Mutant: only what a 32-bit integer holds is restored. *)
RestoreHalf(n) ==
  IF n.t = "double" /\ n.halves % 2 = 0 /\ Abs(n.halves) < Limit
  THEN Integer(n.halves \div 2) ELSE n

restore_integers(n) ==
  IF n.t = "double" /\ n.halves % 2 = 0 /\ Abs(n.halves) < 2 * Limit
  THEN Integer(n.halves \div 2) ELSE n

---------------------------------------------------------------------------
MandateRequest(mandate, url, nonce) ==
  [state |-> "pending", mandate |-> mandate, approval_url |-> url, nonce |-> nonce]

task_status(m) == [extensions |-> {EXTENSION_URI}, metadata |-> m]

extension_metadata(o) ==
  IF EXTENSION_URI \notin o.extensions \/ o.metadata = None THEN None
  ELSE [o.metadata EXCEPT !.mandate = [p \in DOMAIN @ |-> restore_integers(@[p])]]

Invalid == [state |-> "invalid"]

(* require_https, require_nonempty *)
Acceptable(m) == m.approval_url = "https" /\ m.nonce # ""

read_status(o) ==
  LET meta == extension_metadata(o)
  IN  IF meta = None THEN None ELSE IF Acceptable(meta) THEN meta ELSE Invalid

---------------------------------------------------------------------------
Numbers == {Integer(i) : i \in -MaxInteger..MaxInteger} \cup
           {Double(h) : h \in {-3, -1, 0, 1, 2 * Limit}}

Init == sent = None /\ object = None /\ hops = 0

Send(m) ==
  /\ sent = None
  /\ sent' = m
  /\ object' = task_status(m)
  /\ UNCHANGED hops

Forward(o) ==
  /\ sent # None /\ hops < Hops
  /\ object' = o
  /\ hops' = hops + 1
  /\ UNCHANGED sent

(* A peer that keeps messages as protobuf. *)
ThroughProtobuf ==
  /\ object # None /\ object.metadata # None
  /\ Forward([object EXCEPT !.metadata.mandate = [p \in DOMAIN @ |-> ToStruct(@[p])]])

(* A peer that adds an extension of its own, or one that does not support  *)
(* this one and takes its URI off the list, or its metadata away.          *)
AddExtension == object # None /\ Forward([object EXCEPT !.extensions = @ \cup {OtherUri}])
DropExtension == object # None /\ Forward([object EXCEPT !.extensions = @ \ {EXTENSION_URI}])
DropMetadata == object # None /\ Forward([object EXCEPT !.metadata = None])

Next ==
  \/ \E d \in [Parts -> Numbers], url \in {"https", "http"}, nonce \in {"", "n"} :
       Send(MandateRequest(d, url, nonce))
  \/ ThroughProtobuf \/ AddExtension \/ DropExtension \/ DropMetadata

Spec == Init /\ [][Next]_vars
---------------------------------------------------------------------------
Read == IF object = None THEN None ELSE read_status(object)
IsRead == Read # None /\ Read # Invalid

(* No integer of a draft is read as another one: an integer too large to   *)
(* survive the way is read as a double, never as its neighbour             *)
(* (restore_integers).                                                     *)
NoOtherInteger ==
  IsRead => \A p \in Parts :
    sent.mandate[p].t = "int" /\ Read.mandate[p].t = "int" => Read.mandate[p] = sent.mandate[p]

(* However many peers turned its numbers into doubles, a draft whose       *)
(* integers are below 2^53 is read as it was sent, its integers integers   *)
(* again, so that what the user approves is what is signed                 *)
(* (extension_metadata, read_status).                                      *)
DraftIsReadAsSent ==
  IsRead => \A p \in Parts :
    /\ sent.mandate[p].t = "int" /\ Abs(sent.mandate[p].i) < Limit => Read.mandate[p] = sent.mandate[p]
    /\ sent.mandate[p].t = "double" => InHalves(Read.mandate[p]) = InHalves(sent.mandate[p])
=============================================================================
