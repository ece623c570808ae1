------------------------------- MODULE Cards -------------------------------
(***************************************************************************)
(* Signed Agent Cards: crates/a2a-gov-card/src/lib.rs.  A card is signed   *)
(* by several keys in either form, edited on its way, and given signatures *)
(* that were made for other contents; a verifier checks it with the keys   *)
(* it trusts and pins its fingerprint.  Signatures and hashes are          *)
(* symbolic: a signature holds the key and the text it covers.             *)
(***************************************************************************)
EXTENDS Integers, Sequences, FiniteSets

CONSTANTS
  None,
  Places,         \* the parts of a card that vary, and their variants
  ImplicitPlaces, \* those of plain proto3 fields
  UnknownPlaces,  \* those of fields the schema does not know
  CanonicalText,  \* content -> form -> its text, or None (CanonicalForm)
  First,          \* the content a card begins with
  Keys,
  KidOf,          \* the kid of a key, or None
  trusted,        \* the verifier's keys: kid -> key, or None
  MaxSignings, MaxSignatures, MaxEdits

Modes == {"Spec", "A2aSdk"}

Contents == {c \in [DOMAIN Places -> UNION {Places[p] : p \in DOMAIN Places}] :
               \A p \in DOMAIN Places : c[p] \in Places[p]}

ASSUME CardsAssumption ==
  /\ MaxSignings \in Nat /\ MaxSignatures \in Nat /\ MaxEdits \in Nat
  /\ ImplicitPlaces \cup UnknownPlaces \subseteq DOMAIN Places
  /\ First \in Contents

VARIABLES
  content,     \* what the card says: a variant for every place
  signatures,  \* the card's `signatures`
  made,        \* history: the signings, [key, mode, content, signature]
  pinned,      \* history: the content a verifier pinned, or None
  edits

vars == <<content, signatures, made, pinned, edits>>

---------------------------------------------------------------------------
(* Mutant: the signatures already there are covered too. *)
PayloadWithSignatures(c, sigs, mode) ==
  LET covered(text) == IF text = None THEN None ELSE text \o [i \in DOMAIN sigs |-> "signature"]
  IN  covered(CanonicalText[c][mode])

(* payload(): `signatures` is removed, whatever it holds. *)
payload(c, sigs, mode) == CanonicalText[c][mode]

(* Mutant: the SDK's form is hashed. *)
SdkFingerprint(c) == payload(c, <<>>, "A2aSdk")

(* SHA-256 of the text, taken to be collision-free *)
fingerprint(c) == payload(c, <<>>, "Spec")

(* Mutant: the signature is checked with the key it names itself. *)
VerifiesAnyKey(sig, text) == sig.text = text

(* jws::verify with the key of the kid *)
Verifies(sig, text) == sig.key = trusted[sig.kid] /\ sig.text = text

NoSignature == [form |-> "NoSignature"]
Canonicalization == [form |-> "Canonicalization"]
InvalidSignature == [form |-> "InvalidSignature"]

(* The first signature that verifies in a form, the spec's before the      *)
(* SDK's, given both texts.                                                *)
VerifyTexts(c, sigs, accept_a2a_sdk_form, spec, sdk) ==
  LET InForm(i, text) == trusted[sigs[i].kid] # None /\ Verifies(sigs[i], text)
      valid == {i \in DOMAIN sigs : InForm(i, spec) \/ (accept_a2a_sdk_form /\ InForm(i, sdk))}
  IN  IF sigs = <<>> THEN NoSignature
      ELSE IF spec = None \/ (accept_a2a_sdk_form /\ sdk = None) THEN Canonicalization
      ELSE IF valid = {} THEN InvalidSignature
      ELSE LET i == CHOOSE x \in valid : \A y \in valid : x <= y
           IN  [form |-> IF InForm(i, spec) THEN "Spec" ELSE "A2aSdk",
                kid |-> sigs[i].kid, fingerprint |-> fingerprint(c)]

verify(c, sigs, accept_a2a_sdk_form) ==
  VerifyTexts(c, sigs, accept_a2a_sdk_form, payload(c, sigs, "Spec"), payload(c, sigs, "A2aSdk"))

Accepted(r) == r.form \in Modes

---------------------------------------------------------------------------
Init ==
  /\ content = First /\ signatures = <<>>
  /\ made = {} /\ pinned = None /\ edits = 0

(* A card without canonical form, and a key without kid, sign nothing. *)
Sign(key, mode, text) ==
  LET sig == [kid |-> KidOf[key], key |-> key, text |-> text]
  IN  /\ KidOf[key] # None
      /\ text # None
      /\ Len(signatures) < MaxSignatures /\ Cardinality(made) < MaxSignings
      /\ signatures' = Append(signatures, sig)
      /\ made' = made \cup {[key |-> key, mode |-> mode, content |-> content, signature |-> sig]}
      /\ UNCHANGED <<content, pinned, edits>>

(* sign, sign_a2a_sdk_form *)
sign_with(key, mode) == Sign(key, mode, payload(content, signatures, mode))

(* Anyone who has the card may change it, *)
Edit(p, variant) ==
  /\ edits < MaxEdits /\ variant # content[p]
  /\ content' = [content EXCEPT ![p] = variant]
  /\ edits' = edits + 1
  /\ UNCHANGED <<signatures, made, pinned>>

(* drop its signatures, or put in one that was made for another content.   *)
Drop ==
  /\ signatures # <<>>
  /\ signatures' = Tail(signatures)
  /\ UNCHANGED <<content, made, pinned, edits>>

Attach(sig) ==
  /\ Len(signatures) < MaxSignatures
  /\ signatures' = Append(signatures, sig)
  /\ UNCHANGED <<content, made, pinned, edits>>

(* A verifier keeps the fingerprint of the card it sees. *)
Pin ==
  /\ pinned = None /\ fingerprint(content) # None
  /\ pinned' = content
  /\ UNCHANGED <<content, signatures, made, edits>>

Next ==
  \/ \E k \in Keys, m \in Modes : sign_with(k, m)
  \/ \E p \in DOMAIN Places : \E variant \in Places[p] : Edit(p, variant)
  \/ \E s \in made : Attach(s.signature)
  \/ Drop \/ Pin

Spec == Init /\ [][Next]_vars
---------------------------------------------------------------------------
(* What a form is meant to cover: everything but explicit defaults, and in *)
(* the SDK's form no empty value and no unknown field either.              *)
Covered(c, mode) ==
  [p \in DOMAIN Places |->
     IF c[p] = "empty" /\ (p \in ImplicitPlaces \/ mode = "A2aSdk") THEN "absent"
     ELSE IF mode = "A2aSdk" /\ (p \in UnknownPlaces \/ c[p] = "hollow") THEN "absent"
     ELSE c[p]]

(* The forms of canonical.rs keep what they cover, and apart from another. *)
ASSUME TextsTell ==
  \A c, d \in Contents : \A m, n \in Modes :
    CanonicalText[c][m] # None /\ CanonicalText[c][m] = CanonicalText[d][n]
      => Covered(c, m) = Covered(d, n)

(* An accepted card says what a trusted key signed: what the reported form *)
(* covers of it is what the form of a signing by the key of the reported   *)
(* kid covered, however the card was edited and whatever signatures it was *)
(* given (verify, payload).                                                *)
AcceptedWasSigned ==
  LET WasSigned(r) ==
        Accepted(r) => \E s \in made : /\ s.key = trusted[r.kid]
                                       /\ Covered(s.content, s.mode) = Covered(content, r.form)
  IN  \A accept \in BOOLEAN : WasSigned(verify(content, signatures, accept))

(* "It ignores formatting and explicit defaults, but changes with any      *)
(* content change" (docs/agent-cards.md): a card has the pinned            *)
(* fingerprint if and only if it means the same (fingerprint).             *)
PinMeansContent ==
  pinned # None =>
    (fingerprint(content) = fingerprint(pinned) <=>
       Covered(content, "Spec") = Covered(pinned, "Spec"))

(* Key rotation: a signature added behind the others changes nothing for a *)
(* verifier that accepted the card before (sign_with, verify).             *)
Unharmed(before, after) == Accepted(before) => after = before

MoreSignaturesDoNoHarm ==
  [][content' = content /\ Len(signatures') > Len(signatures) =>
       \A accept \in BOOLEAN :
         Unharmed(verify(content, signatures, accept), verify(content, signatures', accept))]_vars
=============================================================================
