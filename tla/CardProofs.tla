----------------------------- MODULE CardProofs -----------------------------
(***************************************************************************)
(* Signed cards, for any contents, keys, forms of texts and number of      *)
(* signings, edits and signatures.  The invariant is that every signature  *)
(* on the card was made by a signing, and covers the text of the content   *)
(* and the form of that signing.                                           *)
(***************************************************************************)
EXTENDS Cards, WellFoundedInduction, TLAPS

MadeSignatures == {s.signature : s \in made}

CardInv ==
  /\ content \in Contents
  /\ signatures \in Seq(MadeSignatures)
  /\ \A s \in made : /\ s.content \in Contents /\ s.mode \in Modes
                     /\ s.signature.key = s.key
                     /\ s.signature.text = CanonicalText[s.content][s.mode]

---------------------------------------------------------------------------
(* Every set of naturals that is not empty has a least element. *)
LEMMA LeastNatural ==
  ASSUME NEW S \in SUBSET Nat, S # {}
  PROVE  \E n \in S : \A m \in S : n <= m
<1> DEFINE R == OpToRel(<, Nat)
<1>1. IsWellFoundedOn(R, Nat)
  BY NatLessThanWellFounded
<1>2. \A x, y \in Nat : <<x, y>> \in R <=> x < y
  BY DEF OpToRel
<1> HIDE DEF R
<1>3. PICK n \in S : \A m \in S : <<m, n>> \notin R
  BY <1>1, WFMin
<1>4. \A m \in S : m \in Nat /\ n \in Nat /\ ~(m < n)
  BY <1>2, <1>3
<1>q. QED BY <1>3, <1>4

(* The signatures that verify, and the first of them. *)
InForm(sigs, i, text) == trusted[sigs[i].kid] # None /\ Verifies(sigs[i], text)
Valid(sigs, accept, spec, sdk) ==
  {i \in DOMAIN sigs : InForm(sigs, i, spec) \/ (accept /\ InForm(sigs, i, sdk))}
FirstOf(S) == CHOOSE x \in S : \A y \in S : x <= y

(* A verification that accepts reports signature i. *)
Reports(i, c, sigs, accept, spec, sdk) ==
  /\ sigs # <<>> /\ spec # None /\ ~(accept /\ sdk = None)
  /\ i \in Valid(sigs, accept, spec, sdk)
  /\ \A y \in Valid(sigs, accept, spec, sdk) : i <= y
  /\ VerifyTexts(c, sigs, accept, spec, sdk) =
       [form |-> IF InForm(sigs, i, spec) THEN "Spec" ELSE "A2aSdk",
        kid |-> sigs[i].kid, fingerprint |-> fingerprint(c)]

(* What an accepting verification reports: the first signature that        *)
(* verifies (verify).                                                      *)
LEMMA AcceptedReports ==
  ASSUME NEW S, NEW sigs \in Seq(S), NEW c, NEW accept \in BOOLEAN, NEW spec, NEW sdk,
         Accepted(VerifyTexts(c, sigs, accept, spec, sdk))
  PROVE  \E i : Reports(i, c, sigs, accept, spec, sdk)
<1> DEFINE V == Valid(sigs, accept, spec, sdk)
<1>1. sigs # <<>> /\ spec # None /\ ~(accept /\ sdk = None) /\ V # {}
  BY DEF VerifyTexts, Accepted, Modes, NoSignature, Canonicalization, InvalidSignature, Valid, InForm
<1>2. V \in SUBSET Nat
  BY DEF Valid
<1>3. \E x \in V : \A y \in V : x <= y
  BY <1>1, <1>2, LeastNatural
<1>4. FirstOf(V) \in V /\ \A y \in V : FirstOf(V) <= y
  BY <1>3 DEF FirstOf
<1>5. VerifyTexts(c, sigs, accept, spec, sdk) =
        [form |-> IF InForm(sigs, FirstOf(V), spec) THEN "Spec" ELSE "A2aSdk",
         kid |-> sigs[FirstOf(V)].kid, fingerprint |-> fingerprint(c)]
  BY <1>1 DEF VerifyTexts, Valid, InForm, FirstOf
<1>q. QED BY <1>1, <1>4, <1>5 DEF Reports

(* A signature behind the others does not change what an accepting         *)
(* verification reports (verify).                                          *)
LEMMA OneMoreChangesNothing ==
  ASSUME NEW S, NEW sigs \in Seq(S), NEW x \in S, NEW c, NEW accept \in BOOLEAN, NEW spec, NEW sdk,
         Accepted(VerifyTexts(c, sigs, accept, spec, sdk))
  PROVE  VerifyTexts(c, Append(sigs, x), accept, spec, sdk) = VerifyTexts(c, sigs, accept, spec, sdk)
<1> DEFINE V == Valid(sigs, accept, spec, sdk)
           more == Append(sigs, x)
           W == Valid(more, accept, spec, sdk)
<1>0. PICK i : Reports(i, c, sigs, accept, spec, sdk)
  BY AcceptedReports
<1>1. /\ sigs # <<>> /\ spec # None /\ ~(accept /\ sdk = None)
      /\ i \in V /\ \A y \in V : i <= y
      /\ VerifyTexts(c, sigs, accept, spec, sdk) =
           [form |-> IF InForm(sigs, i, spec) THEN "Spec" ELSE "A2aSdk",
            kid |-> sigs[i].kid, fingerprint |-> fingerprint(c)]
  BY <1>0 DEF Reports
<1>2. /\ DOMAIN sigs = 1..Len(sigs) /\ DOMAIN more = 1..(Len(sigs) + 1) /\ Len(sigs) \in Nat
      /\ \A j \in 1..Len(sigs) : more[j] = sigs[j]
      /\ more # <<>>
  OBVIOUS
<1> HIDE DEF more
<1>3. \A j \in 1..Len(sigs) : \A text : InForm(more, j, text) <=> InForm(sigs, j, text)
  BY <1>2 DEF InForm
<1>4. i \in 1..Len(sigs) /\ i \in Nat
  BY <1>1, <1>2 DEF Valid
<1>5. i \in W
  BY <1>1, <1>2, <1>3, <1>4 DEF Valid
<1>6. \A y \in W : y \in Nat /\ i <= y
  <2> TAKE y \in W
  <2>1. y \in 1..(Len(sigs) + 1)
    BY <1>2 DEF Valid
  <2>2. CASE y \in 1..Len(sigs)
    <3>1. y \in V
      BY <1>2, <1>3, <2>2 DEF Valid
    <3>q. QED BY <1>1, <2>1, <3>1
  <2>3. CASE y = Len(sigs) + 1
    BY <1>2, <1>4, <2>3
  <2>q. QED BY <1>2, <2>1, <2>2, <2>3
<1>7. FirstOf(W) = i
  <2>1. FirstOf(W) \in W /\ \A y \in W : FirstOf(W) <= y
    BY <1>5, <1>6 DEF FirstOf
  <2>2. FirstOf(W) \in Nat /\ FirstOf(W) <= i /\ i <= FirstOf(W)
    BY <1>5, <1>6, <2>1
  <2>q. QED BY <1>4, <2>2
<1>8. W # {}
  BY <1>5
<1>9. VerifyTexts(c, more, accept, spec, sdk) =
        [form |-> IF InForm(more, i, spec) THEN "Spec" ELSE "A2aSdk",
         kid |-> more[i].kid, fingerprint |-> fingerprint(c)]
  BY <1>1, <1>2, <1>7, <1>8 DEF VerifyTexts, Valid, InForm, FirstOf
<1>10. more[i] = sigs[i] /\ (InForm(more, i, spec) <=> InForm(sigs, i, spec))
  BY <1>2, <1>3, <1>4
<1>q. QED BY <1>1, <1>9, <1>10 DEF more

---------------------------------------------------------------------------
(* No step puts a signature on the card that no signing made. *)
LEMMA CardStep == ASSUME CardInv, [Next]_vars PROVE CardInv'
<1>1. ASSUME NEW key \in Keys, NEW mode \in Modes, sign_with(key, mode) PROVE CardInv'
  <2> DEFINE sig == [kid |-> KidOf[key], key |-> key, text |-> payload(content, signatures, mode)]
             new == [key |-> key, mode |-> mode, content |-> content, signature |-> sig]
  <2>1. signatures' = Append(signatures, sig) /\ made' = made \cup {new} /\ content' = content
    BY <1>1 DEF sign_with, Sign
  <2>2. /\ new.content \in Contents /\ new.mode \in Modes /\ new.signature = sig
        /\ sig.key = new.key /\ sig.text = CanonicalText[new.content][new.mode]
    BY DEF CardInv, payload
  <2> HIDE DEF sig, new
  <2>3. MadeSignatures' = MadeSignatures \cup {sig}
    BY <2>1, <2>2 DEF MadeSignatures
  <2>4. Append(signatures, sig) \in Seq(MadeSignatures \cup {sig})
    <3>1. signatures \in Seq(MadeSignatures)
      BY DEF CardInv
    <3>2. signatures \in Seq(MadeSignatures \cup {sig})
      BY <3>1
    <3>q. QED BY <3>2
  <2>5. signatures' \in Seq(MadeSignatures')
    BY <2>1, <2>3, <2>4
  <2>6. \A s \in made' : /\ s.content \in Contents /\ s.mode \in Modes
                         /\ s.signature.key = s.key
                         /\ s.signature.text = CanonicalText[s.content][s.mode]
    BY <2>1, <2>2 DEF CardInv
  <2>q. QED BY <2>1, <2>5, <2>6 DEF CardInv
<1>2. ASSUME NEW p \in DOMAIN Places, NEW variant \in Places[p], Edit(p, variant) PROVE CardInv'
  <2>1. content' = [content EXCEPT ![p] = variant] /\ signatures' = signatures /\ made' = made
    BY <1>2 DEF Edit
  <2>2. content' \in Contents
    BY <2>1 DEF CardInv, Contents
  <2>q. QED BY <2>1, <2>2 DEF CardInv, MadeSignatures
<1>3. ASSUME NEW s \in made, Attach(s.signature) PROVE CardInv'
  <2>1. signatures' = Append(signatures, s.signature) /\ content' = content /\ made' = made
    BY <1>3 DEF Attach
  <2>2. s.signature \in MadeSignatures /\ MadeSignatures' = MadeSignatures
    BY <2>1 DEF MadeSignatures
  <2>3. signatures' \in Seq(MadeSignatures)
    BY <2>1, <2>2 DEF CardInv
  <2>q. QED BY <2>1, <2>2, <2>3 DEF CardInv
<1>4. CASE Drop
  <2>1. signatures # <<>> /\ signatures' = Tail(signatures) /\ content' = content /\ made' = made
    BY <1>4 DEF Drop
  <2>2. signatures' \in Seq(MadeSignatures) /\ MadeSignatures' = MadeSignatures
    BY <2>1 DEF CardInv, MadeSignatures
  <2>q. QED BY <2>1, <2>2 DEF CardInv
<1>5. CASE Pin
  BY <1>5 DEF Pin, CardInv, MadeSignatures
<1>6. CASE UNCHANGED vars
  BY <1>6 DEF vars, CardInv, MadeSignatures
<1>q. QED BY <1>1, <1>2, <1>3, <1>4, <1>5, <1>6 DEF Next

(* CardInv is an invariant. *)
LEMMA CardInvariant == Spec => []CardInv
<1>1. Init => CardInv
  BY CardsAssumption DEF Init, CardInv, MadeSignatures
<1>2. CardInv /\ [Next]_vars => CardInv'
  BY CardStep
<1>q. QED BY <1>1, <1>2, PTL DEF Spec

---------------------------------------------------------------------------
(* An accepted card says what a trusted key signed, in the form that was   *)
(* signed, however it was edited and whatever signatures it was given      *)
(* (sign_with, verify).                                                    *)
THEOREM AcceptedWasSignedHolds == Spec => []AcceptedWasSigned
<1>1. CardInv => AcceptedWasSigned
  <2> SUFFICES ASSUME CardInv, NEW accept \in BOOLEAN, NEW r,
                      r = verify(content, signatures, accept), Accepted(r)
               PROVE  \E s \in made : /\ s.key = trusted[r.kid]
                                      /\ Covered(s.content, s.mode) = Covered(content, r.form)
    BY DEF AcceptedWasSigned
  <2> DEFINE spec == CanonicalText[content]["Spec"]
             sdk == CanonicalText[content]["A2aSdk"]
  <2>1. r = VerifyTexts(content, signatures, accept, spec, sdk)
    BY DEF verify, payload
  <2>2. PICK i :
          /\ i \in Valid(signatures, accept, spec, sdk) /\ spec # None /\ ~(accept /\ sdk = None)
          /\ r = [form |-> IF InForm(signatures, i, spec) THEN "Spec" ELSE "A2aSdk",
                  kid |-> signatures[i].kid, fingerprint |-> fingerprint(content)]
    <3>1. signatures \in Seq(MadeSignatures) /\ Accepted(VerifyTexts(content, signatures, accept, spec, sdk))
      BY <2>1 DEF CardInv
    <3>2. PICK i : Reports(i, content, signatures, accept, spec, sdk)
      BY <3>1, AcceptedReports
    <3>q. QED BY <2>1, <3>2 DEF Reports
  <2>3. PICK s \in made : signatures[i] = s.signature
    BY <2>2 DEF CardInv, Valid, MadeSignatures
  <2>4. /\ r.kid = s.signature.kid /\ r.form \in Modes
        /\ s.signature.key = trusted[s.signature.kid]
        /\ s.signature.text = CanonicalText[content][r.form] /\ CanonicalText[content][r.form] # None
    BY <2>2, <2>3 DEF Valid, InForm, Verifies, Modes
  <2>5. /\ s.content \in Contents /\ s.mode \in Modes /\ content \in Contents
        /\ s.signature.key = s.key /\ s.signature.text = CanonicalText[s.content][s.mode]
    BY DEF CardInv
  <2>6. Covered(s.content, s.mode) = Covered(content, r.form)
    <3>1. /\ CanonicalText[s.content][s.mode] = CanonicalText[content][r.form]
          /\ CanonicalText[s.content][s.mode] # None
      BY <2>4, <2>5
    <3>q. QED BY <2>4, <2>5, <3>1, TextsTell, Zenon
  <2>q. QED BY <2>4, <2>5, <2>6
<1>q. QED BY <1>1, CardInvariant, PTL

(* Whoever accepted a card accepts it for the same reason when signatures  *)
(* are added behind the others (sign_with, verify).                        *)
THEOREM MoreSignaturesHold == Spec => MoreSignaturesDoNoHarm
<1> DEFINE A == content' = content /\ Len(signatures') > Len(signatures) =>
                  \A accept \in BOOLEAN :
                    Unharmed(verify(content, signatures, accept), verify(content, signatures', accept))
<1>1. ASSUME CardInv, [Next]_vars PROVE [A]_vars
  <2> SUFFICES ASSUME content' = content, Len(signatures') > Len(signatures), NEW accept \in BOOLEAN,
                      Accepted(verify(content, signatures, accept))
               PROVE  verify(content, signatures', accept) = verify(content, signatures, accept)
    BY DEF Unharmed
  <2>1. signatures \in Seq(MadeSignatures) /\ Len(signatures) \in Nat
    BY <1>1 DEF CardInv
  <2>2. \E x : signatures' = Append(signatures, x)
    <3>1. \A k, m : sign_with(k, m) => \E x : signatures' = Append(signatures, x)
      BY DEF sign_with, Sign
    <3>2. \A x : Attach(x) => signatures' = Append(signatures, x)
      BY DEF Attach
    <3>3. ~Drop
      <4>1. signatures # <<>> => Len(Tail(signatures)) < Len(signatures)
        BY <2>1
      <4>q. QED BY <2>1, <4>1 DEF Drop
    <3>4. signatures' # signatures
      BY <2>1
    <3>q. QED BY <1>1, <3>1, <3>2, <3>3, <3>4 DEF Next, Edit, Pin, vars
  <2>3. PICK x : signatures' = Append(signatures, x)
    BY <2>2
  <2>4. signatures \in Seq(MadeSignatures \cup {x})
    BY <2>1
  <2>q. QED BY <2>3, <2>4, OneMoreChangesNothing DEF verify, payload
<1>2. CardInv /\ [Next]_vars => [A]_vars
  BY <1>1
<1>q. QED BY <1>2, CardInvariant, PTL DEF Spec, MoreSignaturesDoNoHarm
=============================================================================
