---------------------------- MODULE MessageProofs ----------------------------
(***************************************************************************)
(* What is read of a message on the way is what was sent.                  *)
(*                                                                         *)
(* Binding: for every limit of exact doubles, every draft and any number   *)
(* of peers on the way.  The invariant is that every number on the way is  *)
(* the one sent or the double it became at the first peer that keeps       *)
(* messages as protobuf: a second such peer changes nothing.               *)
(*                                                                         *)
(* Extension: for any domains, reasons, links and number of details that   *)
(* other services add.  The invariant is that the gateway's own details    *)
(* stand in the error next to each other, and what stands before them was  *)
(* put in front.                                                           *)
(***************************************************************************)
EXTENDS Binding, Extension, WellFoundedInduction, TLAPS

IsNumber(n) ==
  \/ n = Integer(n.i) /\ n.i \in Int
  \/ n = Double(n.halves) /\ n.halves \in Int

IsRequest(m) ==
  /\ m = MandateRequest(m.mandate, m.approval_url, m.nonce)
  /\ m.mandate = [p \in Parts |-> m.mandate[p]]

(* The metadata on its way is that of the request sent. *)
Carries(m) ==
  /\ IsRequest(m)
  /\ \A p \in Parts : /\ IsNumber(sent.mandate[p])
                      /\ m.mandate[p] \in {sent.mandate[p], ToStruct(sent.mandate[p])}

Carried ==
  object # None =>
    /\ object = [extensions |-> object.extensions, metadata |-> object.metadata]
    /\ object.metadata # None => Carries(object.metadata)

(* Every member of Numbers has the form of one. *)
LEMMA NumbersAreNumbers == \A n \in Numbers : IsNumber(n)
  BY BindingAssumption DEF Numbers, IsNumber, Integer, Double

(* A number that was turned into a double stays as it is. *)
LEMMA StructIsStable == ASSUME NEW n PROVE ToStruct(ToStruct(n)) = ToStruct(n)
<1>1. CASE n.t = "int"
  BY <1>1 DEF ToStruct, Double
<1>2. CASE n.t # "int"
  BY <1>2 DEF ToStruct
<1>q. QED BY <1>1, <1>2

(* Rounding never brings an integer below the limit: what is below it      *)
(* after rounding was there before.                                        *)
LEMMA NearestBelowLimit ==
  ASSUME NEW i \in Int
  PROVE  /\ Nearest(i) \in Int
         /\ Abs(Nearest(i)) < Limit => Nearest(i) = i
         /\ Abs(i) < Limit => Nearest(i) = i
  BY BindingAssumption DEF Nearest, Abs

(* What is read of a number that was sent, over any way. *)
LEMMA RestoreExact ==
  ASSUME NEW n, IsNumber(n), NEW w \in {n, ToStruct(n)}
  PROVE  LET r == restore_integers(w)
         IN  /\ n.t = "int" /\ r.t = "int" => r = n
             /\ n.t = "int" /\ Abs(n.i) < Limit => r = n
             /\ n.t = "double" => InHalves(r) = InHalves(n)
<1>1. CASE n = Integer(n.i) /\ n.i \in Int
  <2>1. n.t = "int" BY <1>1 DEF Integer
  <2>2. CASE w = n
    BY <2>1, <2>2 DEF restore_integers
  <2>3. CASE w = ToStruct(n)
    <3>1. w = Double(2 * Nearest(n.i)) /\ w.t = "double" /\ w.halves = 2 * Nearest(n.i)
      BY <2>1, <2>3 DEF ToStruct, Double
    <3>2. Nearest(n.i) \in Int
      BY <1>1, NearestBelowLimit
    <3>3. (2 * Nearest(n.i)) % 2 = 0 /\ (2 * Nearest(n.i)) \div 2 = Nearest(n.i)
      BY <3>2
    <3>4. Abs(2 * Nearest(n.i)) < 2 * Limit <=> Abs(Nearest(n.i)) < Limit
      BY <3>2, BindingAssumption DEF Abs
    <3>5. restore_integers(w) = IF Abs(Nearest(n.i)) < Limit THEN Integer(Nearest(n.i)) ELSE w
      BY <3>1, <3>3, <3>4 DEF restore_integers
    <3>6. CASE Abs(Nearest(n.i)) < Limit
      <4>1. Nearest(n.i) = n.i BY <1>1, <3>6, NearestBelowLimit
      <4>q. QED BY <1>1, <2>1, <3>5, <3>6, <4>1
    <3>7. CASE ~(Abs(Nearest(n.i)) < Limit)
      <4>1. ~(Abs(n.i) < Limit) BY <1>1, <3>7, NearestBelowLimit
      <4>2. restore_integers(w).t = "double" BY <3>1, <3>5, <3>7
      <4>q. QED BY <2>1, <4>1, <4>2
    <3>q. QED BY <3>6, <3>7
  <2>q. QED BY <2>2, <2>3
<1>2. CASE n = Double(n.halves) /\ n.halves \in Int
  <2>1. n.t = "double" /\ w = n BY <1>2 DEF Double, ToStruct
  <2>2. CASE n.halves % 2 = 0 /\ Abs(n.halves) < 2 * Limit
    <3>1. restore_integers(w) = Integer(n.halves \div 2)
      BY <2>1, <2>2 DEF restore_integers
    <3>2. 2 * (n.halves \div 2) = n.halves
      BY <1>2, <2>2
    <3>q. QED BY <2>1, <3>1, <3>2 DEF InHalves, Integer
  <2>3. CASE ~(n.halves % 2 = 0 /\ Abs(n.halves) < 2 * Limit)
    <3>1. restore_integers(w) = n
      BY <2>1, <2>3 DEF restore_integers
    <3>q. QED BY <2>1, <3>1
  <2>q. QED BY <2>2, <2>3
<1>q. QED BY <1>1, <1>2 DEF IsNumber

(* Carried is an invariant. *)
LEMMA CarriedInvariant == Spec => []Carried
<1>1. Init => Carried
  BY DEF Init, Carried
<1>2. Carried /\ [Next]_vars => Carried'
  <2> SUFFICES ASSUME Carried, [Next]_vars PROVE Carried'
    OBVIOUS
  <2>1. ASSUME NEW d \in [Parts -> Numbers], NEW url \in {"https", "http"}, NEW nonce \in {"", "n"},
               Send(MandateRequest(d, url, nonce))
        PROVE  Carried'
    <3> DEFINE m == MandateRequest(d, url, nonce)
    <3>1. sent' = m /\ object' = [extensions |-> {EXTENSION_URI}, metadata |-> m]
      BY <2>1 DEF Send, task_status
    <3>2. IsRequest(m) /\ m.mandate = d
      BY DEF IsRequest, MandateRequest
    <3>3. \A p \in Parts : IsNumber(d[p])
      BY NumbersAreNumbers
    <3>4. Carries(m)'
      BY <3>1, <3>2, <3>3 DEF Carries
    <3>q. QED BY <3>1, <3>4 DEF Carried
  <2>2. ASSUME ThroughProtobuf PROVE Carried'
    <3> DEFINE m == object.metadata
               g == [p \in Parts |-> ToStruct(m.mandate[p])]
    <3>1. object # None /\ m # None /\ sent' = sent
      BY <2>2 DEF ThroughProtobuf, Forward
    <3>2. Carries(m) /\ object = [extensions |-> object.extensions, metadata |-> m]
      BY <3>1 DEF Carried
    <3>3. m = MandateRequest(m.mandate, m.approval_url, m.nonce) /\ DOMAIN m.mandate = Parts
      BY <3>2 DEF Carries, IsRequest
    <3>4. object' = [object EXCEPT !.metadata.mandate = [p \in DOMAIN @ |-> ToStruct(@[p])]]
      BY <2>2 DEF ThroughProtobuf, Forward
    <3>5. PICK r : r = MandateRequest(g, m.approval_url, m.nonce)
      OBVIOUS
    <3>6. object' = [extensions |-> object.extensions, metadata |-> r]
      BY <3>2, <3>3, <3>4, <3>5 DEF MandateRequest
    <3>7. IsRequest(r) /\ r.mandate = g
      BY <3>5 DEF IsRequest, MandateRequest
    <3>8. \A p \in Parts : IsNumber(sent.mandate[p]) /\ g[p] = ToStruct(sent.mandate[p])
      BY <3>2, StructIsStable DEF Carries
    <3>9. Carries(r)'
      BY <3>1, <3>7, <3>8 DEF Carries
    <3>q. QED BY <3>6, <3>9 DEF Carried
  <2>3. ASSUME AddExtension \/ DropExtension \/ DropMetadata PROVE Carried'
    <3>1. object # None /\ sent' = sent /\ object = [extensions |-> object.extensions, metadata |-> object.metadata]
      BY <2>3 DEF AddExtension, DropExtension, DropMetadata, Forward, Carried
    <3>2. PICK es, m : m \in {object.metadata, None} /\ object' = [extensions |-> es, metadata |-> m]
      BY <2>3, <3>1 DEF AddExtension, DropExtension, DropMetadata, Forward
    <3>3. m # None => Carries(m)
      BY <3>1, <3>2 DEF Carried
    <3>q. QED BY <3>1, <3>2, <3>3 DEF Carried, Carries
  <2>4. ASSUME UNCHANGED vars PROVE Carried'
    BY <2>4 DEF vars, Carried, Carries
  <2>q. QED BY <2>1, <2>2, <2>3, <2>4 DEF Next
<1>q. QED BY <1>1, <1>2, PTL DEF Spec

(* What a reader gets of a part of the draft. *)
LEMMA ReadRestores ==
  ASSUME Carried, IsRead, NEW p \in Parts
  PROVE  /\ IsNumber(sent.mandate[p])
         /\ \E w \in {sent.mandate[p], ToStruct(sent.mandate[p])} : Read.mandate[p] = restore_integers(w)
<1> DEFINE m == object.metadata
           read == [m EXCEPT !.mandate = [q \in DOMAIN @ |-> restore_integers(@[q])]]
<1>1. object # None /\ m # None /\ Read = read
  BY DEF IsRead, Read, read_status, extension_metadata
<1>2. Carries(m)
  BY <1>1 DEF Carried
<1>3. m = MandateRequest(m.mandate, m.approval_url, m.nonce) /\ DOMAIN m.mandate = Parts
  BY <1>2 DEF Carries, IsRequest
<1>4. read.mandate[p] = restore_integers(m.mandate[p])
  BY <1>3 DEF MandateRequest
<1>q. QED BY <1>1, <1>2, <1>4 DEF Carries

(* No integer of a draft is read as another one, whatever the limit of     *)
(* exact integers and the way.                                             *)
THEOREM IntegersAreKept == Spec => []NoOtherInteger
<1>1. Carried => NoOtherInteger
  BY ReadRestores, RestoreExact DEF NoOtherInteger
<1>q. QED BY <1>1, CarriedInvariant, PTL

(* A draft below the limit is read as it was sent, after any way. *)
THEOREM DraftsAreKept == Spec => []DraftIsReadAsSent
<1>1. Carried => DraftIsReadAsSent
  BY ReadRestores, RestoreExact DEF DraftIsReadAsSent
<1>q. QED BY <1>1, CarriedInvariant, PTL

---------------------------------------------------------------------------
(* Extension *)

(* The gateway's own details stand after the first k. *)
StandsAfter(k) ==
  LET own == to_json_rpc_error(raised, domain)
  IN  /\ k + Len(own.data) <= Len(error.data)
      /\ \A j \in 1..Len(own.data) : error.data[k + j] = own.data[j]
      /\ \A j \in 1..k : error.data[j] \in front

ErrorInv ==
  /\ error # Nothing => error \in WireErrors
  /\ raised # Nothing =>
       /\ raised \in GovernanceErrors
       /\ error # Nothing /\ error \in WireErrors /\ error.data # Bad
       /\ error.code = to_json_rpc_error(raised, domain).code
       /\ error.message = raised.message
       /\ \E k \in Nat : StandsAfter(k)

(* Every set of naturals that is not empty has a least element. *)
LEMMA LeastNatural ==
  ASSUME NEW S \in SUBSET Nat, S # {}
  PROVE  \E n \in S : \A m \in S : n <= m
<1> DEFINE R == OpToRel(<, Nat)
<1>1. IsWellFoundedOn(R, Nat)
  BY NatLessThanWellFounded
<1>2. \A x, y \in Nat : <<x, y>> \in R <=> x < y
  BY DEF OpToRel
<1> HIDE DEF R
<1>3. PICK n \in S : \A m \in S : <<m, n>> \notin R
  BY <1>1, WFMin
<1>4. \A m \in S : m \in Nat /\ n \in Nat /\ ~(m < n)
  BY <1>2, <1>3
<1>q. QED BY <1>3, <1>4

(* Where the gateway's own details stand: an ErrorInfo, and a link behind  *)
(* it if the error is a challenge.                                         *)
LEMMA OwnIsKnown ==
  ASSUME NEW e \in GovernanceErrors
  PROVE  LET w == to_json_rpc_error(e, domain)
         IN  /\ w \in WireErrors /\ w.data \in Seq(OwnDetails) /\ w.data # Bad
             /\ w.message = e.message /\ e.message \in Messages
             /\ \/ /\ e.type = "Deny" /\ w.code = DENY_CODE /\ e = deny(e.reason, e.message)
                   /\ e.reason \in DOMAIN DenyReason
                   /\ w.data = <<error_info(DenyReason[e.reason], domain, Bad)>>
                \/ /\ e.type = "Challenge" /\ w.code = CHALLENGE_CODE
                   /\ e.challenge_id \in Ids /\ e.url \in HttpsUrls
                   /\ e = challenge(e.reason, e.message, e.challenge_id, e.url)
                   /\ e.reason \in DOMAIN ChallengeReason
                   /\ w.data = <<error_info(ChallengeReason[e.reason], domain, e.challenge_id), Help(e.url)>>
<1> DEFINE w == to_json_rpc_error(e, domain)
<1>1. CASE e \in {deny(r, m) : r \in DOMAIN DenyReason, m \in Messages}
  <2>1. /\ e.type = "Deny" /\ e = deny(e.reason, e.message)
        /\ e.reason \in DOMAIN DenyReason /\ e.message \in Messages
    BY <1>1 DEF deny
  <2>2. w = JsonRpc(DENY_CODE, e.message, <<error_info(DenyReason[e.reason], domain, Bad)>>)
    BY <2>1 DEF to_json_rpc_error
  <2>3. error_info(DenyReason[e.reason], domain, Bad) \in OwnDetails
    BY <2>1 DEF OwnDetails, OwnReasons
  <2>4. w.data \in Seq(OwnDetails) /\ w.data \in Seq(AllDetails)
    BY <2>2, <2>3 DEF JsonRpc, AllDetails
  <2>5. w.data # Bad
    BY <2>4, ExtensionAssumption DEF AllDetails
  <2>q. QED BY <2>1, <2>2, <2>4, <2>5 DEF WireErrors, JsonRpc
<1>2. CASE e \in {challenge(r, m, id, u) : r \in DOMAIN ChallengeReason, m \in Messages,
                                           id \in Ids, u \in HttpsUrls}
  <2>1. /\ e.type = "Challenge" /\ e = challenge(e.reason, e.message, e.challenge_id, e.url)
        /\ e.reason \in DOMAIN ChallengeReason /\ e.message \in Messages
        /\ e.challenge_id \in Ids /\ e.url \in HttpsUrls
    BY <1>2 DEF challenge, is_https_url
  <2>2. w = JsonRpc(CHALLENGE_CODE, e.message,
                    <<error_info(ChallengeReason[e.reason], domain, e.challenge_id), Help(e.url)>>)
    BY <2>1 DEF to_json_rpc_error
  <2>3. /\ error_info(ChallengeReason[e.reason], domain, e.challenge_id) \in OwnDetails
        /\ Help(e.url) \in OwnDetails
    BY <2>1 DEF OwnDetails, OwnReasons
  <2>4. w.data \in Seq(OwnDetails) /\ w.data \in Seq(AllDetails)
    BY <2>2, <2>3 DEF JsonRpc, AllDetails
  <2>5. w.data # Bad
    BY <2>4, ExtensionAssumption DEF AllDetails
  <2>q. QED BY <2>1, <2>2, <2>4, <2>5 DEF WireErrors, JsonRpc
<1>q. QED BY <1>1, <1>2 DEF GovernanceErrors

(* Every reason has a name of its own. *)
LEMMA ReasonsReadBack ==
  /\ \A r \in DOMAIN DenyReason : Named(DenyReason, DenyReason[r]) = {r}
  /\ \A r \in DOMAIN ChallengeReason : Named(ChallengeReason, ChallengeReason[r]) = {r}
  /\ \A r : TheOne({r}) = r
<1>1. \A r \in DOMAIN DenyReason : Named(DenyReason, DenyReason[r]) = {r}
  BY DEF Named, DenyReason
<1>2. \A r \in DOMAIN ChallengeReason : Named(ChallengeReason, ChallengeReason[r]) = {r}
  BY DEF Named, ChallengeReason
<1>3. \A r : TheOne({r}) = r
  BY DEF TheOne
<1>q. QED BY <1>1, <1>2, <1>3

(* The first of the qualifying details, if there is one. *)
LEMMA FirstIsLeast ==
  ASSUME NEW S, NEW k \in S, \A j \in S : k <= j, S \subseteq Nat
  PROVE  FirstOf(S) = k
<1>1. \E i \in S : \A j \in S : i <= j
  OBVIOUS
<1>2. FirstOf(S) \in S /\ \A j \in S : FirstOf(S) <= j
  BY <1>1 DEF FirstOf
<1>3. FirstOf(S) \in Nat /\ k \in Nat /\ FirstOf(S) <= k /\ k <= FirstOf(S)
  BY <1>2
<1>q. QED BY <1>3

(* An error object in which an error's own details stand, with no other    *)
(* ErrorInfo of the domain and no link before them, is read as that error. *)
LEMMA ReadsBack ==
  ASSUME NEW e \in GovernanceErrors, NEW w, w \in WireErrors, w.data # Bad,
         w.code = to_json_rpc_error(e, domain).code, w.message = e.message,
         NEW k \in Nat,
         k + Len(to_json_rpc_error(e, domain).data) <= Len(w.data),
         \A j \in 1..Len(to_json_rpc_error(e, domain).data) :
           w.data[k + j] = to_json_rpc_error(e, domain).data[j],
         \A j \in 1..k : ~IsInfo(w.data[j], domain) /\ ~IsLink(w.data[j])
  PROVE  parse(w, domain) = e
<1> DEFINE own == to_json_rpc_error(e, domain).data
<1>1. w.data \in Seq(AllDetails) /\ Items(w) = w.data /\ Len(w.data) \in Nat /\ DOMAIN w.data = 1..Len(w.data)
  BY DEF WireErrors, Items
<1>2. w.message # Bad
  BY OwnIsKnown, ExtensionAssumption
<1>3. CASE e.type = "Deny"
  <2>1. /\ e = deny(e.reason, e.message) /\ e.reason \in DOMAIN DenyReason
        /\ w.code = DENY_CODE /\ own = <<error_info(DenyReason[e.reason], domain, Bad)>>
    BY <1>3, OwnIsKnown
  <2>2. w.data[k + 1] = error_info(DenyReason[e.reason], domain, Bad) /\ k + 1 <= Len(w.data)
    BY <2>1
  <2>3. k + 1 \in Infos(w, domain)
    BY <1>1, <2>2 DEF Infos, IsInfo, error_info
  <2>4. FirstOf(Infos(w, domain)) = k + 1
    <3>1. Infos(w, domain) \subseteq Nat /\ \A j \in Infos(w, domain) : k + 1 <= j
      BY <1>1 DEF Infos
    <3>q. QED BY <2>3, <3>1, FirstIsLeast
  <2>5. parse(w, domain) = Meaning(w, w.data[k + 1], Links(w), w.data[FirstOf(Links(w))].url)
    BY <1>1, <1>2, <2>3, <2>4 DEF parse
  <2>6. w.data[k + 1].reason = DenyReason[e.reason]
    BY <2>2 DEF error_info
  <2>7. Named(DenyReason, w.data[k + 1].reason) = {e.reason} /\ TheOne({e.reason}) = e.reason
    BY <2>1, <2>6, ReasonsReadBack
  <2>q. QED BY <2>1, <2>5, <2>7 DEF Meaning
<1>4. CASE e.type = "Challenge"
  <2>1. /\ e = challenge(e.reason, e.message, e.challenge_id, e.url) /\ e.reason \in DOMAIN ChallengeReason
        /\ e.challenge_id \in Ids /\ e.url \in HttpsUrls /\ w.code = CHALLENGE_CODE
        /\ own = <<error_info(ChallengeReason[e.reason], domain, e.challenge_id), Help(e.url)>>
    BY <1>4, OwnIsKnown
  <2>2. /\ w.data[k + 1] = error_info(ChallengeReason[e.reason], domain, e.challenge_id)
        /\ w.data[k + 2] = Help(e.url) /\ k + 2 <= Len(w.data)
    BY <2>1
  <2>3. k + 1 \in Infos(w, domain) /\ k + 2 \in Links(w)
    <3>1. e.url # Bad
      BY <2>1, ExtensionAssumption
    <3>2. k + 1 \in DOMAIN w.data /\ k + 2 \in DOMAIN w.data
      BY <1>1, <2>2
    <3>q. QED BY <1>1, <2>2, <3>1, <3>2 DEF Infos, Links, IsInfo, IsLink, error_info, Help
  <2>4. FirstOf(Infos(w, domain)) = k + 1
    <3>1. Infos(w, domain) \subseteq Nat /\ \A j \in Infos(w, domain) : k + 1 <= j
      BY <1>1 DEF Infos
    <3>q. QED BY <2>3, <3>1, FirstIsLeast
  <2>5. FirstOf(Links(w)) = k + 2
    <3>1. ~IsLink(w.data[k + 1])
      BY <2>2 DEF IsLink, error_info
    <3>2. Links(w) \subseteq Nat /\ \A j \in Links(w) : k + 2 <= j
      BY <1>1, <3>1 DEF Links
    <3>q. QED BY <2>3, <3>2, FirstIsLeast
  <2>6. parse(w, domain) = Meaning(w, w.data[k + 1], Links(w), w.data[k + 2].url)
    BY <1>1, <1>2, <2>3, <2>4, <2>5 DEF parse
  <2>7. /\ w.data[k + 1].reason = ChallengeReason[e.reason] /\ w.data[k + 1].challengeId = e.challenge_id
        /\ w.data[k + 2].url = e.url
    BY <2>2 DEF error_info, Help
  <2>8. Named(ChallengeReason, w.data[k + 1].reason) = {e.reason} /\ TheOne({e.reason}) = e.reason
    BY <2>1, <2>7, ReasonsReadBack
  <2>9. e.challenge_id # Bad /\ w.code # DENY_CODE /\ Links(w) # {}
    BY <2>1, <2>3, ExtensionAssumption DEF DENY_CODE, CHALLENGE_CODE
  <2>q. QED BY <2>1, <2>6, <2>7, <2>8, <2>9 DEF Meaning
<1>q. QED BY <1>3, <1>4, OwnIsKnown

(* Raising puts the gateway's details into the error, and what is added    *)
(* behind or in front leaves them next to each other.                      *)
LEMMA ErrorStep == ASSUME ErrorInv, [ErrorNext]_error_vars PROVE ErrorInv'
<1>1. ASSUME NEW e \in GovernanceErrors, Raise(e) PROVE ErrorInv'
  <2>1. error' = to_json_rpc_error(e, domain) /\ raised' = e
    BY <1>1 DEF Raise
  <2>2. /\ error' \in WireErrors /\ error'.data # Bad /\ error'.message = e.message
        /\ error'.data \in Seq(OwnDetails)
    BY <2>1, OwnIsKnown
  <2>3. StandsAfter(0)'
    BY <2>1, <2>2 DEF StandsAfter
  <2>4. error' # Nothing
    BY <2>2, ExtensionAssumption
  <2>q. QED BY <2>1, <2>2, <2>3, <2>4 DEF ErrorInv
<1>2. ASSUME Refuse \/ Pause PROVE ErrorInv'
  <2>1. \A r \in DOMAIN DenyReason, m \in Messages : deny(r, m) \in GovernanceErrors
    BY DEF GovernanceErrors
  <2>2. \A r \in DOMAIN ChallengeReason, m \in Messages, id \in Ids, u \in HttpsUrls \cup OtherUrls :
          challenge(r, m, id, u) # Nothing => challenge(r, m, id, u) \in GovernanceErrors
    BY DEF GovernanceErrors, challenge, is_https_url
  <2>3. \A e : Raise(e) => e # Nothing
    BY DEF Raise
  <2>q. QED BY <1>1, <1>2, <2>1, <2>2, <2>3 DEF Refuse, Pause
<1>3. CASE Foreign
  <2>1. raised = Nothing /\ raised' = raised
    BY <1>3 DEF Foreign, ErrorInv
  <2>2. error' \in WireErrors
    <3>1. ASSUME NEW code \in {DENY_CODE, CHALLENGE_CODE, -32001, Bad}, NEW m \in Messages \cup {Bad},
                 NEW x \in Details, NEW y \in Details,
                 error' \in {JsonRpc(code, m, Bad), JsonRpc(code, m, <<x, y>>)}
          PROVE  error' \in WireErrors
      <4>1. <<x, y>> \in Seq(AllDetails)
        BY DEF AllDetails
      <4>2. JsonRpc(code, m, Bad) \in WireErrors
        BY DEF JsonRpc, WireErrors
      <4>3. JsonRpc(code, m, <<x, y>>) \in WireErrors
        BY <4>1 DEF JsonRpc, WireErrors
      <4>q. QED BY <3>1, <4>2, <4>3
    <3>q. QED BY <1>3, <3>1 DEF Foreign
  <2>q. QED BY <2>1, <2>2 DEF ErrorInv
<1>4. ASSUME NEW x \in Details, NEW d, NEW n \in {0, 1},
             raised # Nothing, raised' = raised,
             error' = [error EXCEPT !.data = d],
             d \in Seq(AllDetails), Len(d) = Len(error.data) + 1,
             \A j \in 1..Len(error.data) : d[j + n] = error.data[j],
             front \subseteq front', n = 1 => d[1] \in front'
      PROVE  ErrorInv'
  <2> DEFINE own == to_json_rpc_error(raised, domain).data
  <2>1. /\ raised \in GovernanceErrors /\ error \in WireErrors /\ error.data \in Seq(AllDetails)
        /\ error.code = to_json_rpc_error(raised, domain).code /\ error.message = raised.message
    BY <1>4 DEF ErrorInv, WireErrors
  <2>2. /\ error' \in WireErrors /\ error'.data = d /\ error'.code = error.code
        /\ error'.message = error.message
    BY <1>4, <2>1 DEF WireErrors
  <2>3. error' # Nothing /\ error'.data # Bad
    BY <1>4, <2>2, ExtensionAssumption
  <2>4. PICK k \in Nat : StandsAfter(k)
    BY <1>4 DEF ErrorInv
  <2>5. Len(own) \in Nat
    BY <2>1, OwnIsKnown
  <2>6. k + n \in Nat /\ Len(error.data) \in Nat
    BY <2>1
  <2>7. StandsAfter(k + n)'
    <3>1. k + Len(own) <= Len(error.data) /\ k + n + Len(own) <= Len(d)
      BY <1>4, <2>4, <2>5, <2>6 DEF StandsAfter
    <3>2. ASSUME NEW j \in 1..Len(own) PROVE d[k + n + j] = own[j]
      <4>1. k + j \in 1..Len(error.data) /\ error.data[k + j] = own[j] /\ k + n + j = (k + j) + n
        BY <2>4, <2>5, <2>6, <3>1 DEF StandsAfter
      <4>q. QED BY <1>4, <4>1
    <3>3. ASSUME NEW j \in 1..(k + n) PROVE d[j] \in front'
      <4>1. CASE j = 1 /\ n = 1
        BY <1>4, <4>1
      <4>2. CASE ~(j = 1 /\ n = 1)
        <5>1. j - n \in 1..k /\ j - n \in 1..Len(error.data) /\ j = (j - n) + n
          BY <2>5, <2>6, <3>1, <4>2
        <5>2. error.data[j - n] \in front
          BY <2>4, <5>1 DEF StandsAfter
        <5>3. d[j] = error.data[j - n]
          BY <1>4, <5>1
        <5>q. QED BY <1>4, <5>2, <5>3
      <4>q. QED BY <4>1, <4>2
    <3>q. QED BY <1>4, <2>2, <3>1, <3>2, <3>3 DEF StandsAfter
  <2>q. QED BY <1>4, <2>1, <2>2, <2>3, <2>6, <2>7 DEF ErrorInv
<1>5. ASSUME NEW x \in Details, AddBehind(x) \/ AddInFront(x) PROVE ErrorInv'
  <2>1. raised # Nothing /\ raised' = raised /\ error.data \in Seq(AllDetails)
    BY <1>5 DEF AddBehind, AddInFront, ErrorInv, WireErrors
  <2>2. x \in AllDetails
    BY DEF AllDetails
  <2>3. CASE AddBehind(x)
    <3> DEFINE d == Append(error.data, x)
    <3>1. /\ d \in Seq(AllDetails) /\ Len(d) = Len(error.data) + 1
          /\ \A j \in 1..Len(error.data) : d[j + 0] = error.data[j]
      BY <2>1, <2>2
    <3>2. error' = [error EXCEPT !.data = d] /\ front \subseteq front'
      BY <2>3 DEF AddBehind
    <3>3. 0 \in {0, 1} /\ (0 = 1 => d[1] \in front')
      OBVIOUS
    <3> HIDE DEF d
    <3>q. QED BY <1>4, <2>1, <3>1, <3>2, <3>3
  <2>4. CASE AddInFront(x)
    <3> DEFINE d == <<x>> \o error.data
    <3>1. /\ d \in Seq(AllDetails) /\ Len(d) = Len(error.data) + 1 /\ d[1] = x
          /\ \A j \in 1..Len(error.data) : d[j + 1] = error.data[j]
      BY <2>1, <2>2
    <3>2. error' = [error EXCEPT !.data = d] /\ front \subseteq front' /\ x \in front'
      BY <2>4 DEF AddInFront
    <3>3. 1 \in {0, 1} /\ (1 = 1 => d[1] \in front')
      BY <3>1, <3>2
    <3> HIDE DEF d
    <3>q. QED BY <1>4, <2>1, <3>1, <3>2, <3>3
  <2>q. QED BY <1>5, <2>3, <2>4
<1>6. CASE UNCHANGED error_vars
  <2>1. error' = error /\ raised' = raised /\ front' = front
    BY <1>6 DEF error_vars
  <2>2. CASE raised = Nothing
    BY <2>1, <2>2 DEF ErrorInv
  <2>3. CASE raised # Nothing
    <3>1. PICK k \in Nat : StandsAfter(k)
      BY <2>3 DEF ErrorInv
    <3>2. StandsAfter(k)'
      BY <2>1, <3>1 DEF StandsAfter
    <3>q. QED BY <2>1, <2>3, <3>2 DEF ErrorInv
  <2>q. QED BY <2>2, <2>3
<1>q. QED BY <1>2, <1>3, <1>5, <1>6 DEF ErrorNext

(* ErrorInv is an invariant. *)
LEMMA ErrorInvariant == ErrorSpec => []ErrorInv
<1>1. ErrorInit => ErrorInv
  BY DEF ErrorInit, ErrorInv
<1>2. ErrorInv /\ [ErrorNext]_error_vars => ErrorInv'
  BY ErrorStep
<1>q. QED BY <1>1, <1>2, PTL DEF ErrorSpec

---------------------------------------------------------------------------
(* The client reads what the gateway raised however many details other     *)
(* services add, unless one that qualifies is put in front of its own      *)
(* (to_json_rpc_error, ErrorProfile::parse).                               *)
THEOREM RaisedIsReadHolds == ErrorSpec => []RaisedIsRead
<1>1. ErrorInv => RaisedIsRead
  <2> SUFFICES ASSUME ErrorInv, raised # Nothing, \A x \in front : ~IsInfo(x, domain) /\ ~IsLink(x)
               PROVE  parse(error, domain) = raised
    BY DEF RaisedIsRead
  <2>1. /\ raised \in GovernanceErrors /\ error \in WireErrors /\ error.data # Bad
        /\ error.code = to_json_rpc_error(raised, domain).code /\ error.message = raised.message
    BY DEF ErrorInv
  <2>2. PICK k \in Nat : StandsAfter(k)
    BY DEF ErrorInv
  <2>3. \A j \in 1..k : ~IsInfo(error.data[j], domain) /\ ~IsLink(error.data[j])
    BY <2>2 DEF StandsAfter
  <2>q. QED BY <2>1, <2>2, <2>3, ReadsBack DEF StandsAfter
<1>q. QED BY <1>1, ErrorInvariant, PTL

(* What is read of any wire error is an error of the gateway's kind. *)
LEMMA ReadIsRaisable ==
  ASSUME NEW e \in WireErrors, NEW p, p = parse(e, domain), p # Nothing
  PROVE  p \in GovernanceErrors
<1> DEFINE info == Items(e)[FirstOf(Infos(e, domain))]
           url == Items(e)[FirstOf(Links(e))].url
<1>1. e.message \in Messages /\ p = Meaning(e, info, Links(e), url)
  BY DEF parse, WireErrors
<1>2. Infos(e, domain) # {} /\ e.data # Bad /\ e.data \in Seq(AllDetails)
  BY DEF parse, WireErrors, Infos, Items
<1>3. info \in AllDetails /\ IsInfo(info, domain)
  <2>1. Infos(e, domain) \in SUBSET Nat
    BY <1>2 DEF Infos, Items
  <2>2. \E i \in Infos(e, domain) : \A j \in Infos(e, domain) : i <= j
    BY <1>2, <2>1, LeastNatural
  <2>3. FirstOf(Infos(e, domain)) \in Infos(e, domain)
    BY <2>2 DEF FirstOf
  <2>4. Items(e) = e.data
    BY <1>2 DEF Items
  <2>5. FirstOf(Infos(e, domain)) \in DOMAIN e.data /\ IsInfo(info, domain)
    BY <2>3, <2>4 DEF Infos
  <2>q. QED BY <1>2, <2>4, <2>5
<1>4. info.challengeId \in Ids \cup {Bad}
  BY <1>3 DEF AllDetails, Details, OwnDetails, IsInfo, error_info, Help, DebugInfo
<1> HIDE DEF info, url
<1>5. CASE e.code = DENY_CODE /\ Named(DenyReason, info.reason) # {}
  <2>1. TheOne(Named(DenyReason, info.reason)) \in DOMAIN DenyReason
    BY <1>5 DEF TheOne, Named
  <2>2. p = deny(TheOne(Named(DenyReason, info.reason)), e.message)
    BY <1>1, <1>5 DEF Meaning
  <2>q. QED BY <1>1, <2>1, <2>2 DEF GovernanceErrors
<1>6. CASE ~(e.code = DENY_CODE /\ Named(DenyReason, info.reason) # {})
  <2>1. /\ Named(ChallengeReason, info.reason) # {} /\ info.challengeId # Bad
        /\ p = challenge(TheOne(Named(ChallengeReason, info.reason)), e.message, info.challengeId, url)
    BY <1>1, <1>6 DEF Meaning
  <2>2. TheOne(Named(ChallengeReason, info.reason)) \in DOMAIN ChallengeReason
    BY <2>1 DEF TheOne, Named
  <2>3. url \in HttpsUrls
    BY <2>1 DEF challenge, is_https_url
  <2>4. info.challengeId \in Ids
    BY <1>4, <2>1
  <2>q. QED BY <1>1, <2>1, <2>2, <2>3, <2>4 DEF GovernanceErrors
<1>q. QED BY <1>5, <1>6

(* Whatever the client accepts, of whatever origin, is read the same when  *)
(* it is sent on (parse, to_json_rpc_error).                               *)
THEOREM ReadIsStableHolds == ErrorSpec => []ReadIsStable
<1>1. ErrorInv => ReadIsStable
  <2> SUFFICES ASSUME ErrorInv, error # Nothing, NEW p, p = parse(error, domain), p # Nothing
               PROVE  parse(to_json_rpc_error(p, domain), domain) = p
    BY DEF ReadIsStable
  <2>1. p \in GovernanceErrors
    BY ReadIsRaisable DEF ErrorInv
  <2>2. PICK w : w = to_json_rpc_error(p, domain)
    OBVIOUS
  <2>3. /\ w \in WireErrors /\ w.data # Bad /\ w.message = p.message /\ w.data \in Seq(OwnDetails)
        /\ w.code = to_json_rpc_error(p, domain).code
    BY <2>1, <2>2, OwnIsKnown
  <2>4. /\ 0 + Len(to_json_rpc_error(p, domain).data) <= Len(w.data)
        /\ \A j \in 1..Len(to_json_rpc_error(p, domain).data) :
             w.data[0 + j] = to_json_rpc_error(p, domain).data[j]
    BY <2>2, <2>3
  <2>5. 0 \in Nat /\ \A j \in 1..0 : ~IsInfo(w.data[j], domain) /\ ~IsLink(w.data[j])
    OBVIOUS
  <2>6. parse(w, domain) = p
    BY <2>1, <2>3, <2>4, <2>5, ReadsBack
  <2>q. QED BY <2>2, <2>6
<1>q. QED BY <1>1, ErrorInvariant, PTL

(* What other domains' ErrorInfos say, or whether something that is none   *)
(* stands in their place, changes nothing for the client                   *)
(* (ErrorProfile::parse, parse_error).                                     *)
THEOREM OthersDoNotCountHolds == ErrorSpec => []OthersDoNotCount
<1>1. ErrorInv => OthersDoNotCount
  <2> SUFFICES ASSUME ErrorInv, error # Nothing, error.data # Bad,
                      NEW x \in Details, ~IsInfo(x, domain), ~IsLink(x)
               PROVE  LET Ours(y) == y.type # "ErrorInfo" \/ y.domain = domain
                          e == [error EXCEPT !.data = [i \in DOMAIN @ |-> IF Ours(@[i]) THEN @[i] ELSE x]]
                      IN  parse_error(e, domain) = parse_error(error, domain)
    BY DEF OthersDoNotCount
  <2> DEFINE Ours(y) == y.type # "ErrorInfo" \/ y.domain = domain
             d == [i \in DOMAIN error.data |-> IF Ours(error.data[i]) THEN error.data[i] ELSE x]
             e == [error EXCEPT !.data = d]
  <2>1. error \in WireErrors /\ error.data \in Seq(AllDetails)
    BY DEF ErrorInv, WireErrors
  <2>2. d \in Seq(AllDetails) /\ d # Bad
    <3>1. d \in [1..Len(error.data) -> AllDetails]
      BY <2>1 DEF AllDetails
    <3>q. QED BY <2>1, <3>1, ExtensionAssumption
  <2>3. e.data = d /\ e.code = error.code /\ e.message = error.message
    BY <2>1 DEF WireErrors
  <2>4. Items(e) = d /\ Items(error) = error.data
    BY <2>2, <2>3 DEF Items
  <2>5. \A i \in DOMAIN error.data : ~Ours(error.data[i]) =>
          ~IsInfo(error.data[i], domain) /\ ~IsLink(error.data[i])
    BY DEF IsInfo, IsLink
  <2>6. /\ Infos(e, domain) = Infos(error, domain) /\ Links(e) = Links(error)
        /\ \A i \in Infos(error, domain) \cup Links(error) : Items(e)[i] = Items(error)[i]
    BY <2>4, <2>5 DEF Infos, Links
  <2> HIDE DEF d, e
  <2>7. \A S : S # {} /\ S \in SUBSET Nat => FirstOf(S) \in S
    BY LeastNatural DEF FirstOf
  <2>8. Infos(error, domain) \in SUBSET Nat /\ Links(error) \in SUBSET Nat
    BY <2>1, <2>4 DEF Infos, Links
  <2>9. parse(e, domain) = parse(error, domain)
    <3>1. CASE Infos(error, domain) = {}
      BY <2>3, <2>6, <3>1 DEF parse
    <3>2. CASE Infos(error, domain) # {}
      <4> DEFINE info == Items(error)[FirstOf(Infos(error, domain))]
      <4>1. Items(e)[FirstOf(Infos(error, domain))] = info
        BY <2>6, <2>7, <2>8, <3>2
      <4>2. CASE Links(error) = {}
        <5>1. \A u, v : Meaning(e, info, {}, u) = Meaning(error, info, {}, v)
          BY <2>3 DEF Meaning
        <5>q. QED BY <2>3, <2>6, <4>1, <4>2, <5>1 DEF parse
      <4>3. CASE Links(error) # {}
        <5>1. Items(e)[FirstOf(Links(error))] = Items(error)[FirstOf(Links(error))]
          BY <2>6, <2>7, <2>8, <4>3
        <5>2. \A u : Meaning(e, info, Links(error), u) = Meaning(error, info, Links(error), u)
          BY <2>3 DEF Meaning
        <5>q. QED BY <2>3, <2>6, <4>1, <5>1, <5>2 DEF parse
      <4>q. QED BY <4>2, <4>3
    <3>q. QED BY <3>1, <3>2
  <2>q. QED BY <2>9 DEF parse_error, e, d
<1>q. QED BY <1>1, ErrorInvariant, PTL
=============================================================================
