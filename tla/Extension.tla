----------------------------- MODULE Extension -----------------------------
(***************************************************************************)
(* The extension's error profile: crates/a2a-gov-extension/src/errors.rs,  *)
(* and the Python agent's view of it (bindings/python).  A gateway refuses *)
(* or pauses a call with a JSON-RPC error; on its way to the client other  *)
(* services may add error details of their own, or answer instead.         *)
(***************************************************************************)
EXTENDS Integers, Sequences

CONSTANTS
  Nothing,      \* no error
  Bad,          \* a JSON member that is absent or of another type
  domain,       \* the issuer the client's ErrorProfile names
  OtherDomain,
  Messages,
  Ids,          \* challenge ids
  HttpsUrls,    \* absolute https URLs
  OtherUrls,
  Reasons,      \* what the ErrorInfos of other services say
  MaxDetails    \* bound on the details of an error

VARIABLES
  error,   \* the JSON-RPC error object on its way
  raised,  \* history: the GovernanceError it began as, or Nothing
  front    \* history: the details put in front of its own

error_vars == <<error, raised, front>>

DENY_CODE == -31000
CHALLENGE_CODE == -31001

---------------------------------------------------------------------------
(* DenyReason, ChallengeReason: as_str and parse. *)

DenyReason ==
  [Denied |-> "DENIED", InvalidCredential |-> "INVALID_CREDENTIAL",
   InvalidMandate |-> "INVALID_MANDATE", MandatesNotSupported |-> "MANDATES_NOT_SUPPORTED"]

ChallengeReason ==
  [UnresolvedConstraint |-> "UNRESOLVED_CONSTRAINT", ApprovalRequired |-> "APPROVAL_REQUIRED"]

Named(reasons, s) == {r \in DOMAIN reasons : reasons[r] = s}
TheOne(S) == CHOOSE x \in S : TRUE

(* GovernanceError *)
deny(reason, message) == [type |-> "Deny", reason |-> reason, message |-> message]

is_https_url(url) == url \in HttpsUrls

challenge(reason, message, id, url) ==
  IF ~is_https_url(url) THEN Nothing
  ELSE [type |-> "Challenge", reason |-> reason, message |-> message,
        challenge_id |-> id, url |-> url]

---------------------------------------------------------------------------
(* The wire.  Details are google.rpc messages. *)

error_info(reason, d, id) ==
  [type |-> "ErrorInfo", reason |-> reason, domain |-> d, challengeId |-> id]

Help(url) == [type |-> "Help", url |-> url]
DebugInfo == [type |-> "DebugInfo"]

JsonRpc(code, message, data) == [code |-> code, message |-> message, data |-> data]

(* Mutant: the challenge id goes with the help link only. *)
WithoutId(e, d) ==
  IF e.type = "Deny"
  THEN JsonRpc(DENY_CODE, e.message, <<error_info(DenyReason[e.reason], d, Bad)>>)
  ELSE JsonRpc(CHALLENGE_CODE, e.message,
               <<error_info(ChallengeReason[e.reason], d, Bad), Help(e.url)>>)

to_json_rpc_error(e, d) ==
  IF e.type = "Deny"
  THEN JsonRpc(DENY_CODE, e.message, <<error_info(DenyReason[e.reason], d, Bad)>>)
  ELSE JsonRpc(CHALLENGE_CODE, e.message,
               <<error_info(ChallengeReason[e.reason], d, e.challenge_id), Help(e.url)>>)

(* Mutant: the issuer is not looked at. *)
AnyInfo(x, d) == x.type = "ErrorInfo"

IsInfo(x, d) == x.type = "ErrorInfo" /\ x.domain = d
IsLink(x) == x.type = "Help" /\ x.url # Bad

Items(e) == IF e.data = Bad THEN <<>> ELSE e.data
Infos(e, d) == {i \in DOMAIN Items(e) : IsInfo(Items(e)[i], d)}
Links(e) == {i \in DOMAIN Items(e) : IsLink(Items(e)[i])}

FirstOf(S) == CHOOSE i \in S : \A j \in S : i <= j
LastOf(S) == CHOOSE i \in S : \A j \in S : j <= i

(* The error that code, message, an ErrorInfo and the links make. *)
Meaning(e, info, links, url) ==
  IF e.code = DENY_CODE /\ Named(DenyReason, info.reason) # {}
  THEN deny(TheOne(Named(DenyReason, info.reason)), e.message)
  ELSE IF /\ e.code = CHALLENGE_CODE
          /\ Named(ChallengeReason, info.reason) # {}
          /\ info.challengeId # Bad
          /\ links # {}
  THEN challenge(TheOne(Named(ChallengeReason, info.reason)), e.message, info.challengeId, url)
  ELSE Nothing

(* Mutant: a later detail overrides an earlier one. *)
ParseLast(e, d) ==
  IF e.message = Bad \/ Infos(e, d) = {} THEN Nothing
  ELSE Meaning(e, Items(e)[LastOf(Infos(e, d))], Links(e), Items(e)[LastOf(Links(e))].url)

(* ErrorProfile::parse: of several details the first that qualifies. *)
parse(e, d) ==
  IF e.message = Bad \/ Infos(e, d) = {} THEN Nothing
  ELSE Meaning(e, Items(e)[FirstOf(Infos(e, d))], Links(e), Items(e)[FirstOf(Links(e))].url)

(* parse_error of the Python package: reasons are strings there. *)
parse_error(e, d) ==
  LET p == parse(e, d)
  IN  IF p = Nothing THEN Nothing
      ELSE IF p.type = "Deny" THEN [p EXCEPT !.reason = DenyReason[@]]
      ELSE [p EXCEPT !.reason = ChallengeReason[@]]

---------------------------------------------------------------------------
ErrorInit == error = Nothing /\ raised = Nothing /\ front = {}

(* A refusal, or a pause for approval: an InvalidUrl is not sent. *)
Raise(e) ==
  /\ error = Nothing
  /\ e # Nothing
  /\ error' = to_json_rpc_error(e, domain)
  /\ raised' = e
  /\ UNCHANGED front

Refuse == \E r \in DOMAIN DenyReason, m \in Messages : Raise(deny(r, m))

Pause ==
  \E r \in DOMAIN ChallengeReason, m \in Messages, id \in Ids, u \in HttpsUrls \cup OtherUrls :
    Raise(challenge(r, m, id, u))

Details == {DebugInfo} \cup {Help(u) : u \in HttpsUrls \cup OtherUrls \cup {Bad}}
             \cup {error_info(r, d, id) : r \in Reasons, d \in {domain, OtherDomain}, id \in Ids \cup {Bad}}

(* An error of another service, or none of this profile's shapes. *)
Foreign ==
  /\ error = Nothing
  /\ \E code \in {DENY_CODE, CHALLENGE_CODE, -32001, Bad}, m \in Messages \cup {Bad}, x, y \in Details :
       error' \in {JsonRpc(code, m, Bad), JsonRpc(code, m, <<x, y>>)}
  /\ UNCHANGED <<raised, front>>

(* A service on the way adds a detail, behind the others or before them. *)
AddBehind(x) ==
  /\ raised # Nothing /\ Len(error.data) < MaxDetails
  /\ error' = [error EXCEPT !.data = Append(@, x)]
  /\ UNCHANGED <<raised, front>>

AddInFront(x) ==
  /\ raised # Nothing /\ Len(error.data) < MaxDetails
  /\ error' = [error EXCEPT !.data = <<x>> \o @]
  /\ front' = front \cup {x}
  /\ UNCHANGED raised

ErrorNext ==
  \/ Refuse \/ Pause \/ Foreign
  \/ \E x \in Details : AddBehind(x) \/ AddInFront(x)

ErrorSpec == ErrorInit /\ [][ErrorNext]_error_vars
---------------------------------------------------------------------------
GovernanceErrors ==
  {deny(r, m) : r \in DOMAIN DenyReason, m \in Messages} \cup
  {challenge(r, m, id, u) : r \in DOMAIN ChallengeReason, m \in Messages, id \in Ids, u \in HttpsUrls}

OwnReasons == {DenyReason[r] : r \in DOMAIN DenyReason} \cup {ChallengeReason[r] : r \in DOMAIN ChallengeReason}

OwnDetails ==
  {error_info(r, domain, id) : r \in OwnReasons, id \in Ids \cup {Bad}} \cup {Help(u) : u \in HttpsUrls}

AllDetails == Details \cup OwnDetails

WireErrors ==
  [code : {DENY_CODE, CHALLENGE_CODE, -32001, Bad}, message : Messages \cup {Bad},
   data : Seq(AllDetails) \cup {Bad}]

(* Nothing is no error, and Bad nothing that a member of one may hold. *)
ASSUME ExtensionAssumption ==
  /\ MaxDetails \in Nat
  /\ Nothing \notin GovernanceErrors \cup WireErrors
  /\ Bad \notin OwnReasons \cup Messages \cup Ids \cup HttpsUrls
  /\ Bad \notin Seq(AllDetails)

(* What the gateway raised is what the client reads, whatever details were *)
(* added on the way, unless one of the same domain or another link was put *)
(* in front of its own (ErrorProfile::parse picks the first of each).      *)
RaisedIsRead ==
  raised # Nothing /\ (\A x \in front : ~IsInfo(x, domain) /\ ~IsLink(x))
    => parse(error, domain) = raised

(* Whatever the client accepts, of whatever origin, survives being sent    *)
(* on: the error object made of it is read as the same error               *)
(* (to_json_rpc_error and parse).                                          *)
ReadIsStable ==
  error # Nothing =>
    LET p == parse(error, domain)
    IN  p # Nothing => parse(to_json_rpc_error(p, domain), domain) = p

(* A client never acts for one issuer on what another said: it reads the   *)
(* same whatever stands in the place of the other domains' ErrorInfos, as  *)
(* long as that is no ErrorInfo of its own domain and no link              *)
(* (ErrorProfile::parse, parse_error).                                     *)
OthersDoNotCount ==
  error # Nothing /\ error.data # Bad =>
    LET Ours(x) == x.type # "ErrorInfo" \/ x.domain = domain
        Resaid(x) == [error EXCEPT !.data = [i \in DOMAIN @ |-> IF Ours(@[i]) THEN @[i] ELSE x]]
    IN  \A x \in {y \in Details : ~IsInfo(y, domain) /\ ~IsLink(y)} :
          parse_error(Resaid(x), domain) = parse_error(error, domain)
=============================================================================
