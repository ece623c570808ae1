---------------------------- MODULE MandateChain ----------------------------
(***************************************************************************)
(* Verifying a presented mandate chain                                     *)
(* (crates/a2a-gov-mandate/src/chain.rs, with jws.rs and sdjwt.rs).        *)
(*                                                                         *)
(* Cryptography is symbolic: SHA-256 has no collisions, so a digest is the *)
(* value it is taken of, and an ES256 signature verifies exactly under the *)
(* key that made it.  A JWT's signing input is named by a hop id; `signed` *)
(* says what each signing input contains, or None if it does not decode.   *)
(*                                                                         *)
(*   segment  [id, sig, shown]: the signing input's name, the signature    *)
(*            [key, form] (ECDSA gives each signature a second form that   *)
(*            verifies too), and the sequence of disclosures alongside;    *)
(*   chain    [segs, bytes, terminated]: the text between the "~~"s, its   *)
(*            length, and whether it ends in "~".                          *)
(*                                                                         *)
(* signed[id] has the header fields alg, crit, typ and kid, the claims     *)
(* exp, iat, nbf, aud, nonce, sd_hash, issuer_jwt_hash and sd_alg, the     *)
(* elements of delegate_payload, and the set `disclosable` of the places   *)
(* that hold a digest: 0 for the mandate itself, k for its k-th            *)
(* constraint.  A mandate has vct, cnf, exp, iat, nbf and constraints, and *)
(* a closed one method, task_id and authorization_details.                 *)
(***************************************************************************)
EXTENDS Constraints, FiniteSets

CONSTANTS
  signed,           \* what each signing input contains
  PublicKeys,       \* the JWKs that are valid P-256 public keys
  single,           \* StaticSurfaces: the one trusted key, or None
  by_kid,           \* StaticSurfaces: trusted keys by `kid`
  MAX_CHAIN_BYTES,
  MAX_HOPS,
  I64_MAX           \* the largest integer of the clock and the claims

Errors == {"Malformed", "UnsupportedAlgorithm", "InvalidKey", "UnknownIssuer",
           "BadSignature", "Disclosure", "Binding", "Chain", "Expired",
           "NotYetValid", "Stale", "Audience", "Nonce"}

ASSUME MandateChainAssumption ==
  /\ None \notin Errors
  /\ MAX_CHAIN_BYTES \in Nat
  /\ MAX_HOPS \in Nat
  /\ I64_MAX \in Nat

(* JSON arrays are finite, and a number read as u64 is a natural. *)
ASSUME SignedAssumption ==
  \A id \in DOMAIN signed :
    (/\ signed[id] # None
     /\ signed[id].delegate_payload # None
     /\ Len(signed[id].delegate_payload) = 1
     /\ signed[id].delegate_payload[1] # Bad) =>
       LET m == signed[id].delegate_payload[1]
       IN  /\ "constraints" \in DOMAIN m
           /\ m.constraints \notin {None, Bad} =>
                /\ m.constraints = [k \in DOMAIN m.constraints |-> m.constraints[k]]
                /\ IsFiniteSet(DOMAIN m.constraints)
                /\ \A k \in DOMAIN m.constraints :
                     m.constraints[k].type = "access.max_uses" =>
                       m.constraints[k].value \in Nat \cup {Bad}

(* Two's complement. *)
I64_MIN == -I64_MAX - 1

ROOT_TYPS == {"dc+sd-jwt", "example+sd-jwt"}
TYP_CLOSING == "kb+sd-jwt"
TYP_DELEGATION == "kb+sd-jwt+kb"

(* Rust's `?`: the first check's error, or else what follows it gives. *)
a ?? b == IF a # None THEN a ELSE b

Check(ok, error) == IF ok THEN None ELSE error

Ok == [ok |-> TRUE]
Err(e) == [ok |-> FALSE, error |-> e]

(* Mutant: two's complement wraps around. *)
Wrap(n) == I64_MIN + ((n - I64_MIN) % (I64_MAX - I64_MIN + 1))

(* i64::saturating_add and saturating_sub. *)
Saturate(n) == IF n > I64_MAX THEN I64_MAX ELSE IF n < I64_MIN THEN I64_MIN ELSE n
saturating_add(a, b) == Saturate(a + b)
saturating_sub(a, b) == Saturate(a - b)

(* The digest of the signing input alone, without the signature. *)
hop_id(seg) == seg.id

---------------------------------------------------------------------------
(* Selective disclosure: what a segment reveals of what was signed. *)

Shown(seg) == {seg.shown[k] : k \in DOMAIN seg.shown}

Withheld(seg) == signed[seg.id].disclosable \ Shown(seg)

(* Mutant: a disclosure may be left out, as in plain SD-JWT. *)
ResolvePartially(seg) ==
  Check(Shown(seg) \subseteq signed[seg.id].disclosable, "Disclosure")

(* Every disclosure once, referenced by a digest, and none held back. *)
resolve(seg) ==
  Check(/\ signed[seg.id].sd_alg \in {None, "sha-256"}
        /\ \A j, k \in DOMAIN seg.shown : seg.shown[j] = seg.shown[k] => j = k
        /\ Shown(seg) \subseteq signed[seg.id].disclosable
        /\ Withheld(seg) = {},
        "Disclosure")

(* An array element whose disclosure is missing is dropped. *)
RevealedConstraints(cs, hidden) ==
  IF cs \in {None, Bad} THEN cs ELSE [k \in DOMAIN cs \ hidden |-> cs[k]]

single_mandate(seg) ==
  LET items == signed[seg.id].delegate_payload
  IN  Check(items # None /\ 0 \notin Withheld(seg) /\ Len(items) = 1 /\ items[1] # Bad,
            "Chain")

Mandate(seg) ==
  LET m == signed[seg.id].delegate_payload[1]
  IN  [m EXCEPT !.constraints = RevealedConstraints(@, Withheld(seg))]

---------------------------------------------------------------------------
(* The checks of one hop. *)

(* A segment here is a record with a JWT and whole disclosures.  A text may *)
(* have a segment without a JWT (chain.rs:185, in ChainText.split_text) or  *)
(* with an empty disclosure (chain.rs:150): these checks cannot fail here.  *)
split_error(chain) ==
  Check(chain.bytes <= MAX_CHAIN_BYTES, "Malformed")
    ?? Check(Len(chain.segs) <= MAX_HOPS, "Chain")
    ?? Check(Len(chain.segs) >= 2, "Chain")
    ?? Check(chain.terminated, "Malformed")

kind(i, typ) ==
  IF i = 1 THEN "Root" ELSE IF typ = TYP_CLOSING THEN "Closing" ELSE "Delegation"

typ_error(i, typ) ==
  Check(typ \in IF i = 1 THEN ROOT_TYPS ELSE {TYP_CLOSING, TYP_DELEGATION}, "Chain")

(* StaticSurfaces.key_for: None when the issuer is not trusted. *)
key_for(kid) ==
  IF single # None THEN single
  ELSE IF kid \in DOMAIN by_kid THEN by_kid[kid] ELSE None

(* The key a hop must be signed with: the surface's, or the previous cnf. *)
HopKey(segs, i) ==
  IF i = 1 THEN key_for(signed[segs[1].id].kid) ELSE Mandate(segs[i - 1]).cnf

bound_key(cnf) ==
  Check(cnf \notin {None, Bad}, "Chain") ?? Check(cnf \in PublicKeys, "InvalidKey")

key_error(segs, i) ==
  IF i = 1 THEN Check(HopKey(segs, 1) # None, "UnknownIssuer")
  ELSE bound_key(HopKey(segs, i))

jws_verify(seg, key) ==
  Check(signed[seg.id].alg = "ES256", "UnsupportedAlgorithm")
    ?? Check(~signed[seg.id].crit, "Malformed")
    ?? Check(seg.sig.key = key, "BadSignature")

(* An absent time is no restriction; one that is no integer is an error. *)
check_times(m, opts) ==
  LET horizon == saturating_add(opts.now, opts.clock_skew)
      started(t) == Check(t # Bad, "Malformed")
                      ?? Check(t = None \/ t <= horizon, "NotYetValid")
  IN  Check(m.exp # Bad, "Malformed")
        ?? Check(m.exp = None \/ opts.now <= saturating_add(m.exp, opts.clock_skew), "Expired")
        ?? started(m.iat)
        ?? started(m.nbf)

(* Exactly one of the two hashes, of the segment or of the JWT alone. *)
check_binding(claims, prev) ==
  Check(\/ claims.sd_hash = prev /\ claims.issuer_jwt_hash = None
        \/ claims.sd_hash = None /\ claims.issuer_jwt_hash = [id |-> prev.id, sig |-> prev.sig],
        "Binding")

(* iat is there and an integer: the checks before this one saw to that. *)
check_closing(claims, opts) ==
  Check(claims.aud = opts.aud, "Audience")
    ?? Check(claims.nonce = opts.nonce, "Nonce")
    ?? Check(saturating_sub(opts.now, claims.iat) <= opts.max_closing_age, "Stale")

(* The hop's kind, its place and its cnf must fit. *)
role_error(k, isLast, claims, m, opts) ==
  IF k = "Closing" /\ isLast /\ m.cnf = None THEN check_closing(claims, opts)
  ELSE Check(k = "Delegation" /\ ~isLast /\ m.cnf # None, "Chain")

check_open_mandate(m) ==
  Check(m.vct \notin {None, Bad}, "Chain")
    ?? Check(m.cnf \notin {None, Bad}, "Chain")
    ?? Check(m.exp \notin {None, Bad}, "Chain")

(* Hop i, given that the hops before it verified. *)
hop_error(segs, i, opts) ==
  LET seg == segs[i]
      jwt == signed[seg.id]
  IN  Check(jwt # None, "Malformed")
        ?? typ_error(i, jwt.typ)
        ?? key_error(segs, i)
        ?? jws_verify(seg, HopKey(segs, i))
        ?? resolve(seg)
        ?? single_mandate(seg)
        ?? check_times(jwt, opts)
        ?? check_times(Mandate(seg), opts)
        ?? IF i = 1 THEN check_open_mandate(Mandate(seg))
           ELSE check_binding(jwt, segs[i - 1])
                  ?? Check(jwt.iat # None, "Malformed")
                  ?? role_error(kind(i, jwt.typ), i = Len(segs), jwt, Mandate(seg), opts)
                  ?? Check(Mandate(seg).vct = Mandate(segs[1]).vct, "Chain")

---------------------------------------------------------------------------
(* The error of the first hop that fails; later hops are never looked at. *)
verify_chain(chain, opts) ==
  LET first == CHOOSE i \in DOMAIN chain.segs :
                 /\ \A j \in 1..(i - 1) : hop_error(chain.segs, j, opts) = None
                 /\ hop_error(chain.segs, i, opts) # None
  IN  IF split_error(chain) # None THEN Err(split_error(chain))
      ELSE IF \A i \in DOMAIN chain.segs : hop_error(chain.segs, i, opts) = None THEN Ok
      ELSE Err(hop_error(chain.segs, first, opts))

(* The hops of a chain that verified. *)
VerifiedHops(chain) ==
  [i \in DOMAIN chain.segs |->
     [id      |-> hop_id(chain.segs[i]),
      kind    |-> kind(i, signed[chain.segs[i].id].typ),
      mandate |-> Mandate(chain.segs[i])]]
=============================================================================
