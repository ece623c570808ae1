------------------------------ MODULE MCEngine ------------------------------
(***************************************************************************)
(* Small instances of Engine: a surface key S, two agents' keys A and B,   *)
(* one open mandate m for A, its delegation d to B, and the closing hops   *)
(* the agents sign for the nonces n1, n2, n3.                              *)
(***************************************************************************)
EXTENDS Engine, SequencesExt

C(type, value) == [type |-> type, value |-> value]

TheCall == [method |-> "SendMessage", task_id |-> "t1", purpose |-> None,
            release |-> "answer-only", authorization_details |-> <<[type |-> "health"]>>]
OtherCall == [TheCall EXCEPT !.task_id = "t2"]
RecordsCall == [TheCall EXCEPT !.release = "records"]

(* A mandate that opens or delegates, and one that closes. *)
Authority(key, cs) ==
  [vct |-> "mandate.access.1", cnf |-> key, exp |-> 1, iat |-> 0, nbf |-> None,
   constraints |-> cs, method |-> None, task_id |-> None, authorization_details |-> None]
Closed ==
  [Authority(None, None) EXCEPT !.exp = None, !.method = TheCall.method,
     !.task_id = TheCall.task_id, !.authorization_details = TheCall.authorization_details]

Jwt(typ, m, disclosable) ==
  [alg |-> "ES256", crit |-> FALSE, typ |-> typ, kid |-> "surface-1",
   exp |-> None, iat |-> 0, nbf |-> None, aud |-> None, nonce |-> None,
   sd_hash |-> None, issuer_jwt_hash |-> None, sd_alg |-> "sha-256",
   delegate_payload |-> <<m>>, disclosable |-> disclosable]

Bound(jwt, prev, nonce) ==
  [jwt EXCEPT !.aud = "vault", !.nonce = nonce, !.sd_hash = prev]

Seg(id, key, shown) == [id |-> id, sig |-> [key |-> key, form |-> "s"], shown |-> shown]
Twin(seg) == [seg EXCEPT !.sig.form = "n-s"]

(* m: two uses at most, one delegation, answers only; its first and third  *)
(* constraints are disclosures of their own.  d: one use.  w states its    *)
(* limit twice.                                                            *)
M == Seg("m", "S", <<0, 1, 3>>)
MPartial == Seg("m", "S", <<0>>)
D == Seg("d", "A", <<0>>)
U == Seg("u", "S", <<0>>)
W == Seg("w", "S", <<0>>)

Closing(prev, nonce) == Bound(Jwt(TYP_CLOSING, Closed, {0}), prev, nonce)

MCsigned ==
  [id \in {"m", "d", "u", "w", "a1", "a2", "b2", "b3", "t2", "p2", "e3", "u1", "w1", "w2"} |->
     CASE id = "m" -> Jwt("dc+sd-jwt", Authority("A", <<C("access.max_uses", 2),
                          C("access.delegation", 1), C("access.release", "answer-only")>>), {0, 1, 3})
       [] id = "d" -> Bound(Jwt(TYP_DELEGATION,
                          Authority("B", <<C("access.max_uses", 1)>>), {0}), M, "n0")
       [] id = "u" -> Jwt("dc+sd-jwt", Authority("A", <<C("access.hours", "nine-to-five")>>), {0})
       [] id = "w" -> Jwt("dc+sd-jwt", Authority("A", <<C("access.max_uses", 2),
                          C("access.max_uses", 3)>>), {0})
       [] id = "a1" -> Closing(M, "n1")
       [] id = "a2" -> Closing(M, "n2")
       [] id = "b2" -> Closing(D, "n2")
       [] id = "b3" -> Closing(D, "n3")
       [] id = "t2" -> Closing(Twin(M), "n2")
       [] id = "p2" -> Closing(MPartial, "n2")
       [] id = "e3" -> [Closing(M, "n3") EXCEPT !.aud = "elsewhere"]
       [] id = "u1" -> Closing(U, "n1")
       [] id = "w1" -> Closing(W, "n1")
       [] id = "w2" -> Closing(W, "n2")]

Chain(segs) == [segs |-> segs, bytes |-> Len(segs), terminated |-> TRUE]
Present(segs, nonce) == [chain |-> Chain(segs), aud |-> "vault", nonce |-> nonce]

MCpresentation ==
  [r \in {"direct1", "direct2", "delegated2", "delegated3", "twin2", "partial2",
          "astray3", "unknown1", "twice1", "twice2", "other1", "records1", "none"} |->
     CASE r \in {"direct1", "other1", "records1"} -> Present(<<M, Seg("a1", "A", <<0>>)>>, "n1")
       [] r = "direct2"    -> Present(<<M, Seg("a2", "A", <<0>>)>>, "n2")
       [] r = "delegated2" -> Present(<<M, D, Seg("b2", "B", <<0>>)>>, "n2")
       [] r = "delegated3" -> Present(<<M, D, Seg("b3", "B", <<0>>)>>, "n3")
       [] r = "twin2"      -> Present(<<Twin(M), Seg("t2", "A", <<0>>)>>, "n2")
       [] r = "partial2"   -> Present(<<MPartial, Seg("p2", "A", <<0>>)>>, "n2")
       [] r = "astray3"    -> Present(<<M, Seg("e3", "A", <<0>>)>>, "n3")
       [] r = "unknown1"   -> Present(<<U, Seg("u1", "A", <<0>>)>>, "n1")
       [] r = "twice1"     -> Present(<<W, Seg("w1", "A", <<0>>)>>, "n1")
       [] r = "twice2"     -> Present(<<W, Seg("w2", "A", <<0>>)>>, "n2")
       [] r = "none"       -> None]

MCcall == [r \in DOMAIN MCpresentation |->
             CASE r = "other1" -> OtherCall
               [] r \in {"records1", "partial2"} -> RecordsCall
               [] OTHER -> TheCall]

MCbyKid == [k \in {"surface-1"} |-> "S"]
=============================================================================
