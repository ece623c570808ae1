---------------------------- MODULE EngineProofs ----------------------------
(***************************************************************************)
(* Proofs about Engine, for any number of threads, nonces, requests, hops, *)
(* constraints and calls.                                                  *)
(***************************************************************************)
EXTENDS Engine, FiniteSetTheorems, WellFoundedInduction, TLAPS

(* A request whose chain has verified, at whatever time. *)
Verified(r) ==
  /\ r \in Requests
  /\ presentation[r] # None
  /\ \E n \in Int : verify_chain(presentation[r].chain, Opts(r, n)).ok

Segs(r) == presentation[r].chain.segs

---------------------------------------------------------------------------
(* What verify_chain establishes. *)

(* `a ?? b` succeeds only if both parts do. *)
LEMMA BothSucceed ==
  ASSUME NEW a, NEW b, (a ?? b) = None
  PROVE  a = None /\ b = None
BY DEF ??

(* A check succeeds only if its condition holds. *)
LEMMA CheckHolds ==
  ASSUME NEW ok, NEW e, e # None, Check(ok, e) = None
  PROVE  ok
BY DEF Check

(* The facts about hop i that the proofs below need. *)
LEMMA HopVerified ==
  ASSUME NEW segs, NEW i, NEW opts,
         hop_error(segs, i, opts) = None
  PROVE  /\ signed[segs[i].id] # None
         /\ typ_error(i, signed[segs[i].id].typ) = None
         /\ resolve(segs[i]) = None
         /\ single_mandate(segs[i]) = None
         /\ i # 1 =>
              /\ check_binding(signed[segs[i].id], segs[i - 1]) = None
              /\ role_error(kind(i, signed[segs[i].id].typ), i = Len(segs),
                            signed[segs[i].id], Mandate(segs[i]), opts) = None
<1> DEFINE jwt  == signed[segs[i].id]
           e1   == Check(jwt # None, "Malformed")
           e2   == typ_error(i, jwt.typ)
           e3   == key_error(segs, i)
           e4   == jws_verify(segs[i], HopKey(segs, i))
           e5   == resolve(segs[i])
           e6   == single_mandate(segs[i])
           e7   == check_times(jwt, opts)
           e8   == check_times(Mandate(segs[i]), opts)
           b1   == check_binding(jwt, segs[i - 1])
           b2   == Check(jwt.iat # None, "Malformed")
           b3   == role_error(kind(i, jwt.typ), i = Len(segs), jwt, Mandate(segs[i]), opts)
           b4   == Check(Mandate(segs[i]).vct = Mandate(segs[1]).vct, "Chain")
           e9   == IF i = 1 THEN check_open_mandate(Mandate(segs[i]))
                   ELSE b1 ?? b2 ?? b3 ?? b4
<1>1. (e1 ?? e2 ?? e3 ?? e4 ?? e5 ?? e6 ?? e7 ?? e8 ?? e9) = None
  BY DEF hop_error
<1> HIDE DEF e1, e2, e3, e4, e5, e6, e7, e8, e9
<1>2. (e1 ?? e2 ?? e3 ?? e4 ?? e5 ?? e6) = None /\ e9 = None
  BY <1>1, BothSucceed
<1>3. e1 = None /\ e2 = None /\ e5 = None /\ e6 = None
  BY <1>2, BothSucceed
<1>4. ASSUME i # 1 PROVE b1 = None /\ b3 = None
  <2> HIDE DEF b1, b2, b3, b4
  <2>1. (b1 ?? b2 ?? b3 ?? b4) = None
    BY <1>2, <1>4 DEF e9
  <2> QED BY <2>1, BothSucceed
<1>5. "Malformed" # None
  BY MandateChainAssumption DEF Errors
<1> QED BY <1>3, <1>4, <1>5, CheckHolds DEF e1, e2, e5, e6

(* The mandate signed into a hop, for hops that verified. *)
SignedMandate(m) == signed[m].delegate_payload[1]

(* A hop that passed resolve and single_mandate carries the signed mandate, whole. *)
LEMMA HopContent ==
  ASSUME NEW seg, seg.id \in HopIds,
         signed[seg.id] # None, resolve(seg) = None, single_mandate(seg) = None
  PROVE  /\ Mandate(seg).constraints = SignedMandate(seg.id).constraints
         /\ SignedMandate(seg.id).constraints \notin {None, Bad} =>
              /\ IsFiniteSet(DOMAIN SignedMandate(seg.id).constraints)
              /\ \A k \in SignedLimits(seg.id) : SignedLimit(seg.id, k) \in Nat \cup {Bad}
<1>1. Withheld(seg) = {}
  BY MandateChainAssumption DEF resolve, Check, Errors
<1>2. /\ signed[seg.id].delegate_payload # None
      /\ Len(signed[seg.id].delegate_payload) = 1
      /\ signed[seg.id].delegate_payload[1] # Bad
  BY MandateChainAssumption DEF single_mandate, Check, Errors
<1> DEFINE m == SignedMandate(seg.id)
<1>3. /\ "constraints" \in DOMAIN m
      /\ m.constraints \notin {None, Bad} =>
           /\ m.constraints = [k \in DOMAIN m.constraints |-> m.constraints[k]]
           /\ IsFiniteSet(DOMAIN m.constraints)
           /\ \A k \in DOMAIN m.constraints :
                m.constraints[k].type = "access.max_uses" =>
                  m.constraints[k].value \in Nat \cup {Bad}
  BY <1>2, SignedAssumption DEF HopIds, SignedMandate
<1>4. Mandate(seg) = [m EXCEPT !.constraints = RevealedConstraints(@, {})]
  BY <1>1 DEF Mandate, SignedMandate
<1>5. RevealedConstraints(m.constraints, {}) = m.constraints
  BY <1>3 DEF RevealedConstraints
<1> HIDE DEF m
<1>6. Mandate(seg).constraints = m.constraints
  BY <1>3, <1>4, <1>5
<1> QED BY <1>3, <1>6 DEF SignedLimits, SignedLimit, SignedMandate, m

(* The shape of a chain that verified: at least two hops, of which the     *)
(* last and only the last closes, each with the content that was signed.   *)
LEMMA ChainVerified ==
  ASSUME NEW r, Verified(r)
  PROVE  /\ Len(Segs(r)) \in Nat /\ Len(Segs(r)) >= 2
         /\ DOMAIN Segs(r) = 1..Len(Segs(r))
         /\ DOMAIN Hops(r) = 1..Len(Segs(r))
         /\ Authorizing(r) = 1..(Len(Segs(r)) - 1)
         /\ \A i \in 1..Len(Segs(r)) :
              /\ Segs(r)[i].id \in HopIds
              /\ Hops(r)[i].id = Segs(r)[i].id
              /\ signed[Segs(r)[i].id] # None
              /\ resolve(Segs(r)[i]) = None
              /\ single_mandate(Segs(r)[i]) = None
              /\ Hops(r)[i].mandate = Mandate(Segs(r)[i])
<1>1. PICK n \in Int : verify_chain(presentation[r].chain, Opts(r, n)).ok
  BY DEF Verified
<1>2. /\ split_error(presentation[r].chain) = None
      /\ \A i \in DOMAIN Segs(r) : hop_error(Segs(r), i, Opts(r, n)) = None
  BY <1>1 DEF verify_chain, Ok, Err, Segs
<1> DEFINE S == [id : HopIds, sig : [key : PublicKeys, form : {"s", "n-s"}], shown : Seq(Nat)]
<1>3. Segs(r) \in Seq(S)
  BY EngineAssumption DEF Verified, Segs, S
<1> HIDE DEF S
<1>4. /\ Len(Segs(r)) \in Nat
      /\ DOMAIN Segs(r) = 1..Len(Segs(r))
      /\ \A i \in 1..Len(Segs(r)) : Segs(r)[i] \in S
  BY <1>3
<1>5. Check(Len(Segs(r)) >= 2, "Chain") = None
  BY <1>2, BothSucceed DEF split_error, Segs
<1>6. Len(Segs(r)) >= 2
  BY <1>5, MandateChainAssumption DEF Check, Errors
<1>7. ASSUME NEW i \in 1..Len(Segs(r))
      PROVE  /\ Segs(r)[i].id \in HopIds
             /\ Hops(r)[i].id = Segs(r)[i].id
             /\ Hops(r)[i].mandate = Mandate(Segs(r)[i])
             /\ Hops(r)[i].kind = kind(i, signed[Segs(r)[i].id].typ)
             /\ signed[Segs(r)[i].id] # None
             /\ resolve(Segs(r)[i]) = None
             /\ single_mandate(Segs(r)[i]) = None
             /\ i # 1 => role_error(kind(i, signed[Segs(r)[i].id].typ), i = Len(Segs(r)),
                                    signed[Segs(r)[i].id], Mandate(Segs(r)[i]),
                                    Opts(r, n)) = None
  <2>1. hop_error(Segs(r), i, Opts(r, n)) = None
    BY <1>2, <1>4
  <2>2. Segs(r)[i].id \in HopIds
    BY <1>4 DEF S
  <2>3. /\ Hops(r)[i].id = Segs(r)[i].id
        /\ Hops(r)[i].mandate = Mandate(Segs(r)[i])
        /\ Hops(r)[i].kind = kind(i, signed[Segs(r)[i].id].typ)
    BY <1>4 DEF Hops, VerifiedHops, Segs, hop_id
  <2> QED BY <2>1, <2>2, <2>3, HopVerified
<1>8. DOMAIN Hops(r) = 1..Len(Segs(r))
  BY <1>4 DEF Hops, VerifiedHops, Segs
<1>9. ASSUME NEW i \in 1..Len(Segs(r))
      PROVE  Hops(r)[i].kind = "Closing" <=> i = Len(Segs(r))
  <2>1. CASE i = 1
    BY <2>1, <1>6, <1>7 DEF kind
  <2>2. CASE i # 1
    BY <2>2, <1>7, MandateChainAssumption DEF role_error, Check, Errors, kind
  <2> QED BY <2>1, <2>2
<1>10. Authorizing(r) = 1..(Len(Segs(r)) - 1)
  <2>1. Authorizing(r) = {i \in 1..Len(Segs(r)) : Hops(r)[i].kind # "Closing"}
    BY <1>8 DEF Authorizing, authorizing_hops
  <2>2. \A i \in 1..Len(Segs(r)) : Hops(r)[i].kind # "Closing" <=> i # Len(Segs(r))
    BY <1>9
  <2>3. \A i : i \in 1..(Len(Segs(r)) - 1) <=> i \in 1..Len(Segs(r)) /\ i # Len(Segs(r))
    BY <1>4
  <2> QED BY ONLY <2>1, <2>2, <2>3
<1> QED BY <1>4, <1>6, <1>7, <1>8, <1>10

---------------------------------------------------------------------------
(* The use limits of a chain. *)

(* The values of a function on a finite set are finitely many. *)
LEMMA ImageFinite ==
  ASSUME NEW S, IsFiniteSet(S), NEW f
  PROVE  IsFiniteSet({f[x] : x \in S})
<1> DEFINE T == {f[x] : x \in S}
           g == [x \in S |-> f[x]]
<1>1. g \in Surjection(S, T)
  BY DEF Surjection
<1> HIDE DEF g
<1> QED BY <1>1, FS_Surjection

(* A chain that verified has finitely many constraints. *)
LEMMA PositionsFinite ==
  ASSUME NEW r, Verified(r)
  PROVE  IsFiniteSet(Positions(Hops(r)))
<1> DEFINE A == {h \in Authorizing(r) : Hops(r)[h].mandate.constraints \notin {None, Bad}}
           F == [i \in A |-> {i} \X DOMAIN Hops(r)[i].mandate.constraints]
<1>1. /\ Authorizing(r) = 1..(Len(Segs(r)) - 1)
      /\ Len(Segs(r)) \in Nat
  BY ChainVerified
<1>2. IsFiniteSet(A)
  <2>1. IsFiniteSet(Authorizing(r))
    BY <1>1, FS_Interval
  <2> QED BY <2>1, FS_Subset
<1>3. ASSUME NEW i \in A PROVE IsFiniteSet(F[i])
  <2>1. i \in 1..Len(Segs(r))
    BY <1>1
  <2>2. IsFiniteSet(DOMAIN Hops(r)[i].mandate.constraints)
    BY <2>1, ChainVerified, HopContent
  <2>3. IsFiniteSet({i})
    BY FS_Singleton
  <2>4. IsFiniteSet({i} \X DOMAIN Hops(r)[i].mandate.constraints)
    BY <2>2, <2>3, FS_Product
  <2> QED BY <2>4
<1>4. Positions(Hops(r)) = UNION {F[i] : i \in A}
  BY DEF Positions, Authorizing
<1> HIDE DEF A, F
<1>5. IsFiniteSet({F[i] : i \in A})
  BY <1>2, ImageFinite
<1> QED BY <1>3, <1>4, <1>5, FS_UNION

(* What is charged for a covered call: finitely many entries, each a       *)
(* positive limit of an authorizing hop, and one for every max_uses that   *)
(* was signed into one.                                                    *)
LEMMA LimitsCharged ==
  ASSUME NEW r, Verified(r), evaluate(Hops(r), call[r]).result = "Covered"
  PROVE  /\ IsFiniteSet(LimitsOf(r))
         /\ \A l \in LimitsOf(r) :
              /\ l.limit \in Nat
              /\ l.id \in HopIds
         /\ \A i \in Authorizing(r) : \A k \in SignedLimits(Segs(r)[i].id) :
              \E l \in LimitsOf(r) :
                 l.id = Segs(r)[i].id /\ l.limit = SignedLimit(Segs(r)[i].id, k)
<1> DEFINE P == OfType(Hops(r), "access.max_uses")
           entry == [p \in P |-> [id |-> Hops(r)[p[1]].id, at |-> p,
                                  limit |-> At(Hops(r), p).value]]
<1>1. /\ ~Refuses(Hops(r), call[r])
      /\ LimitsOf(r) = Limits(Hops(r))
  BY DEF evaluate, LimitsOf
<1>2. LimitsOf(r) = {entry[p] : p \in P}
  BY <1>1 DEF Limits
<1>3. IsFiniteSet(P)
  BY PositionsFinite, FS_Subset DEF OfType
<1>4. ASSUME NEW p \in P
      PROVE  /\ p[1] \in Authorizing(r)
             /\ p[1] \in 1..Len(Segs(r))
             /\ p = <<p[1], p[2]>>
             /\ Hops(r)[p[1]].mandate.constraints \notin {None, Bad}
             /\ p[2] \in DOMAIN Hops(r)[p[1]].mandate.constraints
             /\ At(Hops(r), p).type = "access.max_uses"
  BY ChainVerified DEF OfType, Positions, Authorizing
<1>5. ASSUME NEW p \in P
      PROVE  entry[p].limit \in Nat /\ entry[p].id \in HopIds
  <2> DEFINE i == p[1]
             k == p[2]
             m == Segs(r)[i].id
  <2>1. /\ m \in HopIds
        /\ Hops(r)[i].id = m
        /\ Hops(r)[i].mandate.constraints = SignedMandate(m).constraints
        /\ SignedMandate(m).constraints \notin {None, Bad} =>
             \A j \in SignedLimits(m) : SignedLimit(m, j) \in Nat \cup {Bad}
    BY <1>4, ChainVerified, HopContent
  <2>2. k \in SignedLimits(m) /\ SignedLimit(m, k) = At(Hops(r), p).value
    BY <2>1, <1>4 DEF SignedLimits, SignedLimit, SignedMandate, At
  <2>3. At(Hops(r), p).value # Bad
    BY <1>1, <1>4 DEF Refuses, max_uses, OfType
  <2> QED BY <2>1, <2>2, <2>3, <1>4
<1>6. ASSUME NEW i \in Authorizing(r), NEW k \in SignedLimits(Segs(r)[i].id)
      PROVE  \E p \in P : /\ entry[p].id = Segs(r)[i].id
                          /\ entry[p].limit = SignedLimit(Segs(r)[i].id, k)
  <2> DEFINE m == Segs(r)[i].id
             p == <<i, k>>
  <2>1. i \in 1..Len(Segs(r))
    BY ChainVerified
  <2>2. /\ Hops(r)[i].id = m
        /\ Hops(r)[i].mandate.constraints = SignedMandate(m).constraints
    BY <2>1, ChainVerified, HopContent
  <2>3. /\ SignedMandate(m).constraints \notin {None, Bad}
        /\ k \in DOMAIN SignedMandate(m).constraints
        /\ SignedMandate(m).constraints[k].type = "access.max_uses"
    BY DEF SignedLimits, SignedMandate
  <2>4. p \in P
    BY <2>2, <2>3 DEF OfType, Positions, Authorizing, At
  <2>5. entry[p].id = m /\ entry[p].limit = SignedLimit(m, k)
    BY <2>2, <2>4 DEF At, SignedLimit, SignedMandate
  <2> QED BY <2>4, <2>5
<1> HIDE DEF P, entry
<1>7. IsFiniteSet(LimitsOf(r))
  BY <1>2, <1>3, ImageFinite
<1> QED BY <1>2, <1>5, <1>6, <1>7

---------------------------------------------------------------------------
(* What a call in progress has established so far. *)
Underway ==
  \A t \in Threads :
    /\ pc[t] \in {"revocations", "evaluate", "nonce", "uses"} => Verified(req[t])
    /\ pc[t] = "revocations" => hop[t] \in 1..Len(Segs(req[t]))
    /\ pc[t] \in {"nonce", "uses"} => evaluate(Hops(req[t]), call[req[t]]).result = "Covered"

(* Counting uses: counts stay naturals, never fall, and grow by one at     *)
(* least for each hop that has a limit.                                    *)
LEMMA ChargeCounts ==
  ASSUME NEW r, Verified(r), evaluate(Hops(r), call[r]).result = "Covered",
         DOMAIN counts \subseteq HopIds, counts \in [DOMAIN counts -> Nat],
         Charge(r)
  PROVE  /\ DOMAIN counts' \subseteq HopIds
         /\ counts' \in [DOMAIN counts' -> Nat]
         /\ \A m : count(m) \in Nat /\ count(m)' \in Nat /\ count(m)' >= count(m)
         /\ \A l \in LimitsOf(r) : count(l.id)' >= count(l.id) + 1
<1> DEFINE D == DOMAIN counts \cup {l.id : l \in LimitsOf(r)}
           L(m) == {l \in LimitsOf(r) : l.id = m}
<1>1. counts' = [m \in D |-> count(m) + Cardinality(L(m))]
  BY DEF Charge
<1>2. \A m : count(m) \in Nat
  BY DEF count
<1>3. \A m : IsFiniteSet(L(m)) /\ Cardinality(L(m)) \in Nat
  BY LimitsCharged, FS_Subset, FS_CardinalityType
<1>4. ASSUME NEW l \in LimitsOf(r)
      PROVE  Cardinality(L(l.id)) >= 1
  <2>1. L(l.id) # {}
    OBVIOUS
  <2> HIDE DEF L
  <2>2. Cardinality(L(l.id)) # 0
    BY <2>1, <1>3, FS_EmptySet
  <2> QED BY <2>2, <1>3
<1>5. D \subseteq HopIds
  BY LimitsCharged
<1> HIDE DEF L, D
<1>6. DOMAIN counts' = D /\ counts' \in [D -> Nat]
  BY <1>1, <1>2, <1>3
<1>7. ASSUME NEW m
      PROVE  count(m)' \in Nat /\ count(m)' >= count(m)
  <2>1. CASE m \in D
    <3>1. count(m)' = count(m) + Cardinality(L(m))
      BY <2>1, <1>1, <1>6 DEF count
    <3> QED BY <3>1, <1>2, <1>3
  <2>2. CASE m \notin D
    <3>1. count(m) = 0 /\ count(m)' = 0
      BY <2>2, <1>6 DEF count, D
    <3> QED BY <3>1
  <2> QED BY <2>1, <2>2
<1>8. ASSUME NEW l \in LimitsOf(r)
      PROVE  count(l.id)' >= count(l.id) + 1
  <2>1. l.id \in D
    BY DEF D
  <2>2. count(l.id)' = count(l.id) + Cardinality(L(l.id))
    BY <2>1, <1>1, <1>6 DEF count
  <2> QED BY <2>2, <1>2, <1>3, <1>4
<1> QED BY <1>2, <1>5, <1>6, <1>7, <1>8

---------------------------------------------------------------------------
(* Types, and what a call in progress has established. *)

(* The engine starts well typed, with no call underway. *)
LEMMA TypeInit == Init => TypeOK /\ Underway
BY EngineAssumption DEF Init, TypeOK, Underway, Labels, HopIds

Kinds == {"Pass", "Deny", "Challenge"}

(* Ending a call, and moving on in it, concern only the thread's own state. *)
LEMMA FinishLocal ==
  ASSUME TypeOK, NEW t \in Threads, NEW d, d.kind \in Kinds, Finish(t, d)
  PROVE  /\ pc' \in [Threads -> Labels] /\ DOMAIN decision' = Threads
         /\ pc'[t] = "done" /\ decision'[t] = d
         /\ \A u \in Threads \ {t} : pc'[u] = pc[u] /\ decision'[u] = decision[u]
BY DEF TypeOK, Finish, Labels

(* Going on to the next label changes no other thread and no decision. *)
LEMMA GotoLocal ==
  ASSUME TypeOK, NEW t \in Threads, NEW l \in Labels, Goto(t, l)
  PROVE  /\ pc' \in [Threads -> Labels] /\ DOMAIN decision' = Threads
         /\ pc'[t] = l /\ decision' = decision
         /\ \A u \in Threads \ {t} : pc'[u] = pc[u]
BY DEF TypeOK, Goto, Labels

(* Every decision the engine builds is of one of the three kinds. *)
LEMMA DecisionKinds ==
  /\ \A r, p : Pass(r, p).kind \in Kinds
  /\ \A x, y : Deny(x, y).kind \in Kinds /\ Deny(x, y).kind # "Pass"
  /\ \A x : Challenge(x).kind \in Kinds /\ Challenge(x).kind # "Pass"
  /\ BackendDenied.kind \in Kinds /\ BackendDenied.kind # "Pass"
BY DEF Pass, Deny, Challenge, BackendDenied, Kinds

(* How decide() leaves its thread. *)
LEMMA DecideLocal ==
  ASSUME TypeOK, NEW t \in Threads, NEW r \in Requests, decide(t, r)
  PROVE  /\ pc' \in [Threads -> Labels] /\ DOMAIN decision' = Threads
         /\ \A u \in Threads \ {t} : pc'[u] = pc[u] /\ decision'[u] = decision[u]
         /\ \/ pc'[t] = "done" /\ decision'[t].kind \in Kinds \ {"Pass"}
            \/ pc'[t] = "revocations" /\ Verified(r)
<1>1. CASE \E d : d.kind \in Kinds \ {"Pass"} /\ Finish(t, d)
  BY <1>1, FinishLocal
<1>2. CASE /\ presentation[r] # None
           /\ verify_chain(presentation[r].chain, Opts(r, clock)).ok
           /\ Goto(t, "revocations")
  <2>1. clock \in Int
    BY EngineAssumption DEF TypeOK
  <2>2. Verified(r)
    BY <1>2, <2>1 DEF Verified
  <2> QED BY <1>2, <2>2, GotoLocal DEF Labels
<1> QED BY <1>1, <1>2, DecisionKinds DEF decide

(* How a step of a call leaves its thread. *)
LEMMA StepLocal ==
  ASSUME TypeOK, NEW t \in Threads, Step(t)
  PROVE  /\ pc' \in [Threads -> Labels] /\ DOMAIN decision' = Threads
         /\ \A u \in Threads \ {t} : /\ pc'[u] = pc[u] /\ decision'[u] = decision[u]
                                     /\ hop'[u] = hop[u]
         /\ pc[t] \in {"revocations", "evaluate", "nonce", "uses"}
         /\ pc'[t] \in {"revocations", "evaluate", "nonce", "uses", "done"}
         /\ pc'[t] = "done" => decision'[t].kind \in Kinds
         /\ pc'[t] = "done" /\ decision'[t].kind = "Pass" => pc[t] = "uses"
         /\ req' = req /\ now' = now /\ before' = before
<1>1. CASE IsRevoked(t)
  <2>1. CASE \E d : d.kind \in Kinds \ {"Pass"} /\ Finish(t, d) /\ UNCHANGED hop
    BY <1>1, <2>1, FinishLocal DEF IsRevoked, history
  <2>2. CASE Goto(t, "evaluate") /\ UNCHANGED hop
    BY <1>1, <2>2, GotoLocal DEF IsRevoked, history, Labels
  <2>3. CASE hop' = [hop EXCEPT ![t] = @ + 1] /\ UNCHANGED <<pc, decision>>
    BY <1>1, <2>3 DEF IsRevoked, history, TypeOK
  <2> QED BY <1>1, <2>1, <2>2, <2>3, DecisionKinds DEF IsRevoked
<1>2. CASE Evaluate(t)
  <2>1. CASE \E d : d.kind \in Kinds \ {"Pass"} /\ Finish(t, d)
    BY <1>2, <2>1, FinishLocal DEF Evaluate, history
  <2>2. CASE Goto(t, "nonce")
    BY <1>2, <2>2, GotoLocal DEF Evaluate, history, Labels
  <2> QED BY <1>2, <2>1, <2>2, DecisionKinds DEF Evaluate
<1>3. CASE Consume(t)
  <2>1. CASE \E d : d.kind \in Kinds \ {"Pass"} /\ Finish(t, d)
    BY <1>3, <2>1, FinishLocal DEF Consume, history
  <2>2. CASE Goto(t, "uses")
    BY <1>3, <2>2, GotoLocal DEF Consume, history, Labels
  <2> QED BY <1>3, <2>1, <2>2, DecisionKinds DEF Consume
<1>4. CASE TryConsume(t)
  <2>1. \E d : d.kind \in Kinds /\ Finish(t, d)
    BY <1>4, DecisionKinds DEF TryConsume, Granted
  <2> QED BY <1>4, <2>1, FinishLocal DEF TryConsume, Granted
<1>5. CASE BackendFails(t)
  BY <1>5, FinishLocal, DecisionKinds DEF BackendFails
<1> QED BY <1>1, <1>2, <1>3, <1>4, <1>5 DEF Step

(* Every step of the engine preserves the types. *)
LEMMA TypeStep ==
  ASSUME TypeOK, Underway, [Next]_vars
  PROVE  TypeOK'
<1>1. CASE Issue
  BY <1>1 DEF TypeOK, Issue, locals
<1>2. ASSUME NEW m \in Revocable, Revoke(m) PROVE TypeOK'
  BY <1>2, EngineAssumption DEF TypeOK, Revoke, locals
<1>3. ASSUME NEW s \in Poisonable, Poison(s) PROVE TypeOK'
  BY <1>3, EngineAssumption DEF TypeOK, Poison, locals, history
<1>4. CASE Tick
  BY <1>4, EngineAssumption DEF TypeOK, Tick, stores, locals, history
<1>5. ASSUME NEW t \in Threads, NEW r \in Requests, decide(t, r) PROVE TypeOK'
  <2>1. /\ issued' \subseteq drawn' /\ drawn' \subseteq NonceValues
        /\ revoked' \subseteq revokeDone' /\ revokeDone' \subseteq HopIds
        /\ DOMAIN counts' \subseteq HopIds /\ counts' \in [DOMAIN counts' -> Nat]
        /\ poisoned' \subseteq Stores
        /\ clock' \in 0..MaxClock /\ calls' \in 0..MaxCalls
        /\ req' \in [Threads -> Requests \cup {None}]
        /\ now' \in [Threads -> 0..MaxClock]
        /\ hop' \in [Threads -> Nat \ {0}]
        /\ before' \in [Threads -> [revoked : SUBSET HopIds, poisoned : SUBSET Stores]]
        /\ granted' \in [HopIds -> Nat]
        /\ charges' \in [NonceValues -> Nat] /\ passes' \in [NonceValues -> Nat]
    <3>1. /\ UNCHANGED <<issued, drawn, revoked, revokeDone, counts, poisoned, clock>>
          /\ UNCHANGED <<granted, charges, passes>>
          /\ calls < MaxCalls /\ calls' = calls + 1
      BY <1>5 DEF decide, stores
    <3>2. /\ req' = [req EXCEPT ![t] = r] /\ now' = [now EXCEPT ![t] = clock]
          /\ hop' = [hop EXCEPT ![t] = 1]
          /\ before' = [before EXCEPT ![t] = [revoked |-> revokeDone, poisoned |-> poisoned]]
      BY <1>5 DEF decide
    <3>3. revokeDone \in SUBSET HopIds
      BY EngineAssumption DEF TypeOK
    <3>4. calls' \in 0..MaxCalls
      BY <3>1, EngineAssumption DEF TypeOK
    <3>5. /\ req' \in [Threads -> Requests \cup {None}]
          /\ now' \in [Threads -> 0..MaxClock]
          /\ hop' \in [Threads -> Nat \ {0}]
      BY <3>2 DEF TypeOK
    <3>6. before' \in [Threads -> [revoked : SUBSET HopIds, poisoned : SUBSET Stores]]
      BY <3>2, <3>3 DEF TypeOK
    <3> QED BY <3>1, <3>3, <3>4, <3>5, <3>6 DEF TypeOK
  <2>2. req'[t] = r /\ \A u \in Threads \ {t} : req'[u] = req[u]
    BY <1>5 DEF TypeOK, decide
  <2>3. \A u \in Threads :
          /\ pc'[u] # "idle" => req'[u] \in Requests
          /\ pc'[u] = "done" => decision'[u].kind \in {"Pass", "Deny", "Challenge"}
          /\ pc'[u] \in {"revocations", "evaluate", "nonce", "uses"} =>
               presentation[req'[u]] # None
    BY <1>5, <2>2, DecideLocal DEF TypeOK, Kinds, Verified
  <2> QED BY <1>5, <2>1, <2>3, DecideLocal DEF TypeOK
<1>6. ASSUME NEW t \in Threads, Step(t) PROVE TypeOK'
  <2>1. /\ issued' \subseteq issued
        /\ UNCHANGED <<drawn, revoked, revokeDone, poisoned, clock, calls>>
    BY <1>6 DEF Step, IsRevoked, Evaluate, Consume, TryConsume, Granted, BackendFails, stores, history
  <2>2. hop' \in [Threads -> Nat \ {0}]
    BY <1>6 DEF TypeOK, Step, IsRevoked, Evaluate, Consume, TryConsume, Granted, BackendFails
  <2>3. DOMAIN counts' \subseteq HopIds /\ counts' \in [DOMAIN counts' -> Nat]
    <3>1. CASE UNCHANGED counts
      BY <3>1 DEF TypeOK
    <3>2. CASE pc[t] = "uses" /\ Charge(req[t])
      BY <3>2, ChargeCounts DEF TypeOK, Underway
    <3> QED BY <1>6, <3>1, <3>2
         DEF Step, IsRevoked, Evaluate, Consume, TryConsume, Granted, BackendFails, stores
  <2>4. charges' \in [NonceValues -> Nat] /\ passes' \in [NonceValues -> Nat]
    <3>1. charges' = charges \/ charges' = [charges EXCEPT ![presentation[req[t]].nonce] = @ + 1]
      BY <1>6 DEF Step, IsRevoked, Evaluate, Consume, TryConsume, Granted, BackendFails, Charged, history
    <3>2. passes' = passes \/ passes' = [passes EXCEPT ![presentation[req[t]].nonce] = @ + 1]
      BY <1>6 DEF Step, IsRevoked, Evaluate, Consume, TryConsume, Granted, BackendFails, history
    <3>3. charges \in [NonceValues -> Nat] /\ passes \in [NonceValues -> Nat]
      BY DEF TypeOK
    <3> QED BY <3>1, <3>2, <3>3
  <2>5. granted' \in [HopIds -> Nat]
    <3>1. granted \in [HopIds -> Nat]
      BY DEF TypeOK
    <3>2. CASE granted' = granted
      BY <3>1, <3>2
    <3>3. CASE TryConsume(t) /\ granted' # granted
      <4>1. granted' = [m \in HopIds |->
               IF \E i \in Authorizing(req[t]) : presentation[req[t]].chain.segs[i].id = m
               THEN granted[m] + 1 ELSE granted[m]]
        BY <3>3 DEF TryConsume, Granted
      <4> QED BY <3>1, <4>1
    <3> QED BY <1>6, <3>2, <3>3 DEF Step, IsRevoked, Evaluate, Consume, BackendFails, history
  <2>6. \A u \in Threads :
          /\ pc'[u] # "idle" => req'[u] \in Requests
          /\ pc'[u] = "done" => decision'[u].kind \in {"Pass", "Deny", "Challenge"}
          /\ pc'[u] \in {"revocations", "evaluate", "nonce", "uses"} =>
               presentation[req'[u]] # None
    <3>1. pc[t] # "idle"
      BY <1>6, StepLocal
    <3>2. ASSUME NEW u \in Threads, u # t
          PROVE  pc'[u] = pc[u] /\ decision'[u] = decision[u] /\ req'[u] = req[u]
      BY <1>6, <3>2, StepLocal
    <3>3. /\ req'[t] = req[t]
          /\ pc[t] \in {"revocations", "evaluate", "nonce", "uses"}
          /\ pc'[t] = "done" => decision'[t].kind \in Kinds
      BY <1>6, StepLocal
    <3> QED BY <3>1, <3>2, <3>3 DEF TypeOK, Kinds
  <2>7. /\ pc' \in [Threads -> Labels] /\ DOMAIN decision' = Threads
        /\ req' = req /\ now' = now /\ before' = before
    BY <1>6, StepLocal
  <2> QED BY <2>1, <2>2, <2>3, <2>4, <2>5, <2>6, <2>7 DEF TypeOK
<1>7. ASSUME NEW t \in Threads, Return(t) PROVE TypeOK'
  BY <1>7, EngineAssumption DEF TypeOK, Return, stores, Labels
<1>8. CASE UNCHANGED vars
  BY <1>8 DEF TypeOK, vars, stores, locals, history
<1> QED BY <1>1, <1>2, <1>3, <1>4, <1>5, <1>6, <1>7, <1>8 DEF Next

(* A call that got past decide keeps the presentation that verified. *)
LEMMA UnderwayStep ==
  ASSUME TypeOK, Underway, [Next]_vars
  PROVE  Underway'
<1>1. CASE UNCHANGED <<pc, req, hop>>
  BY <1>1 DEF Underway
<1>2. ASSUME NEW t \in Threads, NEW r \in Requests, decide(t, r) PROVE Underway'
  <2>1. \A u \in Threads \ {t} : pc'[u] = pc[u] /\ req'[u] = req[u] /\ hop'[u] = hop[u]
    BY <1>2, DecideLocal DEF TypeOK, decide
  <2>2. req'[t] = r /\ hop'[t] = 1
    BY <1>2 DEF TypeOK, decide
  <2>3. pc'[t] = "done" \/ (pc'[t] = "revocations" /\ Verified(r) /\ 1 \in 1..Len(Segs(r)))
    BY <1>2, DecideLocal, ChainVerified
  <2> QED BY <2>1, <2>2, <2>3 DEF Underway
<1>3. ASSUME NEW t \in Threads, Step(t) PROVE Underway'
  <2>1. \A u \in Threads \ {t} : pc'[u] = pc[u] /\ req'[u] = req[u] /\ hop'[u] = hop[u]
    BY <1>3, StepLocal
  <2>2. /\ req'[t] = req[t]
        /\ pc[t] \in {"revocations", "evaluate", "nonce", "uses"}
        /\ Verified(req[t])
    BY <1>3, StepLocal DEF Underway
  <2>3. CASE IsRevoked(t)
    <3>1. pc[t] = "revocations" /\ hop[t] \in 1..Len(Segs(req[t]))
      BY <2>3 DEF IsRevoked, Underway
    <3>2. pc'[t] \in {"done", "evaluate", "revocations"}
      BY <2>3, <3>1 DEF IsRevoked, Finish, Goto, TypeOK
    <3>3. ASSUME pc'[t] = "revocations" PROVE hop'[t] \in 1..Len(Segs(req[t]))
      <4>1. hop[t] \in Authorizing(req[t]) /\ hop'[t] = hop[t] + 1
        BY <2>3, <3>1, <3>3 DEF IsRevoked, Finish, Goto, TypeOK
      <4> QED BY <4>1, <2>2, ChainVerified
    <3> QED BY <2>1, <2>2, <3>2, <3>3 DEF Underway
  <2>4. CASE Evaluate(t)
    <3>1. pc'[t] = "done" \/ (pc'[t] = "nonce"
             /\ evaluate(Hops(req[t]), call[req[t]]).result = "Covered")
      BY <2>4 DEF Evaluate, Finish, Goto, TypeOK
    <3> QED BY <2>1, <2>2, <3>1 DEF Underway
  <2>5. CASE Consume(t)
    <3>1. pc[t] = "nonce" /\ pc'[t] \in {"done", "uses"}
      BY <2>5 DEF Consume, Finish, Goto, TypeOK
    <3> QED BY <2>1, <2>2, <3>1 DEF Underway
  <2>6. CASE TryConsume(t) \/ BackendFails(t)
    <3>1. pc'[t] = "done"
      BY <2>6 DEF TryConsume, Granted, BackendFails, Finish, TypeOK
    <3> QED BY <2>1, <3>1 DEF Underway
  <2> QED BY <1>3, <2>3, <2>4, <2>5, <2>6 DEF Step
<1>4. ASSUME NEW t \in Threads, Return(t) PROVE Underway'
  BY <1>4 DEF Underway, Return, TypeOK
<1> QED BY <1>1, <1>2, <1>3, <1>4
        DEF Next, Issue, Revoke, Poison, Tick, locals, vars

(* The engine's state is well typed, in every reachable state. *)
THEOREM TypeCorrect == Spec => []TypeOK
<1>1. TypeOK /\ Underway /\ [Next]_vars => (TypeOK /\ Underway)'
  BY TypeStep, UnderwayStep
<1> QED BY TypeInit, <1>1, PTL DEF Spec

---------------------------------------------------------------------------
(* Nonces. *)

NonceOf(t) == presentation[req[t]].nonce

(* A nonce that can still be consumed, or that a call has consumed and not *)
(* yet used, has bought nothing; no two calls hold the same nonce.         *)
NonceInv ==
  /\ \A n \in NonceValues :
       /\ passes[n] <= charges[n] /\ charges[n] <= 1
       /\ (n \in issued \/ n \notin drawn) => charges[n] = 0
  /\ \A t \in Threads : pc[t] = "uses" =>
       NonceOf(t) \in drawn \ issued /\ charges[NonceOf(t)] = 0
  /\ \A t, u \in Threads :
       pc[t] = "uses" /\ pc[u] = "uses" /\ NonceOf(t) = NonceOf(u) => t = u

(* No step lets a nonce be consumed twice, or charged before it is consumed. *)
LEMMA NonceStep ==
  ASSUME TypeOK, Underway, NonceInv, [Next]_vars
  PROVE  NonceInv'
<1> USE DEF NonceOf
<1>1. CASE UNCHANGED <<pc, req, issued, drawn, charges, passes>>
  BY <1>1 DEF NonceInv
<1>2. CASE Issue
  BY <1>2 DEF NonceInv, Issue, locals, TypeOK
<1>3. ASSUME NEW t \in Threads, NEW r \in Requests, decide(t, r) PROVE NonceInv'
  <2>1. \A u \in Threads : pc'[u] = "uses" => u # t /\ pc[u] = "uses" /\ req'[u] = req[u]
    BY <1>3, DecideLocal DEF TypeOK, decide
  <2>2. UNCHANGED <<issued, drawn, charges, passes>>
    BY <1>3 DEF decide, stores
  <2> QED BY <2>1, <2>2 DEF NonceInv
<1>4. ASSUME NEW t \in Threads, Step(t), ~Consume(t), UNCHANGED <<issued, charges, passes>>
      PROVE  NonceInv'
  <2>1. \A u \in Threads : pc'[u] = "uses" => pc[u] = "uses" /\ req'[u] = req[u]
    <3>1. req' = req /\ \A u \in Threads \ {t} : pc'[u] = pc[u]
      BY <1>4, StepLocal
    <3>2. pc'[t] # "uses"
      <4>1. CASE IsRevoked(t)
        BY <4>1 DEF IsRevoked, Finish, Goto, TypeOK
      <4>2. CASE Evaluate(t)
        BY <4>2 DEF Evaluate, Finish, Goto, TypeOK
      <4>3. CASE TryConsume(t)
        BY <4>3 DEF TryConsume, Granted, Finish, TypeOK
      <4>4. CASE BackendFails(t)
        BY <4>4 DEF BackendFails, Finish, TypeOK
      <4> QED BY <1>4, <4>1, <4>2, <4>3, <4>4 DEF Step
    <3> QED BY <3>1, <3>2
  <2>2. UNCHANGED drawn
    BY <1>4 DEF Step, IsRevoked, Evaluate, TryConsume, Granted, BackendFails, history
  <2> QED BY <1>4, <2>1, <2>2 DEF NonceInv
<1>5. ASSUME NEW t \in Threads, Consume(t) PROVE NonceInv'
  <2>1. /\ \A u \in Threads \ {t} : pc'[u] = pc[u]
        /\ req' = req
    BY <1>5, StepLocal DEF Step
  <2>2. UNCHANGED <<drawn, charges, passes>>
    BY <1>5 DEF Consume, history
  <2>3. CASE UNCHANGED issued /\ pc'[t] = "done"
    BY <2>1, <2>2, <2>3 DEF NonceInv
  <2>4. CASE issued' = issued \ {NonceOf(t)} /\ NonceOf(t) \in issued
    BY <2>1, <2>2, <2>4 DEF NonceInv, TypeOK
  <2> QED BY <1>5, <2>3, <2>4 DEF Consume, Finish, TypeOK
<1>6. ASSUME NEW t \in Threads, pc[t] = "nonce", BackendFails(t) PROVE NonceInv'
  <2>1. /\ \A u \in Threads \ {t} : pc'[u] = pc[u]
        /\ req' = req /\ pc'[t] = "done"
    BY <1>6, StepLocal DEF Step, BackendFails, Finish, TypeOK
  <2>2. UNCHANGED <<drawn, charges, passes>> /\ issued' \subseteq issued
    BY <1>6 DEF BackendFails
  <2> QED BY <2>1, <2>2 DEF NonceInv
<1>7. ASSUME NEW t \in Threads, TryConsume(t) \/ BackendFails(t), pc[t] = "uses", Charged(t)
      PROVE  NonceInv'
  <2>1. /\ \A u \in Threads \ {t} : pc'[u] = pc[u]
        /\ req' = req /\ pc'[t] = "done"
    BY <1>7, StepLocal DEF Step, TryConsume, Granted, BackendFails, Finish, TypeOK
  <2>2. UNCHANGED <<drawn, issued>>
    BY <1>7 DEF TryConsume, Granted, BackendFails
  <2> DEFINE n == NonceOf(t)
  <2>3. n \in NonceValues /\ n \in drawn \ issued /\ charges[n] = 0 /\ passes[n] = 0
    BY <1>7 DEF NonceInv, TypeOK
  <2>4. /\ charges' = [charges EXCEPT ![n] = @ + 1]
        /\ passes' = passes \/ passes' = [passes EXCEPT ![n] = @ + 1]
    BY <1>7 DEF Charged, TryConsume, Granted, BackendFails
  <2>5. /\ charges'[n] = 1 /\ passes'[n] \in {0, 1}
        /\ \A x \in NonceValues \ {n} : charges'[x] = charges[x] /\ passes'[x] = passes[x]
    BY <2>3, <2>4 DEF TypeOK
  <2>6. \A u \in Threads : pc'[u] = "uses" => u # t /\ pc[u] = "uses" /\ NonceOf(u) # n
    BY <2>1, <1>7 DEF NonceInv
  <2>7. \A u \in Threads : pc'[u] = "uses" => NonceOf(u) \in NonceValues
    BY <2>6 DEF NonceInv, TypeOK
  <2> HIDE DEF n
  <2>8. \A x \in NonceValues :
       /\ passes'[x] <= charges'[x] /\ charges'[x] <= 1
       /\ (x \in issued' \/ x \notin drawn') => charges'[x] = 0
    BY <2>2, <2>3, <2>5 DEF NonceInv
  <2> QED BY <2>1, <2>2, <2>5, <2>6, <2>7, <2>8 DEF NonceInv
<1>8. ASSUME NEW t \in Threads, Return(t) PROVE NonceInv'
  BY <1>8 DEF NonceInv, Return, TypeOK, stores
<1>9. ASSUME NEW t \in Threads, Step(t) PROVE NonceInv'
  BY <1>9, <1>4, <1>5, <1>6, <1>7
     DEF Step, IsRevoked, Evaluate, TryConsume, Granted, BackendFails, history, stores
<1> QED BY <1>1, <1>2, <1>3, <1>8, <1>9
        DEF Next, Revoke, Poison, Tick, locals, vars, stores, history

(* A nonce buys at most one charge and one passed call, whatever the       *)
(* threads, chains, retries and storage failures.                          *)
THEOREM NonceSingleUse == Spec => []NonceBuysOneCall
<1>1. Init => NonceInv
  BY DEF Init, NonceInv
<1>2. TypeOK /\ Underway /\ NonceInv /\ [Next]_vars => (TypeOK /\ Underway /\ NonceInv)'
  BY TypeStep, UnderwayStep, NonceStep
<1>3. NonceInv => NonceBuysOneCall
  BY DEF NonceInv, NonceBuysOneCall
<1> QED BY TypeInit, <1>1, <1>2, <1>3, PTL DEF Spec

---------------------------------------------------------------------------
(* Use limits. *)

(* WithinLimits is not inductive: try_consume compares the count, not the  *)
(* calls passed, with the limit.  What carries it is that a hop with a     *)
(* limit is counted at least as often as it is used.                       *)
LimitInv ==
  \A m \in HopIds : granted[m] > 0 =>
    \A k \in SignedLimits(m) :
       /\ granted[m] <= count(m)
       /\ granted[m] <= SignedLimit(m, k)

(* No step grants a use that the counter has not recorded, or one too many. *)
LEMMA LimitStep ==
  ASSUME TypeOK, Underway, LimitInv, [Next]_vars
  PROVE  LimitInv'
<1>1. CASE UNCHANGED <<granted, counts>>
  BY <1>1 DEF LimitInv, count
<1>2. ASSUME NEW t \in Threads, pc[t] = "uses", Charge(req[t]),
             UNCHANGED granted
      PROVE  LimitInv'
  <2>1. \A m : count(m) \in Nat /\ count(m)' \in Nat /\ count(m)' >= count(m)
    BY <1>2, ChargeCounts DEF TypeOK, Underway
  <2>2. \A m \in HopIds : granted[m] \in Nat
    BY DEF TypeOK
  <2>3. ASSUME NEW m \in HopIds, granted[m] > 0, NEW k \in SignedLimits(m)
        PROVE  granted[m] <= count(m)' /\ granted[m] <= SignedLimit(m, k)
    BY <2>1, <2>2, <2>3 DEF LimitInv
  <2> QED BY <1>2, <2>3 DEF LimitInv
<1>3. ASSUME NEW t \in Threads, TryConsume(t), ~UNCHANGED counts PROVE LimitInv'
  <2> DEFINE r == req[t]
  <2>1. /\ pc[t] = "uses" /\ ~Spent(r) /\ Charge(r)
        /\ granted' = [m \in HopIds |->
             IF \E i \in Authorizing(r) : Segs(r)[i].id = m
             THEN granted[m] + 1 ELSE granted[m]]
    BY <1>3 DEF TryConsume, Granted, Segs
  <2>2. Verified(r) /\ evaluate(Hops(r), call[r]).result = "Covered"
    BY <2>1 DEF Underway
  <2>3. /\ \A m : count(m) \in Nat /\ count(m)' \in Nat /\ count(m)' >= count(m)
        /\ \A l \in LimitsOf(r) : count(l.id)' >= count(l.id) + 1
    BY <2>1, <2>2, ChargeCounts DEF TypeOK
  <2>4. \A m \in HopIds : granted[m] \in Nat
    BY DEF TypeOK
  <2> HIDE DEF r
  <2>5. ASSUME NEW m \in HopIds, granted'[m] > 0, NEW k \in SignedLimits(m)
        PROVE  granted'[m] <= count(m)' /\ granted'[m] <= SignedLimit(m, k)
    <3>1. CASE \E i \in Authorizing(r) : Segs(r)[i].id = m
      <4>1. PICK l \in LimitsOf(r) : l.id = m /\ l.limit = SignedLimit(m, k)
        BY <3>1, <2>2, LimitsCharged
      <4>2. l.limit \in Nat
        BY <2>2, LimitsCharged
      <4>3. count(m) < l.limit
        BY <2>1, <2>3, <4>1, <4>2 DEF Spent
      <4>4. granted[m] <= count(m)
        BY <2>3, <2>4 DEF LimitInv
      <4>5. granted'[m] = granted[m] + 1
        BY <2>1, <3>1
      <4>6. count(m)' >= count(m) + 1
        BY <2>3, <4>1
      <4>7. count(m) \in Nat /\ count(m)' \in Nat /\ granted[m] \in Nat
        BY <2>3, <2>4
      <4> QED BY <4>1, <4>2, <4>3, <4>4, <4>5, <4>6, <4>7
    <3>2. CASE ~\E i \in Authorizing(r) : Segs(r)[i].id = m
      <4>1. granted'[m] = granted[m]
        BY <2>1, <3>2
      <4>2. granted[m] <= count(m) /\ granted[m] <= SignedLimit(m, k)
        BY <2>5, <4>1 DEF LimitInv
      <4>3. count(m) \in Nat /\ count(m)' \in Nat /\ granted[m] \in Nat /\ count(m)' >= count(m)
        BY <2>3, <2>4
      <4> QED BY <4>1, <4>2, <4>3
    <3> QED BY <3>1, <3>2
  <2> QED BY <2>5 DEF LimitInv
<1>4. ASSUME NEW t \in Threads, TryConsume(t), UNCHANGED counts, granted' # granted
      PROVE  LimitInv'
  <2>1. pc[t] = "uses" /\ ~Spent(req[t]) /\ Charge(req[t])
    BY <1>4 DEF TryConsume, Granted
  <2>2. /\ Verified(req[t])
        /\ evaluate(Hops(req[t]), call[req[t]]).result = "Covered"
    BY <2>1 DEF Underway
  <2>3. \A l \in LimitsOf(req[t]) : FALSE
    <3>1. \A l \in LimitsOf(req[t]) : count(l.id)' >= count(l.id) + 1 /\ count(l.id) \in Nat
      BY <2>1, <2>2, ChargeCounts DEF TypeOK
    <3>2. \A l \in LimitsOf(req[t]) : count(l.id)' = count(l.id)
      BY <1>4 DEF count
    <3> QED BY <3>1, <3>2
  <2>4. granted' = [m \in HopIds |->
             IF \E i \in Authorizing(req[t]) : Segs(req[t])[i].id = m
             THEN granted[m] + 1 ELSE granted[m]]
    BY <1>4 DEF TryConsume, Granted, Segs
  <2>5. ASSUME NEW m \in HopIds, NEW k \in SignedLimits(m) PROVE granted'[m] = granted[m]
    BY <2>2, <2>3, <2>4, LimitsCharged
  <2>6. \A m : count(m)' = count(m)
    BY <1>4 DEF count
  <2> QED BY <2>5, <2>6 DEF LimitInv
<1>5. ASSUME NEW t \in Threads, Step(t) PROVE LimitInv'
  BY <1>1, <1>2, <1>3, <1>4, <1>5
     DEF Step, IsRevoked, Evaluate, Consume, TryConsume, Granted, BackendFails, history, stores
<1> QED BY <1>1, <1>5
        DEF Next, Issue, Revoke, Poison, Tick, decide, Return, vars, stores, history

(* No mandate is used more often than any max_uses signed into it allows,  *)
(* for any chains, threads and storage failures.                           *)
THEOREM LimitsHold == Spec => []WithinLimits
<1>1. Init => LimitInv
  BY DEF Init, LimitInv
<1>2. TypeOK /\ Underway /\ LimitInv /\ [Next]_vars => (TypeOK /\ Underway /\ LimitInv)'
  BY TypeStep, UnderwayStep, LimitStep
<1>3. LimitInv => WithinLimits
  BY DEF LimitInv, WithinLimits
<1> QED BY TypeInit, <1>1, <1>2, <1>3, PTL DEF Spec

---------------------------------------------------------------------------
(* Revocation and storage failures. *)

(* A revocation can only have been dropped if its lock is poisoned, and    *)
(* then is_revoked fails: each hop that a call has got past was not        *)
(* revoked when the call began, and no store it has used was poisoned then. *)
RevocationOf(t) ==
  /\ before[t].revoked \subseteq revokeDone
  /\ before[t].poisoned \subseteq poisoned
  /\ pc[t] = "revocations" =>
       /\ \A i \in 1..(hop[t] - 1) : Segs(req[t])[i].id \notin before[t].revoked
       /\ hop[t] > 1 => "revoked" \notin before[t].poisoned
  /\ pc[t] \in {"evaluate", "nonce", "uses"} \/ Passed(t) =>
       /\ \A i \in 1..(Len(Segs(req[t])) - 1) :
            Segs(req[t])[i].id \notin before[t].revoked
       /\ "revoked" \notin before[t].poisoned
  /\ pc[t] = "uses" => "nonces" \notin before[t].poisoned
  /\ Passed(t) => before[t].poisoned = {}

RevocationInv ==
  /\ "revoked" \notin poisoned => revoked = revokeDone
  /\ \A t \in Threads : RevocationOf(t)

(* A step of one thread leaves what the others have established. *)
LEMMA RevocationOthers ==
  ASSUME TypeOK, RevocationInv, NEW u \in Threads,
         revokeDone \subseteq revokeDone', poisoned \subseteq poisoned',
         pc'[u] = pc[u], req'[u] = req[u], hop'[u] = hop[u],
         decision'[u] = decision[u], before'[u] = before[u]
  PROVE  RevocationOf(u)'
<1>1. Passed(u)' <=> Passed(u)
  BY DEF Passed
<1> QED BY <1>1 DEF RevocationInv, RevocationOf

(* No step carries a call past a revoked hop or a poisoned store. *)
LEMMA RevocationStep ==
  ASSUME TypeOK, Underway, RevocationInv, [Next]_vars
  PROVE  RevocationInv'
<1>1. CASE /\ UNCHANGED <<pc, req, hop, decision, before>>
           /\ revokeDone \subseteq revokeDone' /\ poisoned \subseteq poisoned'
           /\ "revoked" \notin poisoned' => revoked' = revokeDone'
  BY <1>1, RevocationOthers DEF RevocationInv
<1>2. ASSUME NEW m \in Revocable, Revoke(m) PROVE RevocationInv'
  BY <1>2, <1>1 DEF Revoke, locals, RevocationInv
<1>3. ASSUME NEW s \in Poisonable, Poison(s) PROVE RevocationInv'
  BY <1>3, <1>1 DEF Poison, locals, history, RevocationInv
<1>4. ASSUME NEW t \in Threads, NEW r \in Requests, decide(t, r) PROVE RevocationInv'
  <2>1. /\ \A u \in Threads \ {t} : /\ pc'[u] = pc[u] /\ decision'[u] = decision[u]
                                    /\ req'[u] = req[u] /\ hop'[u] = hop[u]
                                    /\ before'[u] = before[u]
        /\ UNCHANGED <<revoked, revokeDone, poisoned>>
    BY <1>4, DecideLocal DEF decide, TypeOK, stores
  <2>2. /\ before'[t] = [revoked |-> revokeDone, poisoned |-> poisoned]
        /\ hop'[t] = 1 /\ req'[t] = r
        /\ pc'[t] \in {"done", "revocations"}
        /\ ~Passed(t)'
    BY <1>4, DecideLocal DEF decide, TypeOK, Passed
  <2>3. \A u \in Threads \ {t} : RevocationOf(u)'
    BY <2>1, RevocationOthers
  <2>4. RevocationOf(t)'
    BY <2>1, <2>2 DEF RevocationOf
  <2>5. "revoked" \notin poisoned' => revoked' = revokeDone'
    BY <2>1 DEF RevocationInv
  <2> QED BY <2>3, <2>4, <2>5 DEF RevocationInv
<1>5. ASSUME NEW t \in Threads, Step(t) PROVE RevocationInv'
  <2>1. /\ \A u \in Threads \ {t} : /\ pc'[u] = pc[u] /\ decision'[u] = decision[u]
                                    /\ req'[u] = req[u] /\ hop'[u] = hop[u]
                                    /\ before'[u] = before[u]
        /\ UNCHANGED <<revoked, revokeDone, poisoned>>
        /\ req'[t] = req[t] /\ before'[t] = before[t]
    BY <1>5, StepLocal DEF Step, IsRevoked, Evaluate, Consume, TryConsume, Granted, BackendFails,
                           stores, history
  <2>2. SUFFICES
          /\ pc'[t] = "revocations" =>
               /\ \A i \in 1..(hop'[t] - 1) : Segs(req[t])[i].id \notin before[t].revoked
               /\ hop'[t] > 1 => "revoked" \notin before[t].poisoned
          /\ pc'[t] \in {"evaluate", "nonce", "uses"} \/ Passed(t)' =>
               /\ \A i \in 1..(Len(Segs(req[t])) - 1) :
                    Segs(req[t])[i].id \notin before[t].revoked
               /\ "revoked" \notin before[t].poisoned
          /\ pc'[t] = "uses" => "nonces" \notin before[t].poisoned
          /\ Passed(t)' => before[t].poisoned = {}
    BY <2>1, RevocationOthers DEF RevocationInv, RevocationOf
  <2>3. Verified(req[t])
    BY <1>5, StepLocal DEF Underway
  <2>4. CASE IsRevoked(t)
    <3>1. /\ pc[t] = "revocations"
          /\ hop[t] \in 1..Len(Segs(req[t]))
          /\ Authorizing(req[t]) = 1..(Len(Segs(req[t])) - 1)
          /\ Len(Segs(req[t])) \in Nat /\ Len(Segs(req[t])) >= 2
          /\ Hops(req[t])[hop[t]].id = Segs(req[t])[hop[t]].id
      BY <2>3, <2>4, ChainVerified DEF IsRevoked, Underway
    <3>2. ~Passed(t)'
      BY <1>5, <3>1, StepLocal DEF Passed
    <3>3. CASE hop[t] \notin Authorizing(req[t]) /\ Goto(t, "evaluate")
      <4>1. pc'[t] = "evaluate"
        BY <3>3, GotoLocal DEF Labels
      <4>2. hop[t] = Len(Segs(req[t]))
        BY <3>1, <3>3
      <4> QED BY <3>1, <3>2, <4>1, <4>2 DEF RevocationInv, RevocationOf
    <3>4. CASE /\ hop[t] \in Authorizing(req[t]) /\ "revoked" \notin poisoned
               /\ Hops(req[t])[hop[t]].id \notin revoked
               /\ hop' = [hop EXCEPT ![t] = @ + 1] /\ UNCHANGED pc
      <4>1. /\ Segs(req[t])[hop[t]].id \notin before[t].revoked
            /\ "revoked" \notin before[t].poisoned
        BY <3>1, <3>4 DEF RevocationInv, RevocationOf
      <4>2. hop'[t] = hop[t] + 1
        BY <3>4 DEF TypeOK
      <4>3. \A i \in 1..(hop'[t] - 1) : i \in 1..(hop[t] - 1) \/ i = hop[t]
        BY <3>1, <4>2
      <4> QED BY <3>1, <3>2, <3>4, <4>1, <4>3 DEF RevocationInv, RevocationOf
    <3>5. CASE pc'[t] = "done"
      BY <3>2, <3>5
    <3> QED BY <2>4, <3>3, <3>4, <3>5 DEF IsRevoked, Finish, TypeOK
  <2>5. CASE Evaluate(t)
    <3>1. pc[t] = "evaluate" /\ pc'[t] \in {"done", "nonce"}
      BY <2>5 DEF Evaluate, Finish, Goto, TypeOK
    <3>2. ~Passed(t)'
      BY <1>5, <3>1, StepLocal DEF Passed
    <3> QED BY <3>1, <3>2 DEF RevocationInv, RevocationOf
  <2>6. CASE Consume(t)
    <3>1. pc[t] = "nonce" /\ pc'[t] \in {"done", "uses"}
      BY <2>6 DEF Consume, Finish, Goto, TypeOK
    <3>2. ~Passed(t)'
      BY <1>5, <3>1, StepLocal DEF Passed
    <3>3. pc'[t] = "uses" => "nonces" \notin poisoned
      BY <2>6 DEF Consume, Finish, TypeOK
    <3> QED BY <3>1, <3>2, <3>3 DEF RevocationInv, RevocationOf
  <2>7. CASE TryConsume(t)
    <3>1. pc[t] = "uses" /\ pc'[t] = "done"
      BY <2>7 DEF TryConsume, Granted, Finish, TypeOK
    <3>2. Passed(t)' => "counts" \notin poisoned
      <4>1. CASE "counts" \in poisoned
        <5>1. decision'[t] = BackendDenied
          BY <2>7, <4>1, FinishLocal, DecisionKinds DEF TryConsume, Granted
        <5> QED BY <5>1, DecisionKinds DEF Passed
      <4> QED BY <4>1
    <3>3. Passed(t)' => before[t].poisoned = {}
      <4>1. before[t].poisoned \subseteq Stores
        BY DEF TypeOK
      <4>2. /\ before[t].poisoned \subseteq poisoned
            /\ "revoked" \notin before[t].poisoned /\ "nonces" \notin before[t].poisoned
        BY <3>1 DEF RevocationInv, RevocationOf
      <4> QED BY <3>2, <4>1, <4>2 DEF Stores
    <3> QED BY <3>1, <3>3 DEF RevocationInv, RevocationOf
  <2>8. CASE BackendFails(t)
    <3>1. pc'[t] = "done" /\ ~Passed(t)'
      BY <2>8, FinishLocal, DecisionKinds DEF BackendFails, Passed
    <3> QED BY <3>1
  <2> QED BY <1>5, <2>4, <2>5, <2>6, <2>7, <2>8 DEF Step
<1>6. ASSUME NEW t \in Threads, Return(t) PROVE RevocationInv'
  <2>1. /\ \A u \in Threads \ {t} : /\ pc'[u] = pc[u] /\ decision'[u] = decision[u]
                                    /\ req'[u] = req[u] /\ hop'[u] = hop[u]
                                    /\ before'[u] = before[u]
        /\ UNCHANGED <<revoked, revokeDone, poisoned>>
        /\ pc'[t] = "idle" /\ before'[t] = [revoked |-> {}, poisoned |-> {}]
    BY <1>6 DEF Return, TypeOK, stores
  <2>2. \A u \in Threads \ {t} : RevocationOf(u)'
    BY <2>1, RevocationOthers
  <2>3. RevocationOf(t)'
    BY <2>1 DEF RevocationOf, Passed
  <2>4. "revoked" \notin poisoned' => revoked' = revokeDone'
    BY <2>1 DEF RevocationInv
  <2> QED BY <2>2, <2>3, <2>4 DEF RevocationInv
<1>7. CASE UNCHANGED <<pc, req, hop, decision, before, revoked, revokeDone, poisoned>>
  BY <1>1, <1>7 DEF RevocationInv, RevocationOf
<1> QED BY <1>2, <1>3, <1>4, <1>5, <1>6, <1>7
        DEF Next, Issue, Tick, locals, vars, stores, history

(* The three invariants together are inductive. *)
LEMMA RevocationInvariant == Spec => [](TypeOK /\ Underway /\ RevocationInv)
<1>1. Init => RevocationInv
  BY DEF Init, RevocationInv, RevocationOf, Passed
<1>2. TypeOK /\ Underway /\ RevocationInv /\ [Next]_vars
        => (TypeOK /\ Underway /\ RevocationInv)'
  BY TypeStep, UnderwayStep, RevocationStep
<1> QED BY TypeInit, <1>1, <1>2, PTL DEF Spec

(* A call that begins after one of its mandates was revoked never passes,  *)
(* even when the revocation could not be stored.                           *)
THEOREM RevocationHolds == Spec => []RevokedNeverPasses
<1>1. RevocationInv => RevokedNeverPasses
  BY DEF RevocationInv, RevocationOf, RevokedNeverPasses, AuthorizingSegments, Segs
<1> QED BY <1>1, RevocationInvariant, PTL

(* No call that begins after a store's lock was poisoned passes. *)
THEOREM FailsClosedHolds == Spec => []FailsClosed
<1>1. RevocationInv => FailsClosed
  BY DEF RevocationInv, RevocationOf, FailsClosed
<1> QED BY <1>1, RevocationInvariant, PTL

---------------------------------------------------------------------------
(* Covered calls and what was signed. *)

(* The evaluation reads of a chain only its length, which hops authorize,  *)
(* and their constraints.                                                  *)
LEMMA EvaluationReads ==
  ASSUME NEW a, NEW b, NEW c,
         DOMAIN a = DOMAIN b, Len(a) = Len(b),
         \A i \in DOMAIN a :
           /\ a[i].kind = "Closing" <=> b[i].kind = "Closing"
           /\ a[i].kind # "Closing" => a[i].mandate.constraints = b[i].mandate.constraints
  PROVE  evaluate(a, c).result = evaluate(b, c).result
<1>1. authorizing_hops(a) = authorizing_hops(b)
  BY DEF authorizing_hops
<1>2. \A i \in authorizing_hops(a) : a[i].mandate.constraints = b[i].mandate.constraints
  BY DEF authorizing_hops
<1> DEFINE A == {h \in authorizing_hops(a) : a[h].mandate.constraints \notin {None, Bad}}
           B == {h \in authorizing_hops(b) : b[h].mandate.constraints \notin {None, Bad}}
<1>3. A = B /\ \A i \in A : DOMAIN a[i].mandate.constraints = DOMAIN b[i].mandate.constraints
  BY <1>1, <1>2
<1>4. {{i} \X DOMAIN a[i].mandate.constraints : i \in A}
        = {{i} \X DOMAIN b[i].mandate.constraints : i \in B}
  BY <1>3
<1>5. Positions(a) = Positions(b)
  BY <1>4 DEF Positions
<1>6. \A p \in Positions(a) : At(a, p) = At(b, p)
  BY <1>2 DEF Positions, At
<1>7. \A type : OfType(a, type) = OfType(b, type)
  BY <1>5, <1>6 DEF OfType
<1>8. \A type : \A p \in OfType(a, type) : p \in Positions(a)
  BY DEF OfType
<1>9. RequiredPurposes(a) = RequiredPurposes(b)
  <2>1. {At(a, p).value : p \in OfType(a, "access.purpose")}
          = {At(b, p).value : p \in OfType(b, "access.purpose")}
    BY <1>6, <1>7, <1>8
  <2> QED BY <2>1 DEF RequiredPurposes
<1>10. constrain_purpose(a, c) <=> constrain_purpose(b, c)
  BY <1>6, <1>7, <1>8, <1>9 DEF constrain_purpose
<1>11. \A i : DelegationsAfter(a, i) = DelegationsAfter(b, i)
  BY DEF DelegationsAfter
<1>12. Refuses(a, c) <=> Refuses(b, c)
  BY <1>1, <1>2, <1>5, <1>6, <1>10, <1>11 DEF Refuses
<1>13. Unknown(a) <=> Unknown(b)
  BY <1>5, <1>6 DEF Unknown
<1>14. CASE Refuses(a, c)
  BY <1>12, <1>14 DEF evaluate
<1>15. CASE ~Refuses(a, c) /\ Unknown(a)
  BY <1>12, <1>13, <1>15 DEF evaluate
<1>16. CASE ~Refuses(a, c) /\ ~Unknown(a)
  BY <1>12, <1>13, <1>16 DEF evaluate
<1> QED BY <1>14, <1>15, <1>16

(* evaluate finds in a verified chain what it would in all that was signed. *)
LEMMA NothingLeftOut ==
  ASSUME NEW r, Verified(r), NEW c
  PROVE  evaluate(SignedHops(presentation[r].chain), c).result = evaluate(Hops(r), c).result
<1> DEFINE S == SignedHops(presentation[r].chain)
           n == Len(Segs(r))
<1>1. /\ n \in Nat /\ n >= 2
      /\ DOMAIN Segs(r) = 1..n
      /\ DOMAIN Hops(r) = 1..n
      /\ Authorizing(r) = 1..(n - 1)
  BY ChainVerified
<1>2. DOMAIN S = 1..n
  BY <1>1 DEF SignedHops, Segs
<1>3. Len(S) = n /\ Len(Hops(r)) = n
  BY <1>1, <1>2
<1>4. ASSUME NEW i \in 1..n
      PROVE  /\ S[i].kind = "Closing" <=> Hops(r)[i].kind = "Closing"
             /\ S[i].mandate.constraints = Hops(r)[i].mandate.constraints
  <2>1. /\ S[i].kind = IF i = n THEN "Closing" ELSE "Delegation"
        /\ S[i].mandate = SignedMandate(Segs(r)[i].id)
    BY <1>1 DEF SignedHops, SignedMandate, Segs
  <2>2. Hops(r)[i].mandate.constraints = SignedMandate(Segs(r)[i].id).constraints
    BY ChainVerified, HopContent
  <2>3. Hops(r)[i].kind = "Closing" <=> i = n
    <3>1. i \in Authorizing(r) <=> Hops(r)[i].kind # "Closing"
      BY <1>1 DEF Authorizing, authorizing_hops
    <3>2. i \in 1..(n - 1) <=> i # n
      <4>1. n \in Nat
        BY <1>1
      <4> HIDE DEF n
      <4> QED BY <4>1
    <3>3. Authorizing(r) = 1..(n - 1)
      BY <1>1
    <3> QED BY <3>1, <3>2, <3>3
  <2> QED BY <2>1, <2>2, <2>3
<1> HIDE DEF S, n
<1> QED BY <1>1, <1>2, <1>3, <1>4, EvaluationReads DEF S

(* A passed call was covered by the hops of a chain that verified. *)
PassedCovered ==
  \A t \in Threads : Passed(t) =>
    Verified(req[t]) /\ evaluate(Hops(req[t]), call[req[t]]).result = "Covered"

(* Only a call whose evaluation came out covered reaches its uses. *)
LEMMA PassedCoveredStep ==
  ASSUME TypeOK, Underway, PassedCovered, [Next]_vars
  PROVE  PassedCovered'
<1>1. CASE UNCHANGED <<pc, req, decision>>
  BY <1>1 DEF PassedCovered, Passed
<1>2. ASSUME NEW t \in Threads, NEW r \in Requests, decide(t, r) PROVE PassedCovered'
  <2>1. /\ ~Passed(t)'
        /\ \A u \in Threads \ {t} :
             pc'[u] = pc[u] /\ decision'[u] = decision[u] /\ req'[u] = req[u]
    BY <1>2, DecideLocal DEF decide, TypeOK, Passed
  <2> QED BY <2>1 DEF PassedCovered, Passed
<1>3. ASSUME NEW t \in Threads, Step(t) PROVE PassedCovered'
  <2>1. /\ Passed(t)' => pc[t] = "uses"
        /\ req' = req
        /\ \A u \in Threads \ {t} : pc'[u] = pc[u] /\ decision'[u] = decision[u]
    BY <1>3, StepLocal DEF Passed
  <2> QED BY <2>1 DEF PassedCovered, Passed, Underway
<1>4. ASSUME NEW t \in Threads, Return(t) PROVE PassedCovered'
  <2>1. /\ pc'[t] = "idle"
        /\ \A u \in Threads \ {t} :
             pc'[u] = pc[u] /\ decision'[u] = decision[u] /\ req'[u] = req[u]
    BY <1>4 DEF Return, TypeOK
  <2> QED BY <2>1 DEF PassedCovered, Passed
<1> QED BY <1>1, <1>2, <1>3, <1>4
        DEF Next, Issue, Revoke, Poison, Tick, locals, vars

(* A passed call satisfies every constraint signed into its authorizing    *)
(* hops: nothing a presenter may do with the disclosures of a chain gets   *)
(* past a constraint.                                                      *)
THEOREM NothingWithheldHolds == Spec => []NothingWithheld
<1>1. Init => PassedCovered
  BY DEF Init, PassedCovered, Passed
<1>2. TypeOK /\ Underway /\ PassedCovered /\ [Next]_vars
        => (TypeOK /\ Underway /\ PassedCovered)'
  BY TypeStep, UnderwayStep, PassedCoveredStep
<1>3. PassedCovered => NothingWithheld
  BY NothingLeftOut DEF PassedCovered, NothingWithheld
<1> QED BY TypeInit, <1>1, <1>2, <1>3, PTL DEF Spec

---------------------------------------------------------------------------
(* Uses and grants. *)

(* A set of naturals has a least member. *)
LEMMA LeastNatural ==
  ASSUME NEW S \in SUBSET Nat, S # {}
  PROVE  \E n \in S : \A m \in S : n <= m
<1> DEFINE R == OpToRel(<, Nat)
<1>1. IsWellFoundedOn(R, Nat)
  BY NatLessThanWellFounded
<1>2. \A x, y \in Nat : <<x, y>> \in R <=> x < y
  BY DEF OpToRel
<1> HIDE DEF R
<1>3. PICK n \in S : \A m \in S : <<m, n>> \notin R
  BY <1>1, WFMin
<1>4. ASSUME NEW m \in S PROVE n <= m
  <2>1. m \in Nat /\ n \in Nat
    OBVIOUS
  <2>2. ~(m < n)
    BY <1>2, <1>3, <2>1
  <2> QED BY <2>1, <2>2
<1> QED BY <1>4

(* No JWT stands in a verified chain twice: each but the root names the    *)
(* one before it by hash, and the root's typ is no other hop's.            *)
LEMMA HopsDiffer ==
  ASSUME NEW r, Verified(r)
  PROVE  \A i, j \in DOMAIN Segs(r) : Segs(r)[i].id = Segs(r)[j].id => i = j
<1> DEFINE n == Len(Segs(r))
           Id(i) == Segs(r)[i].id
<1>1. PICK time \in Int : verify_chain(presentation[r].chain, Opts(r, time)).ok
  BY DEF Verified
<1>2. \A i \in DOMAIN Segs(r) : hop_error(Segs(r), i, Opts(r, time)) = None
  BY <1>1 DEF verify_chain, Ok, Err, Segs
<1>3. n \in Nat /\ DOMAIN Segs(r) = 1..n
  BY ChainVerified
<1>4. ASSUME NEW i \in 1..n
      PROVE  /\ signed[Id(i)].typ \in
                  IF i = 1 THEN ROOT_TYPS ELSE {TYP_CLOSING, TYP_DELEGATION}
             /\ i # 1 => check_binding(signed[Id(i)], Segs(r)[i - 1]) = None
  <2>1. /\ typ_error(i, signed[Id(i)].typ) = None
        /\ i # 1 => check_binding(signed[Id(i)], Segs(r)[i - 1]) = None
    BY <1>2, <1>3, HopVerified
  <2> QED BY <2>1, MandateChainAssumption DEF typ_error, Check, Errors
<1>5. ASSUME NEW j \in 1..n, Id(1) = Id(j) PROVE j = 1
  BY <1>3, <1>4, <1>5 DEF ROOT_TYPS, TYP_CLOSING, TYP_DELEGATION
<1>6. ASSUME NEW i \in 1..n, NEW j \in 1..n, i # 1, j # 1, Id(i) = Id(j)
      PROVE  Id(i - 1) = Id(j - 1)
  <2> DEFINE c == signed[Id(i)]
             p == Segs(r)[i - 1]
             q == Segs(r)[j - 1]
  <2>1. check_binding(c, p) = None /\ check_binding(c, q) = None
    BY <1>4, <1>6
  <2>2. i - 1 \in 1..n /\ j - 1 \in 1..n
    BY <1>3, <1>6
  <2>3. /\ None # p /\ None # [id |-> p.id, sig |-> p.sig]
        /\ None # q /\ None # [id |-> q.id, sig |-> q.sig]
    BY <2>2, <1>3, HashAssumption DEF Verified, Segs
  <2> HIDE DEF c, p, q
  <2>4. \/ c.sd_hash = p /\ c.issuer_jwt_hash = None
        \/ c.sd_hash = None /\ c.issuer_jwt_hash = [id |-> p.id, sig |-> p.sig]
    BY <2>1, MandateChainAssumption DEF check_binding, Check, Errors
  <2>5. \/ c.sd_hash = q /\ c.issuer_jwt_hash = None
        \/ c.sd_hash = None /\ c.issuer_jwt_hash = [id |-> q.id, sig |-> q.sig]
    BY <2>1, MandateChainAssumption DEF check_binding, Check, Errors
  <2>6. p = q \/ [id |-> p.id, sig |-> p.sig] = [id |-> q.id, sig |-> q.sig]
    BY <2>3, <2>4, <2>5
  <2>7. p.id = q.id
    BY <2>6
  <2> QED BY <2>7 DEF p, q
<1> DEFINE Twice == {i \in 1..n : \E j \in 1..n : i # j /\ Id(i) = Id(j)}
<1> HIDE DEF n, Id
<1>7. Twice = {}
  <2> SUFFICES ASSUME Twice # {} PROVE FALSE
    OBVIOUS
  <2>1. Twice \in SUBSET Nat
    BY <1>3
  <2>2. PICK i \in Twice : \A k \in Twice : i <= k
    BY <2>1, LeastNatural
  <2>3. PICK j \in 1..n : i # j /\ Id(i) = Id(j)
    BY <2>2
  <2>4. i # 1 /\ j # 1
    BY <2>2, <2>3, <1>3, <1>5
  <2>5. /\ i - 1 \in 1..n /\ j - 1 \in 1..n /\ i - 1 # j - 1
        /\ ~(i <= i - 1)
    BY <2>2, <2>3, <2>4, <1>3
  <2>6. i - 1 \in Twice
    BY <2>2, <2>3, <2>4, <2>5, <1>6
  <2> QED BY <2>2, <2>5, <2>6
<1> QED BY <1>3, <1>7 DEF Id

(* What a covered call is charged for hop m: one for each max_uses signed  *)
(* into m if m is one of its authorizing hops, and nothing otherwise.      *)
LEMMA ChargePerHop ==
  ASSUME NEW r, Verified(r), evaluate(Hops(r), call[r]).result = "Covered",
         NEW m \in HopIds
  PROVE  IF \E i \in Authorizing(r) : Segs(r)[i].id = m
         THEN /\ Cardinality({l \in LimitsOf(r) : l.id = m}) = Cardinality(SignedLimits(m))
              /\ Cardinality(SignedLimits(m)) \in Nat
         ELSE {l \in LimitsOf(r) : l.id = m} = {}
<1> DEFINE P == OfType(Hops(r), "access.max_uses")
           entry(p) == [id |-> Hops(r)[p[1]].id, at |-> p, limit |-> At(Hops(r), p).value]
           charged == {l \in LimitsOf(r) : l.id = m}
<1>1. LimitsOf(r) = {entry(p) : p \in P}
  BY DEF evaluate, LimitsOf, Limits
<1>2. ASSUME NEW p \in P
      PROVE  /\ p[1] \in Authorizing(r)
             /\ p[1] \in 1..Len(Segs(r))
             /\ p = <<p[1], p[2]>>
             /\ Hops(r)[p[1]].id = Segs(r)[p[1]].id
             /\ Hops(r)[p[1]].mandate.constraints \notin {None, Bad}
             /\ p[2] \in DOMAIN Hops(r)[p[1]].mandate.constraints
             /\ At(Hops(r), p).type = "access.max_uses"
  BY ChainVerified DEF OfType, Positions, Authorizing
<1>3. CASE ~\E i \in Authorizing(r) : Segs(r)[i].id = m
  <2>1. \A p \in P : entry(p).id # m
    BY <1>2, <1>3
  <2>2. charged = {}
    BY <1>1, <2>1
  <2> QED BY <1>3, <2>2
<1>4. CASE \E i \in Authorizing(r) : Segs(r)[i].id = m
  <2>1. PICK i \in Authorizing(r) : Segs(r)[i].id = m
    BY <1>4
  <2>2. i \in 1..Len(Segs(r)) /\ DOMAIN Segs(r) = 1..Len(Segs(r))
    BY ChainVerified
  <2>3. /\ Hops(r)[i].id = m
        /\ Hops(r)[i].mandate.constraints = SignedMandate(m).constraints
        /\ SignedMandate(m).constraints \notin {None, Bad} =>
             IsFiniteSet(DOMAIN SignedMandate(m).constraints)
    BY <2>1, <2>2, ChainVerified, HopContent
  <2> DEFINE f == [k \in SignedLimits(m) |->
                     [id |-> m, at |-> <<i, k>>, limit |-> SignedLimit(m, k)]]
  <2>4. IsFiniteSet(SignedLimits(m))
    <3>1. CASE SignedMandate(m).constraints \in {None, Bad}
      BY <3>1, FS_EmptySet DEF SignedLimits, SignedMandate
    <3>2. CASE SignedMandate(m).constraints \notin {None, Bad}
      BY <3>2, <2>3, FS_Subset DEF SignedLimits, SignedMandate
    <3> QED BY <3>1, <3>2
  <2>5. ASSUME NEW k \in SignedLimits(m) PROVE f[k] \in charged
    <3>1. <<i, k>> \in P
      BY <2>3 DEF SignedLimits, SignedMandate, OfType, Positions, Authorizing, At
    <3>2. entry(<<i, k>>) = f[k]
      BY <2>3 DEF At, SignedLimit, SignedMandate
    <3>3. f[k] \in LimitsOf(r) /\ f[k].id = m
      BY <1>1, <3>1, <3>2
    <3> QED BY <3>3
  <2>6. ASSUME NEW l \in charged PROVE \E k \in SignedLimits(m) : f[k] = l
    <3>1. PICK p \in P : l = entry(p)
      BY <1>1
    <3>2. Segs(r)[p[1]].id = m
      BY <3>1, <1>2
    <3>3. p[1] = i
      BY <3>2, <2>1, <2>2, <1>2, HopsDiffer
    <3>4. p[2] \in SignedLimits(m) /\ SignedLimit(m, p[2]) = At(Hops(r), p).value
      BY <3>3, <1>2, <2>3 DEF SignedLimits, SignedLimit, SignedMandate, At
    <3>5. f[p[2]] = [id |-> m, at |-> <<i, p[2]>>, limit |-> SignedLimit(m, p[2])]
      BY <3>4
    <3>6. f[p[2]] = l
      BY <3>1, <3>3, <3>4, <3>5, <2>3, <1>2
    <3> QED BY <3>4, <3>6
  <2>7. \A j, k \in SignedLimits(m) : f[j] = f[k] => j = k
    <3>1. \A j \in SignedLimits(m) : f[j].at = <<i, j>>
      OBVIOUS
    <3> HIDE DEF f
    <3> QED BY <3>1
  <2> HIDE DEF f, charged
  <2>8. f \in Bijection(SignedLimits(m), charged)
    <3>1. f \in [SignedLimits(m) -> charged]
      BY <2>5 DEF f
    <3> QED BY <3>1, <2>6, <2>7 DEF Bijection, Injection, IsInjective, Surjection
  <2>9. Cardinality(charged) = Cardinality(SignedLimits(m))
    BY <2>4, <2>8, FS_Bijection DEF ExistsBijection
  <2> QED BY <1>4, <2>4, <2>9, FS_CardinalityType DEF charged
<1> QED BY <1>3, <1>4

(* A use recorded is a call granted, once per limit of each hop. *)
LEMMA UsesStep ==
  ASSUME TypeOK, Underway, UsesAreGrants, [Next]_vars
  PROVE  UsesAreGrants'
<1>1. CASE UNCHANGED <<granted, counts>>
  BY <1>1 DEF UsesAreGrants, count
<1>2. ASSUME NEW t \in Threads, TryConsume(t), ~Flaky, ~UNCHANGED <<granted, counts>>
      PROVE  UsesAreGrants'
  <2> DEFINE r == req[t]
             L(m) == {l \in LimitsOf(r) : l.id = m}
             D == DOMAIN counts \cup {l.id : l \in LimitsOf(r)}
  <2>1. /\ pc[t] = "uses"
        /\ counts' = [m \in D |-> count(m) + Cardinality(L(m))]
        /\ granted' = [m \in HopIds |->
             IF \E i \in Authorizing(r) : Segs(r)[i].id = m
             THEN granted[m] + 1 ELSE granted[m]]
    BY <1>2 DEF TryConsume, Granted, Charge, Segs
  <2>2. Verified(r) /\ evaluate(Hops(r), call[r]).result = "Covered"
    BY <2>1 DEF Underway
  <2>3. \A m : count(m) \in Nat
    BY DEF TypeOK, count
  <2>4. \A m : L(m) # {} => m \in D
    OBVIOUS
  <2> HIDE DEF D, L, r
  <2>5. ASSUME NEW m \in HopIds
        PROVE  count(m)' = count(m) + Cardinality(L(m))
    <3>1. CASE m \in D
      BY <3>1, <2>1 DEF count
    <3>2. CASE m \notin D
      <4>1. L(m) = {} /\ count(m) = 0 /\ count(m)' = 0
        BY <3>2, <2>1, <2>4 DEF count, D
      <4> QED BY <4>1, FS_EmptySet
    <3> QED BY <3>1, <3>2
  <2>6. ASSUME NEW m \in HopIds
        PROVE  count(m)' = IF granted'[m] = 0 THEN 0
                           ELSE granted'[m] * Cardinality(SignedLimits(m))
    <3> DEFINE g == granted[m]
               c == Cardinality(SignedLimits(m))
    <3>1. g \in Nat /\ count(m) = IF g = 0 THEN 0 ELSE g * c
      BY <1>2 DEF TypeOK, UsesAreGrants
    <3>2. CASE \E i \in Authorizing(r) : Segs(r)[i].id = m
      <4>1. Cardinality(L(m)) = c /\ c \in Nat
        BY <3>2, <2>2, ChargePerHop DEF L
      <4>2. granted'[m] = g + 1
        BY <3>2, <2>1
      <4>3. count(m)' = count(m) + c
        BY <2>5, <4>1
      <4> HIDE DEF g, c
      <4>4. (g + 1) * c = g * c + c
        BY <3>1, <4>1
      <4>5. g = 0 => g * c = 0
        BY <4>1
      <4>6. count(m)' = (g + 1) * c
        BY <3>1, <4>1, <4>3, <4>4, <4>5
      <4>7. granted'[m] # 0
        BY <3>1, <4>2
      <4> QED BY <4>2, <4>6, <4>7 DEF c
    <3>3. CASE ~\E i \in Authorizing(r) : Segs(r)[i].id = m
      <4>1. L(m) = {}
        BY <3>3, <2>2, ChargePerHop DEF L
      <4>2. granted'[m] = g
        BY <3>3, <2>1
      <4>3. count(m)' = count(m)
        BY <4>1, <2>3, <2>5, FS_EmptySet
      <4> QED BY <3>1, <4>2, <4>3
    <3> QED BY <3>2, <3>3
  <2> QED BY <2>6 DEF UsesAreGrants
<1>3. ASSUME NEW t \in Threads, Step(t) PROVE UsesAreGrants'
  <2>1. CASE Flaky
    BY <2>1 DEF UsesAreGrants
  <2>2. CASE ~Flaky
    BY <2>2, <1>1, <1>2, <1>3
       DEF Step, IsRevoked, Evaluate, Consume, BackendFails, history, stores
  <2> QED BY <2>1, <2>2
<1> QED BY <1>1, <1>3
        DEF Next, Issue, Revoke, Poison, Tick, decide, Return, vars, stores, history

(* With stores that do not fail, the use counts are the calls passed: once *)
(* per limit that a hop states, on all hops of a chain or on none.         *)
THEOREM UsesAreGrantsHolds == Spec => []UsesAreGrants
<1>1. Init => UsesAreGrants
  BY DEF Init, UsesAreGrants, count
<1>2. TypeOK /\ Underway /\ UsesAreGrants /\ [Next]_vars
        => (TypeOK /\ Underway /\ UsesAreGrants)'
  BY TypeStep, UnderwayStep, UsesStep
<1> QED BY TypeInit, <1>1, <1>2, PTL DEF Spec
=============================================================================
