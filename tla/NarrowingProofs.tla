-------------------------- MODULE NarrowingProofs --------------------------
(***************************************************************************)
(* Proofs about Narrowing: whatever the surface signs and the holders      *)
(* append, in chains of any length, a delegation covers no more calls.     *)
(***************************************************************************)
EXTENDS Narrowing, FiniteSetTheorems, WellFoundedInduction, TLAPS

AuthorizingHops ==
  [id : Nat, kind : {"Root", "Delegation"},
   mandate : [constraints : RootMandates \cup HopMandates]]

(* What holders pass on is a sequence of hops of which none closes. *)
HopsInv == hops \in Seq(AuthorizingHops)

---------------------------------------------------------------------------
(* The surface issues one root hop. *)
LEMMA HopsInit == Init => HopsInv
BY DEF Init, issue_open, Hop, HopsInv, AuthorizingHops

(* A delegation is one more hop that does not close. *)
LEMMA HopsStep == HopsInv /\ [Next]_hops => HopsInv'
<1> SUFFICES ASSUME HopsInv, [Next]_hops PROVE HopsInv'
  OBVIOUS
<1>1. CASE UNCHANGED hops
  BY <1>1 DEF HopsInv
<1>2. ASSUME NEW cs \in HopMandates, hops' = Append(hops, Hop(Len(hops) + 1, "Delegation", cs))
      PROVE  HopsInv'
  <2> DEFINE h == Hop(Len(hops) + 1, "Delegation", cs)
  <2>1. hops \in Seq(AuthorizingHops) /\ Len(hops) \in Nat
    BY DEF HopsInv
  <2>2. h \in AuthorizingHops
    BY <2>1 DEF Hop, AuthorizingHops
  <2> HIDE DEF h
  <2>q. QED BY <1>2, <2>1, <2>2 DEF HopsInv, h
<1>q. QED BY <1>1, <1>2 DEF Next, Delegate

---------------------------------------------------------------------------
(* A chain and the same chain with one more delegation before its closing. *)
Extends(a, b, n) ==
  /\ n \in Nat
  /\ DOMAIN a = 1..(n + 1) /\ Len(a) = n + 1
  /\ DOMAIN b = 1..(n + 2) /\ Len(b) = n + 2
  /\ \A i \in 1..n : a[i] = b[i] /\ a[i].kind # "Closing"
  /\ a[n + 1].kind = "Closing"

(* The shorter chain's constraints are looked at in the longer one too. *)
LEMMA PositionsKept ==
  ASSUME NEW a, NEW b, NEW n, Extends(a, b, n)
  PROVE  /\ authorizing_hops(a) = 1..n /\ 1..n \subseteq authorizing_hops(b)
         /\ Positions(a) \subseteq Positions(b)
         /\ \A p \in Positions(a) :
              /\ At(a, p) = At(b, p)
              /\ p[1] \in 1..n
              /\ a[p[1]].mandate.constraints \notin {None, Bad}
              /\ p[2] \in DOMAIN a[p[1]].mandate.constraints
<1>1. authorizing_hops(a) = 1..n
  <2>1. \A i \in 1..(n + 1) : a[i].kind # "Closing" <=> i \in 1..n
    BY DEF Extends
  <2>2. 1..n \subseteq 1..(n + 1)
    BY DEF Extends
  <2> QED BY <2>1, <2>2 DEF Extends, authorizing_hops
<1>2. 1..n \subseteq authorizing_hops(b)
  BY DEF Extends, authorizing_hops
<1>3. ASSUME NEW p \in Positions(a)
      PROVE  /\ p \in Positions(b)
             /\ At(a, p) = At(b, p)
             /\ p[1] \in 1..n
             /\ a[p[1]].mandate.constraints \notin {None, Bad}
             /\ p[2] \in DOMAIN a[p[1]].mandate.constraints
  <2>1. PICK i \in authorizing_hops(a) :
          /\ a[i].mandate.constraints \notin {None, Bad}
          /\ p \in {i} \X DOMAIN a[i].mandate.constraints
    BY DEF Positions
  <2>2. i \in 1..n /\ a[i] = b[i] /\ i \in authorizing_hops(b)
    BY <2>1, <1>1, <1>2 DEF Extends
  <2>3. p[1] = i /\ p[2] \in DOMAIN a[i].mandate.constraints
    BY <2>1
  <2> QED BY <2>1, <2>2, <2>3 DEF Positions, At
<1> QED BY <1>1, <1>2, <1>3

(* What the longer chain covers, the shorter one covered. *)
LEMMA ExtensionNarrows ==
  ASSUME NEW a, NEW b, NEW n, Extends(a, b, n), NEW call,
         \A i \in 1..n : a[i].mandate.constraints \in RootMandates \cup HopMandates,
         evaluate(b, call).result = "Covered"
  PROVE  /\ evaluate(a, call).result = "Covered"
         /\ evaluate(a, call).purpose \in {None, evaluate(b, call).purpose}
         /\ evaluate(a, call).limits \subseteq evaluate(b, call).limits
<1>1. /\ ~Refuses(b, call) /\ ~Unknown(b)
      /\ evaluate(b, call) = [result |-> "Covered", purpose |-> FixedPurpose(b, call),
                              limits |-> Limits(b)]
  BY DEF evaluate
<1>2. \A type : /\ OfType(a, type) \subseteq OfType(b, type)
                /\ OfType(a, type) \subseteq Positions(a)
  BY PositionsKept DEF OfType
<1>3. RequiredPurposes(a) \subseteq RequiredPurposes(b)
  BY <1>2, PositionsKept DEF RequiredPurposes
<1>4. constrain_purpose(b, call)
  BY <1>1 DEF Refuses
<1>5. constrain_purpose(a, call)
  BY <1>2, <1>3, <1>4, PositionsKept DEF constrain_purpose
<1>6. ASSUME NEW p \in Positions(a), At(a, p).type = "access.delegation"
      PROVE  delegation(At(a, p), DelegationsAfter(a, p[1]))
  <2> DEFINE c == At(a, p)
  <2>1. delegation(c, DelegationsAfter(b, p[1]))
    BY <1>1, <1>6, PositionsKept DEF Refuses
  <2>2. /\ DelegationsAfter(a, p[1]) = n - p[1]
        /\ DelegationsAfter(b, p[1]) = n + 1 - p[1]
        /\ p[1] \in Nat /\ n \in Nat
    <3>1. p[1] \in 1..n
      BY PositionsKept
    <3>2. n \in Nat /\ Len(a) = n + 1 /\ Len(b) = n + 2
      BY DEF Extends
    <3> QED BY <3>1, <3>2 DEF DelegationsAfter
  <2>3. c.value \in Nat \cup {Bad}
    BY <1>6, PositionsKept, MandatesAssumption DEF At
  <2> HIDE DEF c
  <2> QED BY <2>1, <2>2, <2>3 DEF delegation, c
<1>7. ~Refuses(a, call)
  <2>1. \A i \in authorizing_hops(a) : a[i].mandate.constraints # Bad
    <3>1. authorizing_hops(a) = 1..n /\ 1..n \subseteq authorizing_hops(b)
      BY PositionsKept
    <3>2. \A i \in 1..n : i \in authorizing_hops(b) /\ a[i] = b[i]
      BY <3>1 DEF Extends
    <3> QED BY <1>1, <3>1, <3>2 DEF Refuses
  <2>2. \A p \in Positions(a) :
          LET c == At(a, p)
          IN  /\ c.type # None
              /\ c.type = "access.authorization_details" => authorization_details(c, call)
              /\ c.type = "access.release" => release(c, call)
              /\ c.type = "access.max_uses" => max_uses(c)
    BY <1>1, PositionsKept DEF Refuses
  <2> QED BY <1>5, <1>6, <2>1, <2>2 DEF Refuses
<1>8. ~Unknown(a)
  BY <1>1, PositionsKept DEF Unknown
<1>9. evaluate(a, call) = [result |-> "Covered", purpose |-> FixedPurpose(a, call),
                           limits |-> Limits(a)]
  BY <1>7, <1>8 DEF evaluate
<1>10. FixedPurpose(a, call) \in {None, FixedPurpose(b, call)}
  <2>1. CASE call.purpose # None
    BY <2>1 DEF FixedPurpose
  <2>2. CASE call.purpose = None /\ RequiredPurposes(a) = {}
    BY <2>2 DEF FixedPurpose
  <2>3. CASE call.purpose = None /\ RequiredPurposes(a) # {}
    <3>1. \A q, r \in RequiredPurposes(b) : r = q
      BY <1>4 DEF constrain_purpose
    <3>2. FixedPurpose(a, call) \in RequiredPurposes(b)
      BY <2>3, <1>3 DEF FixedPurpose
    <3>3. FixedPurpose(b, call) \in RequiredPurposes(b)
      BY <2>3, <1>3 DEF FixedPurpose
    <3> QED BY <3>1, <3>2, <3>3
  <2> QED BY <2>1, <2>2, <2>3
<1>11. Limits(a) \subseteq Limits(b)
  <2>1. \A p \in OfType(a, "access.max_uses") :
          At(a, p) = At(b, p) /\ a[p[1]].id = b[p[1]].id
    <3>1. \A p \in OfType(a, "access.max_uses") : At(a, p) = At(b, p) /\ p[1] \in 1..n
      BY <1>2, PositionsKept
    <3>2. \A i \in 1..n : a[i].id = b[i].id
      BY DEF Extends
    <3> QED BY <3>1, <3>2
  <2> QED BY <1>2, <2>1 DEF Limits
<1> QED BY <1>1, <1>9, <1>10, <1>11

(* The constraints of a delegation, whatever they say, never make a call   *)
(* covered that was not, give it another purpose or lift a use limit.      *)
THEOREM DelegationNarrowsHolds == Spec => DelegationNarrows
<1>1. HopsInv /\ [Next]_hops => [OnlyNarrows]_hops
  <2> SUFFICES ASSUME HopsInv, Next PROVE OnlyNarrows
    OBVIOUS
  <2>1. PICK cs \in HopMandates : hops' = Append(hops, Hop(Len(hops) + 1, "Delegation", cs))
    BY DEF Next, Delegate
  <2> DEFINE n == Len(hops)
             h == Hop(n + 1, "Delegation", cs)
             a == Append(hops, ClosingHop)
             b == Append(Append(hops, h), ClosingHop)
  <2>2. hops \in Seq(AuthorizingHops) /\ n \in Nat /\ DOMAIN hops = 1..n
    BY DEF HopsInv
  <2>3. ClosingHop.kind = "Closing" /\ h.kind # "Closing"
    BY DEF ClosingHop, Hop
  <2> HIDE DEF h
  <2>4. /\ DOMAIN a = 1..(n + 1) /\ Len(a) = n + 1
        /\ DOMAIN b = 1..(n + 2) /\ Len(b) = n + 2
        /\ a[n + 1] = ClosingHop
        /\ \A i \in 1..n : a[i] = hops[i] /\ b[i] = hops[i]
    BY <2>2
  <2>5. \A i \in 1..n : /\ hops[i].kind # "Closing"
                        /\ hops[i].mandate.constraints \in RootMandates \cup HopMandates
    <3>1. \A i \in 1..n : hops[i] \in AuthorizingHops
      BY <2>2
    <3> QED BY <3>1 DEF AuthorizingHops
  <2>6. Extends(a, b, n)
    BY <2>2, <2>3, <2>4, <2>5 DEF Extends
  <2>7. Closed(hops) = a /\ Closed(hops)' = b
    BY <2>1 DEF Closed, h
  <2> HIDE DEF a, b, n
  <2> QED BY <2>4, <2>5, <2>6, <2>7, ExtensionNarrows DEF OnlyNarrows, Covered
<1> QED BY HopsInit, HopsStep, <1>1, PTL DEF Spec, DelegationNarrows

---------------------------------------------------------------------------
(* The loop of evaluate(). *)

(* Every set of naturals that is not empty has a least element. *)
LEMMA LeastNatural ==
  ASSUME NEW S \in SUBSET Nat, S # {}
  PROVE  \E n \in S : \A m \in S : n <= m
<1> DEFINE R == OpToRel(<, Nat)
<1>1. IsWellFoundedOn(R, Nat)
  BY NatLessThanWellFounded
<1>2. \A x, y \in Nat : <<x, y>> \in R <=> x < y
  BY DEF OpToRel
<1> HIDE DEF R
<1>3. PICK n \in S : \A m \in S : <<m, n>> \notin R
  BY <1>1, WFMin
<1>4. \A m \in S : m \in Nat /\ n \in Nat /\ ~(m < n)
  BY <1>2, <1>3
<1>q. QED BY <1>3, <1>4

(* What the loop's locals say after the hops H and the constraints at Q. *)

(* A constraint that is refused whatever the others are. *)
Faulty(chain, call, p) ==
  LET c == At(chain, p)
  IN  \/ c.type = None
      \/ c.type = "access.authorization_details" /\ ~authorization_details(c, call)
      \/ c.type = "access.purpose" /\ c.value = Bad
      \/ c.type = "access.release" /\ ~release(c, call)
      \/ c.type = "access.max_uses" /\ ~max_uses(c)
      \/ c.type = "access.delegation" /\ ~delegation(c, DelegationsAfter(chain, p[1]))

Typed(chain, Q, type) == {p \in Q : At(chain, p).type = type}
Asked(chain, Q) == {At(chain, p).value : p \in Typed(chain, Q, "access.purpose")} \ {Bad}
Clash(chain, call, Q) ==
  \E q \in Asked(chain, Q) :
    call.purpose \notin {None, q} \/ \E r \in Asked(chain, Q) : r # q
Unreadable(chain, H) ==
  \E i \in H : chain[i].kind # "Closing" /\ chain[i].mandate.constraints = Bad
RefusedBy(chain, call, H, Q) ==
  \/ Unreadable(chain, H)
  \/ \E p \in Q : Faulty(chain, call, p)
  \/ Clash(chain, call, Q)
UnknownIn(chain, Q) == \E p \in Q : At(chain, p).type \notin KnownTypes \cup {None}

Use(chain, p) == <<chain[p[1]].id, At(chain, p).value>>

(* The list of limits has one entry for each constraint of Q that limits uses. *)
Lists(chain, Q, limits, at) ==
  /\ at \in [1..Len(limits) -> Typed(chain, Q, "access.max_uses")]
  /\ \A p \in Typed(chain, Q, "access.max_uses") : \E k \in 1..Len(limits) : at[k] = p
  /\ \A j, k \in 1..Len(limits) : at[j] = at[k] => j = k
  /\ \A k \in 1..Len(limits) : limits[k] = Use(chain, at[k])

Agrees(chain, call, H, Q, acc) ==
  /\ acc = [purpose |-> acc.purpose, limits |-> acc.limits,
            unknown |-> acc.unknown, refused |-> acc.refused]
  /\ acc.refused \in BOOLEAN /\ acc.unknown \in BOOLEAN
  /\ acc.refused <=> RefusedBy(chain, call, H, Q)
  /\ ~acc.refused =>
       /\ acc.unknown <=> UnknownIn(chain, Q)
       /\ \/ Asked(chain, Q) = {} /\ acc.purpose = call.purpose
          \/ Asked(chain, Q) = {acc.purpose}
       /\ acc.limits \in Seq({Use(chain, p) : p \in Positions(chain)})
       /\ \E at : Lists(chain, Q, acc.limits, at)

(* The type of a further constraint tells which part of the locals it may change. *)
LEMMA OneMore ==
  ASSUME NEW chain, NEW Q, NEW p
  PROVE  /\ \A type : Typed(chain, Q \cup {p}, type)
               = IF At(chain, p).type = type THEN Typed(chain, Q, type) \cup {p}
                 ELSE Typed(chain, Q, type)
         /\ Asked(chain, Q \cup {p})
              = IF At(chain, p).type = "access.purpose" /\ At(chain, p).value # Bad
                THEN Asked(chain, Q) \cup {At(chain, p).value} ELSE Asked(chain, Q)
<1>1. ASSUME NEW type
      PROVE  Typed(chain, Q \cup {p}, type)
               = IF At(chain, p).type = type THEN Typed(chain, Q, type) \cup {p}
                 ELSE Typed(chain, Q, type)
  BY DEF Typed
<1>2. CASE At(chain, p).type = "access.purpose"
  <2>1. Typed(chain, Q \cup {p}, "access.purpose") = Typed(chain, Q, "access.purpose") \cup {p}
    BY <1>1, <1>2
  <2>q. QED BY <1>1, <1>2, <2>1 DEF Asked
<1>3. CASE At(chain, p).type # "access.purpose"
  <2>1. Typed(chain, Q \cup {p}, "access.purpose") = Typed(chain, Q, "access.purpose")
    BY <1>1, <1>3
  <2>q. QED BY <1>1, <1>3, <2>1 DEF Asked
<1>q. QED BY <1>1, <1>2, <1>3

(* A constraint the loop does not refuse and that limits no uses leaves the list. *)
LEMMA ListKept ==
  ASSUME NEW chain, NEW Q, NEW p, At(chain, p).type # "access.max_uses",
         NEW limits, \E at : Lists(chain, Q, limits, at)
  PROVE  \E at : Lists(chain, Q \cup {p}, limits, at)
<1>1. Typed(chain, Q \cup {p}, "access.max_uses") = Typed(chain, Q, "access.max_uses")
  BY DEF Typed
<1>q. QED BY <1>1 DEF Lists

(* A use limit becomes the last of the list. *)
LEMMA ListGrows ==
  ASSUME NEW chain, NEW Q, NEW p \in Positions(chain), p \notin Q,
         At(chain, p).type = "access.max_uses",
         NEW limits \in Seq({Use(chain, x) : x \in Positions(chain)}),
         \E at : Lists(chain, Q, limits, at)
  PROVE  /\ Append(limits, Use(chain, p)) \in Seq({Use(chain, x) : x \in Positions(chain)})
         /\ \E at : Lists(chain, Q \cup {p}, Append(limits, Use(chain, p)), at)
<1> DEFINE S == {Use(chain, x) : x \in Positions(chain)}
           u == Use(chain, p)
           new == Append(limits, u)
           n == Len(limits)
           T == Typed(chain, Q, "access.max_uses")
<1>1. PICK at : Lists(chain, Q, limits, at)
  OBVIOUS
<1>2. u \in S /\ limits \in Seq(S)
  OBVIOUS
<1>3. Typed(chain, Q \cup {p}, "access.max_uses") = T \cup {p} /\ p \notin T
  BY OneMore DEF Typed
<1>4. /\ at \in [1..n -> T]
      /\ \A x \in T : \E k \in 1..n : at[k] = x
      /\ \A j, k \in 1..n : at[j] = at[k] => j = k
      /\ \A k \in 1..n : limits[k] = Use(chain, at[k])
  BY <1>1 DEF Lists
<1> HIDE DEF S, u, T
<1>5. /\ new \in Seq(S) /\ n \in Nat /\ Len(new) = n + 1 /\ new[n + 1] = u
      /\ \A k \in 1..n : new[k] = limits[k]
  BY <1>2
<1> HIDE DEF new, n
<1> DEFINE to == [k \in 1..(n + 1) |-> IF k = n + 1 THEN p ELSE at[k]]
<1>6. \A k \in 1..n : k \in 1..(n + 1) /\ k # n + 1 /\ to[k] = at[k] /\ at[k] \in T /\ at[k] # p
  BY <1>3, <1>4, <1>5
<1>7. n + 1 \in 1..(n + 1) /\ to[n + 1] = p /\ \A k \in 1..(n + 1) : k = n + 1 \/ k \in 1..n
  BY <1>5
<1>8. to \in [1..(n + 1) -> T \cup {p}]
  BY <1>6, <1>7
<1>9. \A x \in T \cup {p} : \E k \in 1..(n + 1) : to[k] = x
  <2> HIDE DEF to
  <2>q. QED BY <1>4, <1>6, <1>7
<1>10. \A j, k \in 1..(n + 1) : to[j] = to[k] => j = k
  <2> HIDE DEF to
  <2>q. QED BY <1>4, <1>6, <1>7
<1>11. \A k \in 1..(n + 1) : new[k] = Use(chain, to[k])
  <2> HIDE DEF to
  <2> TAKE k \in 1..(n + 1)
  <2>1. CASE k = n + 1
    BY <1>5, <1>7, <2>1 DEF u
  <2>2. CASE k # n + 1
    <3>1. k \in 1..n
      BY <1>7, <2>2
    <3>q. QED BY <1>4, <1>5, <1>6, <3>1
  <2>q. QED BY <2>1, <2>2
<1> HIDE DEF to
<1>12. Lists(chain, Q \cup {p}, new, to)
  BY <1>3, <1>5, <1>8, <1>9, <1>10, <1>11 DEF Lists, T
<1>q. QED BY <1>5, <1>12 DEF new, u, S

(* What was refused stays refused, whatever follows. *)
LEMMA RefusedStays ==
  ASSUME NEW chain, NEW call, NEW H, NEW Q, NEW I, NEW R, RefusedBy(chain, call, H, Q)
  PROVE  RefusedBy(chain, call, H \cup I, Q \cup R)
<1>1. CASE Unreadable(chain, H)
  BY <1>1 DEF RefusedBy, Unreadable
<1>2. CASE \E p \in Q : Faulty(chain, call, p)
  BY <1>2 DEF RefusedBy
<1>3. CASE Clash(chain, call, Q)
  <2>1. Asked(chain, Q) \subseteq Asked(chain, Q \cup R)
    BY DEF Asked, Typed
  <2>q. QED BY <1>3, <2>1 DEF RefusedBy, Clash
<1>q. QED BY <1>1, <1>2, <1>3 DEF RefusedBy

(* Every purpose that is asked for is a string. *)
PurposesSaid(chain) ==
  \A p \in Positions(chain) : At(chain, p).type = "access.purpose" => At(chain, p).value # None

(* One more constraint: the loop's arm does what the quantified form says. *)
LEMMA StepAgrees ==
  ASSUME NEW chain, NEW call, NEW H, NEW Q \in SUBSET Positions(chain), NEW acc,
         PurposesSaid(chain), Agrees(chain, call, H, Q, acc),
         NEW p \in Positions(chain), p \notin Q
  PROVE  Agrees(chain, call, H, Q \cup {p}, StepConstraint(chain, p[1], call, acc, At(chain, p)))
<1> DEFINE c == At(chain, p)
           R == Q \cup {p}
           new == StepConstraint(chain, p[1], call, acc, c)
           refuse == [acc EXCEPT !.refused = TRUE]
<1> SUFFICES Agrees(chain, call, H, R, new)
  OBVIOUS
<1>1. /\ acc = [purpose |-> acc.purpose, limits |-> acc.limits,
                unknown |-> acc.unknown, refused |-> acc.refused]
      /\ acc.refused \in BOOLEAN /\ acc.unknown \in BOOLEAN
  BY DEF Agrees
<1>2. refuse = [purpose |-> acc.purpose, limits |-> acc.limits,
                unknown |-> acc.unknown, refused |-> TRUE]
  <2> SUFFICES ASSUME NEW x, x = [acc EXCEPT !.refused = TRUE]
               PROVE  x = [purpose |-> acc.purpose, limits |-> acc.limits,
                           unknown |-> acc.unknown, refused |-> TRUE]
    OBVIOUS
  <2>q. QED BY <1>1
<1>3. ASSUME RefusedBy(chain, call, H, R) PROVE Agrees(chain, call, H, R, refuse)
  BY <1>1, <1>2, <1>3 DEF Agrees
<1>4. CASE acc.refused
  <2>1. RefusedBy(chain, call, H \cup {}, Q \cup {p})
    BY <1>4, RefusedStays DEF Agrees
  <2>2. RefusedBy(chain, call, H, R)
    BY <2>1
  <2>3. new = acc
    BY <1>4 DEF StepConstraint
  <2> HIDE DEF new, R
  <2>q. QED BY <1>1, <1>4, <2>2, <2>3 DEF Agrees, R, new, c
<1>5. ASSUME Faulty(chain, call, p) PROVE RefusedBy(chain, call, H, R)
  BY <1>5 DEF RefusedBy
<1>6. CASE ~acc.refused /\ c.type = None
  <2>1. new = refuse
    BY <1>6 DEF StepConstraint
  <2>2. Faulty(chain, call, p)
    BY <1>6 DEF Faulty
  <2> HIDE DEF new, R, refuse
  <2>q. QED BY <1>3, <1>5, <2>1, <2>2 DEF R, new, c
<1>7. CASE ~acc.refused /\ c.type # None
  <2>1. /\ ~Unreadable(chain, H) /\ ~Clash(chain, call, Q)
        /\ \A x \in Q : ~Faulty(chain, call, x)
        /\ acc.unknown <=> UnknownIn(chain, Q)
        /\ \/ Asked(chain, Q) = {} /\ acc.purpose = call.purpose
           \/ Asked(chain, Q) = {acc.purpose}
        /\ acc.limits \in Seq({Use(chain, x) : x \in Positions(chain)})
        /\ \E at : Lists(chain, Q, acc.limits, at)
    BY <1>7 DEF Agrees, RefusedBy
  <2>2. ASSUME c.type # "access.purpose", ~Faulty(chain, call, p)
        PROVE  /\ ~RefusedBy(chain, call, H, R)
               /\ Asked(chain, R) = Asked(chain, Q)
    <3>1. Asked(chain, R) = Asked(chain, Q)
      BY <2>2, OneMore
    <3>2. ~Clash(chain, call, R)
      BY <2>1, <3>1 DEF Clash
    <3>q. QED BY <2>1, <2>2, <3>1, <3>2 DEF RefusedBy
  <2>3. UnknownIn(chain, R) <=> UnknownIn(chain, Q) \/ c.type \notin KnownTypes \cup {None}
    BY DEF UnknownIn
  (* The arms that keep the locals or refuse. *)
  <2>4. ASSUME c.type \in KnownTypes \ {"access.purpose", "access.max_uses"},
               new = IF Faulty(chain, call, p) THEN refuse ELSE acc
        PROVE  Agrees(chain, call, H, R, new)
    <3>1. CASE Faulty(chain, call, p)
      <4> HIDE DEF new, R, refuse
      <4>q. QED BY <1>3, <1>5, <2>4, <3>1
    <3>2. CASE ~Faulty(chain, call, p)
      <4>1. new = acc /\ c.type # "access.purpose" /\ c.type # "access.max_uses"
        BY <2>4, <3>2
      <4>2. ~RefusedBy(chain, call, H, R) /\ Asked(chain, R) = Asked(chain, Q)
        BY <2>2, <3>2, <4>1
      <4>3. acc.unknown <=> UnknownIn(chain, R)
        BY <2>1, <2>3, <2>4
      <4>4. \E at : Lists(chain, R, acc.limits, at)
        BY <2>1, <4>1, ListKept
      <4> HIDE DEF new, R, c
      <4>q. QED BY <1>1, <1>7, <2>1, <4>1, <4>2, <4>3, <4>4 DEF Agrees
    <3>q. QED BY <3>1, <3>2
  <2>5. CASE c.type = "access.authorization_details"
    <3>1. Faulty(chain, call, p) <=> ~authorization_details(c, call)
      BY <1>7, <2>5 DEF Faulty
    <3>2. new = IF authorization_details(c, call) THEN acc ELSE refuse
      BY <1>7, <2>5 DEF StepConstraint
    <3>3. new = IF Faulty(chain, call, p) THEN refuse ELSE acc
      <4> HIDE DEF new, refuse
      <4>q. QED BY <3>1, <3>2
    <3>4. c.type \in KnownTypes \ {"access.purpose", "access.max_uses"}
      BY <2>5 DEF KnownTypes
    <3>q. QED BY <2>4, <3>3, <3>4
  <2>6. CASE c.type = "access.release"
    <3>1. Faulty(chain, call, p) <=> ~release(c, call)
      BY <1>7, <2>6 DEF Faulty
    <3>2. new = IF release(c, call) THEN acc ELSE refuse
      BY <1>7, <2>6 DEF StepConstraint
    <3>3. new = IF Faulty(chain, call, p) THEN refuse ELSE acc
      <4> HIDE DEF new, refuse
      <4>q. QED BY <3>1, <3>2
    <3>4. c.type \in KnownTypes \ {"access.purpose", "access.max_uses"}
      BY <2>6 DEF KnownTypes
    <3>q. QED BY <2>4, <3>3, <3>4
  <2>7. CASE c.type = "access.delegation"
    <3>1. Faulty(chain, call, p) <=> ~delegation(c, DelegationsAfter(chain, p[1]))
      BY <1>7, <2>7 DEF Faulty
    <3>2. new = IF delegation(c, DelegationsAfter(chain, p[1])) THEN acc ELSE refuse
      BY <1>7, <2>7 DEF StepConstraint
    <3>3. new = IF Faulty(chain, call, p) THEN refuse ELSE acc
      <4> HIDE DEF new, refuse
      <4>q. QED BY <3>1, <3>2
    <3>4. c.type \in KnownTypes \ {"access.purpose", "access.max_uses"}
      BY <2>7 DEF KnownTypes
    <3>q. QED BY <2>4, <3>3, <3>4
  <2>8. CASE c.type = "access.max_uses"
    <3>1. Faulty(chain, call, p) <=> ~max_uses(c)
      BY <1>7, <2>8 DEF Faulty
    <3>2. CASE ~max_uses(c)
      <4>1. new = refuse
        BY <1>7, <2>8, <3>2 DEF StepConstraint
      <4> HIDE DEF new, R, refuse
      <4>q. QED BY <1>3, <1>5, <3>1, <3>2, <4>1
    <3>3. CASE max_uses(c)
      <4> DEFINE longer == Append(acc.limits, Use(chain, p))
      <4>1. new = [purpose |-> acc.purpose, limits |-> longer,
                   unknown |-> acc.unknown, refused |-> acc.refused]
        <5>1. new = [acc EXCEPT !.limits = Append(@, <<chain[p[1]].id, c.value>>)]
          BY <1>7, <2>8, <3>3 DEF StepConstraint
        <5> HIDE DEF new
        <5>q. QED BY <1>1, <5>1 DEF Use
      <4>2. ~RefusedBy(chain, call, H, R) /\ Asked(chain, R) = Asked(chain, Q)
        BY <2>2, <2>8, <3>1, <3>3
      <4>3. acc.unknown <=> UnknownIn(chain, R)
        BY <2>1, <2>3, <2>8 DEF KnownTypes
      <4>4. /\ longer \in Seq({Use(chain, x) : x \in Positions(chain)})
            /\ \E at : Lists(chain, R, longer, at)
        BY <2>1, <2>8, ListGrows
      <4> HIDE DEF new, R, longer, c
      <4>q. QED BY <1>1, <1>7, <2>1, <4>1, <4>2, <4>3, <4>4 DEF Agrees
    <3>q. QED BY <3>2, <3>3
  <2>9. CASE c.type = "access.purpose"
    <3>1. Faulty(chain, call, p) <=> c.value = Bad
      BY <1>7, <2>9 DEF Faulty
    <3>2. CASE c.value = Bad
      <4>1. new = refuse
        BY <1>7, <2>9, <3>2 DEF StepConstraint
      <4> HIDE DEF new, R, refuse
      <4>q. QED BY <1>3, <1>5, <3>1, <3>2, <4>1
    <3>3. CASE c.value # Bad
      <4>1. Asked(chain, R) = Asked(chain, Q) \cup {c.value}
        BY <2>9, <3>3, OneMore
      <4>2. \A q \in Asked(chain, Q) : q # None
        BY DEF Asked, Typed, PurposesSaid
      <4>3. c.value # None
        BY <2>9 DEF PurposesSaid
      <4>4. Clash(chain, call, R) <=> acc.purpose \notin {None, c.value}
        <5> HIDE DEF R, c
        <5>1. CASE Asked(chain, Q) = {} /\ acc.purpose = call.purpose
          BY <4>1, <5>1 DEF Clash
        <5>2. CASE Asked(chain, Q) = {acc.purpose}
          BY <2>1, <4>1, <4>2, <5>2 DEF Clash
        <5>q. QED BY <2>1, <5>1, <5>2
      <4>5. CASE acc.purpose \notin {None, c.value}
        <5>1. new = refuse
          BY <1>7, <2>9, <4>5 DEF StepConstraint
        <5>2. RefusedBy(chain, call, H, R)
          BY <4>4, <4>5 DEF RefusedBy
        <5> HIDE DEF new, R, refuse
        <5>q. QED BY <1>3, <5>1, <5>2
      <4>6. CASE acc.purpose \in {None, c.value}
        <5>1. new = [purpose |-> c.value, limits |-> acc.limits,
                     unknown |-> acc.unknown, refused |-> acc.refused]
          <6>1. new = [acc EXCEPT !.purpose = c.value]
            BY <1>7, <2>9, <3>3, <4>6 DEF StepConstraint
          <6> HIDE DEF new
          <6>q. QED BY <1>1, <6>1
        <5>2. ~RefusedBy(chain, call, H, R)
          BY <2>1, <3>1, <3>3, <4>4, <4>6 DEF RefusedBy
        <5>3. Asked(chain, R) = {c.value}
          <6> HIDE DEF R, c
          <6>q. QED BY <2>1, <4>1, <4>2, <4>6
        <5>4. acc.unknown <=> UnknownIn(chain, R)
          BY <2>1, <2>3, <2>9 DEF KnownTypes
        <5>5. \E at : Lists(chain, R, acc.limits, at)
          BY <2>1, <2>9, ListKept
        <5> HIDE DEF new, R, c
        <5>q. QED BY <1>1, <1>7, <2>1, <5>1, <5>2, <5>3, <5>4, <5>5 DEF Agrees
      <4>q. QED BY <4>5, <4>6
    <3>q. QED BY <3>2, <3>3
  <2>10. CASE c.type \notin KnownTypes
    <3>1. new = [purpose |-> acc.purpose, limits |-> acc.limits,
                 unknown |-> TRUE, refused |-> acc.refused]
      <4>1. new = [acc EXCEPT !.unknown = TRUE]
        BY <1>7, <2>10 DEF StepConstraint, KnownTypes
      <4> HIDE DEF new
      <4>q. QED BY <1>1, <4>1
    <3>2. ~Faulty(chain, call, p) /\ c.type # "access.purpose" /\ c.type # "access.max_uses"
      BY <1>7, <2>10 DEF Faulty, KnownTypes
    <3>3. ~RefusedBy(chain, call, H, R) /\ Asked(chain, R) = Asked(chain, Q)
      BY <2>2, <3>2
    <3>4. UnknownIn(chain, R)
      BY <1>7, <2>3, <2>10
    <3>5. \E at : Lists(chain, R, acc.limits, at)
      BY <2>1, <3>2, ListKept
    <3> HIDE DEF new, R, c
    <3>q. QED BY <1>1, <1>7, <2>1, <3>1, <3>3, <3>4, <3>5 DEF Agrees
  <2>q. QED BY <2>5, <2>6, <2>7, <2>8, <2>9, <2>10 DEF KnownTypes
<1>q. QED BY <1>1, <1>4, <1>6, <1>7

(* The locals before the first hop. *)
Start(call) == [purpose |-> call.purpose, limits |-> <<>>, unknown |-> FALSE, refused |-> FALSE]

(* The locals that the recursion over one hop's constraints defines. *)
HopRun(chain, call, acc, i, cs, f) ==
  /\ f = [k \in 0..Len(cs) |-> IF k = 0 THEN acc
                           ELSE StepConstraint(chain, i, call, f[k - 1], cs[k])]
  /\ StepHop(chain, call, acc, i) = f[Len(cs)]

(* There are such locals. *)
LEMMA HopLoop ==
  ASSUME NEW chain, NEW call, NEW acc, NEW i, chain[i].kind # "Closing",
         NEW cs, cs = chain[i].mandate.constraints, cs \notin {None, Bad},
         Len(cs) \in Nat
  PROVE  \E f : HopRun(chain, call, acc, i, cs, f)
<1> DEFINE N == Len(cs)
           start == acc
           Step(x, k) == StepConstraint(chain, i, call, x, cs[k])
           Upto(f, n) == f = [k \in 0..n |-> IF k = 0 THEN start ELSE Step(f[k - 1], k)]
           D == {n \in 0..N : ~(\E f : Upto(f, n))}
<1>1. D = {}
  <2> HIDE DEF Step, start, N
  <2> SUFFICES ASSUME D # {} PROVE FALSE
    OBVIOUS
  <2>1. PICK n \in D : \A m \in D : n <= m
    <3>1. D \in SUBSET Nat
      OBVIOUS
    <3> HIDE DEF D
    <3>q. QED BY <3>1, LeastNatural
  <2>2. n \in 0..N /\ N \in Nat /\ ~(\E f : Upto(f, n))
    BY <2>1 DEF N
  <2>3. CASE n = 0
    <3> DEFINE g == [k \in 0..0 |-> start]
    <3>1. Upto(g, 0)
      <4>1. \A k \in 0..0 : start = IF k = 0 THEN start ELSE Step(g[k - 1], k)
        OBVIOUS
      <4>q. QED BY <4>1
    <3> HIDE DEF g, Upto
    <3>q. QED BY <2>2, <2>3, <3>1
  <2>4. CASE n # 0
    <3>1. n - 1 \in 0..N /\ n \in Nat /\ ~(n <= n - 1)
      BY <2>2, <2>4
    <3>2. PICK h : Upto(h, n - 1)
      <4> HIDE DEF Upto
      <4>q. QED BY <2>1, <3>1
    <3>3. \A k \in 0..(n - 1) : h[k] = IF k = 0 THEN start ELSE Step(h[k - 1], k)
      BY <3>2
    <3> DEFINE g == [k \in 0..n |-> IF k = n THEN Step(h[n - 1], n) ELSE h[k]]
    <3>4. \A k \in 0..n : g[k] = IF k = 0 THEN start ELSE Step(g[k - 1], k)
      <4> TAKE k \in 0..n
      <4>1. CASE k = n
        <5>1. n - 1 \in 0..n /\ n - 1 # n /\ g[n - 1] = h[n - 1]
          BY <3>1
        <5>2. n \in 0..n /\ g[n] = Step(h[n - 1], n)
          BY <3>1
        <5> HIDE DEF g
        <5>q. QED BY <2>4, <4>1, <5>1, <5>2
      <4>2. CASE k # n
        <5>1. k \in 0..(n - 1) /\ g[k] = h[k]
          BY <3>1, <4>2
        <5>2. k # 0 => g[k - 1] = h[k - 1]
          BY <3>1, <4>2
        <5> HIDE DEF g
        <5>q. QED BY <3>3, <5>1, <5>2
      <4>q. QED BY <4>1, <4>2
    <3>5. Upto(g, n)
      <4>1. g = [k \in 0..n |-> g[k]]
        OBVIOUS
      <4> HIDE DEF g
      <4>q. QED BY <3>4, <4>1
    <3> HIDE DEF g, Upto
    <3>q. QED BY <2>2, <3>5
  <2>q. QED BY <2>3, <2>4
<1>2. \E f : Upto(f, N)
  <2>1. N \in 0..N
    OBVIOUS
  <2> HIDE DEF Upto, N
  <2>q. QED BY <1>1, <2>1
<1>q. QED BY <1>2 DEF StepHop, HopRun

(* The locals that the recursion over the hops defines. *)
ChainRun(chain, call, f) ==
  /\ f = [k \in 0..Len(chain) |-> IF k = 0 THEN Start(call)
                           ELSE StepHop(chain, call, f[k - 1], k)]
  /\ EvaluateLoop(chain, call) = f[Len(chain)]

(* There are such locals. *)
LEMMA ChainLoop ==
  ASSUME NEW chain, NEW call, Len(chain) \in Nat
  PROVE  \E f : ChainRun(chain, call, f)
<1> DEFINE N == Len(chain)
           start == Start(call)
           Step(x, k) == StepHop(chain, call, x, k)
           Upto(f, n) == f = [k \in 0..n |-> IF k = 0 THEN start ELSE Step(f[k - 1], k)]
           D == {n \in 0..N : ~(\E f : Upto(f, n))}
<1>1. D = {}
  <2> HIDE DEF Step, start, N
  <2> SUFFICES ASSUME D # {} PROVE FALSE
    OBVIOUS
  <2>1. PICK n \in D : \A m \in D : n <= m
    <3>1. D \in SUBSET Nat
      OBVIOUS
    <3> HIDE DEF D
    <3>q. QED BY <3>1, LeastNatural
  <2>2. n \in 0..N /\ N \in Nat /\ ~(\E f : Upto(f, n))
    BY <2>1 DEF N
  <2>3. CASE n = 0
    <3> DEFINE g == [k \in 0..0 |-> start]
    <3>1. Upto(g, 0)
      <4>1. \A k \in 0..0 : start = IF k = 0 THEN start ELSE Step(g[k - 1], k)
        OBVIOUS
      <4>q. QED BY <4>1
    <3> HIDE DEF g, Upto
    <3>q. QED BY <2>2, <2>3, <3>1
  <2>4. CASE n # 0
    <3>1. n - 1 \in 0..N /\ n \in Nat /\ ~(n <= n - 1)
      BY <2>2, <2>4
    <3>2. PICK h : Upto(h, n - 1)
      <4> HIDE DEF Upto
      <4>q. QED BY <2>1, <3>1
    <3>3. \A k \in 0..(n - 1) : h[k] = IF k = 0 THEN start ELSE Step(h[k - 1], k)
      BY <3>2
    <3> DEFINE g == [k \in 0..n |-> IF k = n THEN Step(h[n - 1], n) ELSE h[k]]
    <3>4. \A k \in 0..n : g[k] = IF k = 0 THEN start ELSE Step(g[k - 1], k)
      <4> TAKE k \in 0..n
      <4>1. CASE k = n
        <5>1. n - 1 \in 0..n /\ n - 1 # n /\ g[n - 1] = h[n - 1]
          BY <3>1
        <5>2. n \in 0..n /\ g[n] = Step(h[n - 1], n)
          BY <3>1
        <5> HIDE DEF g
        <5>q. QED BY <2>4, <4>1, <5>1, <5>2
      <4>2. CASE k # n
        <5>1. k \in 0..(n - 1) /\ g[k] = h[k]
          BY <3>1, <4>2
        <5>2. k # 0 => g[k - 1] = h[k - 1]
          BY <3>1, <4>2
        <5> HIDE DEF g
        <5>q. QED BY <3>3, <5>1, <5>2
      <4>q. QED BY <4>1, <4>2
    <3>5. Upto(g, n)
      <4>1. g = [k \in 0..n |-> g[k]]
        OBVIOUS
      <4> HIDE DEF g
      <4>q. QED BY <3>4, <4>1
    <3> HIDE DEF g, Upto
    <3>q. QED BY <2>2, <3>5
  <2>q. QED BY <2>3, <2>4
<1>2. \E f : Upto(f, N)
  <2>1. N \in 0..N
    OBVIOUS
  <2> HIDE DEF Upto, N
  <2>q. QED BY <1>1, <2>1
<1>q. QED BY <1>2 DEF EvaluateLoop, Start, ChainRun

(* More hops that can be read change nothing in what the locals say. *)
LEMMA HopsAgree ==
  ASSUME NEW chain, NEW call, NEW H, NEW I, NEW Q, NEW acc, Agrees(chain, call, H, Q, acc),
         Unreadable(chain, H) <=> Unreadable(chain, I)
  PROVE  Agrees(chain, call, I, Q, acc)
<1>1. RefusedBy(chain, call, H, Q) <=> RefusedBy(chain, call, I, Q)
  BY DEF RefusedBy
<1>q. QED BY <1>1 DEF Agrees

(* The constraints of one hop, one after the other. *)
LEMMA HopAgrees ==
  ASSUME NEW chain, NEW call, NEW H, NEW Q \in SUBSET Positions(chain), NEW acc,
         PurposesSaid(chain), Agrees(chain, call, H, Q, acc),
         NEW i \in authorizing_hops(chain), \A p \in Q : p[1] # i,
         NEW cs, cs = chain[i].mandate.constraints, cs \notin {None, Bad},
         Len(cs) \in Nat, DOMAIN cs = 1..Len(cs)
  PROVE  Agrees(chain, call, H \cup {i}, Q \cup ({i} \X DOMAIN cs), StepHop(chain, call, acc, i))
<1> DEFINE N == Len(cs)
           Seen(k) == Q \cup {<<i, j>> : j \in 1..k}
           I == H \cup {i}
<1>1. chain[i].kind # "Closing"
  BY DEF authorizing_hops
<1>2. PICK f : HopRun(chain, call, acc, i, cs, f)
  BY <1>1, HopLoop
<1>3. f[0] = acc /\ \A k \in 1..N : f[k] = StepConstraint(chain, i, call, f[k - 1], cs[k])
  <2>1. 0 \in 0..N /\ \A k \in 1..N : k \in 0..N /\ k # 0
    OBVIOUS
  <2>q. QED BY <1>2, <2>1 DEF HopRun
<1>4. Unreadable(chain, H) <=> Unreadable(chain, I)
  BY DEF Unreadable
<1>5. \A k \in 0..N : Agrees(chain, call, I, Seen(k), f[k])
  <2> DEFINE D == {k \in 0..N : ~Agrees(chain, call, I, Seen(k), f[k])}
  <2> SUFFICES ASSUME D # {} PROVE FALSE
    OBVIOUS
  <2>1. PICK k \in D : \A m \in D : k <= m
    <3>1. D \in SUBSET Nat
      OBVIOUS
    <3> HIDE DEF D
    <3>q. QED BY <3>1, LeastNatural
  <2>2. k \in 0..N /\ ~Agrees(chain, call, I, Seen(k), f[k])
    BY <2>1
  <2>3. CASE k = 0
    <3>1. Seen(0) = Q
      <4>1. 1..0 = {}
        OBVIOUS
      <4>q. QED BY <4>1
    <3>2. Agrees(chain, call, I, Q, acc)
      <4> HIDE DEF I
      <4>q. QED BY <1>4, HopsAgree
    <3> HIDE DEF Seen, I
    <3>q. QED BY <1>3, <2>2, <2>3, <3>1, <3>2
  <2>4. CASE k # 0
    <3> DEFINE p == <<i, k>>
    <3>1. k \in 1..N /\ k - 1 \in 0..N /\ ~(k <= k - 1)
      BY <2>2, <2>4
    <3>2. Agrees(chain, call, I, Seen(k - 1), f[k - 1])
      <4> HIDE DEF Seen, I, N
      <4>q. QED BY <2>1, <3>1
    <3>3. \A x \in 1..N : <<i, x>> \in Positions(chain)
      BY DEF Positions
    <3>4. p \in Positions(chain) /\ p[1] = i /\ At(chain, p) = cs[k]
      BY <3>1, <3>3 DEF At
    <3>5. Seen(k) = Seen(k - 1) \cup {p} /\ p \notin Seen(k - 1)
      <4>1. 1..k = 1..(k - 1) \cup {k} /\ k \notin 1..(k - 1)
        BY <3>1
      <4>2. p \notin Q
        BY <3>4
      <4>q. QED BY <4>1, <4>2
    <3>6. Seen(k - 1) \in SUBSET Positions(chain)
      <4>1. \A x \in 1..(k - 1) : x \in 1..N
        BY <3>1
      <4>q. QED BY <3>3, <4>1
    <3>7. f[k] = StepConstraint(chain, p[1], call, f[k - 1], At(chain, p))
      BY <1>3, <3>1, <3>4
    <3> HIDE DEF Seen, I, p
    <3>8. p \in Positions(chain) /\ p \notin Seen(k - 1)
      BY <3>4, <3>5
    <3>9. Agrees(chain, call, I, Seen(k - 1) \cup {p},
                 StepConstraint(chain, p[1], call, f[k - 1], At(chain, p)))
      BY <3>2, <3>6, <3>8, StepAgrees
    <3>q. QED BY <2>2, <3>5, <3>7, <3>9
  <2>q. QED BY <2>3, <2>4
<1>6. N \in 0..N /\ Seen(N) = Q \cup ({i} \X DOMAIN cs)
  <2>1. {<<i, j>> : j \in DOMAIN cs} = {i} \X DOMAIN cs
    OBVIOUS
  <2>q. QED BY <2>1
<1>7. StepHop(chain, call, acc, i) = f[N]
  BY <1>2 DEF HopRun
<1> HIDE DEF Seen, N
<1>q. QED BY <1>5, <1>6, <1>7

(* The constraints in the first h hops. *)
UpTo(chain, h) == {p \in Positions(chain) : p[1] \in 1..h}

(* Where a position is. *)
LEMMA PositionsAre ==
  ASSUME NEW chain, NEW p \in Positions(chain)
  PROVE  /\ p[1] \in authorizing_hops(chain)
         /\ chain[p[1]].mandate.constraints \notin {None, Bad}
         /\ p[2] \in DOMAIN chain[p[1]].mandate.constraints
         /\ p = <<p[1], p[2]>>
<1>1. PICK i \in authorizing_hops(chain) :
        /\ chain[i].mandate.constraints \notin {None, Bad}
        /\ p \in {i} \X DOMAIN chain[i].mandate.constraints
  BY DEF Positions
<1>q. QED BY <1>1

(* What a chain of hops must be for the loop to read it. *)
Readable(chain) ==
  /\ Len(chain) \in Nat /\ DOMAIN chain = 1..Len(chain)
  /\ \A i \in authorizing_hops(chain) :
       LET cs == chain[i].mandate.constraints
       IN  cs \notin {None, Bad} => Len(cs) \in Nat /\ DOMAIN cs = 1..Len(cs)
  /\ PurposesSaid(chain)

(* One more hop. *)
LEMMA HopStepAgrees ==
  ASSUME NEW chain, NEW call, Readable(chain), NEW i \in 1..Len(chain), NEW acc,
         Agrees(chain, call, 1..(i - 1), UpTo(chain, i - 1), acc)
  PROVE  Agrees(chain, call, 1..i, UpTo(chain, i), StepHop(chain, call, acc, i))
<1> DEFINE cs == chain[i].mandate.constraints
           H == 1..(i - 1)
           Q == UpTo(chain, i - 1)
<1>1. i \in Nat \ {0} /\ 1..i = H \cup {i} /\ i \notin H
  BY DEF Readable
<1>2. chain[i].kind = "Closing" \/ i \in authorizing_hops(chain)
  BY DEF Readable, authorizing_hops
<1>3. Q \in SUBSET Positions(chain) /\ \A p \in Q : p[1] \in H
  BY DEF UpTo
<1>4. \A p \in UpTo(chain, i) : p \in Q \/ p[1] = i
  BY <1>1 DEF UpTo
<1>5. Q \subseteq UpTo(chain, i)
  BY <1>1 DEF UpTo
<1> HIDE DEF H, Q
<1>6. CASE chain[i].kind = "Closing" \/ cs = None
  <2>1. StepHop(chain, call, acc, i) = acc
    BY <1>6 DEF StepHop
  <2>2. UpTo(chain, i) = Q
    <3>1. \A p \in UpTo(chain, i) : p[1] # i
      BY <1>6, PositionsAre DEF UpTo, authorizing_hops
    <3>q. QED BY <1>4, <1>5, <3>1
  <2>3. Unreadable(chain, H) <=> Unreadable(chain, H \cup {i})
    BY <1>6, MandatesAssumption DEF Unreadable
  <2>q. QED BY <1>1, <2>1, <2>2, <2>3, HopsAgree DEF H, Q
<1>7. CASE chain[i].kind # "Closing" /\ cs # None /\ cs = Bad
  <2>1. StepHop(chain, call, acc, i) = [acc EXCEPT !.refused = TRUE]
    BY <1>7 DEF StepHop
  <2>2. RefusedBy(chain, call, 1..i, UpTo(chain, i))
    BY <1>1, <1>7 DEF RefusedBy, Unreadable
  <2>3. /\ acc = [purpose |-> acc.purpose, limits |-> acc.limits,
                  unknown |-> acc.unknown, refused |-> acc.refused]
        /\ acc.unknown \in BOOLEAN
    BY DEF Agrees
  <2> SUFFICES ASSUME NEW x, x = [acc EXCEPT !.refused = TRUE]
               PROVE  Agrees(chain, call, 1..i, UpTo(chain, i), x)
    BY <2>1
  <2>4. x = [purpose |-> acc.purpose, limits |-> acc.limits,
             unknown |-> acc.unknown, refused |-> TRUE]
    BY <2>3
  <2>q. QED BY <2>2, <2>3, <2>4 DEF Agrees
<1>8. CASE chain[i].kind # "Closing" /\ cs # None /\ cs # Bad
  <2>1. i \in authorizing_hops(chain) /\ Len(cs) \in Nat /\ DOMAIN cs = 1..Len(cs)
    BY <1>2, <1>8 DEF Readable
  <2>2. UpTo(chain, i) = Q \cup ({i} \X DOMAIN cs)
    <3>1. ASSUME NEW p \in UpTo(chain, i), p \notin Q PROVE p \in {i} \X DOMAIN cs
      <4>1. p[1] = i /\ p \in Positions(chain)
        BY <1>4, <3>1 DEF UpTo
      <4>q. QED BY <4>1, PositionsAre
    <3>2. ASSUME NEW p \in {i} \X DOMAIN cs PROVE p \in UpTo(chain, i)
      <4>1. p \in Positions(chain)
        BY <1>8, <2>1 DEF Positions
      <4>2. p[1] = i /\ i \in 1..i
        BY <1>1
      <4>q. QED BY <4>1, <4>2 DEF UpTo
    <3>q. QED BY <1>5, <3>1, <3>2
  <2>3. \A p \in Q : p[1] # i
    BY <1>1, <1>3
  <2>4. PurposesSaid(chain) /\ Agrees(chain, call, H, Q, acc)
    BY DEF Readable, H, Q
  <2> HIDE DEF cs
  <2>5. cs \notin {None, Bad} /\ cs = chain[i].mandate.constraints
    BY <1>8 DEF cs
  <2>q. QED BY <1>1, <1>3, <2>1, <2>2, <2>3, <2>4, <2>5, HopAgrees
<1>q. QED BY <1>6, <1>7, <1>8

(* The whole loop. *)
LEMMA ChainAgrees ==
  ASSUME NEW chain, NEW call, Readable(chain)
  PROVE  Agrees(chain, call, 1..Len(chain), Positions(chain), EvaluateLoop(chain, call))
<1> DEFINE N == Len(chain)
           Good(f, i) == Agrees(chain, call, 1..i, UpTo(chain, i), f[i])
<1>1. N \in Nat /\ DOMAIN chain = 1..N
  BY DEF Readable
<1>2. PICK f : ChainRun(chain, call, f)
  BY <1>1, ChainLoop
<1>7. EvaluateLoop(chain, call) = f[N]
  BY <1>2 DEF ChainRun
<1>3. f[0] = Start(call) /\ \A i \in 1..N : f[i] = StepHop(chain, call, f[i - 1], i)
  <2>1. 0 \in 0..N /\ \A i \in 1..N : i \in 0..N /\ i # 0
    BY <1>1
  <2>q. QED BY <1>2, <2>1 DEF ChainRun
<1> HIDE DEF N
<1>4. \A i \in 0..N : Good(f, i)
  <2> DEFINE D == {i \in 0..N : ~Good(f, i)}
  <2> SUFFICES ASSUME D # {} PROVE FALSE
    OBVIOUS
  <2>1. PICK i \in D : \A m \in D : i <= m
    <3>1. D \in SUBSET Nat
      BY <1>1
    <3> HIDE DEF D
    <3>q. QED BY <3>1, LeastNatural
  <2>2. i \in 0..N /\ ~Good(f, i)
    BY <2>1
  <2>3. CASE i = 0
    <3>1. UpTo(chain, 0) = {} /\ 1..0 = {}
      BY DEF UpTo
    <3>2. Agrees(chain, call, {}, {}, Start(call))
      <4>1. ~RefusedBy(chain, call, {}, {}) /\ ~UnknownIn(chain, {}) /\ Asked(chain, {}) = {}
        BY DEF RefusedBy, Unreadable, Clash, Asked, Typed, UnknownIn
      <4>2. \E at : Lists(chain, {}, <<>>, at)
        <5>1. [k \in {} |-> k] \in [1..0 -> {}]
          OBVIOUS
        <5>2. Typed(chain, {}, "access.max_uses") = {} /\ Len(<<>>) = 0
          BY DEF Typed
        <5>q. QED BY <5>1, <5>2 DEF Lists
      <4>3. <<>> \in Seq({Use(chain, p) : p \in Positions(chain)})
        OBVIOUS
      <4>q. QED BY <4>1, <4>2, <4>3 DEF Agrees, Start
    <3>q. QED BY <1>3, <2>2, <2>3, <3>1, <3>2
  <2>4. CASE i # 0
    <3>1. i \in 1..N /\ i - 1 \in 0..N /\ ~(i <= i - 1)
      BY <1>1, <2>2, <2>4
    <3>2. Good(f, i - 1)
      <4> HIDE DEF Good
      <4>q. QED BY <2>1, <3>1
    <3>3. Agrees(chain, call, 1..i, UpTo(chain, i), StepHop(chain, call, f[i - 1], i))
      BY <3>1, <3>2, HopStepAgrees DEF N
    <3>q. QED BY <1>3, <2>2, <3>1, <3>3
  <2>q. QED BY <2>3, <2>4
<1>5. Good(f, N)
  <2>1. N \in 0..N
    BY <1>1
  <2> HIDE DEF Good
  <2>q. QED BY <1>4, <2>1
<1>6. UpTo(chain, N) = Positions(chain)
  BY <1>1, PositionsAre DEF UpTo, authorizing_hops
<1>q. QED BY <1>5, <1>6, <1>7 DEF N

(* The quantified form speaks of the same constraints, all of them. *)
LEMMA SameRefusals ==
  ASSUME NEW chain, NEW call, Readable(chain)
  PROVE  /\ RefusedBy(chain, call, 1..Len(chain), Positions(chain)) <=> Refuses(chain, call)
         /\ UnknownIn(chain, Positions(chain)) <=> Unknown(chain)
         /\ Asked(chain, Positions(chain)) = RequiredPurposes(chain)
         /\ Typed(chain, Positions(chain), "access.max_uses") = OfType(chain, "access.max_uses")
<1> DEFINE Q == Positions(chain)
<1>1. \A type : Typed(chain, Q, type) = OfType(chain, type)
  BY DEF Typed, OfType
<1>2. Asked(chain, Q) = RequiredPurposes(chain)
  BY <1>1 DEF Asked, RequiredPurposes
<1>3. UnknownIn(chain, Q) <=> Unknown(chain)
  BY DEF UnknownIn, Unknown
<1>4. Unreadable(chain, 1..Len(chain))
        <=> \E i \in authorizing_hops(chain) : chain[i].mandate.constraints = Bad
  BY DEF Unreadable, authorizing_hops, Readable
<1>5. constrain_purpose(chain, call) <=>
        /\ \A p \in Q : At(chain, p).type = "access.purpose" => At(chain, p).value # Bad
        /\ ~Clash(chain, call, Q)
  BY <1>2 DEF constrain_purpose, Clash, OfType
<1>6. ASSUME NEW p \in Q
      PROVE  Faulty(chain, call, p) <=>
               \/ At(chain, p).type = "access.purpose" /\ At(chain, p).value = Bad
               \/ LET c == At(chain, p)
                  IN  \/ c.type = None
                      \/ c.type = "access.authorization_details"
                           /\ ~authorization_details(c, call)
                      \/ c.type = "access.release" /\ ~release(c, call)
                      \/ c.type = "access.max_uses" /\ ~max_uses(c)
                      \/ /\ c.type = "access.delegation"
                         /\ ~delegation(c, DelegationsAfter(chain, p[1]))
  BY DEF Faulty
<1>7. RefusedBy(chain, call, 1..Len(chain), Q) <=> Refuses(chain, call)
  BY <1>4, <1>5, <1>6 DEF RefusedBy, Refuses
<1>q. QED BY <1>1, <1>2, <1>3, <1>7

(* Entries of the set of limits and of the list of limits, counted alike. *)
LEMMA SameCount ==
  ASSUME NEW chain, NEW limits, Len(limits) \in Nat, DOMAIN limits = 1..Len(limits),
         \E at : Lists(chain, Positions(chain), limits, at), NEW x
  PROVE  Cardinality({y \in Limits(chain) : <<y.id, y.limit>> = x})
           = Cardinality({k \in DOMAIN limits : limits[k] = x})
<1> DEFINE T == OfType(chain, "access.max_uses")
           Y == {y \in Limits(chain) : <<y.id, y.limit>> = x}
           K == {k \in DOMAIN limits : limits[k] = x}
           entry(p) == [id |-> chain[p[1]].id, at |-> p, limit |-> At(chain, p).value]
<1>1. T = Typed(chain, Positions(chain), "access.max_uses")
  BY DEF OfType, Typed
<1>2. PICK at : /\ at \in [1..Len(limits) -> T]
                /\ \A p \in T : \E k \in 1..Len(limits) : at[k] = p
                /\ \A j, k \in 1..Len(limits) : at[j] = at[k] => j = k
                /\ \A k \in 1..Len(limits) : limits[k] = Use(chain, at[k])
  BY <1>1 DEF Lists
<1>3. Limits(chain) = {entry(p) : p \in T}
  BY DEF Limits
<1> HIDE DEF T
<1>4. \A p : /\ entry(p).at = p /\ <<entry(p).id, entry(p).limit>> = Use(chain, p)
  BY DEF Use
<1> HIDE DEF entry
<1> DEFINE to == [k \in K |-> entry(at[k])]
<1>5. \A k \in K : k \in 1..Len(limits) /\ Use(chain, at[k]) = x /\ at[k] \in T
  BY <1>2
<1>6. \A k \in K : entry(at[k]) \in Y
  BY <1>3, <1>4, <1>5
<1>7. to \in [K -> Y]
  BY <1>6
<1>8. \A j, k \in K : to[j] = to[k] => j = k
  <2> TAKE j, k \in K
  <2>1. to[j].at = at[j] /\ to[k].at = at[k]
    BY <1>4
  <2> HIDE DEF to
  <2>q. QED BY <1>2, <1>5, <2>1
<1>9. \A y \in Y : \E k \in K : to[k] = y
  <2> TAKE y \in Y
  <2>1. PICK p \in T : y = entry(p)
    BY <1>3
  <2>2. PICK k \in 1..Len(limits) : at[k] = p
    BY <1>2
  <2>3. limits[k] = x
    BY <1>2, <1>4, <2>1, <2>2
  <2>q. QED BY <2>1, <2>2, <2>3
<1> HIDE DEF to, Y
<1>10. IsFiniteSet(K)
  <2>1. IsFiniteSet(1..Len(limits))
    BY FS_Interval
  <2>2. K \in SUBSET (1..Len(limits))
    OBVIOUS
  <2> HIDE DEF K
  <2>q. QED BY <2>1, <2>2, FS_Subset
<1> HIDE DEF K
<1>11. ExistsBijection(K, Y)
  BY <1>7, <1>8, <1>9 DEF ExistsBijection, Bijection, Injection, Surjection, IsInjective
<1>12. Cardinality(Y) = Cardinality(K)
  BY <1>10, <1>11, FS_Bijection
<1>q. QED BY <1>12 DEF Y, K

(* What the loop returns is what the quantified form says. *)
LEMMA LoopIsEvaluate ==
  ASSUME NEW chain, NEW call, Readable(chain)
  PROVE  LET e == evaluate(chain, call)
             l == EvaluateLoop(chain, call)
         IN  /\ e.result = IF l.refused THEN "Refused"
                           ELSE IF l.unknown THEN "Unresolved" ELSE "Covered"
             /\ e.result = "Covered" =>
                  /\ e.purpose = l.purpose
                  /\ \A x : Cardinality({y \in e.limits : <<y.id, y.limit>> = x})
                              = Cardinality({k \in DOMAIN l.limits : l.limits[k] = x})
<1> DEFINE e == evaluate(chain, call)
           l == EvaluateLoop(chain, call)
<1>1. Agrees(chain, call, 1..Len(chain), Positions(chain), l)
  BY ChainAgrees
<1>2. /\ l.refused \in BOOLEAN /\ l.unknown \in BOOLEAN
      /\ l.refused <=> Refuses(chain, call)
      /\ ~l.refused =>
           /\ l.unknown <=> Unknown(chain)
           /\ \/ RequiredPurposes(chain) = {} /\ l.purpose = call.purpose
              \/ RequiredPurposes(chain) = {l.purpose}
           /\ l.limits \in Seq({Use(chain, p) : p \in Positions(chain)})
           /\ \E at : Lists(chain, Positions(chain), l.limits, at)
  BY <1>1, SameRefusals DEF Agrees
<1> HIDE DEF l
<1>3. e.result = IF l.refused THEN "Refused"
                 ELSE IF l.unknown THEN "Unresolved" ELSE "Covered"
  BY <1>2 DEF evaluate
<1>4. ASSUME e.result = "Covered"
      PROVE  /\ e.purpose = l.purpose
             /\ \A x : Cardinality({y \in e.limits : <<y.id, y.limit>> = x})
                         = Cardinality({k \in DOMAIN l.limits : l.limits[k] = x})
  <2>1. ~Refuses(chain, call) /\ ~Unknown(chain) /\ ~l.refused
    BY <1>2, <1>4 DEF evaluate
  <2>2. e = [result |-> "Covered", purpose |-> FixedPurpose(chain, call),
             limits |-> Limits(chain)]
    BY <2>1 DEF evaluate
  <2>3. e.purpose = FixedPurpose(chain, call) /\ e.limits = Limits(chain)
    BY <2>2
  <2>4. FixedPurpose(chain, call) = l.purpose
    <3>1. CASE RequiredPurposes(chain) = {} /\ l.purpose = call.purpose
      BY <3>1 DEF FixedPurpose
    <3>2. CASE RequiredPurposes(chain) = {l.purpose}
      <4>1. call.purpose \in {None, l.purpose}
        BY <2>1, <3>2 DEF Refuses, constrain_purpose
      <4>q. QED BY <3>2, <4>1 DEF FixedPurpose
    <3>q. QED BY <1>2, <2>1, <3>1, <3>2
  <2>5. Len(l.limits) \in Nat /\ DOMAIN l.limits = 1..Len(l.limits)
    BY <1>2, <2>1
  <2> HIDE DEF e
  <2>6. \A x : Cardinality({y \in Limits(chain) : <<y.id, y.limit>> = x})
                 = Cardinality({k \in DOMAIN l.limits : l.limits[k] = x})
    <3> DEFINE limits == l.limits
    <3>1. \E at : Lists(chain, Positions(chain), limits, at)
      BY <1>2, <2>1
    <3>2. Len(limits) \in Nat /\ DOMAIN limits = 1..Len(limits)
      BY <2>5
    <3> HIDE DEF limits
    <3>3. \A x : Cardinality({y \in Limits(chain) : <<y.id, y.limit>> = x})
                   = Cardinality({k \in DOMAIN limits : limits[k] = x})
      BY <3>1, <3>2, SameCount
    <3>q. QED BY <3>3 DEF limits
  <2>q. QED BY <2>3, <2>4, <2>6
<1>q. QED BY <1>3, <1>4 DEF l

(* The chain a holder closes can be read by the loop. *)
LEMMA ClosedIsReadable == HopsInv => Readable(Closed(hops))
<1> SUFFICES ASSUME HopsInv PROVE Readable(Closed(hops))
  OBVIOUS
<1> DEFINE n == Len(hops)
           a == Closed(hops)
<1>1. hops \in Seq(AuthorizingHops) /\ n \in Nat /\ DOMAIN hops = 1..n
  BY DEF HopsInv
<1>2. /\ DOMAIN a = 1..(n + 1) /\ Len(a) = n + 1 /\ a[n + 1] = ClosingHop
      /\ \A i \in 1..n : a[i] = hops[i]
  BY <1>1 DEF Closed
<1>3. \A i \in authorizing_hops(a) : i \in 1..n
  BY <1>1, <1>2 DEF authorizing_hops, ClosingHop, Hop
<1> HIDE DEF a, n
<1>4. \A i \in authorizing_hops(a) : a[i].mandate.constraints \in RootMandates \cup HopMandates
  <2> TAKE i \in authorizing_hops(a)
  <2>1. i \in 1..n /\ a[i] = hops[i] /\ hops[i] \in AuthorizingHops
    BY <1>1, <1>2, <1>3
  <2>q. QED BY <2>1 DEF AuthorizingHops
<1>5. \A i \in authorizing_hops(a) :
        LET cs == a[i].mandate.constraints
        IN  cs \notin {None, Bad} => Len(cs) \in Nat /\ DOMAIN cs = 1..Len(cs)
  BY <1>4, MandatesAssumption
<1>6. PurposesSaid(a)
  <2> SUFFICES ASSUME NEW p \in Positions(a), At(a, p).type = "access.purpose"
               PROVE  At(a, p).value # None
    BY DEF PurposesSaid
  <2> DEFINE cs == a[p[1]].mandate.constraints
  <2>1. p[1] \in authorizing_hops(a) /\ cs \notin {None, Bad} /\ p[2] \in DOMAIN cs
    BY PositionsAre
  <2>2. cs \in RootMandates \cup HopMandates /\ At(a, p) = cs[p[2]]
    BY <1>4, <2>1 DEF At
  <2> HIDE DEF cs
  <2>q. QED BY <2>1, <2>2, MandatesAssumption
<1>7. Len(a) \in Nat /\ DOMAIN a = 1..Len(a)
  BY <1>1, <1>2
<1>q. QED BY <1>5, <1>6, <1>7 DEF Readable, a

(* The quantified form of evaluate, on which the proofs about the engine and *)
(* about delegation rest, returns what the loop of constraints.rs returns,   *)
(* for any chain a surface and holders can write and any call.               *)
THEOREM LoopAgreesHolds == Spec => []LoopAgrees
<1>1. HopsInv => LoopAgrees
  BY ClosedIsReadable, LoopIsEvaluate DEF LoopAgrees
<1> QED BY HopsInit, HopsStep, <1>1, PTL DEF Spec
=============================================================================
