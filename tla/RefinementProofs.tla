-------------------------- MODULE RefinementProofs --------------------------
(***************************************************************************)
(* Engine implements Authorizer, for any number of threads, nonces,        *)
(* requests, hops and calls.                                               *)
(***************************************************************************)
EXTENDS EngineProofs, EngineRefinement

(* A thread that decides nothing holds no request. *)
IdleClear == \A t \in Threads : pc[t] = "idle" => req[t] = None

RefinementInv == TypeOK /\ Underway /\ NonceInv /\ LimitInv /\ RevocationInv /\ IdleClear

(* Only Return makes a thread idle. *)
LEMMA IdleStep ==
  ASSUME TypeOK, IdleClear, [Next]_vars
  PROVE  IdleClear'
<1>1. CASE UNCHANGED <<pc, req>>
  BY <1>1 DEF IdleClear
<1>2. ASSUME NEW t \in Threads, NEW r \in Requests, decide(t, r) PROVE IdleClear'
  <2>1. \A u \in Threads \ {t} : pc'[u] = pc[u] /\ req'[u] = req[u]
    BY <1>2, DecideLocal DEF decide, TypeOK
  <2>2. pc'[t] # "idle"
    BY <1>2, DecideLocal
  <2> QED BY <2>1, <2>2 DEF IdleClear
<1>3. ASSUME NEW t \in Threads, Step(t) PROVE IdleClear'
  <2>1. /\ \A u \in Threads \ {t} : pc'[u] = pc[u]
        /\ req' = req /\ pc'[t] # "idle"
    BY <1>3, StepLocal
  <2> QED BY <2>1 DEF IdleClear
<1>4. ASSUME NEW t \in Threads, Return(t) PROVE IdleClear'
  BY <1>4 DEF IdleClear, Return, TypeOK
<1> QED BY <1>1, <1>2, <1>3, <1>4
        DEF Next, Issue, Revoke, Poison, Tick, locals, vars

---------------------------------------------------------------------------
(* How the abstract state follows the concrete one. *)

(* A step that no thread enters or leaves try_consume with. *)
LEMMA OutstandingSame ==
  ASSUME \A u \in Threads : pc'[u] = "uses" <=> pc[u] = "uses",
         \A u \in Threads : pc[u] = "uses" => req'[u] = req[u]
  PROVE  /\ issued' = issued => Outstanding' = Outstanding
         /\ \A n : issued' = issued \cup {n} => Outstanding' = Outstanding \cup {n}
<1> DEFINE H == {RequestNonce(req[u]) : u \in {v \in Threads : pc[v] = "uses"}}
           I == {RequestNonce(req'[u]) : u \in {v \in Threads : pc'[v] = "uses"}}
<1>1. H = I
  OBVIOUS
<1>2. Outstanding = issued \cup H /\ Outstanding' = issued' \cup I
  BY DEF Outstanding, RequestNonce
<1> HIDE DEF H, I
<1> QED BY <1>1, <1>2

(* consume() takes the nonce from the store into the thread's hands. *)
LEMMA OutstandingTaken ==
  ASSUME NEW t \in Threads, pc[t] # "uses", pc'[t] = "uses",
         \A u \in Threads \ {t} : pc'[u] = pc[u], req' = req,
         NEW n, n = RequestNonce(req[t]), n \in issued, issued' = issued \ {n}
  PROVE  Outstanding' = Outstanding
<1> DEFINE H == {RequestNonce(req[u]) : u \in {v \in Threads : pc[v] = "uses"}}
           I == {RequestNonce(req'[u]) : u \in {v \in Threads : pc'[v] = "uses"}}
<1>1. I = H \cup {n}
  OBVIOUS
<1>2. Outstanding = issued \cup H /\ Outstanding' = issued' \cup I
  BY DEF Outstanding, RequestNonce
<1> HIDE DEF H, I
<1> QED BY <1>1, <1>2

(* A call that leaves try_consume has spent its nonce. *)
LEMMA OutstandingSpent ==
  ASSUME TypeOK, NonceInv, NEW t \in Threads, pc[t] = "uses", pc'[t] # "uses",
         \A u \in Threads \ {t} : pc'[u] = pc[u], req' = req, issued' = issued
  PROVE  /\ RequestNonce(req[t]) \in Outstanding
         /\ Outstanding' = Outstanding \ {RequestNonce(req[t])}
<1> DEFINE n == RequestNonce(req[t])
           H == {RequestNonce(req[u]) : u \in {v \in Threads : pc[v] = "uses"}}
           I == {RequestNonce(req'[u]) : u \in {v \in Threads : pc'[v] = "uses"}}
<1>1. \A u \in Threads : pc[u] = "uses" => RequestNonce(req[u]) = NonceOf(u)
  BY DEF TypeOK, RequestNonce, NonceOf
<1>2. n \in H /\ n \notin issued
  BY <1>1 DEF NonceInv
<1>3. \A u \in Threads : pc[u] = "uses" /\ RequestNonce(req[u]) = n => u = t
  BY <1>1 DEF NonceInv
<1>4. I = H \ {n}
  BY <1>3
<1>5. Outstanding = issued \cup H /\ Outstanding' = issued' \cup I
  BY DEF Outstanding, RequestNonce
<1> HIDE DEF H, I, n
<1>6. n \in Outstanding /\ Outstanding' = Outstanding \ {n}
  BY <1>2, <1>4, <1>5
<1> QED BY <1>6 DEF n

(* A refused call may lose its nonce, in the store or in hand. *)
LEMMA OutstandingDropped ==
  ASSUME NEW t \in Threads, pc[t] # "uses", pc'[t] # "uses",
         \A u \in Threads \ {t} : pc'[u] = pc[u], req' = req, TypeOK, NonceInv,
         NEW n, n = RequestNonce(req[t]), n \in issued, issued' = issued \ {n}
  PROVE  Outstanding' = Outstanding \ {n}
<1> DEFINE H == {RequestNonce(req[u]) : u \in {v \in Threads : pc[v] = "uses"}}
           I == {RequestNonce(req'[u]) : u \in {v \in Threads : pc'[v] = "uses"}}
<1>1. \A u \in Threads : pc[u] = "uses" => RequestNonce(req[u]) = NonceOf(u)
  BY DEF TypeOK, RequestNonce, NonceOf
<1>2. n \notin H
  BY <1>1 DEF NonceInv
<1>3. I = H
  OBVIOUS
<1>4. Outstanding = issued \cup H /\ Outstanding' = issued' \cup I
  BY DEF Outstanding, RequestNonce
<1> HIDE DEF H, I
<1> QED BY <1>2, <1>3, <1>4

(* A step of one thread changes only that thread's answer. *)
LEMMA AnswerLocal ==
  ASSUME NEW t \in Threads,
         \A u \in Threads \ {t} : pc'[u] = pc[u] /\ decision'[u] = decision[u]
  PROVE  Answers' = [Answers EXCEPT ![t] = Answer(t)']
BY DEF Answers, Answer

(* A step that leaves `before` alone leaves what the calls began with. *)
LEMMA SinceSame ==
  ASSUME before' = before
  PROVE  Beginnings' = Beginnings
BY DEF Beginnings, Since
---------------------------------------------------------------------------
(* The actions. *)

(* issue() hands out a nonce. *)
LEMMA IssueRefines ==
  ASSUME TypeOK, Issue
  PROVE  \E n \in NonceValues : Auth!Issue(n)
<1>1. PICK n \in NonceValues \ drawn :
        /\ issued' = IF "nonces" \in poisoned THEN issued ELSE issued \cup {n}
        /\ drawn' = drawn \cup {n}
        /\ UNCHANGED <<revoked, counts, poisoned, clock, locals, calls,
                       revokeDone, before, granted, charges, passes>>
  BY DEF Issue
<1>2. UNCHANGED <<pc, req, decision>>
  BY <1>1 DEF locals
<1>3. Beginnings' = Beginnings /\ Answers' = Answers
  BY <1>1, <1>2, SinceSame DEF Answers, Answer
<1>4. Outstanding' = Outstanding \cup {n} \/ (poisoned # {} /\ Outstanding' = Outstanding)
  BY <1>1, <1>2, OutstandingSame
<1>5. Auth!Issue(n)
  BY <1>1, <1>2, <1>3, <1>4 DEF Auth!Issue
<1> QED BY <1>5

(* What the world does besides calling. *)
LEMMA MappingSame ==
  ASSUME UNCHANGED <<pc, req, decision, issued, before>>
  PROVE  Outstanding' = Outstanding /\ Beginnings' = Beginnings /\ Answers' = Answers
BY OutstandingSame, SinceSame DEF Answers, Answer

(* revoke() is a revocation, stored or not. *)
LEMMA RevokeRefines == ASSUME NEW m, Revoke(m) PROVE Auth!Revoke(m)
<1>1. UNCHANGED <<pc, req, decision, issued, before, drawn, poisoned, granted>>
  BY DEF Revoke, locals
<1> QED BY <1>1, MappingSame DEF Revoke, Auth!Revoke

(* The first poisoned lock breaks storage for good. *)
LEMMA PoisonRefines == ASSUME NEW s, Poison(s) PROVE Auth!Break
<1>1. UNCHANGED <<pc, req, decision, issued, before, drawn, revokeDone, granted>>
  BY DEF Poison, locals, history
<1>2. (poisoned # {})' = TRUE
  BY DEF Poison
<1> QED BY <1>1, <1>2, MappingSame DEF Auth!Break

(* Time is invisible. *)
LEMMA TickRefines ==
  ASSUME UNCHANGED <<pc, req, decision, issued, before, drawn, revokeDone, poisoned, granted>>
  PROVE  UNCHANGED Auth!vars
BY MappingSame DEF Auth!vars

(* decide() begins a call, and may end it at once. *)
LEMMA DecideRefines ==
  ASSUME TypeOK, IdleClear, NEW t \in Threads, NEW r \in Requests, decide(t, r)
  PROVE  Auth!Begin(t, r)
<1>1. /\ pc[t] = "idle" /\ req' = [req EXCEPT ![t] = r]
      /\ before' = [before EXCEPT ![t] = [revoked |-> revokeDone, poisoned |-> poisoned]]
      /\ UNCHANGED <<issued, revoked, poisoned, drawn, revokeDone, granted>>
  BY DEF decide, stores
<1>2. req[t] = None
  BY <1>1 DEF IdleClear
<1>3. /\ \A u \in Threads \ {t} : pc'[u] = pc[u] /\ decision'[u] = decision[u]
      /\ \/ pc'[t] = "done" /\ decision'[t].kind # "Pass"
         \/ pc'[t] = "revocations"
  BY DecideLocal
<1>4. Outstanding' = Outstanding
  BY <1>1, <1>3, OutstandingSame DEF TypeOK
<1>5. Beginnings' = [Beginnings EXCEPT ![t] = [revoked |-> revokeDone, broken |-> poisoned # {}]]
  <2>1. /\ before'[t] = [revoked |-> revokeDone, poisoned |-> poisoned]
        /\ \A u \in Threads \ {t} : before'[u] = before[u]
    BY <1>1 DEF TypeOK
  <2>2. /\ Since(t)' = [revoked |-> revokeDone, broken |-> poisoned # {}]
        /\ \A u \in Threads \ {t} : Since(u)' = Since(u)
    BY <2>1 DEF Since
  <2> QED BY <2>2 DEF Beginnings
<1>6. Answers' = [Answers EXCEPT ![t] = Answer(t)']
  BY <1>3, AnswerLocal
<1>7. Answer(t) = None /\ Answers[t] = None /\ Answer(t)' \in {None, "refused"}
  BY <1>1, <1>3 DEF Answer, Answers
<1>8. Answers' = Answers \/ Answers' = [Answers EXCEPT ![t] = "refused"]
  <2>1. Answers = [Answers EXCEPT ![t] = Answers[t]]
    BY DEF Answers
  <2> QED BY <1>6, <1>7, <2>1
<1> QED BY <1>1, <1>2, <1>4, <1>5, <1>8 DEF Auth!Begin

(* The caller takes the decision. *)
LEMMA ReturnRefines ==
  ASSUME TypeOK, NEW t \in Threads, Return(t)
  PROVE  Auth!Return(t)
<1>1. /\ pc[t] = "done" /\ pc' = [pc EXCEPT ![t] = "idle"]
      /\ decision' = [decision EXCEPT ![t] = None]
      /\ req' = [req EXCEPT ![t] = None]
      /\ before' = [before EXCEPT ![t] = [revoked |-> {}, poisoned |-> {}]]
      /\ UNCHANGED <<issued, revoked, poisoned, drawn, revokeDone, granted>>
  BY DEF Return, stores
<1>2. /\ pc'[t] = "idle"
      /\ \A u \in Threads \ {t} : pc'[u] = pc[u] /\ decision'[u] = decision[u] /\ req'[u] = req[u]
  BY <1>1 DEF TypeOK
<1>3. Outstanding' = Outstanding
  BY <1>1, <1>2, OutstandingSame
<1>4. Beginnings' = [Beginnings EXCEPT ![t] = [revoked |-> {}, broken |-> FALSE]]
  <2>1. /\ before'[t] = [revoked |-> {}, poisoned |-> {}]
        /\ \A u \in Threads \ {t} : before'[u] = before[u]
    BY <1>1 DEF TypeOK
  <2>2. (before'[t].poisoned # {}) = FALSE /\ before'[t].revoked = {}
    BY <2>1
  <2>3. Since(t)' = [revoked |-> {}, broken |-> FALSE]
    BY <2>2, Zenon DEF Since
  <2>4. \A u \in Threads \ {t} : Since(u)' = Since(u)
    BY <2>1 DEF Since
  <2> QED BY <2>3, <2>4 DEF Beginnings
<1>5. Answers' = [Answers EXCEPT ![t] = None]
  <2>1. Answer(t)' = None
    BY <1>2 DEF Answer
  <2> QED BY <1>2, <2>1, AnswerLocal
<1>6. Answers[t] # None
  BY <1>1, AnswerAssumption DEF Answers, Answer
<1> QED BY <1>1, <1>3, <1>4, <1>5, <1>6 DEF Auth!Return
(* A step of decide() either goes on, which nobody can see, refuses the    *)
(* call, or grants it.                                                     *)
LEMMA StepRefines ==
  ASSUME RefinementInv, NEW t \in Threads, Step(t)
  PROVE  Auth!Grant(t) \/ Auth!Refuse(t) \/ UNCHANGED Auth!vars
<1> DEFINE r == req[t]
           n == RequestNonce(r)
<1>1. TypeOK /\ Underway /\ NonceInv
  BY DEF RefinementInv
<1>2. /\ \A u \in Threads \ {t} : pc'[u] = pc[u] /\ decision'[u] = decision[u]
      /\ pc[t] \in {"revocations", "evaluate", "nonce", "uses"}
      /\ pc'[t] \in {"revocations", "evaluate", "nonce", "uses", "done"}
      /\ req' = req /\ before' = before
  BY <1>1, StepLocal
<1>3. UNCHANGED <<drawn, revokeDone, poisoned>>
  BY DEF Step, IsRevoked, Evaluate, Consume, TryConsume, Granted, BackendFails, stores, history
<1>4. Beginnings' = Beginnings
  BY <1>2, SinceSame
<1>5. r \in Requests /\ r # None /\ presentation[r] # None /\ n = presentation[r].nonce
  BY <1>1, <1>2, EngineAssumption DEF TypeOK, RequestNonce
<1>6. Answers' = [Answers EXCEPT ![t] = Answer(t)'] /\ Answers[t] = None
  BY <1>2, AnswerLocal DEF Answers, Answer
<1>7. Nonce[r] = n
  BY <1>5 DEF Nonce
<1> HIDE DEF n, r
<1>8. ASSUME pc'[t] # "done", UNCHANGED granted, Outstanding' = Outstanding
      PROVE  UNCHANGED Auth!vars
  <2>1. Answer(t)' = None
    BY <1>8 DEF Answer
  <2>2. Answers' = Answers
    BY <1>6, <2>1 DEF Answers
  <2> QED BY <1>2, <1>3, <1>4, <1>8, <2>2 DEF Auth!vars
<1>9. ASSUME pc'[t] = "done", decision'[t].kind # "Pass", UNCHANGED granted,
             Outstanding' \in {Outstanding, Outstanding \ {n}}
      PROVE  Auth!Refuse(t)
  <2>1. Answer(t)' = "refused"
    BY <1>9 DEF Answer
  <2> QED BY <1>2, <1>3, <1>4, <1>5, <1>6, <1>7, <1>9, <2>1 DEF Auth!Refuse, r
<1>10. ASSUME Goto(t, "evaluate") \/ Goto(t, "nonce") \/ UNCHANGED <<pc, decision>>,
              pc[t] # "uses", UNCHANGED <<issued, granted>>
       PROVE  UNCHANGED Auth!vars
  <2>1. pc'[t] # "uses" /\ pc'[t] # "done"
    BY <1>1, <1>2, <1>10 DEF Goto, TypeOK
  <2>2. Outstanding' = Outstanding
    BY <1>2, <1>10, <2>1, OutstandingSame
  <2> QED BY <1>8, <1>10, <2>1, <2>2
<1>11. ASSUME NEW d, d.kind \in Kinds \ {"Pass"}, Finish(t, d), UNCHANGED <<issued, granted>>
       PROVE  Auth!Refuse(t)
  <2>1. pc'[t] = "done" /\ decision'[t].kind # "Pass"
    BY <1>1, <1>11, FinishLocal
  <2>2. CASE pc[t] = "uses"
    BY <1>1, <1>2, <1>9, <1>11, <2>1, <2>2, OutstandingSpent DEF n, r
  <2>3. CASE pc[t] # "uses"
    BY <1>2, <1>9, <1>11, <2>1, <2>3, OutstandingSame
  <2> QED BY <2>2, <2>3
<1>12. CASE IsRevoked(t)
  <2>1. pc[t] = "revocations" /\ UNCHANGED <<issued, granted>>
    BY <1>12 DEF IsRevoked, stores, history
  <2>2. \/ Goto(t, "evaluate") \/ UNCHANGED <<pc, decision>>
        \/ \E d : d.kind \in Kinds \ {"Pass"} /\ Finish(t, d)
    BY <1>12, DecisionKinds DEF IsRevoked
  <2> QED BY <1>10, <1>11, <2>1, <2>2
<1>13. CASE Evaluate(t)
  <2>1. pc[t] = "evaluate" /\ UNCHANGED <<issued, granted>>
    BY <1>13 DEF Evaluate, stores, history
  <2>2. \/ Goto(t, "nonce")
        \/ \E d : d.kind \in Kinds \ {"Pass"} /\ Finish(t, d)
    BY <1>13, DecisionKinds DEF Evaluate
  <2> QED BY <1>10, <1>11, <2>1, <2>2
<1>14. CASE Consume(t)
  <2>1. pc[t] = "nonce" /\ UNCHANGED granted
    BY <1>14 DEF Consume, history
  <2>2. CASE UNCHANGED issued /\ \E d : d.kind \in Kinds \ {"Pass"} /\ Finish(t, d)
    BY <1>11, <2>1, <2>2
  <2>3. CASE n \in issued /\ issued' = issued \ {n} /\ Goto(t, "uses")
    <3>1. pc'[t] = "uses"
      BY <1>1, <2>3, GotoLocal DEF Labels
    <3>2. Outstanding' = Outstanding
      BY <1>2, <2>1, <2>3, <3>1, OutstandingTaken DEF n, r
    <3> QED BY <1>8, <2>1, <3>1, <3>2
  <2> QED BY <1>5, <1>14, <2>2, <2>3, DecisionKinds DEF Consume, r
<1>15. CASE TryConsume(t) /\ UNCHANGED granted /\ \E d : d.kind \in Kinds \ {"Pass"} /\ Finish(t, d)
  BY <1>11, <1>15 DEF TryConsume, Granted
<1>16. ASSUME TryConsume(t), "counts" \notin poisoned, ~Spent(r), Granted(r), \E p : Finish(t, Pass(r, p))
       PROVE  Auth!Grant(t)
  <2>1. pc[t] = "uses" /\ UNCHANGED issued
    BY <1>16 DEF TryConsume, Granted
  <2>2. pc'[t] = "done" /\ decision'[t].kind = "Pass"
    BY <1>1, <1>16, FinishLocal, DecisionKinds DEF Pass
  <2>3. Answer(t)' = "passed"
    BY <2>2 DEF Answer
  <2>4. n \in Outstanding /\ Outstanding' = Outstanding \ {n}
    BY <1>1, <1>2, <2>1, <2>2, OutstandingSpent DEF n, r
  <2>5. Verified(r) /\ evaluate(Hops(r), call[r]).result = "Covered"
    BY <1>1, <2>1 DEF Underway, r
  <2>6. /\ Grounds[r] = {Segs(r)[i].id : i \in 1..(Len(Segs(r)) - 1)}
        /\ Authorizing(r) = 1..(Len(Segs(r)) - 1)
        /\ Len(Segs(r)) \in Nat
        /\ \A i \in Authorizing(r) : Segs(r)[i].id \in HopIds
    <3>1. Grounds[r] = StandsOn(r) /\ StandsOn(r) = {Segs(r)[i].id : i \in 1..(Len(Segs(r)) - 1)}
      BY <1>5 DEF Grounds, StandsOn, Segs
    <3> QED BY <3>1, <2>5, ChainVerified
  <2>7. granted' = [m \in HopIds |-> IF m \in Grounds[r] THEN granted[m] + 1 ELSE granted[m]]
    BY <1>16, <2>6 DEF Granted, Segs
  <2>8. ~Beginnings[t].broken /\ Grounds[r] \cap Beginnings[t].revoked = {}
    <3>1. Beginnings[t] = [revoked |-> before[t].revoked, broken |-> before[t].poisoned # {}]
      BY DEF Beginnings, Since
    <3>2. \A i \in 1..(Len(Segs(r)) - 1) : Segs(r)[i].id \notin before[t].revoked
      BY <2>1 DEF RefinementInv, RevocationInv, RevocationOf, r
    <3>3. before[t].poisoned = {}
      <4>1. before[t].poisoned \subseteq Stores
        BY <1>1 DEF TypeOK
      <4>2. /\ before[t].poisoned \subseteq poisoned
            /\ "revoked" \notin before[t].poisoned /\ "nonces" \notin before[t].poisoned
        BY <2>1 DEF RefinementInv, RevocationInv, RevocationOf
      <4> QED BY <1>16, <4>1, <4>2 DEF Stores
    <3>4. ~Beginnings[t].broken
      <4>1. (before[t].poisoned # {}) = FALSE
        BY <3>3
      <4>2. Beginnings[t] = [revoked |-> before[t].revoked, broken |-> FALSE]
        BY <3>1, <4>1, Zenon
      <4> QED BY <4>2
    <3>5. Beginnings[t].revoked = before[t].revoked
      BY <3>1
    <3> QED BY <3>2, <3>4, <3>5, <2>6
  <2>9. ASSUME NEW m \in Grounds[r], NEW l \in UseLimits[m] PROVE granted[m] < l
    <3>1. m \in HopIds /\ \E i \in Authorizing(r) : Segs(r)[i].id = m
      BY <2>6
    <3>2. PICK k \in SignedLimits(m) : l = SignedLimit(m, k)
      BY <3>1, <2>9 DEF UseLimits
    <3>3. PICK x \in LimitsOf(r) : x.id = m /\ x.limit = l
      BY <3>1, <3>2, <2>5, LimitsCharged
    <3>4. x.limit \in Nat
      BY <2>5, LimitsCharged
    <3>5. count(m) < l
      BY <1>1, <1>16, <3>3, <3>4 DEF Spent, count, TypeOK
    <3>6. granted[m] \in Nat /\ count(m) \in Nat
      BY <1>1, <3>1 DEF TypeOK, count
    <3>7. granted[m] <= count(m)
      BY <3>1, <3>2, <3>6 DEF RefinementInv, LimitInv
    <3> QED BY <3>3, <3>4, <3>5, <3>6, <3>7
  <2> QED BY <1>2, <1>3, <1>4, <1>5, <1>6, <1>7, <2>3, <2>4, <2>7, <2>8, <2>9 DEF Auth!Grant, r
<1>17. CASE TryConsume(t)
  BY <1>15, <1>16, <1>17, DecisionKinds DEF TryConsume, r
<1>18. CASE BackendFails(t)
  <2>1. pc'[t] = "done" /\ decision'[t].kind # "Pass" /\ UNCHANGED granted
    BY <1>1, <1>18, FinishLocal, DecisionKinds DEF BackendFails
  <2>2. CASE UNCHANGED issued
    BY <1>11, <1>18, <2>1, <2>2, DecisionKinds DEF BackendFails
  <2>3. CASE pc[t] = "nonce" /\ n \in issued /\ issued' = issued \ {n}
    <3>1. Outstanding' = Outstanding \ {n}
      BY <1>1, <1>2, <2>1, <2>3, OutstandingDropped DEF n, r
    <3> QED BY <1>9, <2>1, <3>1
  <2> QED BY <1>5, <1>18, <2>2, <2>3 DEF BackendFails, r
<1> QED BY <1>12, <1>13, <1>14, <1>17, <1>18 DEF Step

(* Every step of the engine is a step of the Authorizer, or invisible. *)
LEMMA NextRefines ==
  ASSUME RefinementInv, [Next]_vars
  PROVE  [Auth!Next]_(Auth!vars)
<1>1. TypeOK /\ IdleClear
  BY DEF RefinementInv
<1>2. CASE Issue
  BY <1>1, <1>2, IssueRefines DEF Auth!Next
<1>3. ASSUME NEW m \in Revocable, Revoke(m) PROVE Auth!Next
  <2>1. m \in HopIds /\ Auth!Revoke(m)
    BY <1>3, RevokeRefines, EngineAssumption
  <2> QED BY <2>1 DEF Auth!Next
<1>4. ASSUME NEW s \in Poisonable, Poison(s) PROVE Auth!Next
  <2>1. Auth!Break
    BY <1>4, PoisonRefines
  <2> QED BY <2>1 DEF Auth!Next
<1>5. CASE Tick
  BY <1>5, TickRefines DEF Tick, locals, stores, history
<1>6. ASSUME NEW t \in Threads, NEW r \in Requests, decide(t, r) PROVE Auth!Next
  <2>1. Auth!Begin(t, r)
    BY <1>1, <1>6, DecideRefines
  <2> QED BY <2>1 DEF Auth!Next
<1>7. ASSUME NEW t \in Threads, Step(t) PROVE [Auth!Next]_(Auth!vars)
  <2>1. Auth!Grant(t) \/ Auth!Refuse(t) \/ UNCHANGED Auth!vars
    BY <1>7, StepRefines
  <2> QED BY <2>1 DEF Auth!Next
<1>8. ASSUME NEW t \in Threads, Return(t) PROVE Auth!Next
  <2>1. Auth!Return(t)
    BY <1>1, <1>8, ReturnRefines
  <2> QED BY <2>1 DEF Auth!Next
<1>9. CASE UNCHANGED vars
  BY <1>9, TickRefines DEF vars, locals, stores, history
<1> QED BY <1>2, <1>3, <1>4, <1>5, <1>6, <1>7, <1>8, <1>9 DEF Next

(* The engine implements the Authorizer: though decide() looks up          *)
(* revocations, consumes the nonce and counts the uses in separate steps,  *)
(* every passed call can be seen as one step that checks and spends all.   *)
THEOREM EngineImplementsAuthorizer == Spec => AuthorizesAtomically
<1>1. Init => RefinementInv
  <2>1. Init => NonceInv /\ LimitInv /\ IdleClear
    BY DEF Init, NonceInv, LimitInv, IdleClear
  <2>2. Init => RevocationInv
    BY DEF Init, RevocationInv, RevocationOf, Passed
  <2> QED BY <2>1, <2>2, TypeInit DEF RefinementInv
<1>2. RefinementInv /\ [Next]_vars => RefinementInv'
  BY TypeStep, UnderwayStep, NonceStep, LimitStep, RevocationStep, IdleStep DEF RefinementInv
<1>3. Init => Auth!Init
  <2> SUFFICES ASSUME Init PROVE Auth!Init
    OBVIOUS
  <2>1. Outstanding = {}
    BY DEF Init, Outstanding
  <2>2. Answers = [t \in Threads |-> None]
    BY DEF Init, Answers, Answer
  <2>3. Beginnings = [t \in Threads |-> [revoked |-> {}, broken |-> FALSE]]
    <3>1. \A t \in Threads : (before[t].poisoned # {}) = FALSE /\ before[t].revoked = {}
      BY DEF Init
    <3>2. \A t \in Threads : Since(t) = [revoked |-> {}, broken |-> FALSE]
      BY <3>1, Zenon DEF Since
    <3> QED BY <3>2 DEF Beginnings
  <2>4. (poisoned # {}) = FALSE
    BY DEF Init
  <2> QED BY <2>1, <2>2, <2>3, <2>4 DEF Init, Auth!Init
<1>4. RefinementInv /\ [Next]_vars => [Auth!Next]_(Auth!vars)
  BY NextRefines
<1> QED BY <1>1, <1>2, <1>3, <1>4, PTL DEF Spec, AuthorizesAtomically, Auth!Safety
=============================================================================
