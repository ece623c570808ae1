--------------------------- MODULE TaskFlowProofs ---------------------------
(***************************************************************************)
(* The safety of the task flow for any tasks, calls, limits and bounds,    *)
(* with messages lost, repeated and late.  Typed says more than TypeOK: no *)
(* nonce in a status, a receipt or a message is one still to be drawn, so  *)
(* that a nonce once consumed stays consumed.                              *)
(***************************************************************************)
EXTENDS TaskFlow, FiniteSetTheorems, TLAPS

StatusesTo(d) == {Denied} \cup {Pending(n) : n \in 1..d}
                   \cup {Approved(k, n) : k \in Tasks, n \in 1..d}
ChainsTo(d) == [mandate : Tasks, closed : [call : Calls, task_id : Tasks], nonce : 1..d, iat : Times]
MetasTo(d) == [chain : ChainsTo(d), outcome : {"success", "error"}, next_nonce : 1..d \cup {None}]
TasksTo(d) == [status : StatusesTo(d), artifacts : Seq(MetasTo(d))]

StoresTyped ==
  /\ drawn \in 0..MaxNonces /\ issued \subseteq 1..drawn
  /\ uses \in [Tasks -> 0..max_uses]
  /\ served \in [Tasks -> Seq(ChainsTo(drawn))] /\ failed \subseteq Tasks

TasksTyped ==
  /\ task \in [Tasks -> TasksTo(drawn) \cup {None}]
  /\ held \in [Tasks -> TasksTo(drawn) \cup {None}]
  /\ \A k \in Tasks : held[k] # None => task[k] # None

SentTyped ==
  \A m \in sent :
    \/ \E k \in Tasks : m = hello_message(k)
    \/ \E k \in Tasks, c \in ChainsTo(drawn) : m = continuation_message(k, c) /\ task[k] # None

Typed == StoresTyped /\ TasksTyped /\ SentTyped

(* What was served has lost its nonce. *)
ServedOnce ==
  /\ \A k \in Tasks : \A i \in DOMAIN served[k] : served[k][i].nonce \notin issued
  /\ RetriesAreNotServedAgain

(* A receipt that says so is of a call that was served. *)
Receipted ==
  \A k \in Tasks : task[k] # None =>
    \A i \in DOMAIN task[k].artifacts :
      task[k].artifacts[i].outcome = "success" =>
        \E x \in DOMAIN served[k] : served[k][x] = task[k].artifacts[i].chain

FlowInv == Typed /\ ServedOnce /\ Receipted

---------------------------------------------------------------------------
(* A sequence over a set is one over a larger set. *)
LEMMA SeqGrows == ASSUME NEW S, NEW T, S \subseteq T, NEW s \in Seq(S) PROVE s \in Seq(T)
  OBVIOUS

(* A task with other artifacts keeps its status. *)
LEMMA ArtifactsReplaced ==
  ASSUME NEW S, NEW T, NEW x \in [status : S, artifacts : T], NEW r
  PROVE  [x EXCEPT !.artifacts = r] = [status |-> x.status, artifacts |-> r]
  OBVIOUS

(* What is typed stays typed when a nonce is drawn. *)
LEMMA TypesGrow ==
  ASSUME NEW d \in Nat, NEW e \in Nat, d <= e
  PROVE  /\ StatusesTo(d) \subseteq StatusesTo(e) /\ ChainsTo(d) \subseteq ChainsTo(e)
         /\ MetasTo(d) \subseteq MetasTo(e) /\ TasksTo(d) \subseteq TasksTo(e)
         /\ Seq(ChainsTo(d)) \subseteq Seq(ChainsTo(e))
<1>1. 1..d \subseteq 1..e
  OBVIOUS
<1>2. StatusesTo(d) \subseteq StatusesTo(e)
  BY <1>1 DEF StatusesTo
<1>3. ChainsTo(d) \subseteq ChainsTo(e)
  BY <1>1 DEF ChainsTo
<1>4. MetasTo(d) \subseteq MetasTo(e)
  BY <1>1, <1>3 DEF MetasTo
<1>5. Seq(MetasTo(d)) \subseteq Seq(MetasTo(e)) /\ Seq(ChainsTo(d)) \subseteq Seq(ChainsTo(e))
  BY <1>3, <1>4, SeqGrows
<1>6. TasksTo(d) \subseteq TasksTo(e)
  BY <1>2, <1>5 DEF TasksTo
<1>q. QED BY <1>2, <1>3, <1>4, <1>5, <1>6

(* The types of the last nonce are those of TypeOK. *)
LEMMA TypesEnd ==
  /\ StatusesTo(MaxNonces) = Statuses /\ ChainsTo(MaxNonces) = Chains /\ MetasTo(MaxNonces) = Metas
  /\ TasksTo(MaxNonces) = [status : Statuses, artifacts : Seq(Metas)]
  BY DEF StatusesTo, Statuses, ChainsTo, Chains, MetasTo, Metas, TasksTo

(* An absent task is not a task. *)
LEMMA TasksAreThere == ASSUME NEW d \in 0..MaxNonces PROVE None \notin TasksTo(d)
<1>1. TasksTo(d) \subseteq TasksTo(MaxNonces)
  BY TypesGrow, TaskFlowAssumption
<1>q. QED BY <1>1, TypesEnd, NoneAssumption

(* A decision takes no nonce but the one presented, and a use only when one *)
(* is left.  What passes was described and had its nonce, which it loses;   *)
(* what no store refused costs no use, and no nonce unless the uses are     *)
(* spent.                                                                   *)
LEMMA Decides ==
  ASSUME NEW chain, NEW k, NEW d \in decide(chain, k)
  PROVE  /\ d.outcome \in {"success", "error"} /\ d.consumed \subseteq {chain.nonce} /\ d.charge \in {0, 1}
         /\ d.charge = 1 => ~Spent(chain)
         /\ d.outcome = "success" => d.consumed = {chain.nonce} /\ chain.nonce \in issued /\ d.charge = 1
         /\ d.outcome = "error" /\ ~d.fault => d.charge = 0 /\ (d.consumed # {} => Spent(chain))
  BY DEF decide, Decided, NothingTaken, Pass, Refusal

(* Nothing is known or served at first. *)
LEMMA InitFlow == Init => FlowInv
<1> SUFFICES ASSUME Init PROVE FlowInv
  OBVIOUS
<1>1. Typed
  BY TaskFlowAssumption DEF Init, Typed, StoresTyped, TasksTyped, SentTyped
<1>2. ServedOnce /\ Receipted
  BY DEF Init, ServedOnce, RetriesAreNotServedAgain, Receipted
<1>q. QED BY <1>1, <1>2 DEF FlowInv

(* A message of the agent is made of what it holds. *)
LEMMA SendingKeeps ==
  ASSUME FlowInv, NEW k \in Tasks, NEW l \in Tasks, NEW c \in Calls, NEW t \in Times,
         Continue(k, c, t) \/ CallAgain(k, l, c, t)
  PROVE  FlowInv'
<1>1. UNCHANGED <<task, issued, drawn, uses, held, served, failed>>
  BY DEF Continue, CallAgain
<1>2. StoresTyped' /\ TasksTyped' /\ ServedOnce' /\ Receipted'
  BY <1>1 DEF FlowInv, Typed, StoresTyped, TasksTyped, ServedOnce, RetriesAreNotServedAgain,
              Receipted
<1>3. ASSUME NEW x \in Tasks, held[x] # None
      PROVE  /\ task[x] # None /\ held[x] \in TasksTo(drawn)
             /\ held[x].status.state = "approved" =>
                  held[x].status.mandate \in Tasks /\ held[x].status.nonce \in 1..drawn
  <2>1. task[x] # None /\ held[x] \in TasksTo(drawn)
    BY <1>3 DEF FlowInv, Typed, TasksTyped
  <2>2. held[x].status \in StatusesTo(drawn)
    BY <2>1 DEF TasksTo
  <2>q. QED BY <2>1, <2>2 DEF StatusesTo, Denied, Pending, Approved
<1>4. SentTyped'
  <2>1. CASE Continue(k, c, t)
    <3> DEFINE ch == present(held[k].status.mandate, Closed(c, k), held[k].status.nonce, t)
    <3>1. held[k] # None /\ held[k].status.state = "approved"
      BY <2>1 DEF Continue, auth_state
    <3>2. sent' = sent \cup {continuation_message(k, ch)}
      BY <2>1 DEF Continue, auth_state
    <3>3. ch \in ChainsTo(drawn) /\ task[k] # None
      BY <1>3, <3>1 DEF ChainsTo, present, Closed
    <3>q. QED BY <1>1, <3>2, <3>3 DEF FlowInv, Typed, SentTyped
  <2>2. CASE CallAgain(k, l, c, t)
    <3> DEFINE r == receipt_meta(held[k])
               ch == present(r.chain.mandate, Closed(c, l), r.next_nonce, t)
    <3>1. held[k] # None /\ held[l] # None /\ r # None /\ r.next_nonce # None
      BY <2>2 DEF CallAgain
    <3>2. sent' = sent \cup {continuation_message(l, ch)}
      BY <2>2 DEF CallAgain
    <3>3. held[k].artifacts \in Seq(MetasTo(drawn)) /\ held[k].artifacts # <<>>
      BY <1>3, <3>1 DEF TasksTo, receipt_meta
    <3>4. r \in MetasTo(drawn)
      BY <3>3 DEF receipt_meta
    <3>5. r.next_nonce \in 1..drawn /\ r.chain.mandate \in Tasks
      BY <3>1, <3>4 DEF MetasTo, ChainsTo
    <3>6. ch \in ChainsTo(drawn) /\ task[l] # None
      BY <1>3, <3>1, <3>5 DEF ChainsTo, present, Closed
    <3>q. QED BY <1>1, <3>2, <3>6 DEF FlowInv, Typed, SentTyped
  <2>q. QED BY <2>1, <2>2
<1>q. QED BY <1>2, <1>4 DEF FlowInv, Typed

(* A copy is of a task that is there. *)
LEMMA PollKeeps == ASSUME FlowInv, NEW k \in Tasks, Poll(k) PROVE FlowInv'
<1>1. task[k] # None /\ held' = [held EXCEPT ![k] = task[k]] /\ UNCHANGED <<task, issued, drawn, uses, sent, served, failed>>
  BY DEF Poll
<1>2. StoresTyped' /\ SentTyped'
  BY <1>1 DEF FlowInv, Typed, StoresTyped, SentTyped
<1>3. TasksTyped'
  BY <1>1 DEF FlowInv, Typed, TasksTyped
<1>4. ServedOnce'
  BY <1>1 DEF FlowInv, ServedOnce, RetriesAreNotServedAgain
<1>5. Receipted'
  BY <1>1 DEF FlowInv, Receipted
<1>q. QED BY <1>2, <1>3, <1>4, <1>5 DEF FlowInv, Typed

(* No nonce that was served or is in a receipt is still to be drawn. *)
LEMMA ServedNonces ==
  ASSUME FlowInv, NEW x \in Tasks, NEW i \in DOMAIN served[x]
  PROVE  served[x][i].nonce \in 1..drawn
<1>1. served[x] \in Seq(ChainsTo(drawn))
  BY DEF FlowInv, Typed, StoresTyped
<1>2. served[x][i] \in ChainsTo(drawn)
  BY <1>1
<1>q. QED BY <1>2 DEF ChainsTo

(* No nonce in a receipt is still to be drawn. *)
LEMMA ReceiptNonces ==
  ASSUME FlowInv, NEW x \in Tasks, task[x] # None, NEW i \in DOMAIN task[x].artifacts
  PROVE  task[x].artifacts[i].chain.nonce \in 1..drawn
<1>1. task[x] \in TasksTo(drawn)
  BY DEF FlowInv, Typed, TasksTyped
<1>2. task[x].artifacts[i] \in MetasTo(drawn)
  BY <1>1 DEF TasksTo
<1>q. QED BY <1>2 DEF MetasTo, ChainsTo

(* A step that gives a task a new status, with or without a fresh nonce,   *)
(* and keeps its artifacts, or starts it without any.                      *)
Restates(k, status, n) ==
  /\ drawn' \in 0..MaxNonces /\ drawn <= drawn'
  /\ issued' = issued \cup n /\ n \subseteq (drawn + 1)..drawn'
  /\ failed \subseteq failed' /\ failed' \subseteq Tasks
  /\ status \in StatusesTo(drawn')
  /\ \/ task[k] = None /\ task' = [task EXCEPT ![k] = [status |-> status, artifacts |-> <<>>]]
     \/ task[k] # None /\ task' = [task EXCEPT ![k].status = status]
  /\ UNCHANGED <<uses, sent, held, served>>

(* A task with a new status is a task with its artifacts. *)
LEMMA RestatesLeavesTask ==
  ASSUME FlowInv, NEW k \in Tasks, NEW status, NEW n, Restates(k, status, n)
  PROVE  /\ task'[k] # None /\ task'[k] \in TasksTo(drawn') /\ task'[k].status = status
         /\ task[k] = None => task'[k].artifacts = <<>>
         /\ task[k] # None => task'[k].artifacts = task[k].artifacts
         /\ \A x \in Tasks : x # k => task'[x] = task[x]
<1>1. drawn \in 0..MaxNonces /\ drawn \in Nat /\ drawn' \in Nat /\ drawn <= drawn' /\ drawn' \in 0..MaxNonces
  BY TaskFlowAssumption DEF FlowInv, Typed, StoresTyped, Restates
<1>2. MetasTo(drawn) \subseteq MetasTo(drawn')
  BY <1>1, TypesGrow
<1>3. PICK a : /\ a \in Seq(MetasTo(drawn))
               /\ task[k] = None => a = <<>>
               /\ task[k] # None => a = task[k].artifacts
               /\ task' = [task EXCEPT ![k] = [status |-> status, artifacts |-> a]]
  <2>1. CASE task[k] = None
    <3>1. <<>> \in Seq(MetasTo(drawn))
      OBVIOUS
    <3>2. task' = [task EXCEPT ![k] = [status |-> status, artifacts |-> <<>>]]
      BY <2>1 DEF Restates
    <3>q. QED BY <2>1, <3>1, <3>2
  <2>2. CASE task[k] # None
    <3>1. task[k] \in TasksTo(drawn)
      BY <2>2 DEF FlowInv, Typed, TasksTyped
    <3>2. /\ task[k].artifacts \in Seq(MetasTo(drawn))
          /\ [task[k] EXCEPT !.status = status] = [status |-> status, artifacts |-> task[k].artifacts]
      BY <3>1 DEF TasksTo
    <3>3. task' = [task EXCEPT ![k] = [task[k] EXCEPT !.status = status]]
      BY <2>2 DEF Restates
    <3>q. QED BY <2>2, <3>2, <3>3
  <2>q. QED BY <2>1, <2>2
<1>4. task'[k] = [status |-> status, artifacts |-> a]
  BY <1>3 DEF FlowInv, Typed, TasksTyped
<1>5. task'[k] \in TasksTo(drawn')
  <2>1. a \in Seq(MetasTo(drawn'))
    BY <1>2, <1>3, SeqGrows
  <2>q. QED BY <1>4, <2>1 DEF TasksTo, Restates
<1>6. task'[k] # None
  BY <1>1, <1>5, TasksAreThere
<1>7. \A x \in Tasks : x # k => task'[x] = task[x]
  BY <1>3 DEF FlowInv, Typed, TasksTyped
<1>q. QED BY <1>3, <1>4, <1>5, <1>6, <1>7

(* A new status serves nothing and makes no nonce known but a fresh one. *)
LEMMA RestatesKeeps ==
  ASSUME FlowInv, NEW k \in Tasks, NEW status, NEW n, Restates(k, status, n)
  PROVE  FlowInv'
<1>1. /\ drawn \in 0..MaxNonces /\ drawn \in Nat /\ drawn' \in Nat /\ drawn <= drawn' /\ drawn' \in 0..MaxNonces
      /\ MaxNonces \in Nat
  BY TaskFlowAssumption DEF FlowInv, Typed, StoresTyped, Restates
<1>2. /\ StatusesTo(drawn) \subseteq StatusesTo(drawn') /\ ChainsTo(drawn) \subseteq ChainsTo(drawn')
      /\ TasksTo(drawn) \subseteq TasksTo(drawn') /\ MetasTo(drawn) \subseteq MetasTo(drawn')
      /\ Seq(ChainsTo(drawn)) \subseteq Seq(ChainsTo(drawn'))
  BY <1>1, TypesGrow
<1>3. StoresTyped'
  BY <1>1, <1>2 DEF FlowInv, Typed, StoresTyped, Restates
<1>4. /\ task'[k] # None /\ task'[k] \in TasksTo(drawn')
      /\ task[k] = None => task'[k].artifacts = <<>>
      /\ task[k] # None => task'[k].artifacts = task[k].artifacts
      /\ \A x \in Tasks : x # k => task'[x] = task[x]
  BY RestatesLeavesTask
<1>8. TasksTyped'
  <2>1. task' \in [Tasks -> TasksTo(drawn') \cup {None}]
    <3>1. task' = [x \in Tasks |-> task'[x]]
      BY DEF Restates, FlowInv, Typed, TasksTyped
    <3>q. QED BY <1>2, <1>4, <3>1 DEF FlowInv, Typed, TasksTyped
  <2>2. held' \in [Tasks -> TasksTo(drawn') \cup {None}]
    BY <1>2 DEF FlowInv, Typed, TasksTyped, Restates
  <2>q. QED BY <1>4, <2>1, <2>2 DEF FlowInv, Typed, TasksTyped, Restates
<1>9. SentTyped'
  BY <1>2, <1>4 DEF FlowInv, Typed, SentTyped, Restates
<1>10. ASSUME NEW i \in 1..drawn, i \notin issued PROVE i \notin issued'
  BY <1>1, <1>10 DEF Restates
<1>11. ServedOnce'
  BY <1>10, ServedNonces DEF FlowInv, ServedOnce, RetriesAreNotServedAgain, Restates
<1>12. Receipted'
  <2> SUFFICES ASSUME NEW x \in Tasks, task'[x] # None, NEW i \in DOMAIN task'[x].artifacts,
                      task'[x].artifacts[i].outcome = "success"
               PROVE  \E y \in DOMAIN served'[x] : served'[x][y] = task'[x].artifacts[i].chain
    BY DEF Receipted
  <2>1. task[x] # None /\ task'[x].artifacts = task[x].artifacts /\ served' = served
    BY <1>4 DEF Restates
  <2>q. QED BY <2>1 DEF FlowInv, Receipted
<1>q. QED BY <1>3, <1>8, <1>9, <1>11, <1>12 DEF FlowInv, Typed

(* The status of a task that starts, or whose user decides: the nonce it   *)
(* brings is fresh, or the one the task had; a fresh one may be lost.      *)
NewStatus(k, status) ==
  /\ task[k] # None => task[k].status.state = "pending"
  /\ status.nonce # None =>
       \/ status.nonce = drawn + 1 /\ (drawn + 1 \in issued' \/ k \in failed')
       \/ task[k] # None /\ status.nonce = task[k].status.nonce
  /\ status.state = "pending" => status.nonce \in issued' \/ k \in failed'
  /\ status.state = "approved" => status.nonce # None /\ status.mandate = k

(* A nonce drawn for mandate k is n of the store, or is lost. *)
Fresh(k, left, n) ==
  /\ drawn < MaxNonces /\ drawn' = drawn + 1
  /\ issued' = left \cup n /\ n \subseteq {drawn + 1}
  /\ \/ n = {drawn + 1} /\ failed' = failed
     \/ n = {} /\ failed' = failed \cup {k}

LEMMA Issues == ASSUME NEW k, NEW left, Issue(k, left) PROVE \E n : Fresh(k, left, n)
<1>1. CASE issued' = left \cup {drawn'} /\ UNCHANGED failed
  <2>1. Fresh(k, left, {drawn + 1})
    BY <1>1 DEF Issue, Fresh
  <2>q. QED BY <2>1
<1>2. CASE issued' = left /\ failed' = failed \cup {k}
  <2>1. Fresh(k, left, {})
    BY <1>2 DEF Issue, Fresh
  <2>q. QED BY <2>1
<1>q. QED BY <1>1, <1>2 DEF Issue

(* Approval, rejection and a first message restate one task. *)
LEMMA VerifierSteps ==
  ASSUME FlowInv, NEW k \in Tasks,
         Approve(k) \/ Reject(k) \/ \E m \in sent : m.task = k /\ OnHello(m)
  PROVE  \E status, n : Restates(k, status, n) /\ NewStatus(k, status)
<1>1. drawn \in 0..MaxNonces /\ MaxNonces \in Nat /\ None \notin Nat
  BY TaskFlowAssumption DEF FlowInv, Typed, StoresTyped
<1>2. task[k] # None => task[k] \in TasksTo(drawn)
  BY DEF FlowInv, Typed, TasksTyped
<1>3. CASE Reject(k)
  <2>1. Restates(k, Denied, {}) /\ task[k].status.state = "pending"
    BY <1>1, <1>3 DEF Restates, Reject, StatusesTo, FlowInv, Typed, StoresTyped
  <2>2. NewStatus(k, Denied)
    BY <2>1 DEF NewStatus, Denied
  <2>q. QED BY <2>1, <2>2
<1>4. CASE \E m \in sent : m.task = k /\ OnHello(m)
  <2>1. /\ task[k] = None /\ Issue(k, issued)
        /\ task' = [task EXCEPT ![k] = [status |-> Pending(drawn'), artifacts |-> <<>>]]
        /\ UNCHANGED <<uses, sent, held, served>>
    BY <1>4 DEF OnHello
  <2>2. PICK n : Fresh(k, issued, n)
    BY <2>1, Issues
  <2>3. Pending(drawn') \in StatusesTo(drawn')
    BY <1>1, <2>2 DEF StatusesTo, Fresh
  <2>4. Restates(k, Pending(drawn'), n)
    BY <1>1, <2>1, <2>2, <2>3 DEF Restates, Fresh, FlowInv, Typed, StoresTyped
  <2>5. NewStatus(k, Pending(drawn'))
    BY <2>1, <2>2 DEF NewStatus, Pending, Fresh
  <2>q. QED BY <2>4, <2>5
<1>5. CASE Approve(k)
  <2>1. task[k] # None /\ task[k].status.state = "pending" /\ task[k] \in TasksTo(drawn)
    BY <1>2, <1>5 DEF Approve
  <2>2. task[k].status.nonce \in 1..drawn /\ task[k].status.nonce # None
    <3>1. task[k].status \in StatusesTo(drawn)
      BY <2>1 DEF TasksTo
    <3>q. QED BY <1>1, <2>1, <3>1 DEF StatusesTo, Denied, Pending, Approved
  <2>3. CASE UNCHANGED <<issued, drawn, failed>>
    <3>1. task' = [task EXCEPT ![k].status = Approved(k, task[k].status.nonce)]
      BY <1>1, <1>5, <2>3 DEF Approve, Issue
    <3>2. Approved(k, task[k].status.nonce) \in StatusesTo(drawn')
      BY <2>2, <2>3 DEF StatusesTo
    <3>3. Restates(k, Approved(k, task[k].status.nonce), {})
      BY <1>1, <1>5, <2>1, <2>3, <3>1, <3>2 DEF Restates, Approve, FlowInv, Typed, StoresTyped
    <3>4. NewStatus(k, Approved(k, task[k].status.nonce))
      BY <2>1, <2>2 DEF NewStatus, Approved
    <3>q. QED BY <3>3, <3>4
  <2>4. CASE ~UNCHANGED <<issued, drawn, failed>>
    <3>1. /\ Issue(k, issued) /\ task' = [task EXCEPT ![k].status = Approved(k, drawn')]
          /\ UNCHANGED <<uses, sent, held, served>>
      BY <1>5, <2>4 DEF Approve
    <3>2. PICK n : Fresh(k, issued, n)
      BY <3>1, Issues
    <3>3. Approved(k, drawn') \in StatusesTo(drawn') /\ drawn' # None
      BY <1>1, <3>2 DEF StatusesTo, Fresh
    <3>4. Restates(k, Approved(k, drawn'), n)
      BY <1>1, <2>1, <3>1, <3>2, <3>3 DEF Restates, Fresh, FlowInv, Typed, StoresTyped
    <3>5. NewStatus(k, Approved(k, drawn'))
      BY <2>1, <3>2, <3>3 DEF NewStatus, Approved, Fresh
    <3>q. QED BY <3>4, <3>5
  <2>q. QED BY <2>3, <2>4
<1>q. QED BY <1>3, <1>4, <1>5

(* A step that decides d on the presentation c in task k, leaves the task  *)
(* the artifacts rs, and draws the nonces n; it serves c or refuses it.    *)
Answers(k, c, d, rs, n) ==
  /\ d \in decide(c, k)
  /\ drawn' \in 0..MaxNonces /\ drawn <= drawn'
  /\ issued' = (issued \ d.consumed) \cup n /\ n \subseteq (drawn + 1)..drawn'
  /\ uses' = [uses EXCEPT ![c.mandate] = @ + d.charge]
  /\ rs \in Seq(MetasTo(drawn'))
  /\ task' = [task EXCEPT ![k].artifacts = rs]
  /\ failed \subseteq failed' /\ failed' \subseteq failed \cup {c.mandate}
  /\ UNCHANGED <<sent, held>>

Refuses(k, c, d, rs) ==
  /\ d.outcome = "error"
  /\ \/ rs = task[k].artifacts
     \/ rs = Append(task[k].artifacts, ReceiptMeta(c, "error", None))
  /\ d.fault => c.mandate \in failed'
  /\ served' = served

Serves(k, c, d, rs) ==
  /\ d.outcome = "success"
  /\ \E next : /\ rs = Append(task[k].artifacts, ReceiptMeta(c, "success", next))
               /\ next # None => next = drawn + 1 /\ (next \in issued' \/ c.mandate \in failed')
  /\ served' = [served EXCEPT ![k] = Append(@, c)]

(* An answer keeps the types, and no nonce comes back. *)
LEMMA AnswersKeepTypes ==
  ASSUME FlowInv, NEW k \in Tasks, NEW c \in ChainsTo(drawn), NEW d, NEW rs, NEW n, task[k] # None,
         Answers(k, c, d, rs, n), Refuses(k, c, d, rs) \/ Serves(k, c, d, rs)
  PROVE  /\ Typed'
         /\ task'[k] # None /\ task'[k].artifacts = rs /\ task'[k].status = task[k].status
         /\ \A x \in Tasks : x # k => task'[x] = task[x]
         /\ \A i \in 1..drawn : i \notin issued => i \notin issued'
         /\ \A i \in d.consumed : i \notin issued'
<1>1. /\ drawn \in 0..MaxNonces /\ drawn \in Nat /\ drawn' \in Nat /\ drawn <= drawn' /\ drawn' \in 0..MaxNonces
      /\ MaxNonces \in Nat
  BY TaskFlowAssumption DEF FlowInv, Typed, StoresTyped, Answers
<1>2. /\ StatusesTo(drawn) \subseteq StatusesTo(drawn') /\ ChainsTo(drawn) \subseteq ChainsTo(drawn')
      /\ TasksTo(drawn) \subseteq TasksTo(drawn')
      /\ Seq(ChainsTo(drawn)) \subseteq Seq(ChainsTo(drawn'))
  BY <1>1, TypesGrow
<1>3. task[k] \in TasksTo(drawn)
  BY DEF FlowInv, Typed, TasksTyped
<1>4. task'[k] = [status |-> task[k].status, artifacts |-> rs] /\ task'[k] \in TasksTo(drawn')
  <2>1. [task[k] EXCEPT !.artifacts = rs] = [status |-> task[k].status, artifacts |-> rs]
    BY <1>3, ArtifactsReplaced DEF TasksTo
  <2>2. task'[k] = [task[k] EXCEPT !.artifacts = rs]
    BY DEF Answers, FlowInv, Typed, TasksTyped
  <2>3. task[k].status \in StatusesTo(drawn') /\ rs \in Seq(MetasTo(drawn'))
    BY <1>2, <1>3 DEF TasksTo, Answers
  <2>q. QED BY <2>1, <2>2, <2>3 DEF TasksTo
<1>5. task'[k] # None /\ task'[k].artifacts = rs /\ task'[k].status = task[k].status
  <2>1. task'[k] # None BY <1>1, <1>4, TasksAreThere
  <2>2. task'[k].artifacts = rs /\ task'[k].status = task[k].status BY <1>4
  <2>q. QED BY <2>1, <2>2
<1>6. \A x \in Tasks : x # k => task'[x] = task[x]
  BY DEF Answers, FlowInv, Typed, TasksTyped
<1>7. TasksTyped'
  <2>1. task' = [x \in Tasks |-> task'[x]]
    BY DEF Answers, FlowInv, Typed, TasksTyped
  <2>2. \A x \in Tasks : task'[x] \in TasksTo(drawn') \cup {None}
    BY <1>2, <1>4, <1>6 DEF FlowInv, Typed, TasksTyped
  <2>3. held' \in [Tasks -> TasksTo(drawn') \cup {None}]
    BY <1>2 DEF FlowInv, Typed, TasksTyped, Answers
  <2>q. QED BY <1>5, <1>6, <2>1, <2>2, <2>3 DEF FlowInv, Typed, TasksTyped, Answers
<1>8. SentTyped'
  BY <1>2, <1>5, <1>6 DEF FlowInv, Typed, SentTyped, Answers
<1>9. /\ d.outcome \in {"success", "error"} /\ d.consumed \subseteq {c.nonce} /\ d.charge \in {0, 1}
      /\ d.charge = 1 => ~(uses[c.mandate] >= max_uses)
      /\ c \in ChainsTo(drawn') /\ c.mandate \in Tasks /\ c.nonce \in 1..drawn
  BY <1>2, Decides DEF Answers, Spent, ChainsTo
<1>10. uses' \in [Tasks -> 0..max_uses]
  <2>1. uses \in [Tasks -> 0..max_uses] /\ uses[c.mandate] \in 0..max_uses
    BY <1>9 DEF FlowInv, Typed, StoresTyped
  <2>2. uses[c.mandate] + d.charge \in 0..max_uses
    BY <1>9, <2>1, TaskFlowAssumption
  <2>q. QED BY <2>1, <2>2 DEF Answers
<1>11. served' \in [Tasks -> Seq(ChainsTo(drawn'))]
  <2>1. served \in [Tasks -> Seq(ChainsTo(drawn'))]
    BY <1>2 DEF FlowInv, Typed, StoresTyped
  <2>2. Append(served[k], c) \in Seq(ChainsTo(drawn'))
    BY <1>9, <2>1
  <2>q. QED BY <2>1, <2>2 DEF Refuses, Serves
<1>12. failed' \subseteq Tasks
  BY <1>9 DEF FlowInv, Typed, StoresTyped, Answers
<1>13. /\ \A i \in 1..drawn : i \notin issued => i \notin issued'
       /\ \A i \in d.consumed : i \notin issued'
  BY <1>1, <1>9 DEF Answers
<1>14. StoresTyped'
  BY <1>1, <1>10, <1>11, <1>12 DEF FlowInv, Typed, StoresTyped, Answers
<1>q. QED BY <1>5, <1>6, <1>7, <1>8, <1>13, <1>14 DEF Typed

(* An artifact that an answer adds is a success only of what is served. *)
LEMMA ArtifactAdded ==
  ASSUME FlowInv, NEW k \in Tasks, NEW c \in ChainsTo(drawn), NEW d, NEW rs, NEW n, task[k] # None,
         Answers(k, c, d, rs, n), Refuses(k, c, d, rs) \/ Serves(k, c, d, rs),
         NEW i \in DOMAIN rs
  PROVE  \/ i \in DOMAIN task[k].artifacts /\ rs[i] = task[k].artifacts[i]
         \/ rs[i].chain = c /\ (rs[i].outcome = "success" => d.outcome = "success")
<1> DEFINE old == task[k].artifacts
<1>1. old \in Seq(MetasTo(drawn))
  BY DEF FlowInv, Typed, TasksTyped, TasksTo
<1>2. CASE rs = old
  BY <1>2
<1>3. CASE rs # old
  <2>1. PICK r : /\ rs = Append(old, r) /\ r.chain = c
                 /\ r.outcome = "success" => d.outcome = "success"
    <3>1. CASE Refuses(k, c, d, rs)
      <4>1. rs = Append(old, ReceiptMeta(c, "error", None))
        BY <1>3, <3>1 DEF Refuses
      <4>q. QED BY <4>1 DEF ReceiptMeta
    <3>2. CASE Serves(k, c, d, rs)
      BY <3>2 DEF Serves, ReceiptMeta
    <3>q. QED BY <3>1, <3>2
  <2>2. /\ DOMAIN rs = 1..(Len(old) + 1) /\ rs[Len(old) + 1] = r /\ Len(old) \in Nat
        /\ DOMAIN old = 1..Len(old) /\ \A j \in 1..Len(old) : rs[j] = old[j]
    BY <1>1, <2>1
  <2>3. CASE i \in 1..Len(old)
    BY <2>2, <2>3
  <2>4. CASE i = Len(old) + 1
    BY <2>1, <2>2, <2>4
  <2>q. QED BY <2>2, <2>3, <2>4
<1>q. QED BY <1>2, <1>3

(* A refusal serves nothing and gives no nonce back. *)
LEMMA RefusalKeeps ==
  ASSUME FlowInv, NEW k \in Tasks, NEW c \in ChainsTo(drawn), NEW d, NEW rs, NEW n, task[k] # None,
         Answers(k, c, d, rs, n), Refuses(k, c, d, rs)
  PROVE  FlowInv'
<1>1. /\ Typed' /\ task'[k] # None /\ task'[k].artifacts = rs
      /\ \A x \in Tasks : x # k => task'[x] = task[x]
      /\ \A i \in 1..drawn : i \notin issued => i \notin issued'
  BY AnswersKeepTypes
<1>2. served' = served /\ d.outcome # "success"
  BY DEF Refuses
<1>3. ServedOnce'
  BY <1>1, <1>2, ServedNonces DEF FlowInv, ServedOnce, RetriesAreNotServedAgain
<1>4. Receipted'
  <2> SUFFICES ASSUME NEW x \in Tasks, task'[x] # None, NEW i \in DOMAIN task'[x].artifacts,
                      task'[x].artifacts[i].outcome = "success"
               PROVE  \E y \in DOMAIN served'[x] : served'[x][y] = task'[x].artifacts[i].chain
    BY DEF Receipted
  <2>1. CASE x # k
    BY <1>1, <1>2, <2>1 DEF FlowInv, Receipted
  <2>2. CASE x = k
    <3>1. i \in DOMAIN rs /\ task'[k].artifacts[i] = rs[i] /\ rs[i].outcome = "success"
      BY <1>1, <2>2
    <3>2. i \in DOMAIN task[k].artifacts /\ rs[i] = task[k].artifacts[i]
      BY <1>2, <3>1, ArtifactAdded
    <3>q. QED BY <1>2, <2>2, <3>1, <3>2 DEF FlowInv, Receipted
  <2>q. QED BY <2>1, <2>2
<1>q. QED BY <1>1, <1>3, <1>4 DEF FlowInv

(* A served presentation has lost its nonce. *)
LEMMA ServiceKeeps ==
  ASSUME FlowInv, NEW k \in Tasks, NEW c \in ChainsTo(drawn), NEW d, NEW rs, NEW n, task[k] # None,
         Answers(k, c, d, rs, n), Serves(k, c, d, rs)
  PROVE  FlowInv'
<1>1. /\ Typed' /\ task'[k] # None /\ task'[k].artifacts = rs
      /\ \A x \in Tasks : x # k => task'[x] = task[x]
      /\ \A i \in 1..drawn : i \notin issued => i \notin issued'
      /\ \A i \in d.consumed : i \notin issued'
  BY AnswersKeepTypes
<1>2. c.nonce \in issued /\ c.nonce \notin issued' /\ c.nonce \in 1..drawn
  BY <1>1, Decides DEF Answers, Serves, ChainsTo
<1>3. /\ served[k] \in Seq(ChainsTo(drawn)) /\ served'[k] = Append(served[k], c)
      /\ \A x \in Tasks : x # k => served'[x] = served[x]
  BY DEF FlowInv, Typed, StoresTyped, Serves
<1>4. /\ DOMAIN served[k] = 1..Len(served[k]) /\ Len(served[k]) \in Nat
      /\ DOMAIN served'[k] = 1..(Len(served[k]) + 1) /\ served'[k][Len(served[k]) + 1] = c
      /\ \A i \in 1..Len(served[k]) : served'[k][i] = served[k][i]
  BY <1>3
<1>5. \A x \in Tasks : \A i \in DOMAIN served[x] :
        /\ served[x][i].nonce \notin issued' /\ served[x][i].nonce # c.nonce
  BY <1>1, <1>2, ServedNonces DEF FlowInv, ServedOnce
<1>6. ServedOnce'
  <2>0. ASSUME NEW z \in Tasks, NEW l \in DOMAIN served'[z]
        PROVE  IF l \in DOMAIN served[z] THEN served'[z][l] = served[z][l]
               ELSE z = k /\ l = Len(served[k]) + 1 /\ served'[z][l] = c
    <3>1. CASE z # k
      <4>1. served'[z] = served[z]
        BY <1>3, <3>1
      <4>q. QED BY <4>1
    <3>2. CASE z = k
      BY <1>4, <3>2
    <3>q. QED BY <3>1, <3>2
  <2>1. ASSUME NEW x \in Tasks, NEW i \in DOMAIN served'[x]
        PROVE  served'[x][i].nonce \notin issued'
    <3>1. CASE i \in DOMAIN served[x]
      <4>1. served[x][i].nonce \notin issued' /\ served'[x][i] = served[x][i]
        BY <1>5, <2>0, <3>1
      <4>q. QED BY <4>1
    <3>2. CASE i \notin DOMAIN served[x]
      <4>1. served'[x][i] = c
        BY <2>0, <3>2
      <4>q. QED BY <1>2, <4>1
    <3>q. QED BY <3>1, <3>2
  <2>2. ASSUME NEW x \in Tasks, NEW y \in Tasks, NEW i \in DOMAIN served'[x], NEW j \in DOMAIN served'[y],
               served'[x][i].nonce = served'[y][j].nonce
        PROVE  x = y /\ i = j
    <3>1. CASE i \in DOMAIN served[x] /\ j \in DOMAIN served[y]
      <4>1. served'[x][i] = served[x][i] /\ served'[y][j] = served[y][j]
        <5>1. \A z \in Tasks : \A l \in DOMAIN served[z] : served'[z][l] = served[z][l]
          BY <1>3, <1>4
        <5>q. QED BY <3>1, <5>1
      <4>2. RetriesAreNotServedAgain
        BY DEF FlowInv, ServedOnce
      <4>q. QED BY <2>2, <3>1, <4>1, <4>2 DEF RetriesAreNotServedAgain
    <3>2. ASSUME NEW z \in Tasks, NEW l \in DOMAIN served'[z]
          PROVE  IF l \in DOMAIN served[z] THEN served'[z][l].nonce # c.nonce
                 ELSE z = k /\ l = Len(served[k]) + 1 /\ served'[z][l] = c
      <4>1. CASE l \in DOMAIN served[z]
        <5>1. served[z][l].nonce # c.nonce /\ served'[z][l] = served[z][l]
          BY <1>5, <2>0, <4>1
        <5>q. QED BY <4>1, <5>1
      <4>2. CASE l \notin DOMAIN served[z]
        BY <2>0, <4>2
      <4>q. QED BY <4>1, <4>2
    <3>3. CASE i \in DOMAIN served[x] /\ j \notin DOMAIN served[y]
      BY <2>2, <3>2, <3>3
    <3>4. CASE i \notin DOMAIN served[x] /\ j \in DOMAIN served[y]
      BY <2>2, <3>2, <3>4
    <3>5. CASE i \notin DOMAIN served[x] /\ j \notin DOMAIN served[y]
      BY <3>2, <3>5
    <3>q. QED BY <3>1, <3>3, <3>4, <3>5
  <2>q. QED BY <2>1, <2>2 DEF ServedOnce, RetriesAreNotServedAgain
<1>7. Receipted'
  <2> SUFFICES ASSUME NEW x \in Tasks, task'[x] # None, NEW i \in DOMAIN task'[x].artifacts,
                      task'[x].artifacts[i].outcome = "success"
               PROVE  \E y \in DOMAIN served'[x] : served'[x][y] = task'[x].artifacts[i].chain
    BY DEF Receipted
  <2>1. CASE x # k
    BY <1>1, <1>3, <2>1 DEF FlowInv, Receipted
  <2>2. CASE x = k
    <3>1. i \in DOMAIN rs /\ task'[k].artifacts[i] = rs[i] /\ rs[i].outcome = "success"
      BY <1>1, <2>2
    <3>2. CASE i \in DOMAIN task[k].artifacts /\ rs[i] = task[k].artifacts[i]
      <4>1. PICK y \in DOMAIN served[k] : served[k][y] = rs[i].chain
        BY <3>1, <3>2 DEF FlowInv, Receipted
      <4>2. y \in DOMAIN served'[k] /\ served'[k][y] = served[k][y]
        BY <1>4
      <4>q. QED BY <2>2, <3>1, <4>1, <4>2
    <3>3. CASE rs[i].chain = c
      <4>1. Len(served[k]) + 1 \in DOMAIN served'[k]
        BY <1>4
      <4>q. QED BY <1>4, <2>2, <3>1, <3>3, <4>1
    <3>q. QED BY <3>1, <3>2, <3>3, ArtifactAdded
  <2>q. QED BY <2>1, <2>2
<1>q. QED BY <1>1, <1>6, <1>7 DEF FlowInv

(* A handled presentation is served or refused. *)
LEMMA ContinuationSteps ==
  ASSUME FlowInv, NEW m \in sent, OnContinuation(m)
  PROVE  \E k \in Tasks, c \in ChainsTo(drawn) : \E d, rs, n :
           /\ m = continuation_message(k, c) /\ task[k] # None
           /\ Answers(k, c, d, rs, n) /\ (Refuses(k, c, d, rs) \/ Serves(k, c, d, rs))
<1>1. PICK k \in Tasks, c \in ChainsTo(drawn) : m = continuation_message(k, c) /\ task[k] # None
  BY DEF FlowInv, Typed, SentTyped, OnContinuation, hello_message
<1>2. m.task = k /\ m.presentation = c /\ c.mandate \in Tasks
  BY <1>1 DEF continuation_message, ChainsTo
<1>3. task[k] \in TasksTo(drawn) /\ task[k].artifacts \in Seq(MetasTo(drawn))
  BY <1>1 DEF FlowInv, Typed, TasksTyped, TasksTo
<1>4. drawn \in 0..MaxNonces /\ MaxNonces \in Nat /\ None \notin Nat
  BY TaskFlowAssumption DEF FlowInv, Typed, StoresTyped
<1>5. task = [task EXCEPT ![k].artifacts = task[k].artifacts]
  <2>1. [task[k] EXCEPT !.artifacts = task[k].artifacts] = task[k]
    BY <1>3 DEF TasksTo
  <2>q. QED BY <2>1 DEF FlowInv, Typed, TasksTyped
<1>6. PICK d \in decide(c, k) : Answer(m, d)
  BY <1>2 DEF OnContinuation
<1>7. /\ uses' = [uses EXCEPT ![c.mandate] = @ + d.charge] /\ UNCHANGED <<sent, held>>
      /\ Serve(k, c, d) \/ Refuse(k, c, d)
  BY <1>2, <1>6 DEF Answer
<1>8. CASE Serve(k, c, d)
  <2>1. PICK next, n :
          /\ \/ next = drawn + 1 /\ Fresh(c.mandate, issued \ d.consumed, n)
             \/ next = None /\ n = {} /\ drawn' = drawn /\ failed' = failed
          /\ issued' = (issued \ d.consumed) \cup n
          /\ Attach(k, ReceiptMeta(c, "success", next))
    <3>1. CASE Issue(c.mandate, issued \ d.consumed) /\ Attach(k, ReceiptMeta(c, "success", drawn'))
      <4>1. PICK n : Fresh(c.mandate, issued \ d.consumed, n)
        BY <3>1, Issues
      <4>2. issued' = (issued \ d.consumed) \cup n /\ drawn' = drawn + 1
        BY <4>1 DEF Fresh
      <4>q. QED BY <3>1, <4>1, <4>2
    <3>2. CASE /\ issued' = issued \ d.consumed /\ Attach(k, ReceiptMeta(c, "success", None))
               /\ UNCHANGED <<drawn, failed>>
      <4> WITNESS None, {}
      <4>q. QED BY <3>2
    <3>q. QED BY <1>8, <3>1, <3>2 DEF Serve
  <2> DEFINE rs == Append(task[k].artifacts, ReceiptMeta(c, "success", next))
  <2>2. /\ drawn' \in 0..MaxNonces /\ drawn <= drawn' /\ n \subseteq (drawn + 1)..drawn'
        /\ next \in 1..drawn' \cup {None}
    BY <1>4, <2>1 DEF Fresh
  <2>3. c \in ChainsTo(drawn') /\ task[k].artifacts \in Seq(MetasTo(drawn'))
    BY <1>3, <1>4, <2>2, TypesGrow, SeqGrows
  <2>4. ReceiptMeta(c, "success", next) \in MetasTo(drawn')
    BY <2>2, <2>3 DEF ReceiptMeta, MetasTo
  <2>5. rs \in Seq(MetasTo(drawn'))
    BY <2>3, <2>4
  <2>6. /\ next # None => next = drawn + 1 /\ (next \in issued' \/ c.mandate \in failed')
        /\ failed \subseteq failed' /\ failed' \subseteq failed \cup {c.mandate}
    BY <2>1 DEF Fresh
  <2>7. task' = [task EXCEPT ![k].artifacts = rs] /\ served' = [served EXCEPT ![k] = Append(@, c)]
        /\ d.outcome = "success"
    BY <1>8, <2>1 DEF Attach, Serve
  <2>8. Answers(k, c, d, rs, n)
    BY <1>6, <1>7, <2>1, <2>2, <2>5, <2>6, <2>7 DEF Answers
  <2>9. Serves(k, c, d, rs)
    BY <2>6, <2>7 DEF Serves
  <2>q. QED BY <1>1, <2>8, <2>9
<1>9. CASE Refuse(k, c, d)
  <2>1. /\ issued' = issued \ d.consumed /\ UNCHANGED <<drawn, served>> /\ d.outcome = "error"
        /\ failed' = failed \cup (IF d.fault THEN {c.mandate} ELSE {})
        /\ \/ task' = task
           \/ task' = [task EXCEPT ![k].artifacts = Append(task[k].artifacts, ReceiptMeta(c, "error", None))]
    BY <1>9 DEF Refuse, Attach
  <2>2. ReceiptMeta(c, "error", None) \in MetasTo(drawn)
    BY DEF ReceiptMeta, MetasTo
  <2>3. PICK rs : /\ rs \in Seq(MetasTo(drawn)) /\ task' = [task EXCEPT ![k].artifacts = rs]
                  /\ \/ rs = task[k].artifacts
                     \/ rs = Append(task[k].artifacts, ReceiptMeta(c, "error", None))
    <3>1. CASE task' = task
      BY <1>3, <1>5, <3>1
    <3>2. CASE task' # task
      <4>1. Append(task[k].artifacts, ReceiptMeta(c, "error", None)) \in Seq(MetasTo(drawn))
        BY <1>3, <2>2
      <4>q. QED BY <2>1, <3>2, <4>1
    <3>q. QED BY <3>1, <3>2
  <2>4. Answers(k, c, d, rs, {})
    BY <1>4, <1>6, <1>7, <2>1, <2>3 DEF Answers
  <2>5. Refuses(k, c, d, rs)
    BY <2>1, <2>3 DEF Refuses
  <2>q. QED BY <1>1, <2>4, <2>5
<1>q. QED BY <1>7, <1>8, <1>9

(* Every step keeps the invariant. *)
LEMMA NextFlow == FlowInv /\ [Next]_vars => FlowInv'
<1> SUFFICES ASSUME FlowInv, [Next]_vars PROVE FlowInv'
  OBVIOUS
<1>1. ASSUME NEW k \in Tasks, Hello(k) PROVE FlowInv'
  <2>1. UNCHANGED <<task, issued, drawn, uses, held, served, failed>> /\ sent' = sent \cup {hello_message(k)}
    BY <1>1 DEF Hello
  <2>2. Typed'
    BY <2>1 DEF FlowInv, Typed, StoresTyped, TasksTyped, SentTyped
  <2>3. ServedOnce' /\ Receipted'
    BY <2>1 DEF FlowInv, ServedOnce, RetriesAreNotServedAgain, Receipted
  <2>q. QED BY <2>2, <2>3 DEF FlowInv
<1>2. ASSUME NEW k \in Tasks, Poll(k) PROVE FlowInv'
  BY <1>2, PollKeeps
<1>3. ASSUME NEW k \in Tasks, Approve(k) \/ Reject(k) PROVE FlowInv'
  BY <1>3, VerifierSteps, RestatesKeeps
<1>4. ASSUME NEW k \in Tasks, NEW c \in Calls, NEW t \in Times, Continue(k, c, t) PROVE FlowInv'
  BY <1>4, SendingKeeps
<1>5. ASSUME NEW k \in Tasks, NEW l \in Tasks, NEW c \in Calls, NEW t \in Times, CallAgain(k, l, c, t)
      PROVE  FlowInv'
  BY <1>5, SendingKeeps
<1>6. ASSUME NEW m \in sent, OnHello(m) PROVE FlowInv'
  <2>1. m.task \in Tasks
    BY DEF FlowInv, Typed, SentTyped, hello_message, continuation_message
  <2>q. QED BY <1>6, <2>1, VerifierSteps, RestatesKeeps
<1>7. ASSUME NEW m \in sent, OnContinuation(m) PROVE FlowInv'
  BY <1>7, ContinuationSteps, RefusalKeeps, ServiceKeeps
<1>8. CASE UNCHANGED vars
  <2>1. Typed'
    BY <1>8 DEF vars, FlowInv, Typed, StoresTyped, TasksTyped, SentTyped
  <2>2. ServedOnce' /\ Receipted'
    BY <1>8 DEF vars, FlowInv, ServedOnce, RetriesAreNotServedAgain, Receipted
  <2>q. QED BY <2>1, <2>2 DEF FlowInv
<1>q. QED BY <1>1, <1>2, <1>3, <1>4, <1>5, <1>6, <1>7, <1>8 DEF Next

(* FlowInv is an invariant. *)
LEMMA FlowInvariant == Spec => []FlowInv
  BY InitFlow, NextFlow, PTL DEF Spec

---------------------------------------------------------------------------
(* The flow's state is well typed, and agents know no task the verifier    *)
(* does not, for any tasks, calls, limits and bounds.                      *)
THEOREM FlowTyped == Spec => []TypeOK
<1>1. FlowInv => TypeOK
  <2> SUFFICES ASSUME FlowInv PROVE TypeOK
    OBVIOUS
  <2>1. drawn \in 0..MaxNonces /\ drawn \in Nat /\ MaxNonces \in Nat /\ drawn <= MaxNonces
    BY TaskFlowAssumption DEF FlowInv, Typed, StoresTyped
  <2>2. /\ ChainsTo(drawn) \subseteq Chains /\ Seq(ChainsTo(drawn)) \subseteq Seq(Chains)
        /\ TasksTo(drawn) \subseteq [status : Statuses, artifacts : Seq(Metas)]
    BY <2>1, TypesGrow, TypesEnd
  <2>3. \A k \in Tasks : /\ task[k] # None => IsTask(task[k])
                         /\ held[k] # None => task[k] # None /\ IsTask(held[k])
    BY <2>2 DEF FlowInv, Typed, TasksTyped, IsTask
  <2>4. \A m \in sent : \/ m \in {hello_message(k) : k \in Tasks}
                         \/ m \in {continuation_message(k, c) : k \in Tasks, c \in Chains}
    BY <2>2 DEF FlowInv, Typed, SentTyped
  <2>q. QED BY <2>1, <2>2, <2>3, <2>4 DEF FlowInv, Typed, StoresTyped, TypeOK
<1>q. QED BY <1>1, FlowInvariant, PTL

(* No nonce is served twice in any task, however often agents and the      *)
(* network repeat a presentation.                                          *)
THEOREM RetriesRefused == Spec => []RetriesAreNotServedAgain
<1>1. FlowInv => RetriesAreNotServedAgain
  BY DEF FlowInv, ServedOnce
<1>q. QED BY <1>1, FlowInvariant, PTL

---------------------------------------------------------------------------
(* An answer leaves the receipts new behind the others, at most one, about *)
(* c and with the outcome decided; its next nonce was just drawn.          *)
Adds(k, c, d, rs, new) ==
  /\ \A i \in DOMAIN task[k].artifacts : i \in DOMAIN rs /\ rs[i] = task[k].artifacts[i]
  /\ \A i \in DOMAIN rs : \/ i \in DOMAIN task[k].artifacts /\ rs[i] = task[k].artifacts[i]
                          \/ rs[i] \in new
  /\ \A r \in new : /\ r.chain = c /\ r.outcome = d.outcome /\ r.next_nonce \in {None, drawn + 1}
                    /\ \E i \in DOMAIN rs : rs[i] = r
                    /\ r.next_nonce # None => r.next_nonce \in issued' \/ c.mandate \in failed'
  /\ d.outcome = "success" => \E r : new = {r}

LEMMA AnswerAdds ==
  ASSUME FlowInv, NEW k \in Tasks, NEW c, NEW d, NEW rs, task[k] # None,
         Refuses(k, c, d, rs) \/ Serves(k, c, d, rs)
  PROVE  \E new : Adds(k, c, d, rs, new)
<1> DEFINE old == task[k].artifacts
<1>1. old \in Seq(MetasTo(drawn))
  BY DEF FlowInv, Typed, TasksTyped, TasksTo
<1>2. CASE d.outcome = "error" /\ rs = old
  <2>1. Adds(k, c, d, rs, {})
    BY <1>2 DEF Adds
  <2>q. QED BY <2>1
<1>3. ASSUME NEW r, rs = Append(old, r), r.chain = c, r.outcome = d.outcome, r.next_nonce \in {None, drawn + 1},
             r.next_nonce # None => r.next_nonce \in issued' \/ c.mandate \in failed'
      PROVE  \E new : Adds(k, c, d, rs, new)
  <2>1. /\ DOMAIN rs = 1..(Len(old) + 1) /\ rs[Len(old) + 1] = r /\ Len(old) + 1 \in DOMAIN rs
        /\ \A i \in DOMAIN old : i \in DOMAIN rs /\ rs[i] = old[i]
        /\ \A i \in DOMAIN rs : i \in DOMAIN old \/ i = Len(old) + 1
    BY <1>1, <1>3
  <2>2. Adds(k, c, d, rs, {r})
    BY <1>3, <2>1 DEF Adds
  <2>q. QED BY <2>2
<1>4. CASE Serves(k, c, d, rs)
  <2>1. PICK next : /\ rs = Append(old, ReceiptMeta(c, "success", next))
                    /\ next # None => next = drawn + 1 /\ (next \in issued' \/ c.mandate \in failed')
    BY <1>4 DEF Serves
  <2> DEFINE r == ReceiptMeta(c, "success", next)
  <2>2. r.chain = c /\ r.outcome = d.outcome /\ r.next_nonce = next
    BY <1>4 DEF ReceiptMeta, Serves
  <2>3. rs = Append(old, r)
    BY <2>1
  <2> HIDE DEF r
  <2>q. QED BY <1>3, <2>1, <2>2, <2>3
<1>5. CASE d.outcome = "error" /\ rs = Append(old, ReceiptMeta(c, "error", None))
  <2> DEFINE r == ReceiptMeta(c, "error", None)
  <2>1. r.chain = c /\ r.outcome = d.outcome /\ r.next_nonce = None
    BY <1>5 DEF ReceiptMeta
  <2>2. rs = Append(old, r)
    BY <1>5
  <2> HIDE DEF r
  <2>q. QED BY <1>3, <2>1, <2>2
<1>q. QED BY <1>2, <1>4, <1>5 DEF Refuses

(* A new status leaves the receipts alone. *)
LEMMA RestatesKeepsReceipts ==
  ASSUME FlowInv, NEW k \in Tasks, NEW status, NEW n, Restates(k, status, n), NEW x \in Tasks
  PROVE  ReceiptsOf(x)' = ReceiptsOf(x)
<1>1. ASSUME NEW l \in Tasks, task[l] # None PROVE task'[l] # None /\ task'[l].artifacts = task[l].artifacts
  BY <1>1, RestatesLeavesTask
<1>2. ASSUME NEW l \in Tasks, task'[l] # None, task[l] = None PROVE task'[l].artifacts = <<>>
  BY <1>2, RestatesLeavesTask
<1>3. ASSUME NEW r PROVE r \in ReceiptsOf(x)' <=> r \in ReceiptsOf(x)
  <2>1. ASSUME NEW l \in Tasks, NEW i
        PROVE  (/\ task'[l] # None /\ i \in DOMAIN task'[l].artifacts
                /\ task'[l].artifacts[i].chain.mandate = x /\ r = task'[l].artifacts[i])
               <=> (/\ task[l] # None /\ i \in DOMAIN task[l].artifacts
                    /\ task[l].artifacts[i].chain.mandate = x /\ r = task[l].artifacts[i])
    BY <1>1, <1>2
  <2>q. QED BY <2>1 DEF ReceiptsOf
<1>q. QED BY <1>3

(* An answer leaves every receipt, and adds its own to its mandate's. *)
LEMMA AnswersAddReceipts ==
  ASSUME FlowInv, NEW k \in Tasks, NEW c \in ChainsTo(drawn), NEW d, NEW rs, NEW n, NEW new, task[k] # None,
         Answers(k, c, d, rs, n), Refuses(k, c, d, rs) \/ Serves(k, c, d, rs), Adds(k, c, d, rs, new),
         NEW x \in Tasks
  PROVE  ReceiptsOf(x)' = ReceiptsOf(x) \cup {r \in new : c.mandate = x}
<1>1. /\ task'[k] # None /\ task'[k].artifacts = rs
      /\ \A l \in Tasks : l # k => task'[l] = task[l]
  BY AnswersKeepTypes
<1>2. ASSUME NEW r \in ReceiptsOf(x) PROVE r \in ReceiptsOf(x)'
  <2>1. PICK l \in Tasks : /\ task[l] # None
                           /\ \E i \in DOMAIN task[l].artifacts : r = task[l].artifacts[i] /\ r.chain.mandate = x
    BY <1>2 DEF ReceiptsOf
  <2>2. PICK i \in DOMAIN task[l].artifacts : r = task[l].artifacts[i] /\ r.chain.mandate = x
    BY <2>1
  <2>3. task'[l] # None /\ i \in DOMAIN task'[l].artifacts /\ task'[l].artifacts[i] = r
    BY <1>1, <2>1, <2>2 DEF Adds
  <2>q. QED BY <2>2, <2>3 DEF ReceiptsOf
<1>3. ASSUME NEW r \in new, c.mandate = x PROVE r \in ReceiptsOf(x)'
  <2>1. PICK i \in DOMAIN rs : rs[i] = r /\ r.chain = c
    BY <1>3 DEF Adds
  <2>q. QED BY <1>1, <1>3, <2>1 DEF ReceiptsOf
<1>4. ASSUME NEW r \in ReceiptsOf(x)' PROVE r \in ReceiptsOf(x) \/ (r \in new /\ c.mandate = x)
  <2>1. PICK l \in Tasks : /\ task'[l] # None
                           /\ \E i \in DOMAIN task'[l].artifacts : r = task'[l].artifacts[i] /\ r.chain.mandate = x
    BY <1>4 DEF ReceiptsOf
  <2>2. PICK i \in DOMAIN task'[l].artifacts : r = task'[l].artifacts[i] /\ r.chain.mandate = x
    BY <2>1
  <2>3. CASE l # k
    BY <1>1, <2>1, <2>2, <2>3 DEF ReceiptsOf
  <2>4. CASE l = k
    <3>1. \/ i \in DOMAIN task[k].artifacts /\ r = task[k].artifacts[i]
          \/ r \in new /\ r.chain = c
      BY <1>1, <2>2, <2>4 DEF Adds
    <3>q. QED BY <2>2, <3>1 DEF ReceiptsOf
  <2>q. QED BY <2>3, <2>4
<1>q. QED BY <1>2, <1>3, <1>4

---------------------------------------------------------------------------
(* The receipts that say so are as many as the uses.                       *)
CountInv ==
  /\ \A k \in Tasks : IsFiniteSet(Successes(k))
  /\ UsesHaveReceipts

(* Nothing is counted at first. *)
LEMMA InitCounts == Init => CountInv
<1> SUFFICES ASSUME Init PROVE CountInv
  OBVIOUS
<1>1. \A k \in Tasks : ReceiptsOf(k) = {} /\ uses[k] = 0
  BY DEF Init, ReceiptsOf
<1>2. \A k \in Tasks : Successes(k) = {}
  BY <1>1 DEF Successes
<1>q. QED BY <1>1, <1>2, FS_EmptySet DEF CountInv, UsesHaveReceipts

(* Receipts and uses that stay keep the counts. *)
LEMMA CountsStay ==
  ASSUME CountInv, \A x \in Tasks : ReceiptsOf(x)' = ReceiptsOf(x), uses' = uses, failed \subseteq failed'
  PROVE  CountInv'
<1>1. \A x \in Tasks : Successes(x)' = Successes(x)
  BY DEF Successes
<1>q. QED BY <1>1 DEF CountInv, UsesHaveReceipts

(* A use is counted with the receipt of a call that was not served before, *)
(* or by a store that then failed.                                         *)
LEMMA AnswersKeepCounts ==
  ASSUME FlowInv, CountInv, NEW k \in Tasks, NEW c \in ChainsTo(drawn), NEW d, NEW rs, NEW n, task[k] # None,
         Answers(k, c, d, rs, n), Refuses(k, c, d, rs) \/ Serves(k, c, d, rs)
  PROVE  CountInv'
<1>1. PICK new : Adds(k, c, d, rs, new)
  BY AnswerAdds
<1>2. \A x \in Tasks : ReceiptsOf(x)' = ReceiptsOf(x) \cup {r \in new : c.mandate = x}
  BY <1>1, AnswersAddReceipts
<1>3. /\ c.mandate \in Tasks /\ d.outcome \in {"success", "error"} /\ d.charge \in {0, 1}
      /\ d.outcome = "success" => c.nonce \in issued /\ d.charge = 1
      /\ d.outcome = "error" /\ ~d.fault => d.charge = 0
  BY Decides DEF Answers, ChainsTo
<1>4. /\ \A x \in Tasks : uses[x] \in Nat /\ (x # c.mandate => uses'[x] = uses[x])
      /\ uses'[c.mandate] = uses[c.mandate] + d.charge
  <2>1. uses \in [Tasks -> Nat]
    BY TaskFlowAssumption DEF FlowInv, Typed, StoresTyped
  <2>q. QED BY <1>3, <2>1 DEF Answers
<1> SUFFICES ASSUME NEW x \in Tasks
             PROVE  /\ IsFiniteSet(Successes(x)')
                    /\ Cardinality(Successes(x)') <= uses'[x]
                    /\ x \notin failed' => Cardinality(Successes(x)') = uses'[x]
  BY DEF CountInv, UsesHaveReceipts
<1>5. /\ IsFiniteSet(Successes(x)) /\ Cardinality(Successes(x)) <= uses[x]
      /\ x \notin failed => Cardinality(Successes(x)) = uses[x]
  BY DEF CountInv, UsesHaveReceipts
<1>6. Cardinality(Successes(x)) \in Nat
  BY <1>5, FS_CardinalityType
<1>7. x \notin failed' => x \notin failed
  BY DEF Answers
<1>8. CASE x # c.mandate
  <2>1. Successes(x)' = Successes(x)
    BY <1>2, <1>8 DEF Successes
  <2>q. QED BY <1>4, <1>5, <1>7, <1>8, <2>1
<1>9. CASE x = c.mandate /\ d.outcome = "error"
  <2>1. \A r \in new : r.outcome = "error"
    BY <1>1, <1>9 DEF Adds
  <2>2. Successes(x)' = Successes(x)
    BY <1>2, <2>1 DEF Successes
  <2>3. x \notin failed' => d.charge = 0
    BY <1>3, <1>9 DEF Refuses, Serves
  <2>q. QED BY <1>3, <1>4, <1>5, <1>6, <1>7, <1>9, <2>2, <2>3
<1>10. CASE x = c.mandate /\ d.outcome = "success"
  <2>1. PICK r : new = {r} /\ r.chain = c /\ r.outcome = "success"
    BY <1>1, <1>10 DEF Adds
  <2>2. Successes(x)' = Successes(x) \cup {r}
    BY <1>2, <1>10, <2>1 DEF Successes
  <2>3. r \notin Successes(x)
    <3> SUFFICES ASSUME r \in Successes(x) PROVE FALSE
      OBVIOUS
    <3>1. PICK l \in Tasks : task[l] # None /\ \E i \in DOMAIN task[l].artifacts : r = task[l].artifacts[i]
      BY DEF Successes, ReceiptsOf
    <3>2. \E y \in DOMAIN served[l] : served[l][y] = c
      BY <2>1, <3>1 DEF FlowInv, Receipted
    <3>q. QED BY <1>3, <1>10, <3>2 DEF FlowInv, ServedOnce
  <2>4. IsFiniteSet(Successes(x)') /\ Cardinality(Successes(x)') = Cardinality(Successes(x)) + 1
    BY <1>5, <2>2, <2>3, FS_AddElement
  <2>q. QED BY <1>3, <1>4, <1>5, <1>6, <1>7, <1>10, <2>4
<1>q. QED BY <1>3, <1>8, <1>9, <1>10

(* Every step keeps the invariant. *)
LEMMA NextCounts == FlowInv /\ CountInv /\ [Next]_vars => CountInv'
<1> SUFFICES ASSUME FlowInv, CountInv, [Next]_vars PROVE CountInv'
  OBVIOUS
<1>1. ASSUME UNCHANGED <<task, uses, failed>> PROVE CountInv'
  BY <1>1, CountsStay DEF ReceiptsOf
<1>2. ASSUME NEW k \in Tasks, Approve(k) \/ Reject(k) \/ \E m \in sent : m.task = k /\ OnHello(m) PROVE CountInv'
  <2>1. PICK status, n : Restates(k, status, n)
    BY <1>2, VerifierSteps
  <2>2. \A x \in Tasks : ReceiptsOf(x)' = ReceiptsOf(x)
    BY <2>1, RestatesKeepsReceipts
  <2>q. QED BY <2>1, <2>2, CountsStay DEF Restates
<1>3. ASSUME NEW m \in sent, OnHello(m) PROVE CountInv'
  <2>1. m.task \in Tasks
    BY DEF FlowInv, Typed, SentTyped, hello_message, continuation_message
  <2>q. QED BY <1>2, <1>3, <2>1
<1>4. ASSUME NEW m \in sent, OnContinuation(m) PROVE CountInv'
  BY <1>4, ContinuationSteps, AnswersKeepCounts
<1>5. CASE (\E k \in Tasks : Hello(k) \/ Poll(k)) \/ UNCHANGED vars
  BY <1>1, <1>5 DEF Hello, Poll, vars
<1>6. CASE \/ \E k \in Tasks, c \in Calls, t \in Times : Continue(k, c, t)
           \/ \E k, l \in Tasks, c \in Calls, t \in Times : CallAgain(k, l, c, t)
  BY <1>1, <1>6 DEF Continue, CallAgain
<1>q. QED BY <1>2, <1>3, <1>4, <1>5, <1>6 DEF Next

(* For any tasks, calls, limits and bounds, and whatever is repeated, late, *)
(* refused or met by a failing store: the receipts that say a call was      *)
(* served are the uses the verifier counted, on each mandate.               *)
THEOREM UsesHaveReceiptsHolds == Spec => []UsesHaveReceipts
<1>1. Init => FlowInv /\ CountInv
  BY InitFlow, InitCounts
<1>2. FlowInv /\ CountInv /\ [Next]_vars => FlowInv' /\ CountInv'
  BY NextFlow, NextCounts
<1>3. CountInv => UsesHaveReceipts
  BY DEF CountInv
<1>q. QED BY <1>1, <1>2, <1>3, PTL DEF Spec

---------------------------------------------------------------------------
(* The copies of a task, what has been presented, and every receipt. *)
Copies(k) == {task[k], held[k]} \ {None}
Presented == {m.presentation : m \in {x \in sent : x.type = "continuation"}}
AllReceipts == UNION {UNION {{t.artifacts[i] : i \in DOMAIN t.artifacts} : t \in Copies(l)} : l \in Tasks}

(* A nonce is for the mandate of the task whose status brought it, or of   *)
(* the receipt that did, and is presented with no other.                   *)
Bears(k, n) ==
  \/ \E t \in Copies(k) : t.status.nonce = n
  \/ \E r \in AllReceipts : r.chain.mandate = k /\ r.next_nonce = n
  \/ \E c \in Presented : c.mandate = k /\ c.nonce = n

OneOwner == \A k, l \in Tasks, n \in 1..drawn : Bears(k, n) /\ Bears(l, n) => k = l

IsApproved(k) == task[k] # None /\ task[k].status.state = "approved"

(* Nothing is presented before the user approves, so a pending task's      *)
(* nonce is unused, and in the store unless that has failed.               *)
ApprovedFirst ==
  /\ \A k \in Tasks : task[k] # None /\ task[k].status.state = "pending" =>
       task[k].status.nonce \in issued \/ k \in failed
  /\ \A k \in Tasks : \A t \in Copies(k) :
       t.status.state = "approved" => t.status.mandate = k /\ IsApproved(k)
  /\ \A c \in Presented : c.mandate \in Tasks /\ IsApproved(c.mandate)
  /\ \A r \in AllReceipts : r.chain \in Presented

(* With what is approved first and borne once, SomeNonceIsLeft is          *)
(* inductive: the nonce a call takes is of its own mandate.                *)
NonceInv == OneOwner /\ ApprovedFirst /\ SomeNonceIsLeft

(* What is borne has been drawn. *)
LEMMA NoncesBorne ==
  ASSUME FlowInv, NEW k, NEW n \in Nat, k \in Tasks, Bears(k, n)
  PROVE  n \in 1..drawn
<1>1. drawn \in Nat /\ None \notin Nat
  BY TaskFlowAssumption DEF FlowInv, Typed, StoresTyped
<1>2. ASSUME NEW t \in Copies(k), t.status.nonce = n PROVE n \in 1..drawn
  <2>1. t \in TasksTo(drawn)
    BY <1>2 DEF FlowInv, Typed, TasksTyped, Copies
  <2>2. t.status \in StatusesTo(drawn)
    BY <2>1 DEF TasksTo
  <2>q. QED BY <1>1, <1>2, <2>2 DEF StatusesTo, Denied, Pending, Approved
<1>3. ASSUME NEW r \in AllReceipts, r.next_nonce = n PROVE n \in 1..drawn
  <2>1. PICK l \in Tasks : \E t \in Copies(l) : \E i \in DOMAIN t.artifacts : r = t.artifacts[i]
    BY <1>3 DEF AllReceipts
  <2>2. PICK t \in TasksTo(drawn) : \E i \in DOMAIN t.artifacts : r = t.artifacts[i]
    BY <2>1 DEF FlowInv, Typed, TasksTyped, Copies
  <2>3. t.artifacts \in Seq(MetasTo(drawn))
    BY <2>2 DEF TasksTo
  <2>4. r \in MetasTo(drawn)
    BY <2>2, <2>3
  <2>q. QED BY <1>1, <1>3, <2>4 DEF MetasTo
<1>4. ASSUME NEW c \in Presented, c.nonce = n PROVE n \in 1..drawn
  <2>1. PICK m \in sent : m.type = "continuation" /\ c = m.presentation
    BY <1>4 DEF Presented
  <2>2. c \in ChainsTo(drawn)
    BY <2>1 DEF FlowInv, Typed, SentTyped, hello_message, continuation_message
  <2>q. QED BY <1>4, <2>2 DEF ChainsTo
<1>q. QED BY <1>2, <1>3, <1>4 DEF Bears

(* What is newly borne is what its task bore before, or a nonce just drawn. *)
LEMMA OwnersKept ==
  ASSUME FlowInv, OneOwner, drawn' \in Nat, NEW x,
         \A k \in Tasks, n \in 1..drawn' : Bears(k, n)' => Bears(k, n) \/ (n = drawn + 1 /\ k = x)
  PROVE  OneOwner'
<1> SUFFICES ASSUME NEW k \in Tasks, NEW l \in Tasks, NEW n \in 1..drawn', Bears(k, n)', Bears(l, n)'
             PROVE  k = l
  BY DEF OneOwner
<1>1. drawn \in Nat
  BY TaskFlowAssumption DEF FlowInv, Typed, StoresTyped
<1>2. CASE n = drawn + 1
  <2>1. ~Bears(k, n) /\ ~Bears(l, n)
    BY <1>1, <1>2, NoncesBorne
  <2>q. QED BY <2>1
<1>3. CASE n # drawn + 1
  <2>1. Bears(k, n) /\ Bears(l, n)
    BY <1>3
  <2>2. n \in 1..drawn
    BY <2>1, NoncesBorne
  <2>q. QED BY <2>1, <2>2 DEF OneOwner
<1>q. QED BY <1>2, <1>3

(* No nonce is borne at first. *)
LEMMA InitNonces == Init => NonceInv
<1> SUFFICES ASSUME Init PROVE NonceInv
  OBVIOUS
<1>1. Presented = {} /\ AllReceipts = {} /\ \A k \in Tasks : Copies(k) = {} /\ task[k] = None
  BY DEF Init, Presented, AllReceipts, Copies
<1>q. QED BY <1>1 DEF NonceInv, OneOwner, Bears, ApprovedFirst, SomeNonceIsLeft

(* An agent presents a mandate with a nonce it was given for it. *)
LEMMA SendingKeepsNonces ==
  ASSUME FlowInv, NonceInv, NEW k \in Tasks, NEW l \in Tasks, NEW c \in Calls, NEW t \in Times,
         Continue(k, c, t) \/ CallAgain(k, l, c, t)
  PROVE  NonceInv'
<1>1. UNCHANGED <<task, issued, drawn, uses, held, served, failed>>
  BY DEF Continue, CallAgain
<1>2. PICK y, ch : /\ sent' = sent \cup {continuation_message(y, ch)}
                   /\ ch.mandate \in Tasks /\ IsApproved(ch.mandate)
                   /\ Bears(ch.mandate, ch.nonce)
  <2>1. CASE Continue(k, c, t)
    <3> DEFINE s == held[k].status
               ch == present(s.mandate, Closed(c, k), s.nonce, t)
    <3>1. held[k] # None /\ s.state = "approved" /\ sent' = sent \cup {continuation_message(k, ch)}
      BY <2>1 DEF Continue, auth_state
    <3>2. held[k] \in Copies(k)
      BY <3>1 DEF Copies
    <3>3. s.mandate = k /\ IsApproved(k)
      BY <3>1, <3>2 DEF NonceInv, ApprovedFirst
    <3>4. ch.mandate = k /\ ch.nonce = s.nonce
      BY <3>3 DEF present
    <3>5. Bears(k, s.nonce)
      BY <3>2 DEF Bears
    <3>q. QED BY <3>1, <3>3, <3>4, <3>5
  <2>2. CASE CallAgain(k, l, c, t)
    <3> DEFINE r == receipt_meta(held[k])
               ch == present(r.chain.mandate, Closed(c, l), r.next_nonce, t)
    <3>1. held[k] # None /\ r # None /\ sent' = sent \cup {continuation_message(l, ch)}
      BY <2>2 DEF CallAgain
    <3>2. held[k] \in Copies(k) /\ held[k] \in TasksTo(drawn)
      BY <3>1 DEF Copies, FlowInv, Typed, TasksTyped
    <3>3. 1 \in DOMAIN held[k].artifacts /\ r = held[k].artifacts[1]
      <4>1. held[k].artifacts \in Seq(MetasTo(drawn)) /\ held[k].artifacts # <<>>
        BY <3>1, <3>2 DEF TasksTo, receipt_meta
      <4>q. QED BY <4>1 DEF receipt_meta
    <3>4. r \in AllReceipts
      BY <3>2, <3>3 DEF AllReceipts
    <3>5. r.chain.mandate \in Tasks /\ IsApproved(r.chain.mandate)
      BY <3>4 DEF NonceInv, ApprovedFirst
    <3>6. Bears(r.chain.mandate, r.next_nonce)
      BY <3>4 DEF Bears
    <3>7. ch.mandate = r.chain.mandate /\ ch.nonce = r.next_nonce
      BY DEF present
    <3>q. QED BY <3>1, <3>5, <3>6, <3>7
  <2>q. QED BY <2>1, <2>2
<1>3. Presented' = Presented \cup {ch}
  <2> DEFINE m == continuation_message(y, ch)
  <2>1. m.type = "continuation" /\ m.presentation = ch
    BY DEF continuation_message
  <2>2. sent' = sent \cup {m}
    BY <1>2
  <2> HIDE DEF m
  <2>q. QED BY <2>1, <2>2 DEF Presented
<1>4. AllReceipts' = AllReceipts /\ \A x : Copies(x)' = Copies(x) /\ (IsApproved(x)' <=> IsApproved(x))
  BY <1>1 DEF AllReceipts, Copies, IsApproved
<1>5. \A x : \A n : Bears(x, n)' => Bears(x, n)
  BY <1>2, <1>3, <1>4 DEF Bears
<1>6. OneOwner'
  BY <1>1, <1>5 DEF NonceInv, OneOwner
<1>7. ApprovedFirst'
  BY <1>1, <1>2, <1>3, <1>4 DEF NonceInv, ApprovedFirst
<1>8. SomeNonceIsLeft'
  BY <1>1 DEF NonceInv, SomeNonceIsLeft, Successes, ReceiptsOf
<1>q. QED BY <1>6, <1>7, <1>8 DEF NonceInv

(* Polling makes no nonce known that the task does not carry. *)
LEMMA PollKeepsNonces == ASSUME FlowInv, NonceInv, NEW k \in Tasks, Poll(k) PROVE NonceInv'
<1>1. task[k] # None /\ held' = [held EXCEPT ![k] = task[k]] /\ UNCHANGED <<task, issued, drawn, uses, sent, served, failed>>
  BY DEF Poll
<1>2. \A x \in Tasks : Copies(x)' \subseteq Copies(x)
  BY <1>1 DEF Copies, FlowInv, Typed, TasksTyped
<1>3. Presented' = Presented /\ AllReceipts' \subseteq AllReceipts
  <2>1. Presented' = Presented
    BY <1>1 DEF Presented
  <2>2. AllReceipts' \subseteq AllReceipts
    BY <1>2 DEF AllReceipts
  <2>q. QED BY <2>1, <2>2
<1>4. \A x \in Tasks : IsApproved(x)' <=> IsApproved(x)
  BY <1>1 DEF IsApproved
<1>5. \A x \in Tasks : \A n : Bears(x, n)' => Bears(x, n)
  BY <1>2, <1>3 DEF Bears
<1>6. OneOwner'
  BY <1>1, <1>5 DEF NonceInv, OneOwner
<1>7. ApprovedFirst'
  BY <1>1, <1>2, <1>3, <1>4 DEF NonceInv, ApprovedFirst
<1>8. SomeNonceIsLeft'
  BY <1>1 DEF NonceInv, SomeNonceIsLeft, Successes, ReceiptsOf
<1>q. QED BY <1>6, <1>7, <1>8 DEF NonceInv

(* A status brings a fresh nonce, or the one the task had, which no        *)
(* presentation has taken while the task was pending.                      *)
LEMMA RestatesKeepsNonces ==
  ASSUME FlowInv, NonceInv, NEW k \in Tasks, NEW status, NEW n,
         Restates(k, status, n), NewStatus(k, status)
  PROVE  NonceInv'
<1>1. /\ drawn \in Nat /\ drawn' \in Nat /\ None \notin Nat /\ issued \subseteq issued'
      /\ failed \subseteq failed' /\ UNCHANGED <<uses, sent, held, served>>
  BY TaskFlowAssumption DEF FlowInv, Typed, StoresTyped, Restates
<1>2. /\ task'[k] # None /\ task'[k].status = status
      /\ task[k] = None => task'[k].artifacts = <<>>
      /\ task[k] # None => task'[k].artifacts = task[k].artifacts
  BY RestatesLeavesTask
<1>3. \A x \in Tasks : x # k => task'[x] = task[x]
  BY RestatesLeavesTask
<1>4. /\ \A x \in Tasks : x # k => Copies(x)' = Copies(x)
      /\ \A t \in Copies(k)' : t = task'[k] \/ t \in Copies(k)
      /\ task[k] # None => task[k] \in Copies(k)
  BY <1>1, <1>3 DEF Copies
<1>5. Presented' = Presented
  BY <1>1 DEF Presented
<1>6. AllReceipts' \subseteq AllReceipts
  <2> SUFFICES ASSUME NEW r \in AllReceipts' PROVE r \in AllReceipts
    OBVIOUS
  <2> PICK l \in Tasks : \E t \in Copies(l)' : \E i \in DOMAIN t.artifacts : r = t.artifacts[i]
    BY DEF AllReceipts
  <2>0. PICK t \in Copies(l)' : \E i \in DOMAIN t.artifacts : r = t.artifacts[i]
    OBVIOUS
  <2>1. CASE t \in Copies(l)
    BY <2>0, <2>1 DEF AllReceipts
  <2>2. CASE t \notin Copies(l)
    <3>1. l = k /\ t = task'[k]
      BY <1>4, <2>2
    <3>2. task[k] # None /\ t.artifacts = task[k].artifacts
      BY <1>2, <2>0, <3>1
    <3>q. QED BY <1>4, <2>0, <3>1, <3>2 DEF AllReceipts
  <2>q. QED BY <2>1, <2>2
<1>7. \A x \in Tasks : \A p : p \in 1..drawn' /\ Bears(x, p)' => Bears(x, p) \/ (p = drawn + 1 /\ x = k)
  <2> SUFFICES ASSUME NEW x \in Tasks, NEW p \in 1..drawn', Bears(x, p)'
               PROVE  Bears(x, p) \/ (p = drawn + 1 /\ x = k)
    OBVIOUS
  <2>1. CASE \E t \in Copies(x)' : t.status.nonce = p
    <3>1. PICK t \in Copies(x)' : t.status.nonce = p
      BY <2>1
    <3>2. CASE t \in Copies(x)
      BY <3>1, <3>2 DEF Bears
    <3>3. CASE t \notin Copies(x)
      <4>1. x = k /\ t = task'[k]
        BY <1>4, <3>3
      <4>2. status.nonce = p /\ p # None
        BY <1>1, <1>2, <3>1, <4>1
      <4>3. p = drawn + 1 \/ (task[k] # None /\ p = task[k].status.nonce)
        BY <4>2 DEF NewStatus
      <4>q. QED BY <1>4, <4>1, <4>3 DEF Bears
    <3>q. QED BY <3>2, <3>3
  <2>2. CASE \E r \in AllReceipts' : r.chain.mandate = x /\ r.next_nonce = p
    BY <1>6, <2>2 DEF Bears
  <2>3. CASE \E c \in Presented' : c.mandate = x /\ c.nonce = p
    BY <1>5, <2>3 DEF Bears
  <2>q. QED BY <2>1, <2>2, <2>3 DEF Bears
<1>8. OneOwner'
  BY <1>1, <1>7, OwnersKept DEF NonceInv
<1>9. \A x \in Tasks : IsApproved(x) => IsApproved(x)'
  <2>1. ~IsApproved(k)
    BY DEF NewStatus, IsApproved
  <2>q. QED BY <1>3, <2>1 DEF IsApproved
<1>10. ApprovedFirst'
  <2>1. ASSUME NEW x \in Tasks, task'[x] # None, task'[x].status.state = "pending"
        PROVE  task'[x].status.nonce \in issued' \/ x \in failed'
    <3>1. CASE x = k
      BY <1>2, <2>1, <3>1 DEF NewStatus
    <3>2. CASE x # k
      BY <1>1, <1>3, <2>1, <3>2 DEF NonceInv, ApprovedFirst
    <3>q. QED BY <3>1, <3>2
  <2>2. ASSUME NEW x \in Tasks, NEW t \in Copies(x)', t.status.state = "approved"
        PROVE  t.status.mandate = x /\ IsApproved(x)'
    <3>1. CASE t \in Copies(x)
      BY <1>9, <2>2, <3>1 DEF NonceInv, ApprovedFirst
    <3>2. CASE t \notin Copies(x)
      <4>1. x = k /\ t = task'[k] /\ t.status = status
        BY <1>2, <1>4, <3>2
      <4>q. QED BY <1>2, <2>2, <4>1 DEF NewStatus, IsApproved
    <3>q. QED BY <3>1, <3>2
  <2>3. /\ \A c \in Presented' : c.mandate \in Tasks /\ IsApproved(c.mandate)'
        /\ \A r \in AllReceipts' : r.chain \in Presented'
    BY <1>5, <1>6, <1>9 DEF NonceInv, ApprovedFirst
  <2>q. QED BY <2>1, <2>2, <2>3 DEF ApprovedFirst
<1>11. SomeNonceIsLeft'
  <2> SUFFICES ASSUME NEW x \in Tasks, task'[x] # None, task'[x].status.state = "approved", uses'[x] < max_uses,
                      \A r \in Successes(x)' : r.next_nonce # None, x \notin failed'
               PROVE  \/ task'[x].status.nonce \in issued'
                      \/ \E r \in ReceiptsOf(x)' : r.next_nonce \in issued'
    BY DEF SomeNonceIsLeft
  <2>1. CASE x = k
    <3>1. status.state = "approved" /\ status.nonce # None
      BY <1>2, <2>1 DEF NewStatus
    <3>2. CASE status.nonce = drawn + 1 /\ (drawn + 1 \in issued' \/ k \in failed')
      BY <1>2, <2>1, <3>1, <3>2 DEF NewStatus
    <3>3. CASE task[k] # None /\ status.nonce = task[k].status.nonce
      <4>1. task[k].status.nonce \in issued
        BY <1>1, <2>1, <3>3 DEF NonceInv, ApprovedFirst, NewStatus
      <4>q. QED BY <1>1, <1>2, <2>1, <3>3, <4>1
    <3>q. QED BY <3>1, <3>2, <3>3 DEF NewStatus
  <2>2. CASE x # k
    <3>1. task'[x] = task[x] /\ uses'[x] = uses[x] /\ x \notin failed
      BY <1>1, <1>3, <2>2
    <3>2. ReceiptsOf(x)' = ReceiptsOf(x) /\ Successes(x)' = Successes(x)
      BY RestatesKeepsReceipts DEF Successes
    <3>q. QED BY <1>1, <3>1, <3>2 DEF NonceInv, SomeNonceIsLeft
  <2>q. QED BY <2>1, <2>2
<1>q. QED BY <1>8, <1>10, <1>11 DEF NonceInv

(* A handled presentation takes a nonce of its own mandate only, and if it *)
(* is served the receipt brings another.                                   *)
LEMMA AnswersKeepNonces ==
  ASSUME FlowInv, FlowInv', NonceInv, NEW k \in Tasks, NEW c \in Presented, NEW d, NEW rs, NEW n, task[k] # None,
         c \in ChainsTo(drawn), Answers(k, c, d, rs, n), Refuses(k, c, d, rs) \/ Serves(k, c, d, rs)
  PROVE  NonceInv'
<1>1. /\ task'[k] # None /\ task'[k].artifacts = rs /\ task'[k].status = task[k].status
      /\ \A x \in Tasks : x # k => task'[x] = task[x]
  BY AnswersKeepTypes
<1>2. /\ drawn \in Nat /\ drawn' \in Nat /\ None \notin Nat /\ issued \subseteq 1..drawn
      /\ UNCHANGED <<sent, held>>
  BY TaskFlowAssumption DEF FlowInv, Typed, StoresTyped, Answers
<1>3. Presented' = Presented /\ c.mandate \in Tasks /\ IsApproved(c.mandate) /\ c.nonce \in 1..drawn
      /\ Bears(c.mandate, c.nonce)
  BY <1>2 DEF Presented, NonceInv, ApprovedFirst, Bears, ChainsTo
<1>4. /\ d.consumed \subseteq {c.nonce} /\ issued \ d.consumed \subseteq issued'
      /\ \A x \in Tasks : uses'[x] >= uses[x] /\ uses[x] \in Nat /\ uses'[x] \in Nat
      /\ failed \subseteq failed'
  <2>1. d.consumed \subseteq {c.nonce} /\ d.charge \in {0, 1}
    BY Decides DEF Answers
  <2>2. uses \in [Tasks -> Nat] /\ uses' \in [Tasks -> Nat]
    BY TaskFlowAssumption DEF FlowInv, Typed, StoresTyped
  <2>3. \A x \in Tasks : uses'[x] >= uses[x]
    BY <2>1, <2>2 DEF Answers
  <2>q. QED BY <2>1, <2>2, <2>3 DEF Answers
<1>5. task[k].artifacts \in Seq(MetasTo(drawn)) /\ task[k] \in Copies(k)
  BY DEF FlowInv, Typed, TasksTyped, TasksTo, Copies
<1>6. PICK new : Adds(k, c, d, rs, new)
  BY AnswerAdds
<1>7. AllReceipts' \subseteq AllReceipts \cup new
  <2> SUFFICES ASSUME NEW r, NEW l \in Tasks, NEW t \in Copies(l)', NEW i \in DOMAIN t.artifacts, r = t.artifacts[i]
               PROVE  r \in AllReceipts \cup new
    BY DEF AllReceipts
  <2>1. CASE t \in Copies(l)
    BY <2>1 DEF AllReceipts
  <2>2. CASE t \notin Copies(l)
    <3>1. l = k /\ t = task'[k] /\ t.artifacts = rs
      BY <1>1, <1>2, <2>2 DEF Copies
    <3>2. \/ i \in DOMAIN task[k].artifacts /\ r = task[k].artifacts[i]
          \/ r \in new
      BY <1>6, <3>1 DEF Adds
    <3>q. QED BY <1>5, <3>2 DEF AllReceipts
  <2>q. QED BY <2>1, <2>2
<1>8. \A x \in Tasks : \A t \in Copies(x)' : \E u \in Copies(x) : u.status = t.status
  BY <1>1, <1>2 DEF Copies
<1>9. \A x \in Tasks : \A p : p \in 1..drawn' /\ Bears(x, p)' => Bears(x, p) \/ (p = drawn + 1 /\ x = c.mandate)
  <2> SUFFICES ASSUME NEW x \in Tasks, NEW p \in 1..drawn', Bears(x, p)'
               PROVE  Bears(x, p) \/ (p = drawn + 1 /\ x = c.mandate)
    OBVIOUS
  <2>1. CASE \E t \in Copies(x)' : t.status.nonce = p
    BY <1>8, <2>1 DEF Bears
  <2>2. CASE \E r \in AllReceipts' : r.chain.mandate = x /\ r.next_nonce = p
    <3>1. PICK r \in AllReceipts' : r.chain.mandate = x /\ r.next_nonce = p
      BY <2>2
    <3>2. CASE r \in AllReceipts
      BY <3>1, <3>2 DEF Bears
    <3>3. CASE r \in new
      BY <1>2, <1>6, <3>1, <3>3 DEF Adds
    <3>q. QED BY <1>7, <3>1, <3>2, <3>3
  <2>3. CASE \E s \in Presented' : s.mandate = x /\ s.nonce = p
    BY <1>3, <2>3 DEF Bears
  <2>q. QED BY <2>1, <2>2, <2>3 DEF Bears
<1>10. OneOwner'
  BY <1>2, <1>9, OwnersKept DEF NonceInv
<1>11. \A x \in Tasks : /\ task[x] # None <=> task'[x] # None
                        /\ task[x] # None => task'[x].status = task[x].status
                        /\ IsApproved(x) => IsApproved(x)'
  BY <1>1 DEF IsApproved
<1>12. ApprovedFirst'
  <2>1. ASSUME NEW x \in Tasks, task'[x] # None, task'[x].status.state = "pending"
        PROVE  task'[x].status.nonce \in issued' \/ x \in failed'
    <3> DEFINE p == task[x].status.nonce
    <3>1. task[x] # None /\ task[x].status.state = "pending" /\ task'[x].status.nonce = p
      BY <1>11, <2>1
    <3>2. CASE x \in failed
      BY <1>4, <3>2
    <3>3. CASE p \in issued
      <4>1. Bears(x, p)
        BY <3>1 DEF Bears, Copies
      <4>2. c.mandate # x
        BY <1>3, <3>1 DEF IsApproved
      <4>3. p # c.nonce
        BY <1>3, <4>1, <4>2 DEF NonceInv, OneOwner
      <4>q. QED BY <1>4, <3>1, <3>3, <4>3
    <3>q. QED BY <3>1, <3>2, <3>3 DEF NonceInv, ApprovedFirst
  <2>2. ASSUME NEW x \in Tasks, NEW t \in Copies(x)', t.status.state = "approved"
        PROVE  t.status.mandate = x /\ IsApproved(x)'
    BY <1>8, <1>11, <2>2 DEF NonceInv, ApprovedFirst
  <2>3. \A s \in Presented' : s.mandate \in Tasks /\ IsApproved(s.mandate)'
    BY <1>3, <1>11 DEF NonceInv, ApprovedFirst
  <2>4. \A r \in AllReceipts' : r.chain \in Presented'
    BY <1>3, <1>6, <1>7 DEF NonceInv, ApprovedFirst, Adds
  <2>q. QED BY <2>1, <2>2, <2>3, <2>4 DEF ApprovedFirst
<1>13. SomeNonceIsLeft'
  <2> SUFFICES ASSUME NEW x \in Tasks, task'[x] # None, task'[x].status.state = "approved", uses'[x] < max_uses,
                      \A r \in Successes(x)' : r.next_nonce # None, x \notin failed'
               PROVE  \/ task'[x].status.nonce \in issued'
                      \/ \E r \in ReceiptsOf(x)' : r.next_nonce \in issued'
    BY DEF SomeNonceIsLeft
  <2>1. ReceiptsOf(x)' = ReceiptsOf(x) \cup {r \in new : c.mandate = x}
    BY <1>6, AnswersAddReceipts
  <2>2. /\ task[x] # None /\ task[x].status.state = "approved" /\ uses[x] < max_uses /\ x \notin failed
        /\ \A r \in Successes(x) : r.next_nonce # None
    BY <1>4, <1>11, <2>1, TaskFlowAssumption DEF Successes
  <2>3. \/ task[x].status.nonce \in issued
        \/ \E r \in ReceiptsOf(x) : r.next_nonce \in issued
    BY <2>2 DEF NonceInv, SomeNonceIsLeft
  <2>4. PICK p \in issued : /\ Bears(x, p)
                            /\ \/ task[x].status.nonce = p
                               \/ \E r \in ReceiptsOf(x) : r.next_nonce = p
    <3>1. ASSUME NEW r \in ReceiptsOf(x) PROVE r \in AllReceipts /\ r.chain.mandate = x
      BY <3>1 DEF ReceiptsOf, AllReceipts, Copies
    <3>2. task[x] \in Copies(x)
      BY <2>2 DEF Copies
    <3>q. QED BY <2>3, <3>1, <3>2 DEF Bears
  <2>5. CASE p \in issued'
    BY <1>11, <2>1, <2>2, <2>4, <2>5
  <2>6. CASE p \notin issued'
    <3>1. p = c.nonce /\ d.consumed # {}
      BY <1>4, <2>6
    <3>2. c.mandate = x
      BY <1>2, <1>3, <2>4, <3>1 DEF NonceInv, OneOwner
    <3>3. d.outcome = "success"
      <4>1. d.outcome = "error" /\ ~d.fault => uses[x] >= max_uses
        BY <3>1, <3>2, Decides DEF Answers, Spent
      <4>2. ~(uses[x] >= max_uses)
        BY <1>4, <2>2, TaskFlowAssumption
      <4>q. QED BY <3>2, <4>1, <4>2 DEF Refuses, Serves
    <3>4. PICK r \in new : r.outcome = "success"
      BY <1>6, <3>3 DEF Adds
    <3>5. r \in Successes(x)'
      BY <2>1, <3>2, <3>4 DEF Successes
    <3>q. QED BY <1>6, <2>1, <3>2, <3>4, <3>5 DEF Adds
  <2>q. QED BY <2>5, <2>6
<1>q. QED BY <1>10, <1>12, <1>13 DEF NonceInv

(* Every step keeps the invariant. *)
LEMMA NextNonces == FlowInv /\ NonceInv /\ [Next]_vars => NonceInv'
<1> SUFFICES ASSUME FlowInv, NonceInv, [Next]_vars PROVE NonceInv'
  OBVIOUS
<1>0. FlowInv'
  BY NextFlow
<1>1. ASSUME UNCHANGED <<task, issued, drawn, uses, held, served, failed>>,
             {m \in sent' : m.type = "continuation"} = {m \in sent : m.type = "continuation"}
      PROVE  NonceInv'
  <2>1. Presented' = Presented
    BY <1>1 DEF Presented
  <2>2. AllReceipts' = AllReceipts /\ \A x : Copies(x)' = Copies(x) /\ (IsApproved(x)' <=> IsApproved(x))
    BY <1>1 DEF AllReceipts, Copies, IsApproved
  <2>3. \A x : \A n : Bears(x, n)' => Bears(x, n)
    BY <2>1, <2>2 DEF Bears
  <2>4. OneOwner' /\ ApprovedFirst'
    BY <1>1, <2>1, <2>2, <2>3 DEF NonceInv, OneOwner, ApprovedFirst
  <2>5. SomeNonceIsLeft'
    BY <1>1 DEF NonceInv, SomeNonceIsLeft, Successes, ReceiptsOf
  <2>q. QED BY <2>4, <2>5 DEF NonceInv
<1>2. ASSUME NEW k \in Tasks, Hello(k) PROVE NonceInv'
  <2>1. hello_message(k).type # "continuation"
    BY DEF hello_message
  <2>q. QED BY <1>1, <1>2, <2>1 DEF Hello
<1>3. ASSUME NEW k \in Tasks, Poll(k) PROVE NonceInv'
  BY <1>3, PollKeepsNonces
<1>4. ASSUME NEW k \in Tasks, Approve(k) \/ Reject(k) PROVE NonceInv'
  BY <1>4, VerifierSteps, RestatesKeepsNonces
<1>5. ASSUME NEW k \in Tasks, NEW c \in Calls, NEW t \in Times, Continue(k, c, t) PROVE NonceInv'
  BY <1>5, SendingKeepsNonces
<1>6. ASSUME NEW k \in Tasks, NEW l \in Tasks, NEW c \in Calls, NEW t \in Times, CallAgain(k, l, c, t)
      PROVE  NonceInv'
  BY <1>6, SendingKeepsNonces
<1>7. ASSUME NEW m \in sent, OnHello(m) PROVE NonceInv'
  <2>1. m.task \in Tasks
    BY DEF FlowInv, Typed, SentTyped, hello_message, continuation_message
  <2>q. QED BY <1>7, <2>1, VerifierSteps, RestatesKeepsNonces
<1>8. ASSUME NEW m \in sent, OnContinuation(m) PROVE NonceInv'
  <2>1. PICK k \in Tasks, c \in ChainsTo(drawn) : \E d, rs, n :
          /\ m = continuation_message(k, c) /\ task[k] # None
          /\ Answers(k, c, d, rs, n) /\ (Refuses(k, c, d, rs) \/ Serves(k, c, d, rs))
    BY <1>8, ContinuationSteps
  <2>2. c \in Presented
    <3>1. m.type = "continuation" /\ m.presentation = c
      BY <2>1 DEF continuation_message
    <3>q. QED BY <3>1 DEF Presented
  <2>q. QED BY <1>0, <2>1, <2>2, AnswersKeepNonces
<1>9. CASE UNCHANGED vars
  BY <1>1, <1>9 DEF vars
<1>q. QED BY <1>2, <1>3, <1>4, <1>5, <1>6, <1>7, <1>8, <1>9 DEF Next

(* A refused call leaves an approved agent a nonce, for any tasks, calls,  *)
(* limits and bounds: as long as no store fails, decide takes a nonce only *)
(* with a use, whose receipt brings the next, or with no use left.         *)
THEOREM SomeNonceIsLeftHolds == Spec => []SomeNonceIsLeft
<1>1. Init => FlowInv /\ NonceInv
  BY InitFlow, InitNonces
<1>2. FlowInv /\ NonceInv /\ [Next]_vars => FlowInv' /\ NonceInv'
  BY NextFlow, NextNonces
<1>3. NonceInv => SomeNonceIsLeft
  BY DEF NonceInv
<1>q. QED BY <1>1, <1>2, <1>3, PTL DEF Spec
=============================================================================
