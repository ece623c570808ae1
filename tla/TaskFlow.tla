------------------------------ MODULE TaskFlow ------------------------------
(***************************************************************************)
(* The in-task authorization flow between agents and a verifier:           *)
(* crates/a2a-gov-binding (the messages), bindings/python (the agent) and  *)
(* a verifier built from them around one Engine, as the package's test     *)
(* oracle builds it (crates/a2a-gov-pdp/examples/pytest_oracle.rs), but    *)
(* with stores that outlive a call and may fail on any call, before or     *)
(* after they have applied it.  decide() is one step here, which is what   *)
(* EngineRefinement shows it amounts to: a refused call may cost its nonce,*)
(* and if the counter failed after the fact also a use.                    *)
(*                                                                         *)
(* Nothing orders or guarantees the delivery of messages: what an agent    *)
(* sent may be handled late, never, or several times, and the agent works  *)
(* on its own copy of the task, which may be old.                          *)
(***************************************************************************)
EXTENDS Naturals, Sequences, FiniteSets

CONSTANTS
  None,
  Tasks,         \* task ids; a task has one user, one agent and one mandate
  Calls,         \* calls an agent may describe in a closed mandate
  call,          \* the one the verifier sees
  Times,         \* iat of a presentation
  max_uses,      \* of every mandate
  MaxNonces,     \* bound on the nonces drawn
  MaxArtifacts   \* bound on a task's artifacts for refused calls

ASSUME TaskFlowAssumption ==
  /\ call \in Calls
  /\ max_uses \in Nat /\ MaxNonces \in Nat /\ MaxArtifacts \in Nat
  /\ None \notin Nat

VARIABLES
  task,     \* the verifier's tasks: [status, artifacts], or None
  issued,   \* MemoryNonces
  drawn,    \* how many nonces were drawn
  uses,     \* MemoryUses, by task
  sent,     \* messages agents have sent
  held,     \* the agent's copy of a task, or None
  served,   \* history: per task, the chains of the calls served
  failed    \* history: mandates of which a store's failure has cost a nonce

vars == <<task, issued, drawn, uses, sent, held, served, failed>>

---------------------------------------------------------------------------
(* Shapes (a2a-gov-binding). *)

Pending(n) == [state |-> "pending", mandate |-> None, nonce |-> n]
Approved(m, n) == [state |-> "approved", mandate |-> m, nonce |-> n]
Denied == [state |-> "denied", mandate |-> None, nonce |-> None]

hello_message(k) == [type |-> "hello", task |-> k]

continuation_message(k, chain) ==
  [type |-> "continuation", task |-> k, presentation |-> chain, nonce |-> chain.nonce]

ReceiptMeta(chain, outcome, next) ==
  [chain |-> chain, outcome |-> outcome, next_nonce |-> next]

---------------------------------------------------------------------------
(* The agent (a2a_governance). *)

auth_state(t) == t.status

(* A closed mandate describes a call, in a task. *)
Closed(c, k) == [call |-> c, task_id |-> k]

(* AgentKey.present: the open mandate and a closing hop for one call. *)
present(mandate, closed, nonce, iat) ==
  [mandate |-> mandate, closed |-> closed, nonce |-> nonce, iat |-> iat]

(* The receipt of the first artifact that carries one. *)
receipt_meta(t) == IF t.artifacts = <<>> THEN None ELSE t.artifacts[1]

---------------------------------------------------------------------------
Init ==
  /\ task = [k \in Tasks |-> None] /\ held = [k \in Tasks |-> None]
  /\ issued = {} /\ drawn = 0 /\ sent = {}
  /\ uses = [k \in Tasks |-> 0]
  /\ served = [k \in Tasks |-> <<>>] /\ failed = {}

(* hello(): the first message, which offers the agent's key. *)
Hello(k) ==
  /\ sent' = sent \cup {hello_message(k)}
  /\ UNCHANGED <<task, issued, drawn, uses, held, served, failed>>

(* poll or subscribe *)
Poll(k) ==
  /\ task[k] # None
  /\ held' = [held EXCEPT ![k] = task[k]]
  /\ UNCHANGED <<task, issued, drawn, uses, sent, served, failed>>

(* continuation(): with the mandate and the nonce of the status it holds. *)
Continue(k, c, iat) ==
  /\ held[k] # None
  /\ auth_state(held[k]).state = "approved"
  /\ LET s == auth_state(held[k])
     IN  sent' = sent \cup {continuation_message(k, present(s.mandate, Closed(c, k), s.nonce, iat))}
  /\ UNCHANGED <<task, issued, drawn, uses, held, served, failed>>

(* The next call under the mandate of a receipt, with the nonce it brings, *)
(* in the same task or in another.                                         *)
CallAgain(k, l, c, iat) ==
  /\ held[k] # None /\ held[l] # None
  /\ receipt_meta(held[k]) # None
  /\ receipt_meta(held[k]).next_nonce # None
  /\ LET r == receipt_meta(held[k])
     IN  sent' = sent \cup {continuation_message(l, present(r.chain.mandate, Closed(c, l), r.next_nonce, iat))}
  /\ UNCHANGED <<task, issued, drawn, uses, held, served, failed>>

---------------------------------------------------------------------------
(* The verifier. *)

(* MemoryNonces.issue, for mandate k, beside the nonces left in the store: *)
(* a store that fails loses the nonce, which is handed out all the same.   *)
Issue(k, left) ==
  /\ drawn < MaxNonces
  /\ drawn' = drawn + 1
  /\ \/ issued' = left \cup {drawn'} /\ UNCHANGED failed
     \/ issued' = left /\ failed' = failed \cup {k}

(* read_hello, and an AUTH_REQUIRED task with a nonce for the closing hop. *)
OnHello(m) ==
  /\ m.type = "hello"
  /\ task[m.task] = None
  /\ Issue(m.task, issued)
  /\ task' = [task EXCEPT ![m.task] = [status |-> Pending(drawn'), artifacts |-> <<>>]]
  /\ UNCHANGED <<uses, sent, held, served>>

(* Mutant: the approved status is written without a nonce. *)
ApproveBare(k) ==
  /\ task[k] # None /\ task[k].status.state = "pending"
  /\ task' = [task EXCEPT ![k].status = Approved(k, None)]
  /\ UNCHANGED <<issued, drawn, uses, sent, held, served, failed>>

(* The user approves: the status carries the open mandate, and the nonce   *)
(* of before or a new one.                                                 *)
Approve(k) ==
  /\ task[k] # None /\ task[k].status.state = "pending"
  /\ \/ /\ task' = [task EXCEPT ![k].status = Approved(k, @.nonce)]
        /\ UNCHANGED <<issued, drawn, failed>>
     \/ /\ Issue(k, issued)
        /\ task' = [task EXCEPT ![k].status = Approved(k, drawn')]
  /\ UNCHANGED <<uses, sent, held, served>>

Reject(k) ==
  /\ task[k] # None /\ task[k].status.state = "pending"
  /\ task' = [task EXCEPT ![k].status = Denied]
  /\ UNCHANGED <<issued, drawn, uses, sent, held, served, failed>>

(* A decision on a presentation: the nonces it takes from the store, the   *)
(* uses it records, and whether it is a store that refused.                *)
Pass(nonces) == [outcome |-> "success", consumed |-> nonces, charge |-> 1, fault |-> FALSE]
Refusal(nonces, charge, fault) ==
  [outcome |-> "error", consumed |-> nonces, charge |-> charge, fault |-> fault]

(* verify_chain's times may refuse now and not later, a store may fail, the *)
(* mandate may be revoked or its constraints bring the user back in.       *)
NothingTaken == Refusal({}, 0, FALSE)

Described(chain, k) == chain.closed = Closed(call, k)
Spent(chain) == uses[chain.mandate] >= max_uses

(* Once the nonce was there: the stores may fail after they have applied   *)
(* the update, or the uses are spent.                                      *)
Decided(chain, nonces) ==
  {Refusal(nonces, 0, TRUE)}
    \cup IF Spent(chain) THEN {Refusal(nonces, 0, FALSE)}
         ELSE {Pass(nonces), Refusal(nonces, 1, TRUE)}

(* Mutant: the nonce is consumed before anything else is looked at. *)
ConsumeFirst(chain, k) ==
  {NothingTaken}
    \cup IF chain.nonce \notin issued THEN {}
         ELSE IF Described(chain, k) THEN Decided(chain, {chain.nonce})
         ELSE {Refusal({chain.nonce}, 0, FALSE)}

(* Mutant: the use is charged before the nonce is consumed. *)
ChargeFirst(chain, k) ==
  {NothingTaken}
    \cup IF ~Described(chain, k) THEN {}
         ELSE IF chain.nonce \in issued THEN Decided(chain, {chain.nonce})
         ELSE IF Spent(chain) THEN {} ELSE {Refusal({}, 1, FALSE)}

(* Mutant: contains() in place of remove(). *)
DecideAndKeep(chain, k) ==
  {NothingTaken}
    \cup IF Described(chain, k) /\ chain.nonce \in issued THEN Decided(chain, {}) ELSE {}

decide(chain, k) ==
  {NothingTaken}
    \cup IF Described(chain, k) /\ chain.nonce \in issued THEN Decided(chain, {chain.nonce}) ELSE {}

(* A model's bound: the verifier stops once a task has so many artifacts   *)
(* for refused calls.                                                      *)
Refusals(k) ==
  IF task[k] = None THEN <<>> ELSE SelectSeq(task[k].artifacts, LAMBDA r : r.outcome # "success")
MayAnswerRefusal == \A k \in Tasks : Len(Refusals(k)) < MaxArtifacts

(* The verifier keeps its answers as artifacts of the task, in order. *)
Attach(k, meta) == task' = [task EXCEPT ![k].artifacts = Append(@, meta)]

(* A served call has a receipt, which may bring a next nonce. *)
Serve(k, chain, d) ==
  /\ d.outcome = "success"
  /\ served' = [served EXCEPT ![k] = Append(@, chain)]
  /\ \/ /\ Issue(chain.mandate, issued \ d.consumed)
        /\ Attach(k, ReceiptMeta(chain, "success", drawn'))
     \/ /\ issued' = issued \ d.consumed
        /\ Attach(k, ReceiptMeta(chain, "success", None))
        /\ UNCHANGED <<drawn, failed>>

(* A refused call has a receipt too, or a JSON-RPC error only. *)
Refuse(k, chain, d) ==
  /\ d.outcome = "error"
  /\ issued' = issued \ d.consumed
  /\ failed' = failed \cup (IF d.fault THEN {chain.mandate} ELSE {})
  /\ \/ UNCHANGED task
     \/ MayAnswerRefusal /\ Attach(k, ReceiptMeta(chain, "error", None))
  /\ UNCHANGED <<drawn, served>>

Answer(m, d) ==
  /\ uses' = [uses EXCEPT ![m.presentation.mandate] = @ + d.charge]
  /\ Serve(m.task, m.presentation, d) \/ Refuse(m.task, m.presentation, d)
  /\ UNCHANGED <<sent, held>>

(* read_presentation, Engine.decide, Decision.receipt, receipt_artifact. *)
OnContinuation(m) ==
  /\ m.type = "continuation"
  /\ \E d \in decide(m.presentation, m.task) : Answer(m, d)

Next ==
  \/ \E k \in Tasks : Hello(k) \/ Poll(k) \/ Approve(k) \/ Reject(k)
  \/ \E k \in Tasks, c \in Calls, t \in Times : Continue(k, c, t)
  \/ \E k, l \in Tasks, c \in Calls, t \in Times : CallAgain(k, l, c, t)
  \/ \E m \in sent : OnHello(m) \/ OnContinuation(m)

(* A message is handled at a moment when the clocks agree and the stores   *)
(* answer, so that decide gets as far as taking the nonce.                 *)
Handled(m) ==
  /\ m \in sent /\ m.type = "continuation"
  /\ \E d \in decide(m.presentation, m.task) : d # NothingTaken /\ Answer(m, d)

(* The agent polls and continues until it is served, as the package's      *)
(* documentation says (a2a.py:3-14), and a message that is sent again and  *)
(* again is handled at last at such a moment: the network does not lose    *)
(* every copy, and neither is the mandate revoked or expired nor are all   *)
(* copies late or met by a failing store.  Nobody has to approve anything, *)
(* and nothing stops the agent from describing another call first.         *)
Fairness ==
  /\ \A k \in Tasks : WF_vars(Poll(k))
  /\ \A k \in Tasks, t \in Times : WF_vars(Continue(k, call, t))
  /\ \A k \in Tasks, n \in 1..MaxNonces, t \in Times :
       WF_vars(Handled(continuation_message(k, present(k, Closed(call, k), n, t))))

Spec == Init /\ [][Next]_vars /\ Fairness
---------------------------------------------------------------------------
Statuses == {Denied} \cup {Pending(n) : n \in 1..MaxNonces}
              \cup {Approved(k, n) : k \in Tasks, n \in 1..MaxNonces}

Chains == [mandate : Tasks, closed : [call : Calls, task_id : Tasks], nonce : 1..MaxNonces, iat : Times]

Metas == [chain : Chains, outcome : {"success", "error"},
          next_nonce : 1..MaxNonces \cup {None}]

(* An absent task is not a task. *)
ASSUME NoneAssumption == None \notin [status : Statuses, artifacts : Seq(Metas)]

IsTask(t) == t.status \in Statuses /\ t.artifacts \in Seq(Metas)

(* The stores, the tasks and the agent's copies hold what their types say, *)
(* and an agent knows no task the verifier does not.                       *)
TypeOK ==
  /\ drawn \in 0..MaxNonces /\ issued \subseteq 1..drawn
  /\ uses \in [Tasks -> 0..max_uses]
  /\ \A k \in Tasks : task[k] # None => IsTask(task[k])
  /\ \A k \in Tasks : held[k] # None => task[k] # None /\ IsTask(held[k])
  /\ \A m \in sent : \/ m \in {hello_message(k) : k \in Tasks}
                      \/ m \in {continuation_message(k, c) : k \in Tasks, c \in Chains}
  /\ served \in [Tasks -> Seq(Chains)] /\ failed \subseteq Tasks

(* However often continuation() is called on one status and however often  *)
(* the network repeats a message, no nonce is served twice, in any task    *)
(* (a2a.py:45-60, Engine::decide).                                         *)
RetriesAreNotServedAgain ==
  \A k, l \in Tasks : \A i \in DOMAIN served[k], j \in DOMAIN served[l] :
    served[k][i].nonce = served[l][j].nonce => k = l /\ i = j

(* The receipts of calls made on the mandate of task k, in any task. *)
ReceiptsOf(k) ==
  UNION {{task[l].artifacts[i] : i \in {j \in DOMAIN task[l].artifacts : task[l].artifacts[j].chain.mandate = k}} :
           l \in {x \in Tasks : task[x] # None}}

Successes(k) == {r \in ReceiptsOf(k) : r.outcome = "success"}

(* A retry whose first attempt was served is refused and gets a receipt    *)
(* that says so, and a call refused for its times or by a store may be     *)
(* served later: receipts of one presentation may disagree.  Taken         *)
(* together they tell the truth: the successes on a mandate, in whatever   *)
(* tasks, are as many as the uses the verifier counted, and no more even   *)
(* if a store failed after it had counted (decide, Decision::receipt).     *)
UsesHaveReceipts ==
  \A k \in Tasks :
    /\ Cardinality(Successes(k)) <= uses[k]
    /\ k \notin failed => Cardinality(Successes(k)) = uses[k]

(* A refused call must not leave an approved agent without a nonce: while  *)
(* uses are left, every served call brought a next nonce and no store's    *)
(* failure has cost one, a task still carries a nonce that the verifier    *)
(* will take, whatever calls were refused before and for whatever reason   *)
(* (the order of the checks in decide).                                    *)
SomeNonceIsLeft ==
  \A k \in Tasks :
    (/\ task[k] # None /\ task[k].status.state = "approved" /\ uses[k] < max_uses
     /\ \A r \in Successes(k) : r.next_nonce # None
     /\ k \notin failed)
    => \/ task[k].status.nonce \in issued
       \/ \E r \in ReceiptsOf(k) : r.next_nonce \in issued

(* An agent that polls, and continues once the user has approved, is       *)
(* served, even if it first described calls that were refused, unless a    *)
(* store's failure costs its nonce (lib.rs:266-272): then nothing brings   *)
(* it another.                                                             *)
ApprovedIsServed ==
  \A k \in Tasks :
    (task[k] # None /\ task[k].status.state = "approved") ~> served[k] # <<>> \/ k \in failed

(* receipt_meta: "The receipt (and next nonce) from the task's result      *)
(* artifacts" (a2a.py:64), the nonce being one "for the client's next call *)
(* under the same mandate" (binding lib.rs:99): on a copy of the task that *)
(* is up to date, with uses left, that nonce can be used.                  *)
NextNonceWorks ==
  \A k \in Tasks :
    /\ held[k] # None /\ held[k] = task[k] /\ uses[k] < max_uses /\ failed = {}
    /\ receipt_meta(held[k]) # None /\ receipt_meta(held[k]).next_nonce # None
    => receipt_meta(held[k]).next_nonce \in issued
=============================================================================
