------------------------------- MODULE Engine -------------------------------
(***************************************************************************)
(* The decision engine over its stores                                     *)
(* (crates/a2a-gov-pdp/src/lib.rs and memory.rs).                          *)
(*                                                                         *)
(* Server threads call decide() at the same time on one Engine.  A call    *)
(* touches shared state only through its three stores, one locked method   *)
(* at a time, so the steps of a thread are                                 *)
(*                                                                         *)
(*   decide       no presentation, or verify_chain (pure);                 *)
(*   IsRevoked    one Revocations.is_revoked per authorizing hop;          *)
(*   Evaluate     describes_call, then evaluate (pure);                    *)
(*   Consume      Nonces.consume;                                          *)
(*   TryConsume   UseCounter.try_consume, then Pass;                       *)
(*   Return       the caller takes the Decision.                           *)
(*                                                                         *)
(* Between any two of them other threads decide, the verifier issues       *)
(* nonces, somebody revokes a mandate, a lock is poisoned, time passes.    *)
(***************************************************************************)
EXTENDS MandateChain

CONSTANTS
  Threads,          \* server threads
  NonceValues,      \* nonces the random source may draw
  Requests,         \* names of the calls agents make
  presentation,     \* the Presentation of a request [chain, aud, nonce], or None
  call,             \* the Call of a request, as the verifier sees it
  clock_skew, max_closing_age,   \* the Engine's fields
  Revocable,        \* mandates somebody may revoke
  Poisonable,       \* stores whose lock may be poisoned
  Flaky,            \* whether the stores are remote and a call on them may fail
  MaxClock,         \* bound on the clock
  MaxCalls          \* bound on the calls made

Stores == {"nonces", "revoked", "counts"}

HopIds == DOMAIN signed

ASSUME EngineAssumption ==
  /\ MaxClock \in Nat /\ MaxCalls \in Nat
  /\ clock_skew \in Nat /\ max_closing_age \in Nat
  /\ Flaky \in BOOLEAN
  /\ Poisonable \subseteq Stores
  /\ Revocable \subseteq HopIds
  /\ None \notin Requests
  /\ \A r \in Requests : presentation[r] # None =>
       presentation[r].chain.segs \in
         Seq([id : HopIds, sig : [key : PublicKeys, form : {"s", "n-s"}], shown : Seq(Nat)])

(* A claim that is absent is not a hash: None is no segment and no JWT. *)
ASSUME HashAssumption ==
  \A r \in Requests : presentation[r] # None =>
    \A i \in DOMAIN presentation[r].chain.segs :
      LET seg == presentation[r].chain.segs[i]
      IN  None \notin {seg, [id |-> seg.id, sig |-> seg.sig]}

VARIABLES
  (* The stores. *)
  issued,      \* MemoryNonces: issued, unused nonces
  revoked,     \* MemoryRevocations: revoked mandate ids
  counts,      \* MemoryUses: uses by mandate id, 0 for a missing entry
  poisoned,    \* stores whose lock is poisoned
  clock,       \* the `now` callers pass
  (* The calls in progress. *)
  pc, req, now, hop, decision,
  calls,       \* how many calls were made
  (* History. *)
  drawn,       \* nonces ever drawn
  revokeDone,  \* mandates for which revoke() has returned
  before,      \* per thread, what was already done when its call began
  granted,     \* per mandate, the calls passed on its authority
  charges,     \* per nonce, the times try_consume recorded uses under it
  passes       \* per nonce, the calls passed under it

stores  == <<issued, revoked, counts, poisoned>>
locals  == <<pc, req, now, hop, decision>>
history == <<drawn, revokeDone, before, granted, charges, passes>>
vars    == <<stores, clock, locals, calls, history>>

---------------------------------------------------------------------------
(* What a request's chain says, once it verified. *)

Hops(r) == VerifiedHops(presentation[r].chain)

(* hop is the position of the next authorizing hop to look up. *)
Authorizing(r) == authorizing_hops(Hops(r))

describes_call(closed, c) ==
  /\ closed.method = c.method
  /\ closed.task_id = c.task_id
  /\ closed.authorization_details = c.authorization_details

Opts(r, n) == [aud |-> presentation[r].aud, nonce |-> presentation[r].nonce, now |-> n,
               clock_skew |-> clock_skew, max_closing_age |-> max_closing_age]

(* A count that is not in the map is 0. *)
count(m) == IF m \in DOMAIN counts THEN counts[m] ELSE 0

---------------------------------------------------------------------------
(* Decisions. *)

Pass(r, purpose) ==
  [kind |-> "Pass", mandate_id |-> Hops(r)[1].id,
   purpose |-> purpose, release |-> call[r].release]
Deny(reason, why) == [kind |-> "Deny", reason |-> reason, why |-> why]
Challenge(reason) == [kind |-> "Challenge", reason |-> reason]

(* `Err(BackendError)` anywhere: fail closed. *)
BackendDenied == Deny("Denied", "backend")

Finish(t, d) ==
  /\ pc' = [pc EXCEPT ![t] = "done"]
  /\ decision' = [decision EXCEPT ![t] = d]

Goto(t, label) ==
  /\ pc' = [pc EXCEPT ![t] = label]
  /\ UNCHANGED decision

---------------------------------------------------------------------------
Init ==
  /\ issued = {} /\ revoked = {} /\ poisoned = {}
  /\ counts = [m \in {} |-> 0]
  /\ clock = 0 /\ calls = 0
  /\ pc = [t \in Threads |-> "idle"]
  /\ req = [t \in Threads |-> None]
  /\ now = [t \in Threads |-> 0]
  /\ hop = [t \in Threads |-> 1]
  /\ decision = [t \in Threads |-> None]
  /\ drawn = {} /\ revokeDone = {}
  /\ before = [t \in Threads |-> [revoked |-> {}, poisoned |-> {}]]
  /\ granted = [m \in HopIds |-> 0]
  /\ charges = [n \in NonceValues |-> 0]
  /\ passes = [n \in NonceValues |-> 0]

(* MemoryNonces.issue: the nonce is handed out even if it was not stored. *)
Issue ==
  \E n \in NonceValues \ drawn :
    /\ issued' = IF "nonces" \in poisoned THEN issued ELSE issued \cup {n}
    /\ drawn' = drawn \cup {n}
    /\ UNCHANGED <<revoked, counts, poisoned, clock, locals, calls,
                   revokeDone, before, granted, charges, passes>>

(* MemoryRevocations.revoke: dropped without a word if the lock is poisoned. *)
Revoke(m) ==
  /\ m \notin revokeDone
  /\ revoked' = IF "revoked" \in poisoned THEN revoked ELSE revoked \cup {m}
  /\ revokeDone' = revokeDone \cup {m}
  /\ UNCHANGED <<issued, counts, poisoned, clock, locals, calls,
                 drawn, before, granted, charges, passes>>

(* A thread panics while it holds a store's lock. *)
Poison(s) ==
  /\ s \notin poisoned
  /\ poisoned' = poisoned \cup {s}
  /\ UNCHANGED <<issued, revoked, counts, clock, locals, calls, history>>

Tick ==
  /\ clock < MaxClock
  /\ clock' = clock + 1
  /\ UNCHANGED <<stores, locals, calls, history>>

---------------------------------------------------------------------------
(* decide(): a request without a presentation is challenged at once; one   *)
(* whose chain does not verify is denied before any store is touched.      *)
decide(t, r) ==
  /\ pc[t] = "idle"
  /\ calls < MaxCalls
  /\ calls' = calls + 1
  /\ req' = [req EXCEPT ![t] = r]
  /\ now' = [now EXCEPT ![t] = clock]
  /\ hop' = [hop EXCEPT ![t] = 1]
  /\ before' = [before EXCEPT ![t] = [revoked |-> revokeDone, poisoned |-> poisoned]]
  /\ \/ /\ presentation[r] = None
        /\ Finish(t, Challenge("ApprovalRequired"))
     \/ /\ presentation[r] # None
        /\ ~verify_chain(presentation[r].chain, Opts(r, clock)).ok
        /\ Finish(t, Deny("InvalidCredential", "chain"))
     \/ /\ presentation[r] # None
        /\ verify_chain(presentation[r].chain, Opts(r, clock)).ok
        /\ Goto(t, "revocations")
  /\ UNCHANGED <<stores, clock, drawn, revokeDone, granted, charges, passes>>

(* Mutant: is_revoked's error is taken for "not revoked". *)
IsRevokedOrDefault(t) ==
  /\ pc[t] = "revocations"
  /\ IF hop[t] \notin Authorizing(req[t]) THEN Goto(t, "evaluate") /\ UNCHANGED hop
     ELSE IF "revoked" \notin poisoned /\ Hops(req[t])[hop[t]].id \in revoked
     THEN Finish(t, Deny("InvalidMandate", "revoked")) /\ UNCHANGED hop
     ELSE hop' = [hop EXCEPT ![t] = @ + 1] /\ UNCHANGED <<pc, decision>>
  /\ UNCHANGED <<stores, clock, req, now, calls, history>>

(* Mutant: only the root mandate is looked up. *)
IsRootRevoked(t) ==
  /\ pc[t] = "revocations"
  /\ IF "revoked" \in poisoned THEN Finish(t, BackendDenied)
     ELSE IF Hops(req[t])[1].id \in revoked
     THEN Finish(t, Deny("InvalidMandate", "revoked"))
     ELSE Goto(t, "evaluate")
  /\ UNCHANGED <<stores, clock, req, now, hop, calls, history>>

(* One is_revoked call of the loop over authorizing hops. *)
IsRevoked(t) ==
  LET r == req[t]
      m == Hops(r)[hop[t]].id
  IN  /\ pc[t] = "revocations"
      /\ \/ /\ hop[t] \notin Authorizing(r)
            /\ Goto(t, "evaluate")
            /\ UNCHANGED hop
         \/ /\ hop[t] \in Authorizing(r)
            /\ "revoked" \in poisoned
            /\ Finish(t, BackendDenied)
            /\ UNCHANGED hop
         \/ /\ hop[t] \in Authorizing(r)
            /\ "revoked" \notin poisoned
            /\ m \in revoked
            /\ Finish(t, Deny("InvalidMandate", "revoked"))
            /\ UNCHANGED hop
         \/ /\ hop[t] \in Authorizing(r)
            /\ "revoked" \notin poisoned
            /\ m \notin revoked
            /\ hop' = [hop EXCEPT ![t] = @ + 1]
            /\ UNCHANGED <<pc, decision>>
      /\ UNCHANGED <<stores, clock, req, now, calls, history>>

(* Mutant: a constraint nobody knows is waited for. *)
EvaluateWaits(t) ==
  /\ pc[t] = "evaluate"
  /\ evaluate(Hops(req[t]), call[req[t]]).result = "Covered"
  /\ Goto(t, "nonce")
  /\ UNCHANGED <<stores, clock, req, now, hop, calls, history>>

(* describes_call and evaluate: pure, and before anything is consumed. *)
Evaluate(t) ==
  LET r == req[t]
      e == evaluate(Hops(r), call[r])
  IN  /\ pc[t] = "evaluate"
      /\ \/ /\ ~describes_call(Hops(r)[Len(Hops(r))].mandate, call[r])
            /\ Finish(t, Deny("InvalidMandate", "call"))
         \/ /\ describes_call(Hops(r)[Len(Hops(r))].mandate, call[r])
            /\ e.result = "Refused"
            /\ Finish(t, Deny("InvalidMandate", "constraint"))
         \/ /\ describes_call(Hops(r)[Len(Hops(r))].mandate, call[r])
            /\ e.result = "Unresolved"
            /\ Finish(t, Challenge("UnresolvedConstraint"))
         \/ /\ describes_call(Hops(r)[Len(Hops(r))].mandate, call[r])
            /\ e.result = "Covered"
            /\ Goto(t, "nonce")
      /\ UNCHANGED <<stores, clock, req, now, hop, calls, history>>

(* Mutant: contains() in place of remove(). *)
ConsumePeeks(t) ==
  /\ pc[t] = "nonce"
  /\ IF presentation[req[t]].nonce \in issued THEN Goto(t, "uses")
     ELSE Finish(t, Deny("InvalidCredential", "nonce"))
  /\ UNCHANGED <<stores, clock, req, now, hop, calls, history>>

(* Nonces.consume: remove() says whether the nonce was there. *)
Consume(t) ==
  LET n == presentation[req[t]].nonce
  IN  /\ pc[t] = "nonce"
      /\ \/ /\ "nonces" \in poisoned
            /\ Finish(t, BackendDenied)
            /\ UNCHANGED issued
         \/ /\ "nonces" \notin poisoned
            /\ n \notin issued
            /\ Finish(t, Deny("InvalidCredential", "nonce"))
            /\ UNCHANGED issued
         \/ /\ "nonces" \notin poisoned
            /\ n \in issued
            /\ issued' = issued \ {n}
            /\ Goto(t, "uses")
      /\ UNCHANGED <<revoked, counts, poisoned, clock, req, now, hop, calls, history>>

(* UseCounter.try_consume: all limits have a use left, or nothing happens. *)
LimitsOf(r) == evaluate(Hops(r), call[r]).limits

(* Mutant: the use that is about to be recorded is forgotten. *)
SpentOneLate(r) == \E l \in LimitsOf(r) : count(l.id) > l.limit

Spent(r) == \E l \in LimitsOf(r) : count(l.id) >= l.limit

(* Mutant: the counter counts down. *)
ChargeDown(r) ==
  counts' = [m \in DOMAIN counts \cup {l.id : l \in LimitsOf(r)} |->
               count(m) - Cardinality({l \in LimitsOf(r) : l.id = m})]

(* Mutant: only the root mandate is charged. *)
ChargeRoot(r) ==
  counts' = [m \in DOMAIN counts \cup {Hops(r)[1].id} |->
               IF m = Hops(r)[1].id THEN count(m) + 1 ELSE count(m)]

(* `+= 1` for every entry, so as often as the hop states a limit. *)
Charge(r) ==
  counts' = [m \in DOMAIN counts \cup {l.id : l \in LimitsOf(r)} |->
               count(m) + Cardinality({l \in LimitsOf(r) : l.id = m})]

Charged(t) ==
  charges' = [charges EXCEPT ![presentation[req[t]].nonce] = @ + 1]

Granted(r) ==
  /\ granted' = [m \in HopIds |->
       IF \E i \in Authorizing(r) : presentation[r].chain.segs[i].id = m
       THEN granted[m] + 1 ELSE granted[m]]
  /\ passes' = [passes EXCEPT ![presentation[r].nonce] = @ + 1]

TryConsume(t) ==
  LET r == req[t]
  IN  /\ pc[t] = "uses"
      /\ \/ /\ "counts" \in poisoned
            /\ Finish(t, BackendDenied)
            /\ UNCHANGED <<counts, granted, charges, passes>>
         \/ /\ "counts" \notin poisoned
            /\ Spent(r)
            /\ Finish(t, Deny("InvalidMandate", "spent"))
            /\ UNCHANGED <<counts, granted, charges, passes>>
         \/ /\ "counts" \notin poisoned
            /\ ~Spent(r)
            /\ Charge(r)
            /\ Charged(t)
            /\ Finish(t, Pass(r, evaluate(Hops(r), call[r]).purpose))
            /\ Granted(r)
      /\ UNCHANGED <<issued, revoked, poisoned, clock, req, now, hop, calls,
                     drawn, revokeDone, before>>

(* Mutant: a failed call gives its nonce back. *)
BackendFailsAndRefunds(t) ==
  /\ Flaky
  /\ pc[t] = "uses"
  /\ ~Spent(req[t])
  /\ Charge(req[t])
  /\ Charged(t)
  /\ issued' = issued \cup {presentation[req[t]].nonce}
  /\ Finish(t, BackendDenied)
  /\ UNCHANGED <<revoked, poisoned, clock, req, now, hop, calls,
                 drawn, revokeDone, before, granted, passes>>

(* A store behind the traits that is not in memory may fail on any call,   *)
(* before or after it has applied the update: the engine cannot tell.      *)
BackendFails(t) ==
  LET n == presentation[req[t]].nonce
  IN  /\ Flaky
      /\ \/ /\ \/ pc[t] = "revocations" /\ hop[t] \in Authorizing(req[t])
               \/ pc[t] \in {"nonce", "uses"}
            /\ UNCHANGED <<issued, counts, charges>>
         \/ /\ pc[t] = "nonce"
            /\ n \in issued
            /\ issued' = issued \ {n}
            /\ UNCHANGED <<counts, charges>>
         \/ /\ pc[t] = "uses"
            /\ ~Spent(req[t])
            /\ Charge(req[t])
            /\ Charged(t)
            /\ UNCHANGED issued
      /\ Finish(t, BackendDenied)
      /\ UNCHANGED <<revoked, poisoned, clock, req, now, hop, calls,
                     drawn, revokeDone, before, granted, passes>>

Return(t) ==
  /\ pc[t] = "done"
  /\ pc' = [pc EXCEPT ![t] = "idle"]
  /\ decision' = [decision EXCEPT ![t] = None]
  /\ req' = [req EXCEPT ![t] = None]
  /\ now' = [now EXCEPT ![t] = 0]
  /\ hop' = [hop EXCEPT ![t] = 1]
  /\ before' = [before EXCEPT ![t] = [revoked |-> {}, poisoned |-> {}]]
  /\ UNCHANGED <<stores, clock, calls, drawn, revokeDone, granted, charges, passes>>

Step(t) == IsRevoked(t) \/ Evaluate(t) \/ Consume(t) \/ TryConsume(t) \/ BackendFails(t)

Next ==
  \/ Issue
  \/ \E m \in Revocable : Revoke(m)
  \/ \E s \in Poisonable : Poison(s)
  \/ Tick
  \/ \E t \in Threads, r \in Requests : decide(t, r)
  \/ \E t \in Threads : Step(t) \/ Return(t)

(* decide() has no loop but the one over the hops and waits for nothing    *)
(* but a lock that is held for a few instructions: a thread that has begun *)
(* keeps running.  Nothing makes agents call or anyone revoke.             *)
Spec == Init /\ [][Next]_vars /\ \A t \in Threads : WF_vars(Step(t))

---------------------------------------------------------------------------
Labels == {"idle", "revocations", "evaluate", "nonce", "uses", "done"}

(* The stores hold what their Rust types hold, and a call in progress has  *)
(* a request with a presentation.                                          *)
TypeOK ==
  /\ issued \subseteq drawn /\ drawn \subseteq NonceValues
  /\ revoked \subseteq revokeDone /\ revokeDone \subseteq HopIds
  /\ DOMAIN counts \subseteq HopIds /\ counts \in [DOMAIN counts -> Nat]
  /\ poisoned \subseteq Stores
  /\ clock \in 0..MaxClock /\ calls \in 0..MaxCalls
  /\ pc \in [Threads -> Labels]
  /\ req \in [Threads -> Requests \cup {None}]
  /\ DOMAIN decision = Threads
  /\ now \in [Threads -> 0..MaxClock]
  /\ hop \in [Threads -> Nat \ {0}]
  /\ before \in [Threads -> [revoked : SUBSET HopIds, poisoned : SUBSET Stores]]
  /\ granted \in [HopIds -> Nat]
  /\ charges \in [NonceValues -> Nat] /\ passes \in [NonceValues -> Nat]
  /\ \A t \in Threads : pc[t] # "idle" => req[t] \in Requests
  /\ \A t \in Threads :
       pc[t] = "done" => decision[t].kind \in {"Pass", "Deny", "Challenge"}
  /\ \A t \in Threads :
       pc[t] \in {"revocations", "evaluate", "nonce", "uses"} => presentation[req[t]] # None

Passed(t) == pc[t] = "done" /\ decision[t].kind = "Pass"

(* The segments of thread t's chain that authorize: all but the closing. *)
AuthorizingSegments(t) ==
  LET segs == presentation[req[t]].chain.segs
  IN  {segs[i] : i \in 1..(Len(segs) - 1)}

(* Nonces are single-use (lib.rs:153), across threads, chains and retries: *)
(* one nonce buys at most one charge of the use counters and at most one   *)
(* passed call, so replaying a presentation neither passes again nor       *)
(* drains the mandate's uses.                                              *)
NonceBuysOneCall == \A n \in NonceValues : charges[n] <= 1 /\ passes[n] <= charges[n]

(* The max_uses constraints that were signed into hop m. *)
SignedLimits(m) ==
  LET cs == signed[m].delegate_payload[1].constraints
  IN  IF cs \in {None, Bad} THEN {}
      ELSE {k \in DOMAIN cs : cs[k].type = "access.max_uses"}

SignedLimit(m, k) == signed[m].delegate_payload[1].constraints[k].value

(* No mandate is used more often than the user or a delegating agent       *)
(* approved: the calls passed on a hop's authority, directly, through any  *)
(* delegation and under either form of its signature, stay within every    *)
(* max_uses that was signed into it (try_consume, evaluate, hop_id).       *)
WithinLimits ==
  \A m \in HopIds : granted[m] > 0 =>
    \A k \in SignedLimits(m) : granted[m] <= SignedLimit(m, k)

(* Every recorded use is a passed call, on all of its hops or on none: with *)
(* stores that do not fail, a mandate's count is the calls passed on its   *)
(* authority, once per limit it states.  A refused call costs no use.      *)
UsesAreGrants ==
  ~Flaky => \A m \in HopIds :
    count(m) = IF granted[m] = 0 THEN 0 ELSE granted[m] * Cardinality(SignedLimits(m))

(* A call that begins after revoke() has returned for one of its           *)
(* authorizing hops never passes, even if the revocation was dropped       *)
(* because the lock was poisoned (MemoryRevocations).                      *)
RevokedNeverPasses ==
  \A t \in Threads : Passed(t) =>
    \A seg \in AuthorizingSegments(t) : seg.id \notin before[t].revoked

(* "Any storage error means Deny" (lib.rs:14): once a store's lock is      *)
(* poisoned, no call that begins later passes.  A store that fails while a *)
(* decision is under way is the concern of EngineRefinement.               *)
FailsClosed == \A t \in Threads : Passed(t) => before[t].poisoned = {}

(* A passed call satisfies every constraint that was signed into its       *)
(* authorizing hops, those the presenter may have wished to leave out      *)
(* included (resolve's rule that every disclosure is presented).           *)
SignedHops(chain) ==
  [i \in DOMAIN chain.segs |->
     [id      |-> chain.segs[i].id,
      kind    |-> IF i = Len(chain.segs) THEN "Closing" ELSE "Delegation",
      mandate |-> signed[chain.segs[i].id].delegate_payload[1]]]

NothingWithheld ==
  \A t \in Threads : Passed(t) =>
    evaluate(SignedHops(presentation[req[t]].chain), call[req[t]]).result = "Covered"

(* A call that has begun is answered, whatever the stores do. *)
EveryCallIsAnswered ==
  \A t \in Threads : pc[t] \notin {"idle", "done"} ~> pc[t] = "done"

(* Pass when, all else in order, "the use limits allow one more"           *)
(* (lib.rs:7-8): a call refused because the uses are spent meets a hop     *)
(* that has been used as often as one of its limits says.                  *)
SpentMeansSpent ==
  \A t \in Threads :
    pc[t] = "done" /\ decision[t] = Deny("InvalidMandate", "spent") =>
      \E seg \in AuthorizingSegments(t) :
        \E k \in SignedLimits(seg.id) : granted[seg.id] >= SignedLimit(seg.id, k)
=============================================================================
