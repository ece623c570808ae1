----------------------------- MODULE Authorizer -----------------------------
(***************************************************************************)
(* What the decision engine promises its callers: every passed call is one *)
(* indivisible step that finds its nonce outstanding, every mandate it     *)
(* stands on unspent and unrevoked, and spends them all.  Nothing is said  *)
(* about why a call is refused; a refused call may cost its nonce, never a *)
(* use.  decide() takes five steps for this, with other threads in between *)
(* (EngineRefinement).                                                     *)
(***************************************************************************)
EXTENDS Naturals

CONSTANTS
  Threads, NonceValues, Requests, Mandates, None,
  nonce,       \* the nonce of a request
  authority,   \* the mandates a request stands on
  limits       \* the use limits signed into a mandate

VARIABLES
  outstanding, \* nonces that can still buy a call
  drawn,       \* nonces ever handed out
  revoked,     \* mandates somebody revoked
  broken,      \* whether storage has failed for good
  granted,     \* per mandate, the calls passed on its authority
  open,        \* per thread, the request being decided
  since,       \* per thread, revocations and failures before its call began
  answer       \* per thread, whether the call passed

vars == <<outstanding, drawn, revoked, broken, granted, open, since, answer>>

Init ==
  /\ outstanding = {} /\ drawn = {} /\ revoked = {} /\ broken = FALSE
  /\ granted = [m \in Mandates |-> 0]
  /\ open = [t \in Threads |-> None]
  /\ since = [t \in Threads |-> [revoked |-> {}, broken |-> FALSE]]
  /\ answer = [t \in Threads |-> None]

(* A nonce is handed out once; with broken storage nobody remembers it. *)
Issue(n) ==
  /\ n \notin drawn
  /\ drawn' = drawn \cup {n}
  /\ outstanding' = outstanding \cup {n} \/ (broken /\ UNCHANGED outstanding)
  /\ UNCHANGED <<revoked, broken, granted, open, since, answer>>

Revoke(m) ==
  /\ revoked' = revoked \cup {m}
  /\ UNCHANGED <<outstanding, drawn, broken, granted, open, since, answer>>

Break ==
  /\ broken' = TRUE
  /\ UNCHANGED <<outstanding, drawn, revoked, granted, open, since, answer>>

(* A call begins; one that no state could let pass may be refused at once. *)
Begin(t, r) ==
  /\ open[t] = None
  /\ open' = [open EXCEPT ![t] = r]
  /\ since' = [since EXCEPT ![t] = [revoked |-> revoked, broken |-> broken]]
  /\ UNCHANGED answer \/ answer' = [answer EXCEPT ![t] = "refused"]
  /\ UNCHANGED <<outstanding, drawn, revoked, broken, granted>>

Grant(t) ==
  LET r == open[t]
  IN  /\ r # None /\ answer[t] = None
      /\ nonce[r] \in outstanding
      /\ ~since[t].broken
      /\ authority[r] \cap since[t].revoked = {}
      /\ \A m \in authority[r] : \A l \in limits[m] : granted[m] < l
      /\ outstanding' = outstanding \ {nonce[r]}
      /\ granted' = [m \in Mandates |-> IF m \in authority[r] THEN granted[m] + 1 ELSE granted[m]]
      /\ answer' = [answer EXCEPT ![t] = "passed"]
      /\ UNCHANGED <<drawn, revoked, broken, open, since>>

Refuse(t) ==
  /\ open[t] # None /\ answer[t] = None
  /\ answer' = [answer EXCEPT ![t] = "refused"]
  /\ outstanding' = outstanding \ {nonce[open[t]]} \/ UNCHANGED outstanding
  /\ UNCHANGED <<drawn, revoked, broken, granted, open, since>>

Return(t) ==
  /\ answer[t] # None
  /\ answer' = [answer EXCEPT ![t] = None]
  /\ open' = [open EXCEPT ![t] = None]
  /\ since' = [since EXCEPT ![t] = [revoked |-> {}, broken |-> FALSE]]
  /\ UNCHANGED <<outstanding, drawn, revoked, broken, granted>>

Next ==
  \/ \E n \in NonceValues : Issue(n)
  \/ \E m \in Mandates : Revoke(m)
  \/ Break
  \/ \E t \in Threads, r \in Requests : Begin(t, r)
  \/ \E t \in Threads : Grant(t) \/ Refuse(t) \/ Return(t)

Safety == Init /\ [][Next]_vars
=============================================================================
