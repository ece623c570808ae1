------------------------------ MODULE MCChain ------------------------------
(***************************************************************************)
(* What a verifier does with one presentation before any store is asked:   *)
(* it splits the text (ChainText), resolves the disclosures of a segment   *)
(* (Disclosure) and judges the times of a hop (TimeChecks, over          *)
(* three-bit integers).  The three share no state, so a behaviour exercises *)
(* one of them while the others rest.                                      *)
(***************************************************************************)
EXTENDS TimeChecks, ChainText

CONSTANTS Mandates, Disclosables, Others, Strangers, MaxChanges

VARIABLES issued, shown, changes

Hide == INSTANCE Disclosure

(* The segments of MCDisclosure. *)
Given == INSTANCE MCDisclosure WITH
  Mandates <- {}, Disclosables <- {}, Others <- {}, Strangers <- {}, MaxChanges <- 0

MCsigned == <<>>
MCbyKid == <<>>
MCMandates == Given!MCMandates
MCDisclosables == Given!MCDisclosables
MCOthers == Given!MCOthers
MCStrangers == Given!MCStrangers

TimesRest ==
  /\ claims = [exp |-> None, iat |-> 0, nbf |-> None, aud |-> "vault", nonce |-> "n1"]
  /\ opts = [now |-> 0, clock_skew |-> 0, max_closing_age |-> 0, aud |-> "vault", nonce |-> "n1"]

TextRests == segments = <<>> /\ chain = <<>>
HideRests == issued = None

MCInit == Init /\ TextInit /\ Hide!Init

MCNext ==
  \/ TextRests /\ HideRests /\ Tick /\ UNCHANGED <<segments, chain, issued, shown, changes>>
  \/ TimesRest /\ HideRests /\ TextNext /\ UNCHANGED <<claims, opts, issued, shown, changes>>
  \/ TimesRest /\ TextRests /\ Hide!Next /\ UNCHANGED <<claims, opts, segments, chain>>

MCSpec == MCInit /\ [][MCNext]_<<claims, opts, segments, chain, issued, shown, changes>>

(* A segment that resolves gives the mandate its issuer meant, whatever    *)
(* the holder did with the disclosures (sdjwt.rs resolve).                 *)
ResolvesToTheMandate == Hide!ResolvesToTheMandate

(* Presented in full, in any order, a well-formed segment resolves         *)
(* (resolve, delegate_payload).                                            *)
PresentedInFullResolves == Hide!PresentedInFullResolves
=============================================================================
