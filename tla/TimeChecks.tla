----------------------------- MODULE TimeChecks -----------------------------
(***************************************************************************)
(* The time checks of one closing hop while the verifier's clock runs, up  *)
(* to the ends of i64.  A claim may hold any integer the JSON can carry,   *)
(* so `exp` near i64::MAX and `iat` near i64::MIN reach the additions and  *)
(* the subtraction of check_times and check_closing (chain.rs).            *)
(***************************************************************************)
EXTENDS MandateChain

CONSTANTS
  Skews,     \* values of VerifyOptions.clock_skew
  Ages       \* values of VerifyOptions.max_closing_age

I64 == I64_MIN..I64_MAX

(* Both are set from a u32: not negative, and below the largest i64. *)
ASSUME TolerancesAssumption == Skews \subseteq 0..I64_MAX /\ Ages \subseteq I64_MIN..(I64_MAX - 1)

ASSUME ClaimsAssumption == None \notin I64 \cup {Bad} /\ Bad \notin I64

VARIABLES
  claims,    \* the hop's claims
  opts       \* VerifyOptions

(* The claims of a hop that got past "iat is required" and is meant for    *)
(* this verifier and this nonce, and a clock that is an i64.               *)
Ranges ==
  /\ claims \in [exp : I64 \cup {None, Bad}, iat : I64, nbf : I64 \cup {None},
                 aud : {"vault"}, nonce : {"n1"}]
  /\ opts \in [now : I64, clock_skew : Skews, max_closing_age : Ages,
               aud : {"vault"}, nonce : {"n1"}]

Init == Ranges

Tick ==
  /\ opts.now < I64_MAX
  /\ opts' = [opts EXCEPT !.now = @ + 1]
  /\ UNCHANGED claims

vars == <<claims, opts>>

Spec == Init /\ [][Tick]_vars

---------------------------------------------------------------------------
Verdict == check_times(claims, opts) ?? check_closing(claims, opts)

(* The same checks in the unbounded integers. *)
ExactVerdict ==
  LET early(t) == t > opts.now + opts.clock_skew
  IN  CASE claims.exp = Bad -> "Malformed"
        [] claims.exp \notin {None, Bad} /\ opts.now - opts.clock_skew > claims.exp -> "Expired"
        [] OTHER -> IF early(claims.iat) THEN "NotYetValid"
                    ELSE IF claims.nbf # None /\ early(claims.nbf) THEN "NotYetValid"
                    ELSE IF opts.now - claims.iat > opts.max_closing_age THEN "Stale"
                    ELSE None

(* Saturation never changes a verdict: at the ends of i64 the checks       *)
(* decide what exact arithmetic decides, for every claim a hop may carry   *)
(* (check_times, check_closing).                                           *)
ExactTimes == Verdict = ExactVerdict

(* A hop that has become too old stays too old, and one that has become    *)
(* valid is never early again: its window opens once and closes for good.  *)
Closes ==
  /\ Verdict \in {"Expired", "Stale"} => Verdict' \in {"Expired", "Stale"}
  /\ Verdict = None => Verdict' \in {None, "Expired", "Stale"}

WindowNeverReopens == [][Closes]_vars
=============================================================================
