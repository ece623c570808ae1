----------------------------- MODULE ChainProofs -----------------------------
(***************************************************************************)
(* What a verifier makes of a presentation.                                *)
(*                                                                         *)
(* TimeChecks: for integers of any width, any skew and any age below the   *)
(* largest integer.                                                        *)
(*                                                                         *)
(* ChainText: for every text of any length.  The separators that str::split *)
(* meets from the left and the rightmost "~~" that rsplit looks for are    *)
(* not the same in every text; they are in every text the verifier splits. *)
(***************************************************************************)
EXTENDS TimeChecks, ChainText, FiniteSetTheorems, WellFoundedInduction, SequenceTheorems, TLAPS

---------------------------------------------------------------------------
(* TimeChecks *)

(* The ranges are an invariant: Tick stops at i64::MAX. *)
LEMMA RangesHold == Spec => []Ranges
<1>1. Init => Ranges
  BY DEF Init
<1>2. Ranges /\ [Tick]_vars => Ranges'
  <2> SUFFICES ASSUME Ranges, Tick PROVE Ranges'
    BY DEF Ranges, vars
  <2>1. opts.now + 1 \in I64
    BY MandateChainAssumption DEF Ranges, Tick, I64, I64_MIN
  <2> QED BY <2>1 DEF Ranges, Tick
<1> QED BY <1>1, <1>2, PTL DEF Spec

(* In those ranges no saturation of check_times or check_closing changes   *)
(* what is decided.                                                        *)
LEMMA ExactInRange == Ranges => ExactTimes
<1> SUFFICES ASSUME Ranges PROVE ExactTimes
  OBVIOUS
<1>1. /\ opts.now \in I64 /\ opts.clock_skew \in 0..I64_MAX
      /\ opts.max_closing_age \in I64_MIN..(I64_MAX - 1)
      /\ claims.iat \in I64 /\ claims.exp \in I64 \cup {None, Bad}
      /\ claims.nbf \in I64 \cup {None}
      /\ claims.aud = opts.aud /\ claims.nonce = opts.nonce
      /\ I64_MAX \in Nat
  BY TolerancesAssumption, MandateChainAssumption DEF Ranges
<1>2. \A t \in I64 : t <= saturating_add(opts.now, opts.clock_skew)
                      <=> t <= opts.now + opts.clock_skew
  BY <1>1 DEF I64, I64_MIN, saturating_add, Saturate
<1>3. \A t \in I64 : opts.now <= saturating_add(t, opts.clock_skew)
                      <=> ~(opts.now - opts.clock_skew > t)
  BY <1>1 DEF I64, I64_MIN, saturating_add, Saturate
<1>4. saturating_sub(opts.now, claims.iat) <= opts.max_closing_age
        <=> ~(opts.now - claims.iat > opts.max_closing_age)
  BY <1>1 DEF I64, I64_MIN, saturating_sub, Saturate
<1>5. \A t \in I64 : t # None /\ t # Bad
  BY ClaimsAssumption
<1>6. None \notin {"Malformed", "Expired", "NotYetValid", "Stale", "Audience", "Nonce"} /\ None # Bad
  BY MandateChainAssumption, ClaimsAssumption DEF Errors
<1>7. \A t \in I64 : t > opts.now + opts.clock_skew <=> ~(t <= opts.now + opts.clock_skew)
  BY <1>1 DEF I64, I64_MIN
<1> HIDE DEF I64
<1> QED
  BY <1>1, <1>2, <1>3, <1>4, <1>5, <1>6, <1>7
     DEF ExactTimes, Verdict, ExactVerdict, check_times, check_closing, Check, ??

(* For every width of integer, every skew and every age below the largest  *)
(* integer, the hop is judged as in exact arithmetic at every tick.        *)
THEOREM TimesAreExact == Spec => []ExactTimes
  BY RangesHold, ExactInRange, PTL

(* The window of a hop opens at most once and never reopens.               *)
THEOREM WindowCloses == Spec => WindowNeverReopens
<1>1. Ranges /\ ExactTimes /\ ExactTimes' /\ [Tick]_vars => [Closes]_vars
  <2> SUFFICES ASSUME Ranges, ExactTimes, ExactTimes', Tick PROVE Closes
    BY DEF vars
  <2>1. Verdict = ExactVerdict /\ Verdict' = ExactVerdict'
    BY DEF ExactTimes
  <2>2. /\ opts.now \in Int /\ opts.clock_skew \in Int /\ opts.max_closing_age \in Int
        /\ claims.iat \in Int /\ claims.exp \in Int \cup {None, Bad}
        /\ claims.nbf \in Int \cup {None}
    <3>1. I64 \subseteq Int /\ Skews \subseteq Int /\ Ages \subseteq Int
      BY TolerancesAssumption, MandateChainAssumption DEF I64, I64_MIN
    <3> QED BY <3>1 DEF Ranges
  <2>3. /\ claims' = claims /\ opts'.now = opts.now + 1
        /\ opts'.clock_skew = opts.clock_skew
        /\ opts'.max_closing_age = opts.max_closing_age
    BY DEF Tick, Ranges
  <2>4. None \notin {"Malformed", "Expired", "NotYetValid", "Stale"}
    BY MandateChainAssumption DEF Errors
  <2> QED BY <2>1, <2>2, <2>3, <2>4 DEF Closes, ExactVerdict
<1> QED BY <1>1, RangesHold, TimesAreExact, PTL DEF Spec, WindowNeverReopens

---------------------------------------------------------------------------
(* ChainText: ordered sets of places. *)

(* Every set of naturals that is not empty has a least element. *)
LEMMA LeastNatural ==
  ASSUME NEW S \in SUBSET Nat, S # {}
  PROVE  \E n \in S : \A m \in S : n <= m
<1> DEFINE R == OpToRel(<, Nat)
<1>1. IsWellFoundedOn(R, Nat)
  BY NatLessThanWellFounded
<1>2. \A x, y \in Nat : <<x, y>> \in R <=> x < y
  BY DEF OpToRel
<1> HIDE DEF R
<1>3. PICK n \in S : \A m \in S : <<m, n>> \notin R
  BY <1>1, WFMin
<1>4. \A m \in S : m \in Nat /\ n \in Nat /\ ~(m < n)
  BY <1>2, <1>3
<1>q. QED BY <1>3, <1>4

(* Every bounded set of places that is not empty has a greatest element.   *)
LEMMA Greatest ==
  ASSUME NEW n \in Nat, NEW S \in SUBSET (-1..n), S # {}
  PROVE  \E x \in S : \A y \in S : y <= x
<1> DEFINE B == {m \in Nat : \A y \in S : y <= m - 1}
<1>1. n + 1 \in B
  OBVIOUS
<1>2. PICK m \in B : \A k \in B : m <= k
  <2>1. B \in SUBSET Nat /\ B # {}
    BY <1>1
  <2> HIDE DEF B
  <2>q. QED BY <2>1, LeastNatural
<1>3. m - 1 \in S
  <2> SUFFICES ASSUME m - 1 \notin S PROVE FALSE
    OBVIOUS
  <2>1. PICK z \in S : TRUE
    OBVIOUS
  <2>2. \A y \in S : y \in Int /\ -1 <= y /\ y <= m - 1 /\ y # m - 1
    BY <1>2
  <2>3. m \in Nat /\ m - 1 \in Nat /\ \A y \in S : y <= m - 1 - 1
    BY <1>2, <2>1, <2>2
  <2>4. m - 1 \in B
    BY <2>3
  <2>q. QED BY <1>2, <2>3, <2>4
<1>q. QED BY <1>2, <1>3

(* A bounded set of places is finite. *)
LEMMA Bounded ==
  ASSUME NEW n \in Nat, NEW S \in SUBSET (-1..n)
  PROVE  IsFiniteSet(S) /\ Cardinality(S) \in Nat
<1>1. IsFiniteSet(-1..n)
  BY FS_Interval
<1>2. IsFiniteSet(S)
  BY <1>1, FS_Subset
<1>q. QED BY <1>2, FS_CardinalityType

(* The places below x, and x itself one more. *)
Below(S, x) == {y \in S : y < x}

(* There is a place of every rank. *)
LEMMA EveryRank ==
  ASSUME NEW n \in Nat
  PROVE  \A S \in SUBSET (-1..n) : \A k \in 1..Cardinality(S) :
           \E x \in S : Cardinality(Below(S, x)) = k - 1
<1> DEFINE Good(S) == \A k \in 1..Cardinality(S) : \E x \in S : Cardinality(Below(S, x)) = k - 1
           D == {c \in Nat : \E S \in SUBSET (-1..n) : Cardinality(S) = c /\ ~Good(S)}
<1>1. SUFFICES ASSUME D # {} PROVE FALSE
  <2>1. \A S \in SUBSET (-1..n) : Cardinality(S) \in Nat
    BY Bounded
  <2>q. QED BY <1>1, <2>1
<1>2. PICK c \in D : \A d \in D : c <= d
  <2>1. D \in SUBSET Nat
    OBVIOUS
  <2> HIDE DEF D
  <2>q. QED BY <1>1, <2>1, LeastNatural
<1>3. PICK S \in SUBSET (-1..n) : Cardinality(S) = c /\ ~Good(S)
  BY <1>2
<1>4. PICK k \in 1..c : \A x \in S : Cardinality(Below(S, x)) # k - 1
  BY <1>3
<1>5. IsFiniteSet(S) /\ c \in Nat /\ k \in Nat /\ S # {}
  <2>1. IsFiniteSet(S) /\ c \in Nat
    BY <1>3, Bounded
  <2>2. k \in Nat /\ c # 0
    BY <1>4, <2>1
  <2>q. QED BY <1>3, <2>1, <2>2, FS_EmptySet
<1>6. PICK m \in S : \A y \in S : y <= m
  BY <1>5, Greatest
<1> DEFINE T == S \ {m}
<1>7. Cardinality(T) = c - 1 /\ T \in SUBSET (-1..n)
  BY <1>3, <1>5, <1>6, FS_RemoveElement
<1>8. Below(S, m) = T
  <2>1. \A y \in S : y < m <=> y # m
    BY <1>6
  <2>q. QED BY <2>1 DEF Below
<1>9. k # c
  BY <1>4, <1>6, <1>7, <1>8
<1>10. Good(T)
  <2>1. c - 1 \in Nat /\ c - 1 \notin D
    <3>1. c - 1 \in Nat /\ ~(c <= c - 1)
      BY <1>4, <1>5
    <3> HIDE DEF D
    <3>q. QED BY <1>2, <3>1
  <2> HIDE DEF Good
  <2>q. QED BY <1>7, <2>1
<1>11. k \in 1..Cardinality(T)
  BY <1>4, <1>5, <1>7, <1>9
<1>12. PICK x \in T : Cardinality(Below(T, x)) = k - 1
  BY <1>10, <1>11
<1>13. Below(S, x) = Below(T, x)
  <2>1. ~(m < x)
    BY <1>6
  <2>q. QED BY <2>1 DEF Below
<1>q. QED BY <1>4, <1>12, <1>13

(* Nth is the place of that rank, which is the only one. *)
LEMMA NthIs ==
  ASSUME NEW n \in Nat, NEW S \in SUBSET (-1..n), NEW k \in 1..Cardinality(S)
  PROVE  /\ Nth(S, k) \in S /\ Cardinality(Below(S, Nth(S, k))) = k - 1
         /\ \A x \in S : Cardinality(Below(S, x)) = k - 1 => Nth(S, k) = x
<1>1. \E x \in S : Cardinality(Below(S, x)) = k - 1
  BY EveryRank
<1>2. Nth(S, k) \in S /\ Cardinality(Below(S, Nth(S, k))) = k - 1
  BY <1>1 DEF Nth, Below
<1>3. ASSUME NEW x \in S, NEW z \in S, Cardinality(Below(S, x)) = Cardinality(Below(S, z)), x < z
      PROVE  FALSE
  <2>1. IsFiniteSet(Below(S, z))
    <3>1. Below(S, z) \in SUBSET (-1..n)
      BY DEF Below
    <3>q. QED BY <3>1, Bounded
  <2>2. ~(x < x) /\ \A y \in S : y < x => y < z
    BY <1>3
  <2>3. Below(S, x) \subseteq Below(S, z) /\ x \in Below(S, z) /\ x \notin Below(S, x)
    BY <1>3, <2>2 DEF Below
  <2>q. QED BY <1>3, <2>1, <2>3, FS_Subset
<1>4. \A x, z \in S : x < z \/ z < x \/ x = z
  OBVIOUS
<1>q. QED BY <1>2, <1>3, <1>4

(* A greater place has a greater rank. *)
LEMMA RanksGrow ==
  ASSUME NEW n \in Nat, NEW S \in SUBSET (-1..n), NEW x \in S, NEW z \in S, x < z
  PROVE  /\ Cardinality(Below(S, x)) \in Nat /\ Cardinality(Below(S, z)) \in Nat
         /\ Cardinality(Below(S, x)) < Cardinality(Below(S, z))
<1>1. Below(S, x) \in SUBSET (-1..n) /\ Below(S, z) \in SUBSET (-1..n)
  BY DEF Below
<1>2. IsFiniteSet(Below(S, z)) /\ Cardinality(Below(S, x)) \in Nat /\ Cardinality(Below(S, z)) \in Nat
  BY <1>1, Bounded
<1>3. ~(x < x) /\ \A y \in S : y < x => y < z
  OBVIOUS
<1>4. Below(S, x) \subseteq Below(S, z) /\ x \in Below(S, z) /\ x \notin Below(S, x)
  BY <1>3 DEF Below
<1>q. QED BY <1>2, <1>4, FS_Subset

---------------------------------------------------------------------------
(* Separators and pieces. *)

Cuts(s) == {-1, Len(s) + 1} \cup Separators(s)
Pieces(s) == Cardinality(Cuts(s)) - 1
Cut(s, k) == Nth(Cuts(s), k)

(* A separator is a "~~". *)
LEMMA SeparatorIsTildes ==
  ASSUME NEW s \in Texts, NEW i \in Separators(s)
  PROVE  /\ Len(s) \in Nat /\ i \in 1..(Len(s) - 1) /\ i \in Tildes(s)
         /\ s[i] = Tilde /\ s[i + 1] = Tilde
<1>1. Len(s) \in Nat
  BY DEF Texts
<1>2. i \in Tildes(s)
  BY DEF Separators
<1>q. QED BY <1>1, <1>2 DEF Tildes

(* The cuts in order: the imagined ones outside, the separators between. *)
LEMMA CutsInOrder ==
  ASSUME NEW s \in Texts
  PROVE  /\ Len(s) \in Nat /\ Pieces(s) \in Nat \ {0}
         /\ SplitTildes(s) = [k \in 1..Pieces(s) |-> SubSeq(s, Cut(s, k) + 2, Cut(s, k + 1) - 1)]
         /\ Cut(s, 1) = -1 /\ Cut(s, Pieces(s) + 1) = Len(s) + 1
         /\ \A k \in 2..Pieces(s) : Cut(s, k) \in Separators(s)
         /\ \A k \in 1..Pieces(s) : Cut(s, k) < Cut(s, k + 1)
         /\ \A k \in 1..Pieces(s) : \A z \in Cuts(s) : z <= Cut(s, k) \/ Cut(s, k + 1) <= z
<1> DEFINE n == Pieces(s)
           N == Len(s) + 1
           rank(z) == Cardinality(Below(Cuts(s), z))
<1>1. Len(s) \in Nat /\ N \in Nat
  BY DEF Texts
<1>2. \A i \in Separators(s) : i \in Int /\ 1 <= i /\ i < N
  BY <1>1, SeparatorIsTildes
<1>3. Cuts(s) \in SUBSET (-1..N) /\ -1 \in Cuts(s) /\ N \in Cuts(s)
  BY <1>1, <1>2 DEF Cuts
<1> HIDE DEF N
<1>4. IsFiniteSet(Cuts(s)) /\ Cardinality(Cuts(s)) \in Nat
  BY <1>1, <1>3, Bounded
<1>5. Cardinality(Cuts(s)) = n + 1 /\ n \in Int
  BY <1>4 DEF Pieces
<1>6. rank(-1) = 0
  <2>1. Below(Cuts(s), -1) = {}
    BY <1>1, <1>3 DEF Below
  <2>q. QED BY <2>1, FS_EmptySet
<1>7. rank(N) = n
  <2>1. \A z \in Cuts(s) : z < N <=> z # N
    BY <1>1, <1>3
  <2>2. Below(Cuts(s), N) = Cuts(s) \ {N}
    BY <2>1 DEF Below
  <2>3. Cardinality(Cuts(s) \ {N}) = Cardinality(Cuts(s)) - 1
    BY <1>3, <1>4, FS_RemoveElement
  <2>q. QED BY <1>5, <2>2, <2>3
<1>8. n \in Nat \ {0}
  <2>1. -1 < N
    BY <1>1
  <2>2. \A x, z \in Cuts(s) : x < z => rank(x) < rank(z)
    BY <1>1, <1>3, RanksGrow
  <2>3. rank(-1) < rank(N)
    BY <1>3, <2>1, <2>2
  <2>q. QED BY <1>5, <1>6, <1>7, <2>3
<1>9. \A k \in 1..(n + 1) : Cut(s, k) \in Cuts(s) /\ rank(Cut(s, k)) = k - 1
  BY <1>1, <1>3, <1>5, NthIs DEF Cut
<1>10. Cut(s, 1) = -1 /\ Cut(s, n + 1) = N
  <2>1. 1 \in 1..Cardinality(Cuts(s)) /\ n + 1 \in 1..Cardinality(Cuts(s))
    BY <1>5, <1>8
  <2>2. rank(-1) = 1 - 1 /\ rank(N) = (n + 1) - 1
    BY <1>6, <1>7, <1>8
  <2>q. QED BY <1>1, <1>3, <2>1, <2>2, NthIs DEF Cut
<1>11. ASSUME NEW k \in 2..n PROVE Cut(s, k) \in Separators(s)
  <2>1. Cut(s, k) \in Cuts(s) /\ rank(Cut(s, k)) = k - 1
    BY <1>8, <1>9, <1>11
  <2>2. Cut(s, k) # -1 /\ Cut(s, k) # N
    BY <1>6, <1>7, <1>8, <1>11, <2>1
  <2>q. QED BY <2>1, <2>2 DEF Cuts, N
<1>12. ASSUME NEW k \in 1..n
       PROVE  /\ Cut(s, k) < Cut(s, k + 1)
              /\ \A z \in Cuts(s) : z <= Cut(s, k) \/ Cut(s, k + 1) <= z
  <2> DEFINE x == Cut(s, k)
             y == Cut(s, k + 1)
  <2>1. x \in Cuts(s) /\ y \in Cuts(s) /\ rank(x) = k - 1 /\ rank(y) = k /\ k \in Nat
    BY <1>8, <1>9, <1>12
  <2>2. x \in Int /\ y \in Int /\ \A z \in Cuts(s) : z \in Int
    BY <1>3, <2>1
  <2> HIDE DEF x, y
  <2>3. x < y
    <3>1. CASE y < x
      <4>1. rank(y) < rank(x)
        BY <1>1, <1>3, <2>1, <3>1, RanksGrow
      <4>q. QED BY <2>1, <4>1
    <3>2. CASE y = x
      BY <2>1, <3>2
    <3>q. QED BY <2>2, <3>1, <3>2
  <2>4. ASSUME NEW z \in Cuts(s), x < z, z < y PROVE FALSE
    <3>1. rank(x) < rank(z) /\ rank(z) < rank(y) /\ rank(z) \in Nat
      BY <1>1, <1>3, <2>1, <2>4, RanksGrow
    <3>q. QED BY <2>1, <3>1
  <2>5. \A z \in Cuts(s) : z <= x \/ y <= z
    BY <2>2, <2>4
  <2>q. QED BY <2>3, <2>5 DEF x, y
<1>13. SplitTildes(s) = [k \in 1..n |-> SubSeq(s, Cut(s, k) + 2, Cut(s, k + 1) - 1)]
  BY DEF SplitTildes, Cuts, Pieces, Cut
<1>q. QED BY <1>1, <1>8, <1>10, <1>11, <1>12, <1>13 DEF N

(* Where the run of tildes around a place begins. *)
Begins(s, j, i) ==
  /\ j \in 1..i
  /\ \A k \in j..i : s[k] = Tilde
  /\ j = 1 \/ s[j - 1] # Tilde

(* Every tilde stands in a run. *)
LEMMA RunBegins ==
  ASSUME NEW s, NEW i \in Nat, i >= 1, s[i] = Tilde
  PROVE  \E j : Begins(s, j, i)
<1> DEFINE S == {j \in 1..i : \A k \in j..i : s[k] = Tilde}
<1>1. i \in S /\ S \in SUBSET Nat
  OBVIOUS
<1>2. PICK j \in S : \A m \in S : j <= m
  <2> HIDE DEF S
  <2>q. QED BY <1>1, LeastNatural
<1>3. j = 1 \/ s[j - 1] # Tilde
  <2> SUFFICES ASSUME j # 1, s[j - 1] = Tilde PROVE FALSE
    OBVIOUS
  <2>1. j - 1 \in 1..i /\ ~(j <= j - 1)
    BY <1>2
  <2>2. ASSUME NEW k \in (j - 1)..i PROVE s[k] = Tilde
    <3>1. k = j - 1 \/ k \in j..i
      BY <1>2, <2>2
    <3>q. QED BY <1>2, <3>1
  <2>3. j - 1 \in S
    BY <2>1, <2>2
  <2>q. QED BY <1>2, <2>1, <2>3
<1>q. QED BY <1>2, <1>3 DEF Begins

(* Of two neighbouring "~~" one is a separator, and not both. *)
LEMMA EveryOther ==
  ASSUME NEW s \in Texts, NEW i \in Tildes(s), i \notin Separators(s)
  PROVE  i - 1 \in Separators(s)
<1>1. Len(s) \in Nat /\ i \in 1..(Len(s) - 1) /\ s[i] = Tilde /\ s[i + 1] = Tilde /\ i \in Nat
  BY DEF Texts, Tildes
<1>2. PICK j : Begins(s, j, i)
  BY <1>1, RunBegins
<1>3. j \in 1..i /\ j \in Nat /\ (i - j) % 2 # 0
  BY <1>1, <1>2 DEF Begins, Separators
<1>4. j # i
  BY <1>1, <1>3
<1>5. j \in 1..(i - 1) /\ i - 1 \in Nat /\ i - 1 \in 1..(Len(s) - 1)
  BY <1>1, <1>3, <1>4
<1>6. ((i - 1) - j) % 2 = 0
  BY <1>1, <1>3
<1>7. s[i - 1] = Tilde /\ s[(i - 1) + 1] = Tilde
  BY <1>1, <1>2, <1>5 DEF Begins
<1>8. i - 1 \in Tildes(s)
  BY <1>5, <1>7 DEF Tildes
<1>9. \A k \in j..(i - 1) : s[k] = Tilde
  BY <1>1, <1>2, <1>3 DEF Begins
<1>q. QED BY <1>2, <1>5, <1>6, <1>8, <1>9 DEF Begins, Separators

---------------------------------------------------------------------------
(* The receipt's search from the right. *)

(* The least and the greatest of a set are what they are shown to be. *)
LEMMA ExtremesAre ==
  ASSUME NEW S \in SUBSET Nat, NEW x \in S
  PROVE  /\ (\A y \in S : x <= y) => Min(S) = x
         /\ (\A y \in S : y <= x) => Max(S) = x
<1>1. ASSUME \A y \in S : x <= y PROVE Min(S) = x
  <2>1. Min(S) \in S /\ \A y \in S : Min(S) <= y
    BY <1>1 DEF Min
  <2>2. Min(S) \in Nat /\ x \in Nat /\ Min(S) <= x /\ x <= Min(S)
    BY <1>1, <2>1
  <2>q. QED BY <2>2
<1>2. ASSUME \A y \in S : y <= x PROVE Max(S) = x
  <2>1. \E z \in S : \A y \in S : z >= y
    BY <1>2
  <2>2. Max(S) \in S /\ \A y \in S : Max(S) >= y
    BY <2>1 DEF Max
  <2>3. Max(S) \in Nat /\ x \in Nat /\ Max(S) <= x /\ x <= Max(S)
    BY <1>2, <2>2
  <2>q. QED BY <2>3
<1>q. QED BY <1>1, <1>2

(* A segment with a JWT does not begin with "~". *)
LEMMA JwtFirst ==
  ASSUME NEW seg \in Texts, seg # <<>>, Jwt(seg) # <<>>
  PROVE  seg[1] # Tilde
<1> SUFFICES ASSUME seg[1] = Tilde PROVE FALSE
  OBVIOUS
<1> DEFINE stops == {i \in DOMAIN seg : seg[i] = Tilde}
<1>1. DOMAIN seg = 1..Len(seg) /\ Len(seg) \in Nat /\ Len(seg) # 0
  BY DEF Texts
<1>2. 1 \in stops /\ stops \in SUBSET Nat /\ \A y \in stops : 1 <= y
  BY <1>1
<1>3. Min(stops) = 1
  <2> HIDE DEF stops
  <2>q. QED BY <1>2, ExtremesAre
<1>4. Jwt(seg) = SubSeq(seg, 1, 1 - 1)
  BY <1>2, <1>3 DEF Jwt
<1>5. SubSeq(seg, 1, 1 - 1) = <<>>
  BY DEF Texts
<1>q. QED BY <1>4, <1>5

(* The JWT of a text is that of any beginning of it that ends in "~". *)
LEMMA JwtOfBeginning ==
  ASSUME NEW s \in Texts, NEW f \in 1..Len(s), s[f] = Tilde
  PROVE  Jwt(SubSeq(s, 1, f)) = Jwt(s)
<1> DEFINE b == SubSeq(s, 1, f)
           stops == {i \in DOMAIN s : s[i] = Tilde}
           early == {i \in DOMAIN b : b[i] = Tilde}
<1>1. Len(s) \in Nat /\ f \in Nat /\ DOMAIN s = 1..Len(s)
  BY DEF Texts
<1>2. b \in Texts /\ DOMAIN b = 1..f /\ Len(b) = f /\ \A i \in 1..f : b[i] = s[i]
  BY <1>1 DEF Texts
<1>3. f \in stops /\ stops \in SUBSET Nat
  BY <1>1
<1>4. PICK p \in stops : \A y \in stops : p <= y
  <2> HIDE DEF stops
  <2>q. QED BY <1>3, LeastNatural
<1>5. p \in 1..f /\ p \in Nat
  BY <1>1, <1>3, <1>4
<1>6. p \in early /\ early \in SUBSET Nat /\ \A y \in early : p <= y
  <2>1. early \subseteq stops
    BY <1>1, <1>2
  <2>q. QED BY <1>1, <1>2, <1>4, <1>5, <2>1
<1>7. Min(stops) = p
  <2> HIDE DEF stops
  <2>q. QED BY <1>3, <1>4, ExtremesAre
<1>8. Min(early) = p
  <2> HIDE DEF early
  <2>q. QED BY <1>6, ExtremesAre
<1>9. Jwt(s) = SubSeq(s, 1, p - 1)
  BY <1>4, <1>7 DEF Jwt
<1>10. Jwt(b) = SubSeq(b, 1, p - 1)
  BY <1>6, <1>8 DEF Jwt
<1>11. SubSeq(s, 1, p - 1) = SubSeq(b, 1, p - 1)
  <2> HIDE DEF b
  <2>q. QED BY <1>1, <1>2, <1>5 DEF Texts
<1>q. QED BY <1>9, <1>10, <1>11

(* What the verifier found of a text it splits. *)
LEMMA SplitFinds ==
  ASSUME NEW s \in Texts, split_text(s).ok
  PROVE  LET n == Pieces(s)
             raw == SplitTildes(s)
         IN  /\ n \in Nat /\ n >= 2 /\ Len(raw) = n /\ DOMAIN raw = 1..n
             /\ \A k \in 1..n : /\ raw[k] = SubSeq(s, Cut(s, k) + 2, Cut(s, k + 1) - 1)
                                /\ Jwt(raw[k]) # <<>>
             /\ raw[n] # <<>> /\ raw[n][Len(raw[n])] = Tilde
             /\ split_text(s).canonical =
                  [k \in 1..n |-> IF k = n THEN raw[k] ELSE Append(raw[k], Tilde)]
<1> DEFINE n == Pieces(s)
           raw == SplitTildes(s)
<1>1. n \in Nat \ {0} /\ raw = [k \in 1..n |-> SubSeq(s, Cut(s, k) + 2, Cut(s, k + 1) - 1)]
  BY CutsInOrder
<1> HIDE DEF n, raw
<1>2. Len(raw) = n /\ DOMAIN raw = 1..n
  BY <1>1
<1>3. /\ ~(Len(raw) < 2) /\ EndsWith(Last(raw)) /\ ~\E i \in DOMAIN raw : Jwt(raw[i]) = <<>>
      /\ split_text(s) = [ok |-> TRUE, canonical |->
           [i \in DOMAIN raw |-> IF i = Len(raw) THEN raw[i] ELSE Append(raw[i], Tilde)]]
  BY DEF split_text, NotSplit, raw
<1>4. raw[n] # <<>> /\ raw[n][Len(raw[n])] = Tilde
  BY <1>2, <1>3 DEF EndsWith, Last
<1>5. n >= 2 /\ \A k \in 1..n : Jwt(raw[k]) # <<>>
  BY <1>1, <1>2, <1>3
<1>6. \A k \in 1..n : raw[k] = SubSeq(s, Cut(s, k) + 2, Cut(s, k + 1) - 1)
  BY <1>1
<1>7. split_text(s).canonical = [k \in 1..n |-> IF k = n THEN raw[k] ELSE Append(raw[k], Tilde)]
  BY <1>2, <1>3
<1>q. QED BY <1>1, <1>2, <1>4, <1>5, <1>6, <1>7 DEF n, raw

(* In every state whose chain is a text, whoever wrote it: if the verifier *)
(* can split the text, the receipt refers to the root and to the closing   *)
(* hop that were verified (split, for_chain).                              *)
LEMMA NamesVerifiedHops == chain \in Texts => ReceiptNamesVerifiedHops
<1> SUFFICES ASSUME chain \in Texts, split_text(chain).ok
             PROVE  LET hops == split_text(chain).canonical
                    IN  /\ for_chain(chain) # NoSegment
                        /\ for_chain(chain).mandate_id = Jwt(hops[1])
                        /\ for_chain(chain).presentation_id = Last(hops)
  BY DEF ReceiptNamesVerifiedHops
<1> DEFINE s == chain
           n == Pieces(s)
           raw == SplitTildes(s)
           m == Cut(s, n)
           last == SubSeq(s, m + 2, Len(s))
<1>1. /\ n \in Nat /\ n >= 2 /\ Len(raw) = n /\ DOMAIN raw = 1..n
      /\ \A k \in 1..n : /\ raw[k] = SubSeq(s, Cut(s, k) + 2, Cut(s, k + 1) - 1)
                         /\ Jwt(raw[k]) # <<>>
      /\ raw[n] # <<>> /\ raw[n][Len(raw[n])] = Tilde
      /\ split_text(s).canonical = [k \in 1..n |-> IF k = n THEN raw[k] ELSE Append(raw[k], Tilde)]
  BY SplitFinds
<1>2. /\ Len(s) \in Nat /\ Cut(s, 1) = -1 /\ Cut(s, n + 1) = Len(s) + 1
      /\ m \in Separators(s) /\ Cut(s, 2) \in Separators(s)
      /\ \A z \in Cuts(s) : z <= m \/ Len(s) + 1 <= z
  <2>1. n \in 2..n /\ 2 \in 2..n /\ n \in 1..n
    BY <1>1
  <2>q. QED BY <2>1, CutsInOrder
<1> HIDE DEF n, raw, m
<1>3. m \in 1..(Len(s) - 1) /\ m \in Tildes(s)
  BY <1>2, SeparatorIsTildes
<1>4. raw[n] = last
  <2>1. raw[n] = SubSeq(s, m + 2, Cut(s, n + 1) - 1)
    BY <1>1 DEF m
  <2>2. Cut(s, n + 1) - 1 = Len(s)
    BY <1>2
  <2>q. QED BY <2>1, <2>2
<1>5. last # <<>> /\ last \in Texts /\ last[1] # Tilde
  <2>1. last \in Texts
    BY <1>2, <1>3 DEF Texts
  <2>2. Jwt(last) # <<>> /\ last # <<>>
    <3>1. n \in 1..n
      BY <1>1
    <3>2. Jwt(raw[n]) # <<>> /\ raw[n] # <<>>
      BY <1>1, <3>1
    <3>q. QED BY <1>4, <3>2
  <2> HIDE DEF last
  <2>q. QED BY <2>1, <2>2, JwtFirst
<1>6. m + 2 <= Len(s) /\ s[m + 2] # Tilde
  <2>1. m + 2 <= Len(s)
    BY <1>2, <1>3, <1>5 DEF Texts
  <2>2. last[1] = s[m + 2]
    BY <1>2, <1>3, <2>1 DEF Texts
  <2>q. QED BY <1>5, <2>1, <2>2
<1>7. \A t \in Tildes(s) : t <= m
  <2> SUFFICES ASSUME NEW t \in Tildes(s), ~(t <= m) PROVE FALSE
    OBVIOUS
  <2>1. t \in 1..(Len(s) - 1) /\ s[t + 1] = Tilde
    BY <1>2 DEF Tildes
  <2>2. CASE t \in Separators(s)
    <3>1. t \in Cuts(s) /\ t < Len(s) + 1
      BY <1>2, <2>1, <2>2 DEF Cuts
    <3>q. QED BY <1>2, <1>3, <2>1, <3>1
  <2>3. CASE t \notin Separators(s)
    <3>1. t - 1 \in Cuts(s) /\ t - 1 < Len(s) + 1
      BY <1>2, <2>1, <2>3, EveryOther DEF Cuts
    <3>2. t - 1 <= m
      BY <1>2, <2>1, <3>1
    <3>3. t + 1 = m + 2
      BY <1>3, <2>1, <3>2
    <3>q. QED BY <1>6, <2>1, <3>3
  <2>q. QED BY <2>2, <2>3
<1>8. Max(Tildes(s)) = m /\ Tildes(s) # {}
  <2>1. Tildes(s) \in SUBSET Nat
    BY <1>2 DEF Tildes
  <2>q. QED BY <1>3, <1>7, <2>1, ExtremesAre
<1>9. AfterLastTildes(s) = last
  BY <1>8 DEF AfterLastTildes
<1>10. closing_segment(s) = last /\ last # NoSegment
  <2>1. EndsWith(last) /\ Head(last) # Tilde
    <3>1. last[Len(last)] = Tilde
      BY <1>1, <1>4
    <3> HIDE DEF last
    <3>q. QED BY <1>5, <3>1 DEF EndsWith, Last, Texts
  <2>2. last # NoSegment
    BY <1>5, ChainTextAssumption
  <2>q. QED BY <1>8, <1>9, <2>1, <2>2 DEF closing_segment
<1>11. for_chain(s) = [reference |-> last, mandate_id |-> Jwt(s), presentation_id |-> last]
  BY <1>10 DEF for_chain
<1>12. Last(split_text(s).canonical) = last
  <2>1. Len(split_text(s).canonical) = n /\ n \in 1..n
    BY <1>1
  <2>q. QED BY <1>1, <1>4, <2>1 DEF Last
<1>13. Jwt(split_text(s).canonical[1]) = Jwt(s)
  <2> DEFINE f == Cut(s, 2)
  <2>1. f \in 1..(Len(s) - 1) /\ s[f] = Tilde
    BY <1>2, SeparatorIsTildes
  <2>2. split_text(s).canonical[1] = Append(raw[1], Tilde) /\ raw[1] = SubSeq(s, 1, f - 1)
    <3>1. 1 \in 1..n /\ 1 # n /\ 1 + 1 = 2
      BY <1>1
    <3>2. raw[1] = SubSeq(s, Cut(s, 1) + 2, Cut(s, 2) - 1)
      BY <1>1, <3>1
    <3>3. Cut(s, 1) + 2 = 1
      BY <1>2
    <3>4. split_text(s).canonical[1] = Append(raw[1], Tilde)
      BY <1>1, <3>1
    <3>5. raw[1] = SubSeq(s, 1, f - 1)
      BY <3>2, <3>3
    <3>q. QED BY <3>4, <3>5
  <2> HIDE DEF f
  <2>3. Append(SubSeq(s, 1, f - 1), Tilde) = SubSeq(s, 1, f)
    BY <1>2, <2>1 DEF Texts
  <2>4. f \in 1..Len(s)
    BY <1>2, <2>1
  <2>5. Jwt(SubSeq(s, 1, f)) = Jwt(s)
    BY <2>1, <2>4, JwtOfBeginning
  <2>q. QED BY <2>2, <2>3, <2>5
<1>14. NoSegment # for_chain(s)
  <2>1. Jwt(s) \in Texts
    <3> DEFINE stops == {i \in DOMAIN s : s[i] = Tilde}
    <3>1. CASE stops = {}
      BY <3>1 DEF Jwt
    <3>2. CASE stops # {}
      <4>1. stops \in SUBSET Nat /\ \A i \in stops : i \in 1..Len(s)
        BY DEF Texts
      <4>2. PICK p \in stops : \A y \in stops : p <= y
        <5> HIDE DEF stops
        <5>q. QED BY <3>2, <4>1, LeastNatural
      <4>3. Min(stops) = p /\ p \in 1..Len(s)
        <5> HIDE DEF stops
        <5>q. QED BY <4>1, <4>2, ExtremesAre
      <4>4. Jwt(s) = SubSeq(s, 1, p - 1)
        BY <3>2, <4>3 DEF Jwt
      <4>q. QED BY <1>2, <4>3, <4>4 DEF Texts
    <3>q. QED BY <3>1, <3>2
  <2>2. for_chain(s) \in [reference : Texts, mandate_id : Texts, presentation_id : Texts]
    <3> HIDE DEF last
    <3>q. QED BY <1>5, <1>11, <2>1
  <2>q. QED BY <2>2, ChainTextAssumption
<1>15. for_chain(s).mandate_id = Jwt(s) /\ for_chain(s).presentation_id = last
  <2> HIDE DEF last
  <2>q. QED BY <1>11
<1>q. QED BY <1>12, <1>13, <1>14, <1>15

---------------------------------------------------------------------------
(* Joining. *)

(* What flattening n + 1 sequences gives is what flattening n gives, and   *)
(* the last.                                                               *)
Flattens(g, P) ==
  /\ g[1] = P[1]
  /\ \A i \in 2..Len(P) : g[i] = g[i - 1] \o P[i]

(* FlattenSeq is the last of the growing concatenations. *)
LEMMA FlattenIs ==
  ASSUME NEW C, NEW P \in Seq(Seq(C)), Len(P) # 0,
         NEW g, g = [i \in 1..Len(P) |-> g[i]], Flattens(g, P)
  PROVE  FlattenSeq(P) = g[Len(P)]
<1> DEFINE N == Len(P)
<1>1. N \in Nat \ {0}
  OBVIOUS
<1>2. g = [i \in 1..N |-> IF i = 1 THEN P[i] ELSE g[i - 1] \o P[i]]
  <2>1. \A i \in 1..N : g[i] = IF i = 1 THEN P[i] ELSE g[i - 1] \o P[i]
    <3> TAKE i \in 1..N
    <3>1. CASE i = 1
      BY <3>1 DEF Flattens
    <3>2. CASE i # 1
      <4>1. i \in 2..Len(P)
        BY <1>1, <3>2
      <4>q. QED BY <3>2, <4>1 DEF Flattens
    <3>q. QED BY <3>1, <3>2
  <2>q. QED BY <2>1
<1>3. PICK f : /\ f = [i \in 1..N |-> IF i = 1 THEN P[i] ELSE f[i - 1] \o P[i]]
               /\ FlattenSeq(P) = f[N]
  BY <1>2 DEF FlattenSeq
<1>4. \A i \in 1..N : f[i] = g[i]
  <2> DEFINE D == {i \in 1..N : f[i] # g[i]}
  <2> SUFFICES ASSUME D # {} PROVE FALSE
    OBVIOUS
  <2>1. PICK i \in D : \A k \in D : i <= k
    <3>1. D \in SUBSET Nat
      BY <1>1
    <3> HIDE DEF D
    <3>q. QED BY <3>1, LeastNatural
  <2>2. CASE i = 1
    BY <1>2, <1>3, <2>1, <2>2
  <2>3. CASE i # 1
    <3>1. i - 1 \in 1..N /\ ~(i <= i - 1)
      BY <1>1, <2>1, <2>3
    <3>2. f[i - 1] = g[i - 1]
      BY <2>1, <3>1
    <3>3. f[i] = f[i - 1] \o P[i] /\ g[i] = g[i - 1] \o P[i]
      BY <1>2, <1>3, <2>1, <2>3
    <3>q. QED BY <2>1, <3>2, <3>3
  <2>q. QED BY <2>2, <2>3
<1>q. QED BY <1>1, <1>3, <1>4

(* The concatenations exist. *)
LEMMA FlattenExists ==
  ASSUME NEW C, NEW P \in Seq(Seq(C)), Len(P) # 0
  PROVE  \E g \in [1..Len(P) -> Seq(C)] : Flattens(g, P) /\ FlattenSeq(P) = g[Len(P)]
<1> DEFINE N == Len(P)
           Upto(g, n) == g[1] = P[1] /\ \A i \in 2..n : g[i] = g[i - 1] \o P[i]
           Some(n) == \E g \in [1..n -> Seq(C)] : Upto(g, n)
           D == {n \in 1..N : ~Some(n)}
<1>1. N \in Nat \ {0} /\ \A i \in 1..N : P[i] \in Seq(C)
  OBVIOUS
<1>2. D = {}
  <2> SUFFICES ASSUME D # {} PROVE FALSE
    OBVIOUS
  <2>1. PICK n \in D : \A k \in D : n <= k
    <3>1. D \in SUBSET Nat
      <4> HIDE DEF Some
      <4>q. QED BY <1>1
    <3> HIDE DEF D
    <3>q. QED BY <3>1, LeastNatural
  <2>2. CASE n = 1
    <3> DEFINE g == [i \in 1..1 |-> P[1]]
    <3>1. g \in [1..1 -> Seq(C)] /\ Upto(g, 1)
      BY <1>1
    <3>q. QED BY <2>1, <2>2, <3>1
  <2>3. CASE n # 1
    <3>1. n - 1 \in 1..N /\ ~(n <= n - 1) /\ n \in 1..N
      BY <1>1, <2>1, <2>3
    <3>2. PICK h \in [1..(n - 1) -> Seq(C)] : Upto(h, n - 1)
      BY <2>1, <3>1
    <3> DEFINE g == [i \in 1..n |-> IF i = n THEN h[n - 1] \o P[n] ELSE h[i]]
    <3>3. g \in [1..n -> Seq(C)]
      <4>1. h[n - 1] \o P[n] \in Seq(C)
        BY <1>1, <3>1, <3>2
      <4>2. \A i \in 1..n : i # n => h[i] \in Seq(C)
        BY <3>1, <3>2
      <4>q. QED BY <4>1, <4>2
    <3>4. Upto(g, n)
      <4>1. g[1] = P[1]
        BY <2>3, <3>1, <3>2
      <4>2. ASSUME NEW i \in 2..n PROVE g[i] = g[i - 1] \o P[i]
        <5>1. i - 1 \in 1..n /\ i - 1 # n /\ i \in 1..n
          BY <3>1, <4>2
        <5>2. g[i - 1] = h[i - 1]
          BY <5>1
        <5>3. CASE i = n
          BY <5>1, <5>2, <5>3
        <5>4. CASE i # n
          <6>1. i \in 2..(n - 1)
            BY <3>1, <4>2, <5>4
          <6>2. h[i] = h[i - 1] \o P[i]
            BY <3>2, <6>1
          <6>q. QED BY <5>1, <5>2, <5>4, <6>2
        <5>q. QED BY <5>3, <5>4
      <4>q. QED BY <4>1, <4>2
    <3> HIDE DEF g
    <3>q. QED BY <2>1, <3>3, <3>4
  <2>q. QED BY <2>2, <2>3
<1>3. PICK g \in [1..N -> Seq(C)] : Upto(g, N)
  <2>1. Some(N)
    <3> HIDE DEF Some
    <3>1. N \in 1..N
      BY <1>1
    <3>q. QED BY <1>2, <3>1
  <2>q. QED BY <2>1
<1>4. Flattens(g, P) /\ g = [i \in 1..Len(P) |-> g[i]]
  BY <1>3 DEF Flattens
<1>5. FlattenSeq(P) = g[Len(P)]
  BY <1>4, FlattenIs
<1>q. QED BY <1>3, <1>4, <1>5

(* The texts that join writes one after the other. *)
Written(segs) ==
  [i \in DOMAIN segs |-> IF i < Len(segs) THEN strip_suffix(segs[i]) \o <<Tilde, Tilde>> ELSE segs[i]]

(* What is written is text. *)
LEMMA WrittenIsText ==
  ASSUME NEW segs \in Seq(Texts)
  PROVE  /\ Written(segs) \in Seq(Texts) /\ Len(Written(segs)) = Len(segs)
         /\ join(segs) = FlattenSeq(Written(segs))
<1>1. \A x \in Texts : strip_suffix(x) \in Texts
  <2> TAKE x \in Texts
  <2>1. x # <<>> => Len(x) - 1 \in 0..Len(x)
    BY DEF Texts
  <2>q. QED BY <2>1 DEF strip_suffix, EndsWith, Front, Texts
<1>2. \A x \in Texts : x \o <<Tilde, Tilde>> \in Texts
  BY DEF Texts
<1>3. DOMAIN segs = 1..Len(segs) /\ Len(segs) \in Nat
  OBVIOUS
<1>4. \A i \in 1..Len(segs) : Written(segs)[i] \in Texts
  BY <1>1, <1>2, <1>3 DEF Written
<1>5. Written(segs) = [i \in 1..Len(segs) |-> Written(segs)[i]]
  BY <1>3 DEF Written
<1>6. Written(segs) \in Seq(Texts) /\ Len(Written(segs)) = Len(segs)
  BY <1>3, <1>4, <1>5
<1>q. QED BY <1>6 DEF join, Written

(* Joining gives a text. *)
LEMMA JoinIsText == ASSUME NEW segs \in Seq(Texts) PROVE join(segs) \in Texts
<1>1. Written(segs) \in Seq(Texts) /\ Len(Written(segs)) = Len(segs) /\ join(segs) = FlattenSeq(Written(segs))
  BY WrittenIsText
<1>2. CASE Len(segs) = 0
  <2>1. FlattenSeq(Written(segs)) = Written(segs)
    BY <1>1, <1>2 DEF FlattenSeq
  <2>2. Written(segs) = <<>>
    BY <1>1, <1>2
  <2>q. QED BY <1>1, <2>1, <2>2 DEF Texts
<1>3. CASE Len(segs) # 0
  <2>1. \E g \in [1..Len(segs) -> Texts] : FlattenSeq(Written(segs)) = g[Len(segs)]
    BY <1>1, <1>3, FlattenExists DEF Texts
  <2>q. QED BY <1>1, <1>3, <2>1
<1>q. QED BY <1>2, <1>3

---------------------------------------------------------------------------
(* A segment ends in "~" and has no two of them together. *)
IsSegment(x) ==
  /\ x \in Texts /\ Len(x) >= 2 /\ x[Len(x)] = Tilde /\ x[1] # Tilde
  /\ \A k \in 1..(Len(x) - 1) : x[k] # Tilde \/ x[k + 1] # Tilde

(* What an agent signs is a segment. *)
LEMMA SegmentIs == ASSUME NEW d \in Nat PROVE IsSegment(Segment(d))
<1> DEFINE x == Segment(d)
           N == 2 * (d + 1)
<1>1. N \in Nat /\ N >= 2 /\ N % 2 = 0 /\ 1 % 2 = 1
  OBVIOUS
<1>2. \A k \in 1..(N - 1) : k % 2 = 1 \/ (k + 1) % 2 = 1
  BY <1>1
<1>3. x = [i \in 1..N |-> IF i % 2 = 1 THEN "j" ELSE Tilde]
  BY DEF Segment
<1> HIDE DEF x, N
<1>4. x \in Texts /\ Len(x) = N
  BY <1>1, <1>3 DEF Texts
<1>5. \A i \in 1..N : x[i] = IF i % 2 = 1 THEN "j" ELSE Tilde
  BY <1>3
<1>q. QED BY <1>1, <1>2, <1>4, <1>5 DEF IsSegment, x, Tilde

TextInv ==
  /\ chain \in Texts
  /\ segments \in Seq(Texts) /\ \A i \in 1..Len(segments) : IsSegment(segments[i])
  /\ segments # <<>> => chain = join(segments)

(* The chain is a text, and if agents wrote it, of segments. *)
LEMMA TextInvariant == TextSpec => []TextInv
<1>1. TextInit => TextInv
  BY DEF TextInit, TextInv, Texts
<1>2. TextInv /\ [TextNext]_text_vars => TextInv'
  <2> SUFFICES ASSUME TextInv, [TextNext]_text_vars PROVE TextInv'
    OBVIOUS
  <2>1. CASE Sign
    <3>1. PICK d \in 0..MaxDisclosures : segments' = Append(segments, Segment(d))
      BY <2>1 DEF Sign
    <3>2. IsSegment(Segment(d)) /\ Segment(d) \in Texts
      <4>1. d \in Nat
        BY ChainTextAssumption
      <4>q. QED BY <4>1, SegmentIs DEF IsSegment
    <3>3. segments' \in Seq(Texts) /\ chain' = join(segments')
      BY <2>1, <3>1, <3>2 DEF Sign, TextInv
    <3>4. \A i \in 1..Len(segments') : IsSegment(segments'[i])
      <4> DEFINE x == Segment(d)
      <4>1. IsSegment(x) /\ segments' = Append(segments, x) /\ segments \in Seq(Texts)
        BY <3>1, <3>2 DEF TextInv
      <4> HIDE DEF x
      <4>2. TAKE i \in 1..Len(segments')
      <4>3. (i \in 1..Len(segments) /\ segments'[i] = segments[i]) \/ segments'[i] = x
        BY <4>1
      <4>q. QED BY <4>1, <4>3 DEF TextInv
    <3>5. chain' \in Texts
      BY <3>3, JoinIsText
    <3>q. QED BY <3>3, <3>4, <3>5 DEF TextInv
  <2>2. CASE Receive
    <3>1. segments' = segments /\ segments = <<>>
      BY <2>2 DEF Receive
    <3>2. chain' \in Texts
      BY <2>2 DEF Receive, TextInv, Texts
    <3>q. QED BY <3>1, <3>2 DEF TextInv
  <2>3. CASE UNCHANGED text_vars
    BY <2>3 DEF text_vars, TextInv
  <2>q. QED BY <2>1, <2>2, <2>3 DEF TextNext
<1>q. QED BY <1>1, <1>2, PTL DEF TextSpec

---------------------------------------------------------------------------
(* Joining what was split. *)

(* A text up to one place and on from there. *)
LEMMA TwoParts ==
  ASSUME NEW s \in Texts, NEW a \in Nat, NEW b \in Nat, a <= b, b <= Len(s)
  PROVE  SubSeq(s, 1, a) \o SubSeq(s, a + 1, b) = SubSeq(s, 1, b)
<1>1. Len(s) \in Nat
  BY DEF Texts
<1>2. SubSeq(s, 1, a) \in Texts /\ SubSeq(s, a + 1, b) \in Texts /\ SubSeq(s, 1, b) \in Texts
  BY <1>1 DEF Texts
<1>3. Len(SubSeq(s, 1, a)) = a /\ Len(SubSeq(s, a + 1, b)) = b - a /\ Len(SubSeq(s, 1, b)) = b
  BY <1>1 DEF Texts
<1>q. QED BY <1>1, <1>2, <1>3 DEF Texts

(* A text with "~~" behind it. *)
LEMMA WithTildes ==
  ASSUME NEW x \in Texts
  PROVE  LET w == x \o <<Tilde, Tilde>>
         IN  /\ w \in Texts /\ Len(x) \in Nat /\ Len(w) = Len(x) + 2
             /\ \A i \in 1..Len(x) : w[i] = x[i]
             /\ w[Len(x) + 1] = Tilde /\ w[Len(x) + 2] = Tilde
<1>1. <<Tilde, Tilde>> \in Texts /\ Len(<<Tilde, Tilde>>) = 2
  BY DEF Texts
<1>2. <<Tilde, Tilde>>[1] = Tilde /\ <<Tilde, Tilde>>[2] = Tilde
  OBVIOUS
<1> DEFINE t == <<Tilde, Tilde>>
           L == Len(x)
           C == {Tilde, "j"}
<1>3. L \in Nat /\ x \in Seq(C) /\ t \in Seq(C) /\ Len(t) = 2 /\ t[1] = Tilde /\ t[2] = Tilde
  BY <1>1, <1>2 DEF Texts
<1> HIDE DEF t, C
<1>4. /\ x \o t \in Seq(C) /\ Len(x \o t) = L + 2
      /\ \A i \in 1..(L + 2) : (x \o t)[i] = IF i <= L THEN x[i] ELSE t[i - L]
  <2>1. /\ x \o t \in Seq(C) /\ Len(x \o t) = Len(x) + Len(t)
        /\ \A i \in 1..(Len(x) + Len(t)) : (x \o t)[i] = IF i <= Len(x) THEN x[i] ELSE t[i - Len(x)]
    <3>1. x \in Seq(C) /\ t \in Seq(C)
      BY <1>3
    <3>q. QED BY ONLY <3>1, ConcatProperties, Zenon
  <2>q. QED BY <1>3, <2>1
<1> HIDE DEF L
<1>5. \A i \in 1..L : (x \o t)[i] = x[i]
  BY <1>3, <1>4
<1>6. (x \o t)[L + 1] = t[1] /\ (x \o t)[L + 2] = t[2]
  <2>1. L + 1 \in 1..(L + 2) /\ ~(L + 1 <= L) /\ (L + 1) - L = 1
    BY <1>3
  <2>2. L + 2 \in 1..(L + 2) /\ ~(L + 2 <= L) /\ (L + 2) - L = 2
    BY <1>3
  <2>q. QED BY <1>4, <2>1, <2>2
<1>q. QED BY <1>3, <1>4, <1>5, <1>6 DEF Texts, t, C, L

(* The piece before a separator, with the separator. *)
LEMMA WithSeparator ==
  ASSUME NEW s \in Texts, NEW a \in Nat, NEW c \in Nat, a + 1 <= c, c + 1 <= Len(s),
         s[c] = Tilde, s[c + 1] = Tilde
  PROVE  SubSeq(s, a + 1, c - 1) \o <<Tilde, Tilde>> = SubSeq(s, a + 1, c + 1)
<1> DEFINE x == SubSeq(s, a + 1, c - 1)
           y == SubSeq(s, a + 1, c + 1)
           w == x \o <<Tilde, Tilde>>
           L == c - 1 - a
<1>1. Len(s) \in Nat /\ c - 1 \in Nat /\ L \in Nat
  BY DEF Texts
<1>2. x \in Texts /\ Len(x) = L /\ \A i \in 1..L : x[i] = s[a + i]
  BY <1>1 DEF Texts
<1>3. y \in Texts /\ Len(y) = L + 2 /\ \A i \in 1..(L + 2) : y[i] = s[a + i]
  BY <1>1 DEF Texts
<1>4. /\ w \in Texts /\ Len(w) = L + 2 /\ \A i \in 1..L : w[i] = x[i]
      /\ w[L + 1] = Tilde /\ w[L + 2] = Tilde
  <2> HIDE DEF x, L
  <2>q. QED BY <1>2, WithTildes
<1>5. a + (L + 1) = c /\ a + (L + 2) = c + 1
  OBVIOUS
<1> HIDE DEF x, y, w, L
<1>6. ASSUME NEW i \in 1..(L + 2) PROVE w[i] = y[i]
  <2>1. i \in 1..L \/ i = L + 1 \/ i = L + 2
    BY <1>1, <1>6
  <2>2. y[i] = s[a + i]
    BY <1>3, <1>6
  <2>q. QED BY <1>2, <1>4, <1>5, <2>1, <2>2
<1>7. w = y
  BY <1>1, <1>3, <1>4, <1>6 DEF Texts
<1>q. QED BY <1>7 DEF x, y, w

(* What was appended is stripped again. *)
LEMMA StripAppended == ASSUME NEW x \in Texts PROVE strip_suffix(Append(x, Tilde)) = x
<1> DEFINE y == Append(x, Tilde)
<1>1. y \in Texts /\ Len(y) = Len(x) + 1 /\ Len(x) \in Nat /\ y[Len(y)] = Tilde
  BY DEF Texts
<1>2. y # <<>> /\ SubSeq(y, 1, Len(y) - 1) = x
  BY <1>1 DEF Texts
<1> HIDE DEF y
<1>3. strip_suffix(y) = x
  BY <1>1, <1>2 DEF strip_suffix, EndsWith, Last, Front
<1>q. QED BY <1>3 DEF y

(* A text that the verifier splits is what join makes of its segments. *)
LEMMA SplitIsJoined ==
  ASSUME NEW s \in Texts, split_text(s).ok
  PROVE  join(split_text(s).canonical) = s
<1> DEFINE n == Pieces(s)
           raw == SplitTildes(s)
           segs == split_text(s).canonical
           W == Written(segs)
           g == [k \in 1..n |-> IF k = n THEN s ELSE SubSeq(s, 1, Cut(s, k + 1) + 1)]
<1>1. /\ n \in Nat /\ n >= 2 /\ Len(raw) = n /\ DOMAIN raw = 1..n
      /\ \A k \in 1..n : /\ raw[k] = SubSeq(s, Cut(s, k) + 2, Cut(s, k + 1) - 1)
                         /\ Jwt(raw[k]) # <<>>
      /\ segs = [k \in 1..n |-> IF k = n THEN raw[k] ELSE Append(raw[k], Tilde)]
  BY SplitFinds
<1>2. /\ Len(s) \in Nat /\ Cut(s, 1) = -1 /\ Cut(s, n + 1) = Len(s) + 1
      /\ \A k \in 2..n : Cut(s, k) \in Separators(s)
  BY CutsInOrder
<1> HIDE DEF n, raw, segs
<1>3. \A k \in 2..n : /\ Cut(s, k) \in 1..(Len(s) - 1)
                      /\ s[Cut(s, k)] = Tilde /\ s[Cut(s, k) + 1] = Tilde
  BY <1>2, SeparatorIsTildes
<1>4. \A k \in 1..(n + 1) : Cut(s, k) \in Int /\ Cut(s, k) >= -1 /\ Cut(s, k) <= Len(s) + 1
  <2> TAKE k \in 1..(n + 1)
  <2>1. k = 1 \/ k = n + 1 \/ k \in 2..n
    BY <1>1
  <2>q. QED BY <1>2, <1>3, <2>1
<1>5. \A k \in 1..n : raw[k] \in Texts /\ Cut(s, k) + 3 <= Cut(s, k + 1)
  <2> TAKE k \in 1..n
  <2> DEFINE a == Cut(s, k) + 2
             b == Cut(s, k + 1) - 1
  <2>1. a \in Int /\ b \in Int /\ a >= 1 /\ b <= Len(s)
    <3>1. k \in 1..(n + 1) /\ k + 1 \in 1..(n + 1)
      BY <1>1
    <3>q. QED BY <1>4, <3>1
  <2>2. raw[k] = SubSeq(s, a, b) /\ Jwt(raw[k]) # <<>>
    BY <1>1
  <2>3. a <= b
    <3> HIDE DEF a, b
    <3> SUFFICES ASSUME ~(a <= b) PROVE FALSE
      OBVIOUS
    <3>1. SubSeq(s, a, b) = <<>>
      BY <1>2, <2>1 DEF Texts
    <3>2. Jwt(<<>>) = <<>>
      BY DEF Jwt
    <3>q. QED BY <2>2, <3>1, <3>2
  <2>4. SubSeq(s, a, b) \in Texts
    <3> HIDE DEF a, b
    <3>q. QED BY <1>2, <2>1, <2>3 DEF Texts
  <2>q. QED
    <3>1. Cut(s, k) \in Int /\ Cut(s, k + 1) \in Int
      <4>1. k \in 1..(n + 1) /\ k + 1 \in 1..(n + 1)
        BY <1>1
      <4>q. QED BY <1>4, <4>1
    <3>q. QED BY <2>2, <2>3, <2>4, <3>1
<1>6. segs \in Seq(Texts) /\ Len(segs) = n /\ DOMAIN segs = 1..n
  <2>1. \A k \in 1..n : Append(raw[k], Tilde) \in Texts
    BY <1>5 DEF Texts
  <2>q. QED BY <1>1, <1>5, <2>1
<1>7. \A k \in 1..n : k # n => W[k] = raw[k] \o <<Tilde, Tilde>>
  <2> TAKE k \in 1..n
  <2> SUFFICES ASSUME k # n PROVE W[k] = raw[k] \o <<Tilde, Tilde>>
    OBVIOUS
  <2>1. k < Len(segs) /\ segs[k] = Append(raw[k], Tilde)
    BY <1>1, <1>6
  <2>2. strip_suffix(segs[k]) = raw[k]
    BY <1>5, <2>1, StripAppended
  <2>q. QED BY <1>6, <2>1, <2>2 DEF Written
<1>8. W[n] = raw[n]
  BY <1>1, <1>6 DEF Written
<1>9. \A k \in 1..n : k # n =>
        /\ Cut(s, k) + 1 \in Nat
        /\ W[k] = SubSeq(s, Cut(s, k) + 2, Cut(s, k + 1) + 1)
  <2> TAKE k \in 1..n
  <2> SUFFICES ASSUME k # n
               PROVE  /\ Cut(s, k) + 1 \in Nat
                      /\ W[k] = SubSeq(s, Cut(s, k) + 2, Cut(s, k + 1) + 1)
    OBVIOUS
  <2> DEFINE a == Cut(s, k) + 1
             c == Cut(s, k + 1)
  <2>1. k \in 1..(n + 1) /\ k + 1 \in 2..n
    BY <1>1
  <2>2. a \in Nat /\ c \in Nat /\ a + 1 <= c /\ c + 1 <= Len(s) /\ s[c] = Tilde /\ s[c + 1] = Tilde
    <3>1. c \in 1..(Len(s) - 1) /\ s[c] = Tilde /\ s[c + 1] = Tilde
      BY <1>3, <2>1
    <3>2. Cut(s, k) \in Int /\ Cut(s, k) >= -1
      BY <1>4, <2>1
    <3>3. Cut(s, k) + 3 <= c
      BY <1>5
    <3>q. QED BY <1>2, <3>1, <3>2, <3>3
  <2>3. a + 1 = Cut(s, k) + 2
    BY <1>4, <2>1
  <2>4. SubSeq(s, a + 1, c - 1) \o <<Tilde, Tilde>> = SubSeq(s, a + 1, c + 1)
    <3> HIDE DEF a, c
    <3>q. QED BY <2>2, WithSeparator
  <2>q. QED BY <1>1, <1>7, <2>2, <2>3, <2>4
<1>10. Flattens(g, W)
  <2>1. Len(W) = n
    BY <1>6, WrittenIsText
  <2>2. g[1] = W[1]
    <3>1. 1 \in 1..n /\ 1 # n /\ 1 + 1 = 2
      BY <1>1
    <3>2. W[1] = SubSeq(s, Cut(s, 1) + 2, Cut(s, 2) + 1)
      <4> HIDE DEF W
      <4>q. QED BY <1>9, <3>1
    <3>3. Cut(s, 1) + 2 = 1
      BY <1>2
    <3>4. g[1] = SubSeq(s, 1, Cut(s, 2) + 1)
      BY <3>1
    <3> HIDE DEF W, g
    <3>q. QED BY <3>2, <3>3, <3>4
  <2>3. ASSUME NEW k \in 2..n PROVE g[k] = g[k - 1] \o W[k]
    <3> DEFINE a == Cut(s, k) + 1
    <3>1. k \in 1..n /\ k - 1 \in 1..n /\ k - 1 # n /\ (k - 1) + 1 = k /\ k \in 1..(n + 1)
      BY <1>1, <2>3
    <3>2. g[k - 1] = SubSeq(s, 1, a)
      BY <3>1
    <3>3. a \in Nat /\ a <= Len(s) /\ a + 1 = Cut(s, k) + 2
      BY <1>2, <1>3, <2>3
    <3>4. CASE k = n
      <4>1. Cut(s, k + 1) - 1 = Len(s)
        BY <1>2, <3>4
      <4>2. W[k] = SubSeq(s, a + 1, Len(s))
        BY <1>1, <1>8, <3>1, <3>3, <3>4, <4>1
      <4>3. SubSeq(s, 1, Len(s)) = s
        BY DEF Texts
      <4> HIDE DEF a
      <4>4. SubSeq(s, 1, a) \o SubSeq(s, a + 1, Len(s)) = SubSeq(s, 1, Len(s))
        <5>1. Len(s) \in Nat /\ a \in Nat /\ a <= Len(s) /\ Len(s) <= Len(s)
          BY <1>2, <3>3
        <5> HIDE DEF g, W
        <5>q. QED BY <5>1, TwoParts
      <4>q. QED BY <3>1, <3>2, <3>4, <4>2, <4>3, <4>4
    <3>5. CASE k # n
      <4> DEFINE b == Cut(s, k + 1) + 1
      <4>1. k + 1 \in 2..n
        BY <1>1, <2>3, <3>5
      <4>2. b \in Nat /\ b <= Len(s) /\ a <= b
        BY <1>2, <1>3, <1>5, <2>3, <3>1, <4>1
      <4>3. W[k] = SubSeq(s, a + 1, b) /\ g[k] = SubSeq(s, 1, b)
        BY <1>9, <3>1, <3>3, <3>5
      <4> HIDE DEF a, b, g
      <4>4. SubSeq(s, 1, a) \o SubSeq(s, a + 1, b) = SubSeq(s, 1, b)
        BY <3>3, <4>2, TwoParts
      <4>q. QED BY <3>2, <4>3, <4>4
    <3>q. QED BY <3>4, <3>5
  <2>q. QED BY <2>1, <2>2, <2>3 DEF Flattens
<1>11. W \in Seq(Texts) /\ Len(W) = n /\ join(segs) = FlattenSeq(W)
  BY <1>6, WrittenIsText
<1>12. g = [k \in 1..Len(W) |-> g[k]] /\ g[n] = s
  BY <1>1, <1>11
<1>13. FlattenSeq(W) = g[Len(W)]
  <2> HIDE DEF W, g
  <2>1. Len(W) # 0 /\ W \in Seq(Seq({Tilde, "j"}))
    BY <1>1, <1>11 DEF Texts
  <2>q. QED BY <1>10, <1>12, <2>1, FlattenIs
<1>q. QED BY <1>11, <1>12, <1>13 DEF segs

---------------------------------------------------------------------------
(* Splitting what was joined. *)

(* The k-th of growing places is the one of rank k, and they are all. *)
LEMMA EnumeratedPlaces ==
  ASSUME NEW n \in Nat, NEW m \in Nat, NEW c \in [1..m -> -1..n],
         \A k \in 1..m : k + 1 \in 1..m => c[k] < c[k + 1]
  PROVE  LET S == {c[k] : k \in 1..m}
         IN  Cardinality(S) = m /\ \A k \in 1..m : Nth(S, k) = c[k]
<1> DEFINE S == {c[k] : k \in 1..m}
<1>1. ASSUME NEW j \in 1..m, NEW k \in 1..m, j < k PROVE c[j] < c[k]
  <2> DEFINE D == {i \in 1..m : j < i /\ ~(c[j] < c[i])}
  <2> SUFFICES ASSUME D # {} PROVE FALSE
    BY <1>1
  <2>1. PICK i \in D : \A d \in D : i <= d
    <3>1. D \in SUBSET Nat
      OBVIOUS
    <3> HIDE DEF D
    <3>q. QED BY <3>1, LeastNatural
  <2>2. i - 1 \in 1..m /\ (i - 1) + 1 = i /\ ~(i <= i - 1) /\ (i - 1 = j \/ j < i - 1)
    BY <1>1, <2>1
  <2>3. i - 1 = j \/ c[j] < c[i - 1]
    BY <2>1, <2>2
  <2>4. c[i - 1] < c[i]
    BY <2>1, <2>2
  <2>5. c[j] \in Int /\ c[i - 1] \in Int /\ c[i] \in Int
    BY <1>1, <2>1, <2>2
  <2>q. QED BY <2>1, <2>3, <2>4, <2>5
<1>2. \A k \in 1..m : Cardinality({c[j] : j \in 1..(k - 1)}) = k - 1 /\ IsFiniteSet({c[j] : j \in 1..(k - 1)})
  <2> DEFINE T(k) == {c[j] : j \in 1..(k - 1)}
             Good(k) == Cardinality(T(k)) = k - 1 /\ IsFiniteSet(T(k))
             D == {k \in 1..m : ~Good(k)}
  <2> SUFFICES ASSUME D # {} PROVE FALSE
    OBVIOUS
  <2>1. PICK k \in D : \A d \in D : k <= d
    <3>1. D \in SUBSET Nat
      <4> HIDE DEF Good
      <4>q. QED OBVIOUS
    <3> HIDE DEF D
    <3>q. QED BY <3>1, LeastNatural
  <2>2. CASE k = 1
    <3>1. T(k) = {} /\ k - 1 = 0
      BY <2>2
    <3>2. Good(k)
      <4> HIDE DEF T
      <4>q. QED BY <3>1, FS_EmptySet
    <3> HIDE DEF Good
    <3>q. QED BY <2>1, <3>2
  <2>3. CASE k # 1
    <3>1. k - 1 \in 1..m /\ ~(k <= k - 1) /\ k \in 1..m
      BY <2>1, <2>3
    <3>2. Good(k - 1)
      <4> HIDE DEF Good
      <4>q. QED BY <2>1, <3>1
    <3>3. T(k) = T(k - 1) \cup {c[k - 1]}
      BY <3>1
    <3>4. c[k - 1] \notin T(k - 1)
      <4>1. \A j \in 1..((k - 1) - 1) : j \in 1..m /\ c[j] < c[k - 1] /\ c[j] \in Int /\ c[k - 1] \in Int
        BY <1>1, <3>1
      <4>q. QED BY <4>1
    <3>5. Good(k)
      <4> DEFINE A == T(k - 1)
                 y == c[k - 1]
      <4>0. IsFiniteSet(A) /\ y \notin A /\ T(k) = A \cup {y} /\ Cardinality(A) = (k - 1) - 1
        BY <3>2, <3>3, <3>4
      <4> HIDE DEF A, y, T
      <4>1. Cardinality(T(k)) = Cardinality(A) + 1 /\ IsFiniteSet(T(k))
        BY <4>0, FS_AddElement
      <4>q. QED BY <3>1, <4>0, <4>1
    <3> HIDE DEF Good
    <3>q. QED BY <2>1, <3>5
  <2>q. QED BY <2>2, <2>3
<1>3. \A k \in 1..m : Below(S, c[k]) = {c[j] : j \in 1..(k - 1)}
  <2> TAKE k \in 1..m
  <2>1. ASSUME NEW j \in 1..m PROVE c[j] < c[k] <=> j \in 1..(k - 1)
    <3>1. j < k \/ j = k \/ k < j
      OBVIOUS
    <3>2. c[j] \in Int /\ c[k] \in Int
      OBVIOUS
    <3>3. CASE j < k
      BY <1>1, <3>3
    <3>4. CASE j = k
      BY <3>2, <3>4
    <3>5. CASE k < j
      <4>1. c[k] < c[j]
        BY <1>1, <3>5
      <4>q. QED BY <3>2, <3>5, <4>1
    <3>q. QED BY <3>1, <3>3, <3>4, <3>5
  <2>2. \A j \in 1..(k - 1) : j \in 1..m
    OBVIOUS
  <2>q. QED BY <2>1, <2>2 DEF Below
<1>4. S \in SUBSET (-1..n)
  OBVIOUS
<1>5. Cardinality(S) = m
  <2>1. CASE m = 0
    <3>1. S = {}
      BY <2>1
    <3>q. QED BY <2>1, <3>1, FS_EmptySet
  <2>2. CASE m # 0
    <3> DEFINE T == {c[j] : j \in 1..(m - 1)}
    <3>1. m \in 1..m
      BY <2>2
    <3>2. Cardinality(T) = m - 1 /\ IsFiniteSet(T)
      BY <1>2, <3>1
    <3>3. S = T \cup {c[m]}
      <4>1. \A k \in 1..m : k \in 1..(m - 1) \/ k = m
        OBVIOUS
      <4>2. \A k \in 1..(m - 1) : k \in 1..m
        OBVIOUS
      <4>q. QED BY <3>1, <4>1, <4>2
    <3>4. c[m] \notin T
      <4>1. \A j \in 1..(m - 1) : j \in 1..m /\ c[j] < c[m] /\ c[j] \in Int /\ c[m] \in Int
        BY <1>1, <3>1
      <4>q. QED BY <4>1
    <3> HIDE DEF S, T
    <3>5. Cardinality(S) = Cardinality(T) + 1
      BY <3>2, <3>3, <3>4, FS_AddElement
    <3>q. QED BY <3>2, <3>5
  <2>q. QED BY <2>1, <2>2
<1>6. ASSUME NEW k \in 1..m PROVE Nth(S, k) = c[k]
  <2>1. Cardinality(Below(S, c[k])) = k - 1 /\ c[k] \in S /\ k \in 1..Cardinality(S)
    BY <1>2, <1>3, <1>5
  <2> HIDE DEF S
  <2>q. QED BY <1>4, <2>1, NthIs
<1>q. QED BY <1>5, <1>6

(* Where each part ends in the whole. *)
Blocks(s, W, e) ==
  /\ e \in [0..Len(W) -> Nat] /\ e[0] = 0 /\ e[Len(W)] = Len(s)
  /\ \A i \in 1..Len(W) : /\ e[i] = e[i - 1] + Len(W[i])
                          /\ e[i] <= Len(s)
                          /\ \A q \in 1..Len(W[i]) : s[e[i - 1] + q] = W[i][q]

(* What is joined consists of its parts, one behind the other. *)
LEMMA JoinedBlocks ==
  ASSUME NEW C, NEW P \in Seq(Seq(C)), Len(P) # 0
  PROVE  FlattenSeq(P) \in Seq(C) /\ \E e : Blocks(FlattenSeq(P), P, e)
<1> DEFINE n == Len(P)
           s == FlattenSeq(P)
<1>1. n \in Nat \ {0} /\ \A i \in 1..n : P[i] \in Seq(C) /\ Len(P[i]) \in Nat
  OBVIOUS
<1>2. PICK g \in [1..n -> Seq(C)] : Flattens(g, P) /\ s = g[n]
  BY FlattenExists
<1> HIDE DEF s
<1>3. \A i \in 1..n : g[i] \in Seq(C) /\ Len(g[i]) \in Nat
  <2> HIDE DEF n
  <2>1. \A i \in 1..n : g[i] \in Seq(C)
    BY <1>2
  <2>q. QED BY <2>1
<1>4. \A i \in 2..n : /\ Len(g[i]) = Len(g[i - 1]) + Len(P[i])
                      /\ \A q \in 1..Len(g[i - 1]) : g[i][q] = g[i - 1][q]
                      /\ \A q \in 1..Len(P[i]) : g[i][Len(g[i - 1]) + q] = P[i][q]
  <2> TAKE i \in 2..n
  <2>1. i \in 1..n /\ i - 1 \in 1..n /\ g[i] = g[i - 1] \o P[i]
    <3>1. \A k \in 2..n : g[k] = g[k - 1] \o P[k]
      BY <1>2 DEF Flattens
    <3>2. n \in Nat
      BY <1>1
    <3> HIDE DEF n
    <3>3. i \in 1..n /\ i - 1 \in 1..n
      BY <3>2
    <3>q. QED BY <3>1, <3>3
  <2> DEFINE x == g[i - 1]
             y == P[i]
  <2>2. x \in Seq(C) /\ y \in Seq(C) /\ Len(x) \in Nat /\ Len(y) \in Nat
    BY <1>1, <1>3, <2>1
  <2> HIDE DEF x, y
  <2>3. /\ Len(x \o y) = Len(x) + Len(y)
        /\ \A q \in 1..(Len(x) + Len(y)) : (x \o y)[q] = IF q <= Len(x) THEN x[q] ELSE y[q - Len(x)]
    BY ONLY <2>2, ConcatProperties, Zenon
  <2>4. \A q \in 1..Len(x) : (x \o y)[q] = x[q]
    BY <2>2, <2>3
  <2>5. \A q \in 1..Len(y) : (x \o y)[Len(x) + q] = y[q]
    <3> TAKE q \in 1..Len(y)
    <3>1. Len(x) + q \in 1..(Len(x) + Len(y)) /\ ~(Len(x) + q <= Len(x)) /\ (Len(x) + q) - Len(x) = q
      BY <2>2
    <3>q. QED BY <2>3, <3>1
  <2>q. QED BY <2>1, <2>3, <2>4, <2>5 DEF x, y
<1>5. \A i \in 1..n : Len(g[i]) <= Len(s) /\ \A q \in 1..Len(g[i]) : g[i][q] = s[q]
  <2> DEFINE Beginning(i) == Len(g[i]) <= Len(s) /\ \A q \in 1..Len(g[i]) : g[i][q] = s[q]
             D == {i \in 1..n : ~Beginning(i)}
  <2> SUFFICES ASSUME D # {} PROVE FALSE
    OBVIOUS
  <2>1. PICK i \in D : \A d \in D : d <= i
    <3>1. D \in SUBSET (-1..n) /\ n \in Nat
      <4> HIDE DEF Beginning
      <4>q. QED BY <1>1
    <3> HIDE DEF D
    <3>q. QED BY <3>1, Greatest
  <2>2. i # n
    <3>1. Beginning(n)
      BY <1>1, <1>2, <1>3
    <3> HIDE DEF Beginning
    <3>q. QED BY <2>1, <3>1
  <2>3. PICK k \in 2..n : k - 1 = i /\ k \in 1..n /\ ~(k <= i) /\ i \in 1..n
    <3>1. i + 1 \in 2..n /\ i + 1 \in 1..n /\ (i + 1) - 1 = i /\ ~(i + 1 <= i) /\ i \in 1..n
      BY <1>1, <2>1, <2>2
    <3>q. QED BY <3>1
  <2>4. Beginning(k)
    <3> HIDE DEF Beginning
    <3>q. QED BY <2>1, <2>3
  <2>5. Len(g[k]) = Len(g[i]) + Len(P[k]) /\ \A q \in 1..Len(g[i]) : g[k][q] = g[i][q]
    BY <1>4, <2>3
  <2>6. Len(g[i]) \in Nat /\ Len(P[k]) \in Nat /\ Len(s) \in Nat /\ Len(g[k]) \in Nat
    BY <1>1, <1>2, <1>3, <2>3
  <2>7. Beginning(i)
    <3>1. Len(g[k]) <= Len(s) /\ \A q \in 1..Len(g[k]) : g[k][q] = s[q]
      BY <2>4
    <3>2. Len(g[i]) <= Len(s) /\ \A q \in 1..Len(g[i]) : q \in 1..Len(g[k])
      <4>1. Len(g[i]) <= Len(g[k])
        BY <2>5, <2>6
      <4>q. QED BY ONLY <2>6, <3>1, <4>1
    <3>q. QED BY <2>5, <3>1, <3>2
  <2>q. QED BY <2>1, <2>7
<1> DEFINE e == [i \in 0..n |-> IF i = 0 THEN 0 ELSE Len(g[i])]
<1>6. e \in [0..n -> Nat] /\ e[0] = 0 /\ e[n] = Len(s)
  BY <1>1, <1>2, <1>3
<1>7. ASSUME NEW i \in 1..n
      PROVE  /\ e[i] = e[i - 1] + Len(P[i]) /\ e[i] <= Len(s)
             /\ \A q \in 1..Len(P[i]) : s[e[i - 1] + q] = P[i][q]
  <2>1. e[i] = Len(g[i]) /\ e[i] <= Len(s)
    BY <1>1, <1>5, <1>7
  <2>2. CASE i = 1
    <3>1. e[i - 1] = 0 /\ g[i] = P[i] /\ Len(P[i]) \in Nat
      BY <1>1, <1>2, <2>2 DEF Flattens
    <3>2. \A q \in 1..Len(P[i]) : 0 + q = q
      OBVIOUS
    <3> HIDE DEF e
    <3>q. QED BY <1>5, <2>1, <3>1, <3>2
  <2>3. CASE i # 1
    <3>1. i \in 2..n /\ i - 1 \in 0..n /\ i - 1 # 0 /\ i - 1 \in 1..n
      BY <1>1, <2>3
    <3>2. e[i - 1] = Len(g[i - 1])
      BY <3>1
    <3> HIDE DEF e
    <3>3. Len(g[i]) = Len(g[i - 1]) + Len(P[i]) /\ \A q \in 1..Len(P[i]) : g[i][Len(g[i - 1]) + q] = P[i][q]
      BY <1>4, <3>1
    <3>4. \A q \in 1..Len(P[i]) : Len(g[i - 1]) + q \in 1..Len(g[i])
      BY <1>1, <1>3, <3>1, <3>3
    <3>q. QED BY <1>5, <2>1, <3>2, <3>3, <3>4
  <2>q. QED BY <2>2, <2>3
<1>8. Blocks(s, P, e)
  <2> HIDE DEF e
  <2>q. QED BY <1>6, <1>7 DEF Blocks
<1>9. s \in Seq(C)
  <2>1. n \in 1..n
    BY <1>1
  <2>q. QED BY <1>2, <1>3, <2>1
<1>10. \E x : Blocks(s, P, x)
  <2> HIDE DEF e
  <2>q. QED BY <1>8
<1>q. QED BY <1>9, <1>10 DEF s

(* Of a segment, join changes nothing but what follows it. *)
LEMMA WrittenSegment ==
  ASSUME NEW segs \in Seq(Texts), NEW i \in 1..Len(segs), IsSegment(segs[i])
  PROVE  LET w == Written(segs)[i]
             L == Len(segs[i])
         IN  /\ L \in Nat /\ L >= 2 /\ \A q \in 1..L : w[q] = segs[i][q]
             /\ i < Len(segs) => Len(w) = L + 1 /\ w[L + 1] = Tilde
             /\ i = Len(segs) => Len(w) = L
<1> DEFINE x == segs[i]
           L == Len(x)
           y == SubSeq(x, 1, L - 1)
           w == Written(segs)[i]
<1>1. x \in Texts /\ L \in Nat /\ L >= 2 /\ x[L] = Tilde
  BY DEF IsSegment, Texts
<1>2. w = IF i < Len(segs) THEN strip_suffix(x) \o <<Tilde, Tilde>> ELSE x
  BY DEF Written
<1> HIDE DEF x, w
<1>3. strip_suffix(x) = y
  <2>1. x # <<>>
    BY <1>1
  <2>q. QED BY <1>1, <2>1 DEF strip_suffix, EndsWith, Last, Front
<1>4. y \in Texts /\ Len(y) = L - 1 /\ \A q \in 1..(L - 1) : y[q] = x[q]
  BY <1>1 DEF Texts
<1>5. CASE i < Len(segs)
  <2>1. w = y \o <<Tilde, Tilde>>
    BY <1>2, <1>3, <1>5
  <2> HIDE DEF y
  <2>2. Len(w) = (L - 1) + 2 /\ \A q \in 1..(L - 1) : w[q] = y[q]
    BY <1>4, <2>1, WithTildes
  <2>3. w[(L - 1) + 1] = Tilde /\ w[(L - 1) + 2] = Tilde
    BY <1>4, <2>1, WithTildes
  <2>4. (L - 1) + 1 = L /\ (L - 1) + 2 = L + 1 /\ \A q \in 1..L : q = L \/ q \in 1..(L - 1)
    BY <1>1
  <2>q. QED BY <1>1, <1>4, <1>5, <2>2, <2>3, <2>4 DEF x, w
<1>6. CASE ~(i < Len(segs))
  <2>1. w = x
    BY <1>2, <1>6
  <2>q. QED BY <1>1, <1>6, <2>1 DEF x, w
<1>q. QED BY <1>5, <1>6

(* Where each segment ends in the joined text, with the "~" that join adds *)
(* to all but the last.                                                    *)
Marks(segs, s, e) ==
  LET n == Len(segs)
  IN  /\ e \in [0..n -> Nat] /\ e[0] = 0 /\ e[n] = Len(s)
      /\ \A i \in 1..n : /\ e[i] = e[i - 1] + Len(segs[i]) + (IF i = n THEN 0 ELSE 1)
                         /\ e[i] <= Len(s)
                         /\ \A q \in 1..Len(segs[i]) : s[e[i - 1] + q] = segs[i][q]
                         /\ i # n => s[e[i]] = Tilde

(* A text that was joined of segments has such places. *)
LEMMA JoinedSegments ==
  ASSUME NEW segs \in Seq(Texts), Len(segs) # 0, \A i \in 1..Len(segs) : IsSegment(segs[i])
  PROVE  join(segs) \in Texts /\ \E e : Marks(segs, join(segs), e)
<1> DEFINE n == Len(segs)
           s == join(segs)
           W == Written(segs)
<1>1. W \in Seq(Texts) /\ Len(W) = n /\ s = FlattenSeq(W) /\ n \in Nat \ {0}
  BY WrittenIsText
<1> HIDE DEF W, s
<1>2. s \in Texts /\ \E e : Blocks(s, W, e)
  <2>1. W \in Seq(Seq({Tilde, "j"})) /\ Len(W) # 0
    BY <1>1 DEF Texts
  <2>2. FlattenSeq(W) \in Seq({Tilde, "j"}) /\ \E e : Blocks(FlattenSeq(W), W, e)
    BY <2>1, JoinedBlocks
  <2>q. QED BY <1>1, <2>2 DEF Texts
<1>3. PICK e : Blocks(s, W, e)
  BY <1>2
<1>4. /\ e \in [0..n -> Nat] /\ e[0] = 0 /\ e[n] = Len(s)
      /\ \A i \in 1..n : /\ e[i] = e[i - 1] + Len(W[i]) /\ e[i] <= Len(s)
                         /\ \A q \in 1..Len(W[i]) : s[e[i - 1] + q] = W[i][q]
  BY <1>1, <1>3 DEF Blocks
<1>5. ASSUME NEW i \in 1..n
      PROVE  /\ e[i] = e[i - 1] + Len(segs[i]) + (IF i = n THEN 0 ELSE 1)
             /\ e[i] <= Len(s)
             /\ \A q \in 1..Len(segs[i]) : s[e[i - 1] + q] = segs[i][q]
             /\ i # n => s[e[i]] = Tilde
  <2> DEFINE L == Len(segs[i])
             w == W[i]
             a == e[i - 1]
  <2>1. /\ L \in Nat /\ L >= 2 /\ \A q \in 1..L : w[q] = segs[i][q]
        /\ i < n => Len(w) = L + 1 /\ w[L + 1] = Tilde
        /\ i = n => Len(w) = L
    BY WrittenSegment DEF W
  <2>2. a \in Nat
    <3>1. i - 1 \in 0..n
      BY <1>1
    <3>q. QED BY <1>4, <3>1
  <2>3. e[i] = a + Len(w) /\ e[i] <= Len(s) /\ \A q \in 1..Len(w) : s[a + q] = w[q]
    BY <1>4
  <2> HIDE DEF L, w, a
  <2>4. CASE i = n
    BY <2>1, <2>2, <2>3, <2>4 DEF L, a
  <2>5. CASE i # n
    <3>1. i < n
      BY <1>1, <2>5
    <3>2. e[i] = a + (L + 1) /\ L + 1 \in 1..Len(w) /\ \A q \in 1..L : q \in 1..Len(w)
      BY <2>1, <2>3, <3>1
    <3>3. a + (L + 1) = a + L + 1
      BY <2>1, <2>2
    <3>q. QED BY <2>1, <2>3, <2>5, <3>1, <3>2, <3>3 DEF L, a
  <2>q. QED BY <2>4, <2>5
<1>6. Marks(segs, s, e)
  BY <1>4, <1>5 DEF Marks
<1>q. QED BY <1>2, <1>6 DEF s

(* The separators of a joined text are the places where it was joined. *)
LEMMA JoinedSeparators ==
  ASSUME NEW segs \in Seq(Texts), Len(segs) # 0, \A i \in 1..Len(segs) : IsSegment(segs[i]),
         NEW s \in Texts, NEW e, Marks(segs, s, e)
  PROVE  Separators(s) = {e[i] - 1 : i \in 1..(Len(segs) - 1)}
<1> DEFINE n == Len(segs)
<1>0. /\ n \in Nat /\ n # 0 /\ e \in [0..n -> Nat] /\ e[0] = 0 /\ e[n] = Len(s)
      /\ \A i \in 1..n : /\ IsSegment(segs[i])
                         /\ e[i] = e[i - 1] + Len(segs[i]) + (IF i = n THEN 0 ELSE 1)
                         /\ e[i] <= Len(s)
                         /\ \A q \in 1..Len(segs[i]) : s[e[i - 1] + q] = segs[i][q]
                         /\ i # n => s[e[i]] = Tilde
  <2>1. n \in Nat /\ n # 0 /\ \A i \in 1..n : IsSegment(segs[i])
    OBVIOUS
  <2>2. /\ e \in [0..n -> Nat] /\ e[0] = 0 /\ e[n] = Len(s)
        /\ \A i \in 1..n : /\ e[i] = e[i - 1] + Len(segs[i]) + (IF i = n THEN 0 ELSE 1)
                           /\ e[i] <= Len(s)
                           /\ \A q \in 1..Len(segs[i]) : s[e[i - 1] + q] = segs[i][q]
                           /\ i # n => s[e[i]] = Tilde
    BY DEF Marks
  <2> HIDE DEF n
  <2>q. QED BY <2>1, <2>2
<1> HIDE DEF n
<1>1. \A i \in 1..n : /\ Len(segs[i]) \in Nat /\ Len(segs[i]) >= 2
                      /\ segs[i][Len(segs[i])] = Tilde /\ segs[i][1] # Tilde
                      /\ \A q \in 1..(Len(segs[i]) - 1) : segs[i][q] # Tilde \/ segs[i][q + 1] # Tilde
  BY <1>0 DEF IsSegment, Texts
<1>2. Len(s) \in Nat /\ \A i \in 1..n : i - 1 \in 0..n /\ e[i - 1] \in Nat /\ e[i] \in Nat
  <2>1. Len(s) \in Nat
    BY DEF Texts
  <2>2. \A i \in 1..n : i - 1 \in 0..n /\ i \in 0..n
    BY <1>0
  <2>q. QED BY <1>0, <2>1, <2>2
<1>3. ASSUME NEW i \in 1..(n - 1) PROVE e[i] - 1 \in Separators(s)
  <2> DEFINE L == Len(segs[i])
             a == e[i - 1]
             p == e[i] - 1
  <2>1. i \in 1..n /\ i # n /\ n \in 1..n
    BY <1>0
  <2>2. /\ L \in Nat /\ L >= 2 /\ a \in Nat /\ e[i] \in Nat /\ e[i] = a + L + 1 /\ e[i] <= Len(s)
        /\ \A q \in 1..L : s[a + q] = segs[i][q]
        /\ s[e[i]] = Tilde
    BY <1>0, <1>1, <1>2, <2>1
  <2>3. segs[i][L] = Tilde /\ segs[i][L - 1] # Tilde
    <3>1. segs[i][L] = Tilde /\ \A q \in 1..(L - 1) : segs[i][q] # Tilde \/ segs[i][q + 1] # Tilde
      BY <1>1, <2>1
    <3> HIDE DEF L
    <3>2. L - 1 \in 1..(L - 1) /\ (L - 1) + 1 = L
      BY <2>2
    <3>q. QED BY <3>1, <3>2
  <2> HIDE DEF L, a
  <2>4. p = a + L /\ p - 1 = a + (L - 1) /\ p + 1 = e[i] /\ p \in 1..(Len(s) - 1) /\ p \in Nat
    BY <1>2, <2>2
  <2> HIDE DEF p
  <2>5. s[p] = Tilde /\ s[p + 1] = Tilde /\ s[p - 1] # Tilde
    <3>1. L \in 1..L /\ L - 1 \in 1..L
      BY <2>2
    <3>q. QED BY <2>2, <2>3, <2>4, <3>1
  <2>6. p \in Tildes(s)
    BY <2>4, <2>5 DEF Tildes
  <2>7. p \in 1..p /\ (p - p) % 2 = 0 /\ \A k \in p..p : s[k] = Tilde
    BY <2>4, <2>5
  <2>q. QED BY <2>5, <2>6, <2>7 DEF Separators, p
<1>4. ASSUME NEW p \in Tildes(s) PROVE \E i \in 1..(n - 1) : p = e[i] - 1
  <2>1. p \in 1..(Len(s) - 1) /\ s[p] = Tilde /\ s[p + 1] = Tilde /\ p \in Nat
    BY <1>2 DEF Tildes
  <2> DEFINE D == {i \in 1..n : p <= e[i]}
  <2>2. PICK i \in D : \A d \in D : i <= d
    <3>1. D \in SUBSET Nat
      OBVIOUS
    <3>2. n \in D
      BY <1>0, <1>2, <2>1
    <3> HIDE DEF D
    <3>q. QED BY <3>1, <3>2, LeastNatural
  <2> DEFINE L == Len(segs[i])
             a == e[i - 1]
             q == p - a
  <2>3. /\ i \in 1..n /\ p <= e[i] /\ a \in Nat /\ e[i] \in Nat
        /\ L \in Nat /\ L >= 2 /\ e[i] = a + L + (IF i = n THEN 0 ELSE 1)
        /\ \A k \in 1..L : s[a + k] = segs[i][k]
        /\ \A k \in 1..(L - 1) : segs[i][k] # Tilde \/ segs[i][k + 1] # Tilde
    BY <1>0, <1>1, <1>2, <2>2
  <2> HIDE DEF L, a
  <2>4. a < p
    <3>1. CASE i = 1
      BY <1>0, <2>1, <3>1 DEF a
    <3>2. CASE i # 1
      <4>1. i - 1 \in 1..n /\ ~(i <= i - 1)
        BY <1>0, <2>3, <3>2
      <4>2. ~(p <= a)
        BY <2>2, <4>1 DEF a
      <4>q. QED BY <2>1, <2>3, <4>2
    <3>q. QED BY <3>1, <3>2
  <2>5. q \in Nat /\ q >= 1 /\ p = a + q /\ p + 1 = a + (q + 1)
    BY <2>1, <2>3, <2>4
  <2>6. q < L \/ q = L \/ (i # n /\ q = L + 1)
    BY <2>1, <2>3, <2>5
  <2> HIDE DEF q
  <2>7. CASE q < L
    <3>1. q \in 1..L /\ q + 1 \in 1..L /\ q \in 1..(L - 1)
      BY <2>3, <2>5, <2>7
    <3>2. s[a + q] = segs[i][q] /\ s[a + (q + 1)] = segs[i][q + 1]
      BY <2>3, <3>1
    <3>3. segs[i][q] # Tilde \/ segs[i][q + 1] # Tilde
      BY <2>3, <3>1
    <3>q. QED BY <2>1, <2>5, <3>2, <3>3
  <2>8. CASE q = L
    <3>1. i # n
      BY <1>0, <1>2, <2>1, <2>3, <2>5, <2>8
    <3>2. i \in 1..(n - 1) /\ p = e[i] - 1
      BY <1>0, <2>3, <2>5, <2>8, <3>1
    <3>q. QED BY <3>2
  <2>9. CASE i # n /\ q = L + 1
    <3>1. PICK k \in 1..n : k - 1 = i
      <4>1. i + 1 \in 1..n /\ (i + 1) - 1 = i
        BY <1>0, <2>3, <2>9
      <4>q. QED BY <4>1
    <3>2. p = e[i]
      BY <2>3, <2>5, <2>9
    <3>3. s[e[i] + 1] = segs[k][1]
      <4>1. 1 \in 1..Len(segs[k])
        BY <1>1
      <4>q. QED BY <1>0, <3>1, <4>1
    <3>4. segs[k][1] # Tilde
      BY <1>1
    <3>q. QED BY <2>1, <3>2, <3>3, <3>4
  <2>q. QED BY <2>6, <2>7, <2>8, <2>9
<1>5. Separators(s) \subseteq Tildes(s)
  BY DEF Separators
<1>q. QED BY <1>3, <1>4, <1>5 DEF n

(* A segment that does not begin with "~" has a JWT. *)
LEMMA FirstIsJwt ==
  ASSUME NEW seg \in Texts, seg # <<>>, seg[1] # Tilde
  PROVE  Jwt(seg) # <<>>
<1> DEFINE stops == {i \in DOMAIN seg : seg[i] = Tilde}
<1>1. DOMAIN seg = 1..Len(seg) /\ Len(seg) \in Nat
  BY DEF Texts
<1>2. CASE stops = {}
  BY <1>2 DEF Jwt
<1>3. CASE stops # {}
  <2>1. stops \in SUBSET Nat /\ \A i \in stops : i \in 2..Len(seg)
    <3>1. \A i \in stops : i \in 1..Len(seg) /\ i # 1
      BY <1>1
    <3>q. QED BY <1>1, <3>1
  <2>2. PICK p \in stops : \A y \in stops : p <= y
    <3> HIDE DEF stops
    <3>q. QED BY <1>3, <2>1, LeastNatural
  <2>3. Min(stops) = p /\ p \in 2..Len(seg)
    <3> HIDE DEF stops
    <3>q. QED BY <2>1, <2>2, ExtremesAre
  <2>4. Jwt(seg) = SubSeq(seg, 1, p - 1)
    BY <1>3, <2>3 DEF Jwt
  <2>5. Len(SubSeq(seg, 1, p - 1)) = p - 1 /\ p - 1 # 0
    BY <1>1, <2>3 DEF Texts
  <2>6. Len(<<>>) = 0
    OBVIOUS
  <2>q. QED BY <2>4, <2>5, <2>6
<1>q. QED BY <1>2, <1>3

(* Two texts of the same characters are the same. *)
LEMMA SameText ==
  ASSUME NEW x \in Texts, NEW y \in Texts, NEW L \in Nat, Len(x) = L, Len(y) = L,
         \A q \in 1..L : y[q] = x[q]
  PROVE  y = x
BY DEF Texts

(* A part of a text. *)
LEMMA PartOf ==
  ASSUME NEW s \in Texts, NEW a \in Nat, NEW L \in Nat, a + L <= Len(s)
  PROVE  LET y == SubSeq(s, a + 1, a + L)
         IN  y \in Texts /\ Len(y) = L /\ \A q \in 1..L : y[q] = s[a + q]
<1>1. Len(s) \in Nat
  BY DEF Texts
<1>2. \A i \in (a + 1)..(a + L) : i \in 1..Len(s)
  BY <1>1
<1>3. (a + L) - (a + 1) + 1 = L /\ \A q \in 1..L : (a + 1) + q - 1 = a + q
  OBVIOUS
<1>q. QED BY <1>1, <1>2, <1>3 DEF Texts

(* Split gives back the segments that were joined. *)
LEMMA JoinedIsSplit ==
  ASSUME NEW segs \in Seq(Texts), Len(segs) \in 2..MAX_TEXT_HOPS,
         \A i \in 1..Len(segs) : IsSegment(segs[i]),
         Len(join(segs)) <= MAX_TEXT_BYTES
  PROVE  split_text(join(segs)) = [ok |-> TRUE, canonical |-> segs]
<1> DEFINE n == Len(segs)
           s == join(segs)
           raw == SplitTildes(s)
           N == Len(s) + 1
<1>1. n \in Nat /\ n >= 2 /\ n <= MAX_TEXT_HOPS /\ s \in Texts /\ Len(s) <= MAX_TEXT_BYTES
  <2>1. MAX_TEXT_HOPS \in Nat
    BY ChainTextAssumption
  <2>q. QED BY <2>1, JoinIsText
<1>2. PICK e : Marks(segs, s, e)
  <2>1. Len(segs) # 0
    BY <1>1
  <2>q. QED BY <2>1, JoinedSegments
<1>20. /\ e \in [0..n -> Nat] /\ e[0] = 0 /\ e[n] = Len(s)
       /\ \A i \in 1..n : /\ e[i] = e[i - 1] + Len(segs[i]) + (IF i = n THEN 0 ELSE 1)
                          /\ e[i] <= Len(s)
                          /\ \A q \in 1..Len(segs[i]) : s[e[i - 1] + q] = segs[i][q]
                          /\ i # n => s[e[i]] = Tilde
  <2> HIDE DEF s
  <2>q. QED BY <1>2 DEF Marks
<1>3. /\ segs = [i \in 1..n |-> segs[i]]
      /\ \A i \in 1..n : /\ IsSegment(segs[i]) /\ segs[i] \in Texts
                         /\ Len(segs[i]) \in Nat /\ Len(segs[i]) >= 2
                         /\ segs[i][Len(segs[i])] = Tilde /\ segs[i][1] # Tilde
  BY DEF IsSegment, Texts
<1> HIDE DEF s
<1>4. Separators(s) = {e[i] - 1 : i \in 1..(n - 1)}
  <2>1. s \in Texts /\ Len(segs) # 0
    BY <1>1
  <2>q. QED BY <1>2, <2>1, JoinedSeparators
<1> HIDE DEF n
<1>5. Len(s) \in Nat /\ N \in Nat /\ \A i \in 0..n : e[i] \in Nat
  <2>1. Len(s) \in Nat
    BY <1>1 DEF Texts
  <2>q. QED BY <1>20, <2>1
<1>6. \A i \in 1..n : /\ i \in 0..n /\ i - 1 \in 0..n /\ e[i] \in Nat /\ e[i - 1] \in Nat
                      /\ e[i - 1] + 2 <= e[i] /\ e[i] <= Len(s)
  <2> TAKE i \in 1..n
  <2>1. i \in 0..n /\ i - 1 \in 0..n
    BY <1>1
  <2>2. e[i] = e[i - 1] + Len(segs[i]) + (IF i = n THEN 0 ELSE 1) /\ e[i] <= Len(s)
    BY <1>20
  <2>3. e[i] \in Nat /\ e[i - 1] \in Nat
    BY <1>5, <2>1
  <2>4. Len(segs[i]) \in Nat /\ Len(segs[i]) >= 2
    BY <1>3
  <2>5. e[i - 1] + 2 <= e[i]
    BY <2>2, <2>3, <2>4
  <2>q. QED BY <2>1, <2>2, <2>3, <2>5
<1> DEFINE c == [k \in 1..(n + 1) |-> IF k = n + 1 THEN N ELSE e[k - 1] - 1]
<1>7. c \in [1..(n + 1) -> -1..N]
  <2> SUFFICES ASSUME NEW k \in 1..(n + 1)
               PROVE  (IF k = n + 1 THEN N ELSE e[k - 1] - 1) \in -1..N
    OBVIOUS
  <2>1. CASE k = n + 1
    BY <1>5, <2>1
  <2>2. CASE k # n + 1
    <3>1. k \in 1..n
      BY <1>1, <2>2
    <3>2. e[k - 1] \in Nat /\ e[k - 1] <= Len(s)
      BY <1>5, <1>6, <3>1
    <3>q. QED BY <1>5, <2>2, <3>2
  <2>q. QED BY <2>1, <2>2
<1>8. \A k \in 1..n : /\ k \in 1..(n + 1) /\ k + 1 \in 1..(n + 1)
                      /\ c[k] = e[k - 1] - 1
                      /\ c[k + 1] = IF k = n THEN N ELSE e[k] - 1
                      /\ c[k] < c[k + 1]
  <2> TAKE k \in 1..n
  <2>1. k \in 1..(n + 1) /\ k + 1 \in 1..(n + 1) /\ k # n + 1 /\ (k + 1) - 1 = k /\ (k + 1 = n + 1 <=> k = n)
    BY <1>1
  <2>2. c[k] = e[k - 1] - 1 /\ c[k + 1] = IF k = n THEN N ELSE e[k] - 1
    BY <2>1
  <2>3. /\ e[k] \in Nat /\ e[k - 1] \in Nat
        /\ e[k - 1] + 2 <= e[k] /\ e[k] <= Len(s)
    BY <1>6
  <2>4. c[k] < c[k + 1]
    <3>1. e[k - 1] - 1 < e[k] - 1 /\ e[k - 1] - 1 < N
      BY <1>5, <2>3
    <3>q. QED BY <2>2, <3>1
  <2>q. QED BY <2>1, <2>2, <2>4
<1>9. Cuts(s) = {c[k] : k \in 1..(n + 1)}
  <2>1. ASSUME NEW z \in Cuts(s) PROVE \E k \in 1..(n + 1) : z = c[k]
    <3>1. CASE z = -1
      <4>1. 1 \in 1..n /\ 1 \in 1..(n + 1) /\ 1 - 1 = 0
        BY <1>1
      <4>2. c[1] = 0 - 1
        BY <1>20, <1>8, <4>1
      <4>q. QED BY <3>1, <4>1, <4>2
    <3>2. CASE z = Len(s) + 1
      <4>1. n + 1 \in 1..(n + 1)
        BY <1>1
      <4>q. QED BY <3>2, <4>1
    <3>3. CASE z \in Separators(s)
      <4>1. PICK i \in 1..(n - 1) : z = e[i] - 1
        BY <1>4, <3>3
      <4>2. i \in 1..n /\ i # n
        BY <1>1
      <4>3. c[i + 1] = e[i] - 1 /\ i + 1 \in 1..(n + 1)
        BY <1>8, <4>2
      <4>q. QED BY <4>1, <4>3
    <3>q. QED BY <2>1, <3>1, <3>2, <3>3 DEF Cuts
  <2>2. ASSUME NEW k \in 1..(n + 1) PROVE c[k] \in Cuts(s)
    <3>1. CASE k = n + 1
      BY <3>1 DEF Cuts
    <3>2. CASE k = 1
      <4>1. 1 \in 1..n /\ 1 - 1 = 0
        BY <1>1
      <4>2. c[1] = 0 - 1
        BY <1>20, <1>8, <4>1
      <4>q. QED BY <3>2, <4>2 DEF Cuts
    <3>3. CASE k # 1 /\ k # n + 1
      <4>1. k - 1 \in 1..(n - 1) /\ k \in 1..n
        BY <1>1, <3>3
      <4>2. c[k] = e[k - 1] - 1
        BY <1>8, <4>1
      <4>3. c[k] \in Separators(s)
        BY <1>4, <4>1, <4>2
      <4>q. QED BY <4>3 DEF Cuts
    <3>q. QED BY <3>1, <3>2, <3>3
  <2> HIDE DEF c
  <2>q. QED BY <2>1, <2>2
<1> HIDE DEF c, N
<1>10. Cardinality(Cuts(s)) = n + 1 /\ \A k \in 1..(n + 1) : Cut(s, k) = c[k]
  <2> DEFINE m == n + 1
  <2>1. m \in Nat /\ c \in [1..m -> -1..N] /\ Cuts(s) = {c[k] : k \in 1..m}
    BY <1>1, <1>7, <1>9
  <2>2. \A k \in 1..m : k + 1 \in 1..m => c[k] < c[k + 1]
    <3>1. \A k \in 1..m : k + 1 \in 1..m => k \in 1..n
      BY <1>1
    <3>q. QED BY <1>8, <3>1
  <2> HIDE DEF m
  <2>3. /\ Cardinality({c[k] : k \in 1..m}) = m
        /\ \A k \in 1..m : Nth({c[j] : j \in 1..m}, k) = c[k]
    BY <1>5, <2>1, <2>2, EnumeratedPlaces, Zenon
  <2>q. QED BY <2>1, <2>3 DEF Cut, m
<1>11. raw = [k \in 1..n |-> SubSeq(s, Cut(s, k) + 2, Cut(s, k + 1) - 1)]
  <2>1. Pieces(s) = n
    BY <1>1, <1>10 DEF Pieces
  <2>q. QED BY <1>1, <2>1, CutsInOrder
<1> HIDE DEF raw
<1>12. Len(raw) = n /\ DOMAIN raw = 1..n
  BY <1>1, <1>11
<1>13. \A k \in 1..n : k # n => raw[k] = SubSeq(segs[k], 1, Len(segs[k]) - 1)
  <2> TAKE k \in 1..n
  <2> SUFFICES ASSUME k # n PROVE raw[k] = SubSeq(segs[k], 1, Len(segs[k]) - 1)
    OBVIOUS
  <2> DEFINE a == e[k - 1]
             x == segs[k]
             L == Len(x) - 1
  <2>1. x \in Texts /\ L \in Nat /\ L >= 1 /\ Len(x) = L + 1 /\ a \in Nat /\ e[k] \in Nat
    BY <1>3, <1>6
  <2>2. e[k] = a + (L + 1) + 1 /\ e[k] <= Len(s) /\ \A q \in 1..(L + 1) : s[a + q] = x[q]
    BY <1>20, <2>1
  <2>3. raw[k] = SubSeq(s, (a - 1) + 2, (e[k] - 1) - 1)
    <3>1. Cut(s, k) = a - 1 /\ Cut(s, k + 1) = e[k] - 1
      BY <1>8, <1>10
    <3>q. QED BY <1>11, <3>1
  <2> HIDE DEF a, x, L
  <2>4. (a - 1) + 2 = a + 1 /\ (e[k] - 1) - 1 = a + L
    BY <2>1, <2>2
  <2>5. SubSeq(s, a + 1, a + L) = SubSeq(x, 1, L)
    <3>1. Len(s) \in Nat /\ a + L <= Len(s)
      BY <1>5, <2>1, <2>2
    <3>2. /\ SubSeq(s, a + 1, a + L) \in Texts /\ Len(SubSeq(s, a + 1, a + L)) = L
          /\ \A q \in 1..L : SubSeq(s, a + 1, a + L)[q] = s[a + q]
      BY <1>1, <2>1, <3>1, PartOf
    <3>3. /\ SubSeq(x, 1, L) \in Texts /\ Len(SubSeq(x, 1, L)) = L
          /\ \A q \in 1..L : SubSeq(x, 1, L)[q] = x[q]
      BY <2>1 DEF Texts
    <3>4. \A q \in 1..L : q \in 1..(L + 1)
      BY <2>1
    <3> DEFINE y == SubSeq(s, a + 1, a + L)
               z == SubSeq(x, 1, L)
    <3> HIDE DEF y, z
    <3>5. y \in Texts /\ z \in Texts /\ Len(y) = L /\ Len(z) = L /\ \A q \in 1..L : y[q] = z[q]
      BY <2>2, <3>2, <3>3, <3>4 DEF y, z
    <3>6. y = z
      BY <2>1, <3>5 DEF Texts
    <3>q. QED BY <3>6 DEF y, z
  <2>q. QED BY <2>3, <2>4, <2>5 DEF x, L
<1>14. raw[n] = segs[n]
  <2> DEFINE a == e[n - 1]
             x == segs[n]
             L == Len(x)
  <2>1. n \in 1..n /\ n - 1 \in 0..n
    BY <1>1
  <2>2. x \in Texts /\ L = Len(x) /\ L \in Nat /\ L >= 2 /\ a \in Nat
    BY <1>3, <1>6, <2>1
  <2>3. e[n] = a + L /\ \A q \in 1..L : s[a + q] = x[q]
    <3>1. e[n] = e[n - 1] + Len(segs[n]) + 0 /\ \A q \in 1..Len(segs[n]) : s[e[n - 1] + q] = segs[n][q]
      BY <1>20, <2>1
    <3>q. QED BY <2>2, <3>1
  <2>4. raw[n] = SubSeq(s, (a - 1) + 2, (Len(s) + 1) - 1)
    <3>1. Cut(s, n) = a - 1 /\ Cut(s, n + 1) = Len(s) + 1
      BY <1>8, <1>10, <2>1 DEF N
    <3>q. QED BY <1>11, <2>1, <3>1
  <2> HIDE DEF a, x, L
  <2>5. (a - 1) + 2 = a + 1 /\ (Len(s) + 1) - 1 = a + L /\ Len(s) = a + L
    BY <1>20, <1>5, <2>2, <2>3
  <2>6. SubSeq(s, a + 1, a + L) = x
    <3> DEFINE y == SubSeq(s, a + 1, a + L)
    <3>1. y \in Texts /\ Len(y) = L /\ \A q \in 1..L : y[q] = s[a + q]
      <4>1. s \in Texts /\ a \in Nat /\ L \in Nat /\ a + L <= Len(s)
        BY <1>1, <1>5, <2>2, <2>5
      <4>q. QED BY <4>1, PartOf
    <3> HIDE DEF y
    <3>2. \A q \in 1..L : y[q] = x[q]
      BY <2>3, <3>1
    <3>3. y = x
      BY <2>2, <3>1, <3>2, SameText
    <3>q. QED BY <3>3 DEF y
  <2>q. QED BY <2>4, <2>5, <2>6 DEF x
<1>15. \A k \in 1..n : Jwt(raw[k]) # <<>>
  <2> TAKE k \in 1..n
  <2>1. CASE k = n
    <3> DEFINE x == segs[n]
    <3>1. raw[k] = x /\ x \in Texts /\ Len(x) >= 2 /\ x[1] # Tilde
      BY <1>3, <1>14, <2>1
    <3> HIDE DEF x
    <3>2. x # <<>>
      BY <3>1
    <3>q. QED BY <3>1, <3>2, FirstIsJwt
  <2>2. CASE k # n
    <3> DEFINE x == segs[k]
               y == SubSeq(x, 1, Len(x) - 1)
    <3>1. raw[k] = y /\ x \in Texts /\ Len(x) \in Nat /\ Len(x) >= 2 /\ x[1] # Tilde
      BY <1>3, <1>13, <2>2
    <3> HIDE DEF x
    <3>2. y \in Texts /\ Len(y) = Len(x) - 1 /\ y[1] = x[1]
      BY <3>1 DEF Texts
    <3> HIDE DEF y
    <3>3. y # <<>>
      BY <3>1, <3>2
    <3>q. QED BY <3>1, <3>2, <3>3, FirstIsJwt
  <2>q. QED BY <2>1, <2>2
<1>16. [k \in DOMAIN raw |-> IF k = Len(raw) THEN raw[k] ELSE Append(raw[k], Tilde)] = segs
  <2>1. ASSUME NEW k \in 1..n PROVE (IF k = n THEN raw[k] ELSE Append(raw[k], Tilde)) = segs[k]
    <3>1. CASE k = n
      BY <1>14, <3>1
    <3>2. CASE k # n
      <4> DEFINE x == segs[k]
                 L == Len(x) - 1
      <4>1. raw[k] = SubSeq(x, 1, L) /\ x \in Texts /\ L \in Nat /\ Len(x) = L + 1 /\ x[L + 1] = Tilde
        BY <1>3, <1>13, <3>2
      <4> HIDE DEF x, L
      <4>2. Append(SubSeq(x, 1, L), Tilde) = x
        BY <4>1 DEF Texts
      <4>q. QED BY <3>2, <4>1, <4>2 DEF x
    <3>q. QED BY <3>1, <3>2
  <2>2. segs = [k \in 1..n |-> segs[k]]
    BY <1>3
  <2>q. QED BY <1>12, <2>1, <2>2
<1>17. EndsWith(Last(raw))
  <2> DEFINE x == segs[n]
  <2>1. Last(raw) = x /\ Len(x) \in Nat /\ Len(x) >= 2 /\ x[Len(x)] = Tilde
    <3>1. n \in 1..n
      BY <1>1
    <3>q. QED BY <1>3, <1>12, <1>14, <3>1 DEF Last
  <2> HIDE DEF x
  <2>2. x # <<>>
    BY <2>1
  <2>q. QED BY <2>1, <2>2 DEF EndsWith, Last
<1>18. split_text(s) = [ok |-> TRUE, canonical |-> segs]
  <2>1. ~(Len(s) > MAX_TEXT_BYTES) /\ ~(n > MAX_TEXT_HOPS) /\ ~(n < 2)
    <3>1. MAX_TEXT_BYTES \in Nat /\ MAX_TEXT_HOPS \in Nat
      BY ChainTextAssumption
    <3>q. QED BY <1>1, <1>5, <3>1
  <2>q. QED BY <1>12, <1>15, <1>16, <1>17, <2>1 DEF split_text, raw
<1>q. QED BY <1>18 DEF s

---------------------------------------------------------------------------
(* The verifier gets back exactly the segments the agents signed           *)
(* (join, split).                                                          *)
THEOREM SplitInvertsJoinHolds == TextSpec => []SplitInvertsJoin
<1>1. TextInv => SplitInvertsJoin
  <2> SUFFICES ASSUME TextInv, Len(segments) \in 2..MAX_TEXT_HOPS, Len(chain) <= MAX_TEXT_BYTES
               PROVE  split_text(chain) = [ok |-> TRUE, canonical |-> segments]
    BY DEF SplitInvertsJoin
  <2>1. segments # <<>>
    BY DEF TextInv
  <2>2. segments \in Seq(Texts) /\ chain = join(segments) /\ \A i \in 1..Len(segments) : IsSegment(segments[i])
    BY <2>1 DEF TextInv
  <2>q. QED BY <2>2, JoinedIsSplit
<1>q. QED BY <1>1, TextInvariant, PTL

(* A text the verifier accepts is the only text with these segments.       *)
THEOREM JoinInvertsSplitHolds == TextSpec => []JoinInvertsSplit
<1>1. TextInv => JoinInvertsSplit
  BY SplitIsJoined DEF TextInv, JoinInvertsSplit
<1>q. QED BY <1>1, TextInvariant, PTL

(* If the verifier can split a text, whoever wrote it, the receipt refers  *)
(* to the root and to the closing hop that were verified (for_chain).      *)
THEOREM ReceiptNamesHold == TextSpec => []ReceiptNamesVerifiedHops
<1>1. TextInv => ReceiptNamesVerifiedHops
  BY NamesVerifiedHops DEF TextInv
<1>q. QED BY <1>1, TextInvariant, PTL
=============================================================================
