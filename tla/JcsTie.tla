------------------------------- MODULE JcsTie -------------------------------
(***************************************************************************)
(* The shortest digits of a double: even_on_tie and increment of           *)
(* crates/a2a-gov-card/src/jcs.rs, over a small binary format.  Numbers    *)
(* are counted in units of 10^-Places, in which every double of the format *)
(* and every decimal considered is a whole number.                         *)
(***************************************************************************)
EXTENDS Integers, Sequences, FiniteSets

CONSTANTS
  Precision,    \* bits of a significand (53)
  Places,       \* decimal places: the exponents begin at -Places
  MaxExp        \* bound on the exponent

VARIABLES
  x,       \* a double, or 0 before one is formatted
  chosen,  \* the shortest digits the formatter chose: <<[digits, exp]>>
  result   \* what even_on_tie made of them

vars == <<x, chosen, result>>

Significands == 2 ^ (Precision - 1) .. 2 ^ Precision - 1
Exponents == -Places .. MaxExp

(* m * 2^e in units *)
Value(m, e) == IF e < 0 THEN m * 5 ^ (-e) * 10 ^ (Places + e) ELSE m * 2 ^ e * 10 ^ Places
Doubles == {Value(m, e) : m \in Significands, e \in Exponents}
EvenDoubles == {Value(m, e) : m \in {k \in Significands : k % 2 = 0}, e \in Exponents}

Distance(a, b) == IF a < b THEN b - a ELSE a - b

(* str::parse::<f64>: the nearest double, and of two the even one. *)
Nearest(d) ==
  LET close == {a \in Doubles : \A b \in Doubles : Distance(d, a) <= Distance(d, b)}
  IN  IF Cardinality(close) = 1 THEN CHOOSE a \in close : TRUE
      ELSE CHOOSE a \in close : a \in EvenDoubles

---------------------------------------------------------------------------
(* Decimals: digits d1.d2d3... and an exponent. *)

DecimalDigits[n \in Nat] ==
  IF n < 10 THEN <<n>> ELSE Append(DecimalDigits[n \div 10], n % 10)

Count(digits) == LET f[i \in 0..Len(digits)] == IF i = 0 THEN 0 ELSE 10 * f[i - 1] + digits[i]
                 IN  f[Len(digits)]

Decimal(digits, exp) == [digits |-> digits, exp |-> exp]

(* The unit of the last of k digits, as a power of ten of the units. *)
LastPlace(k, exp) == exp - k + 1 + Places
Meaning(d) == Count(d.digits) * 10 ^ LastPlace(Len(d.digits), d.exp)

ExactExp(n) == Len(DecimalDigits[n]) - 1 - Places
ExactDigit(n, i) == IF i <= Len(DecimalDigits[n]) THEN DecimalDigits[n][i] ELSE 0

(* n as a decimal of k digits, if it is one *)
AsDecimal(n, k) == Decimal([i \in 1..k |-> ExactDigit(n, i)], ExactExp(n))

(* The decimals of k digits next to n, below and above. *)
Around(n, k) ==
  LET unit == 10 ^ LastPlace(k, ExactExp(n))
      below == (n \div unit) * unit
  IN  IF LastPlace(k, ExactExp(n)) < 0 THEN {} ELSE {AsDecimal(below, k), AsDecimal(below + unit, k)}

RoundTrips(n, k) == {d \in Around(n, k) : Nearest(Meaning(d)) = n}
ShortestLength(n) == CHOOSE k \in 1..10 : RoundTrips(n, k) # {} /\ \A j \in 1..(k - 1) : RoundTrips(n, j) = {}

(* The shortest digits that read back as n and are closest to it: Rust's   *)
(* `{:e}` gives one of them.                                               *)
Shortest(n) ==
  LET ds == RoundTrips(n, ShortestLength(n))
  IN  {d \in ds : \A c \in ds : Distance(n, Meaning(d)) <= Distance(n, Meaning(c))}

---------------------------------------------------------------------------
(* One unit in the last place more; carried.truncate keeps the length. *)
increment(d) ==
  LET k == Len(d.digits)
      nines == CHOOSE j \in 0..k : (j = k \/ d.digits[k - j] # 9)
                                     /\ \A i \in (k - j + 1)..k : d.digits[i] = 9
  IN  IF nines = k THEN Decimal([i \in 1..k |-> IF i = 1 THEN 1 ELSE 0], d.exp + 1)
      ELSE Decimal([i \in 1..k |-> IF i > k - nines THEN 0
                                   ELSE IF i = k - nines THEN d.digits[i] + 1 ELSE d.digits[i]], d.exp)

(* The exact expansion goes on with 5 and nothing after the k-th digit. *)
is_tie(n, k) ==
  ExactDigit(n, k + 1) = 5 /\ \A i \in (k + 2)..Len(DecimalDigits[n]) : ExactDigit(n, i) = 0

(* Mutant: a tie goes up, as in school. *)
UpOnTie(n, d) ==
  LET k == Len(d.digits)
      candidate == increment(AsDecimal(n, k))
  IN  IF ExactExp(n) # d.exp \/ ~is_tie(n, k) \/ Nearest(Meaning(candidate)) # n THEN d
      ELSE candidate

even_on_tie(n, d) ==
  LET k == Len(d.digits)
      truncated == AsDecimal(n, k)
      candidate == IF truncated.digits[k] % 2 = 0 THEN truncated ELSE increment(truncated)
  IN  IF ExactExp(n) # d.exp \/ ~is_tie(n, k) \/ Nearest(Meaning(candidate)) # n THEN d
      ELSE candidate

---------------------------------------------------------------------------
(* Doubles with a neighbour on both sides. *)
Inner == {Value(m, e) : m \in Significands, e \in (1 - Places)..(MaxExp - 1)}

Init == x = 0 /\ chosen = <<>> /\ result = <<>>

Format ==
  /\ x = 0
  /\ x' \in Inner
  /\ \E d \in Shortest(x') :
       chosen' = <<d>> /\ result' = <<even_on_tie(x', d)>>

Next == Format

Spec == Init /\ [][Next]_vars
---------------------------------------------------------------------------
(* ECMAScript's choice (ECMA-262 6.1.6.1.20): of the shortest and closest  *)
(* digits, the even ones.  A canonical text must be it whichever of two    *)
(* equally close ones the formatter chose (number, even_on_tie).           *)
ECMAScript ==
  \A i \in DOMAIN result :
    /\ result[i] \in Shortest(x)
    /\ Cardinality(Shortest(x)) = 2 => result[i].digits[Len(result[i].digits)] % 2 = 0
=============================================================================
