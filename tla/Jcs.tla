-------------------------------- MODULE Jcs --------------------------------
(***************************************************************************)
(* RFC 8785 as crates/a2a-gov-card/src/jcs.rs writes it: the text of a     *)
(* JSON value.  A text is a sequence of characters, where one name may     *)
(* stand for a run of ordinary characters.                                 *)
(***************************************************************************)
EXTENDS Integers, Sequences, FiniteSets, SequencesExt

CONSTANTS
  None,
  Utf16,        \* the UTF-16 code units of a character
  MAX_DEPTH,
  SafeBits      \* 53: integers of this many bits are exact doubles

MAX_SAFE_INTEGER == 2 ^ SafeBits - 1

(* serde_json::Value.  A double is known by its shortest decimal digits    *)
(* d1.d2d3... and their exponent.                                          *)
Null == [t |-> "null"]
Bool(b) == [t |-> "bool", b |-> b]
Integer(i) == [t |-> "int", i |-> i]
Double(neg, digits, exp) == [t |-> "double", neg |-> neg, digits |-> digits, exp |-> exp]
Str(s) == [t |-> "string", s |-> s]
Arr(items) == [t |-> "array", items |-> items]
Obj(members) == [t |-> "object", members |-> members]   \* a set of <<key, value>>

---------------------------------------------------------------------------
(* Numbers *)

Zero == Double(FALSE, <<0>>, 0)

(* `i as f64`: beyond the safe integers, to the nearest even multiple. *)
Rounded(n) ==
  IF n <= MAX_SAFE_INTEGER \/ n % 2 = 0 THEN n
  ELSE IF (n + 1) % 4 = 0 THEN n + 1 ELSE n - 1

DecimalDigits[n \in Nat] ==
  IF n < 10 THEN <<n>> ELSE Append(DecimalDigits[n \div 10], n % 10)

WithoutZeros(digits) ==
  SubSeq(digits, 1, CHOOSE k \in DOMAIN digits :
                      digits[k] # 0 /\ \A j \in DOMAIN digits : j > k => digits[j] = 0)

as_f64(i) ==
  LET n == Rounded(IF i < 0 THEN -i ELSE i)
  IN  IF n = 0 THEN Zero
      ELSE Double(i < 0, WithoutZeros(DecimalDigits[n]), Len(DecimalDigits[n]) - 1)

DigitChars == <<"0", "1", "2", "3", "4", "5", "6", "7", "8", "9">>
Text(digits) == [i \in DOMAIN digits |-> DigitChars[digits[i] + 1]]
Zeros(n) == [i \in 1..n |-> "0"]

Whole(digits, n) == digits \o Zeros(n - Len(digits))
Pointed(digits, n) == SubSeq(digits, 1, n) \o <<".">> \o SubSeq(digits, n + 1, Len(digits))
Fraction(digits, n) == <<"0", ".">> \o Zeros(-n) \o digits
Scientific(digits, e) ==
  <<digits[1]>> \o (IF Len(digits) = 1 THEN <<>> ELSE <<".">> \o Tail(digits))
    \o <<"e", IF e < 0 THEN "-" ELSE "+">> \o Text(DecimalDigits[IF e < 0 THEN -e ELSE e])

(* Mutant: 0.0000001 is still written without an exponent. *)
PositionalTooFar(n) == -7 < n /\ n <= 21

(* Whether a number with n digits before the point needs no exponent. *)
Positional(n) == -6 < n /\ n <= 21

(* number(): ECMAScript's layout of the digits. *)
number(x) ==
  LET k == Len(x.digits)
      n == x.exp + 1
      digits == Text(x.digits)
  IN  IF x.digits = <<0>> THEN <<"0">>
      ELSE (IF x.neg THEN <<"-">> ELSE <<>>) \o
           (IF ~Positional(n) THEN Scientific(digits, n - 1)
            ELSE IF k <= n THEN Whole(digits, n)
            ELSE IF 0 < n THEN Pointed(digits, n)
            ELSE Fraction(digits, n))

---------------------------------------------------------------------------
(* Strings and containers *)

ShortEscape == [BS |-> "b", HT |-> "t", LF |-> "n", FF |-> "f", CR |-> "r"]
OtherControl == [NUL |-> <<"0", "0">>, US |-> <<"1", "f">>]

Escape(c) ==
  IF c \in {"\"", "\\"} THEN <<"\\", c>>
  ELSE IF c \in DOMAIN ShortEscape THEN <<"\\", ShortEscape[c]>>
  ELSE IF c \in DOMAIN OtherControl THEN <<"\\", "u", "0", "0">> \o OtherControl[c]
  ELSE <<c>>

write_string(s) ==
  <<"\"">> \o FlattenSeq([i \in DOMAIN s |-> Escape(s[i])]) \o <<"\"">>

Units(key) == FlattenSeq([i \in DOMAIN key |-> Utf16[key[i]]])

(* The order of two keys: by UTF-16 code units. *)
Before(a, b) ==
  LET x == Units(a)
      y == Units(b)
  IN  \/ IsStrictPrefix(x, y)
      \/ \E i \in DOMAIN x \cap DOMAIN y :
           x[i] < y[i] /\ SubSeq(x, 1, i - 1) = SubSeq(y, 1, i - 1)

RECURSIVE Sorted(_)
Sorted(members) ==
  IF members = {} THEN <<>>
  ELSE LET least == CHOOSE m \in members : \A n \in members \ {m} : Before(m[1], n[1])
       IN  <<least>> \o Sorted(members \ {least})

Commas(texts) ==
  FlattenSeq([i \in DOMAIN texts |-> IF i = 1 THEN texts[i] ELSE <<",">> \o texts[i]])

RECURSIVE write_value(_)
write_value(v) ==
  CASE v.t = "null" -> <<"null">>
    [] v.t = "bool" -> <<IF v.b THEN "true" ELSE "false">>
    [] v.t = "int" -> number(as_f64(v.i))
    [] v.t = "double" -> number(v)
    [] v.t = "string" -> write_string(v.s)
    [] v.t = "array" ->
         <<"[">> \o Commas([i \in DOMAIN v.items |-> write_value(v.items[i])]) \o <<"]">>
    [] v.t = "object" ->
         LET entries == Sorted(v.members)
         IN  <<"{">> \o Commas([i \in DOMAIN entries |->
                                  write_string(entries[i][1]) \o <<":">> \o write_value(entries[i][2])])
               \o <<"}">>

(* Mutant: large integers are rounded like everywhere else in JSON. *)
NeverExact(i) == FALSE

(* An integer that is not exactly representable. *)
Inexact(i) == i < -MAX_SAFE_INTEGER \/ i > MAX_SAFE_INTEGER

(* write_value's errors: nesting, and integers a double may not hold. *)
RECURSIVE Refused(_, _)
Refused(v, depth) ==
  \/ depth > MAX_DEPTH
  \/ v.t = "int" /\ Inexact(v.i)
  \/ v.t = "array" /\ \E i \in DOMAIN v.items : Refused(v.items[i], depth + 1)
  \/ v.t = "object" /\ \E m \in v.members : Refused(m[2], depth + 1)

canonicalize(v) == IF Refused(v, 0) THEN None ELSE write_value(v)
=============================================================================
