------------------------------ MODULE JcsText ------------------------------
(***************************************************************************)
(* What the canonical text of jcs.rs promises its users: a signature over  *)
(* the text is a signature over one value.  Checked over all pairs of a    *)
(* set of values.                                                          *)
(***************************************************************************)
EXTENDS Jcs

CONSTANT Values

VARIABLES v, w

vars == <<v, w>>

Init == v = Null /\ w = Null

Compare == v = Null /\ w = Null /\ v' \in Values /\ w' \in Values

Next == Compare

Spec == Init /\ [][Next]_vars
---------------------------------------------------------------------------
(* Reading a number back: the digits before and after the point, and the   *)
(* exponent, give a value as shortest digits.                              *)
IsDigit(c) == \E d \in 0..9 : DigitChars[d + 1] = c
Digits(text) == [i \in DOMAIN text |-> CHOOSE d \in 0..9 : DigitChars[d + 1] = text[i]]
ValueOf(text) == FoldLeft(LAMBDA n, d : 10 * n + d, 0, Digits(text))

ReadNumber(text) ==
  LET neg == text[1] = "-"
      body == IF neg THEN Tail(text) ELSE text
      Upto(s, c) == IF \E i \in DOMAIN s : s[i] = c
                    THEN SubSeq(s, 1, (CHOOSE i \in DOMAIN s : s[i] = c) - 1) ELSE s
      mantissa == Upto(body, "e")
      power == IF mantissa = body THEN 0
               ELSE LET e == SubSeq(body, Len(mantissa) + 3, Len(body))
                    IN  IF body[Len(mantissa) + 2] = "-" THEN -ValueOf(e) ELSE ValueOf(e)
      int == Upto(mantissa, ".")
      all == Digits(SelectSeq(mantissa, IsDigit))
      lead == CHOOSE i \in DOMAIN all : all[i] # 0 /\ \A j \in 1..(i - 1) : all[j] = 0
  IN  IF \A i \in DOMAIN all : all[i] = 0 THEN Zero
      ELSE Double(neg, WithoutZeros(SubSeq(all, lead, Len(all))), Len(int) - lead + power)

IsNumber(x) == x.t \in {"int", "double"}

Number(x) == IF x.t = "int" THEN as_f64(x.i)
             ELSE IF x.digits = <<0>> THEN Zero ELSE x

(* Equality of JSON values, numbers by their value. *)
RECURSIVE Same(_, _)
Same(a, b) ==
  IF IsNumber(a) /\ IsNumber(b)
  THEN IF a.t = "int" /\ b.t = "int" THEN a.i = b.i ELSE Number(a) = Number(b)
  ELSE /\ a.t = b.t
       /\ CASE a.t = "array" -> /\ Len(a.items) = Len(b.items)
                                /\ \A i \in DOMAIN a.items : Same(a.items[i], b.items[i])
            [] a.t = "object" -> /\ \A m \in a.members : \E n \in b.members : m[1] = n[1] /\ Same(m[2], n[2])
                                 /\ \A n \in b.members : \E m \in a.members : m[1] = n[1]
            [] OTHER -> a = b

(* Two values have one canonical text if and only if they are the same:    *)
(* "two different integers could share one canonical form (and one         *)
(* signature)" is what jcs.rs:33-35 refuses, and escaping, separators,     *)
(* brackets and number layouts must not let any others share one.          *)
OneTextOneValue ==
  canonicalize(v) # None /\ canonicalize(w) # None =>
    (canonicalize(v) = canonicalize(w) <=> Same(v, w))

(* The layout ECMAScript gives a number (Number.prototype.toString): with  *)
(* an exponent, behind one digit before the point, if and only if it is    *)
(* 1e21 or more, or less than 1e-6; and no zero in front that says nothing.*)
ECMAScriptLayout(text, exp) ==
  LET body == IF text[1] = "-" THEN Tail(text) ELSE text
      digit(i) == i \in DOMAIN body /\ IsDigit(body[i])
  IN  /\ Contains(text, "e") <=> exp >= 21 \/ exp < -6
      /\ Contains(text, "e") => ~digit(2)
      /\ body[1] = "0" => ~digit(2)

(* A number's text, in whichever of the four layouts, reads back as the    *)
(* digits and the exponent it was written from, and the layout is the one  *)
(* ECMAScript chooses for it (number).                                     *)
NumberReadsBack ==
  IsNumber(v) /\ canonicalize(v) # None =>
    /\ ReadNumber(canonicalize(v)) = Number(v)
    /\ ECMAScriptLayout(canonicalize(v), Number(v).exp)
=============================================================================
