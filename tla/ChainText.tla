----------------------------- MODULE ChainText -----------------------------
(***************************************************************************)
(* A chain on the wire.  An agent joins segments into one text (issue.rs); *)
(* the verifier splits that text again (chain.rs) and, to refer to the     *)
(* presentation in a receipt, looks for the closing hop a second time with *)
(* code of its own that searches from the right (receipt/src/lib.rs).  The *)
(* three must agree, also on text that no agent produced.                  *)
(*                                                                         *)
(* A text is a sequence of characters, "~" or "j"; the latter stands for   *)
(* any character of a JWT or of a disclosure.  A digest is the text it is  *)
(* taken of, and a JWT stands for its own signing input.                   *)
(***************************************************************************)
EXTENDS SequencesExt, Integers

CONSTANTS
  NoSegment,        \* Option::None
  MAX_TEXT_BYTES,   \* MAX_CHAIN_BYTES of chain.rs
  MAX_TEXT_HOPS,    \* MAX_HOPS
  MaxText,          \* bound on the texts that arrive from the network
  MaxDisclosures,   \* bound on the disclosures of a segment
  MaxSegments       \* bound on the segments an agent joins

Tilde == "~"
Texts == Seq({Tilde, "j"})

ASSUME ChainTextAssumption ==
  /\ MAX_TEXT_BYTES \in Nat /\ MAX_TEXT_HOPS \in Nat
  /\ MaxText \in Nat /\ MaxDisclosures \in Nat /\ MaxSegments \in Nat
  /\ NoSegment \notin Texts \cup [reference : Texts, mandate_id : Texts, presentation_id : Texts]

VARIABLES
  segments,         \* what an agent has signed so far
  chain             \* the text it sends, or any other text

text_vars == <<segments, chain>>

EndsWith(s) == s # <<>> /\ Last(s) = Tilde

(* The places where "~~" stands, overlapping ones included. *)
Tildes(s) == {i \in 1..(Len(s) - 1) : s[i] = Tilde /\ s[i + 1] = Tilde}

(* str::split("~~"): in a run of tildes, every second one from the start. *)
Separators(s) ==
  {i \in Tildes(s) :
     \E j \in 1..i : /\ (i - j) % 2 = 0
                     /\ \A k \in j..i : s[k] = Tilde
                     /\ j = 1 \/ s[j - 1] # Tilde}

Nth(S, n) == CHOOSE x \in S : Cardinality({y \in S : y < x}) = n - 1

(* What stands between the separators, one imagined before and one behind. *)
SplitTildes(s) ==
  LET cuts == {-1, Len(s) + 1} \cup Separators(s)
  IN  [k \in 1..(Cardinality(cuts) - 1) |-> SubSeq(s, Nth(cuts, k) + 2, Nth(cuts, k + 1) - 1)]

(* seg.split('~').next() *)
Jwt(seg) ==
  LET stops == {i \in DOMAIN seg : seg[i] = Tilde}
  IN  IF stops = {} THEN seg ELSE SubSeq(seg, 1, Min(stops) - 1)

---------------------------------------------------------------------------
(* issue.rs *)

(* segment(): the JWT and each disclosure, each followed by "~". *)
Segment(disclosures) == [i \in 1..(2 * (disclosures + 1)) |-> IF i % 2 = 1 THEN "j" ELSE Tilde]

strip_suffix(s) == IF EndsWith(s) THEN Front(s) ELSE s

(* Mutant: the "~" that ends a segment is kept. *)
JoinWhole(segs) ==
  FoldLeft(LAMBDA s, seg : IF s = <<>> THEN seg ELSE s \o <<Tilde, Tilde>> \o seg, <<>>, segs)

join(segs) ==
  FlattenSeq([i \in DOMAIN segs |->
    IF i < Len(segs) THEN strip_suffix(segs[i]) \o <<Tilde, Tilde>> ELSE segs[i]])

---------------------------------------------------------------------------
(* chain.rs *)

NotSplit(e) == [ok |-> FALSE, error |-> e]

(* Mutant: every segment is taken as it stands between the separators. *)
split_bare(s) ==
  LET raw == SplitTildes(s)
  IN  IF Len(raw) < 2 \/ ~EndsWith(Last(raw)) \/ \E i \in DOMAIN raw : Jwt(raw[i]) = <<>>
      THEN NotSplit("Malformed")
      ELSE [ok |-> TRUE, canonical |-> raw]

(* Mutant: a segment may begin with "~". *)
split_any_jwt(s) ==
  LET raw == SplitTildes(s)
  IN  IF Len(raw) < 2 \/ ~EndsWith(Last(raw)) THEN NotSplit("Malformed")
      ELSE [ok |-> TRUE, canonical |-> [i \in DOMAIN raw |->
              IF i = Len(raw) THEN raw[i] ELSE Append(raw[i], Tilde)]]

(* The segments in canonical form: the "~" that join stripped is back. *)
split_text(s) ==
  LET raw == SplitTildes(s)
  IN  IF Len(s) > MAX_TEXT_BYTES THEN NotSplit("Malformed")
      ELSE IF Len(raw) > MAX_TEXT_HOPS THEN NotSplit("Chain")
      ELSE IF Len(raw) < 2 THEN NotSplit("Chain")
      ELSE IF ~EndsWith(Last(raw)) \/ \E i \in DOMAIN raw : Jwt(raw[i]) = <<>>
      THEN NotSplit("Malformed")
      ELSE [ok |-> TRUE, canonical |-> [i \in DOMAIN raw |->
              IF i = Len(raw) THEN raw[i] ELSE Append(raw[i], Tilde)]]

---------------------------------------------------------------------------
(* receipt/src/lib.rs and Decision::receipt *)

(* rsplit("~~").next(): what follows the rightmost "~~". *)
AfterLastTildes(s) ==
  IF Tildes(s) = {} THEN s ELSE SubSeq(s, Max(Tildes(s)) + 2, Len(s))

closing_segment(s) ==
  LET last == AfterLastTildes(s)
  IN  IF Tildes(s) # {} /\ EndsWith(last) /\ Head(last) # Tilde THEN last ELSE NoSegment

(* Receipt::for_chain: the root's hop id, the closing hop with its         *)
(* signature and without it.                                               *)
for_chain(s) ==
  IF closing_segment(s) = NoSegment THEN NoSegment
  ELSE [reference       |-> closing_segment(s),
        mandate_id      |-> Jwt(s),
        presentation_id |-> closing_segment(s)]

---------------------------------------------------------------------------
TextInit == segments = <<>> /\ chain = <<>>

(* issue_open, then present for each further hop, then join. *)
Sign ==
  /\ Len(segments) < MaxSegments
  /\ chain = join(segments)
  /\ \E n \in 0..MaxDisclosures : segments' = Append(segments, Segment(n))
  /\ chain' = join(segments')

(* Any text at all, one character at a time. *)
Receive ==
  /\ segments = <<>>
  /\ Len(chain) < MaxText
  /\ \E c \in {Tilde, "j"} : chain' = Append(chain, c)
  /\ UNCHANGED segments

TextNext == Sign \/ Receive
TextSpec == TextInit /\ [][TextNext]_text_vars

---------------------------------------------------------------------------
(* The verifier gets back exactly the segments the agents signed, each in  *)
(* the form its successor's sd_hash was taken of, as long as there are no  *)
(* more of them than it accepts (join, split, present's digest(prev)).     *)
SplitInvertsJoin ==
  Len(segments) \in 2..MAX_TEXT_HOPS /\ Len(chain) <= MAX_TEXT_BYTES =>
    split_text(chain) = [ok |-> TRUE, canonical |-> segments]

(* A text the verifier accepts is the only text with these segments, so    *)
(* one presentation has no second spelling.                                *)
JoinInvertsSplit == split_text(chain).ok => join(split_text(chain).canonical) = chain

(* For every text the verifier can split, whoever wrote it, a receipt can  *)
(* be made and refers to the root and to the closing hop that were         *)
(* verified, although closing_segment searches from the other end.         *)
ReceiptNamesVerifiedHops ==
  split_text(chain).ok =>
    LET hops == split_text(chain).canonical
    IN  /\ for_chain(chain) # NoSegment
        /\ for_chain(chain).mandate_id = Jwt(hops[1])
        /\ for_chain(chain).presentation_id = Last(hops)
=============================================================================
