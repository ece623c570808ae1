---------------------------- MODULE MCDisclosure ----------------------------
(* Segments for Disclosure: a mandate with an expiry and two constraints,  *)
(* every way to hide its parts, and payloads that no issuer should sign.   *)
EXTENDS Disclosure

First == Object("type" :> String("release") @@ "value" :> String("answers"))
Second == Object("type" :> String("max_uses") @@ "value" :> Number(1))
Mandate == "exp" :> Number(9) @@ "constraints" :> Array(<<First, Second>>)

MCMandates == {Mandate, "constraints" :> Array(<<>>)}
MCDisclosables ==
  {Disclosable(<<>>, <<>>), Disclosable(<<"exp">>, <<>>), Disclosable(<<"constraints", "exp">>, <<>>),
   Disclosable(<<>>, <<"constraints">>), Disclosable(<<>>, <<"exp">>), Disclosable(<<"exp", "exp">>, <<>>)}
MCConstraintsOnly == {Disclosable(<<>>, <<"constraints">>)}

Segment(payload, disclosures, mandate) ==
  [payload |-> payload, disclosures |-> disclosures, mandate |-> mandate]
Payload(v) == "delegate_payload" :> Array(<<v>>)

(* Hidden at several depths: a value in a constraint in a list in a mandate. *)
Value == <<Salt(11), String("value"), String("answers")>>
FirstHidden == <<Salt(12), Object("type" :> String("release") @@ SD :> Array(<<digest(Value)>>))>>
List == <<Salt(13), String("constraints"), Array(<<Placeholder(digest(FirstHidden)), Second>>)>>
Whole == <<Salt(14), Object("exp" :> Number(9) @@ SD :> Array(<<digest(List)>>))>>
Nested == Segment(Payload(Placeholder(digest(Whole))), <<Value, FirstHidden, List, Whole>>, Mandate)
Shallow == Segment(Payload(Object("exp" :> Number(9) @@ SD :> Array(<<digest(List)>>))),
                   <<List, FirstHidden, Value>>, Mandate)

(* A payload around the object f, signed with the disclosures ds. *)
Wrong(f, ds) == Segment(Payload(Object(f)), ds, None)
Exp == <<Salt(21), String("exp"), Number(9)>>
Exp2 == <<Salt(22), String("exp"), Number(10)>>
Bare == <<Salt(23), Number(9)>>
Reserved == <<Salt(24), String(SD), Array(<<>>)>>
Hidden(ds) == SD :> Array([k \in DOMAIN ds |-> digest(ds[k])])

Malformed ==
  { Wrong(Hidden(<<Exp, Value>>), <<Exp>>),                          \* a decoy
    Wrong(Hidden(<<Exp, Exp>>), <<Exp>>),
    Wrong(Hidden(<<Exp>>) @@ "iat" :> Object(Hidden(<<Exp>>)), <<Exp>>),
    Wrong(Hidden(<<Exp, Exp2>>), <<Exp, Exp2>>),
    Wrong("exp" :> Number(8) @@ Hidden(<<Exp>>), <<Exp>>),
    Wrong(Hidden(<<Bare>>), <<Bare>>),
    Wrong("constraints" :> Array(<<Placeholder(digest(Exp))>>), <<Exp>>),
    Wrong(Hidden(<<Reserved>>), <<Reserved>>),
    Wrong(SD :> digest(Exp), <<Exp>>),
    Wrong(SD :> Array(<<Number(1)>>), <<>>),
    Wrong("constraints" :> Array(<<Placeholder(Number(1))>>), <<>>),
    Segment("_sd_alg" :> String("sha-512") @@ Payload(Object(Mandate)), <<>>, None) }

MCOthers == Malformed \cup {Nested, Shallow}
MCNoOthers == {}
MCStrangers == {Exp2, Bare, <<Number(1), Number(2)>>, <<Salt(31)>>,
                <<Salt(32), Number(1), Number(2)>>, <<Salt(33), Number(1), Number(2), Number(3)>>}
MCNoStrangers == {}
=============================================================================
