----------------------------- MODULE MCReceipts -----------------------------
(* Two presentations of one mandate, one of them in both forms of its      *)
(* signature and with fewer disclosures, and payloads that bend each rule. *)
EXTENDS Receipts

Chain(id, form, shown) ==
  [root |-> "m", closing |-> [id |-> id, form |-> form, shown |-> shown]]

MCChains == {Chain("a1", "s", <<"d">>), Chain("a1", "n-s", <<"d">>),
             Chain("a1", "s", <<>>), Chain("a2", "s", <<"d">>)}

Foreigner == New(Success, Chain("a1", "s", <<"d">>))

MCForeignPayloads ==
  {[to_payload(Foreigner) EXCEPT !.status = s, !.result = r, !.error = e,
      !.error_description = d, !.iat = i, !.released = l, !.presentation_id = p] :
     s \in {None, Bad, "Success", "error", "maybe"}, r \in {None, "success", "Error"},
     e \in {None, Bad, "invalid_mandate"}, d \in {None, "why"}, i \in {None, 1},
     l \in {None, Bad, <<"name">>, <<"Jane Doe">>}, p \in {None, Bad, "another-id"}}
=============================================================================
