---------------------------- MODULE MCNarrowing ----------------------------
(* A small universe of calls and constraints for Narrowing. *)
EXTENDS Narrowing

Detail(actions) == [type |-> "health", actions |-> actions]

C(type, value) == [type |-> type, value |-> value]

MCConstraints ==
  {C("access.authorization_details", {Detail({"read"})}),
   C("access.authorization_details", {[type |-> "health"]}),
   C("access.purpose", "care"), C("access.purpose", "research"),
   C("access.release", "answer-only"), C("access.release", "records"),
   C("access.max_uses", 0), C("access.max_uses", 1), C("access.max_uses", 2),
   C("access.delegation", 0), C("access.delegation", 1),
   C("access.hours", "nine-to-five"), C(None, Bad), C("access.purpose", Bad)}

MCHopMandates == {None, Bad} \cup {<<>>} \cup {<<c>> : c \in MCConstraints}
MCRootMandates == MCHopMandates \cup {<<c, d>> : c, d \in MCConstraints}

MCCalls ==
  {[method |-> "SendMessage", task_id |-> "t", purpose |-> p, release |-> r,
    authorization_details |-> ds] :
      p \in {None, "care"}, r \in Releases,
      ds \in {<<>>, <<Detail({"read"})>>, <<Detail({"read", "share"})>>,
              <<[type |-> "health"]>>}}
=============================================================================
