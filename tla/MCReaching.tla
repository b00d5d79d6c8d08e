----------------------------- MODULE MCReaching -----------------------------
(* Two addresses and six kinds of server: our own code on either side and  *)
(* with other terms, and opponents that say yes in two other spellings, in *)
(* a forged signature, or not at all.                                      *)
EXTENDS Reaching

CONSTANTS u1, u2, agreed, other

MCUrl == {u1, u2}
MCTerms == {agreed, other}

Foreign(reply) == [kind |-> "foreign", reply |-> reply]
Bare == [status |-> Absent, accepted |-> Absent, ok |-> Absent,
         terms |-> Absent, over |-> Absent, role |-> Absent]

MCServers ==
  {[kind |-> "native", terms |-> agreed, role |-> "police"],
   [kind |-> "native", terms |-> agreed, role |-> "thief"],
   [kind |-> "native", terms |-> other, role |-> "thief"],
   Foreign([Bare EXCEPT !.accepted = TRUE]),
   Foreign([Bare EXCEPT !.ok = TRUE, !.role = "police"]),
   Foreign([Bare EXCEPT !.ok = TRUE, !.terms = agreed, !.over = other]),
   Foreign(Bare)}
=============================================================================
