----------------------------- MODULE Handshake -----------------------------
(***************************************************************************)
(* The negotiate gate in both directions: the handler that answers an      *)
(* opponent, and the judgement of the reply an opponent gave.  An operator *)
(* per check; module Reaching makes the calls.                             *)
(*                                                                         *)
(* A message is a record whose fields may be Absent.  `over' is the terms  *)
(* its nonce and signature verify for, so that a forged signature is one   *)
(* whose `over' is not its `terms'.  The uid and the sub-game number have  *)
(* no field: no client of this program declares the one, and a different   *)
(* number is printed and played through.                                   *)
(***************************************************************************)
CONSTANTS
  Terms,     \* the values the agreed terms may have
  Absent     \* a key the message does not carry

ASSUME HandshakeAssumption == Absent \notin Terms

Wire == {"police", "thief"}

\* The envelope negotiate sends for one sub-game.
Envelope(terms, role) == [terms |-> terms, over |-> terms, role |-> role]

\* pairing_refusal: only a declared contradiction counts.
SameSide(message, role) == message.role = role

\* _REPLY_REQUIRED, and the envelope validate_negotiate insists on.
Signed(message) == message.terms # Absent /\ message.over # Absent

Verifies(message) == message.over = message.terms

SameTerms(message, terms) == message.terms = terms

-----------------------------------------------------------------------------

\* _refuse, in both spellings.
Refusal(role) ==
  [status |-> "refused", accepted |-> FALSE, ok |-> Absent,
   terms |-> Absent, over |-> Absent, role |-> role]

\* The accepting reply, with our own signed copy.
Acceptance(terms, role) ==
  [status |-> "accepted", accepted |-> TRUE, ok |-> Absent,
   terms |-> terms, over |-> terms, role |-> role]

\* reference_negotiate.negotiate, on the server of `role'.
Negotiated(terms, role, message) ==
  IF ~Signed(message) \/ ~Verifies(message) \/ ~SameTerms(message, terms)
  THEN Refusal(Absent)
  ELSE IF SameSide(message, role)
  THEN Refusal(role)
  ELSE Acceptance(terms, role)

-----------------------------------------------------------------------------

\* _require_acceptance: three spellings of yes, the status first.
SaysYes(reply) ==
  IF reply.status # Absent
  THEN reply.status = "accepted"
  ELSE TRUE \in {IF reply.accepted # Absent THEN reply.accepted ELSE reply.ok}

\* Seeded bug: a reply that is not counter-signed is not checked at all.
PassesMutant(reply, terms, role) ==
  Signed(reply) => /\ ~SameSide(reply, role)
                   /\ Verifies(reply) /\ SameTerms(reply, terms)

\* _check: the pairing always, the rest if the reply carries the material.
Passes(reply, terms, role) ==
  /\ ~SameSide(reply, role)
  /\ Signed(reply) => Verifies(reply) /\ SameTerms(reply, terms)

Opens(reply, terms, role) == SaysYes(reply) /\ Passes(reply, terms, role)
=============================================================================
