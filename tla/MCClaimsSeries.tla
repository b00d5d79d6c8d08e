--------------------------- MODULE MCClaimsSeries ---------------------------
(* Three sub-games, so that a role, and with it a server, is played twice. *)
EXTENDS ClaimsSeries
=============================================================================
