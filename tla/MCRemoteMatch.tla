---------------------------- MODULE MCRemoteMatch ----------------------------
(* Two tokens; a capture when both roles play the same one; two turns.     *)
EXTENDS RemoteMatch

CONSTANTS a, b

MCToken == {a, b}

MCCaptures(log) == log[Len(log)].cop = log[Len(log)].thief

MCTurns == 0 .. MaxMoves
=============================================================================
