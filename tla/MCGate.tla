------------------------------- MODULE MCGate -------------------------------
(* A small instance of Gate: two tokens, a capture when both peers play    *)
(* the same one, two moves at most, and turn numbers from one below the    *)
(* first turn to one past the last.                                        *)
EXTENDS Gate

CONSTANTS a, b

MCToken == {a, b}

MCCaptures(history) ==
  history[Len(history)].cop = history[Len(history)].thief

MCTurns == -1 .. MaxMoves + 1
=============================================================================
