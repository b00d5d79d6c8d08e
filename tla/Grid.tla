-------------------------------- MODULE Grid --------------------------------
(* The board's cells and the five moves, shared by the engine's episode    *)
(* and by the one-sided walk of the claims protocol.                       *)
EXTENDS Integers

CONSTANT GridSize

Cell == (0 .. GridSize - 1) \X (0 .. GridSize - 1)

Delta == [N |-> <<-1, 0>>, S |-> <<1, 0>>, E |-> <<0, 1>>, W |-> <<0, -1>>,
          STAY |-> <<0, 0>>]
Action == {"N", "S", "E", "W", "STAY"}

Toward(cell, action) ==
  <<cell[1] + Delta[action][1], cell[2] + Delta[action][2]>>

Neighbours(cell) == {Toward(cell, action) : action \in Action \ {"STAY"}}
=============================================================================
