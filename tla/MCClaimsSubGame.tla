--------------------------- MODULE MCClaimsSubGame ---------------------------
(* A 2 x 2 board, the agents in opposite corners: they can meet on any     *)
(* step, swap cells, or stay apart to the end.  The long scene walls off   *)
(* one cell, which leaves a corridor; the others play on the bare board.   *)
EXTENDS ClaimsSubGame

MCCopStart == <<0, 0>>
MCThiefStart == <<1, 1>>

Straight == {[p \in Peer |-> Other(p)]}

Corridor == [walls |-> {<<0, 1>>}, steps |-> 3, placements |-> {},
             rewriters |-> {"thief"}, stalls |-> FALSE, dials |-> Straight]
Storm == [walls |-> {}, steps |-> 2, placements |-> {<<1, 0>>, <<1, 1>>},
          rewriters |-> {}, stalls |-> TRUE, dials |-> [Peer -> Peer]]
Placed == [walls |-> {}, steps |-> 3, placements |-> {<<1, 0>>, <<1, 1>>},
           rewriters |-> {}, stalls |-> FALSE, dials |-> Straight]

MCScenes == {Corridor, Storm}
MCPlaced == {Placed}
=============================================================================
