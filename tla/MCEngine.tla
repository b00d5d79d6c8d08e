------------------------------ MODULE MCEngine ------------------------------
(* A 3 x 3 board with two barriers, the agents in opposite corners.  One   *)
(* seed walls the cop in twice before it draws an open board, one walls    *)
(* the thief in and then draws an open board, one never draws a connected  *)
(* board, one draws an open board at once, and a contract may name none.   *)
EXTENDS Engine

MCCopStart == <<0, 0>>
MCThiefStart == <<2, 2>>

MCSeeds == {"copWalled", "thiefWalled", "hopeless", "open"}

CopWalled == {<<0, 1>>, <<1, 0>>}
ThiefWalled == {<<1, 2>>, <<2, 1>>}
CornerWalled == {<<0, 1>>, <<1, 2>>}
Centre == {<<1, 1>>, <<0, 2>>}
Corridor == {<<1, 0>>, <<1, 1>>}

MCSample(s, n) ==
  CASE s = "copWalled" -> IF n < 2 THEN CopWalled ELSE Centre
    [] s = "thiefWalled" -> IF n < 1 THEN ThiefWalled ELSE Corridor
    [] s = "hopeless" -> CornerWalled
    [] OTHER -> IF n < 1 THEN Corridor ELSE Centre
=============================================================================
