---------------------------- MODULE MCPushSeries ----------------------------
(* Two tokens, captures when both play the same one: a sub-game ends after *)
(* either step.  Group B may lie, and disclose to either audit tool.       *)
EXTENDS PushSeries

CONSTANTS a, b

MCToken == {a, b}

MCCaptures(pairs) == pairs[Len(pairs)].cop = pairs[Len(pairs)].thief

MCLiars == {"B"}
MCTools == {"submit_audit", "receive_final_audit"}
=============================================================================
