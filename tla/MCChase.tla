------------------------------- MODULE MCChase ------------------------------
\* Chase with the contract's scent on a three by three board.
EXTENDS Chase

MCOurStart == <<0, 0>>
MCTheirStart == <<1, 1>>
MCLayouts == {{}, {<<0, 1>>}}
MCOff == <<3, 3>>
MCPlaceable == {<<0, 1>>, <<1, 0>>}

\* A learned table goes anywhere: against one that walks too there is too much
\* to check and nothing more to see, the walker does not look at us.  To a
\* cop a builder is a walker, and here it builds from where it started.
MCInit ==
  /\ ChaseInit
  /\ policy = "learned" => rival = "parks"
  /\ rival = "builds" => role = "thief"

MCNext == ChaseNext /\ (rival = "builds" => UNCHANGED them)

MCSpec == MCInit /\ [][MCNext]_chaseVars
=============================================================================
