---------------------------- MODULE MCSettlement ----------------------------
\* Settlement with the contract's own points and a series of two sub-games.
EXTENDS Settlement

MCScoring == [capture  |-> [cop |-> 20, thief |-> 5],
              survival |-> [cop |-> 5,  thief |-> 10]]
=============================================================================
