------------------------------- MODULE Engine -------------------------------
(***************************************************************************)
(* One GameEpisode: the search for a connected barrier layout that every   *)
(* reset runs, and the simultaneous turns played on the board it lays.     *)
(*                                                                         *)
(* Abstractions.  random.Random(seed:attempt).sample is the constant       *)
(* operator Sample; the flood fill takes its frontier in any order (the    *)
(* code pops a list).  laid is a history variable.                         *)
(***************************************************************************)
EXTENDS Grid, FiniteSets

CONSTANTS
  CopStart, ThiefStart,
  MaxBarriers,
  MaxMoves,
  MaxAttempts,    \* barriers._MAX_ATTEMPTS
  Seeds,          \* the barrier seeds a contract may name
  NoSeed,         \* a contract without one: a bare board
  Sample(_, _)    \* the layout drawn for a seed at an attempt

\* barriers._candidate_cells
Candidates == Cell \ {CopStart, ThiefStart}

ASSUME EngineAssumption ==
  /\ GridSize \in Nat
  /\ CopStart \in Cell /\ ThiefStart \in Cell /\ CopStart # ThiefStart
  /\ MaxBarriers \in Nat /\ MaxMoves \in Nat \ {0} /\ MaxAttempts \in Nat
  /\ NoSeed \notin Seeds

\* random.sample(candidates, max_barriers) draws that many distinct cells.
ASSUME SampleAssumption ==
  MaxBarriers <= Cardinality(Candidates) =>
    \A seed \in Seeds, n \in 0 .. MaxAttempts :
      /\ Sample(seed, n) \subseteq Candidates
      /\ Cardinality(Sample(seed, n)) = MaxBarriers

VARIABLES
  seed,         \* config.barrier_seed
  phase,        \* where the episode is: drawing, flooding, live, refused
  attempt,      \* barrier_layout's counter
  barriers,     \* the layout being judged, then the board's
  seen,         \* the flood fill of _is_connected
  frontier,
  cop, thief,   \* the agents' positions
  turnCount,
  captured,     \* history[-1].result.captured
  over,         \* is_terminated
  laid          \* history: the first board of this episode, or no board yet

search == <<attempt, barriers, seen, frontier>>
episode == <<cop, thief, turnCount, captured, over>>
vars == <<seed, phase, search, episode, laid>>

NoBoard == {CopStart}    \* no layout holds a start cell

Init ==
  /\ seed \in Seeds \cup {NoSeed}
  /\ phase = "drawing"
  /\ attempt = 0 /\ barriers = {} /\ seen = {} /\ frontier = {}
  /\ cop = CopStart /\ thief = ThiefStart
  /\ turnCount = 0 /\ captured = FALSE /\ over = FALSE
  /\ laid = NoBoard

-----------------------------------------------------------------------------
(* Laying the board: barrier_layout, then the rest of GameEpisode.reset.   *)

StartPlay ==
  /\ phase' = "live"
  /\ cop' = CopStart /\ thief' = ThiefStart
  /\ turnCount' = 0 /\ captured' = FALSE /\ over' = FALSE
  /\ laid' = IF laid = NoBoard THEN barriers' ELSE laid

Refuse == phase' = "refused" /\ UNCHANGED <<search, episode, laid>>

BareBoard ==
  /\ phase = "drawing" /\ seed = NoSeed
  /\ barriers' = {}
  /\ StartPlay
  /\ UNCHANGED <<seed, attempt, seen, frontier>>

Draw ==
  /\ phase = "drawing" /\ seed # NoSeed
  /\ IF MaxBarriers > Cardinality(Candidates) \/ attempt = MaxAttempts
     THEN Refuse
     ELSE /\ phase' = "flooding"
          /\ barriers' = Sample(seed, attempt)
          /\ seen' = {CopStart} /\ frontier' = {CopStart}
          /\ UNCHANGED <<attempt, episode, laid>>
  /\ UNCHANGED seed

\* Seeded bug: a cell the flood has reached is explored again and again.
FreshFromMutant(cell) == (Neighbours(cell) \cap Cell) \ barriers

\* The cells the flood fill adds from one cell of its frontier.
FreshFrom(cell) == ((Neighbours(cell) \cap Cell) \ barriers) \ seen

Flood(cell) ==
  /\ phase = "flooding"
  /\ cell \in frontier
  /\ seen' = seen \cup FreshFrom(cell)
  /\ frontier' = (frontier \ {cell}) \cup FreshFrom(cell)
  /\ UNCHANGED <<seed, phase, attempt, barriers, episode, laid>>

\* Seeded bug: one cell may stay walled off.
FillsBoardMutant ==
  Cardinality(seen) >= GridSize * GridSize - Cardinality(barriers) - 1

\* Seeded bug: the barriers are counted as cells to reach.
FillsBoardStrict == Cardinality(seen) = GridSize * GridSize

\* len(seen) == size * size - len(layout)
FillsBoard == Cardinality(seen) = GridSize * GridSize - Cardinality(barriers)

Judge ==
  /\ phase = "flooding" /\ frontier = {}
  /\ IF FillsBoard
     THEN UNCHANGED search /\ StartPlay
     ELSE /\ phase' = "drawing" /\ attempt' = attempt + 1
          /\ UNCHANGED <<barriers, seen, frontier, episode, laid>>
  /\ UNCHANGED seed

\* Seeded bug: the attempts of the last reset are not drawn again.
ResetMutant ==
  /\ phase = "live"
  /\ phase' = "drawing"
  /\ attempt' = IF attempt < MaxAttempts THEN attempt + 1 ELSE attempt
  /\ UNCHANGED <<seed, barriers, seen, frontier, episode, laid>>

\* MatchState.reset, or an episode built anew from the same contract.
Reset ==
  /\ phase = "live"
  /\ phase' = "drawing"
  /\ attempt' = 0
  /\ UNCHANGED <<seed, barriers, seen, frontier, episode, laid>>

-----------------------------------------------------------------------------
(* A turn.                                                                 *)

\* resolver._resolve_agent_position: an illegal move is a STAY.
Resolved(position, action) ==
  IF Toward(position, action) \in Cell \ barriers
  THEN Toward(position, action)
  ELSE position

\* Seeded bug: agents that cross each other are not caught.
CaughtMutant(newCop, newThief) == newCop = newThief

Caught(newCop, newThief) ==
  \/ newCop = newThief
  \/ newCop = thief /\ newThief = cop

\* GameEpisode.step: a terminated episode returns its last result.
Step(copAction, thiefAction) ==
  /\ phase = "live" /\ ~over
  /\ cop' = Resolved(cop, copAction)
  /\ thief' = Resolved(thief, thiefAction)
  /\ captured' = Caught(cop', thief')
  /\ turnCount' = turnCount + 1
  /\ over' = (captured' \/ turnCount' >= MaxMoves)
  /\ UNCHANGED <<seed, phase, search, laid>>

Next ==
  \/ BareBoard
  \/ Draw
  \/ \E cell \in frontier : Flood(cell)
  \/ Judge
  \/ Reset
  \/ \E copAction, thiefAction \in Action : Step(copAction, thiefAction)

Spec == Init /\ [][Next]_vars

Setup == BareBoard \/ Draw \/ (\E cell \in frontier : Flood(cell)) \/ Judge

(* reset is a synchronous call: once entered it runs.                      *)
FairSpec == Spec /\ WF_vars(Setup)

-----------------------------------------------------------------------------

TypeOK ==
  /\ seed \in Seeds \cup {NoSeed}
  /\ phase \in {"drawing", "flooding", "live", "refused"}
  /\ attempt \in 0 .. MaxAttempts
  /\ barriers \subseteq Cell /\ seen \subseteq Cell /\ frontier \subseteq Cell
  /\ cop \in Cell /\ thief \in Cell
  /\ turnCount \in 0 .. MaxMoves
  /\ captured \in BOOLEAN /\ over \in BOOLEAN
  /\ laid \subseteq Cell

(* Connectedness without a search: no set of free cells with the cop's     *)
(* start is closed under free neighbours unless it is all of them.         *)
Free(layout) == Cell \ layout

Closed(cells, layout) ==
  \A c \in cells : Neighbours(c) \cap Free(layout) \subseteq cells

Connected(layout) ==
  \A cells \in SUBSET Free(layout) :
    CopStart \in cells /\ Closed(cells, layout) => cells = Free(layout)

(* Play only starts on a board on which every free cell can be reached, so *)
(* that a capture or an escape is never an artefact of the layout.         *)
FairBoard == phase = "live" => Connected(barriers)

(* ... and no layout that would do is thrown away.                         *)
RejectsOnlyWalled ==
  [][phase = "flooding" /\ phase' = "drawing" => ~Connected(barriers)]_vars

(* The board is derived, never exchanged: every reset of an episode, on    *)
(* whichever peer, lays the board the first one laid, however many draws   *)
(* it takes.                                                               *)
SameBoard == phase = "live" => barriers = laid

(* No sequence of moves puts an agent off the board or inside a barrier.   *)
LegalPositions == phase = "live" => {cop, thief} \subseteq Free(barriers)

(* What is played is a game on a fair board, between agents standing on it.*)
FairGame == TypeOK /\ FairBoard /\ LegalPositions

(* As long as the game goes on, the agents are apart, and a game that ended*)
(* early ended because they met.                                           *)
LiveApart ==
  phase = "live" => /\ ~over => cop # thief
                    /\ over /\ turnCount < MaxMoves => captured

(* Where an agent moving at constant speed is at half time (doubled).      *)
HalfWay(old, new) == <<old[1] + new[1], old[2] + new[2]>>

(* Two agents that walk their turn at constant speed meet, at half time or *)
(* at its end, exactly when the turn is a capture: nobody is caught without*)
(* a meeting and nobody slips through the other.                           *)
CapturedIffMet ==
  [][turnCount' = turnCount + 1
       => (captured' <=> \/ cop' = thief'
                         \/ HalfWay(cop, cop') = HalfWay(thief, thief'))]_vars

(* Laying a board ends, with a board or with a refusal.                    *)
SetupEnds == [](phase \in {"drawing", "flooding"} => <>(phase \in {"live", "refused"}))
=============================================================================
