---------------------------- MODULE BoardProofs -----------------------------
(***************************************************************************)
(* The board and the chase on it: the engine on every board size, every    *)
(* start, every layout a seed may draw and every move limit; then the      *)
(* scent trail, the policies and the refused moves on every board, every   *)
(* kernel that fades to nothing, every path and every hunt.  The two       *)
(* components share no state, only the grid.                               *)
(***************************************************************************)
EXTENDS Engine, Chase, FiniteSetTheorems, WellFoundedInduction, TLAPS

(* A layout being judged, and the board in play, leave both starts free.   *)
StartsFree ==
  phase \in {"flooding", "live"} =>
    CopStart \in Free(barriers) /\ ThiefStart \in Free(barriers)

(* What the flood fill has seen: it is closed but for its frontier, and    *)
(* every closed set of free cells with the cop's start contains it.        *)
FloodInv ==
  phase = "flooding" =>
    /\ attempt < MaxAttempts
    /\ seen \subseteq Free(barriers) /\ frontier \subseteq seen
    /\ CopStart \in seen
    /\ \A c \in seen \ frontier : Neighbours(c) \cap Free(barriers) \subseteq seen
    /\ \A cells \in SUBSET Free(barriers) :
         CopStart \in cells /\ Closed(cells, barriers) => seen \subseteq cells

(* A game that is not over has moves left.                                 *)
MovesLeft == phase = "live" /\ ~over => turnCount < MaxMoves

Inv ==
  /\ TypeOK
  /\ StartsFree
  /\ FloodInv
  /\ MovesLeft
  /\ FairBoard
  /\ LegalPositions
  /\ LiveApart

-----------------------------------------------------------------------------
(* The board.                                                              *)

LEMMA CellCardinality ==
  /\ IsFiniteSet(Cell) /\ Cardinality(Cell) = GridSize * GridSize
  /\ \A layout \in SUBSET Cell :
       /\ IsFiniteSet(layout) /\ IsFiniteSet(Free(layout))
       /\ Cardinality(layout) \in Nat
       /\ Cardinality(Free(layout)) = GridSize * GridSize - Cardinality(layout)
<1>1. /\ IsFiniteSet(0 .. GridSize - 1)
      /\ Cardinality(0 .. GridSize - 1) = GridSize
  BY EngineAssumption, FS_Interval
<1>2. IsFiniteSet(Cell) /\ Cardinality(Cell) = GridSize * GridSize
  BY <1>1, FS_Product DEF Cell
<1>3. ASSUME NEW layout \in SUBSET Cell
      PROVE  /\ IsFiniteSet(layout) /\ IsFiniteSet(Free(layout))
             /\ Cardinality(layout) \in Nat
             /\ Cardinality(Free(layout)) = GridSize * GridSize - Cardinality(layout)
  <2>1. IsFiniteSet(layout) /\ IsFiniteSet(Free(layout))
    BY <1>2, FS_Subset DEF Free
  <2>2. Cardinality(Cell \ layout) = Cardinality(Cell) - Cardinality(Cell \cap layout)
    BY <1>2, FS_Difference, <2>1
  <2>3. Cell \cap layout = layout
    OBVIOUS
  <2>4. QED
    BY <1>2, <2>1, <2>2, <2>3, FS_CardinalityType DEF Free
<1>4. QED
  BY <1>2, <1>3

LEMMA Moves ==
  ASSUME NEW cell \in Int \X Int, NEW action \in Action
  PROVE  /\ Toward(cell, action) \in Int \X Int
         /\ Toward(cell, action)[1] = cell[1] + Delta[action][1]
         /\ Toward(cell, action)[2] = cell[2] + Delta[action][2]
         /\ Delta[action] \in {<<-1, 0>>, <<1, 0>>, <<0, 1>>, <<0, -1>>, <<0, 0>>}
BY DEF Toward, Delta, Action

(* When nothing is left to explore, the count of _is_connected is right:   *)
(* the flood fill reached every free cell exactly when the layout is       *)
(* connected.                                                              *)
LEMMA FloodVerdict ==
  ASSUME Inv, phase = "flooding", frontier = {}
  PROVE  FillsBoard <=> Connected(barriers)
<1> DEFINE free == Free(barriers)
<1>1. seen \in SUBSET free /\ CopStart \in seen /\ Closed(seen, barriers)
  BY DEF Inv, FloodInv, Closed
<1>2. ASSUME FillsBoard
      PROVE  Connected(barriers)
  <2>1. Cardinality(seen) = Cardinality(free)
    BY <1>2, CellCardinality DEF FillsBoard, Inv, TypeOK
  <2>2. seen = free
    BY <2>1, <1>1, CellCardinality, FS_Subset DEF Inv, TypeOK
  <2>3. QED
    BY <2>2 DEF Connected, Inv, FloodInv
<1>3. ASSUME Connected(barriers)
      PROVE  FillsBoard
  <2>1. seen = free
    BY <1>1, <1>3 DEF Connected
  <2>2. QED
    BY <2>1, CellCardinality DEF FillsBoard, Inv, TypeOK
<1>4. QED
  BY <1>2, <1>3

-----------------------------------------------------------------------------
(* The inductive invariant.                                                *)

LEMMA InitInv == Init => Inv
<1> SUFFICES ASSUME Init PROVE Inv
  OBVIOUS
<1>1. TypeOK
  <2>1. CopStart \in Cell /\ ThiefStart \in Cell /\ 0 \in 0 .. MaxAttempts
        /\ 0 \in 0 .. MaxMoves
    BY EngineAssumption
  <2>2. captured \in BOOLEAN /\ over \in BOOLEAN
    BY DEF Init
  <2>3. QED
    BY <2>1, <2>2 DEF Init, TypeOK, NoBoard
<1>2. QED
  BY <1>1
  DEF Init, Inv, StartsFree, FloodInv, MovesLeft, FairBoard, LegalPositions,
      LiveApart

(* A board that is laid with free starts and is connected starts a game.   *)
LEMMA StartPlayInv ==
  ASSUME Inv, StartPlay, barriers' \in SUBSET Cell, Connected(barriers)',
         CopStart \in Free(barriers)', ThiefStart \in Free(barriers)',
         UNCHANGED <<seed, attempt, seen, frontier>>
  PROVE  Inv'
<1>1. TypeOK'
  <2>1. CopStart \in Cell /\ ThiefStart \in Cell /\ 0 \in 0 .. MaxMoves
    BY EngineAssumption
  <2>2. captured' \in BOOLEAN /\ over' \in BOOLEAN
    BY DEF StartPlay
  <2>3. QED
    BY <2>1, <2>2 DEF StartPlay, Inv, TypeOK
<1>2. QED
  BY <1>1, EngineAssumption
  DEF StartPlay, Inv, StartsFree, FloodInv, MovesLeft, FairBoard,
      LegalPositions, LiveApart

(* The bare board is connected: a closed set of cells that has the start   *)
(* reaches every cell, row by row and column by column.                    *)
Apart(m, n) == IF m <= n THEN n - m ELSE m - n

Afar(cell) == Apart(CopStart[1], cell[1]) + Apart(CopStart[2], cell[2])

(* Every cell but the start has a neighbour on the board that is nearer.   *)
LEMMA Nearer ==
  ASSUME NEW cell \in Cell, cell # CopStart
  PROVE  \E near \in Cell : /\ Afar(near) < Afar(cell)
                            /\ cell \in Neighbours(near)
<1> DEFINE size == 0 .. GridSize - 1
<1>1. PICK row \in size, col \in size : cell = <<row, col>>
  BY DEF Cell
<1>2. PICK row0 \in size, col0 \in size : CopStart = <<row0, col0>>
  BY EngineAssumption DEF Cell
<1>3. row # row0 \/ col # col0
  BY <1>1, <1>2
<1>4. ASSUME NEW near \in Cell, NEW action \in Action \ {"STAY"},
             Afar(near) < Afar(cell), cell = Toward(near, action)
      PROVE  \E c \in Cell : Afar(c) < Afar(cell) /\ cell \in Neighbours(c)
  BY <1>4 DEF Neighbours
<1>5. CASE row > row0
  <2> DEFINE near == <<row - 1, col>>
  <2>1. near \in Cell /\ cell = Toward(near, "S") /\ "S" \in Action \ {"STAY"}
    BY <1>1, <1>2, <1>5, EngineAssumption DEF Cell, Toward, Delta, Action
  <2>2. Afar(near) < Afar(cell)
    BY <1>1, <1>2, <1>5, EngineAssumption DEF Afar, Apart
  <2>3. QED
    BY <2>1, <2>2, <1>4
<1>6. CASE row < row0
  <2> DEFINE near == <<row + 1, col>>
  <2>1. near \in Cell /\ cell = Toward(near, "N") /\ "N" \in Action \ {"STAY"}
    BY <1>1, <1>2, <1>6, EngineAssumption DEF Cell, Toward, Delta, Action
  <2>2. Afar(near) < Afar(cell)
    BY <1>1, <1>2, <1>6, EngineAssumption DEF Afar, Apart
  <2>3. QED
    BY <2>1, <2>2, <1>4
<1>7. CASE col > col0
  <2> DEFINE near == <<row, col - 1>>
  <2>1. near \in Cell /\ cell = Toward(near, "E") /\ "E" \in Action \ {"STAY"}
    BY <1>1, <1>2, <1>7, EngineAssumption DEF Cell, Toward, Delta, Action
  <2>2. Afar(near) < Afar(cell)
    BY <1>1, <1>2, <1>7, EngineAssumption DEF Afar, Apart
  <2>3. QED
    BY <2>1, <2>2, <1>4
<1>8. CASE col < col0
  <2> DEFINE near == <<row, col + 1>>
  <2>1. near \in Cell /\ cell = Toward(near, "W") /\ "W" \in Action \ {"STAY"}
    BY <1>1, <1>2, <1>8, EngineAssumption DEF Cell, Toward, Delta, Action
  <2>2. Afar(near) < Afar(cell)
    BY <1>1, <1>2, <1>8, EngineAssumption DEF Afar, Apart
  <2>3. QED
    BY <2>1, <2>2, <1>4
<1>9. QED
  BY <1>3, <1>5, <1>6, <1>7, <1>8, EngineAssumption

(* The least-number principle, for a set of numbers.                       *)
LEMMA LeastNatural ==
  ASSUME NEW S \in SUBSET Nat, S # {}
  PROVE  \E x \in S : \A y \in S : x <= y
<1> DEFINE less == OpToRel(<, Nat)
<1>1. IsWellFoundedOn(less, Nat)
  BY NatLessThanWellFounded
<1>2. \A x, y \in Nat : x < y => <<x, y>> \in less
  BY DEF OpToRel
<1> HIDE DEF less
<1>3. PICK x \in S : \A y \in S : ~ (<<y, x>> \in less)
  BY <1>1, WFMin
<1>4. ASSUME NEW y \in S
      PROVE  x <= y
  <2>1. x \in Nat /\ y \in Nat /\ ~ (y < x)
    BY <1>2, <1>3
  <2>2. QED
    BY <2>1
<1>5. QED
  BY <1>4

LEMMA BareConnected == Connected({})
<1> SUFFICES ASSUME NEW cells \in SUBSET Cell, CopStart \in cells,
                    Closed(cells, {}), NEW lost \in Cell, lost \notin cells
             PROVE  FALSE
  BY DEF Connected, Free
<1> DEFINE far == {Afar(cell) : cell \in Cell \ cells}
<1>1. \A cell \in Cell : Afar(cell) \in Nat
  BY EngineAssumption DEF Afar, Apart, Cell
<1>2. far \in SUBSET Nat /\ Afar(lost) \in far
  BY <1>1
<1>3. PICK least \in far : \A d \in far : least <= d
  BY <1>2, LeastNatural
<1>4. PICK cell \in Cell \ cells : least = Afar(cell)
  BY <1>3
<1>5. PICK near \in Cell : Afar(near) < Afar(cell) /\ cell \in Neighbours(near)
  BY <1>4, Nearer
<1>6. near \in cells
  BY <1>1, <1>3, <1>4, <1>5
<1>7. cell \in cells
  BY <1>4, <1>5, <1>6 DEF Closed, Free
<1>8. QED
  BY <1>4, <1>7

LEMMA BareBoardInv ==
  ASSUME Inv, BareBoard
  PROVE  Inv'
<1>1. barriers' \in SUBSET Cell /\ Connected(barriers)'
  <2>1. barriers' = {}
    BY DEF BareBoard
  <2>2. QED
    BY <2>1, BareConnected
<1>2. CopStart \in Free(barriers)' /\ ThiefStart \in Free(barriers)'
  BY EngineAssumption DEF BareBoard, Free
<1>3. QED
  BY <1>1, <1>2, StartPlayInv DEF BareBoard

LEMMA DrawInv ==
  ASSUME Inv, Draw
  PROVE  Inv'
<1>1. CASE phase' = "refused"
  <2>1. UNCHANGED <<attempt, barriers, seen, frontier, episode, laid>>
    BY <1>1 DEF Draw, Refuse, search
  <2>2. TypeOK'
    BY <1>1, <2>1 DEF Draw, Inv, TypeOK, episode
  <2>3. QED
    BY <1>1, <2>2
    DEF Inv, StartsFree, FloodInv, MovesLeft, FairBoard, LegalPositions, LiveApart
<1>2. CASE phase' # "refused"
  <2>1. /\ phase' = "flooding" /\ attempt # MaxAttempts
        /\ ~ (MaxBarriers > Cardinality(Candidates))
        /\ barriers' = Sample(seed, attempt) /\ seed \in Seeds /\ seed' = seed
        /\ seen' = {CopStart} /\ frontier' = {CopStart}
        /\ UNCHANGED <<attempt, cop, thief, turnCount, captured, over, laid>>
    BY <1>2 DEF Draw, Refuse, episode, Inv, TypeOK
  <2>2. IsFiniteSet(Candidates)
    BY CellCardinality, FS_Subset DEF Candidates
  <2>3. MaxBarriers <= Cardinality(Candidates)
    BY <2>1, <2>2, FS_CardinalityType, EngineAssumption
  <2>4. barriers' \subseteq Candidates /\ attempt \in 0 .. MaxAttempts
    BY <2>1, <2>3, SampleAssumption DEF Inv, TypeOK
  <2>5. /\ barriers' \subseteq Cell
        /\ CopStart \in Free(barriers)' /\ ThiefStart \in Free(barriers)'
    BY <2>4, EngineAssumption DEF Candidates, Free
  <2>6. TypeOK'
    BY <2>1, <2>5, EngineAssumption DEF Inv, TypeOK
  <2>7. FloodInv'
    BY <2>1, <2>4, <2>5, EngineAssumption DEF FloodInv
  <2>8. QED
    BY <2>1, <2>5, <2>6, <2>7
    DEF Inv, StartsFree, MovesLeft, FairBoard, LegalPositions, LiveApart
<1>3. QED
  BY <1>1, <1>2

LEMMA FloodKeepsInv ==
  ASSUME Inv, NEW cell \in frontier, Flood(cell)
  PROVE  Inv'
<1>1. /\ phase = "flooding" /\ phase' = "flooding"
      /\ seen' = seen \cup FreshFrom(cell)
      /\ frontier' = (frontier \ {cell}) \cup FreshFrom(cell)
      /\ UNCHANGED <<seed, attempt, barriers, cop, thief, turnCount, captured,
                     over, laid>>
  BY DEF Flood, episode
<1>2. FreshFrom(cell) = (Neighbours(cell) \cap Free(barriers)) \ seen
  BY DEF FreshFrom, Free
<1>3. cell \in seen /\ seen' \subseteq Free(barriers)
  BY <1>1, <1>2 DEF Inv, FloodInv
<1>4. TypeOK'
  BY <1>1, <1>2 DEF Inv, TypeOK, Free
<1>5. \A c \in seen' \ frontier' :
        Neighbours(c) \cap Free(barriers) \subseteq seen'
  BY <1>1, <1>2 DEF Inv, FloodInv
<1>6. ASSUME NEW cells \in SUBSET Free(barriers), CopStart \in cells,
             Closed(cells, barriers)
      PROVE  seen' \subseteq cells
  <2>1. seen \subseteq cells
    BY <1>1, <1>6 DEF Inv, FloodInv
  <2>2. Neighbours(cell) \cap Free(barriers) \subseteq cells
    BY <1>3, <1>6, <2>1 DEF Closed
  <2>3. QED
    BY <1>1, <1>2, <2>1, <2>2
<1>7. FloodInv'
  BY <1>1, <1>2, <1>3, <1>5, <1>6 DEF FloodInv, Inv
<1>8. QED
  BY <1>1, <1>4, <1>7
  DEF Inv, StartsFree, MovesLeft, FairBoard, LegalPositions, LiveApart

LEMMA JudgeInv ==
  ASSUME Inv, Judge
  PROVE  Inv'
<1>1. CASE FillsBoard
  <2>1. StartPlay /\ UNCHANGED <<seed, attempt, barriers, seen, frontier>>
    BY <1>1 DEF Judge, search
  <2>2. Connected(barriers)
    BY <1>1, FloodVerdict DEF Judge
  <2>3. CopStart \in Free(barriers) /\ ThiefStart \in Free(barriers)
    BY DEF Judge, Inv, StartsFree
  <2>4. QED
    BY <2>1, <2>2, <2>3, StartPlayInv DEF Inv, TypeOK
<1>2. CASE ~FillsBoard
  <2>1. /\ phase' = "drawing" /\ attempt' = attempt + 1 /\ attempt < MaxAttempts
        /\ UNCHANGED <<seed, barriers, seen, frontier, cop, thief, turnCount,
                       captured, over, laid>>
    BY <1>2 DEF Judge, episode, Inv, FloodInv
  <2>2. TypeOK'
    BY <2>1, EngineAssumption DEF Inv, TypeOK
  <2>3. QED
    BY <2>1, <2>2
    DEF Inv, StartsFree, FloodInv, MovesLeft, FairBoard, LegalPositions, LiveApart
<1>3. QED
  BY <1>1, <1>2

LEMMA ResetInv ==
  ASSUME Inv, Reset
  PROVE  Inv'
<1>1. /\ phase' = "drawing" /\ attempt' = 0
      /\ UNCHANGED <<seed, barriers, seen, frontier, cop, thief, turnCount,
                     captured, over, laid>>
  BY DEF Reset, episode
<1>2. TypeOK'
  BY <1>1, EngineAssumption DEF Inv, TypeOK
<1>3. QED
  BY <1>1, <1>2
  DEF Inv, StartsFree, FloodInv, MovesLeft, FairBoard, LegalPositions, LiveApart

LEMMA StepInv ==
  ASSUME Inv, NEW copAction \in Action, NEW thiefAction \in Action,
         Step(copAction, thiefAction)
  PROVE  Inv'
<1>1. /\ phase = "live" /\ phase' = "live" /\ ~over
      /\ cop' = Resolved(cop, copAction) /\ thief' = Resolved(thief, thiefAction)
      /\ captured' = Caught(cop', thief') /\ turnCount' = turnCount + 1
      /\ over' = (captured' \/ turnCount' >= MaxMoves)
      /\ UNCHANGED <<seed, attempt, barriers, seen, frontier, laid>>
  BY DEF Step, search
<1>2. cop' \in Free(barriers) /\ thief' \in Free(barriers)
  BY <1>1 DEF Resolved, Inv, LegalPositions, Free
<1>3. turnCount < MaxMoves
  BY <1>1 DEF Inv, MovesLeft
<1>4. TypeOK'
  <2>1. captured' \in BOOLEAN /\ over' \in BOOLEAN
    BY <1>1 DEF Caught
  <2>2. turnCount' \in 0 .. MaxMoves
    BY <1>1, <1>3, EngineAssumption DEF Inv, TypeOK
  <2>3. cop' \in Cell /\ thief' \in Cell
    BY <1>2 DEF Free
  <2>4. QED
    BY <1>1, <2>1, <2>2, <2>3 DEF Inv, TypeOK
<1>5. LiveApart' /\ MovesLeft'
  <2>1. /\ over' <=> captured' \/ turnCount' >= MaxMoves
        /\ captured' <=> Caught(cop', thief')
    BY <1>1
  <2>2. ~captured' => cop' # thief'
    BY <2>1 DEF Caught
  <2>3. turnCount' >= MaxMoves \/ turnCount' < MaxMoves
    BY <1>4, EngineAssumption DEF TypeOK
  <2>4. turnCount' < MaxMoves => ~ (turnCount' >= MaxMoves)
    BY <1>4, EngineAssumption DEF TypeOK
  <2>5. QED
    BY <1>1, <2>1, <2>2, <2>3, <2>4 DEF LiveApart, MovesLeft
<1>6. QED
  BY <1>1, <1>2, <1>4, <1>5
  DEF Inv, StartsFree, FloodInv, FairBoard, LegalPositions

LEMMA NextInv == Inv /\ [Next]_vars => Inv'
<1> SUFFICES ASSUME Inv, [Next]_vars
             PROVE  Inv'
  OBVIOUS
<1>1. CASE UNCHANGED vars
  BY <1>1
  DEF vars, search, episode, Inv, TypeOK, StartsFree, FloodInv, MovesLeft,
      FairBoard, LegalPositions, LiveApart
<1>2. QED
  BY <1>1, BareBoardInv, DrawInv, FloodKeepsInv, JudgeInv, ResetInv, StepInv
  DEF Next

(* Every reachable state of an episode satisfies the strengthened invariant.*)
THEOREM Invariance == Spec => []Inv
BY InitInv, NextInv, PTL DEF Spec

(* The episode's state always has its declared shape.                      *)
THEOREM TypeCorrect == Spec => []TypeOK
BY Invariance, PTL DEF Inv

(* A game is only played on a board whose free cells all reach each other. *)
THEOREM BoardsAreFair == Spec => []FairBoard
BY Invariance, PTL DEF Inv

(* No move takes an agent into a barrier or off the board.                 *)
THEOREM PositionsAreLegal == Spec => []LegalPositions
BY Invariance, PTL DEF Inv

(* A game is played on a fair board, between agents standing on it.        *)
THEOREM GamesAreFair == Spec => []FairGame
BY TypeCorrect, BoardsAreFair, PositionsAreLegal, PTL DEF FairGame

(* The agents are apart as long as the game is on.                         *)
THEOREM AgentsApart == Spec => []LiveApart
BY Invariance, PTL DEF Inv

(* The flood fill throws no connected layout away.                         *)
THEOREM OnlyWalledRejected == Spec => RejectsOnlyWalled
<1>1. ASSUME Inv, [Next]_vars, phase = "flooding", phase' = "drawing"
      PROVE  ~Connected(barriers)
  <2>1. Judge /\ ~FillsBoard
    BY <1>1
    DEF Next, BareBoard, Draw, Flood, Judge, StartPlay, Reset, Step, vars
  <2>2. QED
    BY <1>1, <2>1, FloodVerdict DEF Judge
<1>2. Inv /\ [Next]_vars
        => [phase = "flooding" /\ phase' = "drawing" => ~Connected(barriers)]_vars
  BY <1>1
<1>3. QED
  BY Invariance, <1>2, PTL DEF Spec, RejectsOnlyWalled

-----------------------------------------------------------------------------
(* Captures.                                                               *)

(* Agents that start their turn apart meet at half time exactly when they  *)
(* exchange cells: a midpoint tells the two ends of a unit step, up to its *)
(* direction.                                                              *)
LEMMA MeetingHalfWay ==
  ASSUME NEW p \in Int \X Int, NEW q \in Int \X Int, p # q,
         NEW a \in Action, NEW b \in Action,
         NEW newP \in {p, Toward(p, a)}, NEW newQ \in {q, Toward(q, b)}
  PROVE  HalfWay(p, newP) = HalfWay(q, newQ) <=> newP = q /\ newQ = p
<1> DEFINE Offsets == {<<-1, 0>>, <<1, 0>>, <<0, 1>>, <<0, -1>>, <<0, 0>>}
<1>1. PICK p1 \in Int, p2 \in Int, q1 \in Int, q2 \in Int :
        p = <<p1, p2>> /\ q = <<q1, q2>>
  OBVIOUS
<1>2. PICK d \in Offsets : newP = <<p1 + d[1], p2 + d[2]>>
  BY <1>1, Moves DEF Toward
<1>3. PICK e \in Offsets : newQ = <<q1 + e[1], q2 + e[2]>>
  BY <1>1, Moves DEF Toward
<1>4. HalfWay(p, newP) = HalfWay(q, newQ)
        <=> 2 * p1 + d[1] = 2 * q1 + e[1] /\ 2 * p2 + d[2] = 2 * q2 + e[2]
  BY <1>1, <1>2, <1>3 DEF HalfWay
<1>5. newP = q /\ newQ = p
        <=> /\ p1 + d[1] = q1 /\ p2 + d[2] = q2
            /\ q1 + e[1] = p1 /\ q2 + e[2] = p2
  BY <1>1, <1>2, <1>3
<1>6. p1 # q1 \/ p2 # q2
  BY <1>1
<1>7. QED
  BY <1>4, <1>5, <1>6

(* The capture rule misses no meeting and invents none.                    *)
THEOREM CaptureRule == Spec => CapturedIffMet
<1>1. ASSUME Inv, [Next]_vars, turnCount' = turnCount + 1
      PROVE  captured' <=> \/ cop' = thief'
                           \/ HalfWay(cop, cop') = HalfWay(thief, thief')
  <2>1. turnCount' # turnCount /\ turnCount' # 0
    BY <1>1 DEF Inv, TypeOK
  <2>2. PICK copAction \in Action, thiefAction \in Action :
          Step(copAction, thiefAction)
    BY <1>1, <2>1
    DEF Next, BareBoard, Draw, Refuse, Flood, Judge, StartPlay, Reset, vars, episode
  <2>3. cop \in Int \X Int /\ thief \in Int \X Int /\ cop # thief
    <3>1. cop \in Cell /\ thief \in Cell /\ cop # thief
      BY <1>1, <2>2 DEF Step, Inv, TypeOK, LiveApart
    <3>2. Cell \subseteq Int \X Int
      BY EngineAssumption DEF Cell
    <3>3. QED
      BY <3>1, <3>2
  <2>4. cop' \in {cop, Toward(cop, copAction)}
        /\ thief' \in {thief, Toward(thief, thiefAction)}
    BY <2>2 DEF Step, Resolved
  <2>5. HalfWay(cop, cop') = HalfWay(thief, thief')
          <=> cop' = thief /\ thief' = cop
    BY <2>2, <2>3, <2>4, MeetingHalfWay
  <2>6. captured' <=> Caught(cop', thief')
    BY <2>2 DEF Step
  <2>7. QED
    BY <2>5, <2>6 DEF Caught
<1>2. Inv /\ [Next]_vars
        => [turnCount' = turnCount + 1
              => (captured' <=> \/ cop' = thief'
                                \/ HalfWay(cop, cop') = HalfWay(thief, thief'))]_vars
  BY <1>1
<1>3. QED
  BY Invariance, <1>2, PTL DEF Spec, CapturedIffMet

-----------------------------------------------------------------------------
(* Every reset lays the same board: the draws before the current one were  *)
(* all walled, so the board in play is the first connected draw.           *)

FirstConnected(layout) ==
  \E k \in 0 .. MaxAttempts :
    /\ layout = Sample(seed, k) /\ Connected(layout)
    /\ \A j \in 0 .. k - 1 : ~Connected(Sample(seed, j))

DrawInvariant ==
  /\ seed # NoSeed => \A j \in 0 .. attempt - 1 : ~Connected(Sample(seed, j))
  /\ phase \in {"flooding", "live"} /\ seed # NoSeed
       => barriers = Sample(seed, attempt)
  /\ phase \in {"flooding", "live"} => NoBoard # barriers
  /\ phase = "live" => laid # NoBoard
  /\ phase \in {"live"} /\ seed = NoSeed => barriers = {}
  /\ phase = "flooding" => seed # NoSeed
  /\ laid # NoBoard => IF seed = NoSeed THEN laid = {} ELSE FirstConnected(laid)

LEMMA FirstIsUnique ==
  ASSUME NEW x, NEW y, FirstConnected(x), FirstConnected(y)
  PROVE  x = y
<1>1. PICK k \in 0 .. MaxAttempts :
        /\ x = Sample(seed, k) /\ Connected(x)
        /\ \A j \in 0 .. k - 1 : ~Connected(Sample(seed, j))
  BY DEF FirstConnected
<1>2. PICK m \in 0 .. MaxAttempts :
        /\ y = Sample(seed, m) /\ Connected(y)
        /\ \A j \in 0 .. m - 1 : ~Connected(Sample(seed, j))
  BY DEF FirstConnected
<1>3. ~ (k < m) /\ ~ (m < k)
  BY <1>1, <1>2, EngineAssumption
<1>4. k = m
  BY <1>3, EngineAssumption
<1>5. QED
  BY <1>1, <1>2, <1>4

LEMMA DrawInvariantNext == Inv /\ DrawInvariant /\ [Next]_vars => DrawInvariant'
<1> SUFFICES ASSUME Inv, DrawInvariant, [Next]_vars
             PROVE  DrawInvariant'
  OBVIOUS
<1>1. CASE BareBoard
  <2>1. /\ phase' = "live" /\ seed = NoSeed /\ seed' = NoSeed /\ barriers' = {}
        /\ laid' = IF laid = NoBoard THEN barriers' ELSE laid
    BY <1>1 DEF BareBoard, StartPlay
  <2>2. NoBoard # {}
    BY DEF NoBoard
  <2>3. QED
    BY <2>1, <2>2 DEF DrawInvariant
<1>2. CASE Draw
  <2>1. /\ seed' = seed /\ seed # NoSeed /\ UNCHANGED <<attempt, laid>>
        /\ \/ phase' = "refused" /\ barriers' = barriers
           \/ phase' = "flooding" /\ barriers' = Sample(seed, attempt)
    BY <1>2 DEF Draw, Refuse, search
  <2>2. FirstConnected(laid)' <=> FirstConnected(laid)
    BY <2>1 DEF FirstConnected
  <2>3. phase' = "flooding" => NoBoard # barriers'
    BY <1>2, DrawInv DEF Inv, StartsFree, Free, NoBoard
  <2>4. QED
    BY <2>1, <2>2, <2>3 DEF DrawInvariant
<1>3. ASSUME NEW cell \in frontier, Flood(cell)
      PROVE  DrawInvariant'
  <2>1. phase = "flooding" /\ UNCHANGED <<seed, phase, attempt, barriers, laid>>
    BY <1>3 DEF Flood
  <2>2. QED
    BY <2>1 DEF DrawInvariant, FirstConnected
<1>4. CASE Judge /\ FillsBoard
  <2>1. /\ phase = "flooding" /\ phase' = "live"
        /\ UNCHANGED <<seed, attempt, barriers>>
        /\ laid' = IF laid = NoBoard THEN barriers ELSE laid
    BY <1>4 DEF Judge, StartPlay, search
  <2>2. Connected(barriers) /\ seed # NoSeed /\ barriers = Sample(seed, attempt)
        /\ attempt \in 0 .. MaxAttempts
    BY <1>4, <2>1, FloodVerdict DEF Judge, DrawInvariant, Inv, TypeOK
  <2>3. FirstConnected(barriers)
    BY <2>2 DEF FirstConnected, DrawInvariant
  <2>4. FirstConnected(laid')
    BY <2>1, <2>2, <2>3 DEF DrawInvariant
  <2>5. FirstConnected(laid)'
    BY <2>1, <2>4 DEF FirstConnected
  <2>6. QED
    BY <2>1, <2>2, <2>5 DEF DrawInvariant, NoBoard
<1>5. CASE Judge /\ ~FillsBoard
  <2>1. /\ phase = "flooding" /\ phase' = "drawing" /\ attempt' = attempt + 1
        /\ UNCHANGED <<seed, barriers, laid>>
    BY <1>5 DEF Judge
  <2>2. ~Connected(Sample(seed, attempt)) /\ seed # NoSeed
    BY <1>5, <2>1, FloodVerdict DEF Judge, DrawInvariant
  <2>3. \A j \in 0 .. attempt' - 1 : ~Connected(Sample(seed, j))
    BY <2>1, <2>2 DEF DrawInvariant, Inv, TypeOK
  <2>4. FirstConnected(laid)' <=> FirstConnected(laid)
    BY <2>1 DEF FirstConnected
  <2>5. QED
    BY <2>1, <2>2, <2>3, <2>4 DEF DrawInvariant
<1>6. CASE Reset
  <2>1. phase' = "drawing" /\ attempt' = 0 /\ UNCHANGED <<seed, laid>>
    BY <1>6 DEF Reset
  <2>2. FirstConnected(laid)' <=> FirstConnected(laid)
    BY <2>1 DEF FirstConnected
  <2>3. \A j \in 0 .. attempt' - 1 : FALSE
    BY <2>1
  <2>4. QED
    BY <2>1, <2>2, <2>3 DEF DrawInvariant
<1>7. ASSUME NEW copAction \in Action, NEW thiefAction \in Action,
             Step(copAction, thiefAction)
      PROVE  DrawInvariant'
  <2>1. UNCHANGED <<seed, phase, attempt, barriers, laid>>
    BY <1>7 DEF Step, search
  <2>2. QED
    BY <2>1 DEF DrawInvariant, FirstConnected
<1>8. CASE UNCHANGED vars
  <2>1. UNCHANGED <<seed, phase, attempt, barriers, laid>>
    BY <1>8 DEF vars, search
  <2>2. QED
    BY <2>1 DEF DrawInvariant, FirstConnected
<1>9. QED
  BY <1>1, <1>2, <1>3, <1>4, <1>5, <1>6, <1>7, <1>8 DEF Next

(* The board is a function of the contract: each reset lays the first one. *)
THEOREM BoardIsDerived == Spec => []SameBoard
<1>1. Init => DrawInvariant
  BY DEF Init, DrawInvariant
<1>2. Inv /\ DrawInvariant => SameBoard
  <2> SUFFICES ASSUME Inv, DrawInvariant, phase = "live"
               PROVE  barriers = laid
    BY DEF SameBoard
  <2>1. CASE seed = NoSeed
    BY <2>1 DEF DrawInvariant
  <2>2. CASE seed # NoSeed
    <3>1. FirstConnected(barriers)
      BY <2>2 DEF DrawInvariant, FirstConnected, Inv, TypeOK, FairBoard
    <3>2. FirstConnected(laid)
      BY <2>2 DEF DrawInvariant
    <3>3. QED
      BY <3>1, <3>2, FirstIsUnique
  <2>3. QED
    BY <2>1, <2>2
<1>3. QED
  BY Invariance, <1>1, <1>2, DrawInvariantNext, PTL DEF Spec

-----------------------------------------------------------------------------
(* The moves that a step away from a cell can be, one by one.              *)
LEMMA TowardIs ==
  ASSUME NEW x \in Int, NEW y \in Int
  PROVE  /\ Toward(<<x, y>>, "N") = <<x - 1, y>>
         /\ Toward(<<x, y>>, "S") = <<x + 1, y>>
         /\ Toward(<<x, y>>, "E") = <<x, y + 1>>
         /\ Toward(<<x, y>>, "W") = <<x, y - 1>>
         /\ Toward(<<x, y>>, "STAY") = <<x, y>>
BY DEF Toward, Delta

LEMMA CellIs ==
  ASSUME NEW cell \in Cell
  PROVE  \E x, y \in Int : cell = <<x, y>> /\ cell[1] = x /\ cell[2] = y
BY ChaseAssumption DEF Cell

LEMMA TowardInt ==
  ASSUME NEW cell \in Cell, NEW m \in Action
  PROVE  /\ Toward(cell, m)[1] \in Int /\ Toward(cell, m)[2] \in Int
         /\ m # "STAY" => Toward(cell, m) # cell
         /\ Toward(cell, "STAY") = cell
<1>1. PICK x, y \in Int : cell = <<x, y>>
  BY CellIs
<1>2. /\ Toward(cell, "N") = <<x - 1, y>> /\ Toward(cell, "S") = <<x + 1, y>>
      /\ Toward(cell, "E") = <<x, y + 1>> /\ Toward(cell, "W") = <<x, y - 1>>
      /\ Toward(cell, "STAY") = <<x, y>>
  BY <1>1, TowardIs
<1>3. CASE m = "N"
  BY <1>1, <1>2, <1>3
<1>4. CASE m = "S"
  BY <1>1, <1>2, <1>4
<1>5. CASE m = "E"
  BY <1>1, <1>2, <1>5
<1>6. CASE m = "W"
  BY <1>1, <1>2, <1>6
<1>7. CASE m = "STAY"
  BY <1>1, <1>2, <1>7
<1> QED
  BY <1>3, <1>4, <1>5, <1>6, <1>7 DEF Action

LEMMA LandingCell ==
  ASSUME NEW cell \in Cell, NEW m \in Action, NEW others
  PROVE  Landing(cell, m, others) \in Cell
BY DEF Landing

(* Distances.                                                              *)
LEMMA AbsInt == ASSUME NEW n \in Int PROVE Abs(n) \in Nat /\ (Abs(n) = 0 <=> n = 0)
BY DEF Abs

LEMMA ManhattanNat ==
  ASSUME NEW a, NEW b, a[1] \in Int, a[2] \in Int, b[1] \in Int, b[2] \in Int
  PROVE  Manhattan(a, b) \in Nat
BY DEF Manhattan, Abs

LEMMA CellsApart ==
  ASSUME NEW a \in Cell, NEW b \in Cell
  PROVE  /\ Manhattan(a, b) \in Nat /\ (Manhattan(a, b) = 0 <=> a = b)
         /\ Chebyshev(a, b) \in Nat /\ (Chebyshev(a, b) = 0 <=> a = b)
<1>1. PICK x, y \in Int : a = <<x, y>> /\ a[1] = x /\ a[2] = y
  BY CellIs
<1>2. PICK u, v \in Int : b = <<u, v>> /\ b[1] = u /\ b[2] = v
  BY CellIs
<1>3. a = b <=> x = u /\ y = v
  BY <1>1, <1>2
<1> QED
  BY <1>1, <1>2, <1>3 DEF Manhattan, Chebyshev, Larger, Abs

LEMMA ExactDivision ==
  ASSUME NEW n \in Nat \ {0}, NEW k \in Nat \ {0}, n % k = 0
  PROVE  n \div k \in Nat \ {0} /\ (n \div k) * k = n
<1>1. n \div k \in Int
  OBVIOUS
<1>2. n = k * (n \div k) + (n % k)
  OBVIOUS
<1>3. n = k * (n \div k)
  BY <1>1, <1>2
<1>4. n \div k >= 0
  OBVIOUS
<1>5. n \div k # 0
  BY <1>3
<1> QED
  BY <1>1, <1>3, <1>4, <1>5

LEMMA FalloffPos == Falloff \in Nat \ {0} /\ Falloff * (Radius + 1) = Centre
<1>1. Radius + 1 \in Nat \ {0} /\ Centre \in Nat \ {0} /\ Centre % (Radius + 1) = 0
  BY ChaseAssumption
<1> QED
  BY <1>1, ExactDivision DEF Falloff

(* A nonempty set of moves has a least one by any whole measure, and a     *)
(* greatest one.                                                           *)
LEMMA LeastMove ==
  ASSUME NEW S \in SUBSET Action, S # {}, NEW f \in [Action -> Int]
  PROVE  \E m \in S : \A n \in S : f[m] <= f[n]
<1>1. f["N"] \in Int /\ f["S"] \in Int /\ f["E"] \in Int /\ f["W"] \in Int /\ f["STAY"] \in Int
  BY DEF Action
<1>2. \A m \in S : m = "N" \/ m = "S" \/ m = "E" \/ m = "W" \/ m = "STAY"
  BY DEF Action
<1> QED
  BY <1>1, <1>2

LEMMA GreatestMove ==
  ASSUME NEW S \in SUBSET Action, S # {}, NEW f \in [Action -> Int]
  PROVE  \E m \in S : \A n \in S : f[m] >= f[n]
<1>1. f["N"] \in Int /\ f["S"] \in Int /\ f["E"] \in Int /\ f["W"] \in Int /\ f["STAY"] \in Int
  BY DEF Action
<1>2. \A m \in S : m = "N" \/ m = "S" \/ m = "E" \/ m = "W" \/ m = "STAY"
  BY DEF Action
<1> QED
  BY <1>1, <1>2

LEMMA PlaceInt == ASSUME NEW m \in Action PROVE Place(m) \in Int
<1>1. DOMAIN Order = 1 .. 5
  BY DEF Order
<1>2. \E i \in DOMAIN Order : Order[i] = m
  <2>1. /\ Order[1] = "N" /\ Order[2] = "S" /\ Order[3] = "E" /\ Order[4] = "W"
        /\ Order[5] = "STAY"
    BY DEF Order
  <2> QED
    BY <1>1, <2>1 DEF Action
<1>3. Place(m) \in DOMAIN Order
  BY <1>2 DEF Place
<1> QED
  BY <1>1, <1>3

LEMMA FirstIn == ASSUME NEW S \in SUBSET Action, S # {} PROVE First(S) \in S
<1> DEFINE f == [m \in Action |-> Place(m)]
<1>1. f \in [Action -> Int]
  BY PlaceInt
<1>2. \E m \in S : \A n \in S : f[m] <= f[n]
  BY <1>1, LeastMove
<1>3. \E m \in S : \A n \in S : Place(m) <= Place(n)
  BY <1>2
<1> QED
  BY <1>3 DEF First

-----------------------------------------------------------------------------
(* The trail.                                                              *)

(* A trail whose strongest cell, at a fresh centre less one decay, is c.   *)
Points(t, c) ==
  /\ t \in [Cell -> Nat]
  /\ t[c] = Centre - Decay
  /\ \A d \in Cell \ {c} : t[d] < Centre - Decay

LEMMA KernelIs ==
  ASSUME NEW c \in Cell, NEW d \in Cell
  PROVE  /\ Kernel(d, c) \in Int /\ Kernel(c, c) = Centre
         /\ d # c => Kernel(d, c) < Centre
<1>1. Chebyshev(d, c) \in Nat /\ (Chebyshev(d, c) = 0 <=> d = c) /\ Chebyshev(c, c) = 0
  BY CellsApart
<1>2. Falloff \in Nat \ {0} /\ Radius \in Nat /\ Centre \in Nat /\ Centre > 0
  BY FalloffPos, ChaseAssumption
<1>3. Kernel(c, c) = Centre
  BY <1>1, <1>2 DEF Kernel
<1>4. ASSUME d # c PROVE Kernel(d, c) \in Int /\ Kernel(d, c) < Centre
  <2> DEFINE n == Chebyshev(d, c)
  <2>1. n \in Nat /\ n >= 1
    BY <1>1, <1>4
  <2>2. Kernel(d, c) = 0 \/ Kernel(d, c) = Centre - Falloff * n
    BY DEF Kernel
  <2> HIDE DEF n
  <2>3. Falloff * n \in Int /\ Falloff * n >= 1
    BY <2>1, <1>2
  <2> QED
    BY <2>2, <2>3, <1>2
<1> QED
  BY <1>2, <1>3, <1>4

(* Wherever a trail has been, one more step makes it point at the cell     *)
(* stepped on.                                                             *)
LEMMA TrailStepPoints ==
  ASSUME NEW t \in [Cell -> Nat], \A d \in Cell : t[d] <= Centre - Decay,
         NEW c \in Cell
  PROVE  Points(TrailStep(t, c), c)
<1> DEFINE u == TrailStep(t, c)
<1>1. Centre \in Nat /\ Decay \in Nat \ {0} /\ Decay < Centre
  BY ChaseAssumption
<1>2. ASSUME NEW d \in Cell
      PROVE  u[d] \in Nat /\ u[d] <= Centre - Decay /\ (d # c => u[d] < Centre - Decay)
             /\ (d = c => u[d] = Centre - Decay)
  <2>1. t[d] \in Nat /\ t[d] <= Centre - Decay
    OBVIOUS
  <2>2. Kernel(d, c) \in Int /\ (d = c => Kernel(d, c) = Centre)
        /\ (d # c => Kernel(d, c) < Centre)
    BY KernelIs
  <2>3. u[d] = Larger(0, Larger(t[d], Kernel(d, c)) - Decay)
    BY DEF TrailStep, Emitted
  <2> HIDE DEF u
  <2> QED
    BY <1>1, <2>1, <2>2, <2>3 DEF Larger
<1>3. u \in [Cell -> Nat]
  BY <1>2 DEF TrailStep
<1> QED
  BY <1>2, <1>3 DEF Points

LEMMA NothingPoints == ASSUME NEW c \in Cell PROVE Points(TrailStep(Nothing, c), c)
<1>1. Nothing \in [Cell -> Nat] /\ \A d \in Cell : Nothing[d] <= Centre - Decay
  BY ChaseAssumption DEF Nothing
<1> QED
  BY <1>1, TrailStepPoints

LEMMA PointsBound ==
  ASSUME NEW c \in Cell, NEW t, Points(t, c)
  PROVE  t \in [Cell -> Nat] /\ \A d \in Cell : t[d] <= Centre - Decay
BY ChaseAssumption DEF Points

LEMMA StrongestIs ==
  ASSUME NEW c \in Cell, NEW t, Points(t, c)
  PROVE  StrongestCell(t) = c
<1> DEFINE P(k) == \A d \in Cell \ {k} : t[k] > t[d] \/ (t[k] = t[d] /\ Before(k, d))
<1>1. Centre \in Nat /\ Decay \in Nat /\ t[c] = Centre - Decay /\ t \in [Cell -> Nat]
      /\ \A d \in Cell \ {c} : t[d] < Centre - Decay
  BY ChaseAssumption DEF Points
<1>2. P(c)
  BY <1>1
<1>3. ASSUME NEW k \in Cell, P(k) PROVE k = c
  <2> SUFFICES ASSUME k # c PROVE FALSE
    OBVIOUS
  <2>1. t[k] < t[c] /\ t[k] \in Nat /\ t[c] \in Nat
    BY <1>1
  <2>2. t[k] > t[c] \/ t[k] = t[c]
    BY <1>3
  <2> QED
    BY <2>1, <2>2
<1>4. StrongestCell(t) = CHOOSE k \in Cell : P(k)
  BY DEF StrongestCell
<1> HIDE DEF P
<1> QED
  BY <1>2, <1>3, <1>4

-----------------------------------------------------------------------------
(* The choice.                                                             *)

LEMMA MassInt == ASSUME field \in [Cell -> Nat], NEW c PROVE Mass(c) \in Int
<1>1. \A d : At(d) \in Int
  BY DEF At
<1> QED
  BY <1>1 DEF Mass

LEMMA DensestIn ==
  ASSUME field \in [Cell -> Nat], NEW S \in SUBSET Action, S # {}
  PROVE  Densest(S) \in S
<1> DEFINE f == [m \in Action |-> Mass(Toward(me, m))]
           D == {m \in S : \A n \in S : Mass(Toward(me, m)) >= Mass(Toward(me, n))}
<1>1. f \in [Action -> Int]
  BY MassInt
<1>2. \E m \in S : \A n \in S : f[m] >= f[n]
  BY <1>1, GreatestMove
<1>3. D # {} /\ D \in SUBSET Action
  BY <1>2
<1>4. Densest(S) = First(D)
  BY DEF Densest
<1> HIDE DEF D
<1>5. First(D) \in D
  BY <1>3, FirstIn
<1> QED
  BY <1>4, <1>5 DEF D

LEMMA OptimalIs ==
  ASSUME NEW b \in Cell, NEW forbid, me \in Cell
  PROVE  /\ Optimal(b, forbid) \subseteq Open \ forbid
         /\ Open \ forbid # {} => Optimal(b, forbid) # {}
         /\ role = "cop" =>
              \A m \in Optimal(b, forbid) : \A n \in Open \ forbid : Distance(b, m) <= Distance(b, n)
<1> DEFINE f == [m \in Action |-> Distance(b, m)]
           S == Open \ forbid
<1>1. f \in [Action -> Int] /\ \A m \in Action : f[m] = Distance(b, m)
  BY TowardInt, ManhattanNat, CellIs DEF Distance
<1>2. S \in SUBSET Action
  BY DEF Open
<1>3. Optimal(b, forbid) = {m \in S : \A n \in S :
                              IF role = "cop" THEN Distance(b, m) <= Distance(b, n)
                                              ELSE Distance(b, m) >= Distance(b, n)}
  BY DEF Optimal
<1>4. ASSUME S # {} PROVE Optimal(b, forbid) # {}
  <2>1. \E m \in S : \A n \in S : f[m] <= f[n]
    BY <1>1, <1>2, <1>4, LeastMove
  <2>2. \E m \in S : \A n \in S : f[m] >= f[n]
    BY <1>1, <1>2, <1>4, GreatestMove
  <2> QED
    BY <1>1, <1>2, <1>3, <2>1, <2>2
<1> QED
  BY <1>3, <1>4

(* What is played: a move that is not refused, and, distance guiding us,   *)
(* one of the best that are open.                                          *)
LEMMA PreferredIs ==
  ASSUME NEW forbid \in SUBSET {"STAY"}
  PROVE  Preferred(forbid) \subseteq Action \ forbid
<1>1. Action \ forbid \in SUBSET Action /\ Action \ forbid # {}
  BY DEF Action
<1>2. First(Action \ forbid) \in Action \ forbid
  BY <1>1, FirstIn
<1> QED
  BY <1>2 DEF Preferred

LEMMA ForbiddenIs ==
  ASSUME NEW B
  PROVE  /\ Forbidden(B) \in SUBSET {"STAY"}
         /\ Stalled => "STAY" \in Forbidden(B)
         /\ role = "cop" /\ me \in B => "STAY" \in Forbidden(B)
         /\ ~(role = "cop" /\ me \in B) /\ ~Stalled => Forbidden(B) = {}
BY DEF Forbidden

LEMMA PolicyActionIs ==
  ASSUME field \in [Cell -> Nat], me \in Cell, NEW b \in Cell
  PROVE  /\ PolicyAction(b) \subseteq Optimal(b, Forbidden({b}))
         /\ policy # "learned" /\ Optimal(b, Forbidden({b})) # {} => PolicyAction(b) # {}
<1> DEFINE best == Optimal(b, Forbidden({b}))
<1>1. best \in SUBSET Action
  BY OptimalIs DEF Open
<1> HIDE DEF best
<1>2. best # {} => Densest(best) \in best /\ First(best) \in best
  BY <1>1, DensestIn, FirstIn
<1> QED
  BY <1>2 DEF PolicyAction, Primary, Tiebreak, best

LEMMA BeliefsAreCells == Beliefs \subseteq Cell
BY DEF Beliefs

LEMMA AllowedIs ==
  ASSUME field \in [Cell -> Nat], me \in Cell, NEW move \in Allowed
  PROVE  /\ move \in Action
         /\ Stalled => move # "STAY"
         /\ Beliefs # {} /\ policy # "learned" /\ (\E n \in Open : n # "STAY") =>
              \E b \in Beliefs : move \in Optimal(b, Forbidden({b}))
<1>1. CASE Beliefs = {}
  BY <1>1, PreferredIs, ForbiddenIs DEF Allowed
<1>2. CASE Beliefs # {}
  <2>1. PICK b \in Beliefs :
          move \in IF PolicyAction(b) = {} THEN Preferred(Forbidden({b})) ELSE PolicyAction(b)
    BY <1>2 DEF Allowed
  <2>2. b \in Cell
    BY BeliefsAreCells
  <2>3. CASE PolicyAction(b) = {}
    <3>1. move \in Action \ Forbidden({b})
      BY <2>1, <2>3, PreferredIs, ForbiddenIs
    <3>2. ASSUME policy # "learned", NEW n \in Open, n # "STAY" PROVE FALSE
      <4>1. n \in Open \ Forbidden({b})
        BY <3>2, ForbiddenIs
      <4> QED
        BY <2>2, <2>3, <3>2, <4>1, OptimalIs, PolicyActionIs
    <3> QED
      BY <3>1, <3>2, ForbiddenIs
  <2>4. CASE PolicyAction(b) # {}
    <3>1. move \in Optimal(b, Forbidden({b})) /\ move \in Open \ Forbidden({b})
      BY <2>1, <2>2, <2>4, OptimalIs, PolicyActionIs
    <3> QED
      BY <3>1, ForbiddenIs DEF Open
  <2> QED
    BY <2>3, <2>4
<1> QED
  BY <1>1, <1>2

-----------------------------------------------------------------------------
(* The belief.                                                             *)

LEMMA NatProduct ==
  ASSUME NEW a \in Nat, NEW b \in Nat
  PROVE  a * b \in Nat
OBVIOUS

LEMMA PosProduct ==
  ASSUME NEW a \in Nat \ {0}, NEW b \in Nat \ {0}
  PROVE  a * b \in Nat \ {0}
OBVIOUS

LEMMA LessProduct ==
  ASSUME NEW a \in Nat, NEW b \in Nat, a < b, NEW k \in Nat \ {0}
  PROVE  k * a < k * b /\ a * k < b * k
<1>1. k * (b - a) > 0
  OBVIOUS
<1>2. k * (b - a) = k * b - k * a /\ a * k = k * a /\ b * k = k * b
  OBVIOUS
<1> QED
  BY <1>1, <1>2

LEMMA LeqProduct ==
  ASSUME NEW a \in Nat, NEW b \in Nat, a <= b, NEW k \in Nat
  PROVE  k * a <= k * b
<1>1. k * (b - a) >= 0
  OBVIOUS
<1>2. k * (b - a) = k * b - k * a
  OBVIOUS
<1> QED
  BY <1>1, <1>2

LEMMA WholePos == ASSUME unit \in Nat \ {0} PROVE unit * Whole \in Nat \ {0}
<1>1. Whole \in Nat \ {0}
  BY ChaseAssumption
<1> QED
  BY <1>1, PosProduct

LEMMA DepositNat ==
  ASSUME unit \in Nat \ {0}, NEW c \in Cell, NEW read
  PROVE  /\ Deposit(c, read) \in Nat
         /\ read \in Cell /\ c # read => Deposit(c, read) < Deposit(read, read)
<1>1. CASE read \notin Cell
  BY <1>1 DEF Deposit
<1>2. CASE read \in Cell
  <2> DEFINE w == unit * Whole
             n == Manhattan(c, read)
             k == Falloff * (Radius + 1 - n)
             m == Falloff * (Radius + 1)
  <2>1. w \in Nat \ {0} /\ Radius \in Nat /\ Falloff \in Nat \ {0}
    BY WholePos, ChaseAssumption, FalloffPos
  <2>2. n \in Nat /\ (n = 0 <=> c = read) /\ Manhattan(read, read) = 0
    BY <1>2, CellsApart
  <2>3. Deposit(c, read) = IF n > Radius THEN 0 ELSE k * w
    BY <1>2 DEF Deposit
  <2>4. Deposit(read, read) = m * w
    BY <1>2, <2>1, <2>2 DEF Deposit
  <2> HIDE DEF w, n
  <2>5. m \in Nat \ {0} /\ m * w \in Nat \ {0}
    BY <2>1, PosProduct
  <2>6. ASSUME n <= Radius
        PROVE  /\ k \in Nat /\ k * w \in Nat
               /\ n # 0 => k * w < m * w
    <3>1. Radius + 1 - n \in Nat /\ Radius + 1 \in Nat
      BY <2>1, <2>2, <2>6
    <3>2. k \in Nat
      BY <2>1, <3>1, NatProduct
    <3>3. n # 0 => k < m
      BY <2>1, <2>2, <3>1, LessProduct
    <3> HIDE DEF k, m
    <3>4. k * w \in Nat
      BY <2>1, <3>2, NatProduct
    <3> QED
      BY <2>1, <2>5, <3>2, <3>3, <3>4, LessProduct
  <2> HIDE DEF k, m
  <2> QED
    BY <1>2, <2>1, <2>2, <2>3, <2>4, <2>5, <2>6
<1> QED
  BY <1>1, <1>2

LEMMA AdvancedNat ==
  ASSUME unit \in Nat \ {0}, NEW f \in [Cell -> Nat], NEW read
  PROVE  Advanced(f, read) \in [Cell -> Nat]
<1>1. ASSUME NEW c \in Cell PROVE Keep * f[c] + Deposit(c, read) \in Nat
  <2>1. f[c] \in Nat /\ Keep \in Nat /\ Deposit(c, read) \in Nat
    BY ChaseAssumption, DepositNat
  <2>2. Keep * f[c] \in Nat
    BY <2>1, NatProduct
  <2> QED
    BY <2>1, <2>2
<1> QED
  BY <1>1 DEF Advanced

(* A field whose greatest mass is on one cell alone.                       *)
Peaks(f, c) == f[c] > 0 /\ \A d \in Cell \ {c} : f[d] < f[c]

(* However the field faded, reading one cell again keeps the peak on it.   *)
LEMMA AdvancedPeaks ==
  ASSUME unit \in Nat \ {0}, NEW f \in [Cell -> Nat], NEW c \in Cell,
         \A d \in Cell : f[d] <= f[c]
  PROVE  Peaks(Advanced(f, c), c)
<1> DEFINE g == Advanced(f, c)
<1>1. g \in [Cell -> Nat] /\ \A d \in Cell : g[d] = Keep * f[d] + Deposit(d, c)
  BY AdvancedNat DEF Advanced
<1>2. ASSUME NEW d \in Cell \ {c} PROVE g[d] < g[c]
  <2>1. f[d] \in Nat /\ f[c] \in Nat /\ f[d] <= f[c] /\ Keep \in Nat
    BY ChaseAssumption
  <2>2. Keep * f[d] <= Keep * f[c] /\ Keep * f[d] \in Nat /\ Keep * f[c] \in Nat
    BY <2>1, LeqProduct, NatProduct
  <2>3. /\ Deposit(d, c) \in Nat /\ Deposit(c, c) \in Nat /\ Deposit(d, c) < Deposit(c, c)
    BY DepositNat
  <2>4. g[d] = Keep * f[d] + Deposit(d, c) /\ g[c] = Keep * f[c] + Deposit(c, c)
    BY <1>1
  <2> HIDE DEF g
  <2> QED
    BY <2>2, <2>3, <2>4
<1>3. g[c] > 0
  <2>1. Deposit(c, c) = Centre * (unit * Whole)
    <3>1. Manhattan(c, c) = 0 /\ Radius \in Nat /\ Falloff * (Radius + 1) = Centre
      BY CellsApart, ChaseAssumption, FalloffPos
    <3> QED
      BY <3>1 DEF Deposit
  <2>2. Centre \in Nat \ {0} /\ unit * Whole \in Nat \ {0}
    BY ChaseAssumption, WholePos
  <2>3. Deposit(c, c) \in Nat \ {0}
    BY <2>1, <2>2, PosProduct
  <2>4. Keep * f[c] \in Nat
    BY ChaseAssumption, NatProduct
  <2>5. g[c] = Keep * f[c] + Deposit(c, c)
    BY <1>1
  <2> QED
    BY <2>3, <2>4, <2>5
<1> HIDE DEF g
<1> QED
  BY <1>2, <1>3 DEF Peaks, g

LEMMA BeliefIsPeak ==
  ASSUME field \in [Cell -> Nat], NEW c \in Cell, Peaks(field, c)
  PROVE  Beliefs = {c}
<1>1. field # Nothing
  BY DEF Peaks, Nothing
<1>2. \A d \in Cell : field[d] \in Nat
  OBVIOUS
<1> QED
  BY <1>1, <1>2 DEF Beliefs, Peaks

-----------------------------------------------------------------------------
(* The invariant.                                                          *)

(* A cop that distance guides, in its first sub-game, on a bare board and  *)
(* against a thief that parks.                                             *)
Hunting ==
  role = "cop" /\ policy # "learned" /\ rival = "parks" /\ walls = {} /\ time = step

(* It knows nothing before the first step; from then on its belief peaks   *)
(* on the thief, and every step but the first has brought it one nearer.   *)
Hunt ==
  /\ them = TheirStart
  /\ step = 0 => field = Nothing /\ me = OurStart /\ ~met
  /\ step # 0 =>
       /\ Peaks(field, them)
       /\ me = them => met
       /\ ~met => Manhattan(me, them) <= Manhattan(OurStart, TheirStart) + 2 - step

ChaseInv ==
  /\ me \in Cell /\ them \in Cell
  /\ step \in Nat /\ time \in Nat /\ step <= time
  /\ met \/ pc = "over" => time # 0
  /\ role = "cop" => placed = {} /\ ~caught
  /\ Points(trail, them)
  /\ field \in [Cell -> Nat] /\ unit \in Nat \ {0}
  /\ stays \in 0 .. MaxStay /\ rested \in Nat
  /\ ~MayBump(me) => rested <= stays
  /\ Hunting => Hunt

LEMMA ChaseInitInv == ChaseInit => ChaseInv
<1> SUFFICES ASSUME ChaseInit PROVE ChaseInv
  OBVIOUS
<1>1. me = OurStart /\ them = TheirStart /\ me \in Cell /\ them \in Cell
  BY ChaseAssumption DEF ChaseInit
<1>2. Points(trail, them)
  BY <1>1, NothingPoints DEF ChaseInit
<1>3. field \in [Cell -> Nat] /\ unit \in Nat \ {0}
  BY DEF ChaseInit, Nothing
<1>4. stays \in 0 .. MaxStay /\ rested = 0 /\ stays = 0
  BY ChaseAssumption DEF ChaseInit
<1>5. Hunt
  BY <1>1 DEF ChaseInit, Hunt
<1> QED
  BY <1>1, <1>2, <1>3, <1>4, <1>5 DEF ChaseInit, ChaseInv

LEMMA NewSubGameInv == ChaseInv /\ NextSubGame => ChaseInv'
<1> SUFFICES ASSUME ChaseInv, NextSubGame PROVE ChaseInv'
  OBVIOUS
<1>1. me' \in Cell /\ them' \in Cell /\ Points(trail', them')
  BY ChaseAssumption, NothingPoints DEF NextSubGame
<1>2. step' = 0 /\ time' = time /\ time \in Nat /\ met' = FALSE
  BY DEF NextSubGame, ChaseInv
<1>3. time # 0
  <2>1. step = Steps => step # 0
    BY ChaseAssumption
  <2> QED
    BY <2>1 DEF NextSubGame, ChaseInv
<1>4. ~Hunting'
  BY <1>2, <1>3 DEF Hunting
<1>5. field' \in [Cell -> Nat] /\ unit' \in Nat \ {0}
  BY DEF NextSubGame, ChaseInv
<1>6. stays' = 0 /\ rested' = 0 /\ stays' \in 0 .. MaxStay /\ placed' = {} /\ caught' = FALSE /\ pc' = "play"
  BY ChaseAssumption DEF NextSubGame
<1> QED
  BY <1>1, <1>2, <1>3, <1>4, <1>5, <1>6 DEF ChaseInv

(* Where the rival's piece goes, and what is read of it.                   *)
LEMMA HeardTrail ==
  ASSUME ChaseInv, Hear
  PROVE  /\ them' \in Cell /\ Points(trail', them') /\ StrongestCell(trail') = them'
         /\ rival = "parks" => them' = them
<1>1. them \in Cell /\ Points(trail, them)
  BY DEF ChaseInv
<1>2. them' \in Cell /\ (rival = "parks" => them' = them)
  BY <1>1, LandingCell DEF Hear, TheirMoves
<1>3. trail' = TrailStep(trail, them')
  BY DEF Hear
<1>4. Points(trail', them')
  BY <1>1, <1>2, <1>3, PointsBound, TrailStepPoints
<1> QED
  BY <1>2, <1>4, StrongestIs

LEMMA TrailInv ==
  ASSUME ChaseInv, PlayStep
  PROVE  /\ them' \in Cell /\ Points(trail', them') /\ StrongestCell(trail') = them'
         /\ rival = "parks" => them' = them
<1>1. CASE caught
  BY <1>1, StrongestIs DEF PlayStep, ChaseInv
<1>2. CASE ~caught
  BY <1>2, HeardTrail DEF PlayStep
<1> QED
  BY <1>1, <1>2

LEMMA FieldInv ==
  ASSUME ChaseInv, PlayStep
  PROVE  /\ field' \in [Cell -> Nat] /\ unit' \in Nat \ {0}
         /\ rival = "parks" /\ ~caught => field' = Advanced(field, them')
<1>1. CASE caught
  BY <1>1 DEF PlayStep, ChaseInv
<1>2. CASE ~caught
  <2>1. PICK read \in Read : Observe(read)
    BY <1>2 DEF PlayStep, Hear
  <2>2. field' \in [Cell -> Nat] /\ unit' \in Nat \ {0}
    BY <2>1, AdvancedNat, WholePos DEF Observe, ChaseInv
  <2>3. rival = "parks" => read = them'
    BY <2>1, TrailInv DEF Read
  <2> QED
    BY <2>1, <2>2, <2>3 DEF Observe
<1> QED
  BY <1>1, <1>2

(* A cop learns of no barriers, and a barrier does not go away in a        *)
(* sub-game.                                                               *)
LEMMA PlacedInv ==
  ASSUME ChaseInv, PlayStep
  PROVE  placed \subseteq placed' /\ (role = "cop" => placed' = {} /\ ~caught')
BY DEF ChaseInv, PlayStep, Hear, ReadBarrier, TheirBarriers

(* A step that is not a stay leaves a cell where nothing can stop it.      *)
LEMMA FreeStep ==
  ASSUME NEW cell \in Cell, NEW m \in Action \ {"STAY"}, Toward(cell, m) \in Cell \ walls,
         ~MayBump(cell)
  PROVE  Landing(cell, m, placed) # cell
<1>1. Toward(cell, m) \notin placed
  BY DEF MayBump, Neighbours
<1> QED
  BY <1>1, TowardInt DEF Landing

(* What one step of ours does: no rest beyond the bound, and where nothing *)
(* can stop us we rest only by staying.                                    *)
LEMMA OurStep ==
  ASSUME ChaseInv, PlayStep
  PROVE  /\ me' \in Cell
         /\ stays' \in 0 .. MaxStay
         /\ Beliefs # {} /\ ~MayBump(me) /\ me' = me =>
              /\ stays' = stays + 1
              /\ ~(role = "cop" /\ Beliefs = {me})
<1>1. PICK move \in Allowed :
        me' = Landing(me, move, placed) /\ stays' = IF move = "STAY" THEN stays + 1 ELSE 0
  BY DEF PlayStep, Choose
<1>2. me \in Cell /\ field \in [Cell -> Nat] /\ stays \in 0 .. MaxStay
  BY DEF ChaseInv
<1>3. move \in Action /\ (Stalled => move # "STAY")
  BY <1>2, AllowedIs
<1>4. me' \in Cell
  BY <1>1, <1>2, <1>3, LandingCell
<1>5. stays' \in 0 .. MaxStay
  BY <1>1, <1>2, <1>3, ChaseAssumption DEF Stalled
<1>6. ASSUME Beliefs # {}, ~MayBump(me), me' = me
      PROVE  stays' = stays + 1 /\ ~(role = "cop" /\ Beliefs = {me})
  <2>1. CASE policy = "learned"
    <3>1. move = "STAY"
      <4> SUFFICES ASSUME move # "STAY" PROVE FALSE
        OBVIOUS
      <4>1. Toward(me, move) \in Cell \ walls
        BY <1>3, <1>6, <2>1 DEF MayBump, Neighbours
      <4> QED
        BY <1>1, <1>2, <1>3, <1>6, <4>1, FreeStep
    <3>2. PICK b \in Beliefs :
            move \in IF PolicyAction(b) = {} THEN Preferred(Forbidden({b})) ELSE PolicyAction(b)
      BY <1>6 DEF Allowed
    <3>3. move \in Action \ Forbidden({b})
      BY <2>1, <3>2 DEF PolicyAction, Tiebreak, Preferred
    <3>4. ~(role = "cop" /\ me = b)
      BY <3>1, <3>3, ForbiddenIs
    <3> QED
      BY <1>1, <3>1, <3>2, <3>4
  <2>2. CASE policy # "learned"
    <3>1. PICK n \in Action \ {"STAY"} : Landing(me, n, placed) # me
      BY <1>6 DEF MayBump, HasExit
    <3>2. n \in Open /\ n # "STAY"
      BY <3>1 DEF Landing, Open
    <3>3. PICK b \in Beliefs : move \in Optimal(b, Forbidden({b}))
      BY <1>2, <1>6, <2>2, <3>2, AllowedIs
    <3>4. b \in Cell
      BY BeliefsAreCells
    <3>5. move \in Open \ Forbidden({b})
      BY <1>2, <3>3, <3>4, OptimalIs
    <3>6. move = "STAY"
      <4> SUFFICES ASSUME move # "STAY" PROVE FALSE
        OBVIOUS
      <4>1. Toward(me, move) \in Cell \ walls
        BY <3>5 DEF Open
      <4> QED
        BY <1>1, <1>2, <1>3, <1>6, <4>1, FreeStep
    <3>7. ~(role = "cop" /\ me = b)
      BY <3>5, <3>6, ForbiddenIs
    <3> QED
      BY <1>1, <3>3, <3>6, <3>7
  <2> QED
    BY <2>1, <2>2
<1> QED
  BY <1>4, <1>5, <1>6

LEMMA RestInv ==
  ASSUME ChaseInv, PlayStep
  PROVE  rested' \in Nat /\ (~MayBump(me)' => rested' <= stays')
<1>1. rested' = IF me' = me /\ Beliefs # {} THEN rested + 1 ELSE 0
  BY DEF PlayStep
<1>2. walls' = walls /\ policy' = policy /\ stays' \in 0 .. MaxStay /\ placed \subseteq placed'
  BY OurStep, PlacedInv DEF PlayStep, setting
<1>3. rested \in Nat /\ stays \in Nat /\ MaxStay \in Nat
  BY ChaseAssumption DEF ChaseInv
<1>4. ASSUME me' = me, Beliefs # {}, ~MayBump(me)'
      PROVE  rested' <= stays'
  <2>1. HasExit(me)
    <3>1. HasExit(me)'
      BY <1>4 DEF MayBump
    <3>2. PICK m \in Action \ {"STAY"} : Landing(me, m, placed)' # me'
      BY <3>1 DEF HasExit
    <3>3. Landing(me, m, placed) # me
      BY <1>2, <1>4, <3>2 DEF Landing
    <3> QED
      BY <3>3 DEF HasExit
  <2>2. ~MayBump(me)
    BY <1>2, <1>4, <2>1 DEF MayBump, Neighbours
  <2>3. rested <= stays /\ stays' = stays + 1
    BY <1>4, <2>2, OurStep DEF ChaseInv
  <2> QED
    BY <1>1, <1>3, <1>4, <2>3
<1> QED
  BY <1>1, <1>2, <1>3, <1>4

(* A move brings a piece one nearer at most, and on a bare board some move *)
(* does.                                                                   *)
LEMMA StepApart ==
  ASSUME NEW a \in Cell, NEW b \in Cell, NEW m \in Action, NEW others
  PROVE  Manhattan(Landing(a, m, others), b) <= Manhattan(a, b) + 1
<1>1. PICK x, y \in Int : a = <<x, y>> /\ a[1] = x /\ a[2] = y
  BY CellIs
<1>2. PICK u, v \in Int : b = <<u, v>> /\ b[1] = u /\ b[2] = v
  BY CellIs
<1>3. Manhattan(a, b) \in Nat
  BY CellsApart
<1>4. Manhattan(Toward(a, m), b) <= Manhattan(a, b) + 1
  <2>1. CASE m = "N"
    <3>1. Toward(a, m) = <<x - 1, y>>
      BY <1>1, <2>1, TowardIs
    <3> QED
      BY <1>1, <1>2, <3>1 DEF Manhattan, Abs
  <2>2. CASE m = "S"
    <3>1. Toward(a, m) = <<x + 1, y>>
      BY <1>1, <2>2, TowardIs
    <3> QED
      BY <1>1, <1>2, <3>1 DEF Manhattan, Abs
  <2>3. CASE m = "E"
    <3>1. Toward(a, m) = <<x, y + 1>>
      BY <1>1, <2>3, TowardIs
    <3> QED
      BY <1>1, <1>2, <3>1 DEF Manhattan, Abs
  <2>4. CASE m = "W"
    <3>1. Toward(a, m) = <<x, y - 1>>
      BY <1>1, <2>4, TowardIs
    <3> QED
      BY <1>1, <1>2, <3>1 DEF Manhattan, Abs
  <2>5. CASE m = "STAY"
    BY <1>1, <1>2, <2>5, TowardIs DEF Manhattan, Abs
  <2> QED
    BY <2>1, <2>2, <2>3, <2>4, <2>5 DEF Action
<1> QED
  BY <1>3, <1>4 DEF Landing

LEMMA NearerMove ==
  ASSUME NEW a \in Cell, NEW b \in Cell, a # b
  PROVE  \E n \in Action \ {"STAY"} :
           Toward(a, n) \in Cell /\ Manhattan(Toward(a, n), b) < Manhattan(a, b)
<1>1. PICK x, y \in Int : a = <<x, y>> /\ a[1] = x /\ a[2] = y
  BY CellIs
<1>2. PICK u, v \in Int : b = <<u, v>> /\ b[1] = u /\ b[2] = v
  BY CellIs
<1>3. /\ x \in 0 .. GridSize - 1 /\ y \in 0 .. GridSize - 1 /\ GridSize \in Nat
      /\ u \in 0 .. GridSize - 1 /\ v \in 0 .. GridSize - 1
  BY <1>1, <1>2, ChaseAssumption DEF Cell
<1>4. \A i, j \in 0 .. GridSize - 1 : <<i, j>> \in Cell
  BY DEF Cell
<1>5. CASE x < u
  <2>1. Toward(a, "S") = <<x + 1, y>> /\ x + 1 \in 0 .. GridSize - 1
    BY <1>1, <1>3, <1>5, TowardIs
  <2>2. Manhattan(Toward(a, "S"), b) < Manhattan(a, b)
    BY <1>1, <1>2, <1>5, <2>1 DEF Manhattan, Abs
  <2> QED
    BY <1>3, <1>4, <2>1, <2>2 DEF Action
<1>6. CASE x > u
  <2>1. Toward(a, "N") = <<x - 1, y>> /\ x - 1 \in 0 .. GridSize - 1
    BY <1>1, <1>3, <1>6, TowardIs
  <2>2. Manhattan(Toward(a, "N"), b) < Manhattan(a, b)
    BY <1>1, <1>2, <1>6, <2>1 DEF Manhattan, Abs
  <2> QED
    BY <1>3, <1>4, <2>1, <2>2 DEF Action
<1>7. CASE y < v
  <2>1. Toward(a, "E") = <<x, y + 1>> /\ y + 1 \in 0 .. GridSize - 1
    BY <1>1, <1>3, <1>7, TowardIs
  <2>2. Manhattan(Toward(a, "E"), b) < Manhattan(a, b)
    BY <1>1, <1>2, <1>7, <2>1 DEF Manhattan, Abs
  <2> QED
    BY <1>3, <1>4, <2>1, <2>2 DEF Action
<1>8. CASE y > v
  <2>1. Toward(a, "W") = <<x, y - 1>> /\ y - 1 \in 0 .. GridSize - 1
    BY <1>1, <1>3, <1>8, TowardIs
  <2>2. Manhattan(Toward(a, "W"), b) < Manhattan(a, b)
    BY <1>1, <1>2, <1>8, <2>1 DEF Manhattan, Abs
  <2> QED
    BY <1>3, <1>4, <2>1, <2>2 DEF Action
<1>9. x < u \/ x > u \/ y < v \/ y > v
  BY <1>1, <1>2, <1>3
<1> QED
  BY <1>5, <1>6, <1>7, <1>8, <1>9

(* Certain of the thief's cell, the cop is nearer to it after its step.    *)
LEMMA CopComesNearer ==
  ASSUME ChaseInv, PlayStep, Hunting, Beliefs = {them}, me # them
  PROVE  Manhattan(me', them) < Manhattan(me, them)
<1>1. me \in Cell /\ them \in Cell /\ field \in [Cell -> Nat]
      /\ role = "cop" /\ policy # "learned" /\ walls = {} /\ placed = {}
  BY DEF ChaseInv, Hunting
<1>2. PICK n \in Action \ {"STAY"} :
        Toward(me, n) \in Cell /\ Manhattan(Toward(me, n), them) < Manhattan(me, them)
  BY <1>1, NearerMove
<1>3. n \in Open /\ n # "STAY"
  BY <1>1, <1>2 DEF Open
<1>4. PICK move \in Allowed : me' = Landing(me, move, placed)
  BY DEF PlayStep, Choose
<1>5. move \in Action /\ move \in Optimal(them, Forbidden({them}))
  BY <1>1, <1>3, AllowedIs
<1>6. n \in Open \ Forbidden({them})
  BY <1>3, ForbiddenIs
<1>7. move \in Open /\ Distance(them, move) <= Distance(them, n)
  BY <1>1, <1>5, <1>6, OptimalIs
<1>8. me' = Toward(me, move)
  BY <1>1, <1>4, <1>5, <1>7, TowardInt DEF Open, Landing
<1>9. /\ Manhattan(Toward(me, move), them) \in Nat /\ Manhattan(Toward(me, n), them) \in Nat
      /\ Manhattan(me, them) \in Nat
  BY <1>1, <1>2, <1>5, TowardInt, CellIs, ManhattanNat
<1> QED
  BY <1>2, <1>7, <1>8, <1>9 DEF Distance

LEMMA HuntInv == ASSUME ChaseInv, PlayStep, Hunting' PROVE Hunt'
<1>1. /\ step \in Nat /\ time \in Nat /\ step' = step + 1 /\ time' = time + 1
      /\ UNCHANGED <<role, walls, policy, rival>>
  BY DEF ChaseInv, PlayStep, setting
<1>2. Hunting /\ Hunt /\ them = TheirStart /\ rival = "parks" /\ ~caught
  BY <1>1 DEF Hunting, ChaseInv, Hunt
<1>3. them' = them /\ them \in Cell /\ me \in Cell /\ me' \in Cell
  BY <1>2, TrailInv, OurStep DEF ChaseInv
<1>4. field \in [Cell -> Nat] /\ unit \in Nat \ {0} /\ field' = Advanced(field, them)
  BY <1>2, <1>3, FieldInv DEF ChaseInv
<1>5. \A d \in Cell : field[d] <= field[them]
  BY <1>2, <1>3, <1>4 DEF Hunt, Nothing, Peaks
<1>6. Peaks(field', them')
  BY <1>3, <1>4, <1>5, AdvancedPeaks DEF Peaks
<1>7. met' = (met \/ me' = them')
  BY DEF PlayStep
<1>8. ASSUME ~met'
      PROVE  Manhattan(me', them') <= Manhattan(OurStart, TheirStart) + 2 - step'
  <2> DEFINE M == Manhattan(OurStart, TheirStart)
  <2>1. M \in Nat /\ Manhattan(me, them) \in Nat /\ Manhattan(me', them') \in Nat
    BY <1>2, <1>3, CellsApart, ChaseAssumption
  <2>2. CASE step = 0
    <3>1. me = OurStart
      BY <1>2, <2>2 DEF Hunt
    <3>2. PICK move \in Action : me' = Landing(me, move, placed)
      BY <1>4, <1>3, AllowedIs DEF PlayStep, Choose
    <3>3. Manhattan(me', them') <= M + 1
      BY <1>2, <1>3, <3>1, <3>2, StepApart
    <3> HIDE DEF M
    <3> QED
      BY <1>1, <2>1, <2>2, <3>3 DEF M
  <2>3. CASE step # 0
    <3>1. Peaks(field, them) /\ ~met /\ me # them /\ Manhattan(me, them) <= M + 2 - step
      BY <1>2, <1>7, <1>8, <2>3 DEF Hunt
    <3>2. Beliefs = {them}
      BY <1>3, <1>4, <3>1, BeliefIsPeak
    <3>3. Manhattan(me', them') < Manhattan(me, them)
      BY <1>2, <1>3, <3>1, <3>2, CopComesNearer
    <3> HIDE DEF M
    <3> QED
      BY <1>1, <2>1, <3>1, <3>3 DEF M
  <2> QED
    BY <2>2, <2>3
<1>9. step' # 0 /\ them' = TheirStart
  BY <1>1, <1>2, <1>3
<1>10. me' = them' => met'
  BY <1>7
<1> QED
  BY <1>6, <1>8, <1>9, <1>10 DEF Hunt

LEMMA PlayStepInv == ChaseInv /\ PlayStep => ChaseInv'
<1> SUFFICES ASSUME ChaseInv, PlayStep PROVE ChaseInv'
  OBVIOUS
<1>1. step' \in Nat /\ time' \in Nat /\ step' <= time' /\ time' # 0
  BY DEF ChaseInv, PlayStep
<1>2. me' \in Cell /\ them' \in Cell /\ Points(trail', them') /\ stays' \in 0 .. MaxStay
  BY OurStep, TrailInv
<1>3. field' \in [Cell -> Nat] /\ unit' \in Nat \ {0}
  BY FieldInv
<1>4. Hunting' => Hunt'
  BY HuntInv
<1>5. role' = "cop" => placed' = {} /\ ~caught'
  BY PlacedInv DEF PlayStep, setting
<1> QED
  BY <1>1, <1>2, <1>3, <1>4, <1>5, RestInv DEF ChaseInv, Points

LEMMA ChaseNextInv == ChaseInv /\ [ChaseNext]_chaseVars => ChaseInv'
<1> SUFFICES ASSUME ChaseInv, [ChaseNext]_chaseVars PROVE ChaseInv'
  OBVIOUS
<1>1. CASE UNCHANGED chaseVars
  BY <1>1 DEF ChaseInv, chaseVars, setting, Points, MayBump, HasExit, Landing,
    Hunting, Hunt, Peaks
<1> QED
  BY <1>1, PlayStepInv, NewSubGameInv DEF ChaseNext

(* The invariant behind the three that follow.                             *)
THEOREM ChaseInvariance == ChaseSpec => []ChaseInv
BY ChaseInitInv, ChaseNextInv, PTL DEF ChaseSpec

(* Whatever a rival's piece does, its trail is strongest where it stands,  *)
(* on every board and for every scent that outlasts one decay.             *)
THEOREM TrailPointsAtItsOwner == ChaseSpec => []ReadsWhereTheyStand
<1>1. ChaseInv => ReadsWhereTheyStand
  BY StrongestIs, PointsBound DEF ChaseInv, ReadsWhereTheyStand
<1> QED
  BY <1>1, ChaseInvariance, PTL

(* Only where a step of its own may be stopped, by a barrier the rival     *)
(* placed, by an obstacle in a learned table's way or all around, does a   *)
(* side stand longer than MaxStay with a belief in hand; elsewhere a cop   *)
(* also leaves the one cell it believes the thief on at once.              *)
THEOREM OnlyBumpingFreezes == ChaseSpec => FreezesOnlyByBumping
<1>1. ASSUME ChaseInv, ChaseInv', PlayStep
      PROVE  /\ stays' <= MaxStay
             /\ (Beliefs # {} /\ ~MayBump(me)) =>
                  /\ rested' <= MaxStay
                  /\ (role = "cop" /\ Beliefs = {me}) => me' # me
  <2>1. stays' \in 0 .. MaxStay /\ MaxStay \in Nat
    BY <1>1, OurStep, ChaseAssumption
  <2>2. ASSUME Beliefs # {}, ~MayBump(me)
        PROVE  rested' <= MaxStay
    <3>1. rested' = IF me' = me THEN rested + 1 ELSE 0
      BY <1>1, <2>2 DEF PlayStep
    <3>2. rested \in Nat /\ rested <= stays /\ stays \in Nat
      BY <1>1, <2>2 DEF ChaseInv
    <3>3. me' = me => stays' = stays + 1
      BY <1>1, <2>2, OurStep
    <3> QED
      BY <2>1, <3>1, <3>2, <3>3
  <2>3. ASSUME Beliefs # {}, ~MayBump(me), role = "cop", Beliefs = {me}
        PROVE  me' # me
    BY <1>1, <2>3, OurStep
  <2> QED
    BY <2>1, <2>2, <2>3
<1> QED
  BY <1>1, ChaseInvariance, PTL DEF FreezesOnlyByBumping

(* A cop certain of a parked thief on a bare board catches it within two   *)
(* steps more than the way there is long, whatever the board's size.       *)
THEOREM HuntersArrive == ChaseSpec => []PursuitArrives
<1>1. ASSUME ChaseInv PROVE PursuitArrives
  <2> SUFFICES ASSUME Hunting, step >= Manhattan(OurStart, TheirStart) + 2 PROVE met
    BY DEF PursuitArrives, Hunting
  <2>1. Hunt /\ step \in Nat /\ me \in Cell /\ them \in Cell
    BY <1>1 DEF ChaseInv
  <2>2. Manhattan(OurStart, TheirStart) \in Nat /\ Manhattan(me, them) \in Nat
        /\ (Manhattan(me, them) = 0 <=> me = them)
    BY <2>1, CellsApart, ChaseAssumption
  <2> QED
    BY <2>1, <2>2 DEF Hunt
<1> QED
  BY <1>1, ChaseInvariance, PTL
=============================================================================
