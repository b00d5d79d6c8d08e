-------------------------------- MODULE Chase -------------------------------
(***************************************************************************)
(* One side's play on the reference-v3 wire, where nobody states a         *)
(* position: the scent trail each piece leaves and discloses, the reading  *)
(* of the rival's trail, the belief built from it, and the move chosen     *)
(* from the belief with the refusals of Thaw.                              *)
(*                                                                         *)
(* A trained table is any preference.  In manhattan_primary, as shipped,   *)
(* it ranks only where distance and belief do not; in qtable_primary it    *)
(* decides, and distance only where it is flat.  Intensities are whole     *)
(* numbers of Decay (the contract's 0.9 and 0.1 are 9 and 1); the belief,  *)
(* which fades by a ratio, is kept exact, multiplied by Whole at every     *)
(* advance.  Names carry the prefix Chase where the board proofs read this *)
(* module beside Engine.                                                   *)
(***************************************************************************)
EXTENDS Grid, Sequences

CONSTANTS
  OurStart, TheirStart, Layouts,
  Centre, Decay, Radius,   \* the contract's scent, pheromone_grid_size \div 2
  Keep, Whole,             \* 1 - rho, as Keep out of Whole
  MaxStay,                 \* max_consecutive_stay
  Steps,                   \* of a sub-game
  MaxTime,                 \* bound: steps over all sub-games
  Placeable,               \* bound: where a cop that places barriers does so
  Off                      \* a cell of a foreign grid that is not on our board

Roles == {"cop", "thief"}
Order == <<"N", "S", "E", "W", "STAY">>    \* the contract's move_set

ASSUME ChaseAssumption ==
  /\ GridSize \in Nat /\ OurStart \in Cell /\ TheirStart \in Cell
  /\ \A b \in Layouts : b \subseteq Cell \ {OurStart, TheirStart}
  /\ Centre \in Nat /\ Decay \in Nat \ {0} /\ Decay < Centre
  /\ Radius \in Nat /\ Centre % (Radius + 1) = 0
  /\ Keep \in Nat /\ Whole \in Nat /\ Keep < Whole
  /\ MaxStay \in Nat \ {0} /\ Steps \in Nat \ {0} /\ Off \notin Cell
  /\ Placeable \subseteq Cell

VARIABLES
  role, walls,
  policy,   \* manhattan; or qtable_primary on a flat table, or a learned one
  rival,    \* what plays against us: walks, parks, builds, mute or foreign
  me, them, step, time,
  trail,    \* the rival's SmellTrail
  field,    \* our PheromoneField: of the policy, so of the whole series
  unit,     \* what an intensity of one weighs in it: Whole to the power of turns read
  stays,    \* Thaw._stays
  placed,   \* Side._barriers: what the rival placed, which no mask knows
  caught,   \* Side.caught, by a barrier
  pc,       \* play; over, our answer to a capture pushed; or dead
  rested,   \* history: steps in a row that left us where we were, belief in hand
  met       \* history: were both on one cell in this sub-game?

setting == <<role, walls, policy, rival>>
chaseVars == <<setting, me, them, step, time, trail, field, unit, stays, placed, caught,
               pc, rested, met>>

Nothing == [c \in Cell |-> 0]
Nowhere == <<>>    \* what a grid with no cell in it points at

Abs(n) == IF n < 0 THEN -n ELSE n
Manhattan(a, b) == Abs(a[1] - b[1]) + Abs(a[2] - b[2])
Larger(a, b) == IF a > b THEN a ELSE b
Chebyshev(a, b) == Larger(Abs(a[1] - b[1]), Abs(a[2] - b[2]))
Landing(cell, move, barriers) ==
  IF Toward(cell, move) \in Cell \ (walls \cup barriers) THEN Toward(cell, move) ELSE cell
---------------------------------------------------------------------------
(* The trail: SmellTrail.step, emit and then decay.                        *)

\* What an intensity loses with every cell of distance, in both kernels.
Falloff == Centre \div (Radius + 1)

Kernel(cell, centre) ==
  IF Chebyshev(cell, centre) > Radius THEN 0
  ELSE Centre - Falloff * Chebyshev(cell, centre)

\* Seeded bug: a kernel is added to the trail.
EmittedMutant(t, centre) == [c \in Cell |-> t[c] + Kernel(c, centre)]

\* A kernel is merged by MAX.
Emitted(t, centre) == [c \in Cell |-> Larger(t[c], Kernel(c, centre))]

TrailStep(t, centre) == [c \in Cell |-> Larger(0, Emitted(t, centre)[c] - Decay)]

\* strongest_cell: ties go to the least (row, col).
Before(a, b) == a[1] < b[1] \/ (a[1] = b[1] /\ a[2] < b[2])
StrongestCell(t) ==
  CHOOSE c \in Cell : \A d \in Cell \ {c} : t[c] > t[d] \/ (t[c] = t[d] /\ Before(c, d))
---------------------------------------------------------------------------
(* The belief: PheromoneField.                                             *)

\* _add_kernel: the diamond around the cell read, if it is on the board.
Deposit(cell, read) ==
  IF read \notin Cell \/ Manhattan(cell, read) > Radius THEN 0
  ELSE Falloff * (Radius + 1 - Manhattan(cell, read)) * (unit * Whole)

\* advance: every cell fades, then the cell read is deposited.
Advanced(f, read) == [c \in Cell |-> Keep * f[c] + Deposit(c, read)]

\* strongest: a tie goes to the older entry of a dict, here to any.
Beliefs ==
  IF field = Nothing THEN {} ELSE {c \in Cell : \A d \in Cell : field[c] >= field[d]}

At(cell) == IF cell \in Cell THEN field[cell] ELSE 0
Mass(cell) ==
  At(Toward(cell, "N")) + At(Toward(cell, "S")) + At(Toward(cell, "E")) + At(Toward(cell, "W"))
---------------------------------------------------------------------------
(* The choice.                                                             *)

\* Seeded bug: one stay more than the bound.
StalledMutant == stays > MaxStay

Stalled == stays >= MaxStay

\* Thaw.forbid: a refuted belief, or too long a rest.
Forbidden(beliefs) ==
  IF (role = "cop" /\ me \in beliefs) \/ Stalled THEN {"STAY"} ELSE {}

\* state_key's mask: the edge and the contract's walls, nothing placed since.
Open == {m \in Action : m = "STAY" \/ Toward(me, m) \in Cell \ walls}

\* Seeded bug: the relative cell is shifted by the step, not against it.
DistanceMutant(belief, move) ==
  Abs(belief[1] - me[1] + Delta[move][1]) + Abs(belief[2] - me[2] + Delta[move][2])

\* _resulting_distance
Distance(belief, move) == Manhattan(Toward(me, move), belief)

\* _optimal_steps: refused moves are dropped before the distance rule.
Optimal(belief, forbid) ==
  LET open == Open \ forbid
      better(a, b) == IF role = "cop" THEN a <= b ELSE a >= b
  IN  {m \in open : \A n \in open : better(Distance(belief, m), Distance(belief, n))}

Place(m) == CHOOSE i \in DOMAIN Order : Order[i] = m
First(moves) == CHOOSE m \in moves : \A n \in moves : Place(m) <= Place(n)

\* densest: the most mass beside the landing, then move_set order.
Densest(moves) ==
  LET mass(m) == Mass(Toward(me, m))
  IN  First({m \in moves : \A n \in moves : mass(m) >= mass(n)})

\* manhattan_primary_action: none if nothing is left to rank.
Primary(belief) ==
  LET best == Optimal(belief, Forbidden({belief}))
  IN  IF best = {} THEN {} ELSE {Densest(best)}

\* tiebreak_action and greedy_distance_action: a table with a value for some
\* move defers to it, a flat one to the distance, ties in move_set order.
Tiebreak(belief) ==
  LET best == Optimal(belief, Forbidden({belief}))
  IN  IF policy = "learned" \/ best = {} THEN {} ELSE {First(best)}

\* policy_action: none defers to the table.
PolicyAction(belief) == IF policy = "manhattan" THEN Primary(belief) ELSE Tiebreak(belief)

\* The table's own choice among what is not refused, the first if it is flat.
Preferred(forbid) == IF policy = "flat" THEN {First(Action \ forbid)} ELSE Action \ forbid

\* best_action, greedy: the table is asked with no opponent to be near or far
\* from, or where the policy defers to it.
Allowed ==
  IF Beliefs = {} THEN Preferred(Forbidden({}))
  ELSE UNION {IF PolicyAction(b) = {} THEN Preferred(Forbidden({b})) ELSE PolicyAction(b)
                : b \in Beliefs}
---------------------------------------------------------------------------
(* A step: our move, their turn, and what we make of it.                   *)

TheirMoves ==
  IF rival \in {"walks", "builds"} THEN {Landing(them, m, {}) : m \in Action} ELSE {them}

\* barrier_placed of their turn: none, or one cell.  Only a cop places.
TheirBarriers ==
  {{}} \cup IF rival = "builds" /\ role = "thief" THEN {{c} : c \in Placeable} ELSE {}

\* BarrierRecord.captures: rule 46, or rule 47.
Captures(cell, barriers) ==
  cell \in barriers \/ Neighbours(cell) \cap Cell \subseteq barriers \cup walls

\* Side.read: a barrier is recorded, and may capture us where we stand.
ReadBarrier ==
  \E barrier \in TheirBarriers :
    /\ placed' = placed \cup barrier
    /\ caught' = (caught \/ (barrier # {} /\ Captures(me', placed')))

\* _observer: what the grid of their turn points at.
Read ==
  CASE rival = "mute" -> {Nowhere}
    [] rival = "foreign" -> {Nowhere, TheirStart, Off}
    [] OTHER -> {StrongestCell(trail')}

\* advance fades the field, then refuses a deposit off the board: nothing
\* above it catches that.
Observe(read) ==
  /\ field' = Advanced(field, read) /\ unit' = unit * Whole
  /\ pc' = IF read = Off THEN "dead" ELSE pc

\* Side.__init__: the trail opens with the cell its piece starts on.
ChaseInit ==
  /\ role \in Roles /\ walls \in Layouts
  /\ policy \in {"manhattan", "flat", "learned"}
  /\ rival \in {"walks", "parks", "builds", "mute", "foreign"}
  /\ me = OurStart /\ them = TheirStart /\ step = 0 /\ time = 0
  /\ trail = TrailStep(Nothing, TheirStart) /\ field = Nothing /\ unit = 1
  /\ stays = 0 /\ placed = {} /\ caught = FALSE
  /\ pc = "play" /\ rested = 0 /\ met = FALSE

\* What the policy chose is counted, and walked as far as it goes.
Choose ==
  \E move \in Allowed :
    /\ me' = Landing(me, move, placed)
    /\ stays' = IF move = "STAY" THEN stays + 1 ELSE 0

\* Their turn: the piece walks on, its grid is read and so is its barrier.
Hear ==
  /\ them' \in TheirMoves
  /\ trail' = TrailStep(trail, them')
  /\ \E read \in Read : Observe(read)
  /\ ReadBarrier

\* A thief that knows it is caught walks once more, to push its answer, and
\* waits for no turn after that.
PlayStep ==
  /\ pc = "play" /\ step < Steps /\ time < MaxTime
  /\ step' = step + 1 /\ time' = time + 1
  /\ Choose
  /\ IF caught
     THEN pc' = "over" /\ UNCHANGED <<them, trail, field, unit, placed, caught>>
     ELSE Hear
  /\ rested' = IF me' = me /\ Beliefs # {} THEN rested + 1 ELSE 0
  /\ met' = (met \/ me' = them')
  /\ UNCHANGED setting

\* The next sub-game this side plays, the last one over or ended by a
\* capture: pieces, trails, barriers and Thaw are new.
NextSubGame ==
  /\ pc = "over" \/ (pc = "play" /\ (step = Steps \/ met))
  /\ time < MaxTime
  /\ pc' = "play"
  /\ me' = OurStart /\ them' = TheirStart /\ step' = 0
  /\ trail' = TrailStep(Nothing, TheirStart)
  /\ stays' = 0 /\ placed' = {} /\ caught' = FALSE /\ rested' = 0 /\ met' = FALSE
  /\ UNCHANGED <<setting, time, field, unit>>

ChaseNext == PlayStep \/ NextSubGame

ChaseSpec == ChaseInit /\ [][ChaseNext]_chaseVars
---------------------------------------------------------------------------
(* Properties.                                                             *)

\* A trail points at the piece that leaves it, however it walked: the cell
\* read off a grid is where its owner stood when it was pushed, and no
\* intensity is above a fresh centre (smell_trail.py:83-98).
ReadsWhereTheyStand ==
  /\ StrongestCell(trail) = them
  /\ \A c \in Cell : trail[c] <= Centre - Decay

HasExit(cell) == \E m \in Action \ {"STAY"} : Landing(cell, m, placed) # cell

\* Where a chosen step may come to nothing: nobody masks what the rival
\* placed, a learned table is not held to the mask, and there may be no way.
MayBump(cell) ==
  \/ Neighbours(cell) \cap placed # {}
  \/ policy = "learned" /\ ~(Neighbours(cell) \subseteq Cell \ walls)
  \/ ~HasExit(cell)

\* No side chooses to stay more than MaxStay times in a row.  A step that
\* comes to nothing counts as none, so a side can stand longer, but only
\* where it may bump; elsewhere, belief in hand, it does not, and a cop leaves
\* the cell it believed the thief on as soon as it stands there
\* (thaw.py:48-71, fallback.py:52-77, claims_side.py:71-73).
FreezesOnlyByBumping ==
  [][PlayStep =>
       /\ stays' <= MaxStay
       /\ (Beliefs # {} /\ ~MayBump(me)) =>
            /\ rested' <= MaxStay
            /\ (role = "cop" /\ Beliefs = {me}) => me' # me]_chaseVars

\* On a bare board a cop whose belief is of this sub-game, and whom distance
\* guides, walks up to a thief that parks: a step to hear of it, one that may
\* be lost before, and then no step that is not nearer (fallback.py:80-148).
PursuitArrives ==
  (/\ role = "cop" /\ policy # "learned" /\ rival = "parks" /\ walls = {} /\ time = step
   /\ step >= Manhattan(OurStart, TheirStart) + 2) => met
=============================================================================
