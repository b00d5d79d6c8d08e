--------------------------- MODULE PushSeriesProofs ---------------------------
(***************************************************************************)
(* The safety of a series on the push dialect, for every number of sub-    *)
(* games and steps, every engine and every set of liars.                   *)
(***************************************************************************)
EXTENDS PushSeries, TLAPS

-----------------------------------------------------------------------------
(* A turn at the action buffer.                                            *)

Ends(h) == Captures(h) \/ Len(h) >= MaxMoves

PairOf(r1, t1, t2) == [r \in EngineRole |-> IF r = r1 THEN t1 ELSE t2]

Played(m, pair) ==
  IF m.over
  THEN m
  ELSE [m EXCEPT !.played = Append(m.played, pair),
                 !.over = Ends(Append(m.played, pair))]

(* Two actions of different roles submitted to an idle buffer are one step *)
(* of the episode on the pair, and leave the buffer idle.                  *)
LEMMA TwoSubmissions ==
  ASSUME NEW roles, NEW m \in MatchOf(roles), m.slots = NoSlots, m.left = NoDeadline,
         NEW r1 \in EngineRole, NEW r2 \in EngineRole, r1 # r2,
         NEW t1 \in Token, NEW t2 \in Token
  PROVE  /\ SubmitStatus(m, r1, t1) = "waiting"
         /\ Submitted(Submitted(m, r1, t1), r2, t2) = Played(m, PairOf(r1, t1, t2))
<1> DEFINE one == [m EXCEPT !.slots = [NoSlots EXCEPT ![r1] = t1],
                            !.left = Timeout]
           two == [one EXCEPT !.slots = PairOf(r1, t1, t2)]
<1>1. Filled(m) = {} /\ ExpireIfStale(m) = m
  BY DEF Filled, ExpireIfStale, NoSlots, NoDeadline, Expired
<1>2. SubmitStatus(m, r1, t1) = "waiting"
  BY <1>1 DEF SubmitStatus, EngineRole
<1>3. Submitted(m, r1, t1) = one
  BY <1>1, <1>2 DEF Submitted, Accept, MatchOf
<1>4. one \in MatchOf(roles) /\ Filled(one) = {r1} /\ ExpireIfStale(one) = one
  <2>1. one.slots = [NoSlots EXCEPT ![r1] = t1] /\ one.left = Timeout
    BY DEF MatchOf
  <2>2. Filled(one) = {r1}
    BY <2>1, MatchAssumption DEF Filled, NoSlots
  <2>3. ExpireIfStale(one) = one
    BY <2>1, MatchAssumption DEF ExpireIfStale, Expired
  <2>4. one \in MatchOf(roles)
    <3>1. Timeout \in Deadline
      BY MatchAssumption DEF Deadline, NoDeadline
    <3>2. [NoSlots EXCEPT ![r1] = t1] \in [EngineRole -> Token \cup {None}]
      BY DEF NoSlots
    <3>3. QED
      BY <3>1, <3>2 DEF MatchOf
  <2>5. QED
    BY <2>2, <2>3, <2>4
<1>5. SubmitStatus(one, r2, t2) = "resolved"
  BY <1>4 DEF SubmitStatus, EngineRole
<1>6. Accept(one, r2, t2) = two
  <2>1. [one.slots EXCEPT ![r2] = t2] = PairOf(r1, t1, t2)
    BY <1>4 DEF MatchOf, PairOf, NoSlots, EngineRole
  <2>2. QED
    BY <2>1, <1>4 DEF Accept, MatchOf
<1>7. Submitted(one, r2, t2) = Cleared(Step(two))
  BY <1>4, <1>5, <1>6 DEF Submitted
<1>8. Cleared(Step(two)) = Played(m, PairOf(r1, t1, t2))
  BY DEF Cleared, Step, Played, Ends, MatchOf
<1>9. QED
  BY <1>2, <1>3, <1>7, <1>8

(* The first action of a turn waits in the buffer: the board is not moved. *)
LEMMA OneSubmission ==
  ASSUME NEW roles, NEW m \in MatchOf(roles), m.slots = NoSlots, m.left = NoDeadline,
         NEW role \in EngineRole, NEW token \in Token
  PROVE  /\ Submitted(m, role, token) \in MatchOf(roles)
         /\ Submitted(m, role, token).played = m.played
         /\ Submitted(m, role, token).forfeits = m.forfeits
<1> DEFINE one == [m EXCEPT !.slots = [NoSlots EXCEPT ![role] = token], !.left = Timeout]
<1>1. Filled(m) = {} /\ ExpireIfStale(m) = m
  BY DEF Filled, ExpireIfStale, NoSlots, NoDeadline, Expired
<1>2. SubmitStatus(m, role, token) = "waiting"
  BY <1>1 DEF SubmitStatus, EngineRole
<1>3. Submitted(m, role, token) = one
  BY <1>1, <1>2 DEF Submitted, Accept, MatchOf
<1>4. Timeout \in Deadline
  BY MatchAssumption DEF Deadline, NoDeadline
<1>5. [NoSlots EXCEPT ![role] = token] \in [EngineRole -> Token \cup {None}]
  BY DEF NoSlots
<1> QED
  BY <1>3, <1>4, <1>5 DEF MatchOf

(* A step of a live episode on an idle buffer.                             *)
LEMMA StepPlayed ==
  ASSUME NEW roles, NEW m \in MatchOf(roles), ~m.over,
         NEW pair \in [EngineRole -> Token]
  PROVE  /\ Played(m, pair) \in MatchOf(roles)
         /\ Played(m, pair).played = Append(m.played, pair)
         /\ Played(m, pair).slots = m.slots /\ Played(m, pair).left = m.left
         /\ Played(m, pair).forfeits = m.forfeits
<1>1. Played(m, pair) = [m EXCEPT !.played = Append(m.played, pair),
                                  !.over = Ends(Append(m.played, pair))]
  BY DEF Played
<1>2. Append(m.played, pair) \in Seq([EngineRole -> Token])
  BY DEF MatchOf
<1>3. Ends(Append(m.played, pair)) \in BOOLEAN
  BY DEF Ends
<1> QED
  BY <1>1, <1>2, <1>3 DEF MatchOf

(* A reset leaves a match of the same roles, with nothing in it.           *)
LEMMA ResetTo ==
  ASSUME NEW roles, NEW m \in MatchOf(roles)
  PROVE  /\ ResetMatch(m) \in MatchOf(roles)
         /\ ResetMatch(m).slots = NoSlots /\ ResetMatch(m).left = NoDeadline
         /\ ResetMatch(m).played = <<>> /\ ResetMatch(m).over = FALSE
         /\ ResetMatch(m).forfeits = {}
<1>1. NoSlots \in [EngineRole -> Token \cup {None}]
  BY DEF NoSlots
<1>2. NoDeadline \in Deadline
  BY MatchAssumption DEF NoDeadline, Deadline
<1>3. <<>> \in Seq([EngineRole -> Token])
  OBVIOUS
<1> QED
  BY <1>1, <1>2, <1>3 DEF ResetMatch, Cleared, MatchOf
-----------------------------------------------------------------------------
(* The inductive invariant, in named parts.                                *)

Midgame == {"commit", "reveal", "await"}

(* A driver in a sub-game has made a step of its engine for every step it  *)
(* has behind it, and keeps what it sealed and what it revealed.           *)
Shaped(g) ==
  /\ match[g].forfeits = {}
  /\ pc[g] \in Midgame =>
       /\ match[g].slots = NoSlots /\ match[g].left = NoDeadline /\ ~match[g].over
       /\ Len(match[g].played) = step[g] - 1
  /\ pc[g] = "failed" => Len(match[g].played) = step[g] - 1
  /\ pc[g] \in {"audit", "done"} => Len(match[g].played) = step[g]
  /\ pc[g] \in {"reveal", "await"} => move[g] \in Token
  /\ Len(chain[g]) = CASE pc[g] \in {"open", "done"} -> 0
                       [] pc[g] = "commit" -> step[g] - 1
                       [] OTHER -> step[g]
  /\ Len(shown[g]) = CASE pc[g] \in {"open", "done"} -> 0
                       [] pc[g] \in {"commit", "reveal"} -> step[g] - 1
                       [] OTHER -> step[g]

Shape == \A g \in Group : Shaped(g)

(* Neither driver is more than a sub-game ahead, and one that is ahead     *)
(* waits for the first turn with nothing in its store.                     *)
Paced(g) ==
  /\ game[g] <= game[Rival(g)] + 1
  /\ game[Rival(g)] < game[g] =>
       \/ pc[g] = "open"
       \/ pc[g] \in Midgame /\ step[g] = 1 /\ MyStore(g) = EmptyStore

Pace == \A g \in Group : Paced(g)

(* What a driver has played of the rival's moves is what its store holds.  *)
Keeps(g) ==
  pc[g] # "open" =>
    \A n \in DOMAIN match[g].played :
      /\ MyStore(g).reveals[n] # None
      /\ MyStore(g).reveals[n].move = match[g].played[n][Opponent(Mine(g))]

Kept == \A g \in Group : Keeps(g)

(* What a driver has revealed in a sub-game both play is what its own      *)
(* engine plays, unless the rival's cannot read it.                        *)
Same(g) == game[g] = game[Rival(g)] /\ pc[Rival(g)] # "open"

Owns(g, n, word) ==
  \/ /\ pc[g] # "open" /\ n \in DOMAIN match[g].played
     /\ word \in Token => word = match[g].played[n][Mine(g)]
  \/ /\ pc[g] \in {"await", "failed"} /\ n = step[g]
     /\ word \in Token => word = move[g]

Reveals(g) ==
  Same(g) =>
    \A n \in 1 .. MaxSteps :
      TheirStore(g).reveals[n] # None => Owns(g, n, TheirStore(g).reveals[n].move)

Revealed == \A g \in Group : Reveals(g)

(* Two engines in one sub-game play the same pairs.                        *)
Agrees(g) ==
  Same(g) /\ pc[g] # "open" =>
    \A n \in DOMAIN match[g].played \cap DOMAIN match[Rival(g)].played :
      match[g].played[n] = match[Rival(g)].played[n]

Alike == \A g \in Group : Agrees(g)

(* Every digest pushed is still there, unless a reset deleted one.         *)
Stands(g) ==
  \A n \in DOMAIN chain[g] :
    TheirStore(g).commits[n] = [game |-> game[g], move |-> chain[g][n]]

Pushed == ~dropped => \A g \in Group : Stands(g)

Inv == TypeOK /\ Shape /\ Pace /\ Kept /\ Revealed /\ Alike /\ Pushed /\ NoncesAreJudged

-----------------------------------------------------------------------------

-----------------------------------------------------------------------------
(* Roles and stores.                                                       *)

(* The rival plays the other role, and everybody swaps at each sub-game.   *)
LEMMA Roles ==
  ASSUME NEW g \in Group, NEW k \in Nat
  PROVE  /\ Rival(g) \in Group /\ Rival(g) # g /\ Rival(Rival(g)) = g
         /\ Group = {g, Rival(g)}
         /\ RoleIn(g, k) \in EngineRole /\ Opponent(RoleIn(g, k)) \in EngineRole
         /\ Opponent(RoleIn(g, k)) # RoleIn(g, k)
         /\ EngineRole = {RoleIn(g, k), Opponent(RoleIn(g, k))}
         /\ RoleIn(Rival(g), k) = Opponent(RoleIn(g, k))
         /\ Opponent(RoleIn(Rival(g), k)) = RoleIn(g, k)
         /\ RoleIn(g, k + 1) # RoleIn(g, k)
<1>1. Rival(g) \in Group /\ Rival(g) # g /\ Rival(Rival(g)) = g /\ Group = {g, Rival(g)}
  BY DEF Rival, Group
<1>2. (k + 1) % 2 = 1 <=> ~(k % 2 = 1)
  OBVIOUS
<1>3. g = "A" <=> ~(Rival(g) = "A")
  BY DEF Rival, Group
<1>4. RoleIn(g, k) \in EngineRole
  BY DEF RoleIn, EngineRole
<1>5. /\ Opponent(RoleIn(g, k)) \in EngineRole /\ Opponent(RoleIn(g, k)) # RoleIn(g, k)
      /\ EngineRole = {RoleIn(g, k), Opponent(RoleIn(g, k))}
  BY <1>4 DEF Opponent, EngineRole
<1>6. /\ RoleIn(Rival(g), k) = Opponent(RoleIn(g, k))
      /\ Opponent(RoleIn(Rival(g), k)) = RoleIn(g, k)
  BY <1>3 DEF RoleIn, Opponent
<1>7. RoleIn(g, k + 1) # RoleIn(g, k)
  BY <1>2 DEF RoleIn
<1> QED
  BY <1>1, <1>4, <1>5, <1>6, <1>7

Kinds == TypeOK /\ Shape

Box == [1 .. MaxSteps -> Messages]
Store == [commits : Box, reveals : Box]

LEMMA EmptyBox == EmptyStore \in Store
BY DEF EmptyStore, Store, Box, Messages

(* What the types say of one group.                                        *)
LEMMA Types ==
  ASSUME TypeOK, NEW g \in Group
  PROVE  /\ store[g] \in [EngineRole -> Store] /\ match[g] \in MatchOf(EngineRole)
         /\ game[g] \in 1 .. SubGames /\ step[g] \in 1 .. MaxSteps
         /\ game[g] \in Nat /\ step[g] \in Nat /\ SubGames \in Nat /\ MaxSteps \in Nat
         /\ move[g] \in Token \cup {None} /\ chain[g] \in Seq(Token)
         /\ shown[g] \in Seq(Token \cup {BadMove})
         /\ MyStore(g) \in Store /\ TheirStore(g) \in Store
         /\ Mine(g) \in EngineRole /\ Opponent(Mine(g)) \in EngineRole
<1>1. /\ store[g] \in [EngineRole -> Store] /\ match[g] \in MatchOf(EngineRole)
      /\ game[g] \in 1 .. SubGames /\ step[g] \in 1 .. MaxSteps
      /\ move[g] \in Token \cup {None} /\ chain[g] \in Seq(Token)
      /\ shown[g] \in Seq(Token \cup {BadMove})
  BY DEF TypeOK, Store, Box
<1>2. SubGames \in Nat /\ MaxSteps \in Nat
  BY PushAssumption
<1>3. game[g] \in Nat /\ step[g] \in Nat
  BY <1>1, <1>2
<1>4. Mine(g) \in EngineRole /\ Opponent(Mine(g)) \in EngineRole /\ Rival(g) \in Group
  BY <1>3, Roles DEF Mine
<1>5. MyStore(g) \in Store /\ TheirStore(g) \in Store
  BY <1>4 DEF TypeOK, MyStore, TheirStore, Store, Box
<1> QED
  BY <1>1, <1>2, <1>3, <1>4, <1>5

(* A message is delivered to one box, at one step.                         *)
LEMMA Delivered ==
  ASSUME TypeOK, NEW g \in Group, NEW word \in Token \cup {BadMove},
         NEW box \in {"commits", "reveals"}, Deliver(g, box, word)
  PROVE  /\ store' \in [Group -> [EngineRole -> Store]]
         /\ \A h \in Group, r \in EngineRole :
              h # Rival(g) \/ r # Opponent(Mine(g)) => store'[h][r] = store[h][r]
         /\ LET new == store'[Rival(g)][Opponent(Mine(g))]
                message == [game |-> game[g], move |-> word]
            IN  /\ box = "commits" =>
                     /\ new.reveals = TheirStore(g).reveals
                     /\ new.commits = [TheirStore(g).commits EXCEPT ![step[g]] = message]
                /\ box = "reveals" =>
                     /\ new.commits = TheirStore(g).commits
                     /\ new.reveals = [TheirStore(g).reveals EXCEPT ![step[g]] = message]
<1> DEFINE q == Rival(g)
           role == Opponent(Mine(g))
           message == [game |-> game[g], move |-> word]
           new == [store[q][role] EXCEPT ![box] = [store[q][role][box] EXCEPT ![step[g]] = message]]
<1>1. q \in Group /\ role \in EngineRole /\ store[q][role] \in Store
  BY Types, Roles DEF TheirStore
<1>2. message \in Messages
  BY Types DEF Messages
<1>3. step[g] \in 1 .. MaxSteps /\ TheirStore(g) = store[q][role]
  BY Types DEF TheirStore
<1>4. store' = [store EXCEPT ![q] = [store[q] EXCEPT ![role] = new]]
  BY DEF Deliver
<1> HIDE DEF message, q, role
<1>5. CASE box = "commits"
  <2>1. [store[q][role].commits EXCEPT ![step[g]] = message] \in Box
    BY <1>1, <1>2, <1>3 DEF Store, Box
  <2>2. /\ new \in Store /\ new.reveals = store[q][role].reveals
        /\ new.commits = [store[q][role].commits EXCEPT ![step[g]] = message]
    BY <1>1, <1>5, <2>1 DEF Store
  <2> HIDE DEF new
  <2>3. store \in [Group -> [EngineRole -> Store]]
    BY DEF TypeOK, Store, Box
  <2>4. /\ store' \in [Group -> [EngineRole -> Store]] /\ store'[q][role] = new
        /\ \A h \in Group, r \in EngineRole :
             h # q \/ r # role => store'[h][r] = store[h][r]
    BY <1>1, <1>4, <2>2, <2>3
  <2> QED
    BY <1>3, <1>5, <2>2, <2>4 DEF message, q, role
<1>6. CASE box = "reveals"
  <2>1. [store[q][role].reveals EXCEPT ![step[g]] = message] \in Box
    BY <1>1, <1>2, <1>3 DEF Store, Box
  <2>2. /\ new \in Store /\ new.commits = store[q][role].commits
        /\ new.reveals = [store[q][role].reveals EXCEPT ![step[g]] = message]
    BY <1>1, <1>6, <2>1 DEF Store
  <2> HIDE DEF new
  <2>3. store \in [Group -> [EngineRole -> Store]]
    BY DEF TypeOK, Store, Box
  <2>4. /\ store' \in [Group -> [EngineRole -> Store]] /\ store'[q][role] = new
        /\ \A h \in Group, r \in EngineRole :
             h # q \/ r # role => store'[h][r] = store[h][r]
    BY <1>1, <1>4, <2>2, <2>3
  <2> QED
    BY <1>3, <1>6, <2>2, <2>4 DEF message, q, role
<1> QED
  BY <1>5, <1>6

(* A reset empties one store.                                              *)
LEMMA Emptied ==
  ASSUME TypeOK, NEW g \in Group, Reset(g)
  PROVE  /\ store' \in [Group -> [EngineRole -> Store]]
         /\ store'[g][Mine(g)] = EmptyStore
         /\ \A h \in Group, r \in EngineRole :
              h # g \/ r # Mine(g) => store'[h][r] = store[h][r]
         /\ match' \in [Group -> MatchOf(EngineRole)]
         /\ match'[g] = ResetMatch(match[g])
         /\ \A h \in Group : h # g => match'[h] = match[h]
<1>1. store \in [Group -> [EngineRole -> Store]] /\ match \in [Group -> MatchOf(EngineRole)]
  BY DEF TypeOK, Store, Box
<1>2. Mine(g) \in EngineRole /\ EmptyStore \in Store
  BY Types, EmptyBox
<1>3. store' = [store EXCEPT ![g] = [store[g] EXCEPT ![Mine(g)] = EmptyStore]]
  BY DEF Reset
<1>4. ResetMatch(match[g]) \in MatchOf(EngineRole)
  BY <1>1, ResetTo
<1>5. match' = [match EXCEPT ![g] = ResetMatch(match[g])]
  BY DEF Reset
<1> QED
  BY <1>1, <1>2, <1>3, <1>4, <1>5

(* An engine step, or a move that cannot be read.                          *)
Reads(g) ==
  LET theirs == MyStore(g).reveals[step[g]].move
      pair == PairOf(Mine(g), move[g], theirs)
  IN  \/ /\ theirs \in Token
         /\ match' = [match EXCEPT ![g] = Played(match[g], pair)]
         /\ \/ pc' = [pc EXCEPT ![g] = "audit"] /\ step' = step
            \/ /\ ~Played(match[g], pair).over /\ step[g] # MaxSteps
               /\ pc' = [pc EXCEPT ![g] = "commit"]
               /\ step' = [step EXCEPT ![g] = step[g] + 1]
      \/ /\ theirs \notin Token
         /\ match' = [match EXCEPT ![g] = Submitted(match[g], Mine(g), move[g])]
         /\ pc' = [pc EXCEPT ![g] = "failed"] /\ step' = step

LEMMA Advances ==
  ASSUME Kinds, NEW g \in Group, Advance(g)
  PROVE  Reads(g)
<1> USE DEF Kinds
<1>1. pc[g] = "await" /\ Landed(g)
  BY DEF Advance
<1> DEFINE theirs == MyStore(g).reveals[step[g]].move
           half == Submitted(match[g], Mine(g), move[g])
           both == Submitted(half, Opponent(Mine(g)), theirs)
<1>2. IF Decodes(theirs)
      THEN /\ match' = [match EXCEPT ![g] = both]
           /\ IF IsTerminated(match'[g]) \/ step[g] = MaxSteps
              THEN Goto(g, "audit") /\ UNCHANGED step
              ELSE Goto(g, "commit") /\ step' = [step EXCEPT ![g] = @ + 1]
      ELSE /\ match' = [match EXCEPT ![g] = half]
           /\ Goto(g, "failed") /\ UNCHANGED step
  BY DEF Advance
<1>3. /\ match[g] \in MatchOf(EngineRole) /\ match[g].slots = NoSlots
      /\ match[g].left = NoDeadline /\ move[g] \in Token
      /\ Mine(g) \in EngineRole /\ Opponent(Mine(g)) \in EngineRole
      /\ Opponent(Mine(g)) # Mine(g)
  <2>1. game[g] \in Nat
    BY Types
  <2>2. Opponent(Mine(g)) # Mine(g)
    BY <2>1, Roles DEF Mine
  <2>3. /\ match[g].slots = NoSlots /\ match[g].left = NoDeadline /\ move[g] \in Token
    BY <1>1 DEF Shape, Shaped, Midgame
  <2> QED
    BY <2>2, <2>3, Types
<1>4. CASE theirs \in Token
  <2>1. both = Played(match[g], PairOf(Mine(g), move[g], theirs))
    <3> HIDE DEF theirs
    <3> QED
      BY <1>3, <1>4, TwoSubmissions
  <2> HIDE DEF theirs, half, both
  <2>2. match' = [match EXCEPT ![g] = both] /\ match'[g] = both
    BY <1>2, <1>4 DEF Decodes, TypeOK
  <2>3. IF IsTerminated(both) \/ step[g] = MaxSteps
        THEN pc' = [pc EXCEPT ![g] = "audit"] /\ step' = step
        ELSE /\ pc' = [pc EXCEPT ![g] = "commit"]
             /\ step' = [step EXCEPT ![g] = step[g] + 1]
    BY <1>2, <1>4, <2>2 DEF Decodes, Goto
  <2>4. ~IsTerminated(both) => ~both.over
    BY DEF IsTerminated
  <2> QED
    BY <1>4, <2>1, <2>2, <2>3, <2>4 DEF Reads, theirs
<1>5. CASE theirs \notin Token
  <2> HIDE DEF both
  <2> QED
    BY <1>2, <1>5 DEF Reads, Decodes, Goto
<1> QED
  BY <1>4, <1>5

-----------------------------------------------------------------------------
(* The parts of the invariant that speak of one driver at a time.          *)

(* A driver touches nothing of its rival's but one of its stores.          *)
LEMMA Frame ==
  ASSUME TypeOK, NEW g \in Group, DriverStep(g)
  PROVE  /\ match'[Rival(g)] = match[Rival(g)] /\ game'[Rival(g)] = game[Rival(g)]
         /\ pc'[Rival(g)] = pc[Rival(g)] /\ step'[Rival(g)] = step[Rival(g)]
         /\ move'[Rival(g)] = move[Rival(g)] /\ chain'[Rival(g)] = chain[Rival(g)]
         /\ shown'[Rival(g)] = shown[Rival(g)]
<1>1. Rival(g) \in Group /\ Rival(g) # g
  BY DEF Rival, Group
<1>3. CASE Open(g)
  BY <1>1, <1>3 DEF TypeOK, Open, Reset, Goto
<1>4. CASE Commit(g)
  BY <1>1, <1>4 DEF TypeOK, Commit, Goto
<1>5. CASE Reveal(g)
  BY <1>1, <1>5 DEF TypeOK, Reveal, Goto
<1>6. CASE Advance(g)
  BY <1>1, <1>6 DEF TypeOK, Advance, Goto
<1>7. CASE Audit(g)
  BY <1>1, <1>7 DEF TypeOK, Audit, Goto
<1> QED
  BY <1>3, <1>4, <1>5, <1>6, <1>7 DEF DriverStep

(* Only the actor's part of the shape has to be looked at.                 *)
LEMMA ShapeOfOne ==
  ASSUME TypeOK, Shape, NEW g \in Group, DriverStep(g), Shaped(g)'
  PROVE  Shape'
<1>1. Rival(g) \in Group /\ Group = {g, Rival(g)}
  BY DEF Rival, Group
<1>2. Shaped(Rival(g))
  BY <1>1 DEF Shape
<1>3. Shaped(Rival(g))'
  BY <1>2, Frame DEF Shaped
<1> QED
  BY <1>1, <1>3 DEF Shape

LEMMA KindsAtInit == Init => Kinds
<1> SUFFICES ASSUME Init PROVE Kinds
  OBVIOUS
<1>1. SubGames \in Nat \ {0} /\ MaxSteps \in Nat \ {0}
  BY PushAssumption
<1>2. /\ NewMatch \in MatchOf(EngineRole) /\ NewMatch.forfeits = {}
  BY MatchAssumption DEF NewMatch, MatchOf, NoSlots, NoDeadline, Deadline
<1>3. TypeOK
  BY <1>1, <1>2, EmptyBox DEF Init, TypeOK, Store, Box
<1>4. Shape
  BY <1>2 DEF Init, Shape, Shaped, Midgame
<1> QED
  BY <1>3, <1>4 DEF Kinds

LEMMA KindsAtOpen ==
  ASSUME Kinds, NEW g \in Group, Open(g)
  PROVE  Kinds'
<1> USE DEF Kinds
<1>1. Reset(g) /\ pc[g] = "open"
  BY DEF Open
<1>2. SubGames \in Nat \ {0} /\ MaxSteps \in Nat \ {0}
  BY PushAssumption
<1>3. store' \in [Group -> [EngineRole -> Store]] /\ match' \in [Group -> MatchOf(EngineRole)]
  BY <1>1, Emptied
<1>4. TypeOK'
  <2>1. /\ step' = [step EXCEPT ![g] = 1] /\ pc' = [pc EXCEPT ![g] = "commit"]
        /\ UNCHANGED <<game, move, chain, shown>>
    BY DEF Open, Goto
  <2>2. step' \in [Group -> 1 .. MaxSteps]
    BY <1>2, <2>1 DEF TypeOK
  <2> QED
    BY <1>3, <2>1, <2>2 DEF TypeOK, Store, Box
<1>5. Shaped(g)'
  <2>1. /\ match'[g].slots = NoSlots /\ match'[g].left = NoDeadline
        /\ match'[g].played = <<>> /\ match'[g].over = FALSE /\ match'[g].forfeits = {}
    <3>1. match'[g] = ResetMatch(match[g]) /\ match[g] \in MatchOf(EngineRole)
      BY <1>1, Emptied, Types
    <3> QED
      BY <3>1, ResetTo
  <2>2. pc'[g] = "commit" /\ step'[g] = 1 /\ chain'[g] = chain[g] /\ shown'[g] = shown[g]
    BY DEF Open, Goto, TypeOK
  <2>3. Len(chain[g]) = 0 /\ Len(shown[g]) = 0
    BY <1>1 DEF Shape, Shaped
  <2> QED
    BY <2>1, <2>2, <2>3 DEF Shaped, Midgame
<1> QED
  BY <1>4, <1>5, ShapeOfOne DEF DriverStep

LEMMA KindsAtCommit ==
  ASSUME Kinds, NEW g \in Group, Commit(g)
  PROVE  Kinds'
<1> USE DEF Kinds
<1>1. PICK word \in Token :
        /\ move' = [move EXCEPT ![g] = word]
        /\ chain' = [chain EXCEPT ![g] = Append(chain[g], word)]
        /\ Deliver(g, "commits", word)
  BY DEF Commit
<1>2. /\ pc[g] = "commit" /\ pc' = [pc EXCEPT ![g] = "reveal"]
      /\ match' = match /\ game' = game /\ step' = step /\ shown' = shown
  BY DEF Commit, Goto
<1>3. store' \in [Group -> [EngineRole -> Store]]
  BY <1>1, Delivered
<1>4. chain[g] \in Seq(Token) /\ Append(chain[g], word) \in Seq(Token)
  BY <1>1, Types
<1>5. TypeOK'
  BY <1>1, <1>2, <1>3, <1>4 DEF TypeOK, Store, Box
<1>6. Shaped(g)'
  <2>1. move'[g] = word /\ chain'[g] = Append(chain[g], word) /\ pc'[g] = "reveal"
    BY <1>1, <1>2 DEF TypeOK
  <2>2. Shaped(g) /\ step[g] \in Nat
    BY Types DEF Shape
  <2>3. Len(chain[g]) = step[g] - 1 /\ Len(shown[g]) = step[g] - 1
    BY <1>2, <2>2 DEF Shaped
  <2>4. Len(chain'[g]) = step[g]
    BY <1>4, <2>1, <2>2, <2>3
  <2> QED
    BY <1>1, <1>2, <2>1, <2>2, <2>3, <2>4 DEF Shaped, Midgame
<1> QED
  BY <1>5, <1>6, ShapeOfOne DEF DriverStep

LEMMA Shows ==
  ASSUME Kinds, NEW g \in Group, Reveal(g)
  PROVE  \E word \in Token \cup {BadMove} :
           /\ move' = [move EXCEPT ![g] = IF word \in Token THEN word ELSE move[g]]
           /\ shown' = [shown EXCEPT ![g] = Append(shown[g], word)]
           /\ Deliver(g, "reveals", word)
<1> USE DEF Kinds
<1>1. PICK word \in Revealable(g) :
        /\ move' = [move EXCEPT ![g] = IF word \in Token THEN word ELSE move[g]]
        /\ shown' = [shown EXCEPT ![g] = Append(shown[g], word)]
        /\ Deliver(g, "reveals", word)
  BY DEF Reveal
<1>2. move[g] \in Token
  BY DEF Reveal, Shape, Shaped
<1>3. word \in Token \cup {BadMove}
  BY <1>1, <1>2 DEF Revealable
<1> QED
  BY <1>1, <1>3

LEMMA KindsAtReveal ==
  ASSUME Kinds, NEW g \in Group, Reveal(g)
  PROVE  Kinds'
<1> USE DEF Kinds
<1>1. PICK word \in Token \cup {BadMove} :
        /\ move' = [move EXCEPT ![g] = IF word \in Token THEN word ELSE move[g]]
        /\ shown' = [shown EXCEPT ![g] = Append(shown[g], word)]
        /\ Deliver(g, "reveals", word)
  BY Shows
<1>2. /\ pc[g] = "reveal" /\ pc' = [pc EXCEPT ![g] = "await"]
      /\ match' = match /\ game' = game /\ step' = step /\ chain' = chain
  BY DEF Reveal, Goto
<1>3. store' \in [Group -> [EngineRole -> Store]]
  BY <1>1, Delivered
<1>4. /\ shown[g] \in Seq(Token \cup {BadMove})
      /\ Append(shown[g], word) \in Seq(Token \cup {BadMove})
  BY <1>1, Types
<1>5. TypeOK'
  BY <1>1, <1>2, <1>3, <1>4 DEF TypeOK, Store, Box
<1>6. Shaped(g)'
  <2>1. Shaped(g) /\ step[g] \in Nat /\ move[g] \in Token
    BY <1>2, Types DEF Shape, Shaped
  <2>2. move'[g] \in Token /\ shown'[g] = Append(shown[g], word) /\ pc'[g] = "await"
    BY <1>1, <1>2, <2>1 DEF TypeOK
  <2>3. Len(chain[g]) = step[g] /\ Len(shown[g]) = step[g] - 1
    BY <1>2, <2>1 DEF Shaped
  <2>4. Len(shown'[g]) = step[g]
    BY <1>4, <2>1, <2>2, <2>3
  <2> QED
    BY <1>2, <2>1, <2>2, <2>3, <2>4 DEF Shaped, Midgame
<1> QED
  BY <1>5, <1>6, ShapeOfOne DEF DriverStep

LEMMA KindsAtAdvance ==
  ASSUME Kinds, NEW g \in Group, Advance(g)
  PROVE  Kinds'
<1> USE DEF Kinds
<1> DEFINE theirs == MyStore(g).reveals[step[g]].move
           pair == PairOf(Mine(g), move[g], theirs)
<1>1. /\ pc[g] = "await" /\ store' = store /\ game' = game /\ move' = move
      /\ chain' = chain /\ shown' = shown
  BY DEF Advance
<1>2. Reads(g)
  BY Advances
<1>3. /\ Shaped(g) /\ move[g] \in Token /\ match[g].slots = NoSlots
      /\ match[g].left = NoDeadline /\ ~match[g].over
      /\ Len(match[g].played) = step[g] - 1 /\ match[g].forfeits = {}
      /\ Len(chain[g]) = step[g] /\ Len(shown[g]) = step[g]
  BY <1>1 DEF Shape, Shaped, Midgame
<1>4. /\ match[g] \in MatchOf(EngineRole) /\ step[g] \in 1 .. MaxSteps /\ MaxSteps \in Nat
      /\ Mine(g) \in EngineRole /\ match[g].played \in Seq([EngineRole -> Token])
  BY Types DEF MatchOf
<1>5. CASE theirs \in Token
  <2>1. pair \in [EngineRole -> Token]
    BY <1>3, <1>5 DEF PairOf
  <2> DEFINE next == Played(match[g], pair)
  <2>2. /\ next \in MatchOf(EngineRole) /\ next.played = Append(match[g].played, pair)
        /\ next.slots = NoSlots /\ next.left = NoDeadline /\ next.forfeits = {}
    BY <1>3, <1>4, <2>1, StepPlayed
  <2>3. /\ match' = [match EXCEPT ![g] = next]
        /\ \/ pc' = [pc EXCEPT ![g] = "audit"] /\ step' = step
           \/ /\ ~next.over /\ step[g] # MaxSteps
              /\ pc' = [pc EXCEPT ![g] = "commit"]
              /\ step' = [step EXCEPT ![g] = step[g] + 1]
    BY <1>2, <1>5 DEF Reads
  <2> HIDE DEF next, pair, theirs
  <2>4. Len(next.played) = step[g]
    BY <1>3, <1>4, <2>1, <2>2
  <2>5. match'[g] = next /\ match' \in [Group -> MatchOf(EngineRole)]
    BY <2>2, <2>3 DEF TypeOK
  <2>6. CASE pc' = [pc EXCEPT ![g] = "audit"] /\ step' = step
    <3>1. TypeOK'
      BY <1>1, <2>5, <2>6 DEF TypeOK
    <3>2. pc'[g] = "audit"
      BY <2>6 DEF TypeOK
    <3>3. Shaped(g)'
      BY <1>1, <1>3, <2>2, <2>4, <2>5, <2>6, <3>2 DEF Shaped, Midgame
    <3> QED
      BY <3>1, <3>3, ShapeOfOne DEF DriverStep
  <2>7. CASE /\ ~next.over /\ step[g] # MaxSteps
             /\ pc' = [pc EXCEPT ![g] = "commit"]
             /\ step' = [step EXCEPT ![g] = step[g] + 1]
    <3>1. step[g] + 1 \in 1 .. MaxSteps
      BY <1>4, <2>7
    <3>2. TypeOK'
      BY <1>1, <2>5, <2>7, <3>1 DEF TypeOK
    <3>3. pc'[g] = "commit" /\ step'[g] = step[g] + 1
      BY <2>7 DEF TypeOK
    <3>4. Shaped(g)'
      BY <1>1, <1>3, <1>4, <2>2, <2>4, <2>5, <2>7, <3>3 DEF Shaped, Midgame
    <3> QED
      BY <3>2, <3>4, ShapeOfOne DEF DriverStep
  <2> QED
    BY <2>3, <2>6, <2>7
<1>6. CASE theirs \notin Token
  <2> DEFINE half == Submitted(match[g], Mine(g), move[g])
  <2>1. half \in MatchOf(EngineRole) /\ half.played = match[g].played /\ half.forfeits = {}
    BY <1>3, <1>4, OneSubmission
  <2>2. /\ match' = [match EXCEPT ![g] = half] /\ step' = step
        /\ pc' = [pc EXCEPT ![g] = "failed"]
    BY <1>2, <1>6 DEF Reads
  <2> HIDE DEF half
  <2>3. TypeOK'
    BY <1>1, <2>1, <2>2 DEF TypeOK
  <2>4. match'[g] = half /\ pc'[g] = "failed"
    BY <2>2 DEF TypeOK
  <2>5. Shaped(g)'
    BY <1>1, <1>3, <2>1, <2>2, <2>4 DEF Shaped, Midgame
  <2> QED
    BY <2>3, <2>5, ShapeOfOne DEF DriverStep
<1> QED
  BY <1>5, <1>6

LEMMA KindsAtAudit ==
  ASSUME Kinds, NEW g \in Group, Audit(g)
  PROVE  Kinds'
<1> USE DEF Kinds
<1>1. /\ pc[g] = "audit" /\ store' = store /\ match' = match /\ step' = step
      /\ move' = [move EXCEPT ![g] = None]
      /\ chain' = [chain EXCEPT ![g] = <<>>] /\ shown' = [shown EXCEPT ![g] = <<>>]
      /\ game' = [game EXCEPT ![g] = IF game[g] = SubGames THEN game[g] ELSE game[g] + 1]
      /\ pc' = [pc EXCEPT ![g] = IF game[g] = SubGames THEN "done" ELSE "open"]
  BY DEF Audit, Goto
<1>2. (IF game[g] = SubGames THEN game[g] ELSE game[g] + 1) \in 1 .. SubGames
  BY Types
<1>3. game' \in [Group -> 1 .. SubGames]
  BY <1>1, <1>2 DEF TypeOK
<1>4. TypeOK'
  BY <1>1, <1>3 DEF TypeOK
<1>5. /\ pc'[g] \in {"done", "open"} /\ chain'[g] = <<>> /\ shown'[g] = <<>>
  BY <1>1 DEF TypeOK
<1>6. Shaped(g)'
  BY <1>1, <1>5 DEF Shape, Shaped, Midgame
<1> QED
  BY <1>4, <1>6, ShapeOfOne DEF DriverStep

LEMMA KindsStay ==
  ASSUME Kinds, NEW g \in Group, DriverStep(g)
  PROVE  Kinds'
BY KindsAtOpen, KindsAtCommit, KindsAtReveal, KindsAtAdvance, KindsAtAudit DEF DriverStep

-----------------------------------------------------------------------------
(* The pace of the two drivers.                                            *)

(* The rival reads the store its messages of this sub-game are pushed to   *)
(* exactly while it plays the same sub-game.                               *)
LEMMA Crossing ==
  ASSUME TypeOK, Pace, NEW g \in Group
  PROVE  /\ Rival(g) \in Group /\ Rival(Rival(g)) = g /\ Rival(g) # g
         /\ game[Rival(g)] = game[g] =>
              Mine(Rival(g)) = Opponent(Mine(g)) /\ Mine(g) = Opponent(Mine(Rival(g)))
         /\ game[Rival(g)] # game[g] =>
              Mine(Rival(g)) # Opponent(Mine(g)) /\ Mine(g) # Opponent(Mine(Rival(g)))
<1> DEFINE r == Rival(g)
<1>1. r \in Group /\ r # g /\ Rival(r) = g
  BY DEF Rival, Group
<1>2. game[g] \in Nat /\ game[r] \in Nat
  BY <1>1, Types
<1>3. game[g] <= game[r] + 1 /\ game[r] <= game[g] + 1
  BY <1>1 DEF Pace, Paced
<1>4. /\ RoleIn(r, game[g]) = Opponent(Mine(g)) /\ RoleIn(g, game[r]) = Opponent(Mine(r))
  BY <1>1, <1>2, Roles DEF Mine
<1>5. CASE game[r] = game[g]
  BY <1>1, <1>4, <1>5 DEF Mine
<1>6. CASE game[r] = game[g] + 1
  <2>1. RoleIn(r, game[g] + 1) # RoleIn(r, game[g]) /\ RoleIn(g, game[g] + 1) # RoleIn(g, game[g])
    BY <1>1, <1>2, Roles
  <2> QED
    BY <1>1, <1>2, <1>4, <1>6, <2>1 DEF Mine
<1>7. CASE game[g] = game[r] + 1
  <2>1. RoleIn(r, game[r] + 1) # RoleIn(r, game[r]) /\ RoleIn(g, game[r] + 1) # RoleIn(g, game[r])
    BY <1>1, <1>2, Roles
  <2> QED
    BY <1>1, <1>2, <1>4, <1>7, <2>1 DEF Mine
<1> QED
  BY <1>2, <1>3, <1>5, <1>6, <1>7

(* A driver that waits for the rival's two messages has them in no empty   *)
(* store, and one that audits is not ahead.                                *)
LEMMA NotAhead ==
  ASSUME Kinds, Pace, NEW g \in Group,
         (pc[g] = "await" /\ Landed(g)) \/ pc[g] \in {"audit", "failed", "done"}
  PROVE  game[g] <= game[Rival(g)]
<1> USE DEF Kinds
<1>1. game[g] \in Nat /\ game[Rival(g)] \in Nat /\ step[g] \in 1 .. MaxSteps
  BY Types, Crossing
<1>2. Paced(g)
  BY DEF Pace
<1>3. Landed(g) => MyStore(g) # EmptyStore
  <2>1. EmptyStore.commits[step[g]] = None
    BY <1>1 DEF EmptyStore
  <2> QED
    BY <2>1 DEF Landed
<1> QED
  BY <1>1, <1>2, <1>3 DEF Paced, Midgame

(* The rival's pace, while the store it reads is left alone.               *)
LEMMA PaceOfRival ==
  ASSUME Kinds, Pace, NEW g \in Group, DriverStep(g),
         game[g] <= game'[g], game'[g] \in Nat,
         game[g] < game[Rival(g)] => store'[Rival(g)][Mine(Rival(g))] = MyStore(Rival(g))
  PROVE  Paced(Rival(g))'
<1> USE DEF Kinds
<1>1. Paced(Rival(g)) /\ Rival(g) \in Group /\ Rival(Rival(g)) = g
  BY Crossing DEF Pace
<1>2. game[g] \in Nat /\ game[Rival(g)] \in Nat
  BY <1>1, Types
<1>3. MyStore(Rival(g))' = store'[Rival(g)][Mine(Rival(g))]
  BY Frame DEF MyStore, Mine
<1> QED
  BY <1>1, <1>2, <1>3, Frame DEF Paced

LEMMA PaceOf ==
  ASSUME Kinds, Pace, NEW g \in Group, DriverStep(g), Paced(g)', Paced(Rival(g))'
  PROVE  Pace'
BY DEF Pace, Group, Rival

LEMMA PaceStays ==
  ASSUME Kinds, Pace, NEW g \in Group, DriverStep(g)
  PROVE  Pace'
<1> USE DEF Kinds
<1> DEFINE r == Rival(g)
<1>1. r \in Group /\ Rival(r) = g /\ r # g /\ Paced(g)
  BY Crossing DEF Pace
<1>2. game[g] \in Nat /\ game[r] \in Nat /\ game'[r] = game[r]
  BY <1>1, Types, Frame
<1>3. CASE Open(g)
  <2>1. Reset(g) /\ game' = game /\ pc'[g] = "commit" /\ step'[g] = 1
    BY <1>3 DEF Open, Goto, TypeOK
  <2>2. MyStore(g)' = EmptyStore
    BY <2>1, Emptied DEF MyStore, Mine
  <2>3. Paced(g)'
    BY <1>1, <2>1, <2>2 DEF Paced, Midgame
  <2>4. store'[r][Mine(r)] = MyStore(r)
    BY <1>1, <2>1, Emptied, Types DEF MyStore
  <2> QED
    BY <1>2, <1>3, <2>1, <2>3, <2>4, PaceOfRival, PaceOf DEF DriverStep
<1>4. CASE Commit(g) \/ Reveal(g)
  <2>1. /\ game' = game /\ step' = step
        /\ pc[g] \in Midgame /\ pc'[g] \in Midgame
    BY <1>4 DEF Commit, Reveal, Goto, TypeOK, Midgame
  <2>2. \A h \in Group, role \in EngineRole :
          h # r \/ role # Opponent(Mine(g)) => store'[h][role] = store[h][role]
    <3>1. CASE Commit(g)
      <4>1. PICK word \in Token : Deliver(g, "commits", word)
        BY <3>1 DEF Commit
      <4> QED
        BY <4>1, Delivered
    <3>2. CASE Reveal(g)
      <4>1. PICK word \in Token \cup {BadMove} : Deliver(g, "reveals", word)
        BY <3>2, Shows
      <4> QED
        BY <4>1, Delivered
    <3> QED
      BY <1>4, <3>1, <3>2
  <2>3. Mine(g) \in EngineRole /\ Mine(r) \in EngineRole
    BY <1>1, Types
  <2>4. MyStore(g)' = MyStore(g)
    <3>1. store'[g][Mine(g)] = store[g][Mine(g)]
      BY <1>1, <2>2, <2>3
    <3> QED
      BY <2>1, <3>1 DEF MyStore, Mine
  <2>5. Paced(g)'
    BY <1>1, <2>1, <2>4 DEF Paced, Midgame
  <2>6. game[g] < game[r] => store'[r][Mine(r)] = MyStore(r)
    <3>1. game[g] < game[r] => Mine(r) # Opponent(Mine(g))
      BY <1>2, Crossing
    <3> QED
      BY <1>1, <2>2, <2>3, <3>1 DEF MyStore
  <2> QED
    BY <1>2, <1>4, <2>1, <2>5, <2>6, PaceOfRival, PaceOf DEF DriverStep
<1>5. CASE Advance(g)
  <2>1. pc[g] = "await" /\ Landed(g) /\ game' = game /\ store' = store
    BY <1>5 DEF Advance
  <2>2. game[g] <= game[r]
    BY <2>1, NotAhead
  <2>3. Paced(g)'
    BY <1>1, <1>2, <2>1, <2>2 DEF Paced
  <2> QED
    BY <1>2, <1>5, <2>1, <2>3, PaceOfRival, PaceOf DEF DriverStep, MyStore
<1>6. CASE Audit(g)
  <2>1. /\ pc[g] = "audit" /\ store' = store
        /\ game'[g] = (IF game[g] = SubGames THEN game[g] ELSE game[g] + 1)
        /\ pc'[g] = (IF game[g] = SubGames THEN "done" ELSE "open")
    BY <1>6 DEF Audit, Goto, TypeOK
  <2>2. game[g] <= game[r]
    BY <2>1, NotAhead
  <2>3. Paced(g)'
    BY <1>1, <1>2, <2>1, <2>2 DEF Paced
  <2>4. game[g] <= game'[g] /\ game'[g] \in Nat
    BY <1>2, <2>1
  <2> QED
    BY <1>2, <1>6, <2>1, <2>3, <2>4, PaceOfRival, PaceOf DEF DriverStep, MyStore
<1> QED
  BY <1>3, <1>4, <1>5, <1>6 DEF DriverStep

-----------------------------------------------------------------------------
(* What a message changes, and for whom.                                   *)

(* Who else sees a message: the rival, if it plays the same sub-game.      *)
LEMMA Untouched ==
  ASSUME Kinds, Pace, NEW g \in Group, game' = game,
         \A h \in Group, role \in EngineRole :
           h # Rival(g) \/ role # Opponent(Mine(g)) => store'[h][role] = store[h][role]
  PROVE  /\ MyStore(g)' = MyStore(g) /\ TheirStore(Rival(g))' = TheirStore(Rival(g))
         /\ game[Rival(g)] = game[g] =>
              /\ MyStore(Rival(g)) = TheirStore(g)
              /\ MyStore(Rival(g))' = TheirStore(g)'
         /\ game[Rival(g)] # game[g] => MyStore(Rival(g))' = MyStore(Rival(g))
<1> USE DEF Kinds
<1> DEFINE r == Rival(g)
<1>1. r \in Group /\ Rival(r) = g /\ r # g
  BY Crossing
<1>2. /\ Mine(g) \in EngineRole /\ Opponent(Mine(g)) \in EngineRole
      /\ Mine(r) \in EngineRole /\ Opponent(Mine(r)) \in EngineRole
  BY <1>1, Types
<1>3. /\ MyStore(g)' = store'[g][Mine(g)] /\ MyStore(r)' = store'[r][Mine(r)]
      /\ TheirStore(g)' = store'[r][Opponent(Mine(g))]
      /\ TheirStore(r)' = store'[Rival(r)][Opponent(Mine(r))]
  BY DEF MyStore, TheirStore, Mine
<1>4. MyStore(g)' = MyStore(g) /\ TheirStore(r)' = TheirStore(r)
  BY <1>1, <1>2, <1>3 DEF MyStore, TheirStore
<1>5. ASSUME game[r] = game[g]
      PROVE  MyStore(r) = TheirStore(g) /\ MyStore(r)' = TheirStore(g)'
  <2>1. Mine(r) = Opponent(Mine(g))
    BY <1>5, Crossing
  <2> QED
    BY <1>3, <2>1 DEF MyStore, TheirStore
<1>6. ASSUME game[r] # game[g]
      PROVE  MyStore(r)' = MyStore(r)
  <2>1. Mine(r) # Opponent(Mine(g))
    BY <1>6, Crossing
  <2> QED
    BY <1>1, <1>2, <1>3, <2>1 DEF MyStore
<1> QED
  BY <1>4, <1>5, <1>6

(* A message of g's lands in one box of one store, and nowhere else.       *)
Reaches(g, box, message) ==
  /\ MyStore(g)' = MyStore(g) /\ TheirStore(Rival(g))' = TheirStore(Rival(g))
  /\ game[Rival(g)] = game[g] =>
       MyStore(Rival(g)) = TheirStore(g) /\ MyStore(Rival(g))' = TheirStore(g)'
  /\ game[Rival(g)] # game[g] => MyStore(Rival(g))' = MyStore(Rival(g))
  /\ box = "commits" =>
       /\ TheirStore(g)'.reveals = TheirStore(g).reveals
       /\ TheirStore(g)'.commits = [TheirStore(g).commits EXCEPT ![step[g]] = message]
  /\ box = "reveals" =>
       /\ TheirStore(g)'.commits = TheirStore(g).commits
       /\ TheirStore(g)'.reveals = [TheirStore(g).reveals EXCEPT ![step[g]] = message]

(* Committing, seen from both sides.                                       *)
LEMMA Commits ==
  ASSUME Kinds, Pace, NEW g \in Group, Commit(g)
  PROVE  /\ match' = match /\ game' = game /\ step' = step /\ dropped' = dropped
         /\ ruled' = ruled /\ pc[g] = "commit" /\ pc'[g] = "reveal"
         /\ chain[g] \in Seq(Token) /\ Len(chain[g]) = step[g] - 1
         /\ \E word \in Token :
              /\ chain'[g] = Append(chain[g], word)
              /\ Reaches(g, "commits", [game |-> game[g], move |-> word])
<1> USE DEF Kinds
<1>1. PICK word \in Token :
        chain' = [chain EXCEPT ![g] = Append(chain[g], word)] /\ Deliver(g, "commits", word)
  BY DEF Commit
<1>2. /\ match' = match /\ game' = game /\ step' = step /\ dropped' = dropped
      /\ ruled' = ruled /\ pc[g] = "commit" /\ pc'[g] = "reveal"
  BY DEF Commit, Goto, history, TypeOK
<1>3. /\ \A h \in Group, role \in EngineRole :
           h # Rival(g) \/ role # Opponent(Mine(g)) => store'[h][role] = store[h][role]
      /\ LET new == store'[Rival(g)][Opponent(Mine(g))]
         IN  /\ new.reveals = TheirStore(g).reveals
             /\ new.commits = [TheirStore(g).commits EXCEPT
                                 ![step[g]] = [game |-> game[g], move |-> word]]
  BY <1>1, Delivered
<1>4. TheirStore(g)' = store'[Rival(g)][Opponent(Mine(g))]
  BY <1>2 DEF TheirStore, Mine
<1>5. Reaches(g, "commits", [game |-> game[g], move |-> word])
  BY <1>2, <1>3, <1>4, Untouched DEF Reaches
<1>6. chain[g] \in Seq(Token) /\ Len(chain[g]) = step[g] - 1
  BY <1>2, Types DEF Shape, Shaped
<1>7. chain'[g] = Append(chain[g], word)
  BY <1>1 DEF TypeOK
<1> QED
  BY <1>2, <1>5, <1>6, <1>7

(* Revealing, seen from both sides.                                        *)
LEMMA Tells ==
  ASSUME Kinds, Pace, NEW g \in Group, Reveal(g)
  PROVE  /\ match' = match /\ game' = game /\ step' = step /\ dropped' = dropped
         /\ ruled' = ruled /\ chain' = chain /\ pc[g] = "reveal" /\ pc'[g] = "await"
         /\ \E word \in Token \cup {BadMove} :
              /\ word \in Token => move'[g] = word
              /\ Reaches(g, "reveals", [game |-> game[g], move |-> word])
<1> USE DEF Kinds
<1>1. PICK word \in Token \cup {BadMove} :
        /\ move' = [move EXCEPT ![g] = IF word \in Token THEN word ELSE move[g]]
        /\ Deliver(g, "reveals", word)
  BY Shows
<1>2. /\ match' = match /\ game' = game /\ step' = step /\ dropped' = dropped
      /\ ruled' = ruled /\ chain' = chain /\ pc[g] = "reveal" /\ pc'[g] = "await"
  BY DEF Reveal, Goto, history, TypeOK
<1>3. /\ \A h \in Group, role \in EngineRole :
           h # Rival(g) \/ role # Opponent(Mine(g)) => store'[h][role] = store[h][role]
      /\ LET new == store'[Rival(g)][Opponent(Mine(g))]
         IN  /\ new.commits = TheirStore(g).commits
             /\ new.reveals = [TheirStore(g).reveals EXCEPT
                                 ![step[g]] = [game |-> game[g], move |-> word]]
  BY <1>1, Delivered
<1>4. TheirStore(g)' = store'[Rival(g)][Opponent(Mine(g))]
  BY <1>2 DEF TheirStore, Mine
<1>5. Reaches(g, "reveals", [game |-> game[g], move |-> word])
  BY <1>2, <1>3, <1>4, Untouched DEF Reaches
<1>6. word \in Token => move'[g] = word
  BY <1>1 DEF TypeOK
<1> QED
  BY <1>2, <1>5, <1>6

(* A reset empties one's own store, and leaves the one the rival's early   *)
(* messages of the next sub-game are in to itself.                         *)
LEMMA Opens ==
  ASSUME Kinds, Pace, NEW g \in Group, Open(g)
  PROVE  /\ game' = game /\ step' = [step EXCEPT ![g] = 1] /\ move' = move /\ chain' = chain
         /\ ruled' = ruled /\ pc[g] = "open" /\ pc'[g] = "commit"
         /\ match'[g].played = <<>> /\ chain[g] = <<>>
         /\ MyStore(g)' = EmptyStore /\ MyStore(Rival(g))' = MyStore(Rival(g))
         /\ TheirStore(g)' = TheirStore(g)
         /\ game[Rival(g)] = game[g] =>
              TheirStore(Rival(g)) = MyStore(g) /\ TheirStore(Rival(g))' = EmptyStore
         /\ game[Rival(g)] # game[g] => TheirStore(Rival(g))' = TheirStore(Rival(g))
         /\ dropped' = (dropped \/ \E n \in 1 .. MaxSteps :
                          MyStore(g).commits[n] # None /\ MyStore(g).commits[n].game = game[g])
<1> USE DEF Kinds
<1> DEFINE r == Rival(g)
<1>1. /\ Reset(g) /\ game' = game /\ step' = [step EXCEPT ![g] = 1] /\ move' = move
      /\ chain' = chain /\ ruled' = ruled /\ pc[g] = "open" /\ pc'[g] = "commit"
      /\ dropped' = (dropped \/ \E n \in 1 .. MaxSteps :
                       MyStore(g).commits[n] # None /\ MyStore(g).commits[n].game = game[g])
  BY DEF Open, Goto, TypeOK
<1>2. r \in Group /\ Rival(r) = g /\ r # g
  BY Crossing
<1>3. /\ store'[g][Mine(g)] = EmptyStore
      /\ \A h \in Group, role \in EngineRole :
           h # g \/ role # Mine(g) => store'[h][role] = store[h][role]
  BY <1>1, Emptied
<1>4. /\ Mine(g) \in EngineRole /\ Opponent(Mine(g)) \in EngineRole
      /\ Mine(r) \in EngineRole /\ Opponent(Mine(r)) \in EngineRole
  BY <1>2, Types
<1>5. /\ MyStore(g)' = store'[g][Mine(g)] /\ MyStore(r)' = store'[r][Mine(r)]
      /\ TheirStore(g)' = store'[r][Opponent(Mine(g))]
      /\ TheirStore(r)' = store'[Rival(r)][Opponent(Mine(r))]
  BY <1>1 DEF MyStore, TheirStore, Mine
<1>6. MyStore(g)' = EmptyStore /\ MyStore(r)' = MyStore(r) /\ TheirStore(g)' = TheirStore(g)
  BY <1>2, <1>3, <1>4, <1>5 DEF MyStore, TheirStore
<1>7. ASSUME game[r] = game[g]
      PROVE  TheirStore(r) = MyStore(g) /\ TheirStore(r)' = EmptyStore
  <2>1. Opponent(Mine(r)) = Mine(g)
    BY <1>7, Crossing
  <2> QED
    BY <1>2, <1>3, <1>5, <2>1 DEF MyStore, TheirStore
<1>8. ASSUME game[r] # game[g]
      PROVE  TheirStore(r)' = TheirStore(r)
  <2>1. Opponent(Mine(r)) # Mine(g)
    BY <1>8, Crossing
  <2> QED
    BY <1>2, <1>3, <1>4, <1>5, <2>1 DEF TheirStore
<1>9. match'[g].played = <<>>
  <2>1. match'[g] = ResetMatch(match[g]) /\ match[g] \in MatchOf(EngineRole)
    BY <1>1, Emptied, Types
  <2> QED
    BY <2>1, ResetTo
<1>10. chain[g] = <<>>
  <2>1. chain[g] \in Seq(Token) /\ Len(chain[g]) = 0
    BY <1>1, Types DEF Shape, Shaped
  <2> QED
    BY <2>1
<1> QED
  BY <1>1, <1>6, <1>7, <1>8, <1>9, <1>10

-----------------------------------------------------------------------------
(* The two histories.                                                      *)

Base == Kinds /\ Pace
Twin == Kept /\ Revealed /\ Alike

(* Two drivers are all there are.                                          *)
LEMMA TwinOf ==
  ASSUME NEW g \in Group, Keeps(g)', Keeps(Rival(g))', Reveals(g)', Reveals(Rival(g))',
         Agrees(g)'
  PROVE  Twin'
<1>1. Rival(g) \in Group /\ Rival(Rival(g)) = g /\ Group = {g, Rival(g)}
  BY DEF Rival, Group
<1>2. Agrees(Rival(g))'
  BY <1>1 DEF Agrees, Same
<1> QED
  BY <1>1, <1>2 DEF Twin, Kept, Revealed, Alike

LEMMA TwinAt ==
  ASSUME Base, Twin, NEW g \in Group
  PROVE  /\ Rival(g) \in Group /\ Rival(Rival(g)) = g /\ Rival(g) # g
         /\ Keeps(g) /\ Keeps(Rival(g)) /\ Reveals(g) /\ Reveals(Rival(g)) /\ Agrees(g)
         /\ Shaped(g) /\ Shaped(Rival(g)) /\ Paced(g) /\ Paced(Rival(g))
         /\ game[g] \in Nat /\ game[Rival(g)] \in Nat
         /\ step[g] \in 1 .. MaxSteps /\ MaxSteps \in Nat
         /\ step[Rival(g)] \in 1 .. MaxSteps
         /\ match[g].played \in Seq([EngineRole -> Token])
         /\ match[Rival(g)].played \in Seq([EngineRole -> Token])
<1>1. Rival(g) \in Group /\ Rival(Rival(g)) = g /\ Rival(g) # g
  BY Crossing DEF Base, Kinds
<1>2. match[g] \in MatchOf(EngineRole) /\ match[Rival(g)] \in MatchOf(EngineRole)
  BY <1>1, Types DEF Base, Kinds
<1>3. /\ match[g].played \in Seq([EngineRole -> Token])
      /\ match[Rival(g)].played \in Seq([EngineRole -> Token])
  BY <1>2 DEF MatchOf
<1> QED
  BY <1>1, <1>3, Types DEF Base, Kinds, Shape, Pace, Twin, Kept, Revealed, Alike

LEMMA TwinAtInit == Init => Twin
<1> SUFFICES ASSUME Init PROVE Twin
  OBVIOUS
<1> QED
  BY DEF Init, Twin, Kept, Keeps, Revealed, Reveals, Same, Alike, Agrees, Group, Rival

(* A new sub-game starts with an empty history and an empty store.         *)
LEMMA TwinAtOpen ==
  ASSUME Base, Twin, NEW g \in Group, Open(g)
  PROVE  Twin'
<1> DEFINE r == Rival(g)
<1>1. /\ game' = game /\ pc[g] = "open" /\ pc'[g] = "commit" /\ match'[g].played = <<>>
      /\ MyStore(r)' = MyStore(r) /\ TheirStore(g)' = TheirStore(g)
      /\ game[r] = game[g] => TheirStore(r)' = EmptyStore
  BY Opens DEF Base
<1>2. match'[r] = match[r] /\ pc'[r] = pc[r]
  BY Frame DEF Base, Kinds, DriverStep
<1>3. Keeps(g)'
  BY <1>1 DEF Keeps
<1>4. Keeps(r)'
  BY <1>1, <1>2, TwinAt DEF Keeps, Mine
<1>5. Reveals(g)'
  <2> SUFFICES ASSUME Same(g)', NEW n \in 1 .. MaxSteps, TheirStore(g)'.reveals[n] # None
               PROVE  FALSE
    BY DEF Reveals
  <2>1. Same(g)
    BY <1>1, <1>2 DEF Same
  <2> QED
    BY <1>1, <2>1, TwinAt DEF Reveals, Owns
<1>6. Reveals(r)'
  <2> SUFFICES ASSUME Same(r)', NEW n \in 1 .. MaxSteps
               PROVE  TheirStore(r)'.reveals[n] = None
    BY DEF Reveals
  <2>1. game[r] = game[g]
    BY <1>1, TwinAt DEF Same
  <2>2. EmptyStore.reveals[n] = None
    BY DEF EmptyStore
  <2> QED
    BY <1>1, <2>1, <2>2
<1>7. Agrees(g)'
  BY <1>1 DEF Agrees
<1>8. r \in Group
  BY TwinAt
<1> QED
  BY <1>3, <1>4, <1>5, <1>6, <1>7, TwinOf

(* A digest is in nobody's history.                                        *)
LEMMA TwinAtCommit ==
  ASSUME Base, Twin, NEW g \in Group, Commit(g)
  PROVE  Twin'
<1> DEFINE r == Rival(g)
<1>1. /\ match' = match /\ game' = game /\ step' = step
      /\ pc[g] = "commit" /\ pc'[g] = "reveal"
  BY Commits DEF Base
<1>2. PICK message : Reaches(g, "commits", message)
  BY Commits DEF Base
<1>3. pc'[r] = pc[r] /\ move'[r] = move[r]
  BY Frame DEF Base, Kinds, DriverStep
<1>4. /\ MyStore(g)' = MyStore(g) /\ TheirStore(r)' = TheirStore(r)
      /\ TheirStore(g)'.reveals = TheirStore(g).reveals
      /\ MyStore(r)'.reveals = MyStore(r).reveals
  BY <1>2 DEF Reaches
<1>5. Keeps(g)'
  BY <1>1, <1>4, TwinAt DEF Keeps, Mine
<1>6. Keeps(r)'
  BY <1>1, <1>3, <1>4, TwinAt DEF Keeps, Mine
<1>7. Reveals(g)'
  BY <1>1, <1>3, <1>4, TwinAt DEF Reveals, Same, Owns, Mine
<1>8. Reveals(r)'
  BY <1>1, <1>3, <1>4, TwinAt DEF Reveals, Same, Owns, Mine
<1>9. Agrees(g)'
  BY <1>1, <1>3, TwinAt DEF Agrees, Same
<1> QED
  BY <1>5, <1>6, <1>7, <1>8, <1>9, TwinOf

(* A move is revealed in a slot nobody has played from.                    *)
LEMMA TwinAtReveal ==
  ASSUME Base, Twin, NEW g \in Group, Reveal(g)
  PROVE  Twin'
<1> DEFINE r == Rival(g)
<1>1. /\ match' = match /\ game' = game /\ step' = step
      /\ pc[g] = "reveal" /\ pc'[g] = "await"
  BY Tells DEF Base
<1>2. PICK word \in Token \cup {BadMove} :
        /\ word \in Token => move'[g] = word
        /\ Reaches(g, "reveals", [game |-> game[g], move |-> word])
  BY Tells DEF Base
<1>3. pc'[r] = pc[r] /\ move'[r] = move[r]
  BY Frame DEF Base, Kinds, DriverStep
<1> DEFINE message == [game |-> game[g], move |-> word]
<1>4. /\ MyStore(g)' = MyStore(g) /\ TheirStore(r)' = TheirStore(r)
      /\ TheirStore(g)'.reveals = [TheirStore(g).reveals EXCEPT ![step[g]] = message]
      /\ game[r] = game[g] => MyStore(r) = TheirStore(g) /\ MyStore(r)' = TheirStore(g)'
      /\ game[r] # game[g] => MyStore(r)' = MyStore(r)
  BY <1>2 DEF Reaches
<1>5. message.move = word /\ DOMAIN TheirStore(g).reveals = 1 .. MaxSteps
  BY Types DEF Base, Kinds, Store, Box
<1> HIDE DEF message
<1>6. /\ TheirStore(g)'.reveals[step[g]].move = word
      /\ \A n \in 1 .. MaxSteps : n # step[g] =>
           TheirStore(g)'.reveals[n] = TheirStore(g).reveals[n]
  BY <1>4, <1>5, TwinAt
<1>7. Keeps(g)'
  BY <1>1, <1>4, TwinAt DEF Keeps, Mine
<1>8. Keeps(r)'
  <2>1. CASE game[r] # game[g]
    BY <1>1, <1>3, <1>4, <2>1, TwinAt DEF Keeps, Mine
  <2>2. CASE game[r] = game[g]
    <3> SUFFICES ASSUME pc[r] # "open", NEW n \in DOMAIN match[r].played
                 PROVE  MyStore(r)'.reveals[n] = MyStore(r).reveals[n]
      BY <1>1, <1>3, TwinAt DEF Keeps, Mine
    <3>1. MyStore(r).reveals[n] # None
      BY TwinAt DEF Keeps
    <3>2. n \in 1 .. MaxSteps
      <4>1. pc[r] \in Midgame \cup {"failed", "audit", "done"}
        BY TwinAt DEF Base, Kinds, TypeOK, Midgame
      <4>2. Len(match[r].played) \in {step[r] - 1, step[r]}
        BY <4>1, TwinAt DEF Shaped
      <4>3. n \in 1 .. Len(match[r].played)
        BY TwinAt
      <4> QED
        BY <4>2, <4>3, TwinAt
    <3>3. Same(g)
      BY <2>2 DEF Same
    <3>4. Owns(g, n, MyStore(r).reveals[n].move)
      BY <1>4, <2>2, <3>1, <3>2, <3>3, TwinAt DEF Reveals
    <3>5. n # step[g]
      BY <1>1, <3>4, TwinAt DEF Owns, Shaped, Midgame
    <3> QED
      BY <1>4, <1>6, <2>2, <3>2, <3>5
  <2> QED
    BY <2>1, <2>2
<1>9. Reveals(g)'
  <2> SUFFICES ASSUME Same(g)', NEW n \in 1 .. MaxSteps, NEW said,
                      TheirStore(g)'.reveals[n] # None, said = TheirStore(g)'.reveals[n].move
               PROVE  Owns(g, n, said)'
    BY DEF Reveals
  <2>1. CASE n = step[g]
    BY <1>1, <1>2, <1>6, <2>1 DEF Owns
  <2>2. CASE n # step[g]
    <3>1. Same(g)
      BY <1>1, <1>3 DEF Same
    <3>2. Owns(g, n, said)
      BY <1>6, <2>2, <3>1, TwinAt DEF Reveals
    <3> QED
      BY <1>1, <1>6, <2>2, <3>2 DEF Owns, Mine
  <2> QED
    BY <2>1, <2>2
<1>10. Reveals(r)'
  <2>1. Same(r)' => Same(r)
    BY <1>1, <1>3, TwinAt DEF Same
  <2>2. Reveals(r) /\ step'[r] = step[r]
    BY <1>1, TwinAt
  <2> QED
    BY <1>1, <1>3, <1>4, <2>1, <2>2 DEF Reveals, Owns, Mine
<1>11. Agrees(g)'
  BY <1>1, <1>3, TwinAt DEF Agrees, Same
<1> QED
  BY <1>7, <1>8, <1>9, <1>10, <1>11, TwinOf

(* Both engines make of a step what both sides revealed.                   *)
LEMMA TwinAtAdvance ==
  ASSUME Base, Twin, NEW g \in Group, Advance(g)
  PROVE  Twin'
<1> DEFINE r == Rival(g)
           n == step[g]
           theirs == MyStore(g).reveals[step[g]].move
           pair == PairOf(Mine(g), move[g], theirs)
<1>1. /\ pc[g] = "await" /\ Landed(g) /\ store' = store /\ game' = game /\ move' = move
  BY DEF Advance
<1>2. Reads(g)
  BY Advances DEF Base
<1>3. match'[r] = match[r] /\ pc'[r] = pc[r] /\ step'[r] = step[r]
  BY Frame DEF Base, Kinds, DriverStep
<1>4. /\ MyStore(g)' = MyStore(g) /\ TheirStore(g)' = TheirStore(g)
      /\ MyStore(r)' = MyStore(r) /\ TheirStore(r)' = TheirStore(r)
  BY <1>1 DEF MyStore, TheirStore, Mine
<1>5. /\ move[g] \in Token /\ Len(match[g].played) = n - 1 /\ ~match[g].over
  BY <1>1, TwinAt DEF Shaped, Midgame
<1>6. /\ match[g] \in MatchOf(EngineRole) /\ Mine(g) \in EngineRole
      /\ Opponent(Mine(g)) # Mine(g) /\ EngineRole = {Mine(g), Opponent(Mine(g))}
  <2>1. match[g] \in MatchOf(EngineRole) /\ game[g] \in Nat
    BY Types DEF Base, Kinds
  <2> QED
    BY <2>1, Roles DEF Mine
<1>7. Keeps(r)'
  BY <1>1, <1>3, <1>4, TwinAt DEF Keeps, Mine
<1>8. Reveals(r)'
  <2>1. pc[r] = pc'[r] /\ (Same(r)' => Same(r))
    BY <1>1, <1>3, TwinAt DEF Same
  <2> QED
    BY <1>1, <1>3, <1>4, <2>1, TwinAt DEF Reveals, Owns, Mine
<1>9. CASE theirs \in Token
  <2>1. pair \in [EngineRole -> Token]
    BY <1>5, <1>9 DEF PairOf
  <2> DEFINE next == Played(match[g], pair)
  <2>2. next.played = Append(match[g].played, pair)
    BY <1>5, <1>6, <2>1, StepPlayed
  <2>3. match' = [match EXCEPT ![g] = next] /\ pc'[g] \in {"audit", "commit"}
    BY <1>2, <1>9 DEF Reads, Base, Kinds, TypeOK
  <2>4. match'[g].played = Append(match[g].played, pair)
    BY <2>2, <2>3 DEF Base, Kinds, TypeOK
  <2>5. pair[Mine(g)] = move[g] /\ pair[Opponent(Mine(g))] = theirs
    BY <1>6, Types DEF PairOf, Base, Kinds
  <2> HIDE DEF next, pair, theirs
  <2>6. /\ DOMAIN match'[g].played = DOMAIN match[g].played \cup {n}
        /\ n \notin DOMAIN match[g].played
        /\ match'[g].played[n] = pair
        /\ \A i \in DOMAIN match[g].played : match'[g].played[i] = match[g].played[i]
    <3>1. /\ match[g].played \in Seq([EngineRole -> Token]) /\ n \in Nat \ {0}
          /\ DOMAIN match[g].played = 1 .. n - 1
      BY <1>5, TwinAt
    <3> HIDE DEF n
    <3>2. /\ DOMAIN match'[g].played = 1 .. n /\ match'[g].played[n] = pair
          /\ \A i \in 1 .. n - 1 : match'[g].played[i] = match[g].played[i]
      BY <1>5, <2>1, <2>4, <3>1
    <3> QED
      BY <3>1, <3>2
  <2>7. Keeps(g)'
    <3> SUFFICES ASSUME NEW i \in DOMAIN match'[g].played
                 PROVE  /\ MyStore(g).reveals[i] # None
                        /\ MyStore(g).reveals[i].move = match'[g].played[i][Opponent(Mine(g))]
      BY <1>1, <1>4 DEF Keeps, Mine
    <3>1. CASE i = n
      BY <1>1, <2>5, <2>6, <3>1 DEF Landed, theirs
    <3>2. CASE i \in DOMAIN match[g].played
      <4>1. Keeps(g) /\ pc[g] # "open"
        BY <1>1, TwinAt
      <4> QED
        BY <2>6, <3>2, <4>1 DEF Keeps
    <3> QED
      BY <2>6, <3>1, <3>2
  <2>8. Reveals(g)'
    <3> SUFFICES ASSUME Same(g)', NEW i \in 1 .. MaxSteps, TheirStore(g).reveals[i] # None,
                        NEW said, said = TheirStore(g).reveals[i].move
                 PROVE  Owns(g, i, said)'
      BY <1>4 DEF Reveals
    <3>1. Same(g)
      BY <1>1, <1>3 DEF Same
    <3>2. Owns(g, i, said)
      BY <3>1, TwinAt DEF Reveals
    <3> QED
      BY <1>1, <2>3, <2>5, <2>6, <3>2 DEF Owns, Mine
  <2>9. Agrees(g)'
    <3> SUFFICES ASSUME game[r] = game[g], pc[r] # "open",
                        NEW i \in DOMAIN match'[g].played, i \in DOMAIN match[r].played
                 PROVE  match'[g].played[i] = match[r].played[i]
      BY <1>1, <1>3 DEF Agrees, Same
    <3>1. CASE i \in DOMAIN match[g].played
      BY <1>1, <2>6, <3>1, TwinAt DEF Agrees, Same
    <3>2. CASE i = n
      <4> DEFINE other == match[r].played[n]
      <4>1. other \in [EngineRole -> Token]
        BY <3>2, TwinAt
      <4>2. MyStore(r) = TheirStore(g) /\ MyStore(g) = TheirStore(r)
        BY Crossing DEF MyStore, TheirStore, Base, Kinds
      <4>3. Opponent(Mine(r)) = Mine(g) /\ Mine(r) = Opponent(Mine(g))
        BY Crossing DEF Base, Kinds
      <4>4. Same(g) /\ Same(r)
        BY <1>1, TwinAt DEF Same
      <4>5. /\ TheirStore(g).reveals[n] # None
            /\ TheirStore(g).reveals[n].move = other[Mine(g)]
        BY <3>2, <4>2, <4>3, TwinAt DEF Keeps
      <4>6. other[Mine(g)] = move[g]
        <5>1. Owns(g, n, other[Mine(g)])
          BY <4>4, <4>5, TwinAt DEF Reveals
        <5>2. other[Mine(g)] \in Token
          BY <1>6, <4>1
        <5> QED
          BY <2>6, <5>1, <5>2 DEF Owns
      <4>7. other[Opponent(Mine(g))] = theirs
        <5>1. TheirStore(r).reveals[n] # None /\ TheirStore(r).reveals[n].move = theirs
          BY <1>1, <4>2 DEF Landed, theirs
        <5>2. Owns(r, n, theirs)
          BY <4>4, <5>1, TwinAt DEF Reveals
        <5>3. ~(pc[r] \in {"await", "failed"} /\ n = step[r])
          BY <3>2, TwinAt DEF Shaped, Midgame
        <5> QED
          BY <1>9, <4>3, <5>2, <5>3 DEF Owns
      <4> QED
        BY <1>6, <2>1, <2>5, <2>6, <3>2, <4>1, <4>6, <4>7
    <3> QED
      BY <2>6, <3>1, <3>2
  <2> QED
    BY <1>7, <1>8, <2>7, <2>8, <2>9, TwinOf
<1>10. CASE theirs \notin Token
  <2> DEFINE half == Submitted(match[g], Mine(g), move[g])
  <2>1. half.played = match[g].played
    <3>1. match[g].slots = NoSlots /\ match[g].left = NoDeadline
      BY <1>1, TwinAt DEF Shaped, Midgame
    <3> QED
      BY <1>5, <1>6, <3>1, OneSubmission
  <2>2. match' = [match EXCEPT ![g] = half] /\ step' = step /\ pc'[g] = "failed"
    BY <1>2, <1>10 DEF Reads, Base, Kinds, TypeOK
  <2> HIDE DEF half
  <2>3. match'[g].played = match[g].played
    BY <2>1, <2>2 DEF Base, Kinds, TypeOK
  <2>4. Keeps(g)'
    BY <1>1, <1>4, <2>3, TwinAt DEF Keeps, Mine
  <2>5. Reveals(g)'
    BY <1>1, <1>3, <1>4, <2>2, <2>3, TwinAt DEF Reveals, Same, Owns, Mine
  <2>6. Agrees(g)'
    BY <1>1, <1>3, <2>3, TwinAt DEF Agrees, Same
  <2> QED
    BY <1>7, <1>8, <2>4, <2>5, <2>6, TwinOf
<1> QED
  BY <1>9, <1>10

(* The next sub-game is played with the other store.                       *)
LEMMA TwinAtAudit ==
  ASSUME Base, Twin, NEW g \in Group, Audit(g)
  PROVE  Twin'
<1> DEFINE r == Rival(g)
<1>1. /\ pc[g] = "audit" /\ store' = store /\ match' = match /\ step' = step
      /\ game'[g] = (IF game[g] = SubGames THEN game[g] ELSE game[g] + 1)
      /\ pc'[g] = (IF game[g] = SubGames THEN "done" ELSE "open")
  BY DEF Audit, Goto, Base, Kinds, TypeOK
<1>2. game'[r] = game[r] /\ pc'[r] = pc[r] /\ move'[r] = move[r]
  BY Frame DEF Base, Kinds, DriverStep
<1>3. /\ MyStore(r)' = MyStore(r) /\ TheirStore(r)' = TheirStore(r)
      /\ game'[g] = game[g] => MyStore(g)' = MyStore(g) /\ TheirStore(g)' = TheirStore(g)
  BY <1>1, <1>2 DEF MyStore, TheirStore, Mine
<1>4. pc'[g] # "open" => game'[g] = game[g]
  BY <1>1
<1>5. Keeps(g)'
  BY <1>1, <1>3, <1>4, TwinAt DEF Keeps, Mine
<1>6. Keeps(r)'
  BY <1>1, <1>2, <1>3, TwinAt DEF Keeps, Mine
<1>7. Reveals(g)'
  <2>1. CASE game'[g] = game[g]
    <3>1. pc'[g] = "done"
      BY <1>1, <2>1, TwinAt
    <3> QED
      BY <1>1, <1>2, <1>3, <2>1, <3>1, TwinAt DEF Reveals, Same, Owns, Mine
  <2>2. CASE game'[g] = game[g] + 1
    <3> SUFFICES ASSUME Same(g)', NEW i \in 1 .. MaxSteps
                 PROVE  TheirStore(g)'.reveals[i] = None
      BY DEF Reveals
    <3>1. game[r] = game[g] + 1 /\ pc[r] # "open"
      BY <1>2, <2>2 DEF Same
    <3>2. MyStore(r) = EmptyStore
      BY <3>1, TwinAt DEF Paced
    <3>3. RoleIn(r, game[r]) = Opponent(RoleIn(g, game[r]))
      <4>1. game[r] \in Nat
        BY TwinAt
      <4> QED
        BY <4>1, Roles
    <3>4. TheirStore(g)' = MyStore(r)
      BY <1>1, <1>2, <2>2, <3>1, <3>3 DEF TheirStore, MyStore, Mine
    <3>5. EmptyStore.reveals[i] = None
      BY DEF EmptyStore
    <3> QED
      BY <3>2, <3>4, <3>5
  <2> QED
    BY <1>1, <2>1, <2>2
<1>8. Reveals(r)'
  <2>1. Same(r)' => Same(r)
    BY <1>1, <1>2, <1>4, TwinAt DEF Same
  <2> QED
    BY <1>1, <1>2, <1>3, <2>1, TwinAt DEF Reveals, Owns, Mine
<1>9. Agrees(g)'
  BY <1>1, <1>2, <1>4, TwinAt DEF Agrees, Same
<1> QED
  BY <1>5, <1>6, <1>7, <1>8, <1>9, TwinOf

LEMMA TwinStays ==
  ASSUME Base, Twin, NEW g \in Group, DriverStep(g)
  PROVE  Twin'
BY TwinAtOpen, TwinAtCommit, TwinAtReveal, TwinAtAdvance, TwinAtAudit DEF DriverStep

-----------------------------------------------------------------------------
(* The digests.                                                            *)

LEMMA PushedOf ==
  ASSUME NEW g \in Group, ~dropped' => Stands(g)' /\ Stands(Rival(g))'
  PROVE  Pushed'
BY DEF Pushed, Group, Rival

LEMMA PushedAt ==
  ASSUME Base, Pushed, ~dropped, NEW g \in Group
  PROVE  /\ Stands(g) /\ Stands(Rival(g)) /\ Rival(g) \in Group /\ Rival(Rival(g)) = g
         /\ DOMAIN chain[g] \subseteq 1 .. MaxSteps
         /\ DOMAIN chain[Rival(g)] \subseteq 1 .. MaxSteps
<1>1. \A h \in Group : DOMAIN chain[h] \subseteq 1 .. MaxSteps
  <2> SUFFICES ASSUME NEW h \in Group PROVE DOMAIN chain[h] \subseteq 1 .. MaxSteps
    OBVIOUS
  <2>1. /\ chain[h] \in Seq(Token) /\ step[h] \in 1 .. MaxSteps /\ MaxSteps \in Nat
        /\ Len(chain[h]) \in {0, step[h] - 1, step[h]}
    BY Types DEF Base, Kinds, Shape, Shaped
  <2> QED
    BY <2>1
<1> QED
  BY <1>1, Crossing DEF Base, Kinds, Pushed

(* A reset that takes a digest of the sub-game it opens is on record.      *)
LEMMA PushedAtOpen ==
  ASSUME Base, Pushed, NEW g \in Group, Open(g)
  PROVE  Pushed'
<1> DEFINE r == Rival(g)
<1> SUFFICES ASSUME ~dropped'
             PROVE  Stands(g)' /\ Stands(r)'
  BY PushedOf
<1>1. /\ game' = game /\ chain' = chain /\ chain[g] = <<>>
      /\ game[r] = game[g] => TheirStore(r) = MyStore(g)
      /\ game[r] # game[g] => TheirStore(r)' = TheirStore(r)
      /\ ~dropped /\ ~\E n \in 1 .. MaxSteps :
           MyStore(g).commits[n] # None /\ MyStore(g).commits[n].game = game[g]
  BY Opens DEF Base
<1>2. Stands(g)'
  BY <1>1 DEF Stands
<1>3. Stands(r)'
  <2> SUFFICES ASSUME NEW n \in DOMAIN chain[r]
               PROVE  /\ game[r] # game[g]
                      /\ TheirStore(r).commits[n] = [game |-> game[r], move |-> chain[r][n]]
    BY <1>1 DEF Stands
  <2>1. /\ TheirStore(r).commits[n] = [game |-> game[r], move |-> chain[r][n]]
        /\ n \in 1 .. MaxSteps
    BY <1>1, PushedAt DEF Stands
  <2>2. game[r] \in Nat /\ chain[r][n] \in Token
    <3>1. r \in Group
      BY <1>1, PushedAt
    <3>2. chain[r] \in Seq(Token) /\ game[r] \in Nat
      BY <3>1, Types DEF Base, Kinds
    <3> QED
      BY <3>2
  <2>3. [game |-> game[r], move |-> chain[r][n]] # None
    BY <2>2, PushAssumption
  <2> QED
    BY <1>1, <2>1, <2>3
<1> QED
  BY <1>2, <1>3

(* A digest is pushed once for each step.                                  *)
LEMMA PushedAtCommit ==
  ASSUME Base, Pushed, NEW g \in Group, Commit(g)
  PROVE  Pushed'
<1> DEFINE r == Rival(g)
<1> SUFFICES ASSUME ~dropped'
             PROVE  Stands(g)' /\ Stands(r)'
  BY PushedOf
<1>1. /\ game' = game /\ ~dropped
      /\ chain[g] \in Seq(Token) /\ Len(chain[g]) = step[g] - 1
  BY Commits DEF Base
<1>2. PICK word \in Token : /\ chain'[g] = Append(chain[g], word)
                            /\ Reaches(g, "commits", [game |-> game[g], move |-> word])
  BY Commits DEF Base
<1>3. chain'[r] = chain[r]
  BY Frame DEF Base, Kinds, DriverStep
<1>4. /\ TheirStore(g)'.commits = [TheirStore(g).commits EXCEPT
                                     ![step[g]] = [game |-> game[g], move |-> word]]
      /\ TheirStore(r)' = TheirStore(r)
  BY <1>2 DEF Reaches
<1>5. Stands(g)'
  <2> SUFFICES ASSUME NEW n \in DOMAIN chain'[g]
               PROVE  TheirStore(g)'.commits[n] = [game |-> game[g], move |-> chain'[g][n]]
    BY <1>1 DEF Stands
  <2>1. step[g] \in 1 .. MaxSteps /\ DOMAIN TheirStore(g).commits = 1 .. MaxSteps
    BY Types DEF Base, Kinds, Store, Box
  <2>2. /\ n \in 1 .. step[g] /\ DOMAIN chain[g] = 1 .. step[g] - 1
        /\ chain'[g][n] = IF n = step[g] THEN word ELSE chain[g][n]
    BY <1>1, <1>2, <2>1
  <2>3. CASE n = step[g]
    BY <1>4, <2>1, <2>2, <2>3
  <2>4. CASE n # step[g]
    <3>1. n \in DOMAIN chain[g]
      BY <2>1, <2>2, <2>4
    <3>2. TheirStore(g).commits[n] = [game |-> game[g], move |-> chain[g][n]]
      BY <1>1, <3>1, PushedAt DEF Stands
    <3>3. TheirStore(g)'.commits[n] = TheirStore(g).commits[n]
      BY <1>4, <2>1, <2>2, <2>4
    <3> QED
      BY <2>2, <2>4, <3>2, <3>3
  <2> QED
    BY <2>3, <2>4
<1>6. Stands(r)'
  <2>1. Stands(r)
    BY <1>1, PushedAt
  <2>2. game'[r] = game[r]
    BY <1>1
  <2> QED
    BY <1>3, <1>4, <2>1, <2>2 DEF Stands
<1> QED
  BY <1>5, <1>6

LEMMA PushedStays ==
  ASSUME Base, Pushed, NEW g \in Group, DriverStep(g)
  PROVE  Pushed'
<1> DEFINE r == Rival(g)
<1>1. CASE Open(g)
  BY <1>1, PushedAtOpen
<1>2. CASE Commit(g)
  BY <1>2, PushedAtCommit
<1>3. CASE Reveal(g)
  <2> SUFFICES ASSUME ~dropped'
               PROVE  Stands(g)' /\ Stands(r)'
    BY PushedOf
  <2>1. game' = game /\ chain' = chain /\ ~dropped
    BY <1>3, Tells DEF Base
  <2>2. /\ TheirStore(g)'.commits = TheirStore(g).commits
        /\ TheirStore(r)' = TheirStore(r)
    BY <1>3, Tells DEF Base, Reaches
  <2> QED
    BY <2>1, <2>2, PushedAt DEF Stands
<1>4. CASE Advance(g)
  <2> SUFFICES ASSUME ~dropped'
               PROVE  Stands(g)' /\ Stands(r)'
    BY PushedOf
  <2>1. game' = game /\ chain' = chain /\ store' = store /\ ~dropped
    BY <1>4 DEF Advance
  <2> QED
    BY <2>1, PushedAt DEF Stands, TheirStore, Mine
<1>5. CASE Audit(g)
  <2> SUFFICES ASSUME ~dropped'
               PROVE  Stands(g)' /\ Stands(r)'
    BY PushedOf
  <2>1. chain'[g] = <<>> /\ store' = store /\ ~dropped
    BY <1>5 DEF Audit, Base, Kinds, TypeOK
  <2>2. chain'[r] = chain[r] /\ game'[r] = game[r]
    BY <1>5, Frame DEF Base, Kinds, DriverStep
  <2>3. Stands(g)'
    BY <2>1 DEF Stands
  <2> QED
    <3>1. Stands(r)
      BY <2>1, PushedAt
    <3>2. TheirStore(r)' = TheirStore(r)
      BY <2>1, <2>2 DEF TheirStore, Mine
    <3> QED
      BY <2>2, <2>3, <3>1, <3>2 DEF Stands
<1> QED
  BY <1>1, <1>2, <1>3, <1>4, <1>5 DEF DriverStep

(* Every digest of the chain being there, its audit tells the truth.       *)
LEMMA NoncesStay ==
  ASSUME Base, Pushed, NoncesAreJudged, NEW g \in Group, DriverStep(g)
  PROVE  NoncesAreJudged'
<1>1. CASE Open(g) \/ Commit(g) \/ Reveal(g) \/ Advance(g)
  <2>1. ruled' = ruled /\ (~dropped' => ~dropped)
    <3>1. CASE Open(g)
      BY <3>1 DEF Open
    <3>2. CASE Commit(g)
      BY <3>2 DEF Commit, history
    <3>3. CASE Reveal(g)
      BY <3>3 DEF Reveal, history
    <3>4. CASE Advance(g)
      BY <3>4 DEF Advance
    <3> QED
      BY <1>1, <3>1, <3>2, <3>3, <3>4
  <2> QED
    BY <2>1 DEF NoncesAreJudged
<1>2. CASE Audit(g)
  <2>1. pc[g] = "audit" /\ dropped' = dropped
    BY <1>2 DEF Audit
  <2>2. PICK tool \in Tools, records \in Disclosures(g) :
          ruled' = [tool |-> tool,
                    verdict |-> IF tool = "submit_audit" THEN SubmitAudit(records)
                                ELSE AuditNonces(TheirStore(g).commits, records),
                    sealed |-> \A n \in DOMAIN records : records[n].payload = chain[g][n],
                    kept |-> shown[g] = chain[g]]
    BY <1>2 DEF Audit
  <2> SUFFICES ASSUME ~dropped, tool = "receive_final_audit"
               PROVE  ruled'.verdict = (IF ruled'.sealed THEN "accepted" ELSE "tampered")
    BY <2>1, <2>2 DEF NoncesAreJudged
  <2>3. ruled'.verdict = AuditNonces(TheirStore(g).commits, records)
    BY <2>2
  <2>4. ruled'.sealed = \A n \in DOMAIN records : records[n].payload = chain[g][n]
    BY <2>2
  <2>5. DOMAIN records = DOMAIN chain[g]
    <3>1. /\ chain[g] \in Seq(Token) /\ shown[g] \in Seq(Token \cup {BadMove})
          /\ Len(chain[g]) = step[g] /\ Len(shown[g]) = step[g]
      BY <2>1, Types DEF Base, Kinds, Shape, Shaped
    <3>2. DOMAIN chain[g] = DOMAIN shown[g]
      BY <3>1
    <3> QED
      BY <2>2, <3>2 DEF Disclosures, Resealed
  <2>6. ASSUME NEW n \in DOMAIN records
        PROVE  /\ TheirStore(g).commits[n] # None
               /\ TheirStore(g).commits[n].move = chain[g][n]
    <3>1. TheirStore(g).commits[n] = [game |-> game[g], move |-> chain[g][n]]
      BY <2>5, <2>6, PushedAt DEF Stands
    <3>2. chain[g] \in Seq(Token) /\ game[g] \in Nat
      BY Types DEF Base, Kinds
    <3>3. chain[g][n] \in Token
      BY <2>5, <2>6, <3>2
    <3> QED
      BY <3>1, <3>2, <3>3, PushAssumption
  <2> QED
    BY <2>3, <2>4, <2>6 DEF AuditNonces
<1> QED
  BY <1>1, <1>2 DEF DriverStep

-----------------------------------------------------------------------------
(* The theorems.                                                           *)

LEMMA InvAtInit == Init => Inv
<1> SUFFICES ASSUME Init PROVE Inv
  OBVIOUS
<1>1. Kinds /\ Twin
  BY KindsAtInit, TwinAtInit
<1>2. Pace
  BY DEF Init, Pace, Paced, Group, Rival
<1>3. Pushed
  BY DEF Init, Pushed, Stands
<1>4. NoncesAreJudged
  BY DEF Init, NoncesAreJudged, NotRuled
<1> QED
  BY <1>1, <1>2, <1>3, <1>4 DEF Inv, Kinds, Twin

LEMMA InvStays == Inv /\ [Next]_vars => Inv'
<1> SUFFICES ASSUME Inv, [Next]_vars PROVE Inv'
  OBVIOUS
<1> USE DEF Inv, Base, Twin
<1>1. CASE UNCHANGED vars
  BY <1>1 DEF vars, driver, history, TypeOK, Shape, Shaped, Pace, Paced, Kept, Keeps,
     Revealed, Reveals, Same, Owns, Alike, Agrees, Pushed, Stands, NoncesAreJudged,
     MyStore, TheirStore, Mine
<1>2. ASSUME NEW g \in Group, DriverStep(g) PROVE Inv'
  <2>1. Kinds /\ Base /\ Twin
    BY DEF Kinds
  <2>2. Kinds'
    BY <1>2, <2>1, KindsStay
  <2>3. Pace'
    BY <1>2, <2>1, PaceStays
  <2>4. Twin'
    BY <1>2, <2>1, TwinStays
  <2>5. Pushed'
    BY <1>2, <2>1, PushedStays
  <2>6. NoncesAreJudged'
    BY <1>2, <2>1, NoncesStay
  <2> QED
    BY <2>2, <2>3, <2>4, <2>5, <2>6 DEF Kinds
<1> QED
  BY <1>1, <1>2 DEF Next

(* The invariant, of play_series at both ends: every store, engine and     *)
(* chain is what the driver's place in the series says it is.              *)
THEOREM InvHolds == Spec => []Inv
<1>1. Init => Inv
  BY InvAtInit
<1>2. Inv /\ [Next]_vars => Inv'
  BY InvStays
<1> QED
  BY <1>1, <1>2, PTL DEF Spec

(* Two engines in one sub-game have played the same pairs, although no     *)
(* push says which sub-game it belongs to: push_runner._reset empties the  *)
(* store before anything of it is read.                                    *)
THEOREM EnginesPlayAlike == Spec => []EnginesAgree
<1>1. Inv => EnginesAgree
  <2> SUFFICES ASSUME Inv, game["A"] = game["B"], \A g \in Group : pc[g] # "open"
               PROVE  \/ IsPrefix(match["A"].played, match["B"].played)
                      \/ IsPrefix(match["B"].played, match["A"].played)
    BY DEF EnginesAgree
  <2> DEFINE a == match["A"].played
             b == match["B"].played
  <2>1. /\ "A" \in Group /\ "B" \in Group /\ Rival("A") = "B" /\ Rival("B") = "A"
    BY DEF Group, Rival
  <2>2. a \in Seq([EngineRole -> Token]) /\ b \in Seq([EngineRole -> Token])
    BY <2>1 DEF Inv, TypeOK, MatchOf
  <2>3. \A n \in DOMAIN a \cap DOMAIN b : a[n] = b[n]
    <3>1. Agrees("A")
      BY <2>1 DEF Inv, Alike
    <3>2. Same("A") /\ pc["A"] # "open"
      BY <2>1 DEF Same
    <3> QED
      BY <2>1, <3>1, <3>2 DEF Agrees
  <2> HIDE DEF a, b
  <2>4. CASE Len(a) <= Len(b)
    <3>1. SubSeq(a, 1, Len(a)) = SubSeq(b, 1, Len(a))
      BY <2>2, <2>3, <2>4
    <3> QED
      BY <2>4, <3>1 DEF IsPrefix, a, b
  <2>5. CASE Len(b) <= Len(a)
    <3>1. SubSeq(b, 1, Len(b)) = SubSeq(a, 1, Len(b))
      BY <2>2, <2>3, <2>5
    <3> QED
      BY <2>5, <3>1 DEF IsPrefix, a, b
  <2> QED
    BY <2>2, <2>4, <2>5
<1> QED
  BY <1>1, InvHolds, PTL

(* Between two turns of play_series the engine has made one step for each  *)
(* turn, and its buffer holds half of none.                                *)
THEOREM OneStepEach == Spec => []OneStepPerTurn
<1>1. Inv => OneStepPerTurn
  <2> SUFFICES ASSUME Inv PROVE OneStepPerTurn
    OBVIOUS
  <2>1. ASSUME NEW g \in Group, pc[g] \in Midgame
        PROVE  TurnCount(match[g]) = step[g] - 1 /\ Filled(match[g]) = {}
    BY <2>1 DEF Inv, Shape, Shaped, TurnCount, Filled, NoSlots
  <2> QED
    BY <2>1 DEF Inv, OneStepPerTurn, Midgame
<1> QED
  BY <1>1, InvHolds, PTL

(* receive_final_audit accepts the chain that was sealed and no other, as  *)
(* long as no reset has deleted a digest of the sub-game it opened.        *)
THEOREM AuditsTellTheTruth == Spec => []NoncesAreJudged
<1>1. Inv => NoncesAreJudged
  BY DEF Inv
<1> QED
  BY <1>1, InvHolds, PTL
=============================================================================
