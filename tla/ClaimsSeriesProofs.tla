------------------------- MODULE ClaimsSeriesProofs -------------------------
(***************************************************************************)
(* A series of sub-games whose turns name none of them: every turn that is *)
(* read, judged by or filed belongs to the sub-game its reader is in.      *)
(***************************************************************************)
EXTENDS ClaimsSeries, WellFoundedInduction, TLAPS

(* Has the driver g finished the handshake of sub-game k?                  *)
Begun(g, k) ==
  game[g] > k \/ (game[g] = k /\ pc[g] \notin {"open", "negotiate"})

(* It has read nothing of its sub-game yet.                                *)
AtStart(g) ==
  \/ pc[g] \in {"open", "negotiate"}
  \/ pc[g] \in {"play", "await"} /\ step[g] = 1 /\ ~caught[g]

(* The drivers are at most one sub-game apart, and the one ahead waits at  *)
(* its first turn: what it waits for has not been sent.                    *)
InReach(g) ==
  /\ game[g] <= game[Rival(g)] + 1
  /\ ~Begun(Rival(g), game[g]) => AtStart(g)

Pace == \A g \in Group : InReach(g)

(* The oldest sub-game a server of g may hold anything of: a role, and its *)
(* server, comes back every second sub-game, and is cleared when it does.  *)
Horizon(g) == game[g] - (IF pc[g] = "open" THEN 2 ELSE 1)

(* What a server of g has been sent of sub-game k by the rival's driver.   *)
Lands(g, role, k) ==
  k >= Horizon(g) /\ Begun(Rival(g), k) /\ RoleIn(g, k) = role

Stamped ==
  \A g \in Group, role \in Role : \A i \in DOMAIN inbox[g][role] :
    LET turn == inbox[g][role][i]
    IN  /\ Lands(g, role, turn.commit.game)
        /\ turn.commit.group = Rival(g) /\ turn.commit.step = turn.step

Judged ==
  \A g \in Group, role \in Role : \A i \in DOMAIN audits[g][role] :
    Lands(g, role, audits[g][role][i].game)

Sending ==
  \A g \in Group :
    pc[g] = "await" => sent[g].commit = Commit(g, step[g]) /\ sent[g].step = step[g]

(* The server that takes the turns of the driver g, and how many steps of  *)
(* its sub-game that driver has pushed to it.                              *)
Box(g) == inbox[Rival(g)][Opposite(Mine(g))]

Told(g) ==
  CASE pc[g] = "play" -> step[g] - 1
    [] pc[g] \in {"await", "audit"} -> step[g]
    [] OTHER -> 0

Kept ==
  ~dropped => \A g \in Group : \A n \in 1 .. Told(g) :
                \E i \in DOMAIN Box(g) : Box(g)[i].step = n
                                         /\ Box(g)[i].commit.game = game[g]

Filed ==
  \A g \in Group :
    Len(closed[g]) = IF pc[g] = "done" THEN game[g] ELSE game[g] - 1

Inv ==
  /\ TypeOK /\ Pace /\ Stamped /\ Judged /\ Sending /\ Kept /\ Filed
  /\ AuditsHaveEvidence /\ HarvestIsOwn

-----------------------------------------------------------------------------
(* Two groups, two roles.                                                  *)

LEMMA Sides ==
  ASSUME NEW g \in Group
  PROVE  /\ Rival(g) \in Group /\ Rival(g) # g /\ Rival(Rival(g)) = g
         /\ \A h \in Group : h = g \/ h = Rival(g)
BY DEF Group, Rival

LEMMA Schedule ==
  ASSUME NEW g \in Group, NEW k \in Int
  PROVE  /\ RoleIn(g, k) \in Role
         /\ Opposite(RoleIn(g, k)) = RoleIn(Rival(g), k)
BY DEF Group, Rival, RoleIn, Role, Opposite

(* A role comes back every second sub-game.                                *)
LEMMA Alternation ==
  ASSUME NEW g \in Group, NEW j \in Int, NEW k \in Int,
         RoleIn(g, j) = RoleIn(g, k), j <= k + 1, k <= j + 1
  PROVE  j = k
<1>1. (j % 2 = 1) <=> (k % 2 = 1)
  BY DEF RoleIn
<1>2. j # k + 1 /\ k # j + 1
  BY <1>1
<1> QED
  BY <1>2

LEMMA LeastNat ==
  ASSUME NEW S \in SUBSET Nat, S # {}
  PROVE  \E n \in S : \A m \in S : n <= m
<1> DEFINE R == OpToRel(<, Nat)
<1>1. IsWellFoundedOn(R, Nat)
  BY NatLessThanWellFounded
<1>2. \A m, n \in Nat : m < n => <<m, n>> \in R
  BY DEF OpToRel
<1> HIDE DEF R
<1>3. PICK n \in S : \A y \in S : ~ (<<y, n>> \in R)
  BY <1>1, WFMin
<1>4. \A m \in S : ~(m < n)
  BY <1>2, <1>3
<1> QED
  BY <1>4

LEMMA MinIs ==
  ASSUME NEW S \in SUBSET Nat, S # {}
  PROVE  Min(S) \in S
<1>1. \E n \in S : \A m \in S : n <= m
  BY LeastNat
<1> QED
  BY <1>1 DEF Min

LEMMA MaxIs ==
  ASSUME NEW n \in Nat, NEW S \in SUBSET (1 .. n), S # {}
  PROVE  Max(S) \in S
<1> DEFINE T == {n - i : i \in S}
<1>1. T \in SUBSET Nat /\ T # {}
  <2>1. \A i \in S : n - i \in Nat
    OBVIOUS
  <2> QED
    BY <2>1
<1>2. PICK k \in T : \A m \in T : k <= m
  BY <1>1, LeastNat
<1>3. PICK i \in S : k = n - i
  BY <1>2
<1>4. \A j \in S : i >= j
  BY <1>2, <1>3
<1> QED
  BY <1>4 DEF Max

-----------------------------------------------------------------------------
(* Types, and what a step does to the servers.                             *)

Steps(g) == DriverStep(g) \/ Repush(g)

LEMMA Typed ==
  ASSUME TypeOK, NEW g \in Group
  PROVE  /\ game[g] \in 1 .. SubGames /\ game[g] \in Int
         /\ step[g] \in 1 .. MaxSteps /\ step[g] \in Int
         /\ pc[g] \in {"open", "negotiate", "play", "await", "audit", "closing", "done"}
         /\ Mine(g) \in Role /\ Opposite(Mine(g)) \in Role
         /\ Opposite(Mine(g)) = RoleIn(Rival(g), game[g])
         /\ SubGames \in Nat /\ MaxSteps \in Nat
         /\ \A role \in Role : /\ inbox[g][role] \in Seq(Turns)
                               /\ audits[g][role] \in Seq(Disclosed)
<1>1. game[g] \in 1 .. SubGames /\ step[g] \in 1 .. MaxSteps
      /\ SubGames \in Nat /\ MaxSteps \in Nat
  BY SeriesAssumption DEF TypeOK
<1>2. Mine(g) \in Role /\ Opposite(Mine(g)) = RoleIn(Rival(g), game[g])
  BY <1>1, Schedule DEF Mine
<1>3. Opposite(Mine(g)) \in Role
  BY <1>2 DEF Opposite, Role
<1> QED
  BY <1>1, <1>2, <1>3 DEF TypeOK

LEMMA Pushing ==
  ASSUME TypeOK, NEW g \in Group, NEW turn, Push(g, turn)
  PROVE  \A h \in Group, role \in Role :
           inbox'[h][role] =
             IF h = Rival(g) /\ role = Opposite(Mine(g))
             THEN Append(inbox[h][role], turn) ELSE inbox[h][role]
<1>1. Rival(g) \in Group /\ Opposite(Mine(g)) \in Role
  BY Typed, Sides
<1>2. inbox \in [Group -> [Role -> Seq(Turns)]]
  BY DEF TypeOK
<1> QED
  BY <1>1, <1>2 DEF Push

(* A message of the sub-game a driver is in has a type.                    *)
LEMMA Sealed ==
  ASSUME TypeOK, NEW g \in Group, NEW hit \in BOOLEAN, NEW answer \in BOOLEAN
  PROVE  [step |-> step[g], hit |-> hit, answer |-> answer,
          commit |-> Commit(g, step[g])] \in Turns
<1>1. game[g] \in 0 .. SubGames /\ step[g] \in 0 .. MaxSteps
  BY Typed
<1> QED
  BY <1>1 DEF Turns, Commits, Commit

LEMMA TypesInit ==
  ASSUME Init
  PROVE  TypeOK
<1>1. NoTurn \in Turns
  BY SeriesAssumption DEF NoTurn, Turns, Commits, Group
<1>2. 1 \in 1 .. SubGames /\ 1 \in 1 .. MaxSteps
  BY SeriesAssumption
<1>3. /\ inbox \in [Group -> [Role -> Seq(Turns)]]
      /\ audits \in [Group -> [Role -> Seq(Disclosed)]]
      /\ closed \in [Group -> Seq(Seq(Disclosed))]
  BY DEF Init
<1>4. /\ sent \in [Group -> Turns] /\ game \in [Group -> 1 .. SubGames]
      /\ step \in [Group -> 1 .. MaxSteps]
  BY <1>1, <1>2 DEF Init
<1> QED
  BY <1>3, <1>4 DEF Init, TypeOK

LEMMA TypesStay ==
  ASSUME TypeOK, NEW g \in Group, Steps(g)
  PROVE  TypeOK'
<1>0. /\ game[g] \in 1 .. SubGames /\ step[g] \in 1 .. MaxSteps
      /\ Mine(g) \in Role /\ Opposite(Mine(g)) \in Role /\ Rival(g) \in Group
      /\ SubGames \in Nat /\ MaxSteps \in Nat
  BY Typed, Sides
<1>1. CASE Open(g)
  <2>1. inbox' \in [Group -> [Role -> Seq(Turns)]]
    BY <1>0, <1>1 DEF TypeOK, Open, Clear
  <2>2. audits' \in [Group -> [Role -> Seq(Disclosed)]]
    BY <1>0, <1>1 DEF TypeOK, Open, Clear
  <2>3. dropped' \in BOOLEAN
    BY <1>1 DEF TypeOK, Open
  <2> QED
    BY <2>1, <2>2, <2>3, <1>1 DEF TypeOK, Open, Goto
<1>2. CASE Negotiate(g)
  <2>1. 1 \in 1 .. MaxSteps
    BY <1>0
  <2> QED
    BY <2>1, <1>2 DEF TypeOK, Negotiate, NewSide, Goto, server
<1>3. CASE Play(g)
  <2>1. PICK hit \in BOOLEAN :
          LET turn == [step |-> step[g], hit |-> hit, answer |-> owed[g],
                       commit |-> Commit(g, step[g])]
          IN  sent' = [sent EXCEPT ![g] = turn] /\ Push(g, turn)
    BY <1>3 DEF Play
  <2> DEFINE turn == [step |-> step[g], hit |-> hit, answer |-> owed[g],
                      commit |-> Commit(g, step[g])]
  <2>2. turn \in Turns
    BY Sealed DEF TypeOK
  <2> HIDE DEF turn
  <2>3. inbox' \in [Group -> [Role -> Seq(Turns)]] /\ sent' \in [Group -> Turns]
    BY <1>0, <2>1, <2>2 DEF Push, TypeOK, turn
  <2> QED
    BY <2>3, <1>3 DEF TypeOK, Play, Goto
<1>4. CASE Read(g)
  <2>1. ~OutOfSteps(g) => step[g] + 1 \in 1 .. MaxSteps
    BY <1>0 DEF OutOfSteps
  <2>2. step' \in [Group -> 1 .. MaxSteps]
        /\ pc' \in [Group -> {"open", "negotiate", "play", "await", "audit", "closing", "done"}]
    BY <2>1, <1>4 DEF TypeOK, Read, Goto
  <2>3. (Mine(g) = "thief" /\ TheirTurn(g).hit) \in BOOLEAN
    OBVIOUS
  <2>4. owed' \in [Group -> BOOLEAN]
    BY <1>4, <2>3 DEF TypeOK, Read
  <2>5. (caught[g] \/ (Mine(g) = "thief" /\ TheirTurn(g).hit)) \in BOOLEAN
    OBVIOUS
  <2>6. caught' \in [Group -> BOOLEAN]
    BY <1>4, <2>5 DEF TypeOK, Read
  <2> QED
    BY <2>2, <2>4, <2>6, <1>4 DEF TypeOK, Read, server
<1>5. CASE Audit(g)
  <2>1. PICK backed \in BOOLEAN :
          audits' = [audits EXCEPT ![Rival(g)][Opposite(Mine(g))] = Append(@,
                       [game |-> game[g], backed |-> backed])]
    BY <1>5 DEF Audit
  <2>2. [game |-> game[g], backed |-> backed] \in Disclosed
    BY <1>0 DEF Disclosed
  <2>3. audits' \in [Group -> [Role -> Seq(Disclosed)]]
    BY <1>0, <2>1, <2>2 DEF TypeOK
  <2> QED
    BY <2>3, <1>5 DEF TypeOK, Audit, Goto
<1>6. CASE Close(g)
  <2>1. closed' \in [Group -> Seq(Seq(Disclosed))]
    BY <1>0, <1>6 DEF TypeOK, Close
  <2>2. game' \in [Group -> 1 .. SubGames]
    <3>1. game[g] # SubGames => game[g] + 1 \in 1 .. SubGames
      BY <1>0
    <3> QED
      BY <3>1, <1>6 DEF TypeOK, Close
  <2> QED
    BY <2>1, <2>2, <1>6 DEF TypeOK, Close, Goto, server
<1>7. CASE Repush(g)
  <2>1. sent[g] \in Turns
    BY DEF TypeOK
  <2>2. inbox' \in [Group -> [Role -> Seq(Turns)]]
    BY <1>0, <1>7, <2>1 DEF Repush, Push, TypeOK
  <2> QED
    BY <2>2, <1>7 DEF TypeOK, Repush, driver
<1> QED
  BY <1>1, <1>2, <1>3, <1>4, <1>5, <1>6, <1>7 DEF Steps, DriverStep

-----------------------------------------------------------------------------
(* Pace.                                                                   *)

(* A step is of one driver.                                                *)
LEMMA Others ==
  ASSUME TypeOK, NEW g \in Group, Steps(g), NEW h \in Group, h # g
  PROVE  /\ game'[h] = game[h] /\ pc'[h] = pc[h] /\ step'[h] = step[h]
         /\ sent'[h] = sent[h] /\ caught'[h] = caught[h] /\ closed'[h] = closed[h]
<1>1. CASE Open(g) \/ Negotiate(g) \/ Repush(g)
  BY <1>1 DEF TypeOK, Open, Negotiate, Repush, Goto, NewSide, driver
<1>2. CASE Play(g)
  BY <1>2 DEF TypeOK, Play, Goto
<1>3. CASE Read(g)
  BY <1>3 DEF TypeOK, Read, Goto
<1>4. CASE Audit(g) \/ Close(g)
  BY <1>4 DEF TypeOK, Audit, Close, Goto
<1> QED
  BY <1>1, <1>2, <1>3, <1>4 DEF Steps, DriverStep

(* Where a driver goes from where it is.                                   *)
LEMMA Course ==
  ASSUME TypeOK, NEW g \in Group, Steps(g)
  PROVE  /\ pc'[g] = "open" => pc[g] = "closing"
         /\ pc'[g] = "negotiate" => pc[g] = "open"
         /\ pc[g] # "closing" => game'[g] = game[g]
         /\ pc[g] = "closing" =>
              game'[g] = IF game[g] = SubGames THEN game[g] ELSE game[g] + 1
         /\ pc[g] = "closing" =>
              pc'[g] = IF game[g] = SubGames THEN "done" ELSE "open"
BY DEF TypeOK, Steps, DriverStep, Open, Negotiate, Play, Read, Audit, Close, Repush,
       Goto, NewSide, driver, server

LEMMA BegunStays ==
  ASSUME TypeOK, NEW g \in Group, Steps(g), NEW h \in Group, NEW k \in Int, Begun(h, k)
  PROVE  Begun(h, k)'
<1>1. CASE h # g
  BY <1>1, Others DEF Begun
<1>2. CASE h = g
  <2>1. game[g] \in Int /\ TypeOK
    BY Typed
  <2>2. CASE pc[g] = "closing"
    <3>1. \/ game'[g] = game[g] + 1
          \/ game'[g] = game[g] /\ pc'[g] = "done"
      BY <2>2, Course
    <3> QED
      BY <1>2, <2>1, <2>2, <3>1 DEF Begun
  <2>3. CASE pc[g] # "closing"
    <3>1. game'[g] = game[g] /\ pc'[g] # "open" /\ (pc'[g] = "negotiate" => pc[g] = "open")
      BY <2>3, Course
    <3> QED
      BY <1>2, <2>1, <3>1 DEF Begun
  <2> QED
    BY <2>2, <2>3
<1> QED
  BY <1>1, <1>2

(* Once a driver has cleared its server, what lands there is of the        *)
(* sub-game it is in, and the rival that sent it is there too.             *)
LEMMA LandsHere ==
  ASSUME TypeOK, Pace, NEW g \in Group, pc[g] # "open",
         NEW k \in Int, Lands(g, Mine(g), k)
  PROVE  k = game[g] /\ Begun(Rival(g), game[g])
<1>0. Rival(g) \in Group /\ game[g] \in Int /\ game[Rival(g)] \in Int
  BY Sides, Typed
<1>1. k >= game[g] - 1 /\ k <= game[Rival(g)] /\ RoleIn(g, k) = RoleIn(g, game[g])
  BY <1>0 DEF Lands, Horizon, Begun, Mine
<1>2. game[Rival(g)] <= game[g] + 1
  <2>1. game[Rival(g)] <= game[Rival(Rival(g))] + 1
    BY <1>0 DEF Pace, InReach
  <2> QED
    BY <2>1, Sides
<1>3. k = game[g]
  BY <1>0, <1>1, <1>2, Alternation
<1> QED
  BY <1>3 DEF Lands

LEMMA HeardIsOurs ==
  ASSUME TypeOK, Pace, Stamped, NEW g \in Group, pc[g] # "open",
         NEW i \in DOMAIN MyInbox(g)
  PROVE  MyInbox(g)[i].commit.game = game[g] /\ Begun(Rival(g), game[g])
<1>1. Mine(g) \in Role /\ inbox[g][Mine(g)] \in Seq(Turns)
  BY Typed
<1>2. PICK turn \in Turns : turn = MyInbox(g)[i]
  BY <1>1 DEF MyInbox
<1>3. turn.commit.game \in Int /\ Lands(g, Mine(g), turn.commit.game)
  BY <1>1, <1>2, SeriesAssumption DEF Stamped, MyInbox, Turns, Commits
<1> QED
  BY <1>2, <1>3, LandsHere

LEMMA HeardIndex ==
  ASSUME TypeOK, NEW g \in Group, Heard(g) # {}
  PROVE  Min(Heard(g)) \in Heard(g) /\ Min(Heard(g)) \in DOMAIN MyInbox(g)
<1>1. MyInbox(g) \in Seq(Turns)
  BY Typed DEF MyInbox
<1>2. Heard(g) \subseteq DOMAIN MyInbox(g) /\ DOMAIN MyInbox(g) \subseteq Nat
  BY <1>1 DEF Heard
<1> QED
  BY <1>2, MinIs

LEMMA PaceInit ==
  ASSUME Init
  PROVE  Pace
BY Sides DEF Init, Pace, InReach, AtStart

LEMMA PaceStays ==
  ASSUME TypeOK, Pace, Stamped, NEW g \in Group, Steps(g)
  PROVE  Pace'
<1> SUFFICES ASSUME NEW h \in Group
             PROVE  InReach(h)'
  BY DEF Pace
<1>1. /\ game[h] <= game[Rival(h)] + 1 /\ (~Begun(Rival(h), game[h]) => AtStart(h))
      /\ game[h] \in Int /\ game[Rival(h)] \in Int /\ Rival(h) \in Group
      /\ Rival(h) # h /\ Rival(Rival(h)) = h
  BY Typed, Sides DEF Pace, InReach
<1>2. CASE h # g
  <2>1. Rival(h) = g
    BY <1>2, Sides
  <2>2. game'[h] = game[h] /\ (AtStart(h)' <=> AtStart(h))
    BY <1>2, Others DEF AtStart
  <2>3. game'[g] >= game[g] /\ game[g] \in Int /\ game'[g] \in Int
    <3>1. game[g] \in Int /\ game'[g] \in {game[g], game[g] + 1}
      BY Course, Typed
    <3> QED
      BY <3>1
  <2>4. ASSUME NEW k \in Int, k = game[h], Begun(g, k)
        PROVE  Begun(g, k)'
    BY <2>4, BegunStays
  <2>5. Begun(g, game[h]) => Begun(g, game[h])'
    BY <1>1, <2>2, <2>4 DEF Begun
  <2> QED
    BY <1>1, <2>1, <2>2, <2>3, <2>5 DEF InReach
<1>3. CASE h = g
  <2>0. game'[Rival(g)] = game[Rival(g)] /\ pc'[Rival(g)] = pc[Rival(g)]
    BY <1>1, <1>3, Others
  <2>1. CASE pc[g] = "closing"
    <3>1. Begun(Rival(g), game[g])
      BY <1>1, <1>3, <2>1 DEF AtStart
    <3>2. game'[g] <= game[Rival(g)] + 1
      BY <1>1, <1>3, <2>1, <3>1, Course DEF Begun
    <3>3. CASE game[g] = SubGames
      <4>1. game'[g] = game[g]
        BY <2>1, <3>3, Course
      <4> QED
        BY <1>3, <2>0, <3>1, <3>2, <4>1 DEF Begun, InReach
    <3>4. CASE game[g] # SubGames
      <4>1. pc'[g] = "open"
        BY <2>1, <3>4, Course
      <4> QED
        BY <1>3, <2>0, <3>2, <4>1 DEF AtStart, InReach
    <3> QED
      BY <3>3, <3>4
  <2>2. CASE pc[g] # "closing"
    <3>1. game'[g] = game[g]
      BY <2>2, Course
    <3>2. Begun(Rival(g), game[g])' <=> Begun(Rival(g), game[g])
      BY <2>0, <3>1 DEF Begun
    <3>3. ASSUME ~Begun(Rival(g), game[g])
          PROVE  AtStart(g)'
      <4>1. AtStart(g)
        BY <1>1, <1>3, <3>3
      <4>2. CASE Read(g)
        <5>1. Heard(g) # {} /\ pc[g] = "await"
          BY <4>2 DEF Read
        <5>2. Begun(Rival(g), game[g])
          BY <5>1, HeardIndex, HeardIsOurs
        <5> QED
          BY <3>3, <5>2
      <4>3. CASE Audit(g) \/ Close(g)
        BY <4>1, <4>3 DEF Audit, Close, AtStart
      <4>4. CASE Negotiate(g)
        BY <4>4 DEF Negotiate, Goto, NewSide, AtStart, TypeOK
      <4>5. CASE Open(g) \/ Repush(g)
        BY <4>1, <4>5 DEF Open, Repush, Goto, driver, AtStart, TypeOK
      <4>6. CASE Play(g)
        BY <4>1, <4>6 DEF Play, Goto, AtStart, TypeOK
      <4> QED
        BY <4>2, <4>3, <4>4, <4>5, <4>6 DEF Steps, DriverStep
    <3> QED
      BY <1>1, <1>3, <2>0, <3>1, <3>2, <3>3 DEF InReach
  <2> QED
    BY <2>1, <2>2
<1> QED
  BY <1>2, <1>3

-----------------------------------------------------------------------------
(* What a server holds.                                                    *)

(* What has landed stays where it belongs, until its server is cleared.    *)
LEMMA LandsStays ==
  ASSUME TypeOK, NEW g \in Group, Steps(g),
         NEW h \in Group, NEW role \in Role, NEW k \in Int, Lands(h, role, k),
         Open(g) => ~(h = g /\ role = Mine(g))
  PROVE  Lands(h, role, k)'
<1>0. game[h] \in Int /\ game'[h] \in Int /\ Rival(h) \in Group
  <2>1. game'[h] \in {game[h], game[h] + 1} /\ game[h] \in Int
    BY Typed, Others, Course
  <2> QED
    BY <2>1, Sides
<1>1. Begun(Rival(h), k)'
  BY <1>0, BegunStays DEF Lands
<1>2. k >= Horizon(h)'
  <2>1. CASE h # g
    BY <2>1, Others DEF Lands, Horizon
  <2>2. CASE h = g /\ Open(g)
    <3>1. game'[g] = game[g] /\ pc[g] = "open" /\ RoleIn(g, k) # RoleIn(g, game[g])
      BY <2>2 DEF Open, Lands, Mine
    <3>2. k # game[g] - 2
      <4>1. RoleIn(g, game[g] - 2) = RoleIn(g, game[g])
        BY <1>0, <2>2 DEF RoleIn
      <4> QED
        BY <3>1, <4>1
    <3> QED
      BY <1>0, <2>2, <3>1, <3>2 DEF Lands, Horizon
  <2>3. CASE h = g /\ ~Open(g)
    <3>1. CASE pc[g] = "closing"
      <4>1. (game'[g] = game[g] /\ pc'[g] = "done")
            \/ (game'[g] = game[g] + 1 /\ pc'[g] = "open")
        BY <3>1, Course
      <4> QED
        BY <1>0, <2>3, <3>1, <4>1 DEF Lands, Horizon
    <3>2. CASE pc[g] # "closing"
      <4>1. game'[g] = game[g] /\ pc'[g] # "open"
        BY <3>2, Course
      <4>2. pc[g] # "open"
        BY <2>3 DEF Steps, DriverStep, Negotiate, Play, Read, Audit, Close, Repush
      <4> QED
        BY <1>0, <2>3, <4>1, <4>2 DEF Lands, Horizon
    <3> QED
      BY <3>1, <3>2
  <2> QED
    BY <2>1, <2>2, <2>3
<1> QED
  BY <1>1, <1>2 DEF Lands

(* A driver in the middle of its sub-game sends to where it belongs.       *)
LEMMA Landing ==
  ASSUME TypeOK, Pace, NEW g \in Group, Steps(g), game'[g] = game[g],
         pc[g] \notin {"open", "negotiate", "closing"},
         NEW k, k = game[g], NEW role, role = Opposite(Mine(g))
  PROVE  Lands(Rival(g), role, k)'
<1>1. /\ Rival(g) \in Group /\ Rival(g) # g /\ Rival(Rival(g)) = g
      /\ game[g] \in Int /\ game[Rival(g)] \in Int
      /\ Opposite(Mine(g)) = RoleIn(Rival(g), game[g])
  BY Sides, Typed
<1>2. game[Rival(g)] <= game[g] + 1
  BY <1>1 DEF Pace, InReach
<1>3. Begun(g, k)'
  <2>1. Begun(g, k) /\ k \in Int
    BY <1>1 DEF Begun
  <2> QED
    BY <2>1, BegunStays
<1>4. k >= Horizon(Rival(g))'
  <2>1. game'[Rival(g)] = game[Rival(g)] /\ pc'[Rival(g)] = pc[Rival(g)]
    BY <1>1, Others
  <2> QED
    BY <1>1, <1>2, <2>1 DEF Horizon
<1>5. RoleIn(Rival(g), k) = role
  BY <1>1
<1> QED
  BY <1>1, <1>3, <1>4, <1>5 DEF Lands

Stamp(g, role, turn) ==
  /\ Lands(g, role, turn.commit.game)
  /\ turn.commit.group = Rival(g) /\ turn.commit.step = turn.step

LEMMA StampedStays ==
  ASSUME TypeOK, Pace, Stamped, Sending, NEW g \in Group, Steps(g)
  PROVE  Stamped'
<1> SUFFICES ASSUME NEW h \in Group, NEW role \in Role, NEW i \in DOMAIN inbox'[h][role]
             PROVE  Stamp(h, role, inbox[h][role][i])'
  BY DEF Stamped, Stamp
<1>0. /\ inbox[h][role] \in Seq(Turns) /\ Rival(g) \in Group
      /\ Mine(g) \in Role /\ Opposite(Mine(g)) \in Role
  BY Typed, Sides
<1>1. ASSUME i \in DOMAIN inbox[h][role], inbox'[h][role][i] = inbox[h][role][i],
             Open(g) => ~(h = g /\ role = Mine(g))
      PROVE  Stamp(h, role, inbox[h][role][i])'
  <2>1. Stamp(h, role, inbox[h][role][i])
    BY <1>1 DEF Stamped, Stamp
  <2>2. PICK turn \in Turns : turn = inbox[h][role][i]
    BY <1>0, <1>1
  <2>3. turn.commit.game \in Int
    BY <2>2, SeriesAssumption DEF Turns, Commits
  <2>4. Lands(h, role, turn.commit.game)
    BY <2>1, <2>2 DEF Stamp
  <2>5. Lands(h, role, turn.commit.game)'
    BY <1>1, <2>3, <2>4, LandsStays
  <2> QED
    BY <1>1, <2>1, <2>2, <2>5 DEF Stamp, Lands
<1>2. CASE Open(g)
  <2>1. ~(h = g /\ role = Mine(g)) /\ inbox'[h][role] = inbox[h][role]
    <3>1. inbox' = [inbox EXCEPT ![g][Mine(g)] = <<>>] /\ inbox \in [Group -> [Role -> Seq(Turns)]]
      BY <1>2 DEF Open, Clear, TypeOK
    <3>2. inbox'[g][Mine(g)] = <<>>
      BY <1>0, <3>1
    <3>3. ~(h = g /\ role = Mine(g)) => inbox'[h][role] = inbox[h][role]
      BY <1>0, <3>1
    <3> QED
      BY <3>2, <3>3
  <2> QED
    BY <1>1, <2>1
<1>3. CASE Negotiate(g) \/ Read(g) \/ Audit(g) \/ Close(g)
  <2>1. inbox' = inbox /\ ~Open(g)
    BY <1>3 DEF Negotiate, Read, Audit, Close, Open, server
  <2> QED
    BY <1>1, <2>1
<1>4. ASSUME NEW turn \in Turns, Push(g, turn), ~Open(g), game'[g] = game[g],
             pc[g] \in {"play", "await"},
             turn.commit = Commit(g, step[g]), turn.step = step[g]
      PROVE  Stamp(h, role, inbox[h][role][i])'
  <2>1. inbox'[h][role] = IF h = Rival(g) /\ role = Opposite(Mine(g))
                          THEN Append(inbox[h][role], turn) ELSE inbox[h][role]
    BY <1>4, Pushing
  <2>2. CASE i \in DOMAIN inbox[h][role]
    BY <1>0, <1>1, <1>4, <2>1, <2>2
  <2>3. CASE i \notin DOMAIN inbox[h][role]
    <3>1. h = Rival(g) /\ role = Opposite(Mine(g)) /\ inbox'[h][role][i] = turn
      BY <1>0, <2>1, <2>3
    <3>2. turn.commit.game = game[g] /\ turn.commit.group = g
          /\ turn.commit.step = turn.step
      BY <1>4 DEF Commit
    <3>3. Lands(Rival(g), role, turn.commit.game)'
      BY <1>4, <3>1, <3>2, Landing
    <3>5. Rival(h) = g
      BY <3>1, Sides
    <3>6. Lands(h, role, turn.commit.game)'
      BY <3>1, <3>3
    <3>7. turn.commit.group = Rival(h) /\ turn.commit.step = turn.step
      BY <3>2, <3>5
    <3>8. Stamp(h, role, turn)'
      BY <3>6, <3>7 DEF Stamp
    <3> QED
      BY <3>1, <3>8 DEF Stamp, Lands
  <2> QED
    BY <2>2, <2>3
<1>5. CASE Play(g)
  <2>1. PICK hit \in BOOLEAN :
          Push(g, [step |-> step[g], hit |-> hit, answer |-> owed[g],
                   commit |-> Commit(g, step[g])])
    BY <1>5 DEF Play
  <2>2. PICK turn \in Turns : /\ Push(g, turn) /\ turn.step = step[g]
                              /\ turn.commit = Commit(g, step[g])
    BY <2>1, Sealed DEF TypeOK
  <2>3. pc[g] = "play" /\ game'[g] = game[g] /\ ~Open(g)
    BY <1>5 DEF Play, Open
  <2> QED
    BY <1>4, <2>2, <2>3
<1>6. CASE Repush(g)
  <2>1. /\ sent[g] \in Turns /\ Push(g, sent[g]) /\ pc[g] = "await" /\ game' = game
        /\ sent[g].commit = Commit(g, step[g]) /\ sent[g].step = step[g] /\ ~Open(g)
    BY <1>6 DEF Repush, Sending, TypeOK, driver, Open
  <2>2. PICK turn \in Turns : turn = sent[g]
    BY <2>1
  <2> QED
    BY <1>4, <2>1, <2>2
<1> QED
  BY <1>2, <1>3, <1>5, <1>6 DEF Steps, DriverStep

LEMMA JudgedStays ==
  ASSUME TypeOK, Pace, Judged, NEW g \in Group, Steps(g)
  PROVE  Judged'
<1> SUFFICES ASSUME NEW h \in Group, NEW role \in Role, NEW i \in DOMAIN audits'[h][role]
             PROVE  Lands(h, role, audits[h][role][i].game)'
  BY DEF Judged
<1>0. /\ audits[h][role] \in Seq(Disclosed) /\ Rival(g) \in Group
      /\ Mine(g) \in Role /\ Opposite(Mine(g)) \in Role /\ game[g] \in 1 .. SubGames
  BY Typed, Sides
<1>1. ASSUME i \in DOMAIN audits[h][role], audits'[h][role][i] = audits[h][role][i],
             Open(g) => ~(h = g /\ role = Mine(g))
      PROVE  Lands(h, role, audits[h][role][i].game)'
  <2>1. PICK chain \in Disclosed : chain = audits[h][role][i]
    BY <1>0, <1>1
  <2>2. chain.game \in Int /\ Lands(h, role, chain.game)
    BY <1>1, <2>1 DEF Disclosed, Judged
  <2>3. Lands(h, role, chain.game)'
    BY <1>1, <2>2, LandsStays
  <2> QED
    BY <1>1, <2>1, <2>3 DEF Lands
<1>2. CASE Open(g)
  <2>1. audits' = [audits EXCEPT ![g][Mine(g)] = <<>>]
        /\ audits \in [Group -> [Role -> Seq(Disclosed)]]
    BY <1>2 DEF Open, Clear, TypeOK
  <2>2. audits'[g][Mine(g)] = <<>>
    BY <1>0, <2>1
  <2>3. ~(h = g /\ role = Mine(g)) => audits'[h][role] = audits[h][role]
    BY <1>0, <2>1
  <2> QED
    BY <1>1, <2>2, <2>3
<1>3. CASE Negotiate(g) \/ Play(g) \/ Read(g) \/ Close(g) \/ Repush(g)
  <2>1. audits' = audits /\ ~Open(g)
    BY <1>3 DEF Negotiate, Play, Read, Close, Repush, Open, server
  <2> QED
    BY <1>1, <2>1
<1>4. CASE Audit(g)
  <2>1. PICK backed \in BOOLEAN :
          audits' = [audits EXCEPT ![Rival(g)][Opposite(Mine(g))] = Append(@,
                       [game |-> game[g], backed |-> backed])]
    BY <1>4 DEF Audit
  <2> DEFINE chain == [game |-> game[g], backed |-> backed]
  <2>2. audits'[h][role] = IF h = Rival(g) /\ role = Opposite(Mine(g))
                           THEN Append(audits[h][role], chain) ELSE audits[h][role]
    BY <1>0, <2>1 DEF TypeOK
  <2>3. CASE i \in DOMAIN audits[h][role]
    <3>1. audits'[h][role][i] = audits[h][role][i] /\ ~Open(g)
      BY <1>0, <2>2, <2>3, <1>4 DEF Audit, Open
    <3> QED
      BY <1>1, <2>3, <3>1
  <2>4. CASE i \notin DOMAIN audits[h][role]
    <3>1. h = Rival(g) /\ role = Opposite(Mine(g)) /\ audits'[h][role][i] = chain
      BY <1>0, <2>2, <2>4
    <3>2. pc[g] = "audit" /\ game'[g] = game[g]
      BY <1>4 DEF Audit
    <3>3. ASSUME NEW k, k = chain.game
          PROVE  Lands(h, role, k)'
      BY <3>1, <3>2, <3>3, Landing
    <3> QED
      BY <3>1, <3>3 DEF Lands
  <2> QED
    BY <2>3, <2>4
<1> QED
  BY <1>2, <1>3, <1>4 DEF Steps, DriverStep

LEMMA SendingStays ==
  ASSUME TypeOK, Sending, NEW g \in Group, Steps(g)
  PROVE  Sending'
<1> SUFFICES ASSUME NEW h \in Group, pc'[h] = "await"
             PROVE  /\ sent'[h].commit = Commit(h, step[h])'
                    /\ sent'[h].step = step'[h]
  BY DEF Sending
<1>1. CASE h # g
  <2>1. pc[h] = "await" /\ sent'[h] = sent[h] /\ step'[h] = step[h] /\ game'[h] = game[h]
    BY <1>1, Others
  <2> QED
    BY <2>1 DEF Sending, Commit
<1>2. CASE h = g
  <2>1. CASE Play(g)
    BY <1>2, <2>1 DEF Play, Commit, TypeOK
  <2>2. CASE Repush(g)
    BY <1>2, <2>2 DEF Repush, Commit, Sending, driver
  <2>3. CASE Open(g) \/ Negotiate(g) \/ Read(g) \/ Audit(g) \/ Close(g)
    <3>1. pc'[g] # "await"
      BY <2>3 DEF Open, Negotiate, Read, Audit, Close, Goto, TypeOK
    <3> QED
      BY <1>2, <3>1
  <2> QED
    BY <2>1, <2>2, <2>3 DEF Steps, DriverStep
<1> QED
  BY <1>1, <1>2

-----------------------------------------------------------------------------
(* Evidence.                                                               *)

(* What the driver g has told is still in the server it told it to: only a *)
(* clear of that sub-game could take it, and that is what dropped records. *)
LEMMA KeptStays ==
  ASSUME TypeOK, Pace, Sending, Kept, NEW g \in Group, Steps(g)
  PROVE  Kept'
<1> SUFFICES ASSUME ~dropped', NEW h \in Group, NEW n \in (1 .. Told(h))'
             PROVE  \E i \in DOMAIN Box(h)' : /\ Box(h)'[i].step = n
                                              /\ Box(h)'[i].commit.game = game'[h]
  BY DEF Kept
<1>0. /\ ~dropped
      /\ Rival(h) \in Group /\ Rival(h) # h /\ Rival(Rival(h)) = h /\ Rival(g) # g
      /\ game[h] \in Int /\ game[Rival(h)] \in Int /\ Mine(g) \in Role
      /\ step[g] \in 1 .. MaxSteps /\ MaxSteps \in Nat
      /\ Opposite(Mine(h)) \in Role /\ Opposite(Mine(h)) = RoleIn(Rival(h), game[h])
      /\ Box(h) \in Seq(Turns)
  <2>1. ~dropped
    BY DEF TypeOK, Steps, DriverStep, Open, Negotiate, Play, Read, Audit, Close, Repush
  <2> QED
    BY <2>1, Sides, Typed DEF Box
<1>1. n \in Int /\ 1 <= n
  BY DEF Told
<1>2. ASSUME Told(h)' = Told(h), game'[h] = game[h], Mine(h)' = Mine(h),
             \A i \in DOMAIN Box(h) : i \in DOMAIN Box(h)' /\ Box(h)'[i] = Box(h)[i]
      PROVE  \E i \in DOMAIN Box(h)' : /\ Box(h)'[i].step = n
                                       /\ Box(h)'[i].commit.game = game'[h]
  BY <1>0, <1>2 DEF Kept
<1>3. CASE h # g
  <2>1. g = Rival(h)
    BY <1>3, Sides
  <2>2. Told(h)' = Told(h) /\ game'[h] = game[h] /\ Mine(h)' = Mine(h)
    BY <1>3, Others DEF Told, Mine
  <2>3. CASE Open(g)
    <3>1. inbox' = [inbox EXCEPT ![g][Mine(g)] = <<>>]
          /\ inbox \in [Group -> [Role -> Seq(Turns)]]
      BY <2>3 DEF Open, Clear, TypeOK
    <3>2. CASE Opposite(Mine(h)) # Mine(g)
      <4>1. Box(h)' = Box(h)
        BY <1>0, <2>1, <2>2, <3>1, <3>2 DEF Box
      <4> QED
        BY <1>2, <2>2, <4>1
    <3>3. CASE Opposite(Mine(h)) = Mine(g)
      <4>1. game[h] <= game[g] + 1 /\ game[g] <= game[h] + 1
        BY <1>0, <2>1 DEF Pace, InReach
      <4>2. game[h] = game[g]
        BY <1>0, <2>1, <3>3, <4>1, Alternation DEF Mine
      <4>3. PICK i \in DOMAIN Box(h) : Box(h)[i].commit.game = game[h]
        BY <1>0, <2>2 DEF Kept
      <4>4. Box(h) = MyInbox(g)
        BY <2>1, <3>3 DEF Box, MyInbox
      <4>5. dropped'
        BY <2>3, <4>2, <4>3, <4>4 DEF Open
      <4> QED
        BY <4>5
    <3> QED
      BY <3>2, <3>3
  <2>4. CASE ~Open(g)
    <3>1. inbox'[g] = inbox[g]
      <4>1. CASE Negotiate(g) \/ Read(g) \/ Audit(g) \/ Close(g)
        BY <4>1 DEF Negotiate, Read, Audit, Close, server
      <4>2. CASE Play(g) \/ Repush(g)
        BY <1>0, <4>2 DEF Play, Repush, Push, TypeOK
      <4> QED
        BY <2>4, <4>1, <4>2 DEF Steps, DriverStep
    <3>2. Box(h)' = Box(h)
      BY <2>1, <2>2, <3>1 DEF Box
    <3> QED
      BY <1>2, <2>2, <3>2
  <2> QED
    BY <2>3, <2>4
<1>4. CASE h = g
  <2>1. CASE Open(g) \/ Negotiate(g) \/ Audit(g) \/ Close(g)
    <3>1. Told(g)' = 0
      <4>1. CASE Open(g) \/ Audit(g) \/ Close(g)
        <5>1. pc'[g] \in {"negotiate", "closing", "done", "open"}
          BY <4>1 DEF Open, Audit, Close, Goto, TypeOK
        <5> QED
          BY <5>1 DEF Told
      <4>2. CASE Negotiate(g)
        <5>1. pc'[g] = "play" /\ step'[g] = 1
          BY <4>2 DEF Negotiate, Goto, NewSide, TypeOK
        <5> QED
          BY <5>1 DEF Told
      <4> QED
        BY <2>1, <4>1, <4>2
    <3> QED
      BY <1>1, <1>4, <3>1
  <2>2. CASE Read(g)
    <3>1. \/ pc'[g] = "audit" /\ step'[g] = step[g]
          \/ pc'[g] = "play" /\ step'[g] = step[g] + 1
      BY <2>2 DEF Read, Goto, TypeOK
    <3>2. pc[g] = "await" /\ game' = game /\ inbox' = inbox
      BY <2>2 DEF Read, server
    <3>3. Told(g)' = Told(g)
      BY <1>0, <3>1, <3>2 DEF Told
    <3>4. Box(g)' = Box(g) /\ Mine(g)' = Mine(g)
      BY <3>2 DEF Box, Mine
    <3> QED
      BY <1>2, <1>4, <3>2, <3>3, <3>4
  <2>3. ASSUME NEW turn \in Turns, Push(g, turn), game'[g] = game[g]
        PROVE  /\ Box(g)' = Append(Box(g), turn) /\ Mine(g)' = Mine(g)
               /\ \A i \in DOMAIN Box(g) : i \in DOMAIN Box(g)' /\ Box(g)'[i] = Box(g)[i]
    <3>1. Mine(g)' = Mine(g)
      BY <2>3 DEF Mine
    <3>2. inbox'[Rival(g)][Opposite(Mine(g))] = Append(inbox[Rival(g)][Opposite(Mine(g))], turn)
      BY <1>0, <1>4, <2>3, Pushing
    <3>3. Box(g)' = Append(Box(g), turn)
      BY <3>1, <3>2 DEF Box
    <3> QED
      BY <1>0, <1>4, <3>1, <3>3
  <2>4. CASE Repush(g)
    <3>1. sent[g] \in Turns /\ Push(g, sent[g]) /\ game' = game /\ pc' = pc /\ step' = step
      BY <2>4 DEF Repush, TypeOK, driver
    <3>2. Told(g)' = Told(g)
      BY <3>1 DEF Told
    <3>3. PICK turn \in Turns : turn = sent[g]
      BY <3>1
    <3> QED
      BY <1>2, <1>4, <2>3, <3>1, <3>2, <3>3
  <2>5. CASE Play(g)
    <3>1. PICK hit \in BOOLEAN :
            Push(g, [step |-> step[g], hit |-> hit, answer |-> owed[g],
                     commit |-> Commit(g, step[g])])
      BY <2>5 DEF Play
    <3>2. PICK turn \in Turns : /\ Push(g, turn) /\ turn.step = step[g]
                                /\ turn.commit = Commit(g, step[g])
      BY <3>1, Sealed DEF TypeOK
    <3>3. /\ pc[g] = "play" /\ pc'[g] \in {"await", "audit"}
          /\ game'[g] = game[g] /\ step'[g] = step[g]
      BY <2>5 DEF Play, Goto, TypeOK
    <3>4. Told(g) = step[g] - 1 /\ Told(g)' = step[g]
      BY <3>3 DEF Told
    <3>5. /\ Box(g)' = Append(Box(g), turn)
          /\ \A i \in DOMAIN Box(g) : i \in DOMAIN Box(g)' /\ Box(g)'[i] = Box(g)[i]
      BY <2>3, <3>2, <3>3
    <3>6. CASE n = step[g]
      <4>1. /\ Len(Box(g)) + 1 \in DOMAIN Box(g)' /\ Box(g)'[Len(Box(g)) + 1] = turn
        BY <1>0, <1>4, <3>5
      <4> QED
        BY <1>4, <3>2, <3>3, <3>6, <4>1 DEF Commit
    <3>7. CASE n # step[g]
      <4>1. n \in 1 .. Told(g)
        BY <1>0, <1>1, <1>4, <3>4, <3>7
      <4>2. PICK i \in DOMAIN Box(g) : Box(g)[i].step = n /\ Box(g)[i].commit.game = game[g]
        BY <1>0, <4>1 DEF Kept
      <4> QED
        BY <1>4, <3>3, <3>5, <4>2
    <3> QED
      BY <3>6, <3>7
  <2> QED
    BY <2>1, <2>2, <2>4, <2>5 DEF Steps, DriverStep
<1> QED
  BY <1>3, <1>4

(* When a driver discloses, what it pushed to its judge is of its sub-game *)
(* only, wherever the judge's own driver is.                               *)
LEMMA BoxIsOurs ==
  ASSUME TypeOK, Pace, Stamped, NEW g \in Group, pc[g] = "audit", NEW i \in DOMAIN Box(g)
  PROVE  Box(g)[i] \in Turns /\ Box(g)[i].commit = Commit(g, Box(g)[i].step)
<1>0. /\ Rival(g) \in Group /\ Rival(Rival(g)) = g
      /\ game[g] \in Int /\ game[Rival(g)] \in Int
      /\ Opposite(Mine(g)) \in Role /\ Opposite(Mine(g)) = RoleIn(Rival(g), game[g])
      /\ Box(g) \in Seq(Turns)
  BY Sides, Typed DEF Box
<1>1. PICK turn \in Turns : turn = Box(g)[i]
  BY <1>0
<1> DEFINE k == turn.commit.game
<1>2. /\ k \in Int /\ turn.commit \in Commits
      /\ Lands(Rival(g), Opposite(Mine(g)), k)
      /\ turn.commit.group = g /\ turn.commit.step = turn.step
  BY <1>0, <1>1, SeriesAssumption DEF Stamped, Box, Turns, Commits
<1> HIDE DEF k
<1>3. k <= game[g] /\ k >= Horizon(Rival(g)) /\ RoleIn(Rival(g), k) = RoleIn(Rival(g), game[g])
  BY <1>0, <1>2 DEF Lands, Begun
<1>4. Begun(Rival(g), game[g])
  BY <1>0 DEF Pace, InReach, AtStart
<1>5. k >= game[g] - 1
  BY <1>0, <1>2, <1>3, <1>4 DEF Begun, Horizon
<1>6. k = game[g]
  BY <1>0, <1>2, <1>3, <1>5, Alternation
<1>7. turn.commit = [game |-> game[g], group |-> g, step |-> turn.step]
  BY <1>2, <1>6 DEF Commits, k
<1> QED
  BY <1>1, <1>7 DEF Commit

LEMMA EvidenceIsThere ==
  ASSUME TypeOK, Pace, Stamped, Kept, ~dropped, NEW g \in Group, pc[g] = "audit",
         NEW n \in 1 .. step[g]
  PROVE  Pushed(Box(g), n) = Commit(g, n)
<1> DEFINE at == {i \in DOMAIN Box(g) : Box(g)[i].step = n}
<1>1. Box(g) \in Seq(Turns)
  BY Sides, Typed DEF Box
<1>2. at # {}
  BY DEF Kept, Told
<1>3. at \in SUBSET (1 .. Len(Box(g))) /\ Len(Box(g)) \in Nat
  BY <1>1
<1>4. Max(at) \in at
  BY <1>2, <1>3, MaxIs
<1>5. Box(g)[Max(at)].commit = Commit(g, n)
  BY <1>4, BoxIsOurs
<1> QED
  BY <1>2, <1>5 DEF Pushed

LEMMA AuditsHaveEvidenceStays ==
  ASSUME TypeOK, Pace, Stamped, Kept, AuditsHaveEvidence, NEW g \in Group, Steps(g)
  PROVE  AuditsHaveEvidence'
<1> SUFFICES ASSUME ~dropped',
                    NEW h \in Group, NEW role \in Role, NEW i \in DOMAIN audits'[h][role]
             PROVE  audits'[h][role][i].backed
  BY DEF AuditsHaveEvidence
<1>0. /\ ~dropped /\ audits[h][role] \in Seq(Disclosed) /\ Rival(g) \in Group
      /\ Mine(g) \in Role /\ Opposite(Mine(g)) \in Role
  <2>1. ~dropped
    BY DEF TypeOK, Steps, DriverStep, Open, Negotiate, Play, Read, Audit, Close, Repush
  <2> QED
    BY <2>1, Sides, Typed
<1>1. \A j \in DOMAIN audits[h][role] : audits[h][role][j].backed
  BY <1>0 DEF AuditsHaveEvidence
<1>2. CASE Open(g)
  <2>1. audits' = [audits EXCEPT ![g][Mine(g)] = <<>>]
        /\ audits \in [Group -> [Role -> Seq(Disclosed)]]
    BY <1>2 DEF Open, Clear, TypeOK
  <2>2. audits'[h][role] \in {<<>>, audits[h][role]}
    BY <1>0, <2>1
  <2> QED
    BY <1>1, <2>2
<1>3. CASE Negotiate(g) \/ Play(g) \/ Read(g) \/ Close(g) \/ Repush(g)
  BY <1>1, <1>3 DEF Negotiate, Play, Read, Close, Repush, server
<1>4. CASE Audit(g)
  <2> DEFINE backed == \A n \in 1 .. step[g] : Pushed(Box(g), n) = Commit(g, n)
             chain == [game |-> game[g], backed |-> backed]
  <2>1. audits' = [audits EXCEPT ![Rival(g)][Opposite(Mine(g))] = Append(@, chain)]
        /\ pc[g] = "audit"
    BY <1>4 DEF Audit, Box
  <2>2. chain.backed
    BY <1>0, <2>1, EvidenceIsThere
  <2> HIDE DEF chain
  <2>3. audits'[h][role] \in {audits[h][role], Append(audits[h][role], chain)}
    BY <1>0, <2>1 DEF TypeOK
  <2> QED
    BY <1>0, <1>1, <2>2, <2>3
<1> QED
  BY <1>2, <1>3, <1>4 DEF Steps, DriverStep

(* What is filed under a sub-game was sent of that sub-game.               *)
LEMMA FiledStays ==
  ASSUME TypeOK, Pace, Judged, Filed, HarvestIsOwn, NEW g \in Group, Steps(g)
  PROVE  Filed' /\ HarvestIsOwn'
<1> DEFINE Own(h) == \A k \in DOMAIN closed[h] : \A i \in DOMAIN closed[h][k] :
                       closed[h][k][i].game = k
           Count(h) == Len(closed[h]) = IF pc[h] = "done" THEN game[h] ELSE game[h] - 1
<1> SUFFICES ASSUME NEW h \in Group
             PROVE  Count(h)' /\ Own(h)'
  BY DEF Filed, HarvestIsOwn
<1>0. /\ Own(h) /\ Count(h) /\ closed[h] \in Seq(Seq(Disclosed)) /\ Mine(g) \in Role
      /\ audits[g][Mine(g)] \in Seq(Disclosed) /\ game[g] \in Int
  BY Typed DEF Filed, HarvestIsOwn, TypeOK
<1>1. CASE h # g
  BY <1>0, <1>1, Others
<1>2. CASE h = g /\ ~Close(g)
  <2>1. closed' = closed /\ game' = game /\ pc[g] # "done" /\ pc'[g] # "done"
    BY <1>2 DEF TypeOK, Steps, DriverStep, Open, Negotiate, Play, Read, Audit, Repush,
                Goto, driver
  <2> QED
    BY <1>0, <1>2, <2>1
<1>3. CASE h = g /\ Close(g)
  <2> DEFINE heard == audits[g][Mine(g)]
  <2>1. /\ closed'[g] = Append(closed[g], heard) /\ pc[g] = "closing"
        /\ game'[g] = IF game[g] = SubGames THEN game[g] ELSE game[g] + 1
        /\ pc'[g] = IF game[g] = SubGames THEN "done" ELSE "open"
    BY <1>3, Course DEF Close, TypeOK
  <2>2. Len(closed[g]) + 1 = game[g]
    BY <1>0, <1>3, <2>1
  <2>3. \A i \in DOMAIN heard : heard[i].game = game[g]
    <3> SUFFICES ASSUME NEW i \in DOMAIN heard
                 PROVE  heard[i].game = game[g]
      OBVIOUS
    <3>1. heard[i] \in Disclosed
      BY <1>0
    <3>2. heard[i].game \in Int /\ Lands(g, Mine(g), heard[i].game)
      BY <1>0, <3>1 DEF Judged, Disclosed
    <3> QED
      BY <2>1, <3>2, LandsHere
  <2> HIDE DEF heard
  <2>4. Count(g)'
    BY <1>0, <1>3, <2>1, <2>2
  <2>5. ASSUME NEW k \in DOMAIN closed'[g], NEW i \in DOMAIN closed'[g][k]
        PROVE  closed'[g][k][i].game = k
    <3>1. CASE k \in DOMAIN closed[g]
      <4>1. closed'[g][k] = closed[g][k]
        BY <1>0, <1>3, <2>1, <3>1
      <4> QED
        BY <1>0, <1>3, <2>5, <3>1, <4>1
    <3>2. CASE k \notin DOMAIN closed[g]
      <4>1. k = game[g] /\ closed'[g][k] = heard
        BY <1>0, <1>3, <2>1, <2>2, <3>2
      <4> QED
        BY <2>3, <2>5, <4>1
    <3> QED
      BY <3>1, <3>2
  <2> QED
    BY <1>3, <2>4, <2>5
<1> QED
  BY <1>1, <1>2, <1>3

-----------------------------------------------------------------------------

LEMMA InvInit == Init => Inv
<1> SUFFICES ASSUME Init
             PROVE  Inv
  OBVIOUS
<1>1. TypeOK /\ Pace
  BY TypesInit, PaceInit
<1>2. \A g \in Group, role \in Role : inbox[g][role] = <<>> /\ audits[g][role] = <<>>
  BY DEF Init
<1>3. Stamped /\ Judged /\ AuditsHaveEvidence
  BY <1>2 DEF Stamped, Judged, AuditsHaveEvidence
<1>4. \A g \in Group : pc[g] = "open" /\ closed[g] = <<>> /\ game[g] = 1
  BY DEF Init
<1>5. Sending /\ Kept /\ Filed /\ HarvestIsOwn
  BY <1>4 DEF Sending, Kept, Told, Filed, HarvestIsOwn
<1> QED
  BY <1>1, <1>3, <1>5 DEF Inv

LEMMA InvNext == Inv /\ [Next]_vars => Inv'
<1> SUFFICES ASSUME Inv, [Next]_vars
             PROVE  Inv'
  OBVIOUS
<1>1. CASE Next
  <2>1. PICK g \in Group : Steps(g)
    BY <1>1 DEF Next, Steps
  <2>2. TypeOK' /\ Pace'
    BY <2>1, TypesStay, PaceStays DEF Inv
  <2>3. Stamped' /\ Judged' /\ Sending'
    BY <2>1, StampedStays, JudgedStays, SendingStays DEF Inv
  <2>4. Kept' /\ AuditsHaveEvidence'
    BY <2>1, KeptStays, AuditsHaveEvidenceStays DEF Inv
  <2>5. Filed' /\ HarvestIsOwn'
    BY <2>1, FiledStays DEF Inv
  <2> QED
    BY <2>2, <2>3, <2>4, <2>5 DEF Inv
<1>2. CASE UNCHANGED vars
  <2>1. /\ inbox' = inbox /\ audits' = audits /\ game' = game /\ pc' = pc /\ step' = step
        /\ sent' = sent /\ owed' = owed /\ caught' = caught /\ closed' = closed
        /\ dropped' = dropped
    BY <1>2 DEF vars, server, driver
  <2>2. TypeOK' /\ Pace' /\ Sending' /\ Filed'
    BY <2>1 DEF Inv, TypeOK, Pace, InReach, Begun, AtStart, Sending, Commit, Filed
  <2>3. Stamped' /\ Judged'
    BY <2>1 DEF Inv, Stamped, Judged, Lands, Horizon, Begun
  <2>4. Kept' /\ AuditsHaveEvidence' /\ HarvestIsOwn'
    BY <2>1 DEF Inv, Kept, Box, Mine, Told, AuditsHaveEvidence, HarvestIsOwn
  <2> QED
    BY <2>2, <2>3, <2>4 DEF Inv
<1> QED
  BY <1>1, <1>2

(* The invariant holds in every state of a series.                         *)
THEOREM InvHolds == Spec => []Inv
BY InvInit, InvNext, PTL DEF Spec

(* Whatever sub-games the two groups are in, an audit finds the digests    *)
(* that were pushed for it unless a clear took one, and no summary is      *)
(* filed with an audit of another sub-game (play_series, submit_audit).    *)
THEOREM OwnEvidence == Spec => []EvidenceIsOwn
<1>1. Inv => EvidenceIsOwn
  BY DEF Inv, EvidenceIsOwn
<1> QED
  BY <1>1, InvHolds, PTL

(* No driver acts on a turn of another sub-game, although no turn says     *)
(* which one it belongs to (await_turn).                                   *)
THEOREM ReadsItsOwnGame == Spec => ReadsThisGame
<1> DEFINE Reads == \A g \in Group :
             pc[g] = "await" /\ pc'[g] # "await" => TheirTurn(g).commit.game = game[g]
<1>1. Inv /\ [Next]_vars => [Reads]_vars
  <2> SUFFICES ASSUME Inv, Next, NEW g \in Group, pc[g] = "await", pc'[g] # "await"
               PROVE  TheirTurn(g).commit.game = game[g]
    OBVIOUS
  <2>1. PICK h \in Group : Steps(h)
    BY DEF Next, Steps
  <2>2. h = g
    BY <2>1, Others DEF Inv
  <2>3. Read(g)
    BY <2>1, <2>2 DEF Steps, DriverStep, Open, Negotiate, Play, Audit, Close, Repush, driver
  <2>4. Heard(g) # {}
    BY <2>3 DEF Read
  <2>5. Min(Heard(g)) \in DOMAIN MyInbox(g)
    BY <2>4, HeardIndex DEF Inv
  <2> QED
    BY <2>5, HeardIsOurs DEF Inv, TheirTurn
<1> QED
  BY <1>1, InvHolds, PTL DEF Spec, ReadsThisGame
=============================================================================
