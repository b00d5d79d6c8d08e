---------------------------- MODULE ClaimsSeries ----------------------------
(***************************************************************************)
(* A series of reference-v3 sub-games between two groups that swap sides   *)
(* after each.  A group is one driver, play_series, and two servers, one   *)
(* per role, that keep accepting while the driver is elsewhere: finishing  *)
(* the last sub-game, pausing, or in the middle of a handshake.            *)
(*                                                                         *)
(* ClaimsSubGame has the positions; here the police's claim of a step just *)
(* hits or misses.  The messages carry no sub-game number: what tells two  *)
(* sub-games apart is only the digest, which no driver reads.              *)
(***************************************************************************)
EXTENDS Integers, Sequences, SequencesExt, FiniteSets

CONSTANTS
  SubGames,     \* sub-games of the series
  MaxSteps,     \* config.max_moves
  MaxCopies     \* bound: copies of one turn in an inbox

ASSUME SeriesAssumption ==
  SubGames \in Nat \ {0} /\ MaxSteps \in Nat \ {0} /\ MaxCopies \in Nat \ {0}

Group == {"A", "B"}
Rival(g) == IF g = "A" THEN "B" ELSE "A"

Role == {"police", "thief"}
Opposite(role) == IF role = "police" THEN "thief" ELSE "police"

\* role_schedule: group A starts as police, and the sides swap every sub-game.
RoleIn(g, k) == IF (k % 2 = 1) = (g = "A") THEN "police" ELSE "thief"

VARIABLES
  inbox, audits,   \* of each group's two servers
  game,            \* the sub-game a driver is in
  pc, step,
  sent,            \* the turn it repeats while the rival is silent
  owed,            \* Side._answer: the answer its next turn carries
  caught,          \* Side.caught
  closed,          \* the summaries, one per sub-game
  dropped          \* history: did a clear ever delete a turn of its own sub-game?

server == <<inbox, audits>>
driver == <<game, pc, step, sent, owed, caught, closed>>
vars == <<server, driver, dropped>>

Mine(g) == RoleIn(g, game[g])
MyInbox(g) == inbox[g][Mine(g)]

NoTurn == [step |-> 0, hit |-> FALSE, answer |-> FALSE,
           commit |-> [game |-> 0, group |-> "A", step |-> 0]]

Init ==
  /\ inbox = [g \in Group |-> [r \in Role |-> <<>>]]
  /\ audits = [g \in Group |-> [r \in Role |-> <<>>]]
  /\ game = [g \in Group |-> 1]
  /\ pc = [g \in Group |-> "open"] /\ step = [g \in Group |-> 1]
  /\ sent = [g \in Group |-> NoTurn]
  /\ owed = [g \in Group |-> FALSE] /\ caught = [g \in Group |-> FALSE]
  /\ closed = [g \in Group |-> <<>>]
  /\ dropped = FALSE

-----------------------------------------------------------------------------

Goto(g, label) == pc' = [pc EXCEPT ![g] = label]

\* Seeded bugs: the old audits are left in place, or the old turns.
ClearInboxOnly(g) ==
  inbox' = [inbox EXCEPT ![g][Mine(g)] = <<>>] /\ UNCHANGED audits
ClearAuditsOnly(g) ==
  audits' = [audits EXCEPT ![g][Mine(g)] = <<>>] /\ UNCHANGED inbox

Clear(g) ==
  /\ inbox' = [inbox EXCEPT ![g][Mine(g)] = <<>>]
  /\ audits' = [audits EXCEPT ![g][Mine(g)] = <<>>]

\* The top of play_series' loop: clear first, then pause.
Open(g) ==
  /\ pc[g] = "open"
  /\ Clear(g)
  /\ dropped' = (dropped \/ \E i \in DOMAIN MyInbox(g) :
                              MyInbox(g)[i].commit.game = game[g])
  /\ Goto(g, "negotiate")
  /\ UNCHANGED <<game, step, sent, owed, caught, closed>>

\* Seeded bug: one Side for the whole series.
NewSideMutant(g) == step' = [step EXCEPT ![g] = 1] /\ UNCHANGED <<owed, caught>>

\* A Side, and a step counter, of its own for each sub-game.
NewSide(g) ==
  /\ step' = [step EXCEPT ![g] = 1]
  /\ owed' = [owed EXCEPT ![g] = FALSE]
  /\ caught' = [caught EXCEPT ![g] = FALSE]

\* The rival's server answers the handshake whatever its driver is doing.
Negotiate(g) ==
  /\ pc[g] = "negotiate"
  /\ NewSide(g)
  /\ Goto(g, "play")
  /\ UNCHANGED <<server, game, sent, closed, dropped>>

\* The rival's turns of a role arrive at the server of the opposite one.
Push(g, turn) ==
  inbox' = [inbox EXCEPT ![Rival(g)][Opposite(Mine(g))] = Append(@, turn)]

Commit(g, n) == [game |-> game[g], group |-> g, step |-> n]

Play(g) ==
  /\ pc[g] = "play"
  /\ \E hit \in IF Mine(g) = "police" THEN BOOLEAN ELSE {FALSE} :
       LET turn == [step |-> step[g], hit |-> hit, answer |-> owed[g],
                    commit |-> Commit(g, step[g])]
       IN  sent' = [sent EXCEPT ![g] = turn] /\ Push(g, turn)
  /\ owed' = [owed EXCEPT ![g] = FALSE]
  /\ Goto(g, IF caught[g] THEN "audit" ELSE "await")
  /\ UNCHANGED <<audits, game, step, caught, closed, dropped>>

Heard(g) == {i \in DOMAIN MyInbox(g) : MyInbox(g)[i].step = step[g]}
TheirTurn(g) == MyInbox(g)[Min(Heard(g))]

Copies(g) ==
  Cardinality({i \in DOMAIN inbox[Rival(g)][Opposite(Mine(g))] :
                 inbox[Rival(g)][Opposite(Mine(g))][i] = sent[g]})

Repush(g) ==
  /\ pc[g] = "await" /\ Heard(g) = {} /\ Copies(g) < MaxCopies
  /\ Push(g, sent[g])
  /\ UNCHANGED <<audits, driver, dropped>>

OutOfSteps(g) == step[g] = MaxSteps

Read(g) ==
  /\ pc[g] = "await" /\ Heard(g) # {}
  /\ LET hit == Mine(g) = "thief" /\ TheirTurn(g).hit
         captured == Mine(g) = "police" /\ TheirTurn(g).answer
     IN  /\ owed' = [owed EXCEPT ![g] = hit]
         /\ caught' = [caught EXCEPT ![g] = @ \/ hit]
         /\ IF captured \/ OutOfSteps(g)
            THEN Goto(g, "audit") /\ UNCHANGED step
            ELSE Goto(g, "play") /\ step' = [step EXCEPT ![g] = @ + 1]
  /\ UNCHANGED <<server, game, sent, closed, dropped>>

\* pushed_commit looks for the last turn of a step.
Pushed(turns, n) ==
  LET atStep == {i \in DOMAIN turns : turns[i].step = n}
  IN  IF atStep = {} THEN NoTurn.commit ELSE turns[Max(atStep)].commit

\* The chain goes to the server that took the turns it seals.
Audit(g) ==
  /\ pc[g] = "audit"
  /\ LET turns == inbox[Rival(g)][Opposite(Mine(g))]
     IN  audits' = [audits EXCEPT ![Rival(g)][Opposite(Mine(g))] = Append(@,
           [game |-> game[g],
            backed |-> \A n \in 1 .. step[g] : Pushed(turns, n) = Commit(g, n)])]
  /\ Goto(g, "closing")
  /\ UNCHANGED <<inbox, game, step, sent, owed, caught, closed, dropped>>

Close(g) ==
  /\ pc[g] = "closing"
  /\ closed' = [closed EXCEPT ![g] = Append(@, audits[g][Mine(g)])]
  /\ game' = [game EXCEPT ![g] = IF @ = SubGames THEN @ ELSE @ + 1]
  /\ Goto(g, IF game[g] = SubGames THEN "done" ELSE "open")
  /\ UNCHANGED <<server, step, sent, owed, caught, dropped>>

-----------------------------------------------------------------------------

DriverStep(g) ==
  Open(g) \/ Negotiate(g) \/ Play(g) \/ Read(g) \/ Audit(g) \/ Close(g)

Next == \E g \in Group : DriverStep(g) \/ Repush(g)

Spec == Init /\ [][Next]_vars

(* Both processes run, and a waiting driver keeps pushing its turn.        *)
FairSpec == Spec /\ \A g \in Group : WF_vars(DriverStep(g)) /\ WF_vars(Repush(g))

-----------------------------------------------------------------------------

Commits == [game : 0 .. SubGames, group : Group, step : 0 .. MaxSteps]
Turns == [step : 0 .. MaxSteps, hit : BOOLEAN, answer : BOOLEAN, commit : Commits]
Disclosed == [game : 1 .. SubGames, backed : BOOLEAN]

TypeOK ==
  /\ inbox \in [Group -> [Role -> Seq(Turns)]]
  /\ audits \in [Group -> [Role -> Seq(Disclosed)]]
  /\ game \in [Group -> 1 .. SubGames]
  /\ pc \in [Group -> {"open", "negotiate", "play", "await", "audit", "closing", "done"}]
  /\ step \in [Group -> 1 .. MaxSteps]
  /\ sent \in [Group -> Turns]
  /\ owed \in [Group -> BOOLEAN] /\ caught \in [Group -> BOOLEAN]
  /\ closed \in [Group -> Seq(Seq(Disclosed))]
  /\ dropped \in BOOLEAN

(* A driver acts only on turns of the sub-game it is in, although nothing  *)
(* on the wire says which sub-game a turn belongs to.                      *)
ReadsThisGame ==
  [][\A g \in Group :
       pc[g] = "await" /\ pc'[g] # "await" => TheirTurn(g).commit.game = game[g]]_vars

(* Unless a clear took its first turn, every record of a disclosed chain   *)
(* finds the digest that was pushed for it still in the inbox, and no      *)
(* other: the evidence outlives the turn however far ahead the judging     *)
(* group's driver is, which may have opened the next sub-game by then.     *)
AuditsHaveEvidence ==
  ~dropped => \A g \in Group, r \in Role : \A i \in DOMAIN audits[g][r] :
                audits[g][r][i].backed

(* PRD 22, FR5: no summary inherits an audit of another sub-game.          *)
HarvestIsOwn ==
  \A g \in Group : \A k \in DOMAIN closed[g] : \A i \in DOMAIN closed[g][k] :
    closed[g][k][i].game = k

(* What a sub-game is judged by, and what is filed under it, is its own.   *)
EvidenceIsOwn == TypeOK /\ AuditsHaveEvidence /\ HarvestIsOwn

AllDone == \A g \in Group : pc[g] = "done"

(* Both groups play the series to its end, whatever the sub-games they are *)
(* in, unless a clear deleted a turn that the rival had pushed early.      *)
OnlyClearsStall == <>(AllDone \/ dropped)
=============================================================================
