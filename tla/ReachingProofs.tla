--------------------------- MODULE ReachingProofs ---------------------------
(***************************************************************************)
(* One series and no second copy of it, in its order and with a peer that  *)
(* agreed to it, for every opponent, every pair of URLs and every number   *)
(* of attempts, retries, polls and sub-games.                              *)
(***************************************************************************)
EXTENDS Reaching, TLAPS

TurnKinds == {"turn", "again"}
Heard == [Url -> Seq([attempt : Nat, game : Nat, step : Nat])]

(* Whatever has been heard is of the attempt under way, and nothing has    *)
(* been before a turn is counted.                                          *)
Inv ==
  /\ endpoints \in [Wire -> Url]
  /\ attempt \in Nat /\ game \in Nat /\ step \in Nat
  /\ job \in [kind : JobKinds, tries : Nat, revived : BOOLEAN, opens : Nat]
  /\ heard \in Heard
  /\ pc \in {"calling", "opening"} /\ job.kind \in TurnKinds => pushed
  /\ ~pushed => \A u \in Url : heard[u] = <<>>
  /\ \A u \in Url : \A i \in DOMAIN heard[u] : heard[u][i].attempt = attempt

(* The same of what is heard after a step of the attempt under way.        *)
HeardNext ==
  /\ heard' \in Heard
  /\ ~pushed => \A u \in Url : heard'[u] = <<>>
  /\ \A u \in Url : \A i \in DOMAIN heard'[u] : heard'[u][i].attempt = attempt

-----------------------------------------------------------------------------

LEMMA InitInv == Init => Inv
<1> SUFFICES ASSUME Init PROVE Inv
  OBVIOUS
<1>1. heard \in Heard
  BY DEF Init, Heard
<1> QED
  BY <1>1 DEF Init, Inv, NoJob, JobKinds

LEMMA ThereIsUrl == ASSUME Inv PROVE There \in Url
BY DEF Inv, There, Opposite, Wire

(* A server executes turns of the attempt under way only.                  *)
LEMMA ExecuteHeard ==
  ASSUME Inv, Execute \/ UNCHANGED heard, pc = "calling"
  PROVE  HeardNext
<1>1. CASE heard' = heard
  BY <1>1 DEF Inv, HeardNext
<1>2. CASE job.kind \in TurnKinds /\ heard' = [heard EXCEPT ![There] = Append(@, Turn)]
  <2>1. pushed /\ There \in Url /\ heard \in Heard
    BY <1>2, ThereIsUrl DEF Inv
  <2>2. Turn \in [attempt : Nat, game : Nat, step : Nat] /\ Turn.attempt = attempt
    BY DEF Inv, Turn
  <2>3. \A u \in Url : heard'[u] = IF u = There THEN Append(heard[u], Turn) ELSE heard[u]
    BY <1>2, <2>1 DEF Heard
  <2>4. heard' \in Heard
    BY <1>2, <2>1, <2>2 DEF Heard
  <2>5. ASSUME NEW u \in Url, NEW i \in DOMAIN heard'[u]
        PROVE  heard'[u][i].attempt = attempt
    <3>1. CASE u # There
      BY <3>1, <2>3, <2>5 DEF Inv
    <3>2. CASE u = There
      <4>1. heard[u] \in Seq([attempt : Nat, game : Nat, step : Nat])
        BY <2>1 DEF Heard
      <4>2. heard'[u] = Append(heard[u], Turn)
        BY <3>2, <2>3
      <4>3. Len(heard[u]) \in Nat /\ i \in 1 .. Len(heard[u]) + 1
        BY <4>1, <4>2, <2>2, <2>5
      <4>4. CASE i = Len(heard[u]) + 1
        BY <4>4, <4>1, <4>2, <2>2
      <4>5. CASE i \in 1 .. Len(heard[u])
        <5>1. heard'[u][i] = heard[u][i] /\ i \in DOMAIN heard[u]
          BY <4>5, <4>1, <4>2, <2>2
        <5> QED
          BY <5>1 DEF Inv
      <4>6. i = Len(heard[u]) + 1 \/ i \in 1 .. Len(heard[u])
        BY <4>3
      <4> QED
        BY <4>4, <4>5, <4>6
    <3> QED
      BY <3>1, <3>2
  <2> QED
    BY <2>1, <2>4, <2>5 DEF HeardNext
<1> QED
  BY <1>1, <1>2 DEF Execute, TurnKinds

(* Each way on: another call, a failure, a wait, the end of a sub-game.    *)
LEMMA BeginInv ==
  ASSUME Inv, HeardNext, NEW kind \in {"hello", "turn", "again", "audit"}, Begin(kind),
         UNCHANGED <<world, attempt>>, game' \in Nat, step' \in Nat
  PROVE  Inv'
BY DEF Inv, HeardNext, Begin, Job, NoJob, Counted, JobKinds, TurnKinds, world

LEMMA AbandonInv ==
  ASSUME Inv, HeardNext, Abandon, UNCHANGED <<world, pushed>>
  PROVE  Inv'
<1>1. CASE Reconnects
  <2>1. ~pushed /\ attempt' = attempt + 1
    BY <1>1 DEF Abandon, Reconnects
  <2>2. \A u \in Url : heard'[u] = <<>>
    BY <2>1 DEF HeardNext
  <2> QED
    BY <1>1, <2>1, <2>2 DEF Inv, HeardNext, Abandon, NoJob, JobKinds, TurnKinds, world
<1>2. CASE ~Reconnects
  BY <1>2 DEF Inv, HeardNext, Abandon, NoJob, JobKinds, TurnKinds, world
<1> QED
  BY <1>1, <1>2

LEMMA EndGameInv ==
  ASSUME Inv, HeardNext, EndGame, UNCHANGED <<world, pushed>>
  PROVE  Inv'
<1>1. game' \in Nat /\ step' \in Nat /\ attempt' = attempt
  BY DEF EndGame, Inv
<1> QED
  BY <1>1 DEF Inv, HeardNext, EndGame, NoJob, JobKinds, TurnKinds, world

LEMMA WaitInv ==
  ASSUME Inv, HeardNext, Wait, UNCHANGED <<world, pushed>>
  PROVE  Inv'
BY DEF Inv, HeardNext, Wait, NoJob, JobKinds, TurnKinds, world, place

LEMMA RaisedInv ==
  ASSUME Inv, HeardNext, Raised, UNCHANGED <<world, pushed>>
  PROVE  Inv'
<1>1. Wait \/ Abandon \/ EndGame
  BY DEF Raised
<1> QED
  BY <1>1, WaitInv, AbandonInv, EndGameInv

LEMMA LostInv == ASSUME Inv, Lost PROVE Inv'
<1>1. HeardNext /\ UNCHANGED <<world, pushed>> /\ pc = "calling"
  BY ExecuteHeard DEF Lost
<1>2. CASE Retry
  BY <1>1, <1>2 DEF Inv, HeardNext, Retry, TurnKinds, JobKinds, world, place
<1>3. CASE Broken /\ job.revived
  BY <1>1, <1>3, RaisedInv DEF Broken
<1>4. CASE Broken /\ ~job.revived
  BY <1>1, <1>4 DEF Inv, HeardNext, Broken, TurnKinds, JobKinds, world, place
<1> QED
  BY <1>2, <1>3, <1>4 DEF Lost

LEMMA NextInv == Inv /\ [Next]_vars => Inv'
<1> SUFFICES ASSUME Inv, [Next]_vars PROVE Inv'
  OBVIOUS
<1>1. UNCHANGED heard => HeardNext
  BY DEF Inv, HeardNext
<1>2. CASE Reach
  <2>1. CASE There \in pool
    BY <1>1, <1>2, <2>1, BeginInv DEF Reach, place, Inv
  <2>2. CASE There \notin pool
    <3>1. /\ job' = NoJob /\ attempt' = attempt /\ heard' = heard
          /\ UNCHANGED <<world, place, pushed>>
      BY <1>2, <2>2 DEF Reach
    <3> QED
      BY <3>1 DEF Inv, NoJob, JobKinds, TurnKinds, world, place
  <2> QED
    BY <2>1, <2>2
<1>3. CASE Opened
  BY <1>3 DEF Opened, Inv, Job, NoJob, JobKinds, TurnKinds, world, place
<1>4. CASE OpenFails
  <2>1. CASE job.opens + 1 < OpenTries
    BY <1>4, <2>1 DEF OpenFails, Inv, JobKinds, TurnKinds, world, place
  <2>2. CASE ~(job.opens + 1 < OpenTries)
    BY <1>1, <1>4, <2>2, RaisedInv DEF OpenFails
  <2> QED
    BY <2>1, <2>2
<1>5. CASE Lost
  BY <1>5, LostInv
<1>6. CASE HelloReturns
  <2>1. CASE Begin("turn") /\ UNCHANGED <<attempt, place, pool>>
    BY <1>1, <1>6, <2>1, BeginInv DEF HelloReturns, place, Inv
  <2>2. CASE Abandon /\ UNCHANGED pushed
    BY <1>1, <1>6, <2>2, AbandonInv DEF HelloReturns
  <2> QED
    BY <1>6, <2>1, <2>2 DEF HelloReturns
<1>7. CASE TurnReturns
  <2>1. HeardNext /\ UNCHANGED world
    BY <1>7, ExecuteHeard DEF TurnReturns
  <2>2. CASE Wait /\ UNCHANGED pushed
    BY <2>1, <2>2, WaitInv
  <2>3. CASE Begin("audit") /\ UNCHANGED <<attempt, place, pool>>
    BY <2>1, <2>3, BeginInv DEF place, Inv
  <2> QED
    BY <1>7, <2>2, <2>3 DEF TurnReturns
<1>8. CASE TurnRefused
  BY <1>1, <1>8, AbandonInv DEF TurnRefused
<1>9. CASE AuditReturns
  BY <1>1, <1>9, EndGameInv DEF AuditReturns
<1>10. CASE Hear
  <2>1. CASE Begin("turn") /\ step' = step + 1 /\ UNCHANGED game
    BY <1>1, <1>10, <2>1, BeginInv DEF Hear, Inv
  <2>2. CASE Begin("audit") /\ UNCHANGED place
    BY <1>1, <1>10, <2>2, BeginInv DEF Hear, Inv, place
  <2> QED
    BY <1>10, <2>1, <2>2 DEF Hear
<1>11. CASE Repush
  BY <1>1, <1>11, BeginInv DEF Repush, Inv
<1>12. CASE GiveUp
  BY <1>1, <1>12, AbandonInv DEF GiveUp
<1>13. CASE UNCHANGED vars
  BY <1>13 DEF Inv, vars, world, place
<1> QED
  BY <1>2, <1>3, <1>4, <1>5, <1>6, <1>7, <1>8, <1>9, <1>10, <1>11, <1>12, <1>13 DEF Next

-----------------------------------------------------------------------------

(* Every reachable state of a run satisfies the strengthened invariant.    *)
THEOREM Invariance == Spec => []Inv
BY InitInv, NextInv, PTL DEF Spec

(* No opponent ever holds turns of two attempts: once a turn has been      *)
(* pushed, nothing makes the run start its series over.                    *)
THEOREM OneSeriesOnly == Spec => []OneSeries
<1>1. Inv => OneSeries
  <2> SUFFICES ASSUME Inv, NEW u \in Url, NEW v \in Url,
                      NEW s \in Range(heard[u]), NEW t \in Range(heard[v])
               PROVE  s.attempt = t.attempt
    BY DEF OneSeries
  <2>1. PICK i \in DOMAIN heard[u] : s = heard[u][i]
    BY DEF Range
  <2>2. PICK j \in DOMAIN heard[v] : t = heard[v][j]
    BY DEF Range
  <2> QED
    BY <2>1, <2>2 DEF Inv
<1> QED
  BY <1>1, Invariance, PTL

-----------------------------------------------------------------------------
(* What is heard, and where: turns come to a server in their order, and    *)
(* only to one that agreed to the sub-game they belong to.                 *)

Opponent(k) == endpoints[Opposite(RoleIn(k))]

(* Nothing of this sub-game, nothing of this step yet, nothing beyond it.  *)
Past(h) == \A u \in Url : \A i \in DOMAIN h[u] : h[u][i].game < game

Behind(h) ==
  \A u \in Url : \A i \in DOMAIN h[u] :
    h[u][i].game < game \/ (h[u][i].game = game /\ h[u][i].step < step)

Within(h) ==
  \A u \in Url : \A i \in DOMAIN h[u] :
    h[u][i].game < game \/ (h[u][i].game = game /\ h[u][i].step <= step)

(* The turn of this step may be pushed: it is the first, or the last one   *)
(* heard precedes it; or it has been heard.                                *)
Due(h) ==
  /\ Behind(h)
  /\ step = 1 \/ (Len(h[There]) > 0 /\ Follows(Turn, h[There][Len(h[There])]))

Landed(h) ==
  Within(h) /\ Len(h[There]) > 0 /\ h[There][Len(h[There])] = Turn

Chained(h) ==
  \A u \in Url : \A i \in DOMAIN h[u] :
    Starts(h[u][i]) \/ (i > 1 /\ Follows(h[u][i], h[u][i - 1]))

Heeded(h) ==
  \A u \in Url : \A i \in DOMAIN h[u] : ~Contradicts(far[u], h[u][i].game)

Visited(h, k) == \E i \in DOMAIN h[Opponent(k)] : h[Opponent(k)][i].game = k

Kept(h) == Chained(h) /\ Heeded(h) /\ \A k \in 1 .. game - 1 : Visited(h, k)

(* What a call of this kind presupposes.                                   *)
Standing(kind, h) ==
  /\ kind \in {"none", "hello"} => step = 1 /\ Past(h)
  /\ kind = "turn" => Due(h) \/ Landed(h)
  /\ kind \in {"again", "audit"} => Landed(h)
  /\ kind \in {"turn", "again", "audit"} => ~Contradicts(far[There], game)

Order ==
  /\ Kept(heard)
  /\ pc = "reach" => Standing("none", heard)
  /\ pc \in {"opening", "calling"} => Standing(job.kind, heard)
  /\ pc = "await" => Standing("again", heard)
  /\ pc = "done" => \A k \in 1 .. SubGames : Visited(heard, k)

-----------------------------------------------------------------------------

Jobs == [kind : JobKinds, tries : 0 .. MaxRetries, revived : BOOLEAN,
         opens : 0 .. OpenTries - 1]

LEMMA NoJobType == NoJob \in Jobs
BY ReachingAssumption DEF NoJob, JobKinds, Jobs

LEMMA JobFields ==
  ASSUME NEW kind \in JobKinds, NEW r \in BOOLEAN
  PROVE  /\ Job(kind) \in Jobs /\ Job(kind).kind = kind
         /\ [Job(kind) EXCEPT !.revived = r] \in Jobs
         /\ [Job(kind) EXCEPT !.revived = r].kind = kind
<1>1. Job(kind) \in Jobs /\ Job(kind).kind = kind
  BY NoJobType DEF Job, Jobs
<1>2. /\ [Job(kind) EXCEPT !.revived = r] \in Jobs
      /\ [Job(kind) EXCEPT !.revived = r].kind = kind
  BY <1>1 DEF Jobs
<1> QED
  BY <1>1, <1>2

LEMMA InitType == Init => TypeOK
<1> SUFFICES ASSUME Init PROVE TypeOK
  OBVIOUS
<1>1. heard \in [Url -> Seq(Turns)]
  BY DEF Init
<1>2. 1 \in 1 .. SubGames /\ 1 \in 1 .. Steps /\ 0 \in 0 .. MaxPolls /\ 0 \in 0 .. Attempts
  BY ReachingAssumption
<1>3. job \in Jobs
  BY NoJobType DEF Init
<1> QED
  BY <1>1, <1>2, <1>3 DEF Init, TypeOK, Jobs

(* What an execution does to the turns heard.                              *)
LEMMA Executed ==
  ASSUME TypeOK, Execute \/ UNCHANGED heard
  PROVE  /\ heard' \in [Url -> Seq(Turns)] /\ There \in Url /\ Turn \in Turns
         /\ \/ heard' = heard
            \/ /\ job.kind \in TurnKinds /\ \A i \in DOMAIN heard[There] : heard[There][i] # Turn
               /\ heard'[There] = Append(heard[There], Turn)
               /\ \A u \in Url \ {There} : heard'[u] = heard[u]
<1>1. There \in Url /\ Turn \in Turns
  BY DEF TypeOK, There, Opposite, Wire, Turn, Turns
<1>2. heard \in [Url -> Seq(Turns)]
  BY DEF TypeOK
<1>3. CASE heard' = heard
  BY <1>1, <1>2, <1>3
<1>4. CASE /\ job.kind \in TurnKinds /\ Turn \notin Range(heard[There])
           /\ heard' = [heard EXCEPT ![There] = Append(@, Turn)]
  <2>1. heard' \in [Url -> Seq(Turns)]
    BY <1>1, <1>2, <1>4
  <2>2. \A i \in DOMAIN heard[There] : heard[There][i] # Turn
    BY <1>4 DEF Range
  <2> QED
    BY <1>1, <1>2, <1>4, <2>1, <2>2
<1> QED
  BY <1>3, <1>4 DEF Execute, TurnKinds

(* A wait, a failure or the end of a sub-game.                             *)
LEMMA OverType ==
  ASSUME TypeOK, Wait \/ Abandon \/ EndGame, UNCHANGED <<world, pushed>>,
         heard' \in [Url -> Seq(Turns)]
  PROVE  TypeOK'
<1>1. job' = NoJob /\ UNCHANGED <<far, endpoints, pauses, pushed>>
  BY DEF Wait, Abandon, EndGame, world
<1>2. job' \in Jobs
  BY <1>1, NoJobType
<1>3. CASE Wait
  BY <1>1, <1>2, <1>3 DEF TypeOK, Wait, place, Jobs
<1>4. CASE Abandon
  <2>1. 1 \in 1 .. SubGames /\ 1 \in 1 .. Steps /\ 0 \in 0 .. MaxPolls
    BY ReachingAssumption
  <2>2. attempt' \in 0 .. Attempts /\ pc' \in {"reach", "failed"}
    BY <1>4, ReachingAssumption DEF Abandon, Reconnects, TypeOK
  <2> QED
    BY <1>1, <1>2, <1>4, <2>1, <2>2 DEF TypeOK, Abandon, Jobs
<1>5. CASE EndGame
  <2>1. game' \in 1 .. SubGames /\ 1 \in 1 .. Steps /\ 0 \in 0 .. MaxPolls
    BY <1>5, ReachingAssumption DEF EndGame, TypeOK
  <2>2. pool' \in SUBSET Url /\ pc' \in {"reach", "done"} /\ attempt' = attempt
    BY <1>5 DEF EndGame, TypeOK
  <2> QED
    BY <1>1, <1>2, <1>5, <2>1, <2>2 DEF TypeOK, EndGame, Jobs
<1> QED
  BY <1>3, <1>4, <1>5

LEMMA BeginType ==
  ASSUME TypeOK, NEW kind \in JobKinds, Begin(kind),
         UNCHANGED <<world, attempt, pool, heard>> \/
           (UNCHANGED <<world, attempt, pool>> /\ heard' \in [Url -> Seq(Turns)]),
         game' \in 1 .. SubGames, step' \in 1 .. Steps, polls' \in 0 .. MaxPolls
  PROVE  TypeOK'
<1>1. (There \notin pool) \in BOOLEAN
  OBVIOUS
<1>3. job' \in Jobs
  BY <1>1, JobFields DEF Begin
<1> QED
  BY <1>3 DEF TypeOK, Begin, world, Jobs

LEMMA NextType == TypeOK /\ [Next]_vars => TypeOK'
<1> SUFFICES ASSUME TypeOK, [Next]_vars PROVE TypeOK'
  OBVIOUS
<1>1. /\ heard \in [Url -> Seq(Turns)] /\ game \in 1 .. SubGames
      /\ step \in 1 .. Steps /\ polls \in 0 .. MaxPolls /\ There \in Url
  BY DEF TypeOK, There, Opposite, Wire
<1>3. CASE Reach
  <2>1. CASE There \in pool
    BY <1>1, <1>3, <2>1, BeginType DEF Reach, place, JobKinds
  <2>2. CASE There \notin pool
    BY <1>3, <2>2, NoJobType DEF Reach, TypeOK, Jobs, world, place
  <2> QED
    BY <2>1, <2>2
<1>4. CASE Opened
  <2>1. job' \in Jobs
    <3>1. job.kind \in JobKinds /\ "hello" \in JobKinds
      BY DEF TypeOK, JobKinds
    <3>2. CASE job.kind = "none"
      BY <1>4, <3>1, <3>2, JobFields DEF Opened
    <3>3. CASE job.kind # "none"
      BY <1>4, <3>1, <3>3, JobFields DEF Opened
    <3> QED
      BY <3>2, <3>3
  <2> QED
    BY <1>1, <1>4, <2>1 DEF Opened, TypeOK, world, place, Jobs
<1>5. CASE OpenFails
  <2>1. CASE job.opens + 1 < OpenTries
    <3>1. job \in Jobs /\ job' = [job EXCEPT !.opens = @ + 1]
      BY <1>5, <2>1 DEF OpenFails, TypeOK, Jobs
    <3>2. job.opens + 1 \in 0 .. OpenTries - 1
      BY <2>1, <3>1, ReachingAssumption DEF Jobs
    <3>3. job' \in Jobs
      BY <3>1, <3>2 DEF Jobs
    <3> QED
      BY <1>5, <2>1, <3>3 DEF OpenFails, TypeOK, world, place, Jobs
  <2>2. CASE ~(job.opens + 1 < OpenTries)
    BY <1>1, <1>5, <2>2, OverType DEF OpenFails, Raised
  <2> QED
    BY <2>1, <2>2
<1>6. CASE Lost
  <2>1. heard' \in [Url -> Seq(Turns)] /\ UNCHANGED <<world, pushed>>
    BY <1>6, Executed DEF Lost
  <2>2. CASE Retry
    <3>1. job \in Jobs /\ job' = [job EXCEPT !.tries = @ + 1] /\ job.tries < MaxRetries
      BY <2>2 DEF Retry, TypeOK, Jobs
    <3>2. job.tries + 1 \in 0 .. MaxRetries
      BY <3>1, ReachingAssumption DEF Jobs
    <3>3. job' \in Jobs
      BY <3>1, <3>2 DEF Jobs
    <3> QED
      BY <2>1, <2>2, <3>3 DEF Retry, TypeOK, world, place, Jobs
  <2>3. CASE Broken /\ job.revived
    BY <2>1, <2>3, OverType DEF Broken, Raised
  <2>4. CASE Broken /\ ~job.revived
    BY <1>1, <2>1, <2>4 DEF Broken, TypeOK, world, place
  <2> QED
    BY <1>6, <2>2, <2>3, <2>4 DEF Lost
<1>7. CASE HelloReturns
  <2>1. CASE Begin("turn") /\ UNCHANGED <<attempt, place, pool>>
    BY <1>1, <1>7, <2>1, BeginType DEF HelloReturns, place, JobKinds
  <2>2. CASE Abandon /\ UNCHANGED pushed
    BY <1>1, <1>7, <2>2, OverType DEF HelloReturns
  <2> QED
    BY <1>7, <2>1, <2>2 DEF HelloReturns
<1>8. CASE TurnReturns
  <2>1. heard' \in [Url -> Seq(Turns)] /\ UNCHANGED world
    BY <1>8, Executed DEF TurnReturns
  <2>2. CASE Wait /\ UNCHANGED pushed
    BY <2>1, <2>2, OverType
  <2>3. CASE Begin("audit") /\ UNCHANGED <<attempt, place, pool>>
    BY <1>1, <2>1, <2>3, BeginType DEF place, JobKinds
  <2> QED
    BY <1>8, <2>2, <2>3 DEF TurnReturns
<1>9. CASE TurnRefused \/ GiveUp
  BY <1>1, <1>9, OverType DEF TurnRefused, GiveUp
<1>10. CASE AuditReturns
  BY <1>1, <1>10, OverType DEF AuditReturns
<1>11. CASE Hear
  <2>1. CASE step < Steps /\ Begin("turn") /\ step' = step + 1 /\ polls' = 0 /\ UNCHANGED game
    <3>1. step' \in 1 .. Steps /\ polls' \in 0 .. MaxPolls
      BY <1>1, <2>1, ReachingAssumption
    <3> QED
      BY <1>1, <1>11, <2>1, <3>1, BeginType DEF Hear, JobKinds
  <2>2. CASE Begin("audit") /\ UNCHANGED place
    BY <1>1, <1>11, <2>2, BeginType DEF Hear, place, JobKinds
  <2> QED
    BY <1>11, <2>1, <2>2 DEF Hear
<1>12. CASE Repush
  <2>1. polls' \in 0 .. MaxPolls
    BY <1>1, <1>12, ReachingAssumption DEF Repush
  <2> QED
    BY <1>1, <1>12, <2>1, BeginType DEF Repush, JobKinds
<1>13. CASE UNCHANGED vars
  BY <1>13 DEF TypeOK, vars, world, place
<1> QED
  BY <1>3, <1>4, <1>5, <1>6, <1>7, <1>8, <1>9, <1>10, <1>11, <1>12, <1>13 DEF Next

-----------------------------------------------------------------------------

LEMMA InitOrder == Init => Order
<1> SUFFICES ASSUME Init PROVE Order
  OBVIOUS
<1>1. \A u \in Url : heard[u] = <<>>
  BY DEF Init
<1>2. Chained(heard) /\ Heeded(heard) /\ Past(heard)
  BY <1>1 DEF Chained, Heeded, Past
<1>3. \A k \in 1 .. game - 1 : Visited(heard, k)
  BY DEF Init
<1> QED
  BY <1>2, <1>3 DEF Init, Order, Kept, Standing

(* A reply that opens the sub-game is one of a server that agreed to it.   *)
LEMMA OpensAgrees ==
  ASSUME Opens(Reply(far[There]), Ours, Role)
  PROVE  ~Contradicts(far[There], game)
<1> DEFINE server == far[There]
<1>1. Reply(server).role # Role
  BY DEF Opens, Passes, SameSide
<1>2. CASE server.kind # "native"
  BY <1>1, <1>2 DEF Reply, Contradicts, Role
<1>3. CASE server.kind = "native"
  <2>1. Reply(server) = Negotiated(server.terms, server.role, Envelope(Ours, Role))
    BY <1>3 DEF Reply
  <2>2. ~SaysYes(Refusal(Absent))
    BY HandshakeAssumption DEF SaysYes, Refusal
  <2>3. Envelope(Ours, Role).role = Role /\ Envelope(Ours, Role).terms = Ours
    BY DEF Envelope
  <2>4. Reply(server) # Refusal(Absent)
    BY <2>2 DEF Opens
  <2>5. server.terms = Ours
    BY <2>1, <2>3, <2>4 DEF Negotiated, SameTerms
  <2>6. Refusal(server.role).role = server.role
    BY DEF Refusal
  <2>7. server.role # Role
    <3> SUFFICES ASSUME server.role = Role PROVE FALSE
      OBVIOUS
    <3>1. Reply(server) = Refusal(server.role)
      BY <2>1, <2>3, <2>4 DEF Negotiated, SameSide
    <3> QED
      BY <1>1, <2>6, <3>1
  <2> QED
    BY <1>3, <2>5, <2>7 DEF Contradicts, Role
<1> QED
  BY <1>2, <1>3

(* An execution leaves the turns in their order, and this one the last.    *)
LEMMA ExecuteKeeps ==
  ASSUME TypeOK, Order, pc = "calling", Execute \/ UNCHANGED heard
  PROVE  /\ Kept(heard') /\ Standing(job.kind, heard')
         /\ Execute /\ job.kind \in TurnKinds => Landed(heard')
<1>1. Kept(heard) /\ Standing(job.kind, heard)
  BY DEF Order
<1>2. /\ heard \in [Url -> Seq(Turns)] /\ There \in Url /\ Turn \in Turns
      /\ game \in Nat /\ step \in Nat
  BY Executed, ReachingAssumption DEF TypeOK
<1>3. heard[There] \in Seq(Turns) /\ Len(heard[There]) \in Nat
      /\ DOMAIN heard[There] = 1 .. Len(heard[There])
  BY <1>2
<1>4. CASE heard' = heard
  <2> SUFFICES ASSUME Execute, job.kind \in TurnKinds PROVE Landed(heard)
    BY <1>1, <1>4
  <2>1. CASE Landed(heard)
    BY <2>1
  <2>2. CASE Behind(heard)
    <3>1. Turn \notin Range(heard[There])
      <4> SUFFICES ASSUME NEW i \in DOMAIN heard[There], heard[There][i] = Turn PROVE FALSE
        BY DEF Range
      <4>1. heard[There][i].game = game /\ heard[There][i].step = step
        BY DEF Turn
      <4> QED
        BY <1>2, <2>2, <4>1 DEF Behind
    <3>2. heard'[There] = Append(heard[There], Turn)
      BY <1>2, <3>1 DEF Execute, TurnKinds
    <3>3. Len(heard'[There]) = Len(heard[There]) + 1
      BY <1>2, <1>3, <3>2
    <3> QED
      BY <1>3, <1>4, <3>3
  <2> QED
    BY <1>1, <2>1, <2>2 DEF Standing, Due, TurnKinds
<1>5. CASE /\ job.kind \in TurnKinds /\ \A i \in DOMAIN heard[There] : heard[There][i] # Turn
           /\ heard'[There] = Append(heard[There], Turn)
           /\ \A u \in Url \ {There} : heard'[u] = heard[u]
  <2> DEFINE n == Len(heard[There])
  <2>1. ~Landed(heard)
    BY <1>3, <1>5 DEF Landed
  <2>2. Due(heard) /\ ~Contradicts(far[There], game)
    BY <1>1, <1>5, <2>1 DEF Standing, TurnKinds
  <2>3. /\ DOMAIN heard'[There] = 1 .. n + 1 /\ Len(heard'[There]) = n + 1
        /\ heard'[There][n + 1] = Turn
        /\ \A i \in 1 .. n : heard'[There][i] = heard[There][i]
    BY <1>2, <1>3, <1>5
  <2>4. Turn.game = game /\ Turn.step = step
    BY DEF Turn
  <2>5. ASSUME NEW u \in Url, NEW i \in DOMAIN heard'[u]
        PROVE  \/ i \in DOMAIN heard[u] /\ heard'[u][i] = heard[u][i]
               \/ u = There /\ i = n + 1 /\ heard'[u][i] = Turn
    BY <1>3, <1>5, <2>3, <2>5
  <2>6. Within(heard')
    <3> SUFFICES ASSUME NEW u \in Url, NEW i \in DOMAIN heard'[u]
                 PROVE  \/ heard'[u][i].game < game
                        \/ heard'[u][i].game = game /\ heard'[u][i].step <= step
      BY DEF Within
    <3>1. CASE heard'[u][i] = Turn
      BY <1>2, <2>4, <3>1
    <3>2. CASE i \in DOMAIN heard[u] /\ heard'[u][i] = heard[u][i]
      <4>1. heard[u] \in Seq(Turns)
        BY <1>2
      <4>2. heard[u][i] \in Turns
        BY <3>2, <4>1
      <4>3. heard[u][i].step \in Int
        BY <4>2 DEF Turns
      <4> QED
        BY <1>2, <2>2, <3>2, <4>3 DEF Due, Behind
    <3> QED
      BY <2>5, <3>1, <3>2
  <2>7. Landed(heard')
    BY <1>3, <2>3, <2>6 DEF Landed
  <2>8. Chained(heard')
    <3> SUFFICES ASSUME NEW u \in Url, NEW i \in DOMAIN heard'[u]
                 PROVE  Starts(heard'[u][i])
                        \/ (i > 1 /\ Follows(heard'[u][i], heard'[u][i - 1]))
      BY DEF Chained
    <3>1. CASE u = There /\ i = n + 1 /\ heard'[u][i] = Turn
      <4>1. CASE step = 1
        BY <2>4, <3>1, <4>1 DEF Starts
      <4>2. CASE n > 0 /\ Follows(Turn, heard[There][n])
        <5>1. heard'[u][i - 1] = heard[There][n] /\ i > 1
          BY <1>3, <2>3, <3>1, <4>2
        <5> QED
          BY <3>1, <4>2, <5>1
      <4> QED
        BY <2>2, <4>1, <4>2 DEF Due
    <3>2. CASE i \in DOMAIN heard[u] /\ heard'[u][i] = heard[u][i]
      <4>1. CASE Starts(heard[u][i])
        BY <3>2, <4>1
      <4>2. CASE i > 1 /\ Follows(heard[u][i], heard[u][i - 1])
        <5>1. heard[u] \in Seq(Turns)
          BY <1>2
        <5>2. i - 1 \in DOMAIN heard[u]
          BY <3>2, <4>2, <5>1
        <5>3. heard'[u][i - 1] = heard[u][i - 1]
          BY <1>3, <1>5, <2>3, <5>2
        <5> QED
          BY <3>2, <4>2, <5>3
      <4> QED
        BY <1>1, <3>2, <4>1, <4>2 DEF Kept, Chained
    <3> QED
      BY <2>5, <3>1, <3>2
  <2>9. Heeded(heard')
    BY <1>1, <2>2, <2>4, <2>5 DEF Kept, Heeded
  <2>10. ASSUME NEW k \in 1 .. game - 1 PROVE Visited(heard', k)
    <3>1. Opponent(k) \in Url
      BY DEF Opponent, TypeOK, Opposite, Wire
    <3>2. PICK i \in DOMAIN heard[Opponent(k)] : heard[Opponent(k)][i].game = k
      BY <1>1 DEF Kept, Visited
    <3>3. i \in DOMAIN heard'[Opponent(k)] /\ heard'[Opponent(k)][i] = heard[Opponent(k)][i]
      BY <1>3, <1>5, <2>3, <3>1, <3>2
    <3> QED
      BY <3>2, <3>3 DEF Visited
  <2> QED
    BY <1>5, <2>2, <2>7, <2>8, <2>9, <2>10 DEF Kept, Standing, TurnKinds
<1> QED
  BY <1>4, <1>5, Executed

(* Each way on, as above.                                                  *)
LEMMA CallOrder ==
  ASSUME UNCHANGED <<world, attempt, game, step>>, pc' \in {"opening", "calling"},
         Kept(heard'), Standing(job'.kind, heard')
  PROVE  Order'
<1>1. There' = There /\ Turn' = Turn /\ Role' = Role /\ far' = far /\ endpoints' = endpoints
  BY DEF There, Turn, Role, world
<1>2. Kept(heard)'
  BY <1>1 DEF Kept, Chained, Heeded, Visited, Opponent
<1>3. Standing(job.kind, heard)'
  BY <1>1 DEF Standing, Past, Due, Behind, Landed, Within
<1> QED
  BY <1>2, <1>3 DEF Order

LEMMA WaitOrder ==
  ASSUME UNCHANGED world, Wait, Kept(heard'), Standing("again", heard')
  PROVE  Order'
<1>1. There' = There /\ Turn' = Turn /\ Role' = Role /\ far' = far /\ endpoints' = endpoints
      /\ game' = game /\ step' = step /\ pc' = "await"
  BY DEF There, Turn, Role, world, Wait, place
<1>2. Kept(heard)'
  BY <1>1 DEF Kept, Chained, Heeded, Visited, Opponent
<1>3. Standing("again", heard)'
  BY <1>1 DEF Standing, Landed, Within
<1> QED
  BY <1>1, <1>2, <1>3 DEF Order

LEMMA AbandonOrder ==
  ASSUME UNCHANGED world, Abandon, Kept(heard'), HeardNext
  PROVE  Order'
<1>1. far' = far /\ endpoints' = endpoints /\ game' = 1 /\ step' = 1
  BY DEF world, Abandon
<1>2. Kept(heard)'
  BY <1>1 DEF Kept, Chained, Heeded
<1>3. CASE Reconnects
  <2>1. pc' = "reach" /\ \A u \in Url : heard'[u] = <<>>
    BY <1>3 DEF Abandon, Reconnects, HeardNext
  <2>2. Past(heard)'
    BY <2>1 DEF Past
  <2> QED
    BY <1>1, <1>2, <2>1, <2>2 DEF Order, Standing
<1>4. CASE ~Reconnects
  BY <1>2, <1>4 DEF Abandon, Order
<1> QED
  BY <1>3, <1>4

LEMMA EndGameOrder ==
  ASSUME TypeOK, UNCHANGED world, EndGame, Kept(heard'), Standing("audit", heard'),
         heard' \in [Url -> Seq(Turns)]
  PROVE  Order'
<1>1. far' = far /\ endpoints' = endpoints
  BY DEF world
<1>2. Landed(heard') /\ There \in Url /\ game \in Nat
  BY ReachingAssumption DEF Standing, TypeOK, There, Opposite, Wire
<1>3. Visited(heard', game)
  <2>1. heard'[There] \in Seq(Turns)
    BY <1>2
  <2>2. Len(heard'[There]) \in DOMAIN heard'[There]
    BY <1>2, <2>1 DEF Landed
  <2> QED
    BY <1>2, <2>2 DEF Landed, Visited, Turn, Opponent, There, Role
<1>4. \A k \in 1 .. game : Visited(heard', k)
  <2> SUFFICES ASSUME NEW k \in 1 .. game PROVE Visited(heard', k)
    OBVIOUS
  <2>1. k = game \/ k \in 1 .. game - 1
    BY <1>2
  <2> QED
    BY <1>3, <2>1 DEF Kept
<1>5. \A k : Visited(heard, k)' <=> Visited(heard', k)
  BY <1>1 DEF Visited, Opponent
<1>6. Chained(heard)' /\ Heeded(heard)'
  BY <1>1 DEF Kept, Chained, Heeded
<1>7. CASE game = SubGames
  <2>1. pc' = "done" /\ game' = game
    BY <1>7 DEF EndGame
  <2>2. \A k \in 1 .. game' - 1 : Visited(heard, k)'
    BY <1>2, <1>4, <1>5, <2>1
  <2> QED
    BY <1>4, <1>5, <1>6, <1>7, <2>1, <2>2 DEF Order, Kept
<1>8. CASE game # SubGames
  <2>1. pc' = "reach" /\ game' = game + 1 /\ step' = 1
    BY <1>8 DEF EndGame
  <2>2. \A k \in 1 .. game' - 1 : Visited(heard, k)'
    BY <1>2, <1>4, <1>5, <2>1
  <2>3. Past(heard)'
    <3> SUFFICES ASSUME NEW u \in Url, NEW i \in DOMAIN heard'[u]
                 PROVE  heard'[u][i].game < game + 1
      BY <2>1 DEF Past
    <3>1. heard'[u] \in Seq(Turns)
      OBVIOUS
    <3>2. heard'[u][i] \in Turns
      BY <3>1
    <3>3. heard'[u][i].game \in Int
      BY <3>2 DEF Turns
    <3> QED
      BY <1>2, <3>3 DEF Landed, Within
  <2> QED
    BY <1>6, <2>1, <2>2, <2>3 DEF Order, Kept, Standing
<1> QED
  BY <1>7, <1>8

(* Hearing their turn of the step ends its push: the next one may be made. *)
LEMMA HearDue ==
  ASSUME TypeOK, Landed(heard), step' = step + 1, UNCHANGED <<world, attempt, game, heard>>
  PROVE  Due(heard)'
<1>1. There' = There /\ There \in Url /\ game \in Int /\ step \in Nat
  BY ReachingAssumption DEF There, Role, world, TypeOK, Opposite, Wire
<1>2. heard[There][Len(heard[There])] = Turn /\ Len(heard[There]) > 0
  BY DEF Landed
<1>3. Turn' = [Turn EXCEPT !.step = @ + 1]
  BY DEF Turn
<1>4. Follows(Turn', Turn)
  BY <1>3 DEF Follows
<1>5. Behind(heard)'
  <2> SUFFICES ASSUME NEW u \in Url, NEW i \in DOMAIN heard[u]
               PROVE  \/ heard[u][i].game < game
                      \/ heard[u][i].game = game /\ heard[u][i].step < step + 1
    BY DEF Behind
  <2>1. heard[u] \in Seq(Turns)
    BY DEF TypeOK
  <2>2. heard[u][i] \in Turns
    BY <2>1
  <2>3. heard[u][i].step \in Int
    BY <2>2 DEF Turns
  <2> QED
    BY <1>1, <2>3 DEF Landed, Within
<1> QED
  BY <1>1, <1>2, <1>4, <1>5 DEF Due, Follows

LEMMA RaisedOrder ==
  ASSUME TypeOK, Raised, UNCHANGED world, Kept(heard'), Standing(job.kind, heard'),
         HeardNext, heard' \in [Url -> Seq(Turns)]
  PROVE  Order'
<1>1. CASE job.kind = "again"
  <2>1. Standing("again", heard')
    BY <1>1
  <2> QED
    BY <1>1, <2>1, WaitOrder, AbandonOrder DEF Raised
<1>2. CASE job.kind = "audit"
  BY <1>2, EndGameOrder DEF Raised
<1>3. CASE job.kind \notin {"again", "audit"}
  BY <1>3, AbandonOrder DEF Raised
<1> QED
  BY <1>1, <1>2, <1>3

LEMMA BeginKind ==
  ASSUME NEW kind \in JobKinds, Begin(kind)
  PROVE  job'.kind = kind /\ pc' \in {"opening", "calling"}
<1>1. (There \notin pool) \in BOOLEAN
  OBVIOUS
<1> QED
  BY <1>1, JobFields DEF Begin

LEMMA NextOrder == Inv /\ TypeOK /\ Order /\ [Next]_vars => Order'
<1> SUFFICES ASSUME Inv, TypeOK, Order, [Next]_vars PROVE Order'
  OBVIOUS
<1>1. /\ Kept(heard) /\ heard \in [Url -> Seq(Turns)]
      /\ job.kind \in JobKinds
      /\ {"none", "hello", "turn", "again", "audit"} \subseteq JobKinds
  BY DEF Order, TypeOK, JobKinds
<1>2. UNCHANGED heard => Kept(heard') /\ HeardNext
  BY <1>1 DEF Inv, HeardNext
<1>3. CASE Reach
  <2>1. Standing("none", heard) /\ UNCHANGED <<world, attempt, game, step, heard>>
    BY <1>3 DEF Order, Reach, place
  <2>2. Standing("hello", heard')
    BY <2>1 DEF Standing
  <2>3. CASE There \in pool
    BY <1>1, <1>2, <1>3, <2>1, <2>2, <2>3, BeginKind, CallOrder DEF Reach
  <2>4. CASE There \notin pool
    <3>1. job'.kind = "none" /\ pc' = "opening"
      BY <1>3, <2>4 DEF Reach, NoJob
    <3> QED
      BY <1>2, <2>1, <3>1, CallOrder
  <2> QED
    BY <2>3, <2>4
<1>4. CASE Opened
  <2>1. /\ Standing(job.kind, heard) /\ UNCHANGED <<world, attempt, game, step, heard>>
        /\ pc' = "calling"
    BY <1>4 DEF Order, Opened, place
  <2>2. job'.kind = IF job.kind = "none" THEN "hello" ELSE job.kind
    <3>1. CASE job.kind = "none"
      BY <1>1, <1>4, <3>1, JobFields DEF Opened
    <3>2. CASE job.kind # "none"
      BY <1>1, <1>4, <3>2, JobFields DEF Opened
    <3> QED
      BY <3>1, <3>2
  <2>3. Standing(job'.kind, heard')
    BY <2>1, <2>2 DEF Standing
  <2> QED
    BY <1>2, <2>1, <2>3, CallOrder
<1>5. CASE OpenFails
  <2>1. Standing(job.kind, heard) /\ UNCHANGED <<world, heard>>
    BY <1>5 DEF Order, OpenFails
  <2>2. CASE job.opens + 1 < OpenTries
    <3>1. /\ job' = [job EXCEPT !.opens = @ + 1] /\ pc' = "opening"
          /\ UNCHANGED <<attempt, game, step>>
      BY <1>5, <2>2 DEF OpenFails, place
    <3>2. job'.kind = job.kind
      BY <3>1 DEF TypeOK
    <3> QED
      BY <1>2, <2>1, <3>1, <3>2, CallOrder
  <2>3. CASE ~(job.opens + 1 < OpenTries)
    BY <1>1, <1>2, <1>5, <2>1, <2>3, RaisedOrder DEF OpenFails
  <2> QED
    BY <2>2, <2>3
<1>6. CASE Lost
  <2>1. /\ Kept(heard') /\ Standing(job.kind, heard') /\ HeardNext
        /\ heard' \in [Url -> Seq(Turns)] /\ UNCHANGED world
    BY <1>6, Executed, ExecuteKeeps, ExecuteHeard DEF Lost
  <2>2. CASE Retry
    <3>1. /\ job' = [job EXCEPT !.tries = @ + 1] /\ pc' = "calling"
          /\ UNCHANGED <<attempt, game, step>>
      BY <1>6, <2>2 DEF Lost, Retry, place
    <3>2. job'.kind = job.kind
      BY <3>1 DEF TypeOK
    <3> QED
      BY <2>1, <3>1, <3>2, CallOrder
  <2>3. CASE Broken /\ job.revived
    BY <2>1, <2>3, RaisedOrder DEF Broken
  <2>4. CASE Broken /\ ~job.revived
    <3>1. /\ job' = [job EXCEPT !.revived = TRUE] /\ pc' = "opening"
          /\ UNCHANGED <<attempt, game, step>>
      BY <2>4 DEF Broken, place
    <3>2. job'.kind = job.kind
      BY <3>1 DEF TypeOK
    <3> QED
      BY <2>1, <3>1, <3>2, CallOrder
  <2> QED
    BY <1>6, <2>2, <2>3, <2>4 DEF Lost
<1>7. CASE HelloReturns
  <2>1. Standing("hello", heard) /\ UNCHANGED <<world, heard>>
    BY <1>7 DEF Order, HelloReturns
  <2>2. CASE Opens(Reply(far[There]), Ours, Role)
    <3>1. Begin("turn") /\ UNCHANGED <<attempt, game, step>>
      BY <1>7, <2>2 DEF HelloReturns, place
    <3>2. Due(heard)
      BY <2>1 DEF Standing, Past, Due, Behind
    <3>3. Standing("turn", heard')
      BY <2>1, <2>2, <3>2, OpensAgrees DEF Standing
    <3> QED
      BY <1>1, <1>2, <2>1, <3>1, <3>3, BeginKind, CallOrder
  <2>3. CASE ~Opens(Reply(far[There]), Ours, Role)
    BY <1>2, <1>7, <2>1, <2>3, AbandonOrder DEF HelloReturns
  <2> QED
    BY <2>2, <2>3
<1>8. CASE TurnReturns
  <2>1. /\ Kept(heard') /\ Standing("audit", heard') /\ Standing("again", heard')
        /\ UNCHANGED world
    BY <1>8, ExecuteKeeps DEF TurnReturns, TurnKinds, Standing
  <2>2. CASE Wait
    BY <2>1, <2>2, WaitOrder
  <2>3. CASE Begin("audit") /\ UNCHANGED <<attempt, place, pool>>
    BY <1>1, <2>1, <2>3, BeginKind, CallOrder DEF place
  <2> QED
    BY <1>8, <2>2, <2>3 DEF TurnReturns
<1>9. CASE TurnRefused \/ GiveUp
  BY <1>2, <1>9, AbandonOrder DEF TurnRefused, GiveUp
<1>10. CASE AuditReturns
  <2>1. Standing("audit", heard') /\ UNCHANGED <<world, heard>> /\ EndGame
    BY <1>10 DEF AuditReturns, Order
  <2> QED
    BY <1>1, <1>2, <2>1, EndGameOrder
<1>11. CASE Hear
  <2>1. Standing("again", heard) /\ UNCHANGED <<world, attempt, heard>>
    BY <1>11 DEF Order, Hear
  <2>2. CASE Begin("turn") /\ step' = step + 1 /\ UNCHANGED game
    <3>1. /\ There' = There /\ far' = far /\ endpoints' = endpoints
          /\ job'.kind = "turn" /\ pc' \in {"opening", "calling"}
      BY <1>1, <2>1, <2>2, BeginKind DEF There, Role, world
    <3>2. Due(heard)'
      BY <2>1, <2>2, HearDue DEF Standing
    <3>3. Kept(heard)'
      BY <1>1, <2>1, <2>2, <3>1 DEF Kept, Chained, Heeded, Visited, Opponent
    <3>4. Standing("turn", heard)'
      BY <2>1, <2>2, <3>1, <3>2 DEF Standing
    <3> QED
      BY <3>1, <3>3, <3>4 DEF Order
  <2>3. CASE Begin("audit") /\ UNCHANGED place
    <3>1. Standing("audit", heard')
      BY <2>1 DEF Standing
    <3> QED
      BY <1>1, <1>2, <2>1, <2>3, <3>1, BeginKind, CallOrder DEF place
  <2> QED
    BY <1>11, <2>2, <2>3 DEF Hear
<1>12. CASE Repush
  <2>1. /\ Standing("again", heard') /\ Begin("again")
        /\ UNCHANGED <<world, attempt, game, step, heard>>
    BY <1>12 DEF Order, Repush
  <2> QED
    BY <1>1, <1>2, <2>1, BeginKind, CallOrder
<1>13. CASE UNCHANGED vars
  <2>1. UNCHANGED <<far, endpoints, pauses, pc, attempt, game, step, job, heard>>
    BY <1>13 DEF vars, world, place
  <2>2. There' = There /\ Turn' = Turn
    BY <2>1 DEF There, Turn, Role
  <2>3. Kept(heard)'
    BY <1>1, <2>1 DEF Kept, Chained, Heeded, Visited, Opponent
  <2>4. \A kind : Standing(kind, heard)' <=> Standing(kind, heard)
    BY <2>1, <2>2 DEF Standing, Past, Due, Behind, Landed, Within
  <2>5. \A k : Visited(heard, k)' <=> Visited(heard, k)
    BY <2>1 DEF Visited, Opponent
  <2> QED
    BY <2>1, <2>3, <2>4, <2>5 DEF Order
<1> QED
  BY <1>3, <1>4, <1>5, <1>6, <1>7, <1>8, <1>9, <1>10, <1>11, <1>12, <1>13 DEF Next

-----------------------------------------------------------------------------

(* The state of a run is always one the launch code can be in.             *)
THEOREM TypeCorrect == Spec => []TypeOK
BY InitType, NextType, PTL DEF Spec

LEMMA InOrder == Spec => []Order
BY InitInv, InitType, InitOrder, NextInv, NextType, NextOrder, PTL DEF Spec

(* play_series and play_sub_game: whichever calls are lost, retried or     *)
(* made again on another session, a server executes the turns of a         *)
(* sub-game in their order and from the first, and a series that ends well *)
(* has opened each of its sub-games at the peer it belongs to.             *)
THEOREM NothingIsSkipped == Spec => []NothingSkipped
<1>1. TypeOK /\ Order => NothingSkipped
  <2> SUFFICES ASSUME TypeOK, Order PROVE NothingSkipped
    OBVIOUS
  <2>1. ASSUME pc = "done", NEW k \in 1 .. SubGames
        PROVE  \E turn \in Range(heard[endpoints[Opposite(RoleIn(k))]]) : turn.game = k
    <3>1. PICK i \in DOMAIN heard[Opponent(k)] : heard[Opponent(k)][i].game = k
      BY <2>1 DEF Order, Visited
    <3> QED
      BY <3>1 DEF Opponent, Range
  <2> QED
    BY <2>1 DEF Order, Kept, Chained, NothingSkipped
<1> QED
  BY <1>1, TypeCorrect, InOrder, PTL

(* negotiate_client: no turn ever reaches a peer that plays our own side   *)
(* or, as far as it says so, under other terms, for any opponent, URLs and *)
(* replies.                                                                *)
THEOREM PlayedAsAgreed == Spec => []PlaysOnlyAgreed
<1>1. TypeOK /\ Order => PlaysOnlyAgreed
  <2> SUFFICES ASSUME TypeOK, Order, NEW u \in Url, NEW turn \in Range(heard[u])
               PROVE  ~Contradicts(far[u], turn.game)
    BY DEF PlaysOnlyAgreed
  <2>1. PICK i \in DOMAIN heard[u] : turn = heard[u][i]
    BY DEF Range
  <2> QED
    BY <2>1 DEF Order, Kept, Heeded
<1> QED
  BY <1>1, TypeCorrect, InOrder, PTL
=============================================================================
