------------------------------ MODULE Reaching ------------------------------
(***************************************************************************)
(* How one group reaches its opponent through a series: the attempts of    *)
(* connect_and_play, inside them the pool of sessions that lazy_opponents  *)
(* opens on first use and replaces when they die, and inside a session the *)
(* limiter that makes a failed call again.  Any call may be lost before    *)
(* the far side executes it or after, or run into the watchdog.            *)
(*                                                                         *)
(* The opponent has a server per endpoint.  A native one runs our own      *)
(* negotiate; a foreign one gives a fixed reply.  heard keeps the first    *)
(* execution of every turn: ClaimsSubGame has what the copies do.          *)
(***************************************************************************)
EXTENDS Integers, Sequences, SequencesExt, Handshake

CONSTANTS
  Url,          \* the addresses of the opponent's processes
  Servers,      \* what may answer at one
  Ours,         \* our terms
  SubGames, Steps,
  Attempts,     \* bound: times the wait window lets connect_and_play retry
  OpenTries,    \* attempts: tries to open one endpoint
  MaxRetries,   \* the limiter's max_retries
  MaxPolls      \* bound: times a turn is pushed again

ASSUME ReachingAssumption ==
  /\ Ours \in Terms
  /\ SubGames \in Nat \ {0} /\ Steps \in Nat \ {0} /\ OpenTries \in Nat \ {0}
  /\ Attempts \in Nat /\ MaxRetries \in Nat /\ MaxPolls \in Nat

Opposite(role) == IF role = "police" THEN "thief" ELSE "police"

\* role_schedule, from the police's side.
RoleIn(k) == IF k % 2 = 1 THEN "police" ELSE "thief"

VARIABLES
  far, endpoints, pauses,   \* who answers where, the URLs as typed, --sub-game-pause
  pc,
  attempt, game, step, polls,
  pushed,    \* has a turn been counted?
  pool,      \* the endpoints with an open session
  job,       \* the call under way: kind, tries of the limiter, revived, opens
  heard      \* the turns each server has executed

world == <<far, endpoints, pauses>>
place == <<game, step, polls>>
vars == <<world, pc, attempt, place, pushed, pool, job, heard>>

NoJob == [kind |-> "none", tries |-> 0, revived |-> FALSE, opens |-> 0]
Job(kind) == [NoJob EXCEPT !.kind = kind]

\* resolve_endpoints: one URL, or one for each of their roles.
Init ==
  /\ far \in [Url -> Servers] /\ endpoints \in [Wire -> Url]
  /\ pauses \in BOOLEAN
  /\ pc = "reach" /\ attempt = 0
  /\ game = 1 /\ step = 1 /\ polls = 0
  /\ pushed = FALSE /\ pool = {} /\ job = NoJob
  /\ heard = [u \in Url |-> <<>>]

Role == RoleIn(game)

\* endpoint_for: our turns go to the peer of the opposite role.
There == endpoints[Opposite(Role)]

-----------------------------------------------------------------------------
(* The calls: counted(reviving(limiter.run(invoke))).                      *)

\* Seeded bug: the series is under way from its first audit on.
CountedMutant(kind) == kind = "audit"

\* counting: before the call, whatever becomes of it.
Counted(kind) == kind \in {"turn", "again"}

\* The call is made: through the open session, or, if the pool has none for
\* the endpoint, by _reviving, which opens one.
Begin(kind) ==
  /\ job' = [Job(kind) EXCEPT !.revived = There \notin pool]
  /\ pc' = IF There \in pool THEN "calling" ELSE "opening"
  /\ pushed' = (pushed \/ Counted(kind))

\* reach(role), at the top of a sub-game.
Reach ==
  /\ pc = "reach"
  /\ IF There \in pool
     THEN Begin("hello")
     ELSE pc' = "opening" /\ job' = NoJob /\ UNCHANGED pushed
  /\ UNCHANGED <<world, attempt, place, pool, heard>>

\* _open: one endpoint, as many times as it takes or as we may.
Opened ==
  /\ pc = "opening"
  /\ pool' = pool \cup {There} /\ pc' = "calling"
  /\ job' = IF job.kind = "none" THEN Job("hello")
            ELSE [Job(job.kind) EXCEPT !.revived = TRUE]
  /\ UNCHANGED <<world, attempt, place, pushed, heard>>

-----------------------------------------------------------------------------
(* What becomes of a failure.                                              *)

\* connect_and_play: not once the series is under way, nor after the deadline.
Reconnects == ~pushed /\ attempt < Attempts

\* Seeded bug: the deadline is set anew for every attempt.
AbandonMutant ==
  /\ pool' = {} /\ job' = NoJob
  /\ game' = 1 /\ step' = 1 /\ polls' = 0
  /\ pc' = IF pushed THEN "failed" ELSE "reach"
  /\ UNCHANGED attempt

\* The failure has reached connect_and_play, and the pool is unwound.
Abandon ==
  /\ pool' = {} /\ job' = NoJob
  /\ game' = 1 /\ step' = 1 /\ polls' = 0
  /\ IF Reconnects
     THEN pc' = "reach" /\ attempt' = attempt + 1
     ELSE pc' = "failed" /\ UNCHANGED attempt

\* The sub-game is over: a pause before the next one holds no session.
EndGame ==
  /\ job' = NoJob /\ step' = 1 /\ polls' = 0
  /\ IF game = SubGames
     THEN pc' = "done" /\ pool' = {} /\ UNCHANGED game
     ELSE pc' = "reach" /\ pool' = (IF pauses THEN {} ELSE pool) /\ game' = game + 1
  /\ UNCHANGED attempt

Wait == pc' = "await" /\ job' = NoJob /\ UNCHANGED <<attempt, place, pool>>

\* Seeded bug: a push that failed is swallowed like its repetition.
RaisedMutant ==
  CASE job.kind \in {"turn", "again"} -> Wait
    [] job.kind = "audit" -> EndGame
    [] OTHER -> Abandon

\* A repetition's failure is swallowed, unless it comes as a group of base
\* exceptions; an audit that cannot be delivered is settled as unreachable;
\* any other failure ends the attempt.
Raised ==
  CASE job.kind = "again" -> Wait \/ Abandon
    [] job.kind = "audit" -> EndGame
    [] OTHER -> Abandon

OpenFails ==
  /\ pc = "opening"
  /\ IF job.opens + 1 < OpenTries
     THEN job' = [job EXCEPT !.opens = @ + 1] /\ UNCHANGED <<pc, attempt, place, pool>>
     ELSE Raised
  /\ UNCHANGED <<world, pushed, heard>>

Turn == [attempt |-> attempt, game |-> game, step |-> step]

\* The far side executes the call: only turns leave a mark.
Execute ==
  heard' = IF job.kind \in {"turn", "again"} /\ Turn \notin Range(heard[There])
           THEN [heard EXCEPT ![There] = Append(@, Turn)]
           ELSE heard

\* RateLimiter.run: an exception is tried again on the same session ...
Retry ==
  /\ job.tries < MaxRetries
  /\ job' = [job EXCEPT !.tries = @ + 1]
  /\ UNCHANGED <<pc, attempt, place, pool>>

\* ... and the last one, or the watchdog's first, leaves it: _reviving drops
\* the session and makes the call once more on another.
Broken ==
  IF job.revived
  THEN Raised
  ELSE /\ job' = [job EXCEPT !.revived = TRUE]
       /\ pc' = "opening" /\ pool' = pool \ {There}
       /\ UNCHANGED <<attempt, place>>

\* A call without an answer, executed or not.
Lost ==
  /\ pc = "calling"
  /\ Execute \/ UNCHANGED heard
  /\ Retry \/ Broken
  /\ UNCHANGED <<world, pushed>>

-----------------------------------------------------------------------------
(* What follows an answer: play_series and play_sub_game.                  *)

Reply(server) ==
  IF server.kind = "native"
  THEN Negotiated(server.terms, server.role, Envelope(Ours, Role))
  ELSE server.reply

\* negotiate: the first turn is pushed only behind a handshake that holds.
HelloReturns ==
  /\ pc = "calling" /\ job.kind = "hello"
  /\ IF Opens(Reply(far[There]), Ours, Role)
     THEN Begin("turn") /\ UNCHANGED <<attempt, place, pool>>
     ELSE Abandon /\ UNCHANGED pushed
  /\ UNCHANGED <<world, heard>>

\* The turn is in their inbox.  A thief that has been caught waits no more.
TurnReturns ==
  /\ pc = "calling" /\ job.kind \in {"turn", "again"}
  /\ Execute
  /\ \/ Wait /\ UNCHANGED pushed
     \/ job.kind = "turn" /\ Begin("audit") /\ UNCHANGED <<attempt, place, pool>>
  /\ UNCHANGED world

\* An explicit no: a repetition does not look at the reply.
TurnRefused ==
  /\ pc = "calling" /\ job.kind = "turn"
  /\ Abandon
  /\ UNCHANGED <<world, pushed, heard>>

AuditReturns ==
  /\ pc = "calling" /\ job.kind = "audit"
  /\ EndGame
  /\ UNCHANGED <<world, pushed, heard>>

\* await_turn: their turn of the step, which may end the sub-game.
Hear ==
  /\ pc = "await"
  /\ \/ step < Steps /\ Begin("turn") /\ step' = step + 1 /\ polls' = 0 /\ UNCHANGED game
     \/ Begin("audit") /\ UNCHANGED place
  /\ UNCHANGED <<world, attempt, pool, heard>>

Repush ==
  /\ pc = "await" /\ polls < MaxPolls
  /\ Begin("again") /\ polls' = polls + 1
  /\ UNCHANGED <<world, attempt, game, step, pool, heard>>

GiveUp ==
  /\ pc = "await" /\ polls = MaxPolls
  /\ Abandon
  /\ UNCHANGED <<world, pushed, heard>>

Next ==
  \/ Reach \/ Opened \/ OpenFails \/ Lost
  \/ HelloReturns \/ TurnReturns \/ TurnRefused \/ AuditReturns
  \/ Hear \/ Repush \/ GiveUp

Spec == Init /\ [][Next]_vars

(* One process whose every await is bounded: by the watchdog, the tries,   *)
(* the polls or the wait window.                                           *)
FairSpec == Spec /\ WF_vars(Next)

-----------------------------------------------------------------------------

JobKinds == {"none", "hello", "turn", "again", "audit"}

Turns == [attempt : 0 .. Attempts, game : 1 .. SubGames, step : 1 .. Steps]

TypeOK ==
  /\ far \in [Url -> Servers] /\ endpoints \in [Wire -> Url] /\ pauses \in BOOLEAN
  /\ pc \in {"reach", "opening", "calling", "await", "done", "failed"}
  /\ attempt \in 0 .. Attempts
  /\ game \in 1 .. SubGames /\ step \in 1 .. Steps /\ polls \in 0 .. MaxPolls
  /\ pushed \in BOOLEAN /\ pool \in SUBSET Url
  /\ job \in [kind : JobKinds, tries : 0 .. MaxRetries, revived : BOOLEAN,
              opens : 0 .. OpenTries - 1]
  /\ heard \in [Url -> Seq(Turns)]

(* reference_launch: a reconnection never hands the opponent a second copy *)
(* of a series it already holds a part of, whichever calls were lost,      *)
(* repeated or executed unanswered.                                        *)
OneSeries ==
  \A u, v \in Url : \A s \in Range(heard[u]), t \in Range(heard[v]) :
    s.attempt = t.attempt

Starts(turn) == turn.step = 1
Follows(turn, before) == turn = [before EXCEPT !.step = @ + 1]

(* No server executes a turn before the one that precedes it in its sub-   *)
(* game, and a series that ends well opened every sub-game at the peer it  *)
(* belongs to.                                                             *)
NothingSkipped ==
  /\ \A u \in Url : \A i \in DOMAIN heard[u] :
       Starts(heard[u][i]) \/ (i > 1 /\ Follows(heard[u][i], heard[u][i - 1]))
  /\ pc = "done" => \A k \in 1 .. SubGames :
       \E turn \in Range(heard[endpoints[Opposite(RoleIn(k))]]) : turn.game = k

(* What the server at u stands for, as far as it says so.                  *)
Contradicts(server, k) ==
  IF server.kind = "native"
  THEN server.terms # Ours \/ server.role = RoleIn(k)
  ELSE server.reply.role = RoleIn(k)

(* negotiate_client: no turn reaches a peer that plays our own side, or a  *)
(* native one with other terms: not through URLs typed the wrong way       *)
(* round, nor in the sub-game after the one whose handshake held.          *)
PlaysOnlyAgreed ==
  TypeOK /\ \A u \in Url : \A turn \in Range(heard[u]) : ~Contradicts(far[u], turn.game)

(* The run ends, whatever the network does.                                *)
RunEnds == <>(pc \in {"done", "failed"})
=============================================================================
