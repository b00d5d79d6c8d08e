----------------------------- MODULE RemoteMatch -----------------------------
(***************************************************************************)
(* A match between two groups: each runs its own server (a Gate) and its   *)
(* own driver, play_remote_match, which submits its own moves to BOTH      *)
(* servers, polls for the turns it was not told about, and moves on.       *)
(*                                                                         *)
(* A driver's call and the server's handler are one step: the driver does  *)
(* nothing between sending a call and reading its reply, and no handler    *)
(* suspends.  Between two calls of one driver the other driver, the two    *)
(* clocks and a crash may intervene.  A played sequence of pairs stands    *)
(* for the position it leads to.                                           *)
(***************************************************************************)
EXTENDS MatchState

CONSTANTS
  Unopenable, BadMove, Stranger, Turns,
  MaxLost     \* bound: replies lost on the way back, to be retried

ASSUME RemoteAssumption == MaxLost \in Nat /\ MaxMoves # 0

VARIABLES
  pMatch, pBookTurn, pCommitments, pMoves, pDeadline, pForfeitedBy,
  tMatch, tBookTurn, tCommitments, tMoves, tDeadline, tForfeitedBy,
  pc,         \* where each driver is in its turn
  turn,       \* the turn it is playing
  move,       \* the move of its submission
  resolved,   \* the replies of this turn that came back resolved
  polled,     \* what its servers last told it: status and position
  history,    \* the results it settled, one per turn
  lost,       \* history: how many replies were lost
  weather     \* what goes wrong in this match, if anything

Police == INSTANCE Gate WITH
  match <- pMatch, bookTurn <- pBookTurn, commitments <- pCommitments,
  moves <- pMoves, deadline <- pDeadline, forfeitedBy <- pForfeitedBy

Thief == INSTANCE Gate WITH
  match <- tMatch, bookTurn <- tBookTurn, commitments <- tCommitments,
  moves <- tMoves, deadline <- tDeadline, forfeitedBy <- tForfeitedBy

Peer == Police!Peer
Other(p) == Police!Opponent(p)

policeServer == <<pMatch, pBookTurn, pCommitments, pMoves, pDeadline, pForfeitedBy>>
thiefServer == <<tMatch, tBookTurn, tCommitments, tMoves, tDeadline, tForfeitedBy>>
driver == <<pc, turn, move, resolved, polled, history>>
vars == <<policeServer, thiefServer, driver, lost, weather>>

MatchAt(s) == IF s = "police" THEN pMatch ELSE tMatch

\* connections = (local, remote)
Server(p, index) == IF index = 0 THEN p ELSE Other(p)

Init ==
  /\ Police!Init /\ Thief!Init
  /\ pc = [p \in Peer |-> "commit0"]
  /\ turn = [p \in Peer |-> 0]
  /\ move \in [Peer -> Token]
  /\ resolved = [p \in Peer |-> <<>>]
  /\ polled = [p \in Peer |-> <<>>]
  /\ history = [p \in Peer |-> <<>>]
  /\ lost = 0
  /\ weather \in {"smooth", "lossy", "stalls"}

-----------------------------------------------------------------------------
(* The tools of one server; the other one is left alone.                   *)

CommitVerdict(s, role, n) ==
  IF s = "police" THEN Police!CommitVerdict(role, n, TRUE)
  ELSE Thief!CommitVerdict(role, n, TRUE)

CommitAt(s, role, n, digest) ==
  \/ /\ s = "police" /\ Police!SubmitCommitment(role, n, digest, TRUE)
     /\ UNCHANGED thiefServer
  \/ /\ s = "thief" /\ Thief!SubmitCommitment(role, n, digest, TRUE)
     /\ UNCHANGED policeServer

RevealVerdict(s, role, n, token) ==
  IF s = "police" THEN Police!RevealVerdict(role, n, token, TRUE)
  ELSE Thief!RevealVerdict(role, n, token, TRUE)

RevealAt(s, role, n, token) ==
  \/ /\ s = "police" /\ Police!RevealMove(role, n, token, TRUE)
     /\ UNCHANGED thiefServer
  \/ /\ s = "thief" /\ Thief!RevealMove(role, n, token, TRUE)
     /\ UNCHANGED policeServer

PollAt(s) ==
  \/ s = "police" /\ Police!Poll /\ UNCHANGED thiefServer
  \/ s = "thief" /\ Thief!Poll /\ UNCHANGED policeServer

\* build_status, and the position a resolved turn or an observation states.
Account(m) ==
  [count |-> TurnCount(m), over |-> IsTerminated(m), reason |-> TerminalReason(m),
   cop |-> m.played, thief |-> m.played]

-----------------------------------------------------------------------------
(* The driver of one peer.                                                 *)

Goto(p, label) == pc' = [pc EXCEPT ![p] = label]

\* The turn is settled: record it and prepare the next move, or stop.
Take(p, result) ==
  /\ history' = [history EXCEPT ![p] = Append(@, result)]
  /\ turn' = [turn EXCEPT ![p] = @ + 1]
  /\ Goto(p, IF result.over THEN "done" ELSE "commit0")
  /\ \E token \in Token : move' = [move EXCEPT ![p] = token]
  /\ resolved' = [resolved EXCEPT ![p] = <<>>]
  /\ polled' = [polled EXCEPT ![p] = <<>>]

\* Commit to every peer ...
Commit(p, index) ==
  LET s == Server(p, index)
  IN  /\ pc[p] = IF index = 0 THEN "commit0" ELSE "commit1"
      /\ CommitAt(s, p, turn[p], move[p])
      /\ Goto(p, IF CommitVerdict(s, p, turn[p]) # "accepted" THEN "refused"
                 ELSE IF index = 0 THEN "commit1" ELSE "reveal0")
      /\ UNCHANGED <<turn, move, resolved, polled, history, lost, weather>>

\* match_loop.divergence
Divergent(results) ==
  results[1].count # results[2].count \/ results[1].cop # results[2].cop
    \/ results[1].thief # results[2].thief \/ results[1].over # results[2].over

\* ... then reveal, waiting out the opponent's missing commitment.
Reveal(p, index) ==
  LET s == Server(p, index)
      verdict == RevealVerdict(s, p, turn[p], move[p])
      answers == IF verdict = "resolved"
                 THEN Append(resolved[p], Account(MatchAt(s)'))
                 ELSE resolved[p]
  IN  /\ pc[p] = IF index = 0 THEN "reveal0" ELSE "reveal1"
      /\ RevealAt(s, p, turn[p], move[p])
      /\ UNCHANGED <<lost, weather>>
      /\ \/ /\ verdict = "reveal_before_commit"
            /\ UNCHANGED driver
         \/ /\ verdict \notin {"waiting", "resolved", "reveal_before_commit"}
            /\ Goto(p, "refused")
            /\ UNCHANGED <<turn, move, resolved, polled, history>>
         \/ /\ verdict \in {"waiting", "resolved"} /\ Len(answers) < 2
            /\ resolved' = [resolved EXCEPT ![p] = answers]
            /\ Goto(p, IF index = 0 THEN "reveal1" ELSE "status0")
            /\ UNCHANGED <<turn, move, polled, history>>
         \/ /\ verdict = "resolved" /\ Len(answers) = 2
            /\ IF Divergent(answers)
               THEN Goto(p, "diverged") /\ UNCHANGED <<turn, move, resolved, polled, history>>
               ELSE Take(p, answers[1])

\* push_submission: every commitment before the first reveal.
PushSubmission(p) == \E index \in {0, 1} : Commit(p, index) \/ Reveal(p, index)

\* Seeded bugs: off by one, and no way out of a forfeited match.
SettledEarly(status, p) == status.count >= turn[p] \/ status.over
SettledByCount(status, p) == status.count >= turn[p] + 1

Settled(status, p) == status.count >= turn[p] + 1 \/ status.over

StatusClash(one, two) ==
  one.count # two.count \/ one.over # two.over \/ one.reason # two.reason

\* await_turn_count asks one server after the other, then _settle decides.
Status(p, index) ==
  LET s == Server(p, index)
      answers == Append(IF index = 0 THEN <<>> ELSE polled[p], Account(MatchAt(s)'))
      ready == \A i \in 1 .. 2 : Settled(answers[i], p)
  IN  /\ pc[p] = IF index = 0 THEN "status0" ELSE "status1"
      /\ PollAt(s)
      /\ UNCHANGED <<lost, weather>>
      /\ \/ /\ index = 1 /\ ready /\ resolved[p] # <<>>
            /\ Take(p, resolved[p][1])
         \/ /\ ~ (index = 1 /\ ready /\ resolved[p] # <<>>)
            /\ polled' = [polled EXCEPT ![p] = answers]
            /\ Goto(p, IF index = 0 THEN "status1"
                       ELSE IF ~ready THEN "status0"
                       ELSE IF StatusClash(answers[1], answers[2]) THEN "diverged"
                       ELSE "observe0")
            /\ UNCHANGED <<turn, move, resolved, history>>

\* observed_result: each peer states its own role's position.
Observe(p, index) ==
  LET s == Server(p, index)
      view == MatchAt(s)'.played
      seen == IF s = "police" THEN [polled[p][1] EXCEPT !.cop = view]
              ELSE [polled[p][1] EXCEPT !.thief = view]
  IN  /\ pc[p] = IF index = 0 THEN "observe0" ELSE "observe1"
      /\ PollAt(s)
      /\ UNCHANGED <<lost, weather>>
      /\ IF index = 0
         THEN /\ polled' = [polled EXCEPT ![p][1] = seen]
              /\ Goto(p, "observe1")
              /\ UNCHANGED <<turn, move, resolved, history>>
         ELSE Take(p, seen)

-----------------------------------------------------------------------------
(* What may go wrong.                                                      *)

\* A reply is lost in transit; RateLimiter.run calls again.
LoseReply(p, index) ==
  LET s == Server(p, index)
  IN  /\ weather = "lossy" /\ lost < MaxLost
      /\ lost' = lost + 1
      /\ \/ /\ pc[p] = IF index = 0 THEN "commit0" ELSE "commit1"
            /\ CommitAt(s, p, turn[p], move[p])
         \/ /\ pc[p] = IF index = 0 THEN "reveal0" ELSE "reveal1"
            /\ RevealAt(s, p, turn[p], move[p])
      /\ UNCHANGED <<driver, weather>>

Ended == {"done", "refused", "diverged", "stopped"}

\* A call or a wait outlasts its watchdog (TechnicalLossError), or the process
\* dies: either way the driver makes no further call.
Stop(p) ==
  /\ weather = "stalls" /\ pc[p] \notin Ended
  /\ Goto(p, "stopped")
  /\ UNCHANGED <<policeServer, thiefServer, turn, move, resolved, polled, history, lost, weather>>

\* Each server has a clock of its own.
Tick(s) ==
  /\ weather = "stalls"
  /\ \/ s = "police" /\ Police!Tick /\ UNCHANGED thiefServer
     \/ s = "thief" /\ Thief!Tick /\ UNCHANGED policeServer
  /\ UNCHANGED <<driver, lost, weather>>

-----------------------------------------------------------------------------

DriverStep(p) ==
  \/ PushSubmission(p)
  \/ \E index \in {0, 1} : Status(p, index) \/ Observe(p, index)

Next ==
  \/ \E p \in Peer : DriverStep(p)
  \/ \E p \in Peer, index \in {0, 1} : LoseReply(p, index)
  \/ \E p \in Peer : Stop(p) \/ Tick(p)

Spec == Init /\ [][Next]_vars

(* A driver that has not stopped keeps calling, and clocks run.            *)
FairSpec ==
  /\ Spec
  /\ \A p \in Peer : WF_vars(DriverStep(p)) /\ WF_vars(Tick(p))

-----------------------------------------------------------------------------

Results ==
  [count : Nat, over : BOOLEAN, cop : Seq([EngineRole -> Token]),
   thief : Seq([EngineRole -> Token]),
   reason : {"capture", "max_moves_reached", "technical_loss", "none"}]

TypeOK ==
  /\ Police!TypeOK /\ Thief!TypeOK
  /\ pc \in [Peer -> {"commit0", "commit1", "reveal0", "reveal1", "status0",
                      "status1", "observe0", "observe1"} \cup Ended]
  /\ turn \in [Peer -> 0 .. MaxMoves]
  /\ move \in [Peer -> Token]
  /\ resolved \in [Peer -> Seq(Results)] /\ polled \in [Peer -> Seq(Results)]
  /\ history \in [Peer -> Seq(Results)]
  /\ lost \in 0 .. MaxLost /\ weather \in {"smooth", "lossy", "stalls"}

IsPrefixOf(s, t) == Len(s) <= Len(t) /\ \A i \in 1 .. Len(s) : s[i] = t[i]

(* The two independent engines play one and the same game: at any moment   *)
(* one is at most one turn behind, and what they have both played is equal.*)
EnginesAgree ==
  LET one == pMatch.played  two == tMatch.played
  IN  /\ IsPrefixOf(one, two) \/ IsPrefixOf(two, one)
      /\ Len(one) - Len(two) \in {-1, 0, 1}

(* In a smooth match a driver that follows the loop is never refused, nor   *)
(* sees the engines disagree: whatever the other driver's pace, it commits *)
(* to a turn only when both servers have reached it.                       *)
NeverOutOfStep == weather = "smooth" => \A p \in Peer : pc[p] \notin {"refused", "diverged"}

(* What a driver settles for a turn is one moment of one game: the count,  *)
(* the two positions and the end of the match, although they may come from *)
(* four separate calls during which the opponent kept playing.             *)
NoTornResult ==
  \A p \in Peer : \A n \in 1 .. Len(history[p]) :
    LET result == history[p][n]
    IN  /\ result.cop = result.thief
        /\ result.count = Len(result.cop)
        /\ result.reason # "technical_loss" => result.count = n

(* For every turn both drivers settled they report the same game, unless   *)
(* one of the servers has forfeited it.                                    *)
HistoriesAgree ==
  \A n \in 1 .. MaxMoves :
    (\A p \in Peer : Len(history[p]) >= n) =>
      \/ history["police"][n] = history["thief"][n]
      \/ \E s \in Peer : TerminalReason(MatchAt(s)) = "technical_loss"

(* What the drivers keep of a match is true of it: both engines play one   *)
(* game, each record is of one moment of it, and the two sides' records    *)
(* are the same.                                                           *)
RecordsTrue == TypeOK /\ EnginesAgree /\ NoTornResult /\ HistoriesAgree

(* The one game behind the two servers: what the farther engine has played,*)
(* and what either book holds of the turn after it.  A turn is played once *)
(* both moves are on some book, though no engine has both yet.             *)
Front == IF Len(pMatch.played) >= Len(tMatch.played) THEN pMatch.played ELSE tMatch.played

PoliceBook == pBookTurn = Len(Front)
ThiefBook == tBookTurn = Len(Front)

Held(p) ==
  IF PoliceBook /\ pCommitments[p] # None THEN pCommitments[p]
  ELSE IF ThiefBook THEN tCommitments[p] ELSE None

Shown ==
  {p \in Peer : (PoliceBook /\ pMoves[p] # None) \/ (ThiefBook /\ tMoves[p] # None)}

Game == INSTANCE SimultaneousTurns WITH
  sealed <- [p \in Peer |-> IF Shown = Peer THEN None ELSE Held(p)],
  opened <- IF Shown = Peer THEN {} ELSE Shown,
  log    <- IF Shown = Peer
            THEN Append(Front, [r \in EngineRole |->
                                  Held(IF r = "cop" THEN "police" ELSE "thief")])
            ELSE Front,
  blamed <- {}

(* Two servers, two drivers, lost replies and all, they play simultaneous  *)
(* turns: nobody opens a seal anywhere before both are sealed, a seal on   *)
(* one book binds on the other, and no turn follows the last.  A forfeit   *)
(* on one server takes nothing of that back.                               *)
ImplementsOneGame == Game!Spec

(* A smooth match is played to its end by both groups; and with clocks     *)
(* running, a driver that keeps going is not left waiting for ever on an   *)
(* opponent that stopped: its polling runs the clocks out.                 *)
EverybodyEnds ==
  <>(\A p \in Peer : /\ weather = "smooth" => pc[p] = "done"
                     /\ weather = "stalls" => pc[p] \in Ended)
=============================================================================
