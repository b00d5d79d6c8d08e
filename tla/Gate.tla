-------------------------------- MODULE Gate --------------------------------
(***************************************************************************)
(* One peer's server in the native dialect: the SubmissionGate in front of *)
(* the CommitmentBook of the current turn and of the MatchState.  Its four *)
(* tools are the actions; each is a whole handler.  The handlers run on    *)
(* one event loop, and the only awaits in them are of match_state.submit,  *)
(* which suspends nowhere (its lock is never contended), so a handler is   *)
(* one step.                                                               *)
(*                                                                         *)
(* Abstractions.  A digest is the token it seals, or Unopenable for one    *)
(* that no payload the peer can name hashes to: crypto.verify compares     *)
(* SHA-256 values, taken to be collision free.  A submission carries       *)
(* whether its Ed25519 signature over (role, turn, digest) verifies.       *)
(***************************************************************************)
EXTENDS MatchState

CONSTANTS
  Unopenable,  \* a digest nothing the peer reveals reproduces
  BadMove,     \* a revealed move or intent outside the wire vocabulary
  Stranger,    \* a role that is not a peer
  Turns        \* the turn numbers submissions name

ASSUME GateAssumption ==
  /\ Unopenable \notin Token \cup {None}
  /\ BadMove \notin Token
  /\ Stranger \notin {"police", "thief"}
  /\ Turns \subseteq Int

Peer == {"police", "thief"}
EngineRoleOf == [p \in Peer |-> IF p = "police" THEN "cop" ELSE "thief"]
PeerOf == [r \in EngineRole |-> IF r = "cop" THEN "police" ELSE "thief"]
Opponent(p) == IF p = "police" THEN "thief" ELSE "police"

Digest == Token \cup {Unopenable}

VARIABLES
  match,        \* gate.match_state
  bookTurn,     \* book._turn
  commitments,  \* book._commitments
  moves,        \* book._moves
  deadline,     \* book._deadline
  forfeitedBy   \* gate.forfeited_by

book == <<bookTurn, commitments, moves, deadline>>
vars == <<match, bookTurn, commitments, moves, deadline, forfeitedBy>>

Empty == [p \in Peer |-> None]

Init ==
  /\ match = NewMatch
  /\ bookTurn = 0
  /\ commitments = Empty
  /\ moves = Empty
  /\ deadline = NoDeadline
  /\ forfeitedBy = {}

-----------------------------------------------------------------------------
(* Stalls, checked lazily at the head of every tool.                       *)

Uncommitted == {p \in Peer : commitments[p] = None}
Unrevealed == {p \in Peer : moves[p] = None}

\* Seeded bug: only a missing commitment is a stall.
StalledRolesCommitOnly == IF deadline # Expired THEN {} ELSE Uncommitted

\* Seeded bug: whoever has not revealed is blamed, blocked or not.
StalledRolesBlameAll == IF deadline # Expired THEN {} ELSE Unrevealed

\* CommitmentBook.stalled_roles: blame the phase that is blocked.
StalledRoles ==
  IF deadline # Expired THEN {}
  ELSE IF Uncommitted # {} THEN Uncommitted
  ELSE Unrevealed

\* What expire_if_stalled returns; forfeitedBy is only ever set once.
Forfeiters == IF forfeitedBy # {} THEN forfeitedBy ELSE StalledRoles

\* Seeded bug: the forfeit is kept on the gate and never reaches MatchState.
ExpireIfStalledMutant == forfeitedBy' = Forfeiters /\ match' = match

ExpireIfStalled ==
  /\ forfeitedBy' = Forfeiters
  /\ match' = IF forfeitedBy # {} THEN match ELSE Forfeited(match, StalledRoles)

-----------------------------------------------------------------------------
(* The tools.  A refused submission is still an expiry check.              *)

CommitVerdict(role, turn, signed) ==
  IF Forfeiters # {} THEN "match_forfeited"
  ELSE IF role \notin Peer THEN "invalid_role"
  ELSE IF turn # TurnCount(match) THEN "wrong_turn"
  ELSE IF ~signed THEN "invalid_signature"
  ELSE IF turn < bookTurn THEN "stale_turn"
  ELSE IF turn = bookTurn /\ commitments[role] # None THEN "already_committed"
  ELSE "accepted"

\* CommitmentBook.commit: a later turn clears the book before it is used.
Commit(role, turn, digest) ==
  LET rolled == turn > bookTurn
  IN  /\ bookTurn' = turn
      /\ commitments' =
           [(IF rolled THEN Empty ELSE commitments) EXCEPT ![role] = digest]
      /\ moves' = IF rolled THEN Empty ELSE moves
      /\ deadline' = IF rolled \/ deadline = NoDeadline THEN Timeout ELSE deadline

SubmitCommitment(role, turn, digest, signed) ==
  \/ /\ CommitVerdict(role, turn, signed) = "accepted"
     /\ Commit(role, turn, digest)
     /\ UNCHANGED <<match, forfeitedBy>>
  \/ /\ CommitVerdict(role, turn, signed) # "accepted"
     /\ ExpireIfStalled
     /\ UNCHANGED book

\* Seeded bug: a reveal does not wait for the other commitment.
BookRevealMutant(role, turn, move) ==
  IF turn < bookTurn THEN "stale_turn"
  ELSE IF turn > bookTurn THEN "future_turn"
  ELSE IF moves[role] # None THEN "already_revealed"
  ELSE IF move # commitments[role] THEN "broken_commitment"
  ELSE IF Unrevealed = {role} THEN "resolved"
  ELSE "waiting"

\* CommitmentBook.reveal
BookReveal(role, turn, move) ==
  IF turn < bookTurn THEN "stale_turn"
  ELSE IF turn > bookTurn THEN "future_turn"
  ELSE IF Uncommitted # {} THEN "reveal_before_commit"
  ELSE IF moves[role] # None THEN "already_revealed"
  ELSE IF move # commitments[role] THEN "broken_commitment"
  ELSE IF Unrevealed = {role} THEN "resolved"
  ELSE "waiting"

\* SubmissionGate.reveal_move's checks, in its order, in front of the book's.
RevealVerdict(role, turn, move, signed) ==
  IF Forfeiters # {} THEN "match_forfeited"
  ELSE IF role \notin Peer THEN "invalid_role"
  ELSE IF turn # TurnCount(match) THEN "wrong_turn"
  ELSE IF commitments[role] = None THEN "reveal_before_commit"
  ELSE IF ~signed THEN "invalid_signature"
  ELSE IF move \notin Token THEN "invalid_direction"
  ELSE BookReveal(role, turn, move)

\* Seeded bug: the first to reveal is taken for the cop.
ResolveByOrder(role, move) ==
  Submitted(Submitted(match, "cop", moves[Opponent(role)]), "thief", move)

\* Both verified moves go to the buffer in the order they were revealed; a
\* refusal by the buffer ends the handler.
Resolve(role, move) ==
  LET first == Opponent(role)
      one == Submitted(match, EngineRoleOf[first], moves[first])
  IN  IF SubmitStatus(match, EngineRoleOf[first], moves[first])
           \in {"waiting", "resolved"}
      THEN Submitted(one, EngineRoleOf[role], move)
      ELSE one

RevealMove(role, turn, move, signed) ==
  LET verdict == RevealVerdict(role, turn, move, signed)
  IN  \/ /\ verdict \in {"waiting", "resolved"}
         /\ moves' = [moves EXCEPT ![role] = move]
         /\ match' = IF verdict = "resolved" THEN Resolve(role, move) ELSE match
         /\ UNCHANGED <<bookTurn, commitments, deadline, forfeitedBy>>
      \/ /\ verdict \notin {"waiting", "resolved"}
         /\ ExpireIfStalled
         /\ UNCHANGED book

\* get_match_status and get_observation
Poll ==
  /\ ExpireIfStalled
  /\ UNCHANGED book

Tick ==
  /\ deadline' = AfterTick(deadline)
  /\ match' = [match EXCEPT !.left = AfterTick(@)]
  /\ UNCHANGED <<bookTurn, commitments, moves, forfeitedBy>>

-----------------------------------------------------------------------------

Caller == Peer \cup {Stranger}

Next ==
  \/ \E role \in Caller, turn \in Turns, digest \in Digest,
        signed \in BOOLEAN : SubmitCommitment(role, turn, digest, signed)
  \/ \E role \in Caller, turn \in Turns, move \in Token \cup {BadMove},
        signed \in BOOLEAN : RevealMove(role, turn, move, signed)
  \/ Poll
  \/ Tick

Spec == Init /\ [][Next]_vars

(* Time passes, and the compliant peer keeps polling its own status while  *)
(* it waits (remote_sync.await_turn_count).  Nobody has to submit anything.*)
FairSpec == Spec /\ WF_vars(Tick) /\ WF_vars(Poll)

-----------------------------------------------------------------------------

TypeOK ==
  /\ match \in MatchOf(Peer)
  /\ bookTurn \in Nat
  /\ commitments \in [Peer -> Digest \cup {None}]
  /\ moves \in [Peer -> Token \cup {None}]
  /\ deadline \in Deadline
  /\ forfeitedBy \in SUBSET Peer

(* A move on the book was revealed after BOTH commitments were on it, and  *)
(* is the move its owner committed to (CommitmentBook.reveal).             *)
NoRevealBeforeBoth ==
  \A p \in Peer : moves[p] # None => Uncommitted = {} /\ moves[p] = commitments[p]

(* The book never runs ahead of the engine, never lags by more than the    *)
(* turn just played, and a lagging book holds exactly the pair the engine  *)
(* played: turn numbers of the two are kept apart in the code, and nothing *)
(* but the gate's wrong_turn check ties them together.                     *)
BookInStep ==
  /\ bookTurn <= TurnCount(match)
  /\ bookTurn < TurnCount(match) =>
       /\ bookTurn + 1 = TurnCount(match)
       /\ \A p \in Peer : moves[p] = match.played[bookTurn + 1][EngineRoleOf[p]]
  /\ bookTurn = TurnCount(match) /\ Unrevealed = {} => match.over

(* Whoever is forfeited was blocking the turn when the deadline passed: a  *)
(* peer waiting for the other's commitment is not blamed, a peer that has  *)
(* revealed is not blamed, and nobody is blamed for a turn nobody opened.  *)
(* (A forfeited book takes no more submissions, so the state still shows   *)
(* it.)                                                                    *)
BlameFollowsPhase ==
  forfeitedBy # {} =>
    /\ Uncommitted # Peer
    /\ forfeitedBy = IF Uncommitted # {} THEN Uncommitted ELSE Unrevealed

(* Every tool tells the same story: the forfeit the gate refuses with is   *)
(* the forfeit the status and observation tools report from MatchState.    *)
ToolsAgree == match.forfeits = forfeitedBy

(* The book, the engine and the two forfeits are one story: of declared    *)
(* shape, in step, and the same to whoever asks.                           *)
OneStory == TypeOK /\ BookInStep /\ ToolsAgree

(* A match that ended - by capture, by the move limit or by forfeit - ended*)
(* once: no later submission, poll or deadline relabels it or moves a piece*)
OutcomeStands ==
  [][TerminalReason(match) # "none"
       => /\ TerminalReason(match') = TerminalReason(match)
          /\ match'.played = match.played]_vars

(* A turn somebody opened does not hang: it is played, or the match ends   *)
(* by forfeit, however the silent peer behaves.                            *)
StallSettles ==
  \A n \in 0 .. MaxMoves :
    (TurnCount(match) = n /\ bookTurn = n /\ Uncommitted # Peer)
      ~> (TurnCount(match) > n \/ IsTerminated(match))

(* The abstract simultaneous turn this server implements.  A book behind   *)
(* the engine is an empty turn; a finished match hides what the book still *)
(* accepts after the end, and the forfeits that do not count any more.     *)
OpenTurn == bookTurn = TurnCount(match) /\ ~match.over

Turn == INSTANCE SimultaneousTurns WITH
  sealed <- IF OpenTurn THEN commitments ELSE Empty,
  opened <- IF OpenTurn THEN {p \in Peer : moves[p] # None} ELSE {},
  log    <- match.played,
  blamed <- IF match.over THEN {} ELSE match.forfeits

(* The gate, the book and the buffer together implement simultaneous turns.*)
ImplementsSimultaneousTurns == Turn!Spec
=============================================================================
