----------------------------- MODULE MatchState -----------------------------
(***************************************************************************)
(* One peer's MatchState: the two-slot action buffer in front of a         *)
(* GameEpisode, and the forfeits recorded against the match.  The module   *)
(* has no variables: every method is an operator from a match record to a  *)
(* match record, so that the modules that own a match (Gate, PushSeries)   *)
(* can call several of them in one handler, as the code does.              *)
(*                                                                         *)
(* Abstractions.  A token is a member of Token; the board is seen only     *)
(* through Captures, which says whether a history of played pairs ends in  *)
(* a capture (module Engine has the board itself; the episode is a         *)
(* deterministic function of the pairs played).  The wall clock is seen    *)
(* only through deadlines, and a deadline through the ticks left to it.    *)
(***************************************************************************)
EXTENDS Integers, Sequences

CONSTANTS
  Token,        \* the move tokens parse_action accepts
  None,         \* Python's None: an empty slot, no commitment, no move
  MaxMoves,     \* config.max_moves
  Timeout,      \* config.response_timeout_sec, in ticks
  Captures(_)   \* does this sequence of played pairs end in a capture?

ASSUME MatchAssumption ==
  /\ None \notin Token
  /\ MaxMoves \in Nat
  /\ Timeout \in Nat

EngineRole == {"cop", "thief"}

-----------------------------------------------------------------------------
(* Deadlines.  d in 0 .. Timeout counts the ticks left; `clock > deadline' *)
(* holds from the tick after 0 on.                                         *)

Expired == -1
NoDeadline == -2
Deadline == NoDeadline .. Timeout

AfterTick(d) == IF d > Expired THEN d - 1 ELSE d

-----------------------------------------------------------------------------
(* The record.  `over' is episode.is_terminated, `played' its history (and *)
(* Len(played) its turn_count), `forfeits' is _forfeited_by.               *)

MatchOf(roles) ==
  [slots : [EngineRole -> Token \cup {None}], left : Deadline,
   played : Seq([EngineRole -> Token]), over : BOOLEAN, forfeits : SUBSET roles]

NoSlots == [r \in EngineRole |-> None]

NewMatch ==
  [slots |-> NoSlots, left |-> NoDeadline, played |-> <<>>, over |-> FALSE,
   forfeits |-> {}]

TurnCount(m) == Len(m.played)

Filled(m) == {r \in EngineRole : m.slots[r] # None}

\* ActionBuffer.clear
Cleared(m) == [m EXCEPT !.slots = NoSlots, !.left = NoDeadline]

\* ActionBuffer.expire_if_stale: only a half-filled turn is dropped.
ExpireIfStale(m) ==
  IF m.left = Expired /\ \E r \in EngineRole : Filled(m) = {r}
  THEN Cleared(m)
  ELSE m

\* ActionBuffer.accept: the deadline starts with the first action of a turn.
Accept(m, role, token) ==
  [m EXCEPT !.slots = [m.slots EXCEPT ![role] = token],
            !.left = IF Filled(m) = {} THEN Timeout ELSE m.left]

\* GameEpisode.step on the buffered pair: a finished episode does not move.
Step(m) ==
  LET history == Append(m.played, m.slots)
  IN  IF m.over
      THEN m
      ELSE [m EXCEPT !.played = history,
                     !.over = Captures(history) \/ Len(history) >= MaxMoves]

\* MatchState.submit: its status, judged after the stale turn was dropped ...
SubmitStatus(m, role, token) ==
  LET fresh == ExpireIfStale(m)
  IN  IF role \notin EngineRole THEN "invalid_role"
      ELSE IF token \notin Token THEN "invalid_direction"
      ELSE IF role \in Filled(fresh) THEN "already_submitted"
      ELSE IF Filled(fresh) \cup {role} = EngineRole THEN "resolved"
      ELSE "waiting"

\* ... and the match it leaves behind.
Submitted(m, role, token) ==
  LET fresh == ExpireIfStale(m)
      accepted == Accept(fresh, role, token)
      status == SubmitStatus(m, role, token)
  IN  IF status = "resolved" THEN Cleared(Step(accepted))
      ELSE IF status = "waiting" THEN accepted
      ELSE fresh

\* MatchState.forfeit: an empty list of roles is a no-op.
Forfeited(m, roles) == IF roles = {} THEN m ELSE [m EXCEPT !.forfeits = roles]

\* MatchState.reset: board, buffer and forfeits, for the next sub-game.
ResetMatch(m) == [Cleared(m) EXCEPT !.played = <<>>, !.over = FALSE,
                                    !.forfeits = {}]

\* Seeded bug: a forfeit relabels the outcome of a finished episode.
TerminalReasonMutant(m) ==
  IF m.forfeits # {} THEN "technical_loss"
  ELSE IF m.over /\ Captures(m.played) THEN "capture"
  ELSE IF m.over /\ Len(m.played) >= MaxMoves THEN "max_moves_reached"
  ELSE "none"

\* MatchState.terminal_reason: a finished episode outranks a forfeit.
TerminalReason(m) ==
  IF m.over /\ Captures(m.played) THEN "capture"
  ELSE IF m.over /\ Len(m.played) >= MaxMoves THEN "max_moves_reached"
  ELSE IF ~m.over /\ m.forfeits # {} THEN "technical_loss"
  ELSE "none"

\* MatchState.is_terminated
IsTerminated(m) == m.forfeits # {} \/ m.over
=============================================================================
