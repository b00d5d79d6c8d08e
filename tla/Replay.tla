------------------------------- MODULE Replay -------------------------------
(***************************************************************************)
(* The evidence of a game and its verifiers: one local match played turn   *)
(* by turn on two engines and compared (match_loop), or one side's sealed  *)
(* walk (reference-v3); the log either leaves; edits somebody without the  *)
(* peers' keys makes to the file; and what replay_match says of it.        *)
(*                                                                         *)
(* A digest is the tuple it hashes and a signature the tuple it signs:     *)
(* anybody can hash, nobody but a peer can sign.  Nonces are left out, one *)
(* match never commits the same tuple twice.  The prefix Replay is on the  *)
(* names that Settlement, which the evidence proofs read too, also has.    *)
(***************************************************************************)
EXTENDS Grid, Sequences, FiniteSets

CONSTANTS
  CopStart, ThiefStart, MaxMoves,
  Moves,      \* the moves the players choose among
  Layouts,    \* the boards a contract file may lay
  MaxEdits    \* bound: edits made to a log

ASSUME ReplayAssumption ==
  /\ GridSize \in Nat
  /\ CopStart \in Cell /\ ThiefStart \in Cell /\ Moves \subseteq Action
  /\ MaxMoves \in Nat \ {0} /\ \A b \in Layouts : b \subseteq Cell

Peers == {"police", "thief"}

VARIABLES
  wire,     \* native or v3
  boards,   \* the layout of each contract file: the two peers', and the one at the root
  limits,   \* max_moves of the two peers
  silent,   \* the thief's peer states no rules
  pc,       \* agree, play, done, refused, split
  engines,  \* the two episodes: cop, thief, count, captured, over
  history,  \* what play_match returns; on v3 the records sealed
  log,      \* the log file
  resultFile,
  edits, resealed

contracts == <<wire, boards, limits, silent>>
replayVars == <<contracts, pc, engines, history, log, resultFile, edits, resealed>>

Episode == [cop |-> CopStart, thief |-> ThiefStart, count |-> 0,
            captured |-> FALSE, over |-> FALSE]
NoLog == [barriers |-> {}, turns |-> <<>>, claimed |-> 0]
NoMatchResult == [turns |-> 0, final |-> Episode]

ReplayInit ==
  /\ wire \in {"native", "v3"}
  /\ boards \in [Peers \cup {"root"} -> Layouts]
  /\ limits \in [Peers -> 1..MaxMoves]
  /\ silent \in BOOLEAN
  /\ pc = IF wire = "native" THEN "agree" ELSE "play"
  /\ wire = "v3" => /\ boards["police"] = boards["thief"] /\ ~silent
                    /\ \A p \in Peers : limits[p] = MaxMoves
  /\ engines = [p \in Peers |-> Episode]
  /\ history = <<>> /\ log = NoLog /\ resultFile = NoMatchResult /\ edits = 0 /\ resealed = FALSE
---------------------------------------------------------------------------
(* The match.                                                              *)

\* resolver: a move off the board or into a barrier does not happen.
Resolved(cell, move, barriers) ==
  IF Toward(cell, move) \in Cell \ barriers THEN Toward(cell, move) ELSE cell

\* GameEpisode.step; an episode that is over returns its last result.
Stepped(e, copMove, thiefMove, barriers, limit) ==
  IF e.over THEN e
  ELSE LET cop == Resolved(e.cop, copMove, barriers)
           thief == Resolved(e.thief, thiefMove, barriers)
           captured == cop = thief \/ (cop = e.thief /\ thief = e.cop)
       IN  [cop |-> cop, thief |-> thief, count |-> e.count + 1, captured |-> captured,
            over |-> captured \/ e.count + 1 >= limit]

\* build_observation: what a peer says of its board before the match, the
\* scoring and the axes left out; 0 is a limit it does not state.
Observation(p) ==
  [barrierCount |-> Cardinality(boards[p]),
   maxMoves |-> IF p = "thief" /\ silent THEN 0 ELSE limits[p]]

\* verify_board_agreement: barriers are compared by number, rules when stated.
SameBoard ==
  \A p \in Peers :
    /\ Observation(p).barrierCount = Cardinality(boards["police"])
    /\ Observation(p).maxMoves \in {0, limits["police"]}

Agree ==
  /\ pc = "agree"
  /\ pc' = IF SameBoard THEN "play" ELSE "refused"
  /\ UNCHANGED <<contracts, engines, history, log, resultFile, edits, resealed>>

\* Seeded bug: the comparison leaves is_terminated out.
DivergesMutant(results) ==
  \E p \in Peers : [results[p] EXCEPT !.over = FALSE] # [results["police"] EXCEPT !.over = FALSE]

\* divergence: turn_count, both positions, captured and is_terminated.
Diverges(results) == \E p \in Peers : results[p] # results["police"]

\* commit: what a digest binds a move to.
Commit(state, move) == <<state, move>>

\* identity.sign and identity.verify_signature.
Sign(p, turn, digest) == <<p, turn, digest>>
VerifySignature(p, turn, digest, signature) == signature = <<p, turn, digest>>

\* PeerClient.prepare: the digest binds the turn and both positions, the
\* signature the role, the turn and the digest.
Submission(p, move) ==
  LET e == engines["police"]
      own == IF p = "police" THEN e.cop ELSE e.thief
      other == IF p = "police" THEN e.thief ELSE e.cop
      state == <<Len(history), own, other>>
      digest == Commit(state, move)
  IN  [state |-> state, move |-> move, digest |-> digest,
       signature |-> Sign(p, Len(history), digest)]

\* One turn of play_match: it is recorded only if the engines agree.
Turn ==
  /\ wire = "native" /\ pc = "play"
  /\ \E copMove, thiefMove \in Moves :
       LET results == [p \in Peers |-> Stepped(engines[p], copMove, thiefMove, boards[p], limits[p])]
           entry == [turn |-> Len(history),
                     submissions |-> [p \in Peers |->
                       Submission(p, IF p = "police" THEN copMove ELSE thiefMove)],
                     result |-> results["police"]]
       IN  /\ engines' = results
           /\ IF Diverges(results)
              THEN pc' = "split" /\ UNCHANGED history
              ELSE /\ pc' = IF results["police"].over THEN "done" ELSE "play"
                   /\ history' = Append(history, entry)
  /\ UNCHANGED <<contracts, log, resultFile, edits, resealed>>

\* TurnClient.seal: the payload and its digest are kept for the audit.
SealRecord(payload) == [payload |-> payload, commit |-> payload]

\* Side.walk and seal: the record names the cell reached and the move chosen.
Walk ==
  /\ wire = "v3" /\ pc = "play"
  /\ \E move \in Moves :
       LET cell == Resolved(engines["police"].cop, move, boards["police"])
           payload == <<Len(history) + 1, cell, move>>
       IN  /\ engines' = [engines EXCEPT !["police"].cop = cell]
           /\ history' = Append(history, SealRecord(payload))
  /\ pc' \in (IF Len(history') = MaxMoves THEN {"done"} ELSE {"play", "done"})
  /\ UNCHANGED <<contracts, log, resultFile, edits, resealed>>

\* match_payloads.build_log: the file records the root contract's board.
BuildLog == [barriers |-> boards["root"], turns |-> history, claimed |-> Len(history)]

\* match_payloads.build_result: the last entry, and how many there were.
BuildMatchResult == [turns |-> Len(history), final |-> history[Len(history)].result]

\* reference_artifacts.build_log: our record of every step, the cells of the
\* board played, and the steps claimed.  Their half of a turn is left out,
\* no verifier reads it.
BuildWalkLog ==
  [barriers |-> boards["police"],
   turns |-> [i \in DOMAIN history |->
     [step |-> history[i].payload[1], payload |-> history[i].payload,
      commit |-> history[i].commit]],
   claimed |-> Len(history)]

\* write_artifacts, and the log half of its reference-v3 twin.
Write ==
  /\ pc = "done"
  /\ pc' = "written"
  /\ IF wire = "native" THEN log' = BuildLog /\ resultFile' = BuildMatchResult
                        ELSE log' = BuildWalkLog /\ UNCHANGED resultFile
  /\ UNCHANGED <<contracts, engines, history, edits, resealed>>
---------------------------------------------------------------------------
(* Edits to the file, by somebody without a key.                           *)

Swapped(turns, i) == [turns EXCEPT ![i] = turns[i + 1], ![i + 1] = turns[i]]

\* Edits both dialects suffer.
Reordered(turns) ==
  {SubSeq(turns, 1, n) : n \in 0..Len(turns) - 1}
    \cup {Swapped(turns, i) : i \in 1..Len(turns) - 1}
    \cup {Append(turns, turns[i]) : i \in DOMAIN turns}

EditNative ==
  /\ wire = "native"
  /\ UNCHANGED resealed
  /\ \/ \E b \in Layouts : log' = [log EXCEPT !.barriers = b]
     \/ \E t \in Reordered(log.turns) : log' = [log EXCEPT !.turns = t]
     \/ log' = [log EXCEPT !.turns = [i \in DOMAIN @ |-> [@[i] EXCEPT !.turn = i - 1]]]
     \/ \E i \in DOMAIN log.turns :
          \/ \E p \in Peers, move \in Moves :
               log' = [log EXCEPT !.turns[i].submissions[p].move = move]
          \/ \E p \in Peers :    \* the digest made to fit the reveal
               log' = [log EXCEPT !.turns[i].submissions[p].digest =
                         Commit(log.turns[i].submissions[p].state,
                                log.turns[i].submissions[p].move)]
          \/ log' = [log EXCEPT !.turns[i].submissions =
                       [police |-> @["thief"], thief |-> @["police"]]]
          \/ \E c \in Cell : log' = [log EXCEPT !.turns[i].result.cop = c]
          \/ log' = [log EXCEPT !.turns[i].result.captured = ~@]
          \/ log' = [log EXCEPT !.turns[i].result.count = @ + 1]

EditWalk ==
  /\ wire = "v3"
  /\ \/ \E t \in Reordered(log.turns) : log' = [log EXCEPT !.turns = t] /\ UNCHANGED resealed
     \/ /\ log' = [log EXCEPT !.turns = [i \in DOMAIN @ |-> [@[i] EXCEPT !.step = i]]]
        /\ UNCHANGED resealed
     \/ log' = [log EXCEPT !.claimed = Len(log.turns)] /\ UNCHANGED resealed
     \/ \E i \in DOMAIN log.turns :
          \/ \E c \in Cell, move \in Moves :
               /\ log' = [log EXCEPT !.turns[i].payload = <<@[1], c, move>>]
               /\ UNCHANGED resealed
          \/ /\ log' = [log EXCEPT !.turns[i].commit = log.turns[i].payload]
             /\ resealed' = TRUE

Edit ==
  /\ pc = "written" /\ edits < MaxEdits
  /\ edits' = edits + 1
  /\ EditNative \/ EditWalk
  /\ UNCHANGED <<contracts, pc, engines, history, resultFile>>

ReplayNext == Agree \/ Turn \/ Walk \/ Write \/ Edit

ReplaySpec == ReplayInit /\ [][ReplayNext]_replayVars
---------------------------------------------------------------------------
(* verify_log, the native verifier.                                        *)

\* check_structure: of its refusals only the empty log can arise here.
CheckStructure == log.turns # <<>>

CheckTurnIndices == \A i \in DOMAIN log.turns : log.turns[i].turn = i - 1

CheckCommitments ==
  \A i \in DOMAIN log.turns : \A p \in Peers :
    LET s == log.turns[i].submissions[p] IN s.digest = Commit(s.state, s.move)

\* Against the turn the entry names, not the place it stands in.
CheckSignatures ==
  \A i \in DOMAIN log.turns : \A p \in Peers :
    LET s == log.turns[i].submissions[p]
    IN  VerifySignature(p, log.turns[i].turn, s.digest, s.signature)

\* The episode after each turn of the log, on the board the log records.
Replayed[i \in 0..Len(log.turns)] ==
  IF i = 0 THEN Episode
  ELSE Stepped(Replayed[i - 1], log.turns[i].submissions["police"].move,
               log.turns[i].submissions["thief"].move, log.barriers, limits["police"])

\* Seeded bug: only the final state is compared.
CheckReplayMutant ==
  LET n == Len(log.turns) IN
    /\ \A key \in {"cop", "thief", "captured", "count"} :
         log.turns[n].result[key] = Replayed[n][key]
    /\ Replayed[n].count = n

\* check_replay: every recorded result, and as many turns as were played.
CheckReplay ==
  /\ \A i \in DOMAIN log.turns : \A key \in {"cop", "thief", "captured", "count"} :
       log.turns[i].result[key] = Replayed[i][key]
  /\ Replayed[Len(log.turns)].count = Len(log.turns)

VerifyLog ==
  /\ CheckStructure
  /\ CheckTurnIndices /\ CheckCommitments /\ CheckSignatures /\ CheckReplay

\* turn_checks: the badges a rendered turn carries.
TurnChecks(turn) ==
  [p \in Peers |->
    LET s == turn.submissions[p]
    IN  [commitment |-> s.digest = Commit(s.state, s.move),
         signature |-> VerifySignature(p, turn.turn, s.digest, s.signature)]]

\* replay_frames: one drawn board for every turn of the log.
Frames ==
  [i \in DOMAIN log.turns |->
    [turn |-> log.turns[i].turn, checks |-> TurnChecks(log.turns[i]),
     cop |-> Replayed[i].cop, thief |-> Replayed[i].thief,
     captured |-> Replayed[i].captured, barriers |-> log.barriers]]
---------------------------------------------------------------------------
(* reference_replay.verify.                                                *)

Contiguity == \A i \in DOMAIN log.turns : log.turns[i].step = i

Seal == \A i \in DOMAIN log.turns : log.turns[i].commit = log.turns[i].payload

\* The first sealed cell has nothing to be reached from.
Reachable ==
  \A i \in DOMAIN log.turns :
    LET now == log.turns[i].payload IN
      /\ now[2] \in Cell
      /\ i > 1 => Toward(log.turns[i - 1].payload[2], now[3]) = now[2]

VerifyWalk ==
  /\ log.turns # <<>>
  /\ Contiguity /\ Seal /\ Reachable
  /\ log.claimed = Len(log.turns)

\* replay_match.main: the dialect the file states chooses the verifier.
Verified == IF wire = "native" THEN VerifyLog ELSE VerifyWalk
---------------------------------------------------------------------------
(* Properties.                                                             *)

\* A walk in which some later move was blocked.
Bumped ==
  \E i \in 2..Len(history) :
    Toward(history[i - 1].payload[2], history[i].payload[3]) # history[i].payload[2]

\* A log nobody touched is never called tampered: a match both engines
\* played to its end on the board the file records, or a walk that never
\* bumped (log_checks.py:103-127, reference_replay.py:126-141).
HonestVerifies ==
  (pc = "written" /\ edits = 0) =>
    IF wire = "native"
    THEN /\ engines["police"] = engines["thief"] /\ engines["police"].over
         /\ boards["root"] = boards["police"] => Verified
    ELSE Verified <=> ~Bumped

\* Whatever was done to a file that still verifies: every submission of a
\* native log is one of the match, in its place, from the first on, and so
\* is every result if the board is still the one played; every record of a
\* walk nobody sealed again was sealed (replay_match.py:70-87).  Results and
\* board carry no signature: changed together they may still fit.  A picture
\* of such a log carries no red badge (render_replay.py:77) and never shows
\* another turn than the log has, and the result file, which no verifier
\* reads, tells what the whole log replays to on the board it was played on.
VerifiedIsPlayed ==
  (pc = "written" /\ Verified) =>
    IF wire = "native"
    THEN \A i \in DOMAIN log.turns :
           /\ i <= Len(history)
           /\ log.turns[i].submissions = history[i].submissions
           /\ log.barriers = boards["police"] =>
                \A key \in {"cop", "thief", "captured", "count"} :
                  log.turns[i].result[key] = history[i].result[key]
           /\ \A key \in {"cop", "thief", "captured"} :
                Frames[i][key] = log.turns[i].result[key]
           /\ \A p \in Peers : Frames[i].checks[p].commitment /\ Frames[i].checks[p].signature
           /\ i = resultFile.turns /\ log.barriers = boards["police"] => Replayed[i] = resultFile.final
    ELSE ~resealed => \A i \in DOMAIN log.turns :
           log.turns[i].payload \in {history[j].payload : j \in DOMAIN history}
=============================================================================
