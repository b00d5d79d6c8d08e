----------------------------- MODULE PushSeries -----------------------------
(***************************************************************************)
(* A series on the push dialect.  Each group pushes its digest and then    *)
(* its move, at once, into the store of the rival's peer for the opposite  *)
(* role, and steps its own engine when the rival's two messages of the     *)
(* step have landed in its own.  No message names a sub-game, carries a    *)
(* nonce or is repeated; the sealed records go to an audit at the end.     *)
(*                                                                         *)
(* A digest is the move it seals.  game fields and ruled are history: what *)
(* the properties need to tell sub-games and honest chains apart.          *)
(***************************************************************************)
EXTENDS MatchState, SequencesExt

CONSTANTS
  SubGames,     \* sub-games of the series
  MaxSteps,     \* max_steps: moves by each side in a sub-game
  BadMove,      \* a move word decode refuses, though validate_reveal takes it
  Liars,        \* groups that may reveal another move than they sealed
  Tools         \* the audit tools the groups disclose to

ASSUME PushAssumption ==
  /\ SubGames \in Nat \ {0} /\ MaxSteps \in Nat \ {0}
  /\ BadMove \notin Token \cup {None}
  /\ None \notin [game : Nat, move : Token \cup {BadMove}]
  /\ Tools \subseteq {"submit_audit", "receive_final_audit"}

Group == {"A", "B"}
Rival(g) == IF g = "A" THEN "B" ELSE "A"

\* _OPPONENT, in the engine's vocabulary.
Opponent(role) == IF role = "cop" THEN "thief" ELSE "cop"

\* role_schedule
RoleIn(g, k) == IF (k % 2 = 1) = (g = "A") THEN "cop" ELSE "thief"

VARIABLES
  store,     \* app.push of each group's two peers
  match,     \* app.match_state of the peer that plays
  game, pc, step,
  move,      \* the move of this step, as sealed and then as revealed
  chain,     \* PushClient._buffered
  shown,     \* what it revealed, step by step
  spoiled,   \* history: did decode refuse a revealed move?
  dropped,   \* history: did a reset delete a message of its own sub-game?
  ruled      \* history: the last audit, and whether it told the truth

driver == <<match, game, pc, step, move, chain, shown>>
history == <<spoiled, dropped, ruled>>
vars == <<store, driver, history>>

Mine(g) == RoleIn(g, game[g])
MyStore(g) == store[g][Mine(g)]
TheirStore(g) == store[Rival(g)][Opponent(Mine(g))]

NotRuled == [tool |-> "none", verdict |-> "none", sealed |-> TRUE, kept |-> TRUE]

EmptyStore == [commits |-> [n \in 1 .. MaxSteps |-> None],
               reveals |-> [n \in 1 .. MaxSteps |-> None]]

Init ==
  /\ store = [g \in Group |-> [r \in EngineRole |-> EmptyStore]]
  /\ match = [g \in Group |-> NewMatch]
  /\ game = [g \in Group |-> 1] /\ step = [g \in Group |-> 1]
  /\ pc = [g \in Group |-> "open"] /\ move = [g \in Group |-> None]
  /\ chain = [g \in Group |-> <<>>] /\ shown = [g \in Group |-> <<>>]
  /\ spoiled = FALSE /\ dropped = FALSE /\ ruled = NotRuled

Goto(g, label) == pc' = [pc EXCEPT ![g] = label]

-----------------------------------------------------------------------------

\* Seeded bugs: the inbox, or only its reveals, survive the boundary; the
\* board does.
KeepStore(g) ==
  match' = [match EXCEPT ![g] = ResetMatch(@)] /\ UNCHANGED store
KeepBoard(g) ==
  store' = [store EXCEPT ![g][Mine(g)] = EmptyStore] /\ UNCHANGED match

\* push_runner._reset, on the peer that plays the next sub-game.
Reset(g) ==
  /\ match' = [match EXCEPT ![g] = ResetMatch(@)]
  /\ store' = [store EXCEPT ![g][Mine(g)] = EmptyStore]

\* The top of play_series' loop, with a PushClient of its own.
Open(g) ==
  /\ pc[g] = "open"
  /\ Reset(g)
  /\ dropped' = (dropped \/ \E n \in 1 .. MaxSteps :
                   MyStore(g).commits[n] # None /\ MyStore(g).commits[n].game = game[g])
  /\ step' = [step EXCEPT ![g] = 1]
  /\ Goto(g, "commit")
  /\ UNCHANGED <<game, move, chain, shown, spoiled, ruled>>

\* Seeded bug: pushed to the rival's peer of our own role.
DeliverMutant(g, box, word) ==
  store' = [store EXCEPT ![Rival(g)][Mine(g)][box][step[g]] =
              [game |-> game[g], move |-> word]]

Deliver(g, box, word) ==
  store' = [store EXCEPT ![Rival(g)][Opponent(Mine(g))][box][step[g]] =
              [game |-> game[g], move |-> word]]

\* PushClient.commit, and receive_commit at the other end.
Commit(g) ==
  /\ pc[g] = "commit"
  /\ \E word \in Token :
       /\ move' = [move EXCEPT ![g] = word]
       /\ chain' = [chain EXCEPT ![g] = Append(@, word)]
       /\ Deliver(g, "commits", word)
  /\ Goto(g, "reveal")
  /\ UNCHANGED <<match, game, step, shown, history>>

Revealable(g) == IF g \in Liars THEN Token \cup {BadMove} ELSE {move[g]}

\* PushClient.reveal, and receive_reveal at the other end.  It does not wait
\* for the rival's digest, and nothing checks it against one's own.
Reveal(g) ==
  /\ pc[g] = "reveal"
  /\ \E word \in Revealable(g) :
       /\ move' = [move EXCEPT ![g] = IF word \in Token THEN word ELSE @]
       /\ shown' = [shown EXCEPT ![g] = Append(@, word)]
       /\ Deliver(g, "reveals", word)
  /\ Goto(g, "await")
  /\ UNCHANGED <<match, game, step, chain, history>>

\* _await_step
Landed(g) == /\ MyStore(g).commits[step[g]] # None
             /\ MyStore(g).reveals[step[g]] # None

\* directions.decode: a word outside the alphabet raises, in advance and not
\* in validate_reveal, which asks for a nonempty string only.
Decodes(word) == word \in Token

\* advance: both moves into our engine, ours first.
Advance(g) ==
  /\ pc[g] = "await" /\ Landed(g)
  /\ \E half \in {Submitted(match[g], Mine(g), move[g])} :
       LET theirs == MyStore(g).reveals[step[g]].move
       IN  IF Decodes(theirs)
           THEN /\ match' = [match EXCEPT ![g] =
                               Submitted(half, Opponent(Mine(g)), theirs)]
                /\ IF IsTerminated(match'[g]) \/ step[g] = MaxSteps
                   THEN Goto(g, "audit") /\ UNCHANGED step
                   ELSE Goto(g, "commit") /\ step' = [step EXCEPT ![g] = @ + 1]
                /\ UNCHANGED spoiled
           ELSE /\ match' = [match EXCEPT ![g] = half]
                /\ spoiled' = TRUE
                /\ Goto(g, "failed") /\ UNCHANGED step
  /\ UNCHANGED <<store, game, move, chain, shown, dropped, ruled>>

-----------------------------------------------------------------------------
(* The audit.  A disclosed record is the move of its payload and the move  *)
(* its digest seals.                                                       *)

Resealed(words) == [n \in DOMAIN words |-> [payload |-> words[n], commit |-> words[n]]]

\* A liar discloses what it revealed, sealed anew or under the old digests.
Disclosures(g) ==
  {Resealed(chain[g])} \cup
    IF g \in Liars
    THEN {Resealed(shown[g]),
          [n \in DOMAIN chain[g] |-> [payload |-> shown[g][n], commit |-> chain[g][n]]]}
    ELSE {}

\* submit_audit: verify_records against app.inbox, which receive_turn fills
\* and no message of this dialect reaches.
SubmitAudit(records) ==
  IF \E n \in DOMAIN records : records[n].payload # records[n].commit
  THEN "tampered" ELSE "accepted"

\* Seeded bug: an entry without evidence is not counted.
AuditNoncesMutant(commits, records) ==
  IF \E n \in DOMAIN records : commits[n] = None THEN "unverifiable" ELSE "accepted"

\* audit_nonces: each payload against the digest pushed for its step.
AuditNonces(commits, records) ==
  IF \E n \in DOMAIN records :
       commits[n] # None /\ commits[n].move # records[n].payload
  THEN "tampered"
  ELSE IF \E n \in DOMAIN records : commits[n] = None
  THEN "unverifiable"
  ELSE "accepted"

Audit(g) ==
  /\ pc[g] = "audit"
  /\ \E tool \in Tools, records \in Disclosures(g) :
       ruled' = [tool |-> tool,
                 verdict |-> IF tool = "submit_audit" THEN SubmitAudit(records)
                             ELSE AuditNonces(TheirStore(g).commits, records),
                 sealed |-> \A n \in DOMAIN records : records[n].payload = chain[g][n],
                 kept |-> shown[g] = chain[g]]
  /\ move' = [move EXCEPT ![g] = None]
  /\ chain' = [chain EXCEPT ![g] = <<>>] /\ shown' = [shown EXCEPT ![g] = <<>>]
  /\ game' = [game EXCEPT ![g] = IF @ = SubGames THEN @ ELSE @ + 1]
  /\ Goto(g, IF game[g] = SubGames THEN "done" ELSE "open")
  /\ UNCHANGED <<store, match, step, spoiled, dropped>>

DriverStep(g) == Open(g) \/ Commit(g) \/ Reveal(g) \/ Advance(g) \/ Audit(g)

Next == \E g \in Group : DriverStep(g)

Spec == Init /\ [][Next]_vars

(* Some process runs while one can: nothing is repeated, so every step is  *)
(* one of finitely many and neither driver can starve the other.           *)
FairSpec == Spec /\ WF_vars(Next)

-----------------------------------------------------------------------------

Messages == [game : 1 .. SubGames, move : Token \cup {BadMove}] \cup {None}

TypeOK ==
  /\ store \in [Group -> [EngineRole ->
       [commits : [1 .. MaxSteps -> Messages], reveals : [1 .. MaxSteps -> Messages]]]]
  /\ match \in [Group -> MatchOf(EngineRole)]
  /\ game \in [Group -> 1 .. SubGames] /\ step \in [Group -> 1 .. MaxSteps]
  /\ pc \in [Group -> {"open", "commit", "reveal", "await", "audit", "done", "failed"}]
  /\ move \in [Group -> Token \cup {None}]
  /\ chain \in [Group -> Seq(Token)] /\ shown \in [Group -> Seq(Token \cup {BadMove})]

(* Two groups in one sub-game play the same pairs in the same order: what  *)
(* an earlier sub-game left in a store never stands in for a message of    *)
(* this one, although no message says which sub-game it belongs to.        *)
EnginesAgree ==
  game["A"] = game["B"] /\ (\A g \in Group : pc[g] # "open")
    => \/ IsPrefix(match["A"].played, match["B"].played)
       \/ IsPrefix(match["B"].played, match["A"].played)

(* PRD_09, FR8: exactly one engine step per turn.  Between two turns the   *)
(* engine has made as many steps as the driver, and holds half of none.    *)
OneStepPerTurn ==
  TypeOK /\ \A g \in Group :
    pc[g] \in {"commit", "reveal", "await"} =>
      TurnCount(match[g]) = step[g] - 1 /\ Filled(match[g]) = {}

(* A chain judged by receive_final_audit is accepted exactly if it is the  *)
(* chain the digests sealed: the digests are still there, whatever         *)
(* sub-game the judge has moved on to, unless a reset had deleted one.     *)
NoncesAreJudged ==
  ~dropped /\ ruled.tool = "receive_final_audit" =>
    ruled.verdict = (IF ruled.sealed THEN "accepted" ELSE "tampered")

AllDone == \A g \in Group : pc[g] = "done"

(* The series ends for both, unless a move could not be read or a reset    *)
(* deleted a message the rival had pushed early and will not repeat.       *)
OnlyResetsStall == <>(AllDone \/ dropped \/ spoiled)
=============================================================================
