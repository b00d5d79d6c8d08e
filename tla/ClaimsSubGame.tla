---------------------------- MODULE ClaimsSubGame ----------------------------
(***************************************************************************)
(* One sub-game of reference-v3 between two groups.  A turn carries a      *)
(* digest, never a move: each side walks its own piece unseen, the police  *)
(* claims the cell it stands on, the thief answers one turn later, and the *)
(* sealed chains are disclosed at the end.                                 *)
(*                                                                         *)
(* A driver's push and the receiver's handler are one step: what the       *)
(* driver does next reads only its own side, until it polls its inbox.     *)
(* Hints, smell and timestamps decide nothing here; a digest is the record *)
(* it seals.                                                               *)
(***************************************************************************)
EXTENDS Grid, Sequences

CONSTANTS
  CopStart, ThiefStart,
  MaxRepush,    \* bound: repeated pushes of one turn
  Scenes,       \* the contracts, opponents and networks of a run
  None

Peer == {"police", "thief"}
Other(p) == IF p = "police" THEN "thief" ELSE "police"

ASSUME ClaimsAssumption ==
  /\ GridSize \in Nat /\ CopStart # ThiefStart
  /\ MaxRepush \in Nat
  /\ None \notin Cell /\ None \notin [claim : Cell, caught : BOOLEAN]
  /\ None \notin [step : Nat, position : Cell]
  /\ \A s \in Scenes :
       /\ CopStart \in Cell \ s.walls /\ ThiefStart \in Cell \ s.walls
       /\ s.steps \in Nat \ {0} /\ s.placements \subseteq Cell
       /\ s.rewriters \subseteq Peer /\ s.stalls \in BOOLEAN
       /\ s.dials \subseteq [Peer -> Peer]

VARIABLES
  scene,
  dial,          \* the server a peer's pushes reach
  inbox,         \* app.inbox: the turns each server accepted
  audits,        \* app.audits: the chains disclosed to each server
  position,      \* Side.position
  placed,        \* Side._barriers: barriers the opponent placed
  answer,        \* Side._answer: the claim response owed
  caught,        \* Side.caught
  capturedThem,  \* Side.captured_them
  pc, step,
  chain,         \* TurnClient._records: what was sealed at each step
  sent,          \* the turn to repeat while they stay silent
  repushes,
  outcome,       \* result_claim
  verdict,       \* their_audit_response
  harvest        \* their_disclosed_audits

side == <<position, placed, answer, caught, capturedThem>>
server == <<inbox, audits>>
driver == <<pc, step, chain, sent, repushes, outcome, verdict, harvest>>
setting == <<scene, dial>>
vars == <<setting, server, side, driver>>

Walls == scene.walls            \* the layout both peers derive
MaxSteps == scene.steps         \* config.max_moves
Placements == scene.placements  \* where the opposing group's cop puts barriers
Rewriters == scene.rewriters    \* who may disclose a chain it did not seal
Stalls == scene.stalls          \* may a wait run out, or a process go away?
Dials == scene.dials            \* whose server an --opponent-url may reach

Init ==
  /\ scene \in Scenes /\ dial \in Dials
  /\ inbox = [p \in Peer |-> <<>>] /\ audits = [p \in Peer |-> <<>>]
  /\ position = [police |-> CopStart, thief |-> ThiefStart]
  /\ placed = [p \in Peer |-> {}]
  /\ answer = [p \in Peer |-> None]
  /\ caught = [p \in Peer |-> FALSE] /\ capturedThem = [p \in Peer |-> FALSE]
  /\ pc = [p \in Peer |-> "play"] /\ step = [p \in Peer |-> 1]
  /\ chain = [p \in Peer |-> <<>>] /\ sent = [p \in Peer |-> None]
  /\ repushes = [p \in Peer |-> 0]
  /\ outcome = [p \in Peer |-> None] /\ verdict = [p \in Peer |-> None]
  /\ harvest = [p \in Peer |-> <<>>]

-----------------------------------------------------------------------------
(* Playing: walk, seal, push.                                              *)

\* Seeded bug: the opponent's barriers do not block.
WalkThrough(p, move) ==
  IF Toward(position[p], move) \in Cell \ Walls
  THEN Toward(position[p], move)
  ELSE position[p]

Walk(p, move) ==
  IF Toward(position[p], move) \in Cell \ (Walls \cup placed[p])
  THEN Toward(position[p], move)
  ELSE position[p]

Seal(n, cell) == [step |-> n, position |-> cell]

Goto(p, label) == pc' = [pc EXCEPT ![p] = label]

\* The end of play_sub_game's loop.
Finish(p, result) ==
  /\ outcome' = [outcome EXCEPT ![p] = [outcome |-> result, steps |-> step[p]]]
  /\ Goto(p, "audit")

Claim(p, cell) == IF p = "police" THEN cell ELSE None

Answered(p) == answer[p]

\* build_turn: what the message carries; an absent option is None.
BuildTurn(p, n, cell, claim, response, barrier) ==
  [step |-> n, sender |-> p, commit |-> Seal(n, cell),
   claim |-> claim, response |-> response, barrier |-> barrier]

Push(p, message) ==
  inbox' = [inbox EXCEPT ![dial[p]] = Append(@, message)]

Play(p) ==
  /\ pc[p] = "play"
  /\ \E move \in Action,
        barrier \in IF p = "police" THEN Placements \cup {None} ELSE {None} :
       LET cell == Walk(p, move)
           message == BuildTurn(p, step[p], cell, Claim(p, cell), Answered(p), barrier)
       IN  /\ position' = [position EXCEPT ![p] = cell]
           /\ chain' = [chain EXCEPT ![p] = Append(@, Seal(step[p], cell))]
           /\ sent' = [sent EXCEPT ![p] = message]
           /\ Push(p, message)
  /\ answer' = [answer EXCEPT ![p] = None]
  /\ repushes' = [repushes EXCEPT ![p] = 0]
  /\ IF caught[p]
     THEN Finish(p, "capture")
     ELSE Goto(p, "await") /\ UNCHANGED outcome
  /\ UNCHANGED <<setting, audits, placed, caught, capturedThem, step, verdict, harvest>>

-----------------------------------------------------------------------------
(* Waiting for their turn of this step, and reading it.                    *)

\* Seeded bug: the sender is not looked at.
OursMutant(p, turn) == FALSE

Ours(p, turn) == turn.sender = p

\* Seeded bug: a turn of any step.
MatchesAnyStep(p) == DOMAIN inbox[p]

\* await_turn scans for the first of either; its own turn is an error.
Matches(p) ==
  {i \in DOMAIN inbox[p] : Ours(p, inbox[p][i]) \/ inbox[p][i].step = step[p]}

First(indices) == CHOOSE i \in indices : \A j \in indices : i <= j
Latest(indices) == CHOOSE i \in indices : \A j \in indices : j <= i

Repush(p) ==
  /\ pc[p] = "await" /\ Matches(p) = {} /\ repushes[p] < MaxRepush
  /\ repushes' = [repushes EXCEPT ![p] = @ + 1]
  /\ Push(p, sent[p])
  /\ UNCHANGED <<setting, audits, side, pc, step, chain, sent, outcome, verdict, harvest>>

\* BarrierRecord.captures: rule 46, or rule 47.
Captured(cell, barriers) ==
  cell \in barriers \/ Neighbours(cell) \cap Cell \subseteq barriers \cup Walls

\* Side.read: a claim is answered last, over any concession.
Answer(p, turn, conceded) ==
  IF turn.claim # None /\ p = "thief"
  THEN [claim |-> turn.claim, caught |-> turn.claim = position[p]]
  ELSE IF conceded THEN [claim |-> position[p], caught |-> TRUE]
  ELSE answer[p]

\* Seeded bug: an answer is read as a capture whatever it says.
ConfirmsMutant(p, turn) == p = "police" /\ turn.response # None

Confirms(p, turn) == p = "police" /\ turn.response # None /\ turn.response.caught

Read(p) ==
  /\ pc[p] = "await" /\ Matches(p) # {}
  /\ LET turn == inbox[p][First(Matches(p))]
         barriers == placed[p] \cup ({turn.barrier} \ {None})
         conceded == turn.barrier # None /\ Captured(position[p], barriers)
         isCaught == \/ caught[p] \/ conceded
                     \/ p = "thief" /\ turn.claim = position[p]
     IN  IF Ours(p, turn)
         THEN Goto(p, "failed") /\ UNCHANGED <<side, step, outcome>>
         ELSE /\ placed' = [placed EXCEPT ![p] = barriers]
              /\ answer' = [answer EXCEPT ![p] = Answer(p, turn, conceded)]
              /\ caught' = [caught EXCEPT ![p] = isCaught]
              /\ capturedThem' = [capturedThem EXCEPT ![p] = @ \/ Confirms(p, turn)]
              /\ UNCHANGED position
              /\ \/ /\ capturedThem'[p]
                    /\ Finish(p, "capture") /\ UNCHANGED step
                 \/ /\ ~capturedThem'[p] /\ step[p] = MaxSteps
                    /\ Finish(p, IF isCaught THEN "capture" ELSE "survival")
                    /\ UNCHANGED step
                 \/ /\ ~capturedThem'[p] /\ step[p] < MaxSteps
                    /\ step' = [step EXCEPT ![p] = @ + 1]
                    /\ Goto(p, "play") /\ UNCHANGED outcome
  /\ UNCHANGED <<setting, server, chain, sent, repushes, verdict, harvest>>

-----------------------------------------------------------------------------
(* The audit.                                                              *)

\* audit_check.pushed_commit: the last digest pushed at that step.
At(q, n) == {i \in DOMAIN inbox[q] : inbox[q][i].step = n}

PushedCommit(q, n) ==
  IF At(q, n) = {} THEN None ELSE inbox[q][Latest(At(q, n))].commit

\* Seeded bug: the seals are re-hashed but never compared with the inbox.
TamperedMutant(q, records) == FALSE

Tampered(q, records) ==
  \E i \in DOMAIN records :
    PushedCommit(q, records[i].step) \notin {None, records[i]}

Disclosures(p) ==
  {chain[p]} \cup
    IF p \in Rewriters
    THEN {[chain[p] EXCEPT ![n] = Seal(n, cell)] : n \in DOMAIN chain[p], cell \in Cell}
    ELSE {}

\* TurnClient.audit, and submit_audit at the server it reaches.
Audit(p) ==
  /\ pc[p] = "audit"
  /\ \E records \in Disclosures(p) :
       LET q == dial[p]
           ruling == IF Tampered(q, records) THEN "tampered" ELSE "accepted"
       IN  /\ audits' = [audits EXCEPT ![q] = Append(@,
                [sender |-> p, records |-> records,
                 claim |-> outcome[p].outcome, verdict |-> ruling])]
           /\ verdict' = [verdict EXCEPT ![p] = ruling]
  /\ Goto(p, "closing")
  /\ UNCHANGED <<setting, inbox, side, step, chain, sent, repushes, outcome, harvest>>

\* Their process has exited: play_sub_game keeps the sub-game without a verdict.
Unreachable(p) ==
  /\ Stalls /\ pc[p] = "audit" /\ pc[dial[p]] \in {"closed", "failed"}
  /\ verdict' = [verdict EXCEPT ![p] = "unreachable"]
  /\ Goto(p, "closing")
  /\ UNCHANGED <<setting, server, side, step, chain, sent, repushes, outcome, harvest>>

\* The driver gets the reply: play_series takes what has been disclosed so far.
Close(p) ==
  /\ pc[p] = "closing"
  /\ harvest' = [harvest EXCEPT ![p] = audits[p]]
  /\ Goto(p, "closed")
  /\ UNCHANGED <<setting, server, side, step, chain, sent, repushes, outcome, verdict>>

-----------------------------------------------------------------------------
(* A push fails, or the poll budget runs out: play_sub_game raises.        *)

Ended == {"closed", "failed"}

\* Seeded bug: a peer that has pushed before is waited for without end.
GiveUpMutant(p) ==
  /\ Stalls /\ pc[p] = "await" /\ inbox[p] = <<>>
  /\ Goto(p, "failed")
  /\ UNCHANGED <<setting, server, side, step, chain, sent, repushes, outcome, verdict, harvest>>

GiveUp(p) ==
  /\ Stalls /\ pc[p] = "await" /\ Matches(p) = {}
  /\ Goto(p, "failed")
  /\ UNCHANGED <<setting, server, side, step, chain, sent, repushes, outcome, verdict, harvest>>

PushFails(p) ==
  /\ Stalls /\ pc[p] = "play"
  /\ Goto(p, "failed")
  /\ UNCHANGED <<setting, server, side, step, chain, sent, repushes, outcome, verdict, harvest>>

DriverStep(p) == Play(p) \/ Read(p) \/ Audit(p) \/ Close(p)

Next ==
  \E p \in Peer :
    DriverStep(p) \/ Repush(p) \/ Unreachable(p) \/ GiveUp(p) \/ PushFails(p)

Spec == Init /\ [][Next]_vars

(* Both processes are scheduled, and a poll budget does run out.           *)
FairSpec == Spec /\ \A p \in Peer : WF_vars(DriverStep(p)) /\ WF_vars(GiveUp(p))

-----------------------------------------------------------------------------

Sealed == [step : 1 .. MaxSteps, position : Cell \ Walls]
Response == [claim : Cell, caught : BOOLEAN]
Turn ==
  [step : 1 .. MaxSteps, sender : Peer, commit : Sealed, claim : Cell \cup {None},
   response : Response \cup {None}, barrier : Placements \cup {None}]
Disclosed ==
  [sender : Peer, records : Seq([step : 1 .. MaxSteps, position : Cell]),
   claim : {"capture", "survival"}, verdict : {"accepted", "tampered"}]

TypeOK ==
  /\ scene \in Scenes /\ dial \in Dials
  /\ inbox \in [Peer -> Seq(Turn)] /\ audits \in [Peer -> Seq(Disclosed)]
  /\ position \in [Peer -> Cell \ Walls]
  /\ placed \in [Peer -> SUBSET Cell]
  /\ answer \in [Peer -> Response \cup {None}]
  /\ caught \in [Peer -> BOOLEAN] /\ capturedThem \in [Peer -> BOOLEAN]
  /\ pc \in [Peer -> {"play", "await", "audit", "closing"} \cup Ended]
  /\ step \in [Peer -> 1 .. MaxSteps]
  /\ chain \in [Peer -> Seq(Sealed)] /\ sent \in [Peer -> Turn \cup {None}]
  /\ repushes \in [Peer -> 0 .. MaxRepush]
  /\ outcome \in [Peer -> [outcome : {"capture", "survival"}, steps : 1 .. MaxSteps]
                             \cup {None}]
  /\ verdict \in [Peer -> {None, "accepted", "tampered", "unreachable"}]
  /\ harvest \in [Peer -> Seq(Disclosed)]

MetAt(n) ==
  /\ \A p \in Peer : n \in DOMAIN chain[p]
  /\ chain["police"][n].position = chain["thief"][n].position

(* Unless barriers are placed, when the police learns it has captured, the *)
(* two sealed chains show the agents on one cell at one step; and a meeting*)
(* ends the sub-game: neither side seals a second step after it.           *)
CaptureIsMeeting ==
  Placements = {} =>
    /\ capturedThem["police"] => \E n \in 1 .. MaxSteps : MetAt(n)
    /\ \A n \in 1 .. MaxSteps : MetAt(n) => \A p \in Peer : Len(chain[p]) <= n + 1

(* The two claims, outcome and number of steps, are the same, but where    *)
(* the agents meet on the last step of all, or a barrier captures.         *)
OutcomesAgreeBeforeLast ==
  Placements = {} /\ (\A p \in Peer : outcome[p] # None) =>
    outcome["police"] = outcome["thief"] \/ MetAt(MaxSteps)

(* Between peers that reach each other, a disclosed chain is accepted      *)
(* exactly if it is the chain that was sealed step by step during play.    *)
AuditsAreJust ==
  \A q \in Peer : dial[Other(q)] = q /\ dial[q] # q => \A i \in DOMAIN audits[q] :
    LET entry == audits[q][i]
    IN  entry.verdict = "accepted" <=> entry.records = chain[entry.sender]

(* A caught side that stops has just told its opponent so.                 *)
CaughtIsAnswered ==
  [][\A p \in Peer :
       pc[p] = "play" /\ pc'[p] = "audit" =>
         sent'[p].response # None /\ sent'[p].response.caught]_vars

(* A peer whose opponent-url is its own tunnel never plays a sub-game out  *)
(* against its own turns: it closes one only if a real claim ended it, or  *)
(* the one turn it had to hear was over before its own came back.          *)
MirrorNeverCloses ==
  MaxSteps > 1 => \A p \in Peer : dial[p] = p /\ pc[p] = "closed" => caught[p]

(* Every piece is on the board and off its walls, and the opponent's       *)
(* barriers bind a piece that cannot see them coming: it neither stands in *)
(* one nor lives on boxed in, unless it counts as caught.                  *)
BarriersBite ==
  /\ TypeOK
  /\ \A p \in Peer : placed[p] # {} /\ Captured(position[p], placed[p]) => caught[p]

(* Without stalls, both sides play the sub-game to its audit; with stalls, *)
(* and a dial that may be wrong, nobody waits for ever.                    *)
EverybodyEnds ==
  \A p \in Peer : <>(pc[p] \in (IF Stalls THEN Ended ELSE {"closed"}))
=============================================================================
