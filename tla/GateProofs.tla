----------------------------- MODULE GateProofs -----------------------------
(***************************************************************************)
(* What Gate guarantees for every set of tokens, every timeout, every move *)
(* limit and every rule of capture.                                        *)
(***************************************************************************)
EXTENDS Gate, SequenceTheorems, TLAPS

-----------------------------------------------------------------------------
(* A turn at the action buffer.                                            *)

Ends(h) == Captures(h) \/ Len(h) >= MaxMoves

PairOf(r1, t1, t2) == [r \in EngineRole |-> IF r = r1 THEN t1 ELSE t2]

Played(m, pair) ==
  IF m.over
  THEN m
  ELSE [m EXCEPT !.played = Append(m.played, pair),
                 !.over = Ends(Append(m.played, pair))]

(* Two actions of different roles submitted to an idle buffer are one step *)
(* of the episode on the pair, and leave the buffer idle.                  *)
LEMMA TwoSubmissions ==
  ASSUME NEW roles, NEW m \in MatchOf(roles), m.slots = NoSlots, m.left = NoDeadline,
         NEW r1 \in EngineRole, NEW r2 \in EngineRole, r1 # r2,
         NEW t1 \in Token, NEW t2 \in Token
  PROVE  /\ SubmitStatus(m, r1, t1) = "waiting"
         /\ Submitted(Submitted(m, r1, t1), r2, t2) = Played(m, PairOf(r1, t1, t2))
<1> DEFINE one == [m EXCEPT !.slots = [NoSlots EXCEPT ![r1] = t1],
                            !.left = Timeout]
           two == [one EXCEPT !.slots = PairOf(r1, t1, t2)]
<1>1. Filled(m) = {} /\ ExpireIfStale(m) = m
  BY DEF Filled, ExpireIfStale, NoSlots, NoDeadline, Expired
<1>2. SubmitStatus(m, r1, t1) = "waiting"
  BY <1>1 DEF SubmitStatus, EngineRole
<1>3. Submitted(m, r1, t1) = one
  BY <1>1, <1>2 DEF Submitted, Accept, MatchOf
<1>4. one \in MatchOf(roles) /\ Filled(one) = {r1} /\ ExpireIfStale(one) = one
  <2>1. one.slots = [NoSlots EXCEPT ![r1] = t1] /\ one.left = Timeout
    BY DEF MatchOf
  <2>2. Filled(one) = {r1}
    BY <2>1, MatchAssumption DEF Filled, NoSlots
  <2>3. ExpireIfStale(one) = one
    BY <2>1, MatchAssumption DEF ExpireIfStale, Expired
  <2>4. one \in MatchOf(roles)
    <3>1. Timeout \in Deadline
      BY MatchAssumption DEF Deadline, NoDeadline
    <3>2. [NoSlots EXCEPT ![r1] = t1] \in [EngineRole -> Token \cup {None}]
      BY DEF NoSlots
    <3>3. QED
      BY <3>1, <3>2 DEF MatchOf
  <2>5. QED
    BY <2>2, <2>3, <2>4
<1>5. SubmitStatus(one, r2, t2) = "resolved"
  BY <1>4 DEF SubmitStatus, EngineRole
<1>6. Accept(one, r2, t2) = two
  <2>1. [one.slots EXCEPT ![r2] = t2] = PairOf(r1, t1, t2)
    BY <1>4 DEF MatchOf, PairOf, NoSlots, EngineRole
  <2>2. QED
    BY <2>1, <1>4 DEF Accept, MatchOf
<1>7. Submitted(one, r2, t2) = Cleared(Step(two))
  BY <1>4, <1>5, <1>6 DEF Submitted
<1>8. Cleared(Step(two)) = Played(m, PairOf(r1, t1, t2))
  BY DEF Cleared, Step, Played, Ends, MatchOf
<1>9. QED
  BY <1>2, <1>3, <1>7, <1>8

-----------------------------------------------------------------------------
(* The inductive invariant, in named parts.                                *)

(* Between two handlers the action buffer is empty: reveal_move fills both *)
(* slots and plays them in one step, or touches neither.                   *)
BufferIdle == match.slots = NoSlots /\ match.left = NoDeadline

(* The episode is over exactly when its history says so.                   *)
OverIsEnded == match.over <=> (match.played # <<>> /\ Ends(match.played))

(* The clock of a turn runs from its first commitment.                     *)
ClockFollowsBook == deadline = NoDeadline <=> Uncommitted = Peer

(* The inductive invariant.                                                *)
Inv ==
  /\ TypeOK
  /\ BufferIdle
  /\ OverIsEnded
  /\ ClockFollowsBook
  /\ NoRevealBeforeBoth
  /\ BookInStep
  /\ ToolsAgree
  /\ BlameFollowsPhase

-----------------------------------------------------------------------------
(* Small facts about the gate's state functions.                           *)

LEMMA Roles ==
  /\ \A p \in Peer : Opponent(p) \in Peer /\ Opponent(p) # p
  /\ \A p \in Peer : Peer = {p, Opponent(p)}
  /\ \A p \in Peer : EngineRoleOf[p] \in EngineRole /\ PeerOf[EngineRoleOf[p]] = p
  /\ \A r \in EngineRole : PeerOf[r] \in Peer /\ EngineRoleOf[PeerOf[r]] = r
  /\ \A p, q \in Peer : EngineRoleOf[p] = EngineRoleOf[q] => p = q
BY DEF Peer, Opponent, EngineRole, EngineRoleOf, PeerOf

(* Without a standing forfeit, a lagging book is a finished one, so that a *)
(* stall is always blamed on peers of the turn being played.               *)
LEMMA Blamed ==
  ASSUME Inv
  PROVE  /\ Forfeiters \in SUBSET Peer
         /\ StalledRoles # {} => /\ bookTurn = TurnCount(match)
                                 /\ Uncommitted # Peer
                                 /\ StalledRoles = IF Uncommitted # {}
                                                   THEN Uncommitted
                                                   ELSE Unrevealed
<1>1. StalledRoles \in SUBSET Peer
  BY DEF StalledRoles, Uncommitted, Unrevealed
<1>2. Forfeiters \in SUBSET Peer
  BY <1>1 DEF Forfeiters, Inv, TypeOK
<1>3. ASSUME StalledRoles # {}
      PROVE  /\ bookTurn = TurnCount(match)
             /\ Uncommitted # Peer
             /\ StalledRoles = IF Uncommitted # {} THEN Uncommitted ELSE Unrevealed
  <2>1. deadline = Expired
    BY <1>3 DEF StalledRoles
  <2>2. Uncommitted # Peer
    BY <2>1 DEF Inv, ClockFollowsBook, Expired, NoDeadline
  <2>3. StalledRoles = IF Uncommitted # {} THEN Uncommitted ELSE Unrevealed
    BY <2>1 DEF StalledRoles
  <2>4. ASSUME bookTurn # TurnCount(match)
        PROVE  FALSE
    <3>1. bookTurn < TurnCount(match)
      BY <2>4 DEF Inv, TypeOK, BookInStep, MatchOf, TurnCount
    <3>2. \A p \in Peer : moves[p] \in Token
      BY <3>1, Roles DEF Inv, TypeOK, BookInStep, MatchOf, TurnCount
    <3>3. Unrevealed = {}
      BY <3>2, MatchAssumption DEF Unrevealed
    <3>4. Uncommitted = {}
      BY <3>2, MatchAssumption DEF Inv, NoRevealBeforeBoth, Peer
    <3>5. QED
      BY <3>3, <3>4, <2>3, <1>3
  <2>5. QED
    BY <2>2, <2>3, <2>4
<1>4. QED
  BY <1>2, <1>3

-----------------------------------------------------------------------------
(* Every handler keeps the inductive invariant.                            *)

LEMMA InitInv == Init => Inv
<1> SUFFICES ASSUME Init PROVE Inv
  OBVIOUS
<1>1. NewMatch \in MatchOf(Peer)
  BY MatchAssumption DEF NewMatch, MatchOf, NoSlots, Deadline, NoDeadline
<1>2. TypeOK
  <2>1. NoDeadline \in Deadline
    BY MatchAssumption DEF Deadline, NoDeadline
  <2>2. QED
    BY <1>1, <2>1 DEF TypeOK, Init, Empty
<1>3. Uncommitted = Peer /\ Unrevealed = Peer
  BY DEF Init, Empty, Uncommitted, Unrevealed
<1>4. BufferIdle /\ OverIsEnded
  BY DEF Init, NewMatch, BufferIdle, OverIsEnded
<1>5. BookInStep
  BY <1>3 DEF Init, NewMatch, BookInStep, TurnCount, Peer
<1>6. QED
  BY <1>2, <1>3, <1>4, <1>5
  DEF Inv, Init, NewMatch, ClockFollowsBook, NoRevealBeforeBoth, ToolsAgree,
      BlameFollowsPhase, Empty

LEMMA ExpireInv ==
  ASSUME Inv, ExpireIfStalled, UNCHANGED book
  PROVE  Inv'
<1> USE DEF book
<1>1. /\ match'.slots = match.slots /\ match'.left = match.left
      /\ match'.played = match.played /\ match'.over = match.over
      /\ match'.forfeits = forfeitedBy' /\ match' \in MatchOf(Peer)
  <2>1. match \in MatchOf(Peer) /\ StalledRoles \in SUBSET Peer
    BY DEF Inv, TypeOK, StalledRoles, Uncommitted, Unrevealed
  <2>2. CASE forfeitedBy # {}
    BY <2>1, <2>2 DEF ExpireIfStalled, Forfeiters, Inv, ToolsAgree
  <2>3. CASE forfeitedBy = {}
    BY <2>1, <2>3
    DEF ExpireIfStalled, Forfeiters, Forfeited, Inv, ToolsAgree, MatchOf
  <2>4. QED
    BY <2>2, <2>3
<1>2. forfeitedBy' = Forfeiters /\ Forfeiters \in SUBSET Peer
  BY Blamed DEF ExpireIfStalled
<1>3. Uncommitted' = Uncommitted /\ Unrevealed' = Unrevealed
  BY DEF Uncommitted, Unrevealed
<1>4. TypeOK' /\ BufferIdle' /\ OverIsEnded' /\ ClockFollowsBook' /\ ToolsAgree'
  BY <1>1, <1>2, <1>3
  DEF Inv, TypeOK, BufferIdle, OverIsEnded, ClockFollowsBook, ToolsAgree
<1>5. NoRevealBeforeBoth' /\ BookInStep'
  BY <1>1, <1>3 DEF Inv, NoRevealBeforeBoth, BookInStep, TurnCount
<1>6. BlameFollowsPhase'
  BY <1>2, <1>3, Blamed DEF Inv, BlameFollowsPhase, Forfeiters
<1>7. QED
  BY <1>4, <1>5, <1>6 DEF Inv

LEMMA CommitInv ==
  ASSUME Inv, NEW role \in Caller, NEW turn \in Turns, NEW digest \in Digest,
         NEW signed \in BOOLEAN, CommitVerdict(role, turn, signed) = "accepted",
         Commit(role, turn, digest), UNCHANGED <<match, forfeitedBy>>
  PROVE  Inv'
<1>1. /\ role \in Peer /\ turn = TurnCount(match) /\ turn \in Nat
      /\ bookTurn \in Nat /\ bookTurn <= turn
      /\ turn = bookTurn => commitments[role] = None
      /\ forfeitedBy = {}
  BY DEF CommitVerdict, Forfeiters, Inv, TypeOK, BookInStep, TurnCount, MatchOf
<1>2. digest # None /\ digest \in Digest \cup {None}
  BY MatchAssumption, GateAssumption DEF Digest
<1>3. bookTurn' = turn /\ commitments'[role] = digest
  BY <1>1 DEF Commit, Inv, TypeOK, Empty
<1>4. TypeOK'
  <2>1. Timeout \in Deadline
    BY MatchAssumption DEF Deadline, NoDeadline
  <2>2. commitments' \in [Peer -> Digest \cup {None}]
    BY <1>1, <1>2 DEF Commit, Inv, TypeOK, Empty
  <2>3. QED
    BY <1>1, <1>3, <2>1, <2>2 DEF Commit, Inv, TypeOK, Empty
<1>5. ClockFollowsBook'
  <2>1. deadline' # NoDeadline
    BY MatchAssumption, <1>1 DEF Commit, NoDeadline
  <2>2. role \notin Uncommitted'
    BY <1>2, <1>3 DEF Uncommitted
  <2>3. QED
    BY <1>1, <2>1, <2>2 DEF ClockFollowsBook
<1>6. CASE turn > bookTurn
  <2>1. moves' = Empty
    BY <1>6 DEF Commit
  <2>2. NoRevealBeforeBoth' /\ Unrevealed' = Peer
    BY <2>1 DEF NoRevealBeforeBoth, Empty, Unrevealed
  <2>3. BookInStep'
    BY <1>1, <1>3, <2>2 DEF BookInStep, TurnCount, Peer
  <2>4. QED
    BY <1>1, <1>4, <1>5, <2>2, <2>3
    DEF Inv, BufferIdle, OverIsEnded, ToolsAgree, BlameFollowsPhase
<1>7. CASE turn = bookTurn
  <2>1. role \in Uncommitted
    BY <1>1, <1>7 DEF Uncommitted
  <2>2. moves' = moves /\ \A p \in Peer : moves[p] = None
    BY <1>1, <1>7, <2>1 DEF Commit, Inv, NoRevealBeforeBoth
  <2>3. NoRevealBeforeBoth' /\ Unrevealed' = Peer
    BY <2>2 DEF NoRevealBeforeBoth, Unrevealed
  <2>4. BookInStep'
    BY <1>1, <1>3, <2>3 DEF BookInStep, TurnCount, Peer
  <2>5. QED
    BY <1>1, <1>4, <1>5, <2>3, <2>4
    DEF Inv, BufferIdle, OverIsEnded, ToolsAgree, BlameFollowsPhase
<1>8. QED
  BY <1>1, <1>6, <1>7

LEMMA TickInv ==
  ASSUME Inv, Tick
  PROVE  Inv'
<1>1. match' = match
  BY DEF Tick, Inv, BufferIdle, TypeOK, MatchOf, AfterTick, NoDeadline, Expired
<1>2. deadline' \in Deadline /\ (deadline' = NoDeadline <=> deadline = NoDeadline)
  BY MatchAssumption
  DEF Tick, Inv, TypeOK, Deadline, AfterTick, NoDeadline, Expired
<1>3. Uncommitted' = Uncommitted /\ Unrevealed' = Unrevealed
  BY DEF Tick, Uncommitted, Unrevealed
<1>4. TypeOK' /\ BufferIdle' /\ OverIsEnded' /\ ClockFollowsBook' /\ ToolsAgree'
  BY <1>1, <1>2, <1>3
  DEF Tick, Inv, TypeOK, BufferIdle, OverIsEnded, ClockFollowsBook, ToolsAgree
<1>5. NoRevealBeforeBoth' /\ BookInStep' /\ BlameFollowsPhase'
  BY <1>1, <1>3
  DEF Tick, Inv, NoRevealBeforeBoth, BookInStep, BlameFollowsPhase, TurnCount
<1>6. QED
  BY <1>4, <1>5 DEF Inv

(* What an accepted reveal leaves behind: the book holds both seals and the*)
(* revealer's move, and when that completes the pair the match is the old  *)
(* one with the pair played on it, in the roles' own slots.                *)

Revealed(role, move) ==
  [r \in EngineRole |-> IF r = EngineRoleOf[role] THEN move
                        ELSE moves[PeerOf[r]]]

LEMMA AcceptedReveal ==
  ASSUME Inv, NEW role \in Caller, NEW turn \in Turns, NEW move,
         NEW signed \in BOOLEAN,
         RevealVerdict(role, turn, move, signed) \in {"waiting", "resolved"}
  PROVE  /\ role \in Peer /\ move \in Token /\ forfeitedBy = {}
         /\ bookTurn = TurnCount(match) /\ Uncommitted = {}
         /\ moves[role] = None /\ move = commitments[role]
         /\ RevealVerdict(role, turn, move, signed) = "resolved"
              => /\ Unrevealed = {role}
                 /\ moves[Opponent(role)] \in Token
                 /\ Revealed(role, move) \in [EngineRole -> Token]
                 /\ Resolve(role, move) = Played(match, Revealed(role, move))
         /\ RevealVerdict(role, turn, move, signed) = "waiting"
              => Unrevealed # {role}
<1>1. /\ Forfeiters = {} /\ role \in Peer /\ turn = TurnCount(match)
      /\ move \in Token
      /\ BookReveal(role, turn, move) \in {"waiting", "resolved"}
      /\ BookReveal(role, turn, move) = RevealVerdict(role, turn, move, signed)
  BY DEF RevealVerdict
<1>2. /\ turn = bookTurn /\ Uncommitted = {} /\ moves[role] = None
      /\ move = commitments[role]
      /\ BookReveal(role, turn, move) = "resolved" <=> Unrevealed = {role}
  BY <1>1 DEF BookReveal, Inv, TypeOK, TurnCount, MatchOf, BookInStep
<1>3. forfeitedBy = {}
  BY <1>1 DEF Forfeiters
<1>4. ASSUME Unrevealed = {role}
      PROVE  /\ moves[Opponent(role)] \in Token
             /\ Revealed(role, move) \in [EngineRole -> Token]
             /\ Resolve(role, move) = Played(match, Revealed(role, move))
  <2> DEFINE first == Opponent(role)
             r1 == EngineRoleOf[first]
             r2 == EngineRoleOf[role]
  <2>1. first \in Peer /\ first # role
    BY <1>1, Roles
  <2>2. moves[first] \in Token
    BY <2>1, <1>4 DEF Unrevealed, Inv, TypeOK
  <2>3. r1 \in EngineRole /\ r2 \in EngineRole /\ r1 # r2 /\ PeerOf[r1] = first
    BY <2>1, <1>1, Roles
  <2>4. PairOf(r1, moves[first], move) = Revealed(role, move)
    <3>1. \A r \in EngineRole : r = r1 \/ r = r2
      BY <2>3 DEF EngineRole
    <3>2. QED
      BY <2>3, <3>1 DEF PairOf, Revealed
  <2>5. Revealed(role, move) \in [EngineRole -> Token]
    BY <2>2, <1>1, <2>4 DEF PairOf
  <2>6. /\ SubmitStatus(match, r1, moves[first]) = "waiting"
        /\ Submitted(Submitted(match, r1, moves[first]), r2, move)
             = Played(match, PairOf(r1, moves[first], move))
    BY <2>2, <2>3, <1>1, TwoSubmissions DEF Inv, TypeOK, BufferIdle
  <2>7. Resolve(role, move) = Played(match, Revealed(role, move))
    BY <2>4, <2>6 DEF Resolve
  <2>8. QED
    BY <2>2, <2>5, <2>7
<1>5. QED
  BY <1>1, <1>2, <1>3, <1>4

LEMMA RevealInv ==
  ASSUME Inv, NEW role \in Caller, NEW turn \in Turns, NEW move,
         NEW signed \in BOOLEAN,
         RevealVerdict(role, turn, move, signed) \in {"waiting", "resolved"},
         moves' = [moves EXCEPT ![role] = move],
         match' = IF RevealVerdict(role, turn, move, signed) = "resolved"
                  THEN Resolve(role, move) ELSE match,
         UNCHANGED <<bookTurn, commitments, deadline, forfeitedBy>>
  PROVE  Inv'
<1>1. /\ role \in Peer /\ move \in Token /\ forfeitedBy = {}
      /\ bookTurn = TurnCount(match) /\ Uncommitted = {}
      /\ moves[role] = None /\ move = commitments[role]
  BY AcceptedReveal
<1>2. Uncommitted' = {} /\ Unrevealed' = Unrevealed \ {role}
  BY <1>1, MatchAssumption DEF Uncommitted, Unrevealed, Inv, TypeOK
<1>3. moves' \in [Peer -> Token \cup {None}] /\ moves'[role] = move
  BY <1>1 DEF Inv, TypeOK
<1>4. NoRevealBeforeBoth'
  BY <1>1, <1>2 DEF Inv, NoRevealBeforeBoth, TypeOK
<1>5. ClockFollowsBook' /\ BlameFollowsPhase'
  BY <1>1, <1>2
  DEF Inv, ClockFollowsBook, BlameFollowsPhase, Uncommitted
<1>6. CASE RevealVerdict(role, turn, move, signed) = "waiting"
  <2>1. match' = match /\ Unrevealed # {role} /\ role \in Unrevealed
    BY <1>1, <1>6, AcceptedReveal DEF Unrevealed
  <2>2. BookInStep'
    BY <1>1, <1>2, <2>1 DEF Inv, TypeOK, BookInStep, TurnCount, MatchOf
  <2>3. QED
    BY <1>1, <1>3, <1>4, <1>5, <2>1, <2>2
    DEF Inv, TypeOK, BufferIdle, OverIsEnded, ToolsAgree
<1>7. CASE RevealVerdict(role, turn, move, signed) = "resolved"
  <2> DEFINE pair == Revealed(role, move)
  <2>1. /\ match' = Played(match, pair) /\ Unrevealed = {role}
        /\ pair \in [EngineRole -> Token]
    BY <1>7, AcceptedReveal
  <2>2. CASE match.over
    <3>1. match' = match
      BY <2>1, <2>2 DEF Played
    <3>2. BookInStep'
      BY <1>1, <3>1, <2>2 DEF Inv, TypeOK, BookInStep, TurnCount, MatchOf
    <3>3. QED
      BY <1>1, <1>3, <1>4, <1>5, <3>1, <3>2
      DEF Inv, TypeOK, BufferIdle, OverIsEnded, ToolsAgree
  <2>3. CASE ~match.over
    <3> DEFINE log == Append(match.played, pair)
    <3>1. log \in Seq([EngineRole -> Token]) /\ Len(log) = TurnCount(match) + 1
          /\ log # <<>> /\ log[Len(log)] = pair
      BY <2>1, AppendProperties DEF Inv, TypeOK, MatchOf, TurnCount
    <3>2. match' = [match EXCEPT !.played = log, !.over = Ends(log)]
      BY <2>1, <2>3 DEF Played
    <3>3. /\ match'.slots = match.slots /\ match'.left = match.left
          /\ match'.forfeits = match.forfeits
          /\ match'.played = log /\ match'.over = Ends(log)
      BY <3>2 DEF Inv, TypeOK, MatchOf
    <3>4. match' \in MatchOf(Peer)
      BY <3>1, <3>2 DEF Inv, TypeOK, MatchOf, Ends
    <3>5. TypeOK' /\ BufferIdle' /\ OverIsEnded' /\ ToolsAgree'
      BY <1>1, <1>3, <3>1, <3>3, <3>4
      DEF Inv, TypeOK, BufferIdle, OverIsEnded, ToolsAgree
    <3>6. \A p \in Peer : moves'[p] = pair[EngineRoleOf[p]]
      BY <1>1, <1>3, Roles DEF Revealed, Inv, TypeOK
    <3>7. BookInStep'
      BY <1>1, <3>1, <3>3, <3>6 DEF BookInStep, TurnCount, Inv, TypeOK, MatchOf
    <3>8. QED
      BY <1>4, <1>5, <3>5, <3>7 DEF Inv
  <2>4. QED
    BY <2>2, <2>3
<1>8. QED
  BY <1>6, <1>7

LEMMA NextInv == Inv /\ [Next]_vars => Inv'
<1> SUFFICES ASSUME Inv, [Next]_vars
             PROVE  Inv'
  OBVIOUS
<1>1. ASSUME NEW role \in Caller, NEW turn \in Turns, NEW digest \in Digest,
             NEW signed \in BOOLEAN, SubmitCommitment(role, turn, digest, signed)
      PROVE  Inv'
  <2>1. CASE CommitVerdict(role, turn, signed) = "accepted"
    BY <1>1, <2>1, CommitInv DEF SubmitCommitment
  <2>2. CASE CommitVerdict(role, turn, signed) # "accepted"
    BY <1>1, <2>2, ExpireInv DEF SubmitCommitment
  <2>3. QED
    BY <2>1, <2>2
<1>2. ASSUME NEW role \in Caller, NEW turn \in Turns,
             NEW move \in Token \cup {BadMove},
             NEW signed \in BOOLEAN, RevealMove(role, turn, move, signed)
      PROVE  Inv'
  <2>1. CASE RevealVerdict(role, turn, move, signed) \in {"waiting", "resolved"}
    BY <1>2, <2>1, RevealInv DEF RevealMove
  <2>2. CASE RevealVerdict(role, turn, move, signed) \notin {"waiting", "resolved"}
    BY <1>2, <2>2, ExpireInv DEF RevealMove
  <2>3. QED
    BY <2>1, <2>2
<1>3. CASE Poll
  BY <1>3, ExpireInv DEF Poll
<1>4. CASE Tick
  BY <1>4, TickInv
<1>5. CASE UNCHANGED vars
  BY <1>5
  DEF vars, Inv, TypeOK, BufferIdle, OverIsEnded, ClockFollowsBook,
      NoRevealBeforeBoth, BookInStep, ToolsAgree, BlameFollowsPhase,
      Uncommitted, Unrevealed, TurnCount
<1>6. QED
  BY <1>1, <1>2, <1>3, <1>4, <1>5 DEF Next

(* The inductive invariant holds of every behaviour of the gate.           *)
THEOREM Invariance == Spec => []Inv
BY InitInv, NextInv, PTL DEF Spec

(* The server's state always has its declared shape.                       *)
THEOREM TypeCorrect == Spec => []TypeOK
BY Invariance, PTL DEF Inv

(* No move is on the book before both commitments are, and every move on it*)
(* is the one its owner committed to.                                      *)
THEOREM SealsHold == Spec => []NoRevealBeforeBoth
BY Invariance, PTL DEF Inv

(* The commitment book and the engine's turn count never drift apart.      *)
THEOREM BookStaysInStep == Spec => []BookInStep
BY Invariance, PTL DEF Inv

(* A forfeit names exactly the peers the turn was waiting for.             *)
THEOREM BlameIsFair == Spec => []BlameFollowsPhase
BY Invariance, PTL DEF Inv

(* The gate and every status tool report the same forfeits.                *)
THEOREM OneForfeitStory == Spec => []ToolsAgree
BY Invariance, PTL DEF Inv

(* Book, engine and forfeits tell one story.                               *)
THEOREM ServerTellsOneStory == Spec => []OneStory
BY TypeCorrect, BookStaysInStep, OneForfeitStory, PTL DEF OneStory

-----------------------------------------------------------------------------
(* What a step does to the match.                                          *)

(* ExpireIfStalled touches nothing but the forfeits, and no standing one.  *)
LEMMA ExpireMatch ==
  ASSUME Inv, ExpireIfStalled
  PROVE  /\ match'.played = match.played /\ match'.over = match.over
         /\ match'.forfeits = Forfeiters
         /\ match.forfeits # {} => match'.forfeits = match.forfeits
<1>1. match \in MatchOf(Peer) /\ match.forfeits = forfeitedBy
  BY DEF Inv, TypeOK, ToolsAgree
<1>2. CASE forfeitedBy # {}
  BY <1>1, <1>2 DEF ExpireIfStalled, Forfeiters
<1>3. CASE forfeitedBy = {}
  BY <1>1, <1>3 DEF ExpireIfStalled, Forfeiters, Forfeited, MatchOf
<1>4. QED
  BY <1>2, <1>3

LEMMA EndedMatchKept ==
  ASSUME Inv, [Next]_vars, match.over \/ match.forfeits # {}
  PROVE  /\ match'.played = match.played /\ match'.over = match.over
         /\ match.forfeits # {} => match'.forfeits = match.forfeits
<1>1. ASSUME NEW role \in Caller, NEW turn \in Turns, NEW digest \in Digest,
             NEW signed \in BOOLEAN, SubmitCommitment(role, turn, digest, signed)
      PROVE  /\ match'.played = match.played /\ match'.over = match.over
             /\ match.forfeits # {} => match'.forfeits = match.forfeits
  BY <1>1, ExpireMatch DEF SubmitCommitment
<1>2. ASSUME NEW role \in Caller, NEW turn \in Turns,
             NEW move \in Token \cup {BadMove},
             NEW signed \in BOOLEAN, RevealMove(role, turn, move, signed)
      PROVE  /\ match'.played = match.played /\ match'.over = match.over
             /\ match.forfeits # {} => match'.forfeits = match.forfeits
  <2>1. CASE RevealVerdict(role, turn, move, signed) \in {"waiting", "resolved"}
    <3>1. match.over
      BY <2>1, AcceptedReveal DEF Inv, ToolsAgree
    <3>2. match' = match
      BY <1>2, <2>1, <3>1, AcceptedReveal DEF RevealMove, Played
    <3>3. QED
      BY <3>2
  <2>2. CASE RevealVerdict(role, turn, move, signed) \notin {"waiting", "resolved"}
    BY <1>2, <2>2, ExpireMatch DEF RevealMove
  <2>3. QED
    BY <2>1, <2>2
<1>3. CASE Poll
  BY <1>3, ExpireMatch DEF Poll
<1>4. CASE Tick
  BY <1>4 DEF Tick, Inv, TypeOK, MatchOf
<1>5. CASE UNCHANGED vars
  BY <1>5 DEF vars
<1>6. QED
  BY <1>1, <1>2, <1>3, <1>4, <1>5 DEF Next

(* However a match ended, nothing that reaches the server afterwards gives *)
(* it another outcome or another move.                                     *)
THEOREM OutcomeIsFinal == Spec => OutcomeStands
<1>1. ASSUME Inv, [Next]_vars, TerminalReason(match) # "none"
      PROVE  /\ TerminalReason(match') = TerminalReason(match)
             /\ match'.played = match.played
  <2>1. match.over \/ match.forfeits # {}
    BY <1>1 DEF TerminalReason
  <2>2. /\ match'.played = match.played /\ match'.over = match.over
        /\ match.forfeits # {} => match'.forfeits = match.forfeits
    BY <1>1, <2>1, EndedMatchKept
  <2>3. CASE match.over
    BY <1>1, <2>2, <2>3 DEF TerminalReason
  <2>4. CASE ~match.over
    BY <1>1, <2>1, <2>2, <2>4 DEF TerminalReason
  <2>5. QED
    BY <2>2, <2>3, <2>4
<1>2. Inv /\ [Next]_vars
        => [TerminalReason(match) # "none"
              => /\ TerminalReason(match') = TerminalReason(match)
                 /\ match'.played = match.played]_vars
  BY <1>1
<1>3. QED
  BY Invariance, <1>2, PTL DEF Spec, OutcomeStands

-----------------------------------------------------------------------------
(* The server implements simultaneous turns.                               *)

SealedBar == IF OpenTurn THEN commitments ELSE Empty
OpenedBar == IF OpenTurn THEN {p \in Peer : moves[p] # None} ELSE {}
BlamedBar == IF match.over THEN {} ELSE match.forfeits

(* The abstract match has ended on the board exactly when the episode has. *)
LEMMA SameEnd == Inv => (Turn!Ended <=> match.over)
BY DEF Inv, OverIsEnded, Ends, Turn!Ended

LEMMA InitRefines == Init => Turn!Init
<1> SUFFICES ASSUME Init PROVE Turn!Init
  OBVIOUS
<1>1. SealedBar = Turn!NoSeals /\ OpenedBar = {}
  BY DEF SealedBar, OpenedBar, Init, Empty, Turn!NoSeals, Turn!Peer, Peer
<1>2. QED
  BY <1>1 DEF Init, NewMatch, Turn!Init, SealedBar, OpenedBar

(* A stall check is a Blame when it finds a stall in a live match, and a   *)
(* stutter otherwise.                                                      *)
LEMMA ExpireRefines ==
  ASSUME Inv, ExpireIfStalled, UNCHANGED book
  PROVE  [Turn!Next]_(Turn!vars)
<1>1. /\ match'.played = match.played /\ match'.over = match.over
      /\ match'.forfeits = Forfeiters
      /\ match.forfeits # {} => match'.forfeits = match.forfeits
  BY ExpireMatch
<1>2. SealedBar' = SealedBar /\ OpenedBar' = OpenedBar
  BY <1>1 DEF book, SealedBar, OpenedBar, OpenTurn, TurnCount
<1>3. CASE match.over \/ forfeitedBy # {} \/ StalledRoles = {}
  <2>1. BlamedBar' = BlamedBar
    BY <1>1, <1>3 DEF BlamedBar, Forfeiters, Inv, ToolsAgree
  <2>2. QED
    BY <1>1, <1>2, <2>1 DEF Turn!vars, SealedBar, OpenedBar, BlamedBar
<1>4. CASE ~match.over /\ forfeitedBy = {} /\ StalledRoles # {}
  <2>1. /\ OpenTurn /\ Uncommitted # Peer
        /\ StalledRoles = IF Uncommitted # {} THEN Uncommitted ELSE Unrevealed
    BY <1>4, Blamed DEF OpenTurn
  <2>2. SealedBar = commitments /\ OpenedBar = Peer \ Unrevealed
    BY <2>1 DEF SealedBar, OpenedBar, Unrevealed
  <2>3. BlamedBar = {} /\ BlamedBar' = StalledRoles
    BY <1>1, <1>4 DEF BlamedBar, Inv, ToolsAgree, Forfeiters
  <2>4. Turn!Live
    BY <1>4, <2>3, SameEnd DEF Turn!Live, BlamedBar
  <2>5. Turn!Owing = StalledRoles
    BY <2>1, <2>2
    DEF Turn!Owing, Turn!AllSealed, Turn!Peer, Peer, Uncommitted, Unrevealed,
        SealedBar, OpenedBar
  <2>6. \E p \in Turn!Peer : SealedBar[p] # None
    BY <2>1, <2>2 DEF Turn!Peer, Peer, Uncommitted
  <2>7. Turn!Blame
    BY <1>1, <1>2, <2>3, <2>4, <2>5, <2>6
    DEF Turn!Blame, SealedBar, OpenedBar, BlamedBar
  <2>8. QED
    BY <2>7 DEF Turn!Next
<1>5. QED
  BY <1>3, <1>4

(* An accepted commitment is a Seal while the match is live; what the book *)
(* still accepts after the end is a stutter.                               *)
LEMMA CommitRefines ==
  ASSUME Inv, NEW role \in Caller, NEW turn \in Turns, NEW digest \in Digest,
         NEW signed \in BOOLEAN, CommitVerdict(role, turn, signed) = "accepted",
         Commit(role, turn, digest), UNCHANGED <<match, forfeitedBy>>
  PROVE  [Turn!Next]_(Turn!vars)
<1>1. /\ role \in Peer /\ turn = TurnCount(match)
      /\ bookTurn \in Nat /\ turn \in Nat /\ bookTurn <= turn
      /\ turn = bookTurn => commitments[role] = None
      /\ match.forfeits = {}
  BY DEF CommitVerdict, Forfeiters, Inv, TypeOK, BookInStep, TurnCount, MatchOf,
         ToolsAgree
<1>2. bookTurn' = turn /\ match' = match
  BY DEF Commit
<1>3. CASE match.over
  BY <1>2, <1>3
  DEF Turn!vars, OpenTurn, TurnCount
<1>4. CASE ~match.over
  <2>1. OpenTurn'
    BY <1>1, <1>2, <1>4 DEF OpenTurn, TurnCount
  <2>2. SealedBar[role] = None
    BY <1>1 DEF SealedBar, OpenTurn, Empty
  <2>3. SealedBar' = [SealedBar EXCEPT ![role] = digest]
    <3>1. SealedBar' = commitments'
      BY <2>1 DEF SealedBar
    <3>2. CASE turn > bookTurn
      BY <1>1, <3>1, <3>2 DEF SealedBar, Commit, OpenTurn, TurnCount
    <3>3. CASE turn = bookTurn
      BY <1>1, <1>4, <3>1, <3>3 DEF SealedBar, Commit, OpenTurn, TurnCount
    <3>4. QED
      BY <1>1, <3>2, <3>3
  <2>4. OpenedBar' = OpenedBar
    <3>1. OpenedBar' = {p \in Peer : moves'[p] # None}
      BY <2>1 DEF OpenedBar
    <3>2. CASE turn > bookTurn
      <4>1. OpenedBar = {}
        BY <1>1, <3>2 DEF OpenedBar, OpenTurn, TurnCount
      <4>2. moves' = Empty
        BY <3>2 DEF Commit
      <4>3. QED
        BY <3>1, <4>1, <4>2 DEF Empty
    <3>3. CASE turn = bookTurn
      <4>1. moves' = moves
        BY <1>1, <3>3 DEF Commit
      <4>2. QED
        BY <1>1, <1>4, <3>1, <3>3, <4>1 DEF OpenedBar, OpenTurn, TurnCount
    <3>4. QED
      BY <1>1, <3>2, <3>3
  <2>5. Turn!Live
    BY <1>1, <1>4, SameEnd DEF Turn!Live
  <2>6. Turn!Seal(role, digest)
    BY <1>2, <2>2, <2>3, <2>4, <2>5
    DEF Turn!Seal, SealedBar, OpenedBar, BlamedBar
  <2>7. QED
    BY <1>1, <2>6 DEF Turn!Next, Turn!Peer, Peer, Digest
<1>5. QED
  BY <1>3, <1>4

(* An accepted reveal is an Open while the match is live.                  *)
LEMMA RevealRefines ==
  ASSUME Inv, NEW role \in Caller, NEW turn \in Turns, NEW move,
         NEW signed \in BOOLEAN,
         RevealVerdict(role, turn, move, signed) \in {"waiting", "resolved"},
         moves' = [moves EXCEPT ![role] = move],
         match' = IF RevealVerdict(role, turn, move, signed) = "resolved"
                  THEN Resolve(role, move) ELSE match,
         UNCHANGED <<bookTurn, commitments, deadline, forfeitedBy>>
  PROVE  [Turn!Next]_(Turn!vars)
<1>1. /\ role \in Peer /\ move \in Token /\ forfeitedBy = {}
      /\ bookTurn = TurnCount(match) /\ Uncommitted = {}
      /\ moves[role] = None /\ move = commitments[role]
  BY AcceptedReveal
<1>2. CASE match.over
  <2>1. match' = match
    BY <1>2, AcceptedReveal DEF Played
  <2>2. QED
    BY <1>2, <2>1 DEF Turn!vars, OpenTurn, TurnCount
<1>3. CASE ~match.over
  <2>1. OpenTurn /\ SealedBar = commitments /\ OpenedBar = Peer \ Unrevealed
    BY <1>1, <1>3 DEF OpenTurn, SealedBar, OpenedBar, Unrevealed
  <2>2. Turn!Live
    BY <1>1, <1>3, SameEnd DEF Turn!Live, Inv, ToolsAgree
  <2>3. Turn!AllSealed
    BY <1>1, <2>1 DEF Turn!AllSealed, Turn!Peer, Peer, Uncommitted, SealedBar
  <2>4. role \notin OpenedBar /\ SealedBar[role] = move
    BY <1>1, <2>1 DEF Unrevealed
  <2>5. OpenedBar \cup {role} = Peer <=> Unrevealed = {role}
    BY <1>1, <2>1 DEF Unrevealed
  <2>6. CASE RevealVerdict(role, turn, move, signed) = "waiting"
    <3>1. match' = match /\ Unrevealed # {role}
      BY <2>6, AcceptedReveal
    <3>2. OpenTurn' /\ SealedBar' = SealedBar /\ BlamedBar' = BlamedBar
      BY <1>1, <1>3, <2>1, <3>1 DEF OpenTurn, SealedBar, BlamedBar, TurnCount
    <3>3. OpenedBar' = OpenedBar \cup {role}
      BY <1>1, <2>1, <3>2, MatchAssumption
      DEF OpenedBar, Unrevealed, Inv, TypeOK
    <3>4. Turn!Open(role)
      BY <1>1, <2>2, <2>3, <2>4, <2>5, <3>1, <3>2, <3>3
      DEF Turn!Open, Turn!Peer, Peer, SealedBar, OpenedBar, BlamedBar
    <3>5. QED
      BY <1>1, <3>4 DEF Turn!Next, Turn!Peer, Peer
  <2>7. CASE RevealVerdict(role, turn, move, signed) = "resolved"
    <3> DEFINE pair == Revealed(role, move)
    <3>1. /\ match' = Played(match, pair) /\ Unrevealed = {role}
          /\ pair \in [EngineRole -> Token]
      BY <2>7, AcceptedReveal
    <3>2. /\ match'.played = Append(match.played, pair)
          /\ match'.forfeits = match.forfeits /\ match.forfeits = {}
      BY <1>1, <1>3, <3>1 DEF Played, Inv, TypeOK, MatchOf, ToolsAgree
    <3>3. pair = [r \in {"cop", "thief"} |-> SealedBar[PeerOf[r]]]
      <4>1. \A r \in EngineRole : pair[r] = commitments[PeerOf[r]]
        BY <1>1, <3>1, Roles
        DEF Revealed, Unrevealed, Inv, NoRevealBeforeBoth
      <4>2. QED
        BY <2>1, <4>1 DEF Revealed, EngineRole
    <3>4. ~OpenTurn' /\ SealedBar' = Empty /\ OpenedBar' = {}
      <4>1. TurnCount(match') = bookTurn + 1
        BY <1>1, <3>1, <3>2, AppendProperties DEF TurnCount, Inv, TypeOK, MatchOf
      <4>2. QED
        BY <4>1 DEF OpenTurn, SealedBar, OpenedBar, Inv, TypeOK
    <3>5. BlamedBar' = BlamedBar
      BY <3>2 DEF BlamedBar
    <3>6. Turn!Open(role)
      BY <1>1, <2>2, <2>3, <2>4, <2>5, <3>1, <3>2, <3>3, <3>4, <3>5
      DEF Turn!Open, Turn!Peer, Peer, SealedBar, OpenedBar, BlamedBar,
          Turn!NoSeals, Empty, Turn!PeerOf, PeerOf, EngineRole
    <3>7. QED
      BY <1>1, <3>6 DEF Turn!Next, Turn!Peer, Peer
  <2>8. QED
    BY <2>6, <2>7
<1>4. QED
  BY <1>2, <1>3

LEMMA NextRefines == Inv /\ [Next]_vars => [Turn!Next]_(Turn!vars)
<1> SUFFICES ASSUME Inv, [Next]_vars
             PROVE  [Turn!Next]_(Turn!vars)
  OBVIOUS
<1>1. ASSUME NEW role \in Caller, NEW turn \in Turns, NEW digest \in Digest,
             NEW signed \in BOOLEAN, SubmitCommitment(role, turn, digest, signed)
      PROVE  [Turn!Next]_(Turn!vars)
  BY <1>1, CommitRefines, ExpireRefines DEF SubmitCommitment
<1>2. ASSUME NEW role \in Caller, NEW turn \in Turns,
             NEW move \in Token \cup {BadMove},
             NEW signed \in BOOLEAN, RevealMove(role, turn, move, signed)
      PROVE  [Turn!Next]_(Turn!vars)
  BY <1>2, RevealRefines, ExpireRefines DEF RevealMove
<1>3. CASE Poll
  BY <1>3, ExpireRefines DEF Poll
<1>4. CASE Tick
  <2>1. match' = match
    BY <1>4
    DEF Tick, Inv, BufferIdle, TypeOK, MatchOf, AfterTick, NoDeadline, Expired
  <2>2. QED
    BY <1>4, <2>1 DEF Tick, Turn!vars, OpenTurn, TurnCount
<1>5. CASE UNCHANGED vars
  BY <1>5 DEF vars, Turn!vars, OpenTurn, TurnCount
<1>6. QED
  BY <1>1, <1>2, <1>3, <1>4, <1>5 DEF Next

(* Signatures, turn numbers, timeouts, the commitment book and the action  *)
(* buffer together play nothing but simultaneous sealed turns, and forfeit *)
(* them only against the peers that owe the turn its next act.             *)
THEOREM Refinement == Spec => ImplementsSimultaneousTurns
<1>1. Spec => Turn!Spec
  BY InitRefines, NextRefines, Invariance, PTL DEF Spec, Turn!Spec
<1>2. QED
  BY <1>1 DEF ImplementsSimultaneousTurns
=============================================================================
