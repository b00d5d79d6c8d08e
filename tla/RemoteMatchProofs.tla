-------------------------- MODULE RemoteMatchProofs --------------------------
(***************************************************************************)
(* Two servers, two drivers, any tokens, timeouts, move limit, rule of     *)
(* capture and number of lost replies: the servers play one game of        *)
(* simultaneous turns, a smooth match is never refused, and what the       *)
(* drivers keep of it is true.                                             *)
(***************************************************************************)
EXTENDS RemoteMatch, SequenceTheorems, TLAPS

-----------------------------------------------------------------------------
(* A turn at the action buffer.                                            *)

Ends(h) == Captures(h) \/ Len(h) >= MaxMoves

PairOf(r1, t1, t2) == [r \in EngineRole |-> IF r = r1 THEN t1 ELSE t2]

Played(m, pair) ==
  IF m.over
  THEN m
  ELSE [m EXCEPT !.played = Append(m.played, pair),
                 !.over = Ends(Append(m.played, pair))]

(* Two actions of different roles submitted to an idle buffer are one step *)
(* of the episode on the pair, and leave the buffer idle.                  *)
LEMMA TwoSubmissions ==
  ASSUME NEW roles, NEW m \in MatchOf(roles), m.slots = NoSlots, m.left = NoDeadline,
         NEW r1 \in EngineRole, NEW r2 \in EngineRole, r1 # r2,
         NEW t1 \in Token, NEW t2 \in Token
  PROVE  /\ SubmitStatus(m, r1, t1) = "waiting"
         /\ Submitted(Submitted(m, r1, t1), r2, t2) = Played(m, PairOf(r1, t1, t2))
<1> DEFINE one == [m EXCEPT !.slots = [NoSlots EXCEPT ![r1] = t1],
                            !.left = Timeout]
           two == [one EXCEPT !.slots = PairOf(r1, t1, t2)]
<1>1. Filled(m) = {} /\ ExpireIfStale(m) = m
  BY DEF Filled, ExpireIfStale, NoSlots, NoDeadline, Expired
<1>2. SubmitStatus(m, r1, t1) = "waiting"
  BY <1>1 DEF SubmitStatus, EngineRole
<1>3. Submitted(m, r1, t1) = one
  BY <1>1, <1>2 DEF Submitted, Accept, MatchOf
<1>4. one \in MatchOf(roles) /\ Filled(one) = {r1} /\ ExpireIfStale(one) = one
  <2>1. one.slots = [NoSlots EXCEPT ![r1] = t1] /\ one.left = Timeout
    BY DEF MatchOf
  <2>2. Filled(one) = {r1}
    BY <2>1, MatchAssumption DEF Filled, NoSlots
  <2>3. ExpireIfStale(one) = one
    BY <2>1, MatchAssumption DEF ExpireIfStale, Expired
  <2>4. one \in MatchOf(roles)
    <3>1. Timeout \in Deadline
      BY MatchAssumption DEF Deadline, NoDeadline
    <3>2. [NoSlots EXCEPT ![r1] = t1] \in [EngineRole -> Token \cup {None}]
      BY DEF NoSlots
    <3>3. QED
      BY <3>1, <3>2 DEF MatchOf
  <2>5. QED
    BY <2>2, <2>3, <2>4
<1>5. SubmitStatus(one, r2, t2) = "resolved"
  BY <1>4 DEF SubmitStatus, EngineRole
<1>6. Accept(one, r2, t2) = two
  <2>1. [one.slots EXCEPT ![r2] = t2] = PairOf(r1, t1, t2)
    BY <1>4 DEF MatchOf, PairOf, NoSlots, EngineRole
  <2>2. QED
    BY <2>1, <1>4 DEF Accept, MatchOf
<1>7. Submitted(one, r2, t2) = Cleared(Step(two))
  BY <1>4, <1>5, <1>6 DEF Submitted
<1>8. Cleared(Step(two)) = Played(m, PairOf(r1, t1, t2))
  BY DEF Cleared, Step, Played, Ends, MatchOf
<1>9. QED
  BY <1>2, <1>3, <1>7, <1>8

-----------------------------------------------------------------------------
(* The two servers as values: a record for each, in its own terms.         *)

At ==
  [s \in Peer |->
     IF s = "police"
     THEN [match |-> pMatch, bookTurn |-> pBookTurn, commitments |-> pCommitments,
           moves |-> pMoves, deadline |-> pDeadline, forfeitedBy |-> pForfeitedBy]
     ELSE [match |-> tMatch, bookTurn |-> tBookTurn, commitments |-> tCommitments,
           moves |-> tMoves, deadline |-> tDeadline, forfeitedBy |-> tForfeitedBy]]

Digests == Token \cup {Unopenable, None}

Typed(g) ==
  /\ g.match \in MatchOf(Peer) /\ g.bookTurn \in Nat
  /\ g.commitments \in [Peer -> Digests] /\ g.moves \in [Peer -> Token \cup {None}]
  /\ g.deadline \in Deadline /\ g.forfeitedBy \in SUBSET Peer

IsOver(h) == h # <<>> /\ Ends(h)

Count(g) == Len(g.match.played)
Lacking(g) == {p \in Peer : g.commitments[p] = None}
Closed(g) == {p \in Peer : g.moves[p] = None}

(* What holds of a server by itself: see GateProofs.                       *)
Sound(g) ==
  /\ Typed(g)
  /\ g.match.slots = NoSlots /\ g.match.left = NoDeadline
  /\ g.match.over <=> IsOver(g.match.played)
  /\ g.match.forfeits = g.forfeitedBy
  /\ g.deadline = NoDeadline <=> Lacking(g) = Peer
  /\ \A p \in Peer : g.moves[p] # None
                       => Lacking(g) = {} /\ g.moves[p] = g.commitments[p]
  /\ g.bookTurn <= Count(g)
  /\ g.bookTurn < Count(g) => Closed(g) = {}
  /\ g.bookTurn = Count(g) /\ Closed(g) = {} => g.match.over
  /\ Count(g) <= MaxMoves

-----------------------------------------------------------------------------
(* A server and a driver.                                                  *)

BeforeReveal == {"commit0", "commit1", "reveal0"}

Revealing(p, s) == IF s = p THEN pc[p] \in BeforeReveal
                   ELSE pc[p] \in BeforeReveal \cup {"reveal1"}

Mine(h, p) == h[turn[p] + 1][Police!EngineRoleOf[p]] = move[p]

(* The server is at the driver's turn, has played it, or was forfeited     *)
(* when the driver had already revealed its move.                          *)
InTurn(g, p) ==
  /\ Count(g) <= turn[p] + 1
  /\ Count(g) = turn[p] + 1 => Mine(g.match.played, p)
  /\ \/ Count(g) >= turn[p]
     \/ /\ Count(g) = turn[p] - 1 /\ g.forfeitedBy # {}
        /\ g.bookTurn = Count(g) /\ g.moves[p] # None

(* What the book holds of the driver is its submission of this turn.       *)
Sealed(g, p) ==
  g.bookTurn = Count(g) /\ g.forfeitedBy = {} /\ g.commitments[p] # None
    => turn[p] = Count(g) /\ g.commitments[p] = move[p] /\ pc[p] # "done"

(* A driver that made both its calls to a server is on its book.           *)
Opened(g, p, s) ==
  pc[p] \notin Ended /\ ~Revealing(p, s)
    => \/ Count(g) = turn[p] + 1
       \/ Count(g) = turn[p] /\ g.bookTurn = turn[p] /\ g.moves[p] # None

Stops(g, p) == g.match.over /\ turn[p] >= Count(g) => pc[p] = "done"

Together(A) ==
  \A s, p \in Peer :
    InTurn(A[s], p) /\ Sealed(A[s], p) /\ Opened(A[s], p, s) /\ Stops(A[s], p)

(* The servers among themselves.                                           *)
OneOutcome(g) == ~ (g.match.over /\ g.forfeitedBy # {})

SamePlay(h, k) == \A i \in 1 .. Len(h) : i <= Len(k) => h[i] = k[i]

Alike(A) ==
  \A s \in Peer :
    /\ OneOutcome(A[s])
    /\ SamePlay(A[s].match.played, A[Other(s)].match.played)
    /\ Count(A[s]) - Count(A[Other(s)]) <= 1

-----------------------------------------------------------------------------
(* What the drivers were told, and keep.                                   *)

ReasonOf(h) ==
  IF h # <<>> /\ Captures(h) THEN "capture"
  ELSE IF h # <<>> /\ Len(h) >= MaxMoves THEN "max_moves_reached"
  ELSE "none"

Story(h) ==
  [count |-> Len(h), over |-> IsOver(h), reason |-> ReasonOf(h), cop |-> h, thief |-> h]

Resolution(A, p) ==
  /\ resolved[p] # <<>>
       => \E s \in Peer : /\ Count(A[s]) = turn[p] + 1
                          /\ resolved[p] = <<Story(A[s].match.played)>>
  /\ pc[p] \in BeforeReveal => resolved[p] = <<>>

(* An answer that settles the turn stays true of its server.               *)
Told(g, p, answer) ==
  /\ answer.count \in Nat /\ answer.over \in BOOLEAN
  /\ Settled(answer, p)
       => /\ answer.count = Count(g)
          /\ IF answer.reason = "technical_loss"
             THEN answer.over /\ g.forfeitedBy # {}
             ELSE /\ answer.count = turn[p] + 1 /\ answer.over = IsOver(g.match.played)
                  /\ answer.reason = ReasonOf(g.match.played)

Polling(A, p) ==
  /\ pc[p] = "status1" => Len(polled[p]) = 1 /\ Told(A[p], p, polled[p][1])
  /\ pc[p] \in {"observe0", "observe1"}
       => /\ Len(polled[p]) = 2
          /\ \A i \in 1 .. 2 : /\ Told(A[Server(p, i - 1)], p, polled[p][i])
                               /\ Settled(polled[p][i], p)
          /\ ~StatusClash(polled[p][1], polled[p][2])
  /\ pc[p] = "observe1"
       => (IF p = "police" THEN polled[p][1].cop ELSE polled[p][1].thief)
            = A[p].match.played

Kept(A, n, result) ==
  /\ result.cop = result.thief /\ result.count = Len(result.cop)
  /\ IF result.reason = "technical_loss"
     THEN \E s \in Peer : A[s].forfeitedBy # {}
     ELSE /\ result.count = n /\ result = Story(result.cop)
          /\ \A s \in Peer : Count(A[s]) >= n => SamePlay(result.cop, A[s].match.played)

History(A, p) ==
  Len(history[p]) = turn[p] /\ \A n \in 1 .. turn[p] : Kept(A, n, history[p][n])

Truthful(A) == \A p \in Peer : Resolution(A, p) /\ Polling(A, p) /\ History(A, p)

Shape ==
  /\ pc \in [Peer -> {"commit0", "commit1", "reveal0", "reveal1", "status0",
                      "status1", "observe0", "observe1"} \cup Ended]
  /\ turn \in [Peer -> Nat] /\ move \in [Peer -> Token]
  /\ resolved \in [Peer -> Seq(Results)] /\ polled \in [Peer -> Seq(Results)]
  /\ history \in [Peer -> Seq(Results)]
  /\ lost \in 0 .. MaxLost /\ weather \in {"smooth", "lossy", "stalls"}

Inv ==
  /\ Shape /\ \A s \in Peer : Sound(At[s])
  /\ Together(At) /\ Alike(At) /\ Truthful(At)

-----------------------------------------------------------------------------
(* The smooth match.                                                       *)

Committing(p, s) == IF s = p THEN pc[p] = "commit0" ELSE pc[p] \in {"commit0", "commit1"}

Paced(g, p, s) ==
  /\ Committing(p, s) => /\ Count(g) = turn[p]
                         /\ g.bookTurn = turn[p] => g.commitments[p] = None
  /\ ~Committing(p, s) /\ Revealing(p, s)
       => /\ Count(g) = turn[p] /\ g.bookTurn = turn[p]
          /\ g.commitments[p] = move[p] /\ g.moves[p] = None

Smooth(A) ==
  weather = "smooth" =>
    /\ \A s \in Peer : A[s].forfeitedBy = {} /\ A[s].deadline # Expired
    /\ \A p \in Peer : pc[p] \notin {"refused", "diverged", "stopped"}
    /\ \A s, p \in Peer : Paced(A[s], p, s)

-----------------------------------------------------------------------------
(* The handlers of a server, as relations between two of its values.       *)

EngineRoleOf == Police!EngineRoleOf
NoneYet == [p \in Peer |-> None]

Stalled(g) ==
  IF g.deadline # Expired THEN {}
  ELSE IF Lacking(g) # {} THEN Lacking(g) ELSE Closed(g)

Forfeiting(g) == IF g.forfeitedBy # {} THEN g.forfeitedBy ELSE Stalled(g)

SameBook(g, h) ==
  /\ h.bookTurn = g.bookTurn /\ h.commitments = g.commitments
  /\ h.moves = g.moves /\ h.deadline = g.deadline

Checked(g, h) ==
  /\ SameBook(g, h) /\ h.forfeitedBy = Forfeiting(g)
  /\ h.match = IF g.forfeitedBy # {} THEN g.match ELSE Forfeited(g.match, Stalled(g))

Accepts(g, p, n) ==
  /\ Forfeiting(g) = {} /\ n = Count(g) /\ ~ (n < g.bookTurn)
  /\ n = g.bookTurn => g.commitments[p] = None

Committed(g, h, p, n, digest) ==
  /\ h.match = g.match /\ h.forfeitedBy = g.forfeitedBy /\ h.bookTurn = n
  /\ h.commitments = [(IF n > g.bookTurn THEN NoneYet ELSE g.commitments)
                        EXCEPT ![p] = digest]
  /\ h.moves = IF n > g.bookTurn THEN NoneYet ELSE g.moves
  /\ h.deadline = IF n > g.bookTurn \/ g.deadline = NoDeadline
                  THEN Timeout ELSE g.deadline

Opens(g, p, n, token) ==
  /\ Forfeiting(g) = {} /\ n = Count(g) /\ n = g.bookTurn
  /\ Lacking(g) = {} /\ g.moves[p] = None /\ token = g.commitments[p]

Resolved(g, p, token) ==
  LET q == Other(p)
      one == Submitted(g.match, EngineRoleOf[q], g.moves[q])
  IN  IF SubmitStatus(g.match, EngineRoleOf[q], g.moves[q]) \in {"waiting", "resolved"}
      THEN Submitted(one, EngineRoleOf[p], token)
      ELSE one

Revealed(g, h, p, token) ==
  /\ h.bookTurn = g.bookTurn /\ h.commitments = g.commitments
  /\ h.deadline = g.deadline /\ h.forfeitedBy = g.forfeitedBy
  /\ h.moves = [g.moves EXCEPT ![p] = token]
  /\ h.match = IF Closed(g) = {p} THEN Resolved(g, p, token) ELSE g.match

Ticked(g, h) ==
  /\ h.bookTurn = g.bookTurn /\ h.commitments = g.commitments
  /\ h.moves = g.moves /\ h.forfeitedBy = g.forfeitedBy
  /\ h.deadline = AfterTick(g.deadline)
  /\ h.match = [g.match EXCEPT !.left = AfterTick(@)]

-----------------------------------------------------------------------------

LEMMA Fields ==
  /\ "police" \in Peer /\ "thief" \in Peer /\ \A s \in Peer : s = "police" \/ s = "thief"
  /\ \A s \in Peer : Other(s) \in Peer /\ Other(s) # s /\ Other(Other(s)) = s
  /\ Other("police") = "thief" /\ Other("thief") = "police"
  /\ At["police"] =
       [match |-> pMatch, bookTurn |-> pBookTurn, commitments |-> pCommitments,
        moves |-> pMoves, deadline |-> pDeadline, forfeitedBy |-> pForfeitedBy]
  /\ At["thief"] =
       [match |-> tMatch, bookTurn |-> tBookTurn, commitments |-> tCommitments,
        moves |-> tMoves, deadline |-> tDeadline, forfeitedBy |-> tForfeitedBy]
BY DEF Peer, Police!Peer, Other, Police!Opponent, At

LEMMA FieldsNext ==
  /\ At["police"]' =
       [match |-> pMatch', bookTurn |-> pBookTurn', commitments |-> pCommitments',
        moves |-> pMoves', deadline |-> pDeadline', forfeitedBy |-> pForfeitedBy']
  /\ At["thief"]' =
       [match |-> tMatch', bookTurn |-> tBookTurn', commitments |-> tCommitments',
        moves |-> tMoves', deadline |-> tDeadline', forfeitedBy |-> tForfeitedBy']
BY DEF Peer, Police!Peer, At

LEMMA PoliceNames ==
  /\ Police!Peer = Peer /\ Police!EngineRoleOf = EngineRoleOf
  /\ \A p : Police!Opponent(p) = Other(p)
BY DEF Peer, EngineRoleOf, Other, Police!Peer, Police!EngineRoleOf, Police!Opponent

LEMMA PoliceViews ==
  LET g == At["police"]
  IN  /\ Police!Uncommitted = Lacking(g) /\ Police!Unrevealed = Closed(g)
      /\ Police!StalledRoles = Stalled(g) /\ Police!Forfeiters = Forfeiting(g)
      /\ TurnCount(pMatch) = Count(g)
<1>1. Police!Uncommitted = Lacking(At["police"]) /\ Police!Unrevealed = Closed(At["police"])
  <2>1. At["police"].commitments = pCommitments /\ At["police"].moves = pMoves
    BY Fields
  <2> QED
    BY <2>1 DEF Police!Uncommitted, Police!Unrevealed, Lacking, Closed, Peer, Police!Peer
<1>2. Police!StalledRoles = Stalled(At["police"])
  BY <1>1, Fields DEF Police!StalledRoles, Stalled, Expired, Police!Expired
<1> QED
  BY <1>1, <1>2, Fields DEF Police!Forfeiters, Forfeiting, Count, TurnCount

LEMMA PoliceCommit ==
  ASSUME NEW p \in Peer, NEW n, NEW digest, Police!SubmitCommitment(p, n, digest, TRUE)
  PROVE  \/ /\ Police!CommitVerdict(p, n, TRUE) = "accepted"
            /\ Accepts(At["police"], p, n)
            /\ Committed(At["police"], At["police"]', p, n, digest)
         \/ /\ Police!CommitVerdict(p, n, TRUE) # "accepted"
            /\ ~Accepts(At["police"], p, n)
            /\ Checked(At["police"], At["police"]')
<1>1. Police!CommitVerdict(p, n, TRUE) = "accepted" <=> Accepts(At["police"], p, n)
  BY PoliceViews, PoliceNames, Fields
  DEF Police!CommitVerdict, Accepts, Count, Police!TurnCount
<1>2. CASE Police!CommitVerdict(p, n, TRUE) = "accepted"
  <2>1. Police!Commit(p, n, digest) /\ UNCHANGED <<pMatch, pForfeitedBy>>
    BY <1>2 DEF Police!SubmitCommitment
  <2>2. Police!Empty = NoneYet
    BY PoliceNames DEF Police!Empty, NoneYet
  <2> DEFINE g == At["police"]  h == At["police"]'
  <2>3. /\ h.match = g.match /\ h.forfeitedBy = g.forfeitedBy /\ h.bookTurn = n
        /\ h.moves = IF n > g.bookTurn THEN NoneYet ELSE g.moves
    BY <2>1, <2>2, Fields, FieldsNext DEF Police!Commit
  <2>4. h.deadline = IF n > g.bookTurn \/ g.deadline = NoDeadline
                     THEN Timeout ELSE g.deadline
    BY <2>1, Fields, FieldsNext DEF Police!Commit, Police!NoDeadline, NoDeadline
  <2>5. h.commitments = [(IF n > g.bookTurn THEN NoneYet ELSE g.commitments)
                           EXCEPT ![p] = digest]
    BY <2>1, <2>2, Fields, FieldsNext DEF Police!Commit
  <2> QED
    BY <1>1, <1>2, <2>3, <2>4, <2>5 DEF Committed
<1>3. CASE Police!CommitVerdict(p, n, TRUE) # "accepted"
  <2>1. Police!ExpireIfStalled /\ UNCHANGED Police!book
    BY <1>3 DEF Police!SubmitCommitment
  <2>2. Checked(At["police"], At["police"]')
    BY <2>1, PoliceViews, Fields, FieldsNext
    DEF Police!ExpireIfStalled, Police!book, Checked, SameBook, Police!Forfeited, Forfeited
  <2> QED
    BY <1>1, <1>3, <2>2
<1> QED
  BY <1>2, <1>3

(* The instance's buffer is the buffer of MatchState.                      *)
LEMMA PoliceBuffer ==
  ASSUME NEW m, NEW r, NEW token
  PROVE  /\ Police!SubmitStatus(m, r, token) = SubmitStatus(m, r, token)
         /\ Police!Submitted(m, r, token) = Submitted(m, r, token)
<1>1. Police!ExpireIfStale(m) = ExpireIfStale(m)
  BY DEF Police!ExpireIfStale, ExpireIfStale, Police!Filled, Filled, Police!Cleared, Cleared,
         Police!Expired, Expired, Police!EngineRole, EngineRole, Police!NoSlots, NoSlots,
         Police!NoDeadline, NoDeadline
<1>2. \A f : Police!Accept(f, r, token) = Accept(f, r, token)
  BY DEF Police!Accept, Accept, Police!Filled, Filled, Police!EngineRole, EngineRole
<1>3. \A f : Police!Cleared(Police!Step(f)) = Cleared(Step(f))
  BY DEF Police!Cleared, Cleared, Police!Step, Step, Police!NoSlots, NoSlots,
         Police!NoDeadline, NoDeadline, Police!EngineRole, EngineRole
<1>4. \A f : Police!Filled(f) = Filled(f)
  BY DEF Police!Filled, Filled, Police!EngineRole, EngineRole
<1>5. Police!SubmitStatus(m, r, token) = SubmitStatus(m, r, token)
  BY <1>1, <1>4 DEF Police!SubmitStatus, SubmitStatus, Police!EngineRole, EngineRole
<1> QED
  BY <1>1, <1>2, <1>3, <1>5 DEF Police!Submitted, Submitted

LEMMA PoliceReveal ==
  ASSUME NEW p \in Peer, NEW n \in Nat, NEW token \in Token,
         Police!RevealMove(p, n, token, TRUE), pBookTurn \in Nat
  PROVE  LET verdict == Police!RevealVerdict(p, n, token, TRUE)
             g == At["police"]
         IN  \/ /\ verdict = (IF Closed(g) = {p} THEN "resolved" ELSE "waiting")
                /\ Opens(g, p, n, token) /\ Revealed(g, At["police"]', p, token)
             \/ /\ verdict \notin {"waiting", "resolved"} /\ Checked(g, At["police"]')
                /\ ~Opens(g, p, n, token)
                /\ Forfeiting(g) = {} /\ n = Count(g) /\ n = g.bookTurn
                     /\ g.commitments[p] # None /\ Lacking(g) # {}
                     => verdict = "reveal_before_commit"
<1> DEFINE verdict == Police!RevealVerdict(p, n, token, TRUE)
           g == At["police"]
           h == At["police"]'
<1>1. ~(n < pBookTurn) /\ ~(n > pBookTurn) <=> n = pBookTurn
  OBVIOUS
<1>0. /\ g.match = pMatch /\ g.bookTurn = pBookTurn /\ g.commitments = pCommitments
      /\ g.moves = pMoves /\ g.deadline = pDeadline /\ g.forfeitedBy = pForfeitedBy
      /\ h.match = pMatch' /\ h.bookTurn = pBookTurn' /\ h.commitments = pCommitments'
      /\ h.moves = pMoves' /\ h.deadline = pDeadline' /\ h.forfeitedBy = pForfeitedBy'
  BY Fields, FieldsNext
<1>5. /\ Police!Uncommitted = Lacking(g) /\ Police!Unrevealed = Closed(g)
      /\ Police!Forfeiters = Forfeiting(g) /\ TurnCount(pMatch) = Count(g)
      /\ Police!TurnCount(pMatch) = Count(g)
  BY PoliceViews DEF Police!TurnCount, TurnCount
<1> HIDE DEF g, h
<1>2. p \in Police!Peer
  BY PoliceNames
<1>3. CASE verdict \in {"waiting", "resolved"}
  <2>1. /\ Police!Forfeiters = {} /\ n = TurnCount(pMatch)
        /\ Police!Uncommitted = {} /\ pMoves[p] = None /\ token = pCommitments[p]
        /\ ~(n < pBookTurn) /\ ~(n > pBookTurn)
        /\ verdict = IF Police!Unrevealed = {p} THEN "resolved" ELSE "waiting"
    BY <1>3 DEF Police!RevealVerdict, Police!BookReveal, Police!TurnCount, TurnCount
  <2>2. /\ pMoves' = [pMoves EXCEPT ![p] = token]
        /\ pMatch' = IF verdict = "resolved" THEN Police!Resolve(p, token) ELSE pMatch
        /\ UNCHANGED <<pBookTurn, pCommitments, pDeadline, pForfeitedBy>>
    BY <1>3 DEF Police!RevealMove
  <2>3. Police!Resolve(p, token) = Resolved(g, p, token)
    BY <1>0, PoliceBuffer, PoliceNames DEF Police!Resolve, Resolved
  <2>4. Opens(g, p, n, token) /\ verdict = (IF Closed(g) = {p} THEN "resolved" ELSE "waiting")
    BY <1>0, <1>1, <1>5, <2>1 DEF Opens
  <2>5. Revealed(g, h, p, token)
    <3>1. /\ h.moves = [g.moves EXCEPT ![p] = token] /\ h.bookTurn = g.bookTurn
          /\ h.commitments = g.commitments /\ h.deadline = g.deadline
          /\ h.forfeitedBy = g.forfeitedBy
      BY <1>0, <2>2
    <3>2. h.match = IF Closed(g) = {p} THEN Resolved(g, p, token) ELSE g.match
      BY <1>0, <2>2, <2>3, <2>4
    <3> QED
      BY <3>1, <3>2 DEF Revealed
  <2> QED
    BY <2>4, <2>5 DEF g, h
<1>4. CASE verdict \notin {"waiting", "resolved"}
  <2>1. Police!ExpireIfStalled /\ UNCHANGED Police!book
    BY <1>4 DEF Police!RevealMove
  <2>2. Checked(g, h)
    BY <2>1, PoliceViews, Fields, FieldsNext
    DEF g, h, Police!ExpireIfStalled, Police!book, Checked, SameBook, Police!Forfeited, Forfeited
  <2> QED
    <3>1. ~Opens(g, p, n, token)
      BY <1>0, <1>1, <1>2, <1>4, <1>5 DEF Police!RevealVerdict, Police!BookReveal, Opens, Lacking
    <3>2. ASSUME Forfeiting(g) = {}, n = Count(g), n = g.bookTurn,
                 g.commitments[p] # None, Lacking(g) # {}
          PROVE  verdict = "reveal_before_commit"
      BY <1>0, <1>1, <1>2, <1>5, <3>2 DEF Police!RevealVerdict, Police!BookReveal
    <3> QED
      BY <1>4, <2>2, <3>1, <3>2 DEF g, h
<1> QED
  BY <1>3, <1>4 DEF g, h

LEMMA PolicePoll ==
  ASSUME Police!Poll
  PROVE  Checked(At["police"], At["police"]')
BY PoliceViews, Fields, FieldsNext
DEF Police!Poll, Police!ExpireIfStalled, Police!book, Checked, SameBook, Police!Forfeited, Forfeited

LEMMA PoliceTick ==
  ASSUME Police!Tick
  PROVE  Ticked(At["police"], At["police"]')
<1> DEFINE g == At["police"]
           h == At["police"]'
<1>1. /\ g.match = pMatch /\ g.bookTurn = pBookTurn /\ g.commitments = pCommitments
      /\ g.moves = pMoves /\ g.deadline = pDeadline /\ g.forfeitedBy = pForfeitedBy
      /\ h.match = pMatch' /\ h.bookTurn = pBookTurn' /\ h.commitments = pCommitments'
      /\ h.moves = pMoves' /\ h.deadline = pDeadline' /\ h.forfeitedBy = pForfeitedBy'
  BY Fields, FieldsNext
<1>2. \A d : Police!AfterTick(d) = AfterTick(d)
  BY DEF Police!AfterTick, AfterTick, Police!Expired, Expired
<1> HIDE DEF g, h
<1>3. Ticked(g, h)
  BY <1>1, <1>2 DEF Police!Tick, Ticked
<1> QED
  BY <1>3 DEF g, h

LEMMA ThiefNames ==
  /\ Thief!Peer = Peer /\ Thief!EngineRoleOf = EngineRoleOf
  /\ \A p : Thief!Opponent(p) = Other(p)
BY DEF Peer, EngineRoleOf, Other, Police!Peer, Police!EngineRoleOf, Police!Opponent,
       Thief!Peer, Thief!EngineRoleOf, Thief!Opponent

LEMMA ThiefViews ==
  LET g == At["thief"]
  IN  /\ Thief!Uncommitted = Lacking(g) /\ Thief!Unrevealed = Closed(g)
      /\ Thief!StalledRoles = Stalled(g) /\ Thief!Forfeiters = Forfeiting(g)
      /\ TurnCount(tMatch) = Count(g)
<1>1. Thief!Uncommitted = Lacking(At["thief"]) /\ Thief!Unrevealed = Closed(At["thief"])
  <2>1. At["thief"].commitments = tCommitments /\ At["thief"].moves = tMoves
    BY Fields
  <2> QED
    BY <2>1 DEF Thief!Uncommitted, Thief!Unrevealed, Lacking, Closed, Peer, Police!Peer,
           Thief!Peer
<1>2. Thief!StalledRoles = Stalled(At["thief"])
  BY <1>1, Fields DEF Thief!StalledRoles, Stalled, Expired, Thief!Expired
<1> QED
  BY <1>1, <1>2, Fields DEF Thief!Forfeiters, Forfeiting, Count, TurnCount

LEMMA ThiefCommit ==
  ASSUME NEW p \in Peer, NEW n, NEW digest, Thief!SubmitCommitment(p, n, digest, TRUE)
  PROVE  \/ /\ Thief!CommitVerdict(p, n, TRUE) = "accepted"
            /\ Accepts(At["thief"], p, n)
            /\ Committed(At["thief"], At["thief"]', p, n, digest)
         \/ /\ Thief!CommitVerdict(p, n, TRUE) # "accepted"
            /\ ~Accepts(At["thief"], p, n)
            /\ Checked(At["thief"], At["thief"]')
<1>1. Thief!CommitVerdict(p, n, TRUE) = "accepted" <=> Accepts(At["thief"], p, n)
  BY ThiefViews, ThiefNames, Fields
  DEF Thief!CommitVerdict, Accepts, Count, Thief!TurnCount
<1>2. CASE Thief!CommitVerdict(p, n, TRUE) = "accepted"
  <2>1. Thief!Commit(p, n, digest) /\ UNCHANGED <<tMatch, tForfeitedBy>>
    BY <1>2 DEF Thief!SubmitCommitment
  <2>2. Thief!Empty = NoneYet
    BY ThiefNames DEF Thief!Empty, NoneYet
  <2> DEFINE g == At["thief"]  h == At["thief"]'
  <2>3. /\ h.match = g.match /\ h.forfeitedBy = g.forfeitedBy /\ h.bookTurn = n
        /\ h.moves = IF n > g.bookTurn THEN NoneYet ELSE g.moves
    BY <2>1, <2>2, Fields, FieldsNext DEF Thief!Commit
  <2>4. h.deadline = IF n > g.bookTurn \/ g.deadline = NoDeadline
                     THEN Timeout ELSE g.deadline
    BY <2>1, Fields, FieldsNext DEF Thief!Commit, Thief!NoDeadline, NoDeadline
  <2>5. h.commitments = [(IF n > g.bookTurn THEN NoneYet ELSE g.commitments)
                           EXCEPT ![p] = digest]
    BY <2>1, <2>2, Fields, FieldsNext DEF Thief!Commit
  <2> QED
    BY <1>1, <1>2, <2>3, <2>4, <2>5 DEF Committed
<1>3. CASE Thief!CommitVerdict(p, n, TRUE) # "accepted"
  <2>1. Thief!ExpireIfStalled /\ UNCHANGED Thief!book
    BY <1>3 DEF Thief!SubmitCommitment
  <2>2. Checked(At["thief"], At["thief"]')
    BY <2>1, ThiefViews, Fields, FieldsNext
    DEF Thief!ExpireIfStalled, Thief!book, Checked, SameBook, Thief!Forfeited, Forfeited
  <2> QED
    BY <1>1, <1>3, <2>2
<1> QED
  BY <1>2, <1>3

(* The instance's buffer is the buffer of MatchState.                      *)
LEMMA ThiefBuffer ==
  ASSUME NEW m, NEW r, NEW token
  PROVE  /\ Thief!SubmitStatus(m, r, token) = SubmitStatus(m, r, token)
         /\ Thief!Submitted(m, r, token) = Submitted(m, r, token)
<1>1. Thief!ExpireIfStale(m) = ExpireIfStale(m)
  BY DEF Thief!ExpireIfStale, ExpireIfStale, Thief!Filled, Filled, Thief!Cleared, Cleared,
         Thief!Expired, Expired, Thief!EngineRole, EngineRole, Thief!NoSlots, NoSlots,
         Thief!NoDeadline, NoDeadline
<1>2. \A f : Thief!Accept(f, r, token) = Accept(f, r, token)
  BY DEF Thief!Accept, Accept, Thief!Filled, Filled, Thief!EngineRole, EngineRole
<1>3. \A f : Thief!Cleared(Thief!Step(f)) = Cleared(Step(f))
  BY DEF Thief!Cleared, Cleared, Thief!Step, Step, Thief!NoSlots, NoSlots,
         Thief!NoDeadline, NoDeadline, Thief!EngineRole, EngineRole
<1>4. \A f : Thief!Filled(f) = Filled(f)
  BY DEF Thief!Filled, Filled, Thief!EngineRole, EngineRole
<1>5. Thief!SubmitStatus(m, r, token) = SubmitStatus(m, r, token)
  BY <1>1, <1>4 DEF Thief!SubmitStatus, SubmitStatus, Thief!EngineRole, EngineRole
<1> QED
  BY <1>1, <1>2, <1>3, <1>5 DEF Thief!Submitted, Submitted

LEMMA ThiefReveal ==
  ASSUME NEW p \in Peer, NEW n \in Nat, NEW token \in Token,
         Thief!RevealMove(p, n, token, TRUE), tBookTurn \in Nat
  PROVE  LET verdict == Thief!RevealVerdict(p, n, token, TRUE)
             g == At["thief"]
         IN  \/ /\ verdict = (IF Closed(g) = {p} THEN "resolved" ELSE "waiting")
                /\ Opens(g, p, n, token) /\ Revealed(g, At["thief"]', p, token)
             \/ /\ verdict \notin {"waiting", "resolved"} /\ Checked(g, At["thief"]')
                /\ ~Opens(g, p, n, token)
                /\ Forfeiting(g) = {} /\ n = Count(g) /\ n = g.bookTurn
                     /\ g.commitments[p] # None /\ Lacking(g) # {}
                     => verdict = "reveal_before_commit"
<1> DEFINE verdict == Thief!RevealVerdict(p, n, token, TRUE)
           g == At["thief"]
           h == At["thief"]'
<1>1. ~(n < tBookTurn) /\ ~(n > tBookTurn) <=> n = tBookTurn
  OBVIOUS
<1>0. /\ g.match = tMatch /\ g.bookTurn = tBookTurn /\ g.commitments = tCommitments
      /\ g.moves = tMoves /\ g.deadline = tDeadline /\ g.forfeitedBy = tForfeitedBy
      /\ h.match = tMatch' /\ h.bookTurn = tBookTurn' /\ h.commitments = tCommitments'
      /\ h.moves = tMoves' /\ h.deadline = tDeadline' /\ h.forfeitedBy = tForfeitedBy'
  BY Fields, FieldsNext
<1>5. /\ Thief!Uncommitted = Lacking(g) /\ Thief!Unrevealed = Closed(g)
      /\ Thief!Forfeiters = Forfeiting(g) /\ TurnCount(tMatch) = Count(g)
      /\ Thief!TurnCount(tMatch) = Count(g)
  BY ThiefViews DEF Thief!TurnCount, TurnCount
<1> HIDE DEF g, h
<1>2. p \in Thief!Peer
  BY ThiefNames
<1>3. CASE verdict \in {"waiting", "resolved"}
  <2>1. /\ Thief!Forfeiters = {} /\ n = TurnCount(tMatch)
        /\ Thief!Uncommitted = {} /\ tMoves[p] = None /\ token = tCommitments[p]
        /\ ~(n < tBookTurn) /\ ~(n > tBookTurn)
        /\ verdict = IF Thief!Unrevealed = {p} THEN "resolved" ELSE "waiting"
    BY <1>3 DEF Thief!RevealVerdict, Thief!BookReveal, Thief!TurnCount, TurnCount
  <2>2. /\ tMoves' = [tMoves EXCEPT ![p] = token]
        /\ tMatch' = IF verdict = "resolved" THEN Thief!Resolve(p, token) ELSE tMatch
        /\ UNCHANGED <<tBookTurn, tCommitments, tDeadline, tForfeitedBy>>
    BY <1>3 DEF Thief!RevealMove
  <2>3. Thief!Resolve(p, token) = Resolved(g, p, token)
    BY <1>0, ThiefBuffer, ThiefNames DEF Thief!Resolve, Resolved
  <2>4. Opens(g, p, n, token) /\ verdict = (IF Closed(g) = {p} THEN "resolved" ELSE "waiting")
    BY <1>0, <1>1, <1>5, <2>1 DEF Opens
  <2>5. Revealed(g, h, p, token)
    <3>1. /\ h.moves = [g.moves EXCEPT ![p] = token] /\ h.bookTurn = g.bookTurn
          /\ h.commitments = g.commitments /\ h.deadline = g.deadline
          /\ h.forfeitedBy = g.forfeitedBy
      BY <1>0, <2>2
    <3>2. h.match = IF Closed(g) = {p} THEN Resolved(g, p, token) ELSE g.match
      BY <1>0, <2>2, <2>3, <2>4
    <3> QED
      BY <3>1, <3>2 DEF Revealed
  <2> QED
    BY <2>4, <2>5 DEF g, h
<1>4. CASE verdict \notin {"waiting", "resolved"}
  <2>1. Thief!ExpireIfStalled /\ UNCHANGED Thief!book
    BY <1>4 DEF Thief!RevealMove
  <2>2. Checked(g, h)
    BY <2>1, ThiefViews, Fields, FieldsNext
    DEF g, h, Thief!ExpireIfStalled, Thief!book, Checked, SameBook, Thief!Forfeited, Forfeited
  <2> QED
    <3>1. ~Opens(g, p, n, token)
      BY <1>0, <1>1, <1>2, <1>4, <1>5 DEF Thief!RevealVerdict, Thief!BookReveal, Opens, Lacking
    <3>2. ASSUME Forfeiting(g) = {}, n = Count(g), n = g.bookTurn,
                 g.commitments[p] # None, Lacking(g) # {}
          PROVE  verdict = "reveal_before_commit"
      BY <1>0, <1>1, <1>2, <1>5, <3>2 DEF Thief!RevealVerdict, Thief!BookReveal
    <3> QED
      BY <1>4, <2>2, <3>1, <3>2 DEF g, h
<1> QED
  BY <1>3, <1>4 DEF g, h

LEMMA ThiefPoll ==
  ASSUME Thief!Poll
  PROVE  Checked(At["thief"], At["thief"]')
BY ThiefViews, Fields, FieldsNext
DEF Thief!Poll, Thief!ExpireIfStalled, Thief!book, Checked, SameBook, Thief!Forfeited, Forfeited

LEMMA ThiefTick ==
  ASSUME Thief!Tick
  PROVE  Ticked(At["thief"], At["thief"]')
<1> DEFINE g == At["thief"]
           h == At["thief"]'
<1>1. /\ g.match = tMatch /\ g.bookTurn = tBookTurn /\ g.commitments = tCommitments
      /\ g.moves = tMoves /\ g.deadline = tDeadline /\ g.forfeitedBy = tForfeitedBy
      /\ h.match = tMatch' /\ h.bookTurn = tBookTurn' /\ h.commitments = tCommitments'
      /\ h.moves = tMoves' /\ h.deadline = tDeadline' /\ h.forfeitedBy = tForfeitedBy'
  BY Fields, FieldsNext
<1>2. \A d : Thief!AfterTick(d) = AfterTick(d)
  BY DEF Thief!AfterTick, AfterTick, Thief!Expired, Expired
<1> HIDE DEF g, h
<1>3. Ticked(g, h)
  BY <1>1, <1>2 DEF Thief!Tick, Ticked
<1> QED
  BY <1>3 DEF g, h

-----------------------------------------------------------------------------
(* The same of either server: what a call leaves behind.                   *)

LEMMA Apart ==
  /\ UNCHANGED policeServer => At["police"]' = At["police"]
  /\ UNCHANGED thiefServer => At["thief"]' = At["thief"]
BY Fields, FieldsNext DEF policeServer, thiefServer

LEMMA CommitAtServer ==
  ASSUME NEW s \in Peer, NEW p \in Peer, NEW n, NEW digest, CommitAt(s, p, n, digest)
  PROVE  /\ At[Other(s)]' = At[Other(s)]
         /\ \/ /\ CommitVerdict(s, p, n) = "accepted" /\ Accepts(At[s], p, n)
               /\ Committed(At[s], At[s]', p, n, digest)
            \/ /\ CommitVerdict(s, p, n) # "accepted" /\ ~Accepts(At[s], p, n)
               /\ Checked(At[s], At[s]')
<1>1. CASE s = "police"
  BY <1>1, Fields, Apart, PoliceCommit DEF CommitAt, CommitVerdict
<1>2. CASE s = "thief"
  BY <1>2, Fields, Apart, ThiefCommit DEF CommitAt, CommitVerdict
<1> QED
  BY <1>1, <1>2, Fields

LEMMA RevealAtServer ==
  ASSUME NEW s \in Peer, NEW p \in Peer, NEW n \in Nat, NEW token \in Token,
         At[s].bookTurn \in Nat, RevealAt(s, p, n, token)
  PROVE  /\ At[Other(s)]' = At[Other(s)]
         /\ \/ /\ RevealVerdict(s, p, n, token)
                    = (IF Closed(At[s]) = {p} THEN "resolved" ELSE "waiting")
               /\ Opens(At[s], p, n, token) /\ Revealed(At[s], At[s]', p, token)
            \/ /\ RevealVerdict(s, p, n, token) \notin {"waiting", "resolved"}
               /\ Checked(At[s], At[s]') /\ ~Opens(At[s], p, n, token)
               /\ Forfeiting(At[s]) = {} /\ n = Count(At[s]) /\ n = At[s].bookTurn
                    /\ At[s].commitments[p] # None /\ Lacking(At[s]) # {}
                    => RevealVerdict(s, p, n, token) = "reveal_before_commit"
<1>1. CASE s = "police"
  <2>1. pBookTurn \in Nat
    BY <1>1, Fields
  <2>2. Police!RevealMove(p, n, token, TRUE) /\ UNCHANGED thiefServer
    BY <1>1, Fields DEF RevealAt
  <2>3. RevealVerdict(s, p, n, token) = Police!RevealVerdict(p, n, token, TRUE)
    BY <1>1 DEF RevealVerdict
  <2> QED
    BY <1>1, <2>1, <2>2, <2>3, Fields, Apart, PoliceReveal
<1>2. CASE s = "thief"
  <2>1. tBookTurn \in Nat
    BY <1>2, Fields
  <2>2. Thief!RevealMove(p, n, token, TRUE) /\ UNCHANGED policeServer
    BY <1>2, Fields DEF RevealAt
  <2>3. RevealVerdict(s, p, n, token) = Thief!RevealVerdict(p, n, token, TRUE)
    BY <1>2 DEF RevealVerdict
  <2> QED
    BY <1>2, <2>1, <2>2, <2>3, Fields, Apart, ThiefReveal
<1> QED
  BY <1>1, <1>2, Fields

LEMMA PollAtServer ==
  ASSUME NEW s \in Peer, PollAt(s)
  PROVE  At[Other(s)]' = At[Other(s)] /\ Checked(At[s], At[s]')
<1>1. CASE s = "police"
  BY <1>1, Fields, Apart, PolicePoll DEF PollAt
<1>2. CASE s = "thief"
  BY <1>2, Fields, Apart, ThiefPoll DEF PollAt
<1> QED
  BY <1>1, <1>2, Fields

LEMMA TickAtServer ==
  ASSUME NEW s \in Peer, Tick(s)
  PROVE  At[Other(s)]' = At[Other(s)] /\ Ticked(At[s], At[s]')
<1>1. CASE s = "police"
  BY <1>1, Fields, Apart, PoliceTick DEF Tick
<1>2. CASE s = "thief"
  BY <1>2, Fields, Apart, ThiefTick DEF Tick
<1> QED
  BY <1>1, <1>2, Fields

-----------------------------------------------------------------------------
(* Every handler leaves a server sound.  A check for a stall is quiet: it  *)
(* may record a forfeit, of a turn that was opened and never twice.        *)

Quiet(g, h) ==
  /\ h.match.played = g.match.played /\ h.match.over = g.match.over
  /\ h.bookTurn = g.bookTurn /\ h.commitments = g.commitments /\ h.moves = g.moves
  /\ g.forfeitedBy # {} => h.forfeitedBy = g.forfeitedBy
  /\ h.forfeitedBy # g.forfeitedBy
       => /\ g.deadline = Expired /\ g.bookTurn = Count(g)
          /\ \E p \in Peer : g.commitments[p] # None

LEMMA StalledOpen ==
  ASSUME NEW g, Sound(g), Stalled(g) # {}
  PROVE  /\ g.deadline = Expired /\ g.bookTurn = Count(g)
         /\ \E p \in Peer : g.commitments[p] # None
<1>1. g.deadline = Expired
  BY DEF Stalled
<1>2. Lacking(g) # Peer
  BY <1>1 DEF Sound, Expired, NoDeadline
<1>3. \E p \in Peer : g.commitments[p] # None
  BY <1>2 DEF Lacking
<1>4. g.bookTurn \in Nat /\ Count(g) \in Nat
  BY DEF Sound, Typed, Count, MatchOf
<1>5. Lacking(g) = {} => Closed(g) # {}
  BY <1>1 DEF Stalled
<1>6. Closed(g) # {}
  <2>1. ASSUME Lacking(g) # {} PROVE Closed(g) # {}
    BY <2>1, Fields DEF Sound, Closed
  <2> QED
    BY <1>5, <2>1
<1> QED
  BY <1>1, <1>3, <1>4, <1>6 DEF Sound

LEMMA CheckedSound ==
  ASSUME NEW g, NEW h, Sound(g), Checked(g, h)
  PROVE  Sound(h) /\ Quiet(g, h)
<1>1. g.match \in MatchOf(Peer) /\ Stalled(g) \in SUBSET Peer
  BY DEF Sound, Typed, Stalled, Lacking, Closed
<1>2. /\ h.match \in MatchOf(Peer) /\ h.match.forfeits = h.forfeitedBy
      /\ h.match.played = g.match.played /\ h.match.over = g.match.over
      /\ h.match.slots = g.match.slots /\ h.match.left = g.match.left
  <2>1. g.match.forfeits = g.forfeitedBy
    BY DEF Sound
  <2>2. CASE g.forfeitedBy # {}
    BY <1>1, <2>1, <2>2 DEF Checked, Forfeiting
  <2>3. CASE g.forfeitedBy = {} /\ Stalled(g) = {}
    BY <1>1, <2>1, <2>3 DEF Checked, Forfeiting, Forfeited
  <2>4. CASE g.forfeitedBy = {} /\ Stalled(g) # {}
    <3>1. h.match = [g.match EXCEPT !.forfeits = Stalled(g)] /\ h.forfeitedBy = Stalled(g)
      BY <2>4 DEF Checked, Forfeiting, Forfeited
    <3> QED
      BY <1>1, <3>1 DEF MatchOf
  <2> QED
    BY <2>2, <2>3, <2>4
<1>3. SameBook(g, h) /\ h.forfeitedBy = Forfeiting(g) /\ h.forfeitedBy \in SUBSET Peer
  BY <1>1 DEF Checked, Forfeiting, Sound, Typed
<1>4. Lacking(h) = Lacking(g) /\ Closed(h) = Closed(g) /\ Count(h) = Count(g)
  BY <1>2, <1>3 DEF SameBook, Lacking, Closed, Count
<1>5. Sound(h)
  BY <1>2, <1>3, <1>4 DEF Sound, Typed, SameBook
<1>6. Quiet(g, h)
  BY <1>2, <1>3, StalledOpen DEF Quiet, SameBook, Forfeiting
<1> QED
  BY <1>5, <1>6

CommitOutcome(g, h, p, token) ==
  /\ Sound(h) /\ g.forfeitedBy = {} /\ h.forfeitedBy = {}
  /\ h.bookTurn = Count(g) /\ h.commitments[p] = token
  /\ h.moves = NoneYet
  /\ \A q \in Peer : q # p =>
       h.commitments[q] = IF g.bookTurn = Count(g) THEN g.commitments[q] ELSE None

LEMMA CommittedSound ==
  ASSUME NEW g, NEW h, NEW p \in Peer, NEW n, NEW token \in Token,
         Sound(g), Accepts(g, p, n), Committed(g, h, p, n, token)
  PROVE  CommitOutcome(g, h, p, token)
<1>1. /\ n = Count(g) /\ n \in Nat /\ g.bookTurn \in Nat /\ g.bookTurn <= n
      /\ g.forfeitedBy = {} /\ h.forfeitedBy = {} /\ h.match = g.match
      /\ h.bookTurn = n /\ g.commitments \in [Peer -> Digests]
      /\ n = g.bookTurn => g.commitments[p] = None
  BY DEF Accepts, Committed, Forfeiting, Sound, Typed, Count, MatchOf
<1>2. /\ h.commitments \in [Peer -> Digests] /\ h.commitments[p] = token
      /\ \A q \in Peer : q # p =>
           h.commitments[q] = IF g.bookTurn = Count(g) THEN g.commitments[q] ELSE None
  <2>1. CASE n > g.bookTurn
    <3>1. h.commitments = [NoneYet EXCEPT ![p] = token]
      BY <2>1 DEF Committed
    <3> QED
      BY <1>1, <2>1, <3>1 DEF NoneYet, Digests
  <2>2. CASE n = g.bookTurn
    <3>1. h.commitments = [g.commitments EXCEPT ![p] = token]
      BY <1>1, <2>2 DEF Committed
    <3> QED
      BY <1>1, <2>2, <3>1 DEF Digests
  <2> QED
    BY <1>1, <2>1, <2>2
<1>3. h.moves = NoneYet
  <2>1. CASE n > g.bookTurn
    BY <2>1 DEF Committed
  <2>2. CASE n = g.bookTurn
    <3>1. p \in Lacking(g) /\ h.moves = g.moves
      BY <1>1, <2>2 DEF Lacking, Committed
    <3>2. \A q \in Peer : g.moves[q] = None
      BY <3>1 DEF Sound
    <3> QED
      BY <3>1, <3>2 DEF NoneYet, Sound, Typed
  <2> QED
    BY <1>1, <2>1, <2>2
<1>4. Closed(h) = Peer /\ p \notin Lacking(h)
  BY <1>2, <1>3, MatchAssumption DEF Closed, NoneYet, Lacking
<1>5. h.deadline \in Deadline /\ h.deadline # NoDeadline
  BY MatchAssumption DEF Committed, Deadline, NoDeadline, Sound, Typed
<1>6. Typed(h)
  BY <1>1, <1>2, <1>3, <1>5 DEF Typed, NoneYet, Sound
<1>7. Sound(h)
  BY <1>1, <1>3, <1>4, <1>5, <1>6, Fields DEF Sound, Count, NoneYet
<1> QED
  BY <1>1, <1>2, <1>3, <1>7 DEF CommitOutcome

LEMMA TickedSound ==
  ASSUME NEW g, NEW h, Sound(g), Ticked(g, h)
  PROVE  Sound(h) /\ Quiet(g, h)
<1>1. g.match \in MatchOf(Peer) /\ g.match.left = NoDeadline
  BY DEF Sound, Typed
<1>2. h.match = g.match
  BY <1>1 DEF Ticked, MatchOf, AfterTick, NoDeadline, Expired
<1>3. h.deadline \in Deadline /\ (h.deadline = NoDeadline <=> g.deadline = NoDeadline)
  BY MatchAssumption DEF Ticked, Sound, Typed, Deadline, AfterTick, NoDeadline, Expired
<1>4. Lacking(h) = Lacking(g) /\ Closed(h) = Closed(g) /\ Count(h) = Count(g)
  BY <1>2 DEF Ticked, Lacking, Closed, Count
<1> QED
  BY <1>2, <1>3, <1>4 DEF Sound, Typed, Ticked, Quiet

(* The pair of a turn, as both books hold it.                              *)
Pair(g) ==
  PairOf(EngineRoleOf["police"], g.commitments["police"], g.commitments["thief"])

LEMMA PairAt ==
  ASSUME NEW g, NEW p \in Peer
  PROVE  Pair(g)[EngineRoleOf[p]] = g.commitments[p]
BY Fields, PoliceNames
DEF Pair, PairOf, EngineRoleOf, Police!EngineRoleOf, Police!Peer, Peer, EngineRole

RevealOutcome(g, h, p, token) ==
  /\ Sound(h) /\ g.forfeitedBy = {} /\ h.forfeitedBy = {}
  /\ h.bookTurn = g.bookTurn /\ h.commitments = g.commitments
  /\ g.bookTurn = Count(g) /\ h.moves[p] = token
  /\ \A q \in Peer : q # p => h.moves[q] = g.moves[q]
  /\ h.match = IF Closed(g) = {p} THEN Played(g.match, Pair(g)) ELSE g.match
  /\ Closed(g) = {p} => Pair(g) \in [EngineRole -> Token]

LEMMA RevealedSound ==
  ASSUME NEW g, NEW h, NEW p \in Peer, NEW n, NEW token \in Token,
         Sound(g), Opens(g, p, n, token), Revealed(g, h, p, token)
  PROVE  RevealOutcome(g, h, p, token)
<1> DEFINE q == Other(p)
<1>1. /\ g.bookTurn = Count(g) /\ n = Count(g) /\ Count(g) \in Nat /\ Lacking(g) = {}
      /\ g.moves[p] = None /\ token = g.commitments[p] /\ g.forfeitedBy = {}
      /\ g.match \in MatchOf(Peer) /\ g.moves \in [Peer -> Token \cup {None}]
  BY DEF Opens, Forfeiting, Sound, Typed, Count, MatchOf
<1>2. q \in Peer /\ q # p /\ \A r \in Peer : r = p \/ r = q
  BY Fields
<1>3. ASSUME Closed(g) = {p}
      PROVE  /\ h.match = Played(g.match, Pair(g)) /\ Pair(g) \in [EngineRole -> Token]
             /\ g.moves[q] \in Token
  <2>1. g.moves[q] \in Token /\ g.moves[q] = g.commitments[q]
    BY <1>1, <1>2, <1>3 DEF Closed, Sound
  <2>2. /\ EngineRoleOf[p] \in EngineRole /\ EngineRoleOf[q] \in EngineRole
        /\ EngineRoleOf[p] # EngineRoleOf[q]
        /\ EngineRole = {EngineRoleOf[p], EngineRoleOf[q]}
    BY <1>2, Fields DEF EngineRoleOf, Police!EngineRoleOf, Police!Peer, Peer, EngineRole
  <2>3. PairOf(EngineRoleOf[q], g.moves[q], token) = Pair(g)
    BY <1>1, <1>2, <2>1, <2>2, Fields
    DEF Pair, PairOf, EngineRoleOf, Police!EngineRoleOf, Police!Peer, Peer, EngineRole
  <2>4. Pair(g) \in [EngineRole -> Token]
    BY <2>1, <2>3 DEF PairOf
  <2>5. g.match.slots = NoSlots /\ g.match.left = NoDeadline
    BY DEF Sound
  <2>6. /\ SubmitStatus(g.match, EngineRoleOf[q], g.moves[q]) = "waiting"
        /\ Submitted(Submitted(g.match, EngineRoleOf[q], g.moves[q]), EngineRoleOf[p], token)
             = Played(g.match, PairOf(EngineRoleOf[q], g.moves[q], token))
    BY <1>1, <2>1, <2>2, <2>5, TwoSubmissions
  <2>7. Resolved(g, p, token) = Played(g.match, Pair(g))
    BY <2>3, <2>6 DEF Resolved
  <2> QED
    BY <1>3, <2>1, <2>4, <2>7 DEF Revealed
<1>4. /\ h.moves \in [Peer -> Token \cup {None}] /\ h.moves[p] = token
      /\ h.moves[q] = g.moves[q] /\ h.bookTurn = g.bookTurn
      /\ h.commitments = g.commitments /\ h.deadline = g.deadline /\ h.forfeitedBy = {}
  BY <1>1, <1>2 DEF Revealed
<1>5. Lacking(h) = {} /\ p \notin Closed(h) /\ \A r \in Peer : h.moves[r] # None
                                                => h.moves[r] = h.commitments[r]
  BY <1>1, <1>2, <1>4, MatchAssumption DEF Lacking, Closed, Sound
<1>6. ASSUME Closed(g) # {p} \/ g.match.over PROVE Sound(h)
  <2>1. h.match = g.match
    BY <1>3, <1>6 DEF Revealed, Played
  <2>2. Closed(h) = {} => g.match.over
    <3>1. ASSUME Closed(h) = {}, Closed(g) # {p} PROVE FALSE
      <4>1. g.moves[q] # None
        BY <1>2, <1>4, <3>1 DEF Closed
      <4> QED
        BY <1>1, <1>2, <3>1, <4>1 DEF Closed
    <3> QED
      BY <1>6, <3>1
  <2>3. Typed(h)
    BY <1>1, <1>4, <2>1 DEF Sound, Typed
  <2>4. Count(h) = Count(g)
    BY <2>1 DEF Count
  <2> QED
    BY <1>1, <1>2, <1>3, <1>4, <1>5, <2>1, <2>2, <2>3, <2>4 DEF Sound, Lacking
<1>7. ASSUME Closed(g) = {p}, ~g.match.over PROVE Sound(h)
  <2> DEFINE log == Append(g.match.played, Pair(g))
  <2>1. h.match = [g.match EXCEPT !.played = log, !.over = Ends(log)]
    BY <1>3, <1>7 DEF Played
  <2>2. g.match.played \in Seq([EngineRole -> Token]) /\ Pair(g) \in [EngineRole -> Token]
    BY <1>1, <1>3, <1>7 DEF MatchOf
  <2>3. log \in Seq([EngineRole -> Token]) /\ Len(log) = Count(g) + 1 /\ log # <<>>
    BY <2>2, AppendProperties DEF Count
  <2>4. Ends(log) \in BOOLEAN
    BY DEF Ends
  <2>5. /\ h.match \in MatchOf(Peer) /\ h.match.played = log /\ h.match.over = Ends(log)
        /\ h.match.slots = g.match.slots /\ h.match.left = g.match.left
        /\ h.match.forfeits = g.match.forfeits
    BY <1>1, <2>1, <2>3, <2>4 DEF MatchOf
  <2>6. Closed(h) = {} /\ Count(h) = Count(g) + 1
    BY <1>2, <1>4, <1>5, <1>7, <2>3, <2>5 DEF Closed, Count
  <2>7. Count(g) + 1 <= MaxMoves
    BY <1>1, <1>7, MatchAssumption, RemoteAssumption DEF Sound, IsOver, Ends, Count
  <2>8. h.match.over <=> IsOver(h.match.played)
    BY <2>3, <2>5 DEF IsOver
  <2>9. Typed(h)
    BY <1>1, <1>4, <2>5 DEF Sound, Typed
  <2> QED
    BY <1>1, <1>4, <1>5, <2>5, <2>6, <2>7, <2>8, <2>9 DEF Sound
<1>8. h.match = IF Closed(g) = {p} THEN Played(g.match, Pair(g)) ELSE g.match
  BY <1>3 DEF Revealed
<1>9. \A r \in Peer : r # p => h.moves[r] = g.moves[r]
  BY <1>2, <1>4
<1> QED
  BY <1>1, <1>3, <1>4, <1>6, <1>7, <1>8, <1>9 DEF RevealOutcome

-----------------------------------------------------------------------------
(* What a handler does to the two servers and the drivers together, before *)
(* the driver that called it moves on.                                     *)

Whole(A) ==
  /\ Shape /\ \A s \in Peer : Sound(A[s])
  /\ Together(A) /\ Alike(A) /\ Truthful(A)

LEMMA Numbers ==
  ASSUME NEW g, Sound(g)
  PROVE  /\ Count(g) \in Nat /\ g.bookTurn \in Nat /\ g.forfeitedBy \in SUBSET Peer
         /\ g.match.played \in Seq([EngineRole -> Token])
         /\ DOMAIN g.match.played = 1 .. Count(g)
BY DEF Sound, Typed, Count, MatchOf

(* A server at the turn of a submission on its book is not over.           *)
LEMMA OpenTurn ==
  ASSUME NEW A, Whole(A), NEW s \in Peer, NEW p \in Peer, A[s].bookTurn = Count(A[s]),
         A[s].forfeitedBy = {}, A[s].commitments[p] # None
  PROVE  /\ turn[p] = Count(A[s]) /\ A[s].commitments[p] = move[p] /\ pc[p] # "done"
         /\ ~A[s].match.over
<1>1. turn[p] = Count(A[s]) /\ A[s].commitments[p] = move[p] /\ pc[p] # "done"
  BY DEF Whole, Together, Sealed
<1>2. Count(A[s]) \in Nat /\ Stops(A[s], p)
  BY Numbers DEF Whole, Together
<1> QED
  BY <1>1, <1>2 DEF Stops

LEMMA QuietPhase ==
  ASSUME NEW A, NEW B, Whole(A), NEW s \in Peer,
         B[Other(s)] = A[Other(s)], Sound(B[s]), Quiet(A[s], B[s])
  PROVE  Whole(B)
<1>1. \A r \in Peer : r = s \/ r = Other(s)
  BY Fields
<1>2. \A r \in Peer : Sound(B[r]) /\ Quiet(A[r], B[r]) /\ Count(B[r]) = Count(A[r])
  BY <1>1 DEF Whole, Quiet, Count
<1>3. OneOutcome(B[s])
  <2> SUFFICES ASSUME B[s].match.over, B[s].forfeitedBy # {} PROVE FALSE
    BY DEF OneOutcome
  <2>1. A[s].match.over /\ A[s].forfeitedBy = {}
    BY DEF Quiet, Whole, Alike, OneOutcome
  <2> QED
    BY <2>1, OpenTurn DEF Quiet
<1>4. Together(B)
  BY <1>2 DEF Whole, Together, InTurn, Sealed, Opened, Stops, Quiet
<1>5. Alike(B)
  BY <1>1, <1>2, <1>3, Fields DEF Whole, Alike, Quiet, OneOutcome
<1>6. Truthful(B)
  <2> SUFFICES ASSUME NEW p \in Peer PROVE Resolution(B, p) /\ Polling(B, p) /\ History(B, p)
    BY DEF Truthful
  <2>1. Resolution(B, p)
    BY <1>2 DEF Whole, Truthful, Resolution, Quiet
  <2>2. \A r \in Peer : \A answer : Told(A[r], p, answer) => Told(B[r], p, answer)
    BY <1>2 DEF Told, Quiet
  <2>3. Server(p, 0) \in Peer /\ Server(p, 1) \in Peer
    BY Fields DEF Server
  <2>4. Polling(B, p)
    BY <1>2, <2>2, <2>3 DEF Whole, Truthful, Polling, Quiet
  <2>5. \A n : \A result : Kept(A, n, result) => Kept(B, n, result)
    BY <1>2 DEF Kept, Quiet
  <2>6. History(B, p)
    BY <2>5 DEF Whole, Truthful, History
  <2> QED
    BY <2>1, <2>4, <2>6
<1> QED
  BY <1>2, <1>4, <1>5, <1>6 DEF Whole

LEMMA CommitPhase ==
  ASSUME NEW A, NEW B, Whole(A), NEW s \in Peer, NEW p \in Peer, pc[p] # "done",
         B[Other(s)] = A[Other(s)], Accepts(A[s], p, turn[p]),
         Committed(A[s], B[s], p, turn[p], move[p])
  PROVE  Whole(B)
<1>1. \A r \in Peer : r = s \/ r = Other(s)
  BY Fields
<1>2. move[p] \in Token /\ turn \in [Peer -> Nat] /\ Sound(A[s])
  BY DEF Whole, Shape
<1>3. /\ Sound(B[s]) /\ A[s].forfeitedBy = {} /\ B[s].forfeitedBy = {}
      /\ B[s].bookTurn = Count(A[s]) /\ B[s].commitments[p] = move[p]
      /\ B[s].moves = NoneYet
      /\ \A q \in Peer : q # p =>
           B[s].commitments[q] = IF A[s].bookTurn = Count(A[s])
                                 THEN A[s].commitments[q] ELSE None
  <2> DEFINE g == A[s]  h == B[s]  n == turn[p]  token == move[p]
  <2>1. Sound(g) /\ Accepts(g, p, n) /\ Committed(g, h, p, n, token) /\ token \in Token
    BY <1>2
  <2> HIDE DEF g, h, n, token
  <2>2. CommitOutcome(g, h, p, token)
    BY <2>1, CommittedSound
  <2> QED
    BY <2>2 DEF CommitOutcome, g, h, token
<1>4. /\ B[s].match = A[s].match /\ Count(B[s]) = Count(A[s]) /\ turn[p] = Count(A[s])
      /\ A[s].bookTurn = Count(A[s]) => A[s].commitments[p] = None
  BY DEF Committed, Accepts, Count
<1>5. \A r \in Peer : /\ Sound(B[r]) /\ B[r].match = A[r].match /\ Count(B[r]) = Count(A[r])
                      /\ B[r].forfeitedBy = A[r].forfeitedBy
  BY <1>1, <1>3, <1>4 DEF Whole
<1>6. \A q \in Peer : Sealed(B[s], q)
  BY <1>3, <1>4 DEF Whole, Together, Sealed
<1>7. \A q \in Peer : InTurn(B[s], q) /\ Stops(B[s], q)
  BY <1>3, <1>4 DEF Whole, Together, InTurn, Stops
<1>8. \A q \in Peer : Opened(B[s], q, s)
  <2> SUFFICES ASSUME NEW q \in Peer, Opened(A[s], q, s),
                      A[s].bookTurn = Count(A[s]), A[s].moves[q] # None
               PROVE  FALSE
    BY <1>3, <1>4 DEF Whole, Together, Opened
  <2> QED
    BY <1>2, <1>4 DEF Sound, Lacking
<1>9. Together(B)
  BY <1>1, <1>6, <1>7, <1>8 DEF Whole, Together
<1>10. Alike(B)
  BY <1>5, Fields DEF Whole, Alike, OneOutcome
<1>11. Truthful(B)
  <2> SUFFICES ASSUME NEW r \in Peer PROVE Resolution(B, r) /\ Polling(B, r) /\ History(B, r)
    BY DEF Truthful
  <2>1. Server(r, 0) \in Peer /\ Server(r, 1) \in Peer
    BY Fields DEF Server
  <2>2. Resolution(B, r) /\ Polling(B, r)
    BY <1>5, <2>1 DEF Whole, Truthful, Resolution, Polling, Told
  <2>3. History(B, r)
    BY <1>5 DEF Whole, Truthful, History, Kept
  <2> QED
    BY <2>2, <2>3
<1> QED
  BY <1>5, <1>9, <1>10, <1>11 DEF Whole

(* The reveal that does not complete the turn: only the book moves.        *)
LEMMA WaitingPhase ==
  ASSUME NEW A, NEW B, Whole(A), NEW s \in Peer, NEW p \in Peer,
         B[Other(s)] = A[Other(s)], Sound(B[s]), B[s].match = A[s].match,
         B[s].forfeitedBy = A[s].forfeitedBy, B[s].bookTurn = A[s].bookTurn,
         B[s].commitments = A[s].commitments,
         \A q \in Peer : A[s].moves[q] # None => B[s].moves[q] # None
  PROVE  Whole(B)
<1>1. \A r \in Peer : r = s \/ r = Other(s)
  BY Fields
<1>2. \A r \in Peer : /\ Sound(B[r]) /\ B[r].match = A[r].match /\ Count(B[r]) = Count(A[r])
                      /\ B[r].forfeitedBy = A[r].forfeitedBy
                      /\ B[r].bookTurn = A[r].bookTurn /\ B[r].commitments = A[r].commitments
                      /\ \A q \in Peer : A[r].moves[q] # None => B[r].moves[q] # None
  BY <1>1 DEF Whole, Count
<1>3. Together(B)
  BY <1>2 DEF Whole, Together, InTurn, Sealed, Opened, Stops
<1>4. Alike(B)
  BY <1>2, Fields DEF Whole, Alike, OneOutcome
<1>5. Truthful(B)
  <2> SUFFICES ASSUME NEW r \in Peer PROVE Resolution(B, r) /\ Polling(B, r) /\ History(B, r)
    BY DEF Truthful
  <2>1. Server(r, 0) \in Peer /\ Server(r, 1) \in Peer
    BY Fields DEF Server
  <2>2. Resolution(B, r) /\ Polling(B, r)
    BY <1>2, <2>1 DEF Whole, Truthful, Resolution, Polling, Told
  <2>3. History(B, r)
    BY <1>2 DEF Whole, Truthful, History, Kept
  <2> QED
    BY <2>2, <2>3
<1> QED
  BY <1>2, <1>3, <1>4, <1>5 DEF Whole

(* The reveal that completes the turn: the pair both drivers submitted is  *)
(* played, and it is the pair the other server plays or has played.        *)
LEMMA PlayingPhase ==
  ASSUME NEW A, NEW B, Whole(A), NEW s \in Peer, NEW p \in Peer,
         B[Other(s)] = A[Other(s)], Opens(A[s], p, turn[p], move[p]),
         Sound(B[s]), B[s].forfeitedBy = {}, B[s].bookTurn = Count(A[s]),
         Pair(A[s]) \in [EngineRole -> Token],
         B[s].match = Played(A[s].match, Pair(A[s]))
  PROVE  Whole(B)
<1> DEFINE g == A[s]  h == B[s]  o == A[Other(s)]  n == Count(A[s])
<1>1. \A r \in Peer : r = s \/ r = Other(s)
  BY Fields
<1>2. Sound(g) /\ Sound(o) /\ Other(s) \in Peer
  BY Fields DEF Whole
<1>3. /\ n \in Nat /\ Count(o) \in Nat /\ g.match.played \in Seq([EngineRole -> Token])
      /\ o.match.played \in Seq([EngineRole -> Token]) /\ n = Len(g.match.played)
      /\ g.forfeitedBy = {} /\ g.bookTurn = n /\ turn \in [Peer -> Nat]
  BY <1>2, Numbers DEF Opens, Forfeiting, Count, Whole, Shape
<1>4. ~g.match.over /\ \A r \in Peer : turn[r] = n /\ g.commitments[r] = move[r]
  <2>1. \A r \in Peer : g.commitments[r] # None
    BY DEF Opens, Lacking
  <2>2. A[s].bookTurn = Count(A[s]) /\ A[s].forfeitedBy = {}
    BY <1>3
  <2>3. ASSUME NEW r \in Peer
        PROVE  turn[r] = n /\ g.commitments[r] = move[r] /\ ~g.match.over
    BY <2>1, <2>2, OpenTurn
  <2> QED
    BY <2>3, Fields
<1>5. /\ h.match.played = Append(g.match.played, Pair(g))
      /\ Count(h) = n + 1 /\ h.match.played[n + 1] = Pair(g)
      /\ \A i \in 1 .. n : h.match.played[i] = g.match.played[i]
  <2>1. g.match \in MatchOf(Peer)
    BY <1>2 DEF Sound, Typed
  <2>2. h.match.played = Append(g.match.played, Pair(g))
    BY <1>4, <2>1 DEF Played, MatchOf
  <2> QED
    BY <1>3, <2>2, AppendProperties DEF Count
<1>6. \A r \in Peer : Pair(g)[EngineRoleOf[r]] = move[r]
  BY <1>4, PairAt
<1>7. n <= Count(o) /\ Count(o) <= n + 1
  <2>1. \A r \in Peer : InTurn(o, r)
    BY <1>2 DEF Whole, Together
  <2>2. ASSUME ~(n <= Count(o)) PROVE FALSE
    <3>1. /\ o.forfeitedBy # {} /\ o.bookTurn = Count(o)
          /\ \A r \in Peer : o.moves[r] # None
      BY <1>2, <1>3, <1>4, <2>1, <2>2 DEF InTurn
    <3>2. o.match.over
      BY <1>2, <3>1 DEF Sound, Closed
    <3> QED
      BY <1>2, <3>1, <3>2 DEF Whole, Alike, OneOutcome
  <2> QED
    BY <1>3, <1>4, <2>1, <2>2, Fields DEF InTurn
<1>8. Count(o) = n + 1 => o.match.played[n + 1] = Pair(g)
  <2> SUFFICES ASSUME Count(o) = n + 1 PROVE o.match.played[n + 1] = Pair(g)
    OBVIOUS
  <2>1. \A r \in Peer : o.match.played[n + 1][EngineRoleOf[r]] = move[r]
    BY <1>2, <1>4 DEF Whole, Together, InTurn, Mine, EngineRoleOf
  <2>2. o.match.played[n + 1] \in [EngineRole -> Token]
    <3>1. Len(o.match.played) = n + 1 /\ n + 1 \in 1 .. n + 1
      BY <1>3 DEF Count
    <3> QED
      BY <1>3, <3>1, ElementOfSeq
  <2>3. \A e \in EngineRole : \E r \in Peer : EngineRoleOf[r] = e
    BY Fields DEF EngineRole, EngineRoleOf, Police!EngineRoleOf, Police!Peer, Peer
  <2> QED
    BY <1>6, <2>1, <2>2, <2>3
<1>9. Together(B)
  <2>1. \A r \in Peer : Mine(h.match.played, r)
    BY <1>4, <1>5, <1>6 DEF Mine, EngineRoleOf
  <2>2. \A r \in Peer : InTurn(h, r) /\ Sealed(h, r) /\ Opened(h, r, s) /\ Stops(h, r)
    BY <1>3, <1>4, <1>5, <2>1 DEF InTurn, Sealed, Opened, Stops
  <2> QED
    BY <1>1, <2>2 DEF Whole, Together
<1>10. Alike(B)
  <2>1. SamePlay(g.match.played, o.match.played) /\ SamePlay(o.match.played, g.match.played)
    BY <1>2, Fields DEF Whole, Alike
  <2>2. SamePlay(h.match.played, o.match.played) /\ SamePlay(o.match.played, h.match.played)
    <3>1. Len(h.match.played) = n + 1 /\ Len(o.match.played) = Count(o)
      BY <1>5 DEF Count
    <3>2. ASSUME NEW i \in 1 .. n, i <= Count(o)
          PROVE  h.match.played[i] = o.match.played[i]
      BY <1>3, <1>5, <2>1, <3>2 DEF SamePlay, Count
    <3>3. ASSUME NEW i \in 1 .. n + 1, i <= Count(o)
          PROVE  h.match.played[i] = o.match.played[i]
      <4>1. CASE i \in 1 .. n
        BY <3>2, <3>3, <4>1
      <4>2. CASE i = n + 1
        BY <1>3, <1>5, <1>7, <1>8, <3>3, <4>2
      <4>3. i \in 1 .. n \/ i = n + 1
        <5> HIDE DEF n
        <5>1. n \in Nat
          BY <1>3
        <5> QED
          BY <5>1
      <4> QED
        BY <4>1, <4>2, <4>3
    <3> QED
      BY <1>3, <3>1, <3>3 DEF SamePlay
  <2>3. Count(h) - Count(o) <= 1 /\ Count(o) - Count(h) <= 1
    BY <1>3, <1>5, <1>7
  <2>4. OneOutcome(h) /\ OneOutcome(o)
    BY <1>2 DEF OneOutcome, Whole, Alike
  <2> QED
    BY <1>1, <2>2, <2>3, <2>4, Fields DEF Alike
<1>11. ASSUME NEW r \in Peer
       PROVE  Resolution(B, r) /\ Polling(B, r) /\ History(B, r)
  <2>1. Resolution(B, r)
    BY <1>1, <1>3, <1>4 DEF Whole, Truthful, Resolution
  <2>2. \A answer : Told(g, r, answer) => ~Settled(answer, r) /\ Told(h, r, answer)
    BY <1>3, <1>4 DEF Told
  <2>3. \A t \in Peer : \A answer : Told(A[t], r, answer) => Told(B[t], r, answer)
    BY <1>1, <2>2
  <2>4. pc[r] \notin {"observe0", "observe1"}
    <3>1. Server(r, 0) = s \/ Server(r, 1) = s
      BY Fields DEF Server
    <3> QED
      BY <2>2, <3>1 DEF Whole, Truthful, Polling
  <2>5. Polling(B, r)
    BY <2>3, <2>4 DEF Whole, Truthful, Polling
  <2>6. ASSUME NEW k \in 1 .. turn[r], NEW result, Kept(A, k, result)
        PROVE  Kept(B, k, result)
    <3>1. CASE result.reason = "technical_loss"
      BY <1>1, <1>3, <2>6, <3>1 DEF Kept
    <3>2. CASE result.reason # "technical_loss"
      <4>1. k \in 1 .. n /\ Len(result.cop) = k /\ SamePlay(result.cop, g.match.played)
        BY <1>3, <1>4, <2>6, <3>2 DEF Kept, Story
      <4>2. SamePlay(result.cop, h.match.played)
        BY <1>3, <1>5, <4>1 DEF SamePlay, Count
      <4> QED
        BY <1>1, <2>6, <3>2, <4>2 DEF Kept
    <3> QED
      BY <3>1, <3>2
  <2>7. History(B, r)
    BY <2>6 DEF Whole, Truthful, History
  <2> QED
    BY <2>1, <2>5, <2>7
<1> QED
  <2>1. \A r \in Peer : Sound(B[r])
    BY <1>1, <1>2
  <2> QED
    BY <1>9, <1>10, <1>11, <2>1 DEF Whole, Truthful

LEMMA RevealPhase ==
  ASSUME NEW A, NEW B, Whole(A), NEW s \in Peer, NEW p \in Peer,
         B[Other(s)] = A[Other(s)], Opens(A[s], p, turn[p], move[p]),
         Revealed(A[s], B[s], p, move[p])
  PROVE  Whole(B)
<1> DEFINE g == A[s]  h == B[s]  n == turn[p]  token == move[p]
<1>1. token \in Token /\ Sound(g) /\ Opens(g, p, n, token) /\ Revealed(g, h, p, token)
  BY DEF Whole, Shape
<1> HIDE DEF g, h, n, token
<1>2. RevealOutcome(g, h, p, token)
  BY <1>1, RevealedSound
<1>3. \A q \in Peer : g.moves[q] # None => h.moves[q] # None
  BY <1>1, <1>2, MatchAssumption DEF RevealOutcome
<1>4. CASE Closed(g) = {p}
  <2>1. /\ Opens(A[s], p, turn[p], move[p]) /\ Sound(B[s]) /\ B[s].forfeitedBy = {}
        /\ B[s].bookTurn = Count(A[s]) /\ Pair(A[s]) \in [EngineRole -> Token]
        /\ B[s].match = Played(A[s].match, Pair(A[s]))
    BY <1>2, <1>4 DEF RevealOutcome, g, h
  <2> QED
    BY <2>1, PlayingPhase
<1>5. CASE Closed(g) # {p}
  <2>1. /\ Sound(B[s]) /\ B[s].match = A[s].match /\ B[s].forfeitedBy = A[s].forfeitedBy
        /\ B[s].bookTurn = A[s].bookTurn /\ B[s].commitments = A[s].commitments
        /\ \A q \in Peer : A[s].moves[q] # None => B[s].moves[q] # None
    BY <1>2, <1>3, <1>5 DEF RevealOutcome, g, h
  <2> QED
    BY <2>1, WaitingPhase
<1> QED
  BY <1>4, <1>5

-----------------------------------------------------------------------------
(* Then the driver moves on.  What the invariant says of one driver:       *)

Follows(A, p) ==
  /\ \A s \in Peer :
       InTurn(A[s], p) /\ Sealed(A[s], p) /\ Opened(A[s], p, s) /\ Stops(A[s], p)
  /\ Resolution(A, p) /\ Polling(A, p) /\ History(A, p)

Alone(p) ==
  \A r \in Peer : r # p =>
    /\ pc'[r] = pc[r] /\ turn'[r] = turn[r] /\ move'[r] = move[r]
    /\ resolved'[r] = resolved[r] /\ polled'[r] = polled[r] /\ history'[r] = history[r]

LEMMA WholeFollows ==
  ASSUME NEW A
  PROVE  Whole(A) <=> /\ Shape /\ Alike(A)
                      /\ \A s \in Peer : Sound(A[s])
                      /\ \A p \in Peer : Follows(A, p)
BY DEF Whole, Together, Truthful, Follows

LEMMA InvWhole == Inv <=> Whole(At)
BY DEF Inv, Whole

LEMMA Stays ==
  ASSUME NEW p \in Peer, Whole(At'), Alone(p), NEW r \in Peer, r # p
  PROVE  Follows(At, r)'
<1>1. Follows(At', r)
  BY WholeFollows
<1>2. /\ pc'[r] = pc[r] /\ turn'[r] = turn[r] /\ move'[r] = move[r]
      /\ resolved'[r] = resolved[r] /\ polled'[r] = polled[r] /\ history'[r] = history[r]
  BY DEF Alone
<1>3. \A s \in Peer : (InTurn(At[s], r) /\ Sealed(At[s], r))'
  BY <1>1, <1>2 DEF Follows, InTurn, Sealed, Mine, Count
<1>4. \A s \in Peer : (Opened(At[s], r, s) /\ Stops(At[s], r))'
  BY <1>1, <1>2 DEF Follows, Opened, Revealing, Stops, Count
<1>5. Resolution(At, r)'
  BY <1>1, <1>2 DEF Follows, Resolution, Count
<1>6. Polling(At, r)'
  BY <1>1, <1>2 DEF Follows, Polling, Told, Settled
<1>7. History(At, r)'
  BY <1>1, <1>2 DEF Follows, History, Kept
<1> QED
  BY <1>3, <1>4, <1>5, <1>6, <1>7 DEF Follows

LEMMA Frame ==
  ASSUME NEW p \in Peer, Whole(At'), Shape', Alone(p), Follows(At, p)'
  PROVE  Inv'
<1>1. \A r \in Peer : Follows(At, r)'
  BY Stays
<1>2. (\A s \in Peer : Sound(At[s]))'
  BY DEF Whole, Sound, Typed, Lacking, Closed, Count
<1>3. Alike(At)'
  BY DEF Whole, Alike, Count
<1> QED
  BY <1>1, <1>2, <1>3 DEF Inv, Together, Truthful, Follows

-----------------------------------------------------------------------------
(* The two ways a driver moves on: within its turn, and to the next one.   *)

Label ==
  {"commit0", "commit1", "reveal0", "reveal1", "status0", "status1", "observe0",
   "observe1"} \cup Ended

LEMMA Moved ==
  ASSUME NEW p \in Peer, NEW label \in Label \ {"done"}, Whole(At'), pc[p] # "done",
         Goto(p, label), UNCHANGED <<turn, move, history, lost, weather>>,
         resolved' \in [Peer -> Seq(Results)], polled' \in [Peer -> Seq(Results)],
         \A r \in Peer : r # p => resolved'[r] = resolved[r] /\ polled'[r] = polled[r],
         \A s \in Peer : Opened(At[s], p, s)', Resolution(At, p)', Polling(At, p)'
  PROVE  Inv'
<1>1. pc' \in [Peer -> Label] /\ pc'[p] = label /\ \A r \in Peer : r # p => pc'[r] = pc[r]
  BY DEF Whole, Shape, Label, Goto
<1>2. Shape'
  BY <1>1 DEF Whole, Shape, Label
<1>3. Alone(p)
  BY <1>1 DEF Alone
<1>4. Follows(At', p)
  BY WholeFollows
<1>5. \A s \in Peer : (InTurn(At[s], p) /\ Sealed(At[s], p) /\ Stops(At[s], p))'
  BY <1>1, <1>4 DEF Follows, InTurn, Sealed, Stops, Mine, Count
<1>6. History(At, p)'
  BY <1>4 DEF Follows, History, Kept
<1>7. Follows(At, p)'
  BY <1>5, <1>6 DEF Follows
<1> QED
  BY <1>2, <1>3, <1>7, Frame

(* The driver leaves the others, its own place and what it knows alone.    *)
LEMMA Idle ==
  ASSUME Whole(At'), UNCHANGED driver, lost' \in 0 .. MaxLost, UNCHANGED weather
  PROVE  Inv'
<1>1. Shape'
  BY DEF Whole, Shape, driver
<1>2. Alone("police") /\ Alone("thief")
  BY DEF Alone, driver
<1>3. Follows(At, "police")' /\ "police" \in Peer
  BY <1>2, Stays, Fields
<1> QED
  BY <1>1, <1>2, <1>3, Frame

(* A turn is settled for a driver at a server that played it, or that was  *)
(* forfeited with the driver's move on its book.                           *)
Answered(g, p) ==
  \/ Count(g) = turn[p] + 1
  \/ /\ g.forfeitedBy # {} /\ Count(g) = turn[p] /\ g.bookTurn = turn[p]
     /\ g.moves[p] # None

LEMMA Taken ==
  ASSUME NEW p \in Peer, NEW result \in Results, Whole(At'), Take(p, result),
         UNCHANGED <<lost, weather>>, \A s \in Peer : Answered(At'[s], p),
         \A s \in Peer : At'[s].match.over => result.over,
         Kept(At', turn[p] + 1, result)
  PROVE  Inv'
<1>1. /\ turn[p] \in Nat /\ turn \in [Peer -> Nat] /\ history \in [Peer -> Seq(Results)]
      /\ result.over \in BOOLEAN
  BY DEF Whole, Shape, Results
<1>2. /\ pc' \in [Peer -> Label] /\ pc'[p] = IF result.over THEN "done" ELSE "commit0"
      /\ turn' \in [Peer -> Nat] /\ turn'[p] = turn[p] + 1
      /\ move' \in [Peer -> Token]
      /\ resolved' \in [Peer -> Seq(Results)] /\ resolved'[p] = <<>>
      /\ polled' \in [Peer -> Seq(Results)] /\ polled'[p] = <<>>
      /\ history' \in [Peer -> Seq(Results)] /\ history'[p] = Append(history[p], result)
  BY <1>1 DEF Whole, Shape, Take, Goto, Label, Ended
<1>3. Alone(p)
  BY DEF Alone, Take, Goto, Whole, Shape
<1>4. Shape'
  BY <1>2 DEF Whole, Shape, Label
<1>5. Follows(At', p) /\ \A s \in Peer : Sound(At'[s])
  BY WholeFollows
<1>6. ASSUME NEW s \in Peer
      PROVE  /\ InTurn(At[s], p)' /\ Sealed(At[s], p)'
             /\ Opened(At[s], p, s)' /\ Stops(At[s], p)'
  <2> DEFINE g == At'[s]
  <2>1. /\ Count(g) \in Nat /\ g.bookTurn \in Nat /\ Answered(g, p) /\ Sealed(g, p)
        /\ g.match.over => result.over
    <3>1. Sound(g) /\ Sealed(g, p)
      BY <1>5 DEF Follows
    <3> HIDE DEF g
    <3>2. Count(g) \in Nat /\ g.bookTurn \in Nat
      BY <3>1, Numbers
    <3> QED
      BY <3>1, <3>2 DEF g
  <2>2. InTurn(At[s], p)'
    <3>1. /\ Count(g) <= turn'[p] /\ turn'[p] \in Nat
          /\ \/ Count(g) = turn'[p]
             \/ /\ Count(g) = turn'[p] - 1 /\ g.forfeitedBy # {}
                /\ g.bookTurn = Count(g) /\ g.moves[p] # None
      <4> DEFINE n == turn[p]
      <4>1. n \in Nat /\ turn'[p] = n + 1
        BY <1>1, <1>2
      <4>2. \/ Count(g) = n + 1
            \/ g.forfeitedBy # {} /\ Count(g) = n /\ g.bookTurn = n /\ g.moves[p] # None
        BY <2>1 DEF Answered
      <4> HIDE DEF g, n
      <4> QED
        BY <4>1, <4>2
    <3> QED
      BY <2>1, <3>1 DEF InTurn, Count
  <2>3. Sealed(At[s], p)'
    BY <1>1, <1>2, <2>1 DEF Answered, Sealed, Count
  <2>4. Opened(At[s], p, s)'
    BY <1>2, Fields DEF Opened, Revealing, BeforeReveal, Ended
  <2>5. Stops(At[s], p)'
    BY <1>2, <2>1 DEF Stops
  <2> QED
    BY <2>2, <2>3, <2>4, <2>5
<1>7. Resolution(At, p)' /\ Polling(At, p)'
  BY <1>2 DEF Resolution, Polling
<1>8. History(At, p)'
  <2>1. /\ Len(history'[p]) = turn[p] + 1 /\ history'[p][turn[p] + 1] = result
        /\ \A n \in 1 .. turn[p] : history'[p][n] = history[p][n]
    BY <1>1, <1>2, <1>5, AppendProperties DEF Follows, History
  <2>2. \A n \in 1 .. turn[p] + 1 : Kept(At', n, history'[p][n])
    BY <1>1, <1>5, <2>1 DEF Follows, History
  <2>3. \A n \in 1 .. turn'[p] : Kept(At, n, history[p][n])'
    BY <1>2, <2>2 DEF Kept, Count
  <2> QED
    BY <1>2, <2>1, <2>3 DEF History
<1> QED
  BY <1>3, <1>4, <1>6, <1>7, <1>8, Frame DEF Follows

-----------------------------------------------------------------------------
(* The calls of a driver, before it moves on.                              *)

LEMMA Wellformed ==
  ASSUME Inv
  PROVE  /\ Whole(At)
         /\ \A s \in Peer : Sound(At[s]) /\ At[s].bookTurn \in Nat
         /\ \A p \in Peer : turn[p] \in Nat /\ move[p] \in Token /\ pc[p] \in Label
BY InvWhole, Numbers DEF Inv, Shape, Label

LEMMA CheckCall ==
  ASSUME Inv, NEW s \in Peer, At[Other(s)]' = At[Other(s)], Checked(At[s], At[s]')
  PROVE  Whole(At')
<1>1. Sound(At'[s]) /\ Quiet(At[s], At'[s])
  BY Wellformed, CheckedSound
<1> QED
  BY <1>1, Wellformed, QuietPhase

LEMMA CommitCall ==
  ASSUME Inv, NEW s \in Peer, NEW p \in Peer, pc[p] # "done",
         CommitAt(s, p, turn[p], move[p])
  PROVE  Whole(At')
<1>1. CASE Accepts(At[s], p, turn[p]) /\ Committed(At[s], At[s]', p, turn[p], move[p])
  <2>1. At'[Other(s)] = At[Other(s)]
    BY CommitAtServer
  <2> QED
    BY <1>1, <2>1, Wellformed, CommitPhase
<1>2. CASE Checked(At[s], At[s]')
  BY <1>2, CommitAtServer, CheckCall
<1> QED
  BY <1>1, <1>2, CommitAtServer

LEMMA RevealCall ==
  ASSUME Inv, NEW s \in Peer, NEW p \in Peer, RevealAt(s, p, turn[p], move[p])
  PROVE  /\ Whole(At') /\ At'[Other(s)] = At[Other(s)]
         /\ RevealVerdict(s, p, turn[p], move[p]) \in {"waiting", "resolved"}
              => /\ Opens(At[s], p, turn[p], move[p])
                 /\ Revealed(At[s], At'[s], p, move[p])
                 /\ RevealVerdict(s, p, turn[p], move[p])
                      = IF Closed(At[s]) = {p} THEN "resolved" ELSE "waiting"
<1> DEFINE n == turn[p]  token == move[p]
<1>1. n \in Nat /\ token \in Token /\ At[s].bookTurn \in Nat
  BY Wellformed
<1> HIDE DEF n, token
<1>2. RevealAt(s, p, n, token)
  BY DEF n, token
<1>3. /\ At[Other(s)]' = At[Other(s)]
      /\ \/ /\ RevealVerdict(s, p, n, token)
                 = (IF Closed(At[s]) = {p} THEN "resolved" ELSE "waiting")
            /\ Opens(At[s], p, n, token) /\ Revealed(At[s], At[s]', p, token)
         \/ /\ RevealVerdict(s, p, n, token) \notin {"waiting", "resolved"}
            /\ Checked(At[s], At[s]')
  BY <1>1, <1>2, RevealAtServer
<1>4. ASSUME Opens(At[s], p, n, token), Revealed(At[s], At[s]', p, token)
      PROVE  Whole(At')
  BY <1>3, <1>4, Wellformed, RevealPhase DEF n, token
<1>5. ASSUME Checked(At[s], At[s]') PROVE Whole(At')
  <2>1. At[Other(s)]' = At[Other(s)]
    BY <1>3
  <2> QED
    BY <1>5, <2>1, CheckCall
<1>6. Whole(At')
  BY <1>3, <1>4, <1>5
<1> QED
  BY <1>3, <1>6 DEF n, token

LEMMA PollCall ==
  ASSUME Inv, NEW s \in Peer, PollAt(s)
  PROVE  Whole(At') /\ At'[Other(s)] = At[Other(s)]
BY PollAtServer, CheckCall

(* The account a server gives of its match.                                *)
LEMMA Accounts ==
  ASSUME NEW g, Sound(g), OneOutcome(g)
  PROVE  /\ Account(g.match) \in Results
         /\ Account(g.match).cop = g.match.played /\ Account(g.match).thief = g.match.played
         /\ Account(g.match).count = Count(g)
         /\ g.forfeitedBy # {} => /\ Account(g.match).over
                                  /\ Account(g.match).reason = "technical_loss"
         /\ g.forfeitedBy = {} => Account(g.match) = Story(g.match.played)
<1> DEFINE a == Account(g.match)  h == g.match.played
<1>1. /\ h \in Seq([EngineRole -> Token]) /\ Count(g) \in Nat /\ Count(g) = Len(h)
      /\ g.match.over \in BOOLEAN /\ g.match.forfeits = g.forfeitedBy
      /\ g.match.over <=> IsOver(h)
  BY DEF Sound, Typed, MatchOf, Count
<1>2. /\ a.cop = h /\ a.thief = h /\ a.count = Len(h)
      /\ a.over = IsTerminated(g.match) /\ a.reason = TerminalReason(g.match)
  BY DEF Account, TurnCount
<1>3. TerminalReason(g.match) \in {"capture", "max_moves_reached", "technical_loss", "none"}
  BY DEF TerminalReason
<1>4. a \in Results
  BY <1>1, <1>3 DEF Account, TurnCount, IsTerminated, Results
<1>5. g.forfeitedBy # {} => a.over /\ a.reason = "technical_loss"
  BY <1>1, <1>2 DEF OneOutcome, IsTerminated, TerminalReason
<1>6. ASSUME g.forfeitedBy = {} PROVE a = Story(h)
  <2>1. IsTerminated(g.match) = IsOver(h)
    BY <1>1, <1>6 DEF IsTerminated, IsOver, Ends
  <2>2. TerminalReason(g.match) = ReasonOf(h)
    BY <1>1, <1>6 DEF TerminalReason, ReasonOf, IsOver, Ends
  <2> QED
    BY <2>1, <2>2 DEF Account, Story, TurnCount
<1> QED
  BY <1>1, <1>2, <1>4, <1>5, <1>6

LEMMA Reports ==
  ASSUME NEW A, Whole(A), NEW s \in Peer, NEW p \in Peer, pc[p] # "done"
  PROVE  Told(A[s], p, Account(A[s].match)) /\ Account(A[s].match) \in Results
<1> DEFINE g == A[s]  a == Account(A[s].match)
<1>1. Sound(g) /\ OneOutcome(g) /\ InTurn(g, p) /\ Stops(g, p) /\ turn[p] \in Nat
  BY DEF Whole, Alike, Together, Shape
<1> HIDE DEF g
<1>2. /\ a \in Results /\ a.count = Count(g) /\ Count(g) \in Nat
      /\ g.forfeitedBy # {} => a.over /\ a.reason = "technical_loss"
      /\ g.forfeitedBy = {} => a = Story(g.match.played)
  BY <1>1, Accounts, Numbers DEF g
<1>3. a.count \in Nat /\ a.over \in BOOLEAN
  BY <1>2 DEF Results
<1>4. ASSUME Settled(a, p), g.forfeitedBy = {}
      PROVE  /\ a.reason # "technical_loss" /\ a.count = turn[p] + 1
             /\ a.over = IsOver(g.match.played) /\ a.reason = ReasonOf(g.match.played)
  <2>1. a.over = IsOver(g.match.played) /\ a.reason = ReasonOf(g.match.played)
    BY <1>2, <1>4 DEF Story
  <2>2. g.match.over = IsOver(g.match.played)
    BY <1>1 DEF Sound, Typed, MatchOf, IsOver, Ends
  <2>3. a.count = turn[p] + 1
    BY <1>1, <1>2, <1>4, <2>1, <2>2 DEF Settled, InTurn, Stops
  <2> QED
    BY <2>1, <2>3 DEF ReasonOf
<1> QED
  BY <1>2, <1>3, <1>4 DEF Told, g

LEMMA MatchOfServer == \A s \in Peer : MatchAt(s)' = At'[s].match
BY Fields, FieldsNext DEF MatchAt

-----------------------------------------------------------------------------
(* What a settled turn leaves in the driver's hands.                       *)

LEMMA OnePlay ==
  ASSUME NEW A, Whole(A), NEW s \in Peer, NEW r \in Peer, Count(A[s]) = Count(A[r])
  PROVE  A[s].match.played = A[r].match.played
<1> DEFINE h == A[s].match.played  k == A[r].match.played
<1>1. h \in Seq([EngineRole -> Token]) /\ k \in Seq([EngineRole -> Token]) /\ Len(h) = Len(k)
  BY Numbers DEF Whole, Count
<1>2. r = s \/ SamePlay(h, k)
  BY Fields DEF Whole, Alike
<1>3. \A i \in 1 .. Len(h) : h[i] = k[i]
  BY <1>1, <1>2 DEF SamePlay
<1> HIDE DEF h, k
<1>4. h = k
  BY <1>1, <1>3, SeqEqual
<1> QED
  BY <1>4 DEF h, k

LEMMA Storied ==
  ASSUME NEW A, Whole(A), NEW s \in Peer, NEW n \in Nat, Count(A[s]) = n
  PROVE  /\ Story(A[s].match.played) \in Results
         /\ Kept(A, n, Story(A[s].match.played))
         /\ \A r \in Peer : A[r].match.over /\ Count(A[r]) = n
              => Story(A[s].match.played).over
<1> DEFINE h == A[s].match.played
<1>1. /\ h \in Seq([EngineRole -> Token]) /\ Len(h) = n
      /\ \A r \in Peer : A[r].match.over <=> IsOver(A[r].match.played)
  BY Numbers DEF Whole, Sound, Count
<1>2. \A r \in Peer : SamePlay(h, A[r].match.played)
  BY Fields DEF Whole, Alike, SamePlay
<1>3. ASSUME NEW r \in Peer, A[r].match.over, Count(A[r]) = n PROVE IsOver(h)
  BY <1>1, <1>3, OnePlay
<1> HIDE DEF h
<1>4. Story(h) \in Results
  <2>1. ReasonOf(h) \in {"capture", "max_moves_reached", "technical_loss", "none"}
    BY DEF ReasonOf
  <2>2. IsOver(h) \in BOOLEAN
    BY DEF IsOver, Ends
  <2> QED
    BY <1>1, <2>1, <2>2 DEF Story, Results
<1>5. Kept(A, n, Story(h))
  BY <1>1, <1>2 DEF Kept, Story, ReasonOf
<1> QED
  BY <1>3, <1>4, <1>5 DEF Story, h

(* The two answers a driver waited for: both servers played the turn, or   *)
(* were forfeited with its move on their books.                            *)
LEMMA Settles ==
  ASSUME NEW A, Whole(A), NEW p \in Peer, pc[p] \notin Ended, NEW s \in Peer,
         ~Revealing(p, s), NEW answer, Told(A[s], p, answer), Settled(answer, p)
  PROVE  /\ Answered(A[s], p) /\ answer.count = Count(A[s])
         /\ answer.reason # "technical_loss"
              => /\ Count(A[s]) = turn[p] + 1 /\ answer.over = IsOver(A[s].match.played)
                 /\ answer.reason = ReasonOf(A[s].match.played)
         /\ answer.reason = "technical_loss" => answer.over /\ A[s].forfeitedBy # {}
<1>1. Opened(A[s], p, s)
  BY DEF Whole, Together
<1> QED
  BY <1>1 DEF Told, Opened, Answered

LEMMA AnsweredOver ==
  ASSUME NEW A, Whole(A), NEW p \in Peer, NEW s \in Peer, Answered(A[s], p), A[s].match.over
  PROVE  Count(A[s]) = turn[p] + 1
BY DEF Whole, Alike, OneOutcome, Answered

-----------------------------------------------------------------------------
(* The steps of a driver.                                                  *)

LEMMA CommitStep ==
  ASSUME Inv, NEW p \in Peer, NEW index \in {0, 1}, Commit(p, index)
  PROVE  Inv'
<1> DEFINE s == Server(p, index)
           label == IF CommitVerdict(s, p, turn[p]) # "accepted" THEN "refused"
                    ELSE IF index = 0 THEN "commit1" ELSE "reveal0"
<1>1. /\ pc[p] \in {"commit0", "commit1"} /\ s \in Peer
      /\ CommitAt(s, p, turn[p], move[p]) /\ Goto(p, label)
      /\ UNCHANGED <<turn, move, resolved, polled, history, lost, weather>>
  BY Fields DEF Commit, Server
<1>2. Whole(At')
  BY <1>1, CommitCall
<1>3. label \in {"refused", "commit1", "reveal0"}
  OBVIOUS
<1> HIDE DEF label, s
<1>4. pc'[p] = label /\ Shape
  BY <1>1, <1>2 DEF Goto, Whole, Shape
<1>5. \A t \in Peer : Opened(At[t], p, t)'
  BY <1>3, <1>4 DEF Opened, Revealing, BeforeReveal, Ended
<1>6. Resolution(At, p)'
  <2>1. resolved'[p] = <<>>
    BY <1>1, <1>2 DEF Whole, Truthful, Resolution, BeforeReveal
  <2> QED
    BY <2>1 DEF Resolution
<1>7. Polling(At, p)'
  BY <1>3, <1>4 DEF Polling
<1>8. resolved' \in [Peer -> Seq(Results)] /\ polled' \in [Peer -> Seq(Results)]
  BY <1>1, <1>4 DEF Shape
<1>9. label \in Label \ {"done"} /\ pc[p] # "done"
  BY <1>1, <1>3 DEF Label, Ended
<1> QED
  BY <1>1, <1>2, <1>5, <1>6, <1>7, <1>8, <1>9, Moved

(* Two servers that both resolved the driver's turn never differ.          *)
LEMMA RevealStep ==
  ASSUME Inv, NEW p \in Peer, NEW index \in {0, 1}, Reveal(p, index)
  PROVE  Inv' /\ pc'[p] # "diverged"
<1> DEFINE s == Server(p, index)
           verdict == RevealVerdict(s, p, turn[p], move[p])
           account == Account(MatchAt(s)')
           answers == IF verdict = "resolved" THEN Append(resolved[p], account)
                      ELSE resolved[p]
           g == At'[s]
<1>1. /\ s \in Peer /\ RevealAt(s, p, turn[p], move[p]) /\ UNCHANGED <<lost, weather>>
      /\ pc[p] = IF index = 0 THEN "reveal0" ELSE "reveal1"
      /\ index = 0 => s = p
      /\ index = 1 => s = Other(p)
  BY Fields DEF Reveal, Server
<1>2. \/ /\ verdict = "reveal_before_commit" /\ UNCHANGED driver
      \/ /\ Goto(p, "refused") /\ UNCHANGED <<turn, move, resolved, polled, history>>
      \/ /\ verdict \in {"waiting", "resolved"} /\ Len(answers) < 2
         /\ resolved' = [resolved EXCEPT ![p] = answers]
         /\ Goto(p, IF index = 0 THEN "reveal1" ELSE "status0")
         /\ UNCHANGED <<turn, move, polled, history>>
      \/ /\ verdict = "resolved" /\ Len(answers) = 2
         /\ Divergent(answers) \/ Take(p, answers[1])
  BY DEF Reveal
<1>3. account = Account(g.match)
  BY <1>1, MatchOfServer
<1> HIDE DEF account, verdict, s
<1>4. /\ Whole(At') /\ Shape /\ pc[p] \notin Ended
      /\ verdict \in {"waiting", "resolved"}
           => /\ Opens(At[s], p, turn[p], move[p]) /\ Revealed(At[s], g, p, move[p])
              /\ verdict = IF Closed(At[s]) = {p} THEN "resolved" ELSE "waiting"
  BY <1>1, RevealCall DEF verdict, Whole, Ended
<1>5. /\ turn[p] \in Nat /\ move[p] \in Token /\ Sound(g) /\ OneOutcome(g)
      /\ Sound(At[s]) /\ resolved[p] \in Seq(Results)
  BY <1>1, <1>4, Wellformed DEF Whole, Alike, Shape
<1>6. ASSUME verdict \in {"waiting", "resolved"}
      PROVE  /\ Count(At[s]) = turn[p] /\ g.forfeitedBy = {}
             /\ verdict = "waiting" => /\ Count(g) = turn[p] /\ g.bookTurn = turn[p]
                                       /\ g.moves[p] # None
             /\ verdict = "resolved" => Count(g) = turn[p] + 1
  <2>1. /\ g.forfeitedBy = {} /\ g.bookTurn = At[s].bookTurn
        /\ At[s].bookTurn = Count(At[s]) /\ g.moves[p] = move[p]
        /\ g.match = IF Closed(At[s]) = {p} THEN Played(At[s].match, Pair(At[s]))
                     ELSE At[s].match
        /\ Closed(At[s]) = {p} => Pair(At[s]) \in [EngineRole -> Token]
    <3> DEFINE f == At[s]  n == turn[p]  token == move[p]
    <3>1. /\ Sound(f) /\ Opens(f, p, n, token) /\ Revealed(f, g, p, token) /\ token \in Token
      BY <1>4, <1>5, <1>6
    <3> HIDE DEF f, n, token, g
    <3>2. RevealOutcome(f, g, p, token)
      BY <3>1, RevealedSound
    <3> QED
      BY <3>2 DEF RevealOutcome, f, token, g
  <2>2. Count(At[s]) = turn[p]
    BY <1>4, <1>6 DEF Opens
  <2>3. verdict = "waiting" => Count(g) = turn[p] /\ g.moves[p] # None
    BY <1>4, <1>5, <1>6, <2>1, <2>2, MatchAssumption DEF Count
  <2>4. verdict = "resolved" => Count(g) = turn[p] + 1
    <3>1. ~At[s].match.over /\ At[s].match \in MatchOf(Peer)
      <4>1. At[s].commitments[p] # None
        BY <1>4, <1>6 DEF Opens, Lacking
      <4>2. At[s].forfeitedBy = {}
        BY <1>4, <1>6 DEF Opens, Forfeiting
      <4> QED
        BY <1>1, <1>5, <2>1, <4>1, <4>2, Wellformed, OpenTurn DEF Sound, Typed
    <3>2. Pair(At[s]) \in [EngineRole -> Token] \/ verdict # "resolved"
      BY <1>4, <1>6, <2>1
    <3>3. At[s].match.played \in Seq([EngineRole -> Token])
      BY <3>1 DEF MatchOf
    <3>4. verdict = "resolved" => g.match.played = Append(At[s].match.played, Pair(At[s]))
      BY <1>4, <1>6, <2>1, <3>1 DEF Played, MatchOf
    <3> SUFFICES ASSUME verdict = "resolved" PROVE Count(g) = turn[p] + 1
      OBVIOUS
    <3>5. Len(Append(At[s].match.played, Pair(At[s]))) = Len(At[s].match.played) + 1
      BY <3>2, <3>3, AppendProperties
    <3> QED
      BY <2>2, <3>4, <3>5 DEF Count
  <2> QED
    BY <2>1, <2>2, <2>3, <2>4
<1>7. verdict = "resolved" => account = Story(g.match.played) /\ account \in Results
  BY <1>3, <1>5, <1>6, Accounts
<1>8. CASE UNCHANGED driver
  BY <1>1, <1>4, <1>8, Idle DEF Shape, driver, Ended
<1>9. CASE Goto(p, "refused") /\ UNCHANGED <<turn, move, resolved, polled, history>>
  <2>1. pc'[p] = "refused"
    BY <1>4, <1>9 DEF Goto, Shape
  <2>2. \A t \in Peer : Opened(At[t], p, t)'
    BY <2>1 DEF Opened, Ended
  <2>3. Resolution(At, p)' /\ Polling(At, p)'
    BY <1>4, <1>9, <2>1 DEF Whole, Truthful, Resolution, Polling, BeforeReveal, Count
  <2>4. /\ resolved' \in [Peer -> Seq(Results)] /\ polled' \in [Peer -> Seq(Results)]
        /\ "refused" \in Label \ {"done"} /\ pc[p] # "done"
    BY <1>4, <1>9 DEF Shape, Label, Ended
  <2> QED
    BY <1>1, <1>4, <1>9, <2>1, <2>2, <2>3, <2>4, Moved
<1>10. CASE /\ verdict \in {"waiting", "resolved"} /\ Len(answers) < 2
            /\ resolved' = [resolved EXCEPT ![p] = answers]
            /\ Goto(p, IF index = 0 THEN "reveal1" ELSE "status0")
            /\ UNCHANGED <<turn, move, polled, history>>
  <2> DEFINE label == IF index = 0 THEN "reveal1" ELSE "status0"
  <2>1. pc'[p] = label /\ Goto(p, label)
    BY <1>4, <1>10 DEF Goto, Shape
  <2>2. answers \in Seq(Results)
    BY <1>5, <1>7, AppendProperties
  <2>3. /\ resolved' \in [Peer -> Seq(Results)] /\ resolved'[p] = answers
        /\ polled' \in [Peer -> Seq(Results)]
        /\ label \in Label \ {"done"} /\ pc[p] # "done"
        /\ \A r \in Peer : r # p => resolved'[r] = resolved[r] /\ polled'[r] = polled[r]
    BY <1>4, <1>10, <2>2 DEF Shape, Label, Ended
  <2>4. \A t \in Peer : Opened(At[t], p, t)'
    <3> SUFFICES ASSUME NEW t \in Peer, ~Revealing(p, t)' PROVE Opened(At[t], p, t)'
      BY DEF Opened
    <3>1. CASE t = s
      BY <1>6, <1>10, <3>1 DEF Opened, Count
    <3>2. CASE t # s
      <4>1. t = p /\ pc[p] = "reveal1"
        BY <1>1, <2>1, <3>2, Fields DEF Revealing, BeforeReveal
      <4>2. Opened(At'[p], p, p) /\ ~Revealing(p, p)
        BY <1>4, <4>1 DEF Whole, Together, Revealing, BeforeReveal
      <4> QED
        BY <1>4, <1>10, <4>1, <4>2 DEF Opened, Count
    <3> QED
      BY <3>1, <3>2
  <2>5. Resolution(At, p)'
    <3>1. CASE verdict = "waiting"
      BY <1>4, <1>10, <2>1, <2>3, <3>1 DEF Whole, Truthful, Resolution, BeforeReveal, Count
    <3>2. CASE verdict = "resolved"
      <4>1. resolved[p] = <<>>
        <5>1. Len(resolved[p]) = 0
          BY <1>5, <1>7, <1>10, <3>2, AppendProperties
        <5> QED
          BY <1>5, <5>1
      <4>2. resolved'[p] = <<Story(g.match.played)>>
        BY <1>7, <2>3, <3>2, <4>1
      <4>3. Count(g) = turn'[p] + 1
        BY <1>6, <1>10, <3>2
      <4> QED
        BY <1>1, <2>1, <4>2, <4>3 DEF Resolution, BeforeReveal, Count
    <3> QED
      BY <1>10, <3>1, <3>2
  <2>6. Polling(At, p)'
    BY <2>1 DEF Polling
  <2>7. label # "diverged"
    OBVIOUS
  <2> HIDE DEF label
  <2> QED
    BY <1>1, <1>4, <1>10, <2>1, <2>7, <2>3, <2>4, <2>5, <2>6, Moved
<1>11. ASSUME verdict = "resolved", Len(answers) = 2
       PROVE  /\ resolved[p] # <<>> /\ answers[2] = account
              /\ \A r \in Peer : Count(At'[r]) = turn[p] + 1
              /\ \E t \in Peer : answers[1] = Story(At'[t].match.played)
  <2>1. resolved[p] # <<>> /\ answers[1] = resolved[p][1] /\ answers[2] = account
    <3>1. answers = Append(resolved[p], account) /\ Len(answers) = 2 /\ account \in Results
      BY <1>7, <1>11
    <3> HIDE DEF answers
    <3>2. Len(answers) = Len(resolved[p]) + 1 /\ Len(resolved[p]) \in Nat
      BY <1>5, <3>1, AppendProperties
    <3>3. /\ \A i \in 1 .. Len(resolved[p]) : answers[i] = resolved[p][i]
          /\ answers[Len(resolved[p]) + 1] = account
      BY <1>5, <3>1, AppendProperties
    <3> QED
      BY <3>1, <3>2, <3>3
  <2>2. PICK t \in Peer : /\ Count(At[t]) = turn[p] + 1
                          /\ resolved[p] = <<Story(At[t].match.played)>>
    BY <2>1, Wellformed DEF Whole, Truthful, Resolution
  <2>3. t = Other(s) /\ At'[t] = At[t]
    BY <1>1, <1>5, <1>6, <1>11, <2>2, Fields, RevealCall
  <2>4. Count(At'[t]) = turn[p] + 1 /\ answers[1] = Story(At'[t].match.played)
    BY <2>1, <2>2, <2>3
  <2>5. \A r \in Peer : Count(At'[r]) = turn[p] + 1
    BY <1>1, <1>6, <1>11, <2>3, <2>4, Fields
  <2> QED
    BY <2>1, <2>4, <2>5
<1>12. CASE verdict = "resolved" /\ Len(answers) = 2 /\ Divergent(answers)
  <2>1. PICK t \in Peer : answers[1] = Story(At'[t].match.played)
    BY <1>11, <1>12
  <2>2. At'[t].match.played = g.match.played
    <3>1. Count(At'[t]) = Count(g)
      BY <1>1, <1>11, <1>12
    <3> QED
      BY <1>1, <1>4, <3>1, OnePlay
  <2>3. answers[1] = answers[2]
    BY <1>7, <1>11, <1>12, <2>1, <2>2
  <2> HIDE DEF answers
  <2> QED
    BY <1>12, <2>3 DEF Divergent
<1>13. CASE verdict = "resolved" /\ Len(answers) = 2 /\ Take(p, answers[1])
  <2>1. PICK t \in Peer : answers[1] = Story(At'[t].match.played)
    BY <1>11, <1>13
  <2>2. (\A r \in Peer : Count(At'[r]) = turn[p] + 1) /\ turn[p] + 1 \in Nat
    BY <1>5, <1>11, <1>13
  <2>3. /\ answers[1] \in Results /\ Kept(At', turn[p] + 1, answers[1])
        /\ \A r \in Peer : At'[r].match.over => answers[1].over
    BY <1>4, <2>1, <2>2, Storied
  <2>4. \A r \in Peer : Answered(At'[r], p)
    BY <2>2 DEF Answered
  <2>5. pc'[p] # "diverged"
    BY <1>4, <1>13 DEF Take, Goto, Shape
  <2> HIDE DEF answers
  <2> QED
    BY <1>1, <1>4, <1>13, <2>3, <2>4, <2>5, Taken
<1> QED
  BY <1>2, <1>8, <1>9, <1>10, <1>12, <1>13

(* Two servers that both settled the turn differ only by a forfeit.        *)
LEMMA StatusStep ==
  ASSUME Inv, NEW p \in Peer, NEW index \in {0, 1}, Status(p, index)
  PROVE  Inv' /\ (pc'[p] = "diverged" => \E r \in Peer : At'[r].forfeitedBy # {})
<1> DEFINE s == Server(p, index)
           account == Account(MatchAt(s)')
           answers == Append(IF index = 0 THEN <<>> ELSE polled[p], account)
           ready == \A i \in 1 .. 2 : Settled(answers[i], p)
           label == IF index = 0 THEN "status1"
                    ELSE IF ~ready THEN "status0"
                    ELSE IF StatusClash(answers[1], answers[2]) THEN "diverged"
                    ELSE "observe0"
<1>1. /\ s \in Peer /\ PollAt(s) /\ UNCHANGED <<lost, weather>>
      /\ pc[p] = IF index = 0 THEN "status0" ELSE "status1"
      /\ index = 0 => s = p
      /\ index = 1 => s = Other(p)
  BY Fields DEF Status, Server
<1>2. \/ index = 1 /\ ready /\ resolved[p] # <<>> /\ Take(p, resolved[p][1])
      \/ /\ polled' = [polled EXCEPT ![p] = answers] /\ Goto(p, label)
         /\ UNCHANGED <<turn, move, resolved, history>>
  BY DEF Status
<1>3. account = Account(At'[s].match)
  BY <1>1, MatchOfServer
<1> HIDE DEF account, s
<1>4. /\ Whole(At') /\ Shape /\ pc[p] \notin Ended /\ pc[p] # "done" /\ Follows(At', p)
      /\ turn[p] \in Nat /\ polled[p] \in Seq(Results) /\ resolved[p] \in Seq(Results)
      /\ \A t \in Peer : ~Revealing(p, t)
  BY <1>1, PollCall, WholeFollows DEF Whole, Ended, Shape, Revealing, BeforeReveal
<1>5. Told(At'[s], p, account) /\ account \in Results
  BY <1>1, <1>3, <1>4, Reports
<1>6. index = 1 => Len(polled[p]) = 1 /\ Told(At'[p], p, polled[p][1])
  BY <1>1, <1>4 DEF Follows, Polling
<1>7. /\ answers \in Seq(Results)
      /\ index = 0 => Len(answers) = 1 /\ answers[1] = account
      /\ index = 1 => Len(answers) = 2 /\ answers[1] = polled[p][1] /\ answers[2] = account
  <2>1. CASE index = 0
    <3>1. answers = <<account>>
      BY <2>1
    <3> QED
      BY <1>5, <2>1, <3>1
  <2>2. CASE index = 1
    <3>1. answers = Append(polled[p], account)
      BY <2>2
    <3> HIDE DEF answers
    <3> QED
      BY <1>4, <1>5, <1>6, <2>2, <3>1, AppendProperties
  <2> QED
    BY <2>1, <2>2
<1>8. index = 1 => \A i \in 1 .. 2 : Told(At'[Server(p, i - 1)], p, answers[i])
  <2> HIDE DEF answers
  <2> QED
    BY <1>1, <1>5, <1>6, <1>7 DEF Server
<1> HIDE DEF answers
<1>9. CASE index = 1 /\ ready /\ resolved[p] # <<>> /\ Take(p, resolved[p][1])
  <2>1. PICK t \in Peer : /\ Count(At'[t]) = turn[p] + 1
                          /\ resolved[p] = <<Story(At'[t].match.played)>>
    BY <1>4, <1>9 DEF Follows, Resolution
  <2>2. \A r \in Peer : Answered(At'[r], p)
    <3>1. Server(p, 0) = p /\ Server(p, 1) = Other(p)
      BY DEF Server
    <3>2. /\ Told(At'[p], p, answers[1]) /\ Settled(answers[1], p)
          /\ Told(At'[Other(p)], p, answers[2]) /\ Settled(answers[2], p)
      BY <1>8, <1>9, <3>1
    <3>3. Answered(At'[p], p)
      BY <1>4, <3>2, Settles
    <3>4. Answered(At'[Other(p)], p)
      BY <1>4, <3>2, Settles, Fields
    <3> QED
      BY <3>3, <3>4, Fields
  <2>3. turn[p] + 1 \in Nat /\ resolved[p][1] = Story(At'[t].match.played)
    BY <1>4, <2>1
  <2>4. /\ resolved[p][1] \in Results /\ Kept(At', turn[p] + 1, resolved[p][1])
        /\ \A r \in Peer : At'[r].match.over => resolved[p][1].over
    BY <1>4, <2>1, <2>2, <2>3, Storied, AnsweredOver
  <2>5. pc'[p] # "diverged"
    BY <1>4, <1>9 DEF Take, Goto, Shape
  <2> QED
    BY <1>1, <1>4, <1>9, <2>2, <2>4, <2>5, Taken
<1>10. CASE /\ polled' = [polled EXCEPT ![p] = answers] /\ Goto(p, label)
            /\ UNCHANGED <<turn, move, resolved, history>>
  <2>1. label \in {"status1", "status0", "diverged", "observe0"}
    OBVIOUS
  <2>2. label = "status1" => index = 0
    BY <1>1
  <2>3. label = "observe0" => /\ index = 1 /\ ready
                              /\ ~StatusClash(answers[1], answers[2])
    BY <1>1
  <2>0. label = "diverged" => index = 1 /\ ready /\ StatusClash(answers[1], answers[2])
    BY <1>1
  <2> HIDE DEF label
  <2>4. pc'[p] = label
    BY <1>4, <1>10 DEF Goto, Shape
  <2>5. /\ polled' \in [Peer -> Seq(Results)] /\ polled'[p] = answers
        /\ resolved' \in [Peer -> Seq(Results)] /\ label \in Label \ {"done"}
        /\ \A r \in Peer : r # p => resolved'[r] = resolved[r] /\ polled'[r] = polled[r]
    BY <1>4, <1>7, <1>10, <2>1 DEF Shape, Label, Ended
  <2>6. \A t \in Peer : Opened(At[t], p, t)'
    BY <1>4, <1>10 DEF Follows, Opened, Count
  <2>7. Resolution(At, p)'
    BY <1>4, <1>10, <2>1, <2>4 DEF Follows, Resolution, BeforeReveal, Count
  <2>8. \A answer : \A t \in Peer :
          Told(At'[t], p, answer) => (Told(At[t], p, answer))'
    BY <1>10 DEF Told, Settled, Count
  <2>9. Polling(At, p)'
    <3>1. label = "status1" => /\ Len(polled'[p]) = 1
                               /\ (Told(At[p], p, polled[p][1]))'
      BY <1>1, <1>5, <1>7, <2>2, <2>5, <2>8
    <3>2. ASSUME label = "observe0"
          PROVE  /\ Len(polled'[p]) = 2
                 /\ \A i \in 1 .. 2 : /\ (Told(At[Server(p, i - 1)], p, polled[p][i]))'
                                      /\ (Settled(polled[p][i], p))'
                 /\ (~StatusClash(polled[p][1], polled[p][2]))'
      <4>1. \A i \in 1 .. 2 : Server(p, i - 1) \in Peer
        BY Fields DEF Server
      <4>2. \A i \in 1 .. 2 : (Told(At[Server(p, i - 1)], p, polled[p][i]))'
        BY <1>8, <2>3, <2>5, <2>8, <3>2, <4>1
      <4>3. \A i \in 1 .. 2 : (Settled(polled[p][i], p))'
        BY <1>10, <2>3, <2>5, <3>2 DEF Settled
      <4>4. (~StatusClash(polled[p][1], polled[p][2]))'
        BY <2>3, <2>5, <3>2 DEF StatusClash
      <4> QED
        BY <1>7, <2>3, <2>5, <3>2, <4>2, <4>3, <4>4
    <3> QED
      BY <2>1, <2>4, <3>1, <3>2 DEF Polling
  <2>10. ASSUME label = "diverged", \A r \in Peer : At'[r].forfeitedBy = {} PROVE FALSE
    <3> DEFINE q == Other(p)  one == answers[1]  two == answers[2]
    <3>1. Server(p, 0) = p /\ Server(p, 1) = q /\ q \in Peer
      BY Fields DEF Server
    <3>2. /\ Told(At'[p], p, one) /\ Settled(one, p) /\ Told(At'[q], p, two) /\ Settled(two, p)
      BY <1>8, <2>0, <2>10, <3>1
    <3> HIDE DEF q, one, two
    <3>3. /\ one.count = Count(At'[p]) /\ Count(At'[p]) = turn[p] + 1
          /\ one.over = IsOver(At'[p].match.played) /\ one.reason = ReasonOf(At'[p].match.played)
      BY <1>4, <2>10, <3>2, Settles
    <3>4. /\ two.count = Count(At'[q]) /\ Count(At'[q]) = turn[p] + 1
          /\ two.over = IsOver(At'[q].match.played) /\ two.reason = ReasonOf(At'[q].match.played)
      BY <1>4, <2>10, <3>1, <3>2, Settles
    <3>5. At'[p].match.played = At'[q].match.played
      BY <1>4, <3>1, <3>3, <3>4, OnePlay
    <3> QED
      BY <2>0, <2>10, <3>3, <3>4, <3>5 DEF StatusClash, one, two
  <2>11. Inv'
    BY <1>1, <1>4, <1>10, <2>5, <2>6, <2>7, <2>9, Moved
  <2> QED
    BY <2>4, <2>10, <2>11
<1> QED
  BY <1>2, <1>9, <1>10

LEMMA ObserveStep ==
  ASSUME Inv, NEW p \in Peer, NEW index \in {0, 1}, Observe(p, index)
  PROVE  Inv'
<1> DEFINE s == Server(p, index)
           view == MatchAt(s)'.played
           seen == IF s = "police" THEN [polled[p][1] EXCEPT !.cop = view]
                   ELSE [polled[p][1] EXCEPT !.thief = view]
           one == polled[p][1]
           two == polled[p][2]
           q == Other(p)
           n == turn[p] + 1
<1>1. /\ s \in Peer /\ PollAt(s) /\ UNCHANGED <<lost, weather>>
      /\ pc[p] = IF index = 0 THEN "observe0" ELSE "observe1"
      /\ index = 0 => s = p
      /\ index = 1 => s = q
      /\ index = 0 => /\ polled' = [polled EXCEPT ![p][1] = seen]
                      /\ Goto(p, "observe1") /\ UNCHANGED <<turn, move, resolved, history>>
      /\ index = 1 => Take(p, seen)
  BY Fields DEF Observe, Server
<1>2. view = At'[s].match.played
  BY <1>1, MatchOfServer
<1> HIDE DEF view, s
<1>3. /\ Whole(At') /\ Shape /\ pc[p] \notin Ended /\ pc[p] # "done" /\ Follows(At', p)
      /\ turn[p] \in Nat /\ polled[p] \in Seq(Results)
      /\ \A t \in Peer : ~Revealing(p, t) /\ Sound(At'[t])
  BY <1>1, PollCall, WholeFollows DEF Whole, Ended, Shape, Revealing, BeforeReveal
<1>4. /\ Len(polled[p]) = 2 /\ ~StatusClash(one, two)
      /\ Told(At'[p], p, one) /\ Settled(one, p)
      /\ Told(At'[q], p, two) /\ Settled(two, p)
  <2>1. Server(p, 0) = p /\ Server(p, 1) = q
    BY DEF Server
  <2> QED
    BY <1>1, <1>3, <2>1 DEF Follows, Polling
<1>5. one \in Results /\ view \in Seq([EngineRole -> Token])
  <2>1. one \in Results
    BY <1>3, <1>4, ElementOfSeq
  <2>2. view \in Seq([EngineRole -> Token])
    BY <1>1, <1>2, <1>3, Numbers
  <2> QED
    BY <2>1, <2>2
<1>6. /\ seen \in Results /\ seen.count = one.count /\ seen.over = one.over
      /\ seen.reason = one.reason
      /\ s = "police" => seen.cop = view /\ seen.thief = one.thief
      /\ s # "police" => seen.thief = view /\ seen.cop = one.cop
  BY <1>5 DEF Results
<1> HIDE DEF seen
<1>7. CASE index = 0
  <2>1. pc'[p] = "observe1" /\ Goto(p, "observe1") /\ UNCHANGED <<turn, move, resolved, history>>
    BY <1>1, <1>3, <1>7 DEF Goto, Shape
  <2>2. polled'[p] = [polled[p] EXCEPT ![1] = seen]
    BY <1>1, <1>3, <1>7 DEF Shape
  <2>3. /\ polled'[p] \in Seq(Results) /\ Len(polled'[p]) = 2
        /\ polled'[p][1] = seen /\ polled'[p][2] = two
    BY <1>3, <1>4, <1>6, <2>2
  <2>4. /\ polled' \in [Peer -> Seq(Results)] /\ resolved' \in [Peer -> Seq(Results)]
        /\ \A r \in Peer : r # p => resolved'[r] = resolved[r] /\ polled'[r] = polled[r]
    BY <1>1, <1>3, <1>7, <2>1, <2>3 DEF Shape
  <2>5. \A t \in Peer : Opened(At[t], p, t)'
    BY <1>3, <2>1 DEF Follows, Opened, Count
  <2>6. Resolution(At, p)'
    BY <1>3, <2>1 DEF Follows, Resolution, BeforeReveal, Count
  <2>7. Polling(At, p)'
    <3>1. Server(p, 0) = p /\ Server(p, 1) = q
      BY DEF Server
    <3>2. (Told(At[p], p, polled[p][1]))' /\ (Told(At[q], p, polled[p][2]))'
      BY <1>4, <1>6, <2>1, <2>3 DEF Told, Settled, Count
    <3>3. (Settled(polled[p][1], p))' /\ (Settled(polled[p][2], p))'
      BY <1>4, <1>6, <2>1, <2>3 DEF Settled
    <3>4. (~StatusClash(polled[p][1], polled[p][2]))'
      BY <1>4, <1>6, <2>3 DEF StatusClash
    <3>5. (IF p = "police" THEN polled[p][1].cop ELSE polled[p][1].thief)'
            = At'[p].match.played
      BY <1>1, <1>2, <1>6, <1>7, <2>3
    <3>6. \A i \in 1 .. 2 : i = 1 \/ i = 2
      OBVIOUS
    <3>7. \A i \in 1 .. 2 : /\ (Told(At[Server(p, i - 1)], p, polled[p][i]))'
                            /\ (Settled(polled[p][i], p))'
      BY <3>1, <3>2, <3>3, <3>6
    <3> QED
      BY <2>1, <2>3, <3>4, <3>5, <3>7 DEF Polling
  <2>8. "observe1" \in Label \ {"done"}
    BY DEF Label, Ended
  <2> QED
    BY <1>1, <1>3, <2>1, <2>4, <2>5, <2>6, <2>7, <2>8, Moved
<1>8. CASE index = 1
  <2>1. /\ Answered(At'[p], p) /\ Answered(At'[q], p)
        /\ one.count = Count(At'[p]) /\ two.count = Count(At'[q])
    BY <1>3, <1>4, Settles, Fields
  <2>2. one.count = two.count /\ one.over = two.over /\ one.reason = two.reason
    BY <1>4 DEF StatusClash
  <2>3. At'[p].match.played = At'[q].match.played
    <3>1. Count(At'[p]) = Count(At'[q]) /\ q \in Peer
      BY <2>1, <2>2, Fields
    <3> QED
      BY <1>3, <3>1, OnePlay
  <2> DEFINE h == At'[p].match.played
  <2>4. /\ seen.cop = h /\ seen.thief = h
    <3>1. (IF p = "police" THEN one.cop ELSE one.thief) = h
      BY <1>1, <1>3, <1>8 DEF Follows, Polling
    <3>2. s = q /\ (s = "police" <=> p # "police")
      BY <1>1, <1>8, Fields
    <3> QED
      BY <1>2, <1>6, <2>3, <3>1, <3>2
  <2>5. seen.count = Len(h)
    BY <1>6, <2>1 DEF Count
  <2>6. CASE one.reason = "technical_loss"
    <3>1. one.over /\ At'[p].forfeitedBy # {}
      BY <1>3, <1>4, <2>6, Settles
    <3>2. Kept(At', n, seen)
      BY <1>6, <2>4, <2>5, <2>6, <3>1 DEF Kept
    <3>3. \A r \in Peer : Answered(At'[r], p)
      BY <2>1, Fields
    <3> QED
      BY <1>1, <1>3, <1>6, <1>8, <3>1, <3>2, <3>3, Taken
  <2>7. CASE one.reason # "technical_loss"
    <3>1. /\ Count(At'[p]) = n /\ one.over = IsOver(h) /\ one.reason = ReasonOf(h)
      BY <1>3, <1>4, <2>7, Settles
    <3>2. n \in Nat
      BY <1>3
    <3>3. seen = Story(h)
      BY <1>6, <2>4, <2>5, <3>1 DEF Story, Results
    <3>4. /\ Kept(At', n, Story(h))
          /\ \A r \in Peer : At'[r].match.over /\ Count(At'[r]) = n => Story(h).over
      BY <1>3, <3>1, <3>2, Storied
    <3>5. \A r \in Peer : Answered(At'[r], p)
      BY <2>1, Fields
    <3>6. \A r \in Peer : At'[r].match.over => seen.over
      BY <1>3, <3>3, <3>4, <3>5, AnsweredOver
    <3>7. Kept(At', n, seen)
      BY <3>3, <3>4
    <3> QED
      BY <1>1, <1>3, <1>6, <1>8, <3>5, <3>6, <3>7, Taken
  <2> QED
    BY <2>6, <2>7
<1> QED
  BY <1>7, <1>8

-----------------------------------------------------------------------------
(* The invariant of the specification.                                     *)

LEMMA InitServers ==
  ASSUME Init
  PROVE  \A s \in Peer : /\ At[s].match = NewMatch /\ At[s].bookTurn = 0
                         /\ At[s].commitments = NoneYet /\ At[s].moves = NoneYet
                         /\ At[s].deadline = NoDeadline /\ At[s].forfeitedBy = {}
<1>1. Police!NewMatch = NewMatch /\ Thief!NewMatch = NewMatch
  BY DEF Police!NewMatch, Thief!NewMatch, NewMatch, Police!NoSlots, Thief!NoSlots, NoSlots,
         Police!NoDeadline, Thief!NoDeadline, NoDeadline,
         Police!EngineRole, Thief!EngineRole, EngineRole
<1>2. Police!Empty = NoneYet /\ Thief!Empty = NoneYet
  BY PoliceNames, ThiefNames DEF Police!Empty, Thief!Empty, NoneYet
<1>3. /\ pMatch = NewMatch /\ pBookTurn = 0 /\ pCommitments = NoneYet
      /\ pMoves = NoneYet /\ pDeadline = NoDeadline /\ pForfeitedBy = {}
  BY <1>1, <1>2 DEF Init, Police!Init, Police!NoDeadline, NoDeadline
<1>4. /\ tMatch = NewMatch /\ tBookTurn = 0 /\ tCommitments = NoneYet
      /\ tMoves = NoneYet /\ tDeadline = NoDeadline /\ tForfeitedBy = {}
  BY <1>1, <1>2 DEF Init, Thief!Init, Thief!NoDeadline, NoDeadline
<1> QED
  BY <1>3, <1>4, Fields

LEMMA InitInv == Init => Inv
<1> SUFFICES ASSUME Init PROVE Inv
  OBVIOUS
<1>1. \A s \in Peer : /\ At[s].match = NewMatch /\ At[s].bookTurn = 0
                      /\ At[s].commitments = NoneYet /\ At[s].moves = NoneYet
                      /\ At[s].deadline = NoDeadline /\ At[s].forfeitedBy = {}
  BY InitServers
<1>2. \A s \in Peer : /\ Count(At[s]) = 0 /\ At[s].match.played = <<>> /\ ~At[s].match.over
                      /\ Lacking(At[s]) = Peer /\ Closed(At[s]) = Peer
  BY <1>1 DEF Count, NewMatch, Lacking, Closed, NoneYet
<1>3. NewMatch \in MatchOf(Peer)
  BY MatchAssumption DEF NewMatch, MatchOf, NoSlots, Deadline, NoDeadline
<1>4. \A s \in Peer : Typed(At[s])
  BY <1>1, <1>3, MatchAssumption DEF Typed, NoneYet, Digests, Deadline, NoDeadline
<1>5. ASSUME NEW s \in Peer PROVE Sound(At[s])
  <2> DEFINE g == At[s]
  <2>1. /\ g.match.slots = NoSlots /\ g.match.left = NoDeadline /\ g.match.forfeits = {}
        /\ g.forfeitedBy = {} /\ g.deadline = NoDeadline /\ g.bookTurn = 0
        /\ ~IsOver(g.match.played) /\ Lacking(g) = Peer /\ Closed(g) # {}
        /\ \A p \in Peer : g.moves[p] = None
    BY <1>1, <1>2, Fields DEF NewMatch, IsOver, NoneYet
  <2>2. Typed(g) /\ Count(g) = 0 /\ ~g.match.over
    BY <1>2, <1>4
  <2> HIDE DEF g
  <2>3. Sound(g)
    BY <2>1, <2>2, MatchAssumption DEF Sound
  <2> QED
    BY <2>3 DEF g
<1>6. /\ pc = [p \in Peer |-> "commit0"] /\ turn = [p \in Peer |-> 0]
      /\ move \in [Peer -> Token] /\ lost = 0 /\ weather \in {"smooth", "lossy", "stalls"}
      /\ resolved = [p \in Peer |-> <<>>] /\ polled = [p \in Peer |-> <<>>]
      /\ history = [p \in Peer |-> <<>>]
  BY DEF Init
<1>7. Shape
  BY <1>6, RemoteAssumption, EmptySeq DEF Shape, Ended
<1>8. Together(At)
  BY <1>1, <1>2, <1>6
  DEF Together, InTurn, Sealed, Opened, Stops, Revealing, BeforeReveal, NoneYet
<1>9. Alike(At)
  BY <1>1, <1>2, Fields DEF Alike, OneOutcome, SamePlay
<1>10. Truthful(At)
  BY <1>6 DEF Truthful, Resolution, Polling, History
<1> QED
  BY <1>5, <1>7, <1>8, <1>9, <1>10 DEF Inv

LEMMA LoseReplyStep ==
  ASSUME Inv, NEW p \in Peer, NEW index \in {0, 1}, LoseReply(p, index)
  PROVE  Inv'
<1> DEFINE s == Server(p, index)
<1>1. /\ s \in Peer /\ pc[p] # "done" /\ UNCHANGED <<driver, weather>>
      /\ lost' = lost + 1 /\ lost < MaxLost
      /\ CommitAt(s, p, turn[p], move[p]) \/ RevealAt(s, p, turn[p], move[p])
  BY Fields DEF LoseReply, Server
<1> HIDE DEF s
<1>2. Whole(At')
  BY <1>1, CommitCall, RevealCall
<1>3. lost' \in 0 .. MaxLost
  BY <1>1, <1>2, RemoteAssumption DEF Whole, Shape
<1> QED
  BY <1>1, <1>2, <1>3, Idle

LEMMA StopStep ==
  ASSUME Inv, NEW p \in Peer, Stop(p)
  PROVE  Inv'
<1>1. /\ pc[p] # "done" /\ Goto(p, "stopped") /\ UNCHANGED <<policeServer, thiefServer>>
      /\ UNCHANGED <<turn, move, resolved, polled, history, lost, weather>>
  BY DEF Stop, Ended
<1>2. At' = At
  BY <1>1 DEF At, policeServer, thiefServer
<1>3. Whole(At') /\ Shape
  BY <1>2, Wellformed DEF Whole
<1>4. pc'[p] = "stopped" /\ "stopped" \in Label \ {"done"}
  BY <1>1, <1>3 DEF Goto, Shape, Label, Ended
<1>5. \A t \in Peer : Opened(At[t], p, t)'
  BY <1>4 DEF Opened, Ended
<1>6. Resolution(At, p)' /\ Polling(At, p)'
  BY <1>1, <1>3, <1>4 DEF Whole, Truthful, Resolution, Polling, BeforeReveal, Count
<1>7. resolved' \in [Peer -> Seq(Results)] /\ polled' \in [Peer -> Seq(Results)]
  BY <1>1, <1>3 DEF Shape
<1> QED
  BY <1>1, <1>3, <1>4, <1>5, <1>6, <1>7, Moved

LEMMA TickStep ==
  ASSUME Inv, NEW s \in Peer, Tick(s)
  PROVE  Inv'
<1>1. UNCHANGED <<driver, lost, weather>> /\ At'[Other(s)] = At[Other(s)]
  BY TickAtServer DEF Tick
<1>2. Sound(At'[s]) /\ Quiet(At[s], At'[s])
  BY TickAtServer, TickedSound, Wellformed
<1>3. Whole(At')
  BY <1>1, <1>2, Wellformed, QuietPhase
<1>4. lost' \in 0 .. MaxLost
  BY <1>1, <1>3 DEF Whole, Shape
<1> QED
  BY <1>1, <1>3, <1>4, Idle

LEMMA Steps ==
  ASSUME Next
  PROVE  \E p \in Peer : \/ \E index \in {0, 1} : \/ Commit(p, index) \/ Reveal(p, index)
                                                  \/ Status(p, index) \/ Observe(p, index)
                                                  \/ LoseReply(p, index)
                         \/ Stop(p) \/ Tick(p)
BY DEF Next, DriverStep, PushSubmission

LEMMA NextInv == Inv /\ [Next]_vars => Inv'
<1> SUFFICES ASSUME Inv, [Next]_vars PROVE Inv'
  OBVIOUS
<1>1. CASE UNCHANGED vars
  <2>1. At' = At /\ UNCHANGED driver /\ UNCHANGED <<lost, weather>>
    BY <1>1 DEF vars, At, policeServer, thiefServer
  <2>2. Whole(At') /\ lost' \in 0 .. MaxLost
    BY <2>1, Wellformed DEF Inv, Shape
  <2> QED
    BY <2>1, <2>2, Idle
<1>2. CASE Next
  <2>1. PICK p \in Peer : \/ \E index \in {0, 1} : \/ Commit(p, index) \/ Reveal(p, index)
                                                   \/ Status(p, index) \/ Observe(p, index)
                                                   \/ LoseReply(p, index)
                          \/ Stop(p) \/ Tick(p)
    BY <1>2, Steps
  <2> QED
    BY <2>1, CommitStep, RevealStep, StatusStep, ObserveStep, LoseReplyStep, StopStep, TickStep
<1> QED
  BY <1>1, <1>2

(* Every reachable state is one the two servers and the two drivers agree  *)
(* on, whichever calls were made, lost, waited out or cut short.           *)
THEOREM InvHolds == Spec => []Inv
<1>1. QED
  BY InitInv, NextInv, PTL DEF Spec

-----------------------------------------------------------------------------
(* A smooth match: nothing is forfeited, and nobody is early.              *)

Calm(g) == g.forfeitedBy = {} /\ g.deadline # Expired

\* Every server is calm, and has room for the next call of every driver but p.
Roomy(A, p) ==
  \A t \in Peer : Calm(A[t]) /\ \A r \in Peer : r # p => Paced(A[t], r, t)

LEMMA SmoothMeans ==
  ASSUME weather = "smooth"
  PROVE  Smooth(At) <=>
           /\ \A s \in Peer : Calm(At[s])
           /\ \A p \in Peer : pc[p] \notin {"refused", "diverged", "stopped"}
           /\ \A s, p \in Peer : Paced(At[s], p, s)
BY DEF Smooth, Calm

LEMMA CalmCheck ==
  ASSUME Smooth(At), weather = "smooth", NEW s \in Peer,
         At'[Other(s)] = At[Other(s)], Checked(At[s], At'[s])
  PROVE  \A t \in Peer : Calm(At'[t]) /\ \A r \in Peer : Paced(At'[t], r, t)
<1>1. /\ Calm(At[s]) /\ Forfeiting(At[s]) = {}
  BY SmoothMeans DEF Calm, Forfeiting, Stalled
<1>2. /\ At'[s].match = At[s].match /\ At'[s].forfeitedBy = {}
      /\ SameBook(At[s], At'[s])
  BY <1>1 DEF Checked, Calm, Forfeiting, Forfeited
<1>3. \A r \in Peer : Paced(At[s], r, s)
  BY SmoothMeans
<1>4. Calm(At'[s]) /\ \A r \in Peer : Paced(At'[s], r, s)
  BY <1>1, <1>2, <1>3 DEF Calm, SameBook, Paced, Count
<1>5. Calm(At'[Other(s)]) /\ \A r \in Peer : Paced(At'[Other(s)], r, Other(s))
  BY SmoothMeans, Fields
<1> QED
  BY <1>4, <1>5, Fields

LEMMA OthersWait ==
  ASSUME Shape, NEW p \in Peer, NEW index \in {0, 1},
         Commit(p, index) \/ Reveal(p, index) \/ Status(p, index) \/ Observe(p, index)
  PROVE  \A r \in Peer : r # p => pc'[r] = pc[r] /\ turn'[r] = turn[r] /\ move'[r] = move[r]
<1>1. CASE Commit(p, index)
  BY <1>1 DEF Commit, Goto, Shape
<1>2. CASE Reveal(p, index)
  BY <1>2 DEF Reveal, Take, Goto, Shape, driver
<1>3. CASE Status(p, index)
  BY <1>3 DEF Status, Take, Goto, Shape
<1>4. CASE Observe(p, index)
  BY <1>4 DEF Observe, Take, Goto, Shape
<1> QED
  BY <1>1, <1>2, <1>3, <1>4

LEMMA SmoothFrame ==
  ASSUME weather = "smooth", Smooth(At), weather' = weather, NEW p \in Peer, Roomy(At', p),
         \A r \in Peer : r # p => pc'[r] = pc[r] /\ turn'[r] = turn[r] /\ move'[r] = move[r],
         pc'[p] \notin {"refused", "diverged", "stopped"},
         \A t \in Peer : Paced(At[t], p, t)'
  PROVE  Smooth(At)'
<1>1. \A t, r \in Peer : r # p => Paced(At[t], r, t)'
  BY DEF Roomy, Paced, Committing, Revealing, Count
<1>2. \A r \in Peer : pc'[r] \notin {"refused", "diverged", "stopped"}
  BY SmoothMeans
<1>3. \A s \in Peer : (At[s].forfeitedBy = {} /\ At[s].deadline # Expired)'
  BY DEF Roomy, Calm, Expired
<1> QED
  BY <1>1, <1>2, <1>3 DEF Smooth

(* The next turn is open for a driver that settled one.                    *)
LEMMA TakePaces ==
  ASSUME Inv', Whole(At'), NEW p \in Peer, NEW result, Take(p, result),
         \A t \in Peer : At'[t].forfeitedBy = {}
  PROVE  \A t \in Peer : Paced(At[t], p, t)'
<1> SUFFICES ASSUME NEW t \in Peer PROVE Paced(At[t], p, t)'
  OBVIOUS
<1> DEFINE g == At'[t]
<1>1. pc'[p] \in {"done", "commit0"} /\ turn'[p] = turn[p] + 1 /\ turn[p] \in Nat
  BY DEF Take, Goto, Whole, Shape
<1>2. Sound(g) /\ InTurn(g, p) /\ Sealed(g, p) /\ g.forfeitedBy = {}
  BY DEF Whole, Together
<1>3. InTurn(At[t], p)'
  BY DEF Inv, Together
<1>4. Count(g) = turn'[p]
  <2>1. Count(g) >= turn'[p]
    BY <1>2, <1>3 DEF InTurn, Count
  <2>2. Count(g) <= turn[p] + 1
    BY <1>2 DEF InTurn
  <2>3. Count(g) \in Nat
    BY <1>2, Numbers
  <2> HIDE DEF g
  <2> QED
    BY <1>1, <2>1, <2>2, <2>3
<1>5. g.bookTurn = Count(g) => g.commitments[p] = None
  BY <1>1, <1>2, <1>4 DEF Sealed
<1> QED
  BY <1>1, <1>4, <1>5 DEF Paced, Committing, Revealing, BeforeReveal, Count

LEMMA CommittedCalm ==
  ASSUME NEW g, NEW h, NEW p \in Peer, NEW n, NEW token \in Token,
         Sound(g), Calm(g), Accepts(g, p, n), Committed(g, h, p, n, token)
  PROVE  /\ Calm(h) /\ h.bookTurn = n /\ Count(h) = n /\ h.commitments[p] = token
         /\ h.moves[p] = None
         /\ \A s, r \in Peer : r # p /\ Paced(g, r, s) => Paced(h, r, s)
<1>1. CommitOutcome(g, h, p, token)
  BY CommittedSound
<1>2. n = Count(g) /\ h.match = g.match /\ h.deadline # Expired
  BY MatchAssumption DEF Accepts, Committed, Calm, Expired
<1>3. Count(h) = n
  BY <1>2 DEF Count
<1>4. \A s, r \in Peer : r # p /\ Paced(g, r, s) => Paced(h, r, s)
  BY <1>1, <1>2, <1>3 DEF CommitOutcome, Paced, NoneYet
<1> QED
  BY <1>1, <1>2, <1>3, <1>4 DEF CommitOutcome, Calm, NoneYet

LEMMA CommitSmooth ==
  ASSUME Inv, Smooth(At), weather = "smooth", NEW p \in Peer, NEW index \in {0, 1},
         Commit(p, index)
  PROVE  Smooth(At)'
<1> DEFINE s == Server(p, index)
           g == At[s]
           h == At'[s]
           peer == Other(p)
           n == turn[p]
           token == move[p]
<1>1. /\ pc[p] = IF index = 0 THEN "commit0" ELSE "commit1"
      /\ s \in Peer /\ peer \in Peer /\ peer # p
      /\ index = 0 => s = p
      /\ index = 1 => s = peer
      /\ CommitAt(s, p, n, token)
      /\ Goto(p, IF CommitVerdict(s, p, n) # "accepted" THEN "refused"
                 ELSE IF index = 0 THEN "commit1" ELSE "reveal0")
      /\ UNCHANGED <<turn, move, weather>>
  BY Fields DEF Commit, Server
<1> HIDE DEF s
<1>2. /\ Committing(p, s) /\ Paced(g, p, s) /\ Paced(g, peer, s) /\ Calm(g)
      /\ Sound(g) /\ n \in Nat /\ token \in Token
  BY <1>1, SmoothMeans, Wellformed DEF Committing
<1>3. Forfeiting(g) = {} /\ n = Count(g) /\ (n = g.bookTurn => g.commitments[p] = None)
  BY <1>2 DEF Calm, Forfeiting, Stalled, Paced
<1>4. Accepts(g, p, n)
  BY <1>2, <1>3, Numbers DEF Accepts, Sound
<1>5. /\ CommitVerdict(s, p, n) = "accepted" /\ Committed(g, h, p, n, token)
      /\ At'[Other(s)] = At[Other(s)]
  BY <1>1, <1>4, CommitAtServer
<1>6. /\ Calm(h) /\ h.bookTurn = n /\ Count(h) = n /\ h.commitments[p] = token
      /\ h.moves[p] = None /\ Paced(h, peer, s)
  <2> HIDE DEF g, h, n, token
  <2>1. /\ Calm(h) /\ h.bookTurn = n /\ Count(h) = n /\ h.commitments[p] = token
        /\ h.moves[p] = None
        /\ \A t, r \in Peer : r # p /\ Paced(g, r, t) => Paced(h, r, t)
    BY <1>2, <1>4, <1>5, CommittedCalm
  <2> QED
    BY <1>1, <1>2, <2>1
<1>7. pc'[p] = (IF index = 0 THEN "commit1" ELSE "reveal0")
  BY <1>1, <1>5 DEF Goto, Inv, Shape
<1>8. Roomy(At', p)
  <2>1. \A t \in Peer : t # s => At'[t] = At[t]
    BY <1>1, <1>5, Fields
  <2>2. \A r \in Peer : r # p => r = peer
    BY Fields
  <2> QED
    BY <1>1, <1>6, <2>1, <2>2, SmoothMeans DEF Roomy
<1>9. Paced(At[s], p, s)'
  BY <1>1, <1>6, <1>7 DEF Paced, Committing, Count
<1>10. \A t \in Peer : t # s => Paced(At[t], p, t)'
  <2> SUFFICES ASSUME NEW t \in Peer, t # s PROVE Paced(At[t], p, t)'
    OBVIOUS
  <2>1. At'[t] = At[t] /\ Paced(At[t], p, t)
    BY <1>1, <1>5, Fields, SmoothMeans
  <2> QED
    BY <1>1, <1>7, <2>1, Fields DEF Paced, Committing, Revealing, BeforeReveal, Count
<1>11. \A r \in Peer : r # p => pc'[r] = pc[r] /\ turn'[r] = turn[r] /\ move'[r] = move[r]
  BY OthersWait DEF Inv
<1> QED
  BY <1>1, <1>7, <1>8, <1>9, <1>10, <1>11, SmoothFrame

LEMMA RevealedCalm ==
  ASSUME NEW g, NEW h, NEW p \in Peer, NEW n, NEW token \in Token,
         Sound(g), Calm(g), Opens(g, p, n, token), Revealed(g, h, p, token)
  PROVE  Calm(h) /\ \A s, r \in Peer : r # p /\ Paced(g, r, s) => Paced(h, r, s)
<1>1. RevealOutcome(g, h, p, token)
  BY RevealedSound
<1>2. Calm(h)
  BY <1>1 DEF RevealOutcome, Revealed, Calm
<1> SUFFICES ASSUME NEW s \in Peer, NEW r \in Peer, r # p, Paced(g, r, s)
             PROVE  Paced(h, r, s)
  BY <1>2
<1>3. CASE Closed(g) # {p}
  BY <1>1, <1>3 DEF RevealOutcome, Paced, Count
<1>4. CASE Closed(g) = {p}
  <2>1. g.moves[r] # None /\ g.commitments[r] # None /\ g.bookTurn = Count(g)
    BY <1>1, <1>4 DEF RevealOutcome, Closed, Opens, Lacking
  <2> QED
    BY <2>1 DEF Paced
<1> QED
  BY <1>3, <1>4

LEMMA RevealSmooth ==
  ASSUME Inv, Smooth(At), weather = "smooth", NEW p \in Peer, NEW index \in {0, 1},
         Reveal(p, index)
  PROVE  Smooth(At)'
<1> DEFINE s == Server(p, index)
           g == At[s]
           h == At'[s]
           n == turn[p]
           token == move[p]
           verdict == RevealVerdict(s, p, n, token)
<1>1. /\ s \in Peer /\ RevealAt(s, p, n, token) /\ UNCHANGED weather
      /\ pc[p] = IF index = 0 THEN "reveal0" ELSE "reveal1"
      /\ index = 0 => s = p
      /\ index = 1 => s = Other(p)
  BY Fields DEF Reveal, Server
<1>2. \/ verdict = "reveal_before_commit" /\ UNCHANGED driver
      \/ verdict \notin {"waiting", "resolved", "reveal_before_commit"}
      \/ /\ verdict \in {"waiting", "resolved"}
         /\ Goto(p, IF index = 0 THEN "reveal1" ELSE "status0") /\ UNCHANGED <<turn, move>>
      \/ verdict \in {"waiting", "resolved"} /\ Goto(p, "diverged")
      \/ verdict \in {"waiting", "resolved"} /\ \E result : Take(p, result)
  BY DEF Reveal
<1> HIDE DEF s, verdict
<1>3. /\ Inv' /\ pc'[p] # "diverged" /\ Whole(At') /\ At'[Other(s)] = At[Other(s)]
      /\ Shape /\ Sound(g) /\ n \in Nat /\ token \in Token /\ g.bookTurn \in Nat
  BY <1>1, RevealStep, RevealCall, Wellformed DEF Inv
<1>4. Calm(g) /\ Paced(g, p, s) /\ ~Committing(p, s) /\ Revealing(p, s)
  <2>1. Calm(g) /\ Paced(g, p, s)
    BY <1>1, SmoothMeans
  <2>2. ~Committing(p, s) /\ Revealing(p, s)
    BY <1>1, Fields DEF Committing, Revealing, BeforeReveal
  <2> QED
    BY <2>1, <2>2
<1>5. /\ Forfeiting(g) = {} /\ n = Count(g) /\ n = g.bookTurn /\ g.commitments[p] = token
      /\ g.moves[p] = None /\ token # None
  BY <1>3, <1>4, MatchAssumption DEF Calm, Forfeiting, Stalled, Paced
<1>6. \A r \in Peer : r # p => pc'[r] = pc[r] /\ turn'[r] = turn[r] /\ move'[r] = move[r]
  BY <1>3, OthersWait
<1>7. CASE Lacking(g) # {}
  <2>1. ~Opens(g, p, n, token)
    BY <1>7 DEF Opens
  <2>2. verdict = "reveal_before_commit" /\ Checked(g, h)
    BY <1>1, <1>3, <1>5, <1>7, <2>1, RevealAtServer DEF verdict
  <2>3. UNCHANGED driver
    BY <1>2, <2>2
  <2>4. \A t \in Peer : Calm(At'[t]) /\ \A r \in Peer : Paced(At'[t], r, t)
    BY <1>1, <1>3, <2>2, CalmCheck
  <2>5. \A t \in Peer : Paced(At[t], p, t)'
    BY <2>3, <2>4 DEF driver, Paced, Committing, Revealing, Count
  <2>6. pc'[p] \notin {"refused", "diverged", "stopped"}
    BY <2>3, SmoothMeans DEF driver
  <2> QED
    BY <1>1, <1>6, <2>4, <2>5, <2>6, SmoothFrame DEF Roomy
<1>8. CASE Lacking(g) = {}
  <2>1. Opens(g, p, n, token)
    BY <1>5, <1>8 DEF Opens
  <2>2. verdict \in {"waiting", "resolved"} /\ Revealed(g, h, p, token)
    BY <1>1, <1>3, <2>1, RevealAtServer DEF verdict
  <2>3. Roomy(At', p)
    <3>1. Calm(h) /\ \A t, r \in Peer : r # p /\ Paced(g, r, t) => Paced(h, r, t)
      <4> HIDE DEF g, h, n, token
      <4> QED
        BY <1>3, <1>4, <2>1, <2>2, RevealedCalm
    <3>2. \A t \in Peer : t # s => At'[t] = At[t]
      BY <1>1, <1>3, Fields
    <3> QED
      BY <1>1, <3>1, <3>2, SmoothMeans DEF Roomy
  <2>4. CASE Goto(p, IF index = 0 THEN "reveal1" ELSE "status0") /\ UNCHANGED <<turn, move>>
    <3>1. pc'[p] = IF index = 0 THEN "reveal1" ELSE "status0"
      BY <1>3, <2>4 DEF Goto, Shape
    <3>2. ASSUME NEW t \in Peer PROVE Paced(At[t], p, t)'
      <4>1. CASE Revealing(p, t)'
        <5>1. At'[t] = At[t] /\ Paced(At[t], p, t) /\ index = 0 /\ t # p
          BY <1>1, <1>3, <3>1, <4>1, Fields, SmoothMeans DEF Revealing, BeforeReveal
        <5> QED
          BY <1>1, <2>4, <3>1, <5>1 DEF Paced, Committing, Revealing, BeforeReveal, Count
      <4>2. CASE ~Revealing(p, t)'
        BY <3>1, <4>2 DEF Paced, Committing
      <4> QED
        BY <4>1, <4>2
    <3> QED
      BY <1>1, <1>6, <2>3, <3>1, <3>2, SmoothFrame
  <2>5. ASSUME NEW result, Take(p, result) PROVE Smooth(At)'
    <3>1. \A t \in Peer : At'[t].forfeitedBy = {}
      BY <2>3 DEF Roomy, Calm
    <3>2. \A t \in Peer : Paced(At[t], p, t)'
      BY <1>3, <2>5, <3>1, TakePaces
    <3>3. pc'[p] \in {"done", "commit0"}
      BY <1>3, <2>5 DEF Take, Goto, Shape
    <3> QED
      BY <1>1, <1>6, <2>3, <3>2, <3>3, SmoothFrame
  <2>6. ~Goto(p, "diverged")
    BY <1>3 DEF Goto, Shape
  <2> QED
    BY <1>2, <2>2, <2>4, <2>5, <2>6
<1> QED
  BY <1>7, <1>8

LEMMA PollSmooth ==
  ASSUME Inv, Smooth(At), weather = "smooth", NEW p \in Peer, NEW index \in {0, 1},
         Status(p, index) \/ Observe(p, index)
  PROVE  Smooth(At)'
<1> DEFINE s == Server(p, index)
<1>1. s \in Peer /\ PollAt(s) /\ UNCHANGED weather
  BY Fields DEF Status, Observe, Server
<1>2. \/ \E result : Take(p, result)
      \/ /\ UNCHANGED <<turn, move>>
         /\ \E label \in {"status0", "status1", "diverged", "observe0", "observe1"} :
              Goto(p, label)
  BY DEF Status, Observe
<1> HIDE DEF s
<1>3. Whole(At') /\ At'[Other(s)] = At[Other(s)] /\ Checked(At[s], At'[s]) /\ Shape
  BY <1>1, PollCall, PollAtServer DEF Inv
<1>4. \A t \in Peer : Calm(At'[t]) /\ \A r \in Peer : Paced(At'[t], r, t)
  BY <1>1, <1>3, CalmCheck
<1>5. \A t \in Peer : At'[t].forfeitedBy = {}
  BY <1>4 DEF Calm
<1>6. Inv' /\ pc'[p] # "diverged"
  <2>1. CASE Status(p, index)
    BY <1>5, <2>1, StatusStep
  <2>2. CASE Observe(p, index)
    <3>1. pc'[p] # "diverged"
      BY <1>3, <2>2 DEF Observe, Take, Goto, Shape
    <3> QED
      BY <2>2, <3>1, ObserveStep
  <2> QED
    BY <2>1, <2>2
<1>7. \A r \in Peer : r # p => pc'[r] = pc[r] /\ turn'[r] = turn[r] /\ move'[r] = move[r]
  BY <1>3, OthersWait
<1>8. Roomy(At', p)
  BY <1>4 DEF Roomy
<1>9. ASSUME NEW result, Take(p, result) PROVE Smooth(At)'
  <2>1. \A t \in Peer : Paced(At[t], p, t)'
    BY <1>3, <1>5, <1>6, <1>9, TakePaces
  <2>2. pc'[p] \in {"done", "commit0"}
    BY <1>3, <1>9 DEF Take, Goto, Shape
  <2> QED
    BY <1>1, <1>7, <1>8, <2>1, <2>2, SmoothFrame
<1>10. ASSUME NEW label \in {"status0", "status1", "diverged", "observe0", "observe1"},
              Goto(p, label)
       PROVE  Smooth(At)'
  <2>1. pc'[p] = label /\ label # "diverged"
    BY <1>3, <1>6, <1>10 DEF Goto, Shape
  <2>2. \A t \in Peer : Paced(At[t], p, t)'
    BY <1>10, <2>1 DEF Paced, Committing, Revealing, BeforeReveal
  <2>3. pc'[p] \notin {"refused", "diverged", "stopped"}
    BY <1>10, <2>1
  <2> QED
    BY <1>1, <1>7, <1>8, <2>2, <2>3, SmoothFrame
<1> QED
  BY <1>2, <1>9, <1>10

LEMMA SmoothInit == Init => Smooth(At)
<1> SUFFICES ASSUME Init PROVE Smooth(At)
  OBVIOUS
<1>1. \A s \in Peer : /\ Count(At[s]) = 0 /\ At[s].forfeitedBy = {}
                      /\ At[s].deadline = NoDeadline /\ At[s].commitments = NoneYet
  BY InitServers DEF Count, NewMatch
<1>2. pc = [p \in Peer |-> "commit0"] /\ turn = [p \in Peer |-> 0]
  BY DEF Init
<1> QED
  BY <1>1, <1>2 DEF Smooth, Paced, Committing, NoneYet, Expired, NoDeadline

LEMMA SmoothNext == Inv /\ Smooth(At) /\ [Next]_vars => Smooth(At)'
<1> SUFFICES ASSUME Inv, Smooth(At), [Next]_vars PROVE Smooth(At)'
  OBVIOUS
<1>1. CASE UNCHANGED vars
  <2>1. UNCHANGED <<pc, turn, move, weather>> /\ At' = At
    BY <1>1 DEF vars, driver, At, policeServer, thiefServer
  <2> QED
    BY <2>1 DEF Smooth, Paced, Committing, Revealing, Count
<1>2. CASE Next
  <2>1. PICK p \in Peer : \/ \E index \in {0, 1} : \/ Commit(p, index) \/ Reveal(p, index)
                                                   \/ Status(p, index) \/ Observe(p, index)
                                                   \/ LoseReply(p, index)
                          \/ Stop(p) \/ Tick(p)
    BY <1>2, Steps
  <2>2. weather' = weather
    BY <2>1 DEF Commit, Reveal, Status, Observe, LoseReply, Stop, Tick
  <2>3. CASE weather # "smooth"
    BY <2>2, <2>3 DEF Smooth
  <2>4. CASE weather = "smooth"
    <3>1. \E index \in {0, 1} : \/ Commit(p, index) \/ Reveal(p, index)
                                \/ Status(p, index) \/ Observe(p, index)
      BY <2>1, <2>4 DEF LoseReply, Stop, Tick
    <3> QED
      BY <2>4, <3>1, CommitSmooth, RevealSmooth, PollSmooth
  <2> QED
    BY <2>3, <2>4
<1> QED
  BY <1>1, <1>2

-----------------------------------------------------------------------------
(* What it is worth.                                                       *)

(* The two servers of a match, each fed by both drivers at their own pace, *)
(* over lost replies, forfeits and drivers that stop, never play two games.*)
LEMMA OneHistory == Inv => EnginesAgree
<1> SUFFICES ASSUME Inv PROVE EnginesAgree
  OBVIOUS
<1> DEFINE one == pMatch.played  two == tMatch.played
<1>1. /\ At["police"].match.played = one /\ At["thief"].match.played = two
  BY Fields
<1>2. /\ SamePlay(one, two) /\ Len(one) - Len(two) <= 1 /\ Len(two) - Len(one) <= 1
      /\ SamePlay(two, one)
  BY <1>1, Fields DEF Inv, Alike, Count
<1>3. Len(one) \in Nat /\ Len(two) \in Nat
  BY <1>1, Fields, Numbers DEF Inv, Count
<1> HIDE DEF one, two
<1>4. IsPrefixOf(one, two) \/ IsPrefixOf(two, one)
  BY <1>2, <1>3 DEF IsPrefixOf, SamePlay
<1>5. Len(one) - Len(two) \in {-1, 0, 1}
  BY <1>2, <1>3
<1> QED
  BY <1>4, <1>5 DEF EnginesAgree, one, two

(* Without losses, stalls or clocks running out, no call of a driver is    *)
(* turned away and no two servers disagree in its eyes: a driver commits   *)
(* only when both servers reached its turn, whatever the other one's pace. *)
THEOREM NobodyIsRefused == Spec => []NeverOutOfStep
<1>1. Smooth(At) => NeverOutOfStep
  BY DEF Smooth, NeverOutOfStep
<1>2. Spec => []Smooth(At)
  BY InvHolds, SmoothInit, SmoothNext, PTL DEF Spec
<1> QED
  BY <1>1, <1>2, PTL

LEMMA RightTypes == Inv => TypeOK
<1> SUFFICES ASSUME Inv PROVE TypeOK
  OBVIOUS
<1>1. Police!TypeOK
  <2>1. Typed(At["police"])
    BY Fields DEF Inv, Sound
  <2>2. Police!MatchOf(Police!Peer) = MatchOf(Peer) /\ Police!Deadline = Deadline
    BY PoliceNames DEF Police!MatchOf, MatchOf, Police!EngineRole, EngineRole,
                       Police!Deadline, Deadline, Police!NoDeadline, NoDeadline
  <2> QED
    BY <2>1, <2>2, Fields, PoliceNames DEF Police!TypeOK, Typed, Digests, Police!Digest
<1>2. Thief!TypeOK
  <2>1. Typed(At["thief"])
    BY Fields DEF Inv, Sound
  <2>2. Thief!MatchOf(Thief!Peer) = MatchOf(Peer) /\ Thief!Deadline = Deadline
    BY ThiefNames DEF Thief!MatchOf, MatchOf, Thief!EngineRole, EngineRole,
                      Thief!Deadline, Deadline, Thief!NoDeadline, NoDeadline
  <2> QED
    BY <2>1, <2>2, Fields, ThiefNames DEF Thief!TypeOK, Typed, Digests, Thief!Digest
<1>3. ASSUME NEW p \in Peer PROVE turn[p] \in 0 .. MaxMoves
  <2> DEFINE g == At[p]
  <2>1. Sound(g) /\ OneOutcome(g) /\ InTurn(g, p) /\ turn[p] \in Nat
    BY DEF Inv, Alike, Together, Shape
  <2>2. CASE Count(g) >= turn[p]
    BY <2>1, <2>2, Numbers, MatchAssumption DEF Sound
  <2>3. CASE Count(g) = turn[p] - 1 /\ g.forfeitedBy # {}
    <3>1. ~IsOver(g.match.played)
      BY <2>1, <2>3 DEF OneOutcome, Sound
    <3>2. Count(g) < MaxMoves
      BY <2>1, <3>1, Numbers, MatchAssumption, RemoteAssumption DEF IsOver, Ends, Count
    <3> QED
      BY <2>1, <2>3, <3>2, Numbers, MatchAssumption
  <2> QED
    BY <2>1, <2>2, <2>3 DEF InTurn
<1>4. turn \in [Peer -> 0 .. MaxMoves]
  BY <1>3 DEF Inv, Shape
<1> QED
  BY <1>1, <1>2, <1>4 DEF TypeOK, Inv, Shape

LEMMA TechnicalLoss ==
  ASSUME Inv, NEW s \in Peer, At[s].forfeitedBy # {}
  PROVE  TerminalReason(MatchAt(s)) = "technical_loss"
<1>1. MatchAt(s) = At[s].match
  BY Fields DEF MatchAt
<1>2. ~At[s].match.over /\ At[s].match.forfeits # {}
  BY DEF Inv, Alike, OneOutcome, Sound
<1> QED
  BY <1>1, <1>2 DEF TerminalReason

LEMMA WholeResults == Inv => NoTornResult
BY DEF Inv, Truthful, History, Kept, NoTornResult

LEMMA SameRecords == Inv => HistoriesAgree
<1> SUFFICES ASSUME Inv, NEW n \in 1 .. MaxMoves, \A p \in Peer : Len(history[p]) >= n,
                    \A s \in Peer : At[s].forfeitedBy = {}
             PROVE  history["police"][n] = history["thief"][n]
  BY TechnicalLoss DEF HistoriesAgree
<1> DEFINE h == At["police"].match.played
           result(p) == history[p][n]
<1>1. n \in Nat /\ n >= 1
  BY MatchAssumption
<1>2. ASSUME NEW p \in Peer
      PROVE  /\ Len(result(p).cop) = n /\ result(p) = Story(result(p).cop)
             /\ result(p).cop \in Seq([EngineRole -> Token])
             /\ \A i \in 1 .. n : result(p).cop[i] = h[i]
  <2>1. /\ Len(history[p]) = turn[p] /\ turn[p] \in Nat /\ n \in 1 .. turn[p]
        /\ history[p] \in Seq(Results)
    BY <1>1 DEF Inv, Shape, Truthful, History
  <2>2. Kept(At, n, result(p)) /\ result(p) \in Results
    BY <2>1, ElementOfSeq DEF Inv, Truthful, History
  <2>3. Sound(At["police"]) /\ InTurn(At["police"], p)
    BY Fields DEF Inv, Together
  <2>4. Count(At["police"]) >= n
    BY <1>1, <2>1, <2>3, Numbers, Fields DEF InTurn
  <2> HIDE DEF result
  <2>5. /\ Len(result(p).cop) = n /\ result(p) = Story(result(p).cop)
        /\ SamePlay(result(p).cop, h)
    BY <2>2, <2>4, Fields DEF Kept
  <2>6. \A i \in 1 .. n : result(p).cop[i] = h[i]
    BY <1>1, <2>3, <2>4, <2>5, Numbers DEF SamePlay, Count
  <2> QED
    BY <2>2, <2>5, <2>6 DEF Results
<1> HIDE DEF h, result
<1>3. result("police").cop = result("thief").cop
  <2>1. \A i \in 1 .. n : result("police").cop[i] = result("thief").cop[i]
    BY <1>2, Fields
  <2> QED
    BY <1>2, <2>1, Fields, SeqEqual
<1>4. result("police") = result("thief")
  BY <1>2, <1>3, Fields
<1> QED
  BY <1>4 DEF result

(* What the two drivers keep of a match is true of it and the same: every  *)
(* settled result is one moment of the one game, put together from up to   *)
(* four calls (await_turn_count, observed_result), unless a server         *)
(* forfeited the match.                                                    *)
THEOREM TrueRecords == Spec => []RecordsTrue
<1>1. Inv => RecordsTrue
  BY RightTypes, OneHistory, WholeResults, SameRecords DEF RecordsTrue
<1> QED
  BY <1>1, InvHolds, PTL

-----------------------------------------------------------------------------
(* One game of simultaneous turns.                                         *)

(* What a step does to the two servers, whoever takes it: nothing but a    *)
(* stall check, one accepted commitment, or one accepted reveal.           *)
Unmoved(A, B) ==
  \A s \in Peer : /\ B[s].match.played = A[s].match.played
                  /\ B[s].bookTurn = A[s].bookTurn
                  /\ B[s].commitments = A[s].commitments /\ B[s].moves = A[s].moves

Accepted(A, B, s, p) ==
  /\ pc[p] # "done" /\ B[Other(s)] = A[Other(s)]
  /\ Accepts(A[s], p, turn[p]) /\ Committed(A[s], B[s], p, turn[p], move[p])

Uncovered(A, B, s, p) ==
  /\ B[Other(s)] = A[Other(s)]
  /\ Opens(A[s], p, turn[p], move[p]) /\ Revealed(A[s], B[s], p, move[p])

ServersStep(A, B) ==
  \/ Unmoved(A, B)
  \/ \E s, p \in Peer : Accepted(A, B, s, p) \/ Uncovered(A, B, s, p)

(* A driver gives a submission up only for a later turn's.                 *)
Onward ==
  \A p \in Peer : \/ turn'[p] = turn[p] /\ move'[p] = move[p]
                  \/ turn'[p] = turn[p] + 1

LEMMA CheckUnmoved ==
  ASSUME Inv, NEW s \in Peer, At[Other(s)]' = At[Other(s)], Checked(At[s], At[s]')
  PROVE  Unmoved(At, At')
<1>1. Quiet(At[s], At'[s])
  BY Wellformed, CheckedSound
<1> QED
  BY <1>1, Fields DEF Unmoved, Quiet

LEMMA CommitServers ==
  ASSUME Inv, NEW s \in Peer, NEW p \in Peer, pc[p] # "done",
         CommitAt(s, p, turn[p], move[p])
  PROVE  ServersStep(At, At')
<1>1. CASE Accepts(At[s], p, turn[p]) /\ Committed(At[s], At[s]', p, turn[p], move[p])
  <2>1. Accepted(At, At', s, p)
    BY <1>1, CommitAtServer DEF Accepted
  <2> QED
    BY <2>1 DEF ServersStep
<1>2. CASE Checked(At[s], At[s]')
  BY <1>2, CommitAtServer, CheckUnmoved DEF ServersStep
<1> QED
  BY <1>1, <1>2, CommitAtServer

LEMMA RevealServers ==
  ASSUME Inv, NEW s \in Peer, NEW p \in Peer, RevealAt(s, p, turn[p], move[p])
  PROVE  ServersStep(At, At')
<1> DEFINE n == turn[p]  token == move[p]
<1>1. n \in Nat /\ token \in Token /\ At[s].bookTurn \in Nat
  BY Wellformed
<1> HIDE DEF n, token
<1>2. RevealAt(s, p, n, token)
  BY DEF n, token
<1>3. /\ At[Other(s)]' = At[Other(s)]
      /\ \/ Opens(At[s], p, n, token) /\ Revealed(At[s], At[s]', p, token)
         \/ Checked(At[s], At[s]')
  BY <1>1, <1>2, RevealAtServer
<1>4. CASE Opens(At[s], p, n, token) /\ Revealed(At[s], At[s]', p, token)
  <2>1. Uncovered(At, At', s, p)
    BY <1>3, <1>4 DEF Uncovered, n, token
  <2> QED
    BY <2>1 DEF ServersStep
<1>5. CASE Checked(At[s], At[s]')
  <2>1. At[Other(s)]' = At[Other(s)]
    BY <1>3
  <2> QED
    BY <1>5, <2>1, CheckUnmoved DEF ServersStep
<1> QED
  BY <1>3, <1>4, <1>5

LEMMA EveryStep ==
  ASSUME Inv, [Next]_vars
  PROVE  ServersStep(At, At') /\ Onward
<1>0. Shape
  BY DEF Inv
<1>1. CASE UNCHANGED vars
  <2>1. At' = At /\ UNCHANGED <<turn, move>>
    BY <1>1 DEF vars, driver, At, policeServer, thiefServer
  <2> QED
    BY <2>1 DEF ServersStep, Unmoved, Onward
<1>2. CASE Next
  <2>1. PICK p \in Peer : \/ \E index \in {0, 1} : \/ Commit(p, index) \/ Reveal(p, index)
                                                   \/ Status(p, index) \/ Observe(p, index)
                                                   \/ LoseReply(p, index)
                          \/ Stop(p) \/ Tick(p)
    BY <1>2, Steps
  <2>2. ASSUME NEW index \in {0, 1}, Commit(p, index)
        PROVE  ServersStep(At, At') /\ Onward
    <3>1. /\ Server(p, index) \in Peer /\ pc[p] # "done" /\ UNCHANGED <<turn, move>>
          /\ CommitAt(Server(p, index), p, turn[p], move[p])
      BY <2>2, Fields DEF Commit, Server
    <3> QED
      BY <3>1, CommitServers DEF Onward
  <2>3. ASSUME NEW index \in {0, 1}, LoseReply(p, index)
        PROVE  ServersStep(At, At') /\ Onward
    <3>1. /\ Server(p, index) \in Peer /\ pc[p] # "done" /\ UNCHANGED <<turn, move>>
          /\ \/ CommitAt(Server(p, index), p, turn[p], move[p])
             \/ RevealAt(Server(p, index), p, turn[p], move[p])
      BY <2>3, Fields DEF LoseReply, Server, driver
    <3> QED
      BY <3>1, CommitServers, RevealServers DEF Onward
  <2>4. ASSUME NEW index \in {0, 1}, Reveal(p, index)
        PROVE  ServersStep(At, At') /\ Onward
    <3>1. Server(p, index) \in Peer /\ RevealAt(Server(p, index), p, turn[p], move[p])
      BY <2>4, Fields DEF Reveal, Server
    <3>2. Onward
      BY <1>0, <2>4 DEF Reveal, Take, Onward, driver, Shape
    <3> QED
      BY <3>1, <3>2, RevealServers
  <2>5. ASSUME NEW index \in {0, 1}, Status(p, index) \/ Observe(p, index)
        PROVE  ServersStep(At, At') /\ Onward
    <3>1. Server(p, index) \in Peer /\ PollAt(Server(p, index))
      BY <2>5, Fields DEF Status, Observe, Server
    <3>2. Onward
      BY <1>0, <2>5 DEF Status, Observe, Take, Onward, Shape
    <3> QED
      BY <3>1, <3>2, PollAtServer, CheckUnmoved DEF ServersStep
  <2>6. CASE Stop(p)
    <3>1. At' = At /\ UNCHANGED <<turn, move>>
      BY <2>6 DEF Stop, At, policeServer, thiefServer
    <3> QED
      BY <3>1 DEF ServersStep, Unmoved, Onward
  <2>7. CASE Tick(p)
    <3>1. /\ At'[Other(p)] = At[Other(p)] /\ Quiet(At[p], At'[p]) /\ UNCHANGED <<turn, move>>
      BY <2>7, TickAtServer, TickedSound, Wellformed DEF Tick, driver
    <3> QED
      BY <3>1, Fields DEF ServersStep, Unmoved, Onward, Quiet
  <2> QED
    BY <2>1, <2>2, <2>3, <2>4, <2>5, <2>6, <2>7
<1> QED
  BY <1>1, <1>2

(* A seal on one book binds on the other: what either holds of a driver is *)
(* its submission of that turn, forfeited or not, and the other's too.     *)
OnBook(g, p) == g.bookTurn = Count(g) /\ g.commitments[p] # None

Binding(A) ==
  \A s, p \in Peer : OnBook(A[s], p) =>
    /\ turn[p] >= Count(A[s])
    /\ turn[p] = Count(A[s]) => A[s].commitments[p] = move[p]

SameSeal(A) ==
  \A s, p \in Peer :
    /\ OnBook(A[s], p) /\ OnBook(A[Other(s)], p) /\ Count(A[s]) = Count(A[Other(s)])
    => A[s].commitments[p] = A[Other(s)].commitments[p]

OneSeal(A) == Binding(A) /\ SameSeal(A)

(* What an accepted call leaves of the two servers, in one place.          *)
LEMMA AcceptedCall ==
  ASSUME NEW A, NEW B, Whole(A), NEW s \in Peer, NEW p \in Peer, Accepted(A, B, s, p)
  PROVE  /\ B[Other(s)] = A[Other(s)] /\ B[s].match = A[s].match /\ Count(B[s]) = Count(A[s])
         /\ turn[p] = Count(A[s]) /\ move[p] \in Token /\ ~A[s].match.over
         /\ B[s].bookTurn = Count(A[s]) /\ B[s].commitments[p] = move[p]
         /\ B[s].moves = NoneYet
         /\ A[s].bookTurn = Count(A[s]) => A[s].commitments[p] = None
         /\ \A q \in Peer : q # p =>
              B[s].commitments[q] = IF A[s].bookTurn = Count(A[s])
                                    THEN A[s].commitments[q] ELSE None
<1> DEFINE g == A[s]  h == B[s]  n == turn[p]  token == move[p]
<1>1. /\ Sound(g) /\ token \in Token /\ Stops(g, p) /\ n \in Nat
      /\ Accepts(g, p, n) /\ Committed(g, h, p, n, token) /\ pc[p] # "done"
  BY DEF Whole, Together, Shape, Accepted
<1> HIDE DEF g, h, token
<1>2. CommitOutcome(g, h, p, token)
  BY <1>1, CommittedSound
<1>3. h.match = g.match /\ n = Count(g) /\ (g.bookTurn = n => g.commitments[p] = None)
  BY <1>1 DEF Committed, Accepts
<1>4. ~g.match.over
  BY <1>1, <1>3 DEF Stops
<1> QED
  BY <1>1, <1>2, <1>3, <1>4 DEF CommitOutcome, Accepted, Count, g, h, token

(* The reveal that completes a turn on its server.                         *)
Completes(g, p) == Closed(g) = {p}

UncoverOutcome(A, B, s, p) ==
  /\ B[Other(s)] = A[Other(s)]
  /\ A[s].bookTurn = Count(A[s]) /\ Lacking(A[s]) = {} /\ ~A[s].match.over
  /\ move[p] \in Token /\ A[s].commitments[p] = move[p] /\ A[s].moves[p] = None
  /\ B[s].bookTurn = A[s].bookTurn /\ B[s].commitments = A[s].commitments
  /\ B[s].moves[p] # None /\ \A q \in Peer : q # p => B[s].moves[q] = A[s].moves[q]
  /\ ~Completes(A[s], p) => B[s].match = A[s].match
  /\ Completes(A[s], p) =>
       /\ B[s].match.played = Append(A[s].match.played, Pair(A[s]))
       /\ Count(B[s]) = Count(A[s]) + 1

LEMMA UncoveredCall ==
  ASSUME NEW A, NEW B, Whole(A), NEW s \in Peer, NEW p \in Peer, Uncovered(A, B, s, p)
  PROVE  UncoverOutcome(A, B, s, p)
<1> DEFINE g == A[s]  h == B[s]  n == turn[p]  token == move[p]
<1>1. /\ Sound(g) /\ token \in Token
      /\ Opens(g, p, n, token) /\ Revealed(g, h, p, token)
  BY DEF Whole, Shape, Uncovered
<1>2. ~g.match.over
  <2>1. A[s].bookTurn = Count(A[s]) /\ A[s].forfeitedBy = {} /\ A[s].commitments[p] # None
    BY <1>1 DEF Opens, Forfeiting, Lacking
  <2> QED
    BY <2>1, OpenTurn
<1> HIDE DEF g, h, n, token
<1>3. RevealOutcome(g, h, p, token)
  BY <1>1, RevealedSound
<1>4. /\ g.bookTurn = Count(g) /\ Lacking(g) = {} /\ g.moves[p] = None /\ token # None
      /\ g.commitments[p] = token
  BY <1>1, MatchAssumption DEF Opens
<1>5. ASSUME Closed(g) = {p}
      PROVE  h.match.played = Append(g.match.played, Pair(g)) /\ Count(h) = Count(g) + 1
  <2>1. g.match \in MatchOf(Peer)
    BY <1>1 DEF Sound, Typed
  <2>2. h.match.played = Append(g.match.played, Pair(g)) /\ Pair(g) \in [EngineRole -> Token]
    BY <1>2, <1>3, <1>5, <2>1 DEF Played, MatchOf, RevealOutcome
  <2>3. g.match.played \in Seq([EngineRole -> Token])
    BY <1>1, Numbers
  <2> QED
    BY <2>2, <2>3, AppendProperties DEF Count
<1> QED
  BY <1>1, <1>2, <1>3, <1>4, <1>5 DEF RevealOutcome, Uncovered, UncoverOutcome, Completes, g, h, token

LEMMA SealNext == Inv /\ OneSeal(At) /\ [Next]_vars => OneSeal(At)'
<1> SUFFICES ASSUME Inv, OneSeal(At), [Next]_vars PROVE OneSeal(At)'
  OBVIOUS
<1>1. ServersStep(At, At') /\ Onward /\ Whole(At)
  BY EveryStep, Wellformed
<1>2. \A s \in Peer : /\ Count(At[s]) \in Nat /\ At[s].bookTurn \in Nat
                      /\ turn[s] \in Nat
  BY Wellformed, Numbers
<1> DEFINE Fresh(s, p) == At'[s].commitments[p] = move[p] /\ turn[p] = Count(At'[s])
           Standing(s, p) == /\ Count(At'[s]) = Count(At[s]) /\ OnBook(At[s], p)
                          /\ At'[s].commitments[p] = At[s].commitments[p]
<1>3. \A s, p \in Peer : OnBook(At'[s], p) => Fresh(s, p) \/ Standing(s, p)
  <2>1. CASE Unmoved(At, At')
    BY <2>1 DEF Unmoved, OnBook, Count
  <2>2. ASSUME NEW s \in Peer, NEW p \in Peer, Accepted(At, At', s, p)
        PROVE  \A t, q \in Peer : OnBook(At'[t], q) => Fresh(t, q) \/ Standing(t, q)
    <3>1. \A t, q \in Peer : t # s /\ OnBook(At'[t], q) => Standing(t, q)
      BY <2>2, Fields DEF Accepted, OnBook
    <3>2. \A q \in Peer : OnBook(At'[s], q) => Fresh(s, q) \/ Standing(s, q)
      BY <1>1, <2>2, AcceptedCall DEF OnBook
    <3> QED
      BY <3>1, <3>2
  <2>3. ASSUME NEW s \in Peer, NEW p \in Peer, Uncovered(At, At', s, p)
        PROVE  \A t, q \in Peer : OnBook(At'[t], q) => Fresh(t, q) \/ Standing(t, q)
    <3>1. \A t, q \in Peer : t # s /\ OnBook(At'[t], q) => Standing(t, q)
      BY <2>3, Fields DEF Uncovered, OnBook
    <3>2. CASE Completes(At[s], p)
      <4>1. \A q \in Peer : ~OnBook(At'[s], q)
        BY <1>1, <1>2, <2>3, <3>2, UncoveredCall DEF UncoverOutcome, OnBook
      <4> QED
        BY <3>1, <4>1
    <3>3. CASE ~Completes(At[s], p)
      <4>1. \A q \in Peer : OnBook(At'[s], q) => Standing(s, q)
        BY <1>1, <2>3, <3>3, UncoveredCall DEF UncoverOutcome, OnBook, Count
      <4> QED
        BY <3>1, <4>1
    <3> QED
      BY <3>2, <3>3
  <2> QED
    BY <1>1, <2>1, <2>2, <2>3 DEF ServersStep
<1>4. \A s, p \in Peer : OnBook(At[s], p) => /\ turn[p] >= Count(At[s])
                                             /\ turn[p] = Count(At[s])
                                                  => At[s].commitments[p] = move[p]
  BY DEF OneSeal, Binding
<1>5. \A s, p \in Peer : OnBook(At'[s], p) =>
        /\ turn[p] >= Count(At'[s])
        /\ turn[p] = Count(At'[s]) => At'[s].commitments[p] = move[p]
        /\ Count(At'[s]) \in Nat
  BY <1>2, <1>3, <1>4
<1>6. \A s, p \in Peer : OnBook(At'[s], p) =>
        /\ turn'[p] >= Count(At'[s])
        /\ turn'[p] = Count(At'[s]) => At'[s].commitments[p] = move'[p]
  <2> SUFFICES ASSUME NEW s \in Peer, NEW p \in Peer, OnBook(At'[s], p)
               PROVE  /\ turn'[p] >= Count(At'[s])
                      /\ turn'[p] = Count(At'[s]) => At'[s].commitments[p] = move'[p]
    OBVIOUS
  <2>1. (turn'[p] = turn[p] /\ move'[p] = move[p]) \/ turn'[p] = turn[p] + 1
    BY <1>1 DEF Onward
  <2>2. turn[p] \in Nat /\ turn[p] >= Count(At'[s]) /\ Count(At'[s]) \in Nat
    BY <1>2, <1>5
  <2> DEFINE n == turn[p]  m == turn'[p]  c == Count(At'[s])
  <2> HIDE DEF n, m, c
  <2>3. m >= c
    BY <2>1, <2>2 DEF n, m, c
  <2>4. m = c => m = n
    BY <2>1, <2>2 DEF n, m, c
  <2>5. m = c => At'[s].commitments[p] = move'[p]
    BY <1>5, <2>1, <2>2, <2>4 DEF n, m, c
  <2> QED
    BY <2>3, <2>5 DEF m, c
<1>7. \A s, p \in Peer :
        OnBook(At'[s], p) /\ OnBook(At'[Other(s)], p) /\ Count(At'[s]) = Count(At'[Other(s)])
        => At'[s].commitments[p] = At'[Other(s)].commitments[p]
  <2> SUFFICES ASSUME NEW s \in Peer, NEW p \in Peer, OnBook(At'[s], p),
                      OnBook(At'[Other(s)], p), Count(At'[s]) = Count(At'[Other(s)])
               PROVE  At'[s].commitments[p] = At'[Other(s)].commitments[p]
    OBVIOUS
  <2>1. Other(s) \in Peer
    BY Fields
  <2>2. CASE Fresh(s, p) \/ Fresh(Other(s), p)
    BY <1>5, <2>1, <2>2
  <2>3. CASE Standing(s, p) /\ Standing(Other(s), p)
    BY <2>1, <2>3 DEF OneSeal, SameSeal
  <2> QED
    BY <1>3, <2>1, <2>2, <2>3
<1>8. Binding(At)'
  BY <1>6 DEF Binding, OnBook, Count
<1>9. SameSeal(At)'
  BY <1>7 DEF SameSeal, OnBook, Count, Other, Police!Opponent
<1> QED
  BY <1>8, <1>9 DEF OneSeal

LEMMA SealInit == Init => OneSeal(At)
<1> SUFFICES ASSUME Init PROVE OneSeal(At)
  OBVIOUS
<1>1. \A s, p \in Peer : At[s].commitments[p] = None
  BY InitServers DEF NoneYet
<1> QED
  BY <1>1 DEF OneSeal, Binding, SameSeal, OnBook

(* The game as the two servers hold it.                                    *)
Lead(A) == IF Count(A["police"]) >= Count(A["thief"]) THEN "police" ELSE "thief"
Level(A) == Count(A[Lead(A)])
FrontOf(A) == A[Lead(A)].match.played
OnTurn(A, s) == A[s].bookTurn = Level(A)

HeldOf(A, p) ==
  IF OnTurn(A, "police") /\ A["police"].commitments[p] # None
  THEN A["police"].commitments[p]
  ELSE IF OnTurn(A, "thief") THEN A["thief"].commitments[p] ELSE None

ShownOf(A) == {p \in Peer : \E s \in Peer : OnTurn(A, s) /\ A[s].moves[p] # None}

Dealt(A) == [r \in EngineRole |-> HeldOf(A, IF r = "cop" THEN "police" ELSE "thief")]

SealedOf(A) == [p \in Peer |-> IF ShownOf(A) = Peer THEN None ELSE HeldOf(A, p)]
OpenedOf(A) == IF ShownOf(A) = Peer THEN {} ELSE ShownOf(A)
LogOf(A) == IF ShownOf(A) = Peer THEN Append(FrontOf(A), Dealt(A)) ELSE FrontOf(A)

SameGame(A, B) ==
  SealedOf(B) = SealedOf(A) /\ OpenedOf(B) = OpenedOf(A) /\ LogOf(B) = LogOf(A)

SameView(A, B) ==
  /\ FrontOf(B) = FrontOf(A) /\ ShownOf(B) = ShownOf(A)
  /\ \A p \in Peer : HeldOf(B, p) = HeldOf(A, p)

LEMMA ViewGame ==
  ASSUME NEW A, NEW B, SameView(A, B)
  PROVE  SameGame(A, B)
<1>1. Dealt(B) = Dealt(A)
  BY Fields DEF SameView, Dealt
<1> QED
  BY <1>1 DEF SameView, SameGame, SealedOf, OpenedOf, LogOf

(* The turn being played is that of the farther server; a book at it is of *)
(* a server that is there, and every server that is there played the same. *)
LEMMA Leading ==
  ASSUME NEW A, Whole(A)
  PROVE  /\ Lead(A) \in Peer /\ Level(A) \in Nat /\ Len(FrontOf(A)) = Level(A)
         /\ \E s \in Peer : Count(A[s]) = Level(A)
         /\ \A s \in Peer : /\ Count(A[s]) \in Nat /\ A[s].bookTurn \in Nat
                            /\ Count(A[s]) <= Level(A)
                            /\ OnTurn(A, s) => Count(A[s]) = Level(A)
                            /\ Count(A[s]) = Level(A) => A[s].match.played = FrontOf(A)
<1>1. Lead(A) \in Peer
  BY Fields DEF Lead
<1>2. \A s \in Peer : /\ Count(A[s]) \in Nat /\ A[s].bookTurn \in Nat
                      /\ A[s].bookTurn <= Count(A[s])
  BY Numbers DEF Whole, Sound
<1>3. Level(A) \in Nat /\ Len(FrontOf(A)) = Level(A)
  BY <1>1, <1>2 DEF Level, FrontOf, Count
<1>4. Count(A["police"]) <= Level(A) /\ Count(A["thief"]) <= Level(A)
  BY <1>2, Fields DEF Level, Lead
<1>5. \A s \in Peer : Count(A[s]) <= Level(A)
  BY <1>4, Fields
<1>6. \A s \in Peer : OnTurn(A, s) => Count(A[s]) = Level(A)
  BY <1>2, <1>3, <1>5 DEF OnTurn
<1>7. \A s \in Peer : Count(A[s]) = Level(A) => A[s].match.played = FrontOf(A)
  BY <1>1, OnePlay DEF Level, FrontOf
<1> QED
  BY <1>1, <1>2, <1>3, <1>5, <1>6, <1>7 DEF Level

(* What a level, a list of books at it and their holdings come to.         *)
LEMMA Levelled ==
  ASSUME NEW A, Whole(A), NEW s \in Peer, Count(A[Other(s)]) <= Count(A[s])
  PROVE  Level(A) = Count(A[s]) /\ FrontOf(A) = A[s].match.played
<1>1. \A t \in Peer : t = s \/ t = Other(s)
  BY Fields
<1>2. \E t \in Peer : Count(A[t]) = Level(A)
  BY Leading
<1>3. Level(A) = Count(A[s])
  BY <1>1, <1>2, Leading, Fields
<1> QED
  BY <1>3, Leading

LEMMA Holding ==
  ASSUME NEW A, Whole(A), OneSeal(A)
  PROVE  /\ \A s, p \in Peer : OnTurn(A, s) /\ A[s].commitments[p] # None
              => HeldOf(A, p) = A[s].commitments[p]
         /\ \A p \in Peer : HeldOf(A, p) # None
              => \E s \in Peer : OnTurn(A, s) /\ A[s].commitments[p] = HeldOf(A, p)
         /\ \A p, q \in Peer : p \in ShownOf(A) => HeldOf(A, q) # None
<1>1. ASSUME NEW s \in Peer, NEW p \in Peer, OnTurn(A, s), A[s].commitments[p] # None
      PROVE  HeldOf(A, p) = A[s].commitments[p]
  <2>1. ASSUME NEW t \in Peer, OnTurn(A, t), A[t].commitments[p] # None
        PROVE  A[t].commitments[p] = A[s].commitments[p]
    <3>1. Count(A[t]) = Level(A) /\ Count(A[s]) = Level(A)
      BY <1>1, <2>1, Leading
    <3>2. OnBook(A[t], p) /\ OnBook(A[s], p)
      BY <1>1, <2>1, <3>1 DEF OnBook, OnTurn
    <3>3. t = s \/ t = Other(s)
      BY Fields
    <3> QED
      BY <3>1, <3>2, <3>3 DEF OneSeal, SameSeal
  <2>2. CASE s = "police"
    BY <1>1, <2>2 DEF HeldOf
  <2>3. CASE s = "thief"
    BY <1>1, <2>1, <2>3, Fields DEF HeldOf
  <2> QED
    BY <2>2, <2>3, Fields
<1>2. ASSUME NEW p \in Peer, HeldOf(A, p) # None
      PROVE  \E s \in Peer : OnTurn(A, s) /\ A[s].commitments[p] = HeldOf(A, p)
  BY <1>2, Fields DEF HeldOf
<1>3. ASSUME NEW p \in Peer, NEW q \in Peer, p \in ShownOf(A) PROVE HeldOf(A, q) # None
  <2>1. PICK s \in Peer : OnTurn(A, s) /\ A[s].moves[p] # None
    BY <1>3 DEF ShownOf
  <2>2. A[s].commitments[q] # None
    BY <2>1 DEF Whole, Sound, Lacking
  <2> QED
    BY <1>1, <2>1, <2>2
<1> QED
  BY <1>1, <1>2, <1>3

(* Two pairs of servers that hold the same of the same turn.               *)
LEMMA SameHoldings ==
  ASSUME NEW A, NEW B, FrontOf(B) = FrontOf(A), Level(B) = Level(A),
         \A s \in Peer : /\ OnTurn(B, s) <=> OnTurn(A, s)
                         /\ OnTurn(A, s) => /\ B[s].commitments = A[s].commitments
                                            /\ B[s].moves = A[s].moves
  PROVE  SameGame(A, B)
<1>1. ShownOf(B) = ShownOf(A)
  BY DEF ShownOf
<1>2. \A p \in Peer : HeldOf(B, p) = HeldOf(A, p)
  BY Fields DEF HeldOf
<1> QED
  BY <1>1, <1>2, ViewGame DEF SameView

(* The steps of the game, between two pairs of servers.                    *)
SealsNow(A, B, p) ==
  /\ ~IsOver(LogOf(A)) /\ SealedOf(A)[p] = None
  /\ SealedOf(B) = [SealedOf(A) EXCEPT ![p] = move[p]]
  /\ OpenedOf(B) = OpenedOf(A) /\ LogOf(B) = LogOf(A)

OpensNow(A, B, p) ==
  /\ ~IsOver(LogOf(A)) /\ \A q \in Peer : SealedOf(A)[q] # None
  /\ p \notin OpenedOf(A) /\ SealedOf(A)[p] \in Token
  /\ IF OpenedOf(A) \cup {p} = Peer
     THEN /\ LogOf(B) = Append(LogOf(A),
                               [r \in EngineRole |->
                                  SealedOf(A)[IF r = "cop" THEN "police" ELSE "thief"]])
          /\ SealedOf(B) = NoneYet /\ OpenedOf(B) = {}
     ELSE /\ OpenedOf(B) = OpenedOf(A) \cup {p}
          /\ SealedOf(B) = SealedOf(A) /\ LogOf(B) = LogOf(A)

LEMMA UnmovedGame ==
  ASSUME NEW A, NEW B, Unmoved(A, B)
  PROVE  SameGame(A, B)
<1>1. \A s \in Peer : /\ B[s].match.played = A[s].match.played /\ Count(B[s]) = Count(A[s])
                      /\ B[s].bookTurn = A[s].bookTurn /\ B[s].moves = A[s].moves
                      /\ B[s].commitments = A[s].commitments
  BY DEF Unmoved, Count
<1>2. Lead(B) = Lead(A) /\ Lead(A) \in Peer
  BY <1>1, Fields DEF Lead
<1>3. FrontOf(B) = FrontOf(A) /\ Level(B) = Level(A)
  BY <1>1, <1>2 DEF FrontOf, Level
<1> QED
  BY <1>1, <1>3, SameHoldings DEF OnTurn

(* A commitment seals the move, unless the other book already holds it, or *)
(* the server is one turn behind and the seal is of a turn played.         *)
LEMMA AcceptedGame ==
  ASSUME NEW A, NEW B, Whole(A), OneSeal(A), NEW s \in Peer, NEW p \in Peer,
         Accepted(A, B, s, p)
  PROVE  SameGame(A, B) \/ SealsNow(A, B, p)
<1> DEFINE o == Other(s)  n == Count(A[s])  token == move[p]
<1>1. /\ B[o] = A[o] /\ B[s].match = A[s].match /\ Count(B[s]) = n
      /\ turn[p] = n /\ token \in Token /\ ~A[s].match.over
      /\ B[s].bookTurn = n /\ B[s].commitments[p] = token /\ B[s].moves = NoneYet
      /\ A[s].bookTurn = n => A[s].commitments[p] = None
      /\ \A q \in Peer : q # p =>
           B[s].commitments[q] = IF A[s].bookTurn = n THEN A[s].commitments[q] ELSE None
  BY AcceptedCall
<1>2. o \in Peer /\ o # s /\ \A t \in Peer : t = s \/ t = o
  BY Fields
<1>3. token # None
  BY <1>1, MatchAssumption
<1>4. FrontOf(B) = FrontOf(A) /\ Level(B) = Level(A)
  <2>1. \A t \in Peer : B[t].match.played = A[t].match.played /\ Count(B[t]) = Count(A[t])
    BY <1>1, <1>2
  <2>2. Lead(B) = Lead(A) /\ Lead(A) \in Peer
    BY <2>1, Fields DEF Lead
  <2> QED
    BY <2>1, <2>2 DEF FrontOf, Level
<1>5. OnTurn(B, o) <=> OnTurn(A, o)
  BY <1>1, <1>4 DEF OnTurn
<1>6. OnTurn(B, s) <=> n = Level(A)
  BY <1>1, <1>4 DEF OnTurn
<1>7. OnTurn(A, s) <=> n = Level(A) /\ A[s].bookTurn = n
  BY Leading DEF OnTurn
<1>8. CASE n # Level(A)
  BY <1>1, <1>2, <1>4, <1>5, <1>6, <1>7, <1>8, SameHoldings
<1>9. CASE n = Level(A)
  <2>1. \A q \in Peer : A[s].bookTurn = n => A[s].moves[q] = None
    BY <1>1 DEF Whole, Sound, Lacking
  <2>2. ShownOf(B) = ShownOf(A)
    <3>1. \A q \in Peer : B[s].moves[q] = None /\ (OnTurn(A, s) => A[s].moves[q] = None)
      BY <1>1, <1>7, <2>1 DEF NoneYet
    <3> QED
      BY <1>1, <1>2, <1>5, <3>1 DEF ShownOf
  <2>3. ASSUME NEW q \in Peer, q # p PROVE HeldOf(B, q) = HeldOf(A, q)
    <3>1. CASE OnTurn(A, s)
      <4>1. B[s].commitments[q] = A[s].commitments[q]
        BY <1>1, <1>7, <2>3, <3>1
      <4> QED
        BY <1>1, <1>2, <1>5, <1>6, <1>9, <3>1, <4>1, Fields DEF HeldOf
    <3>2. CASE ~OnTurn(A, s)
      <4>1. B[s].commitments[q] = None
        BY <1>1, <1>7, <1>9, <2>3, <3>2
      <4> QED
        BY <1>1, <1>2, <1>5, <1>6, <1>9, <3>2, <4>1, Fields DEF HeldOf
    <3> QED
      BY <3>1, <3>2
  <2>4. OnTurn(A, o) /\ A[o].commitments[p] # None => A[o].commitments[p] = token
    <3> SUFFICES ASSUME OnTurn(A, o), A[o].commitments[p] # None
                 PROVE  A[o].commitments[p] = token
      OBVIOUS
    <3>1. Count(A[o]) = n /\ OnBook(A[o], p)
      BY <1>2, <1>9, Leading DEF OnBook, OnTurn
    <3> QED
      BY <1>1, <1>2, <3>1 DEF OneSeal, Binding
  <2>5. HeldOf(B, p) = token
    BY <1>1, <1>2, <1>3, <1>5, <1>6, <1>9, <2>4, Fields DEF HeldOf
  <2>6. OnTurn(A, s) => A[s].commitments[p] = None
    BY <1>1, <1>7
  <2>7. CASE HeldOf(A, p) # None
    <3>1. PICK t \in Peer : OnTurn(A, t) /\ A[t].commitments[p] = HeldOf(A, p)
      BY <2>7, Holding
    <3>2. HeldOf(A, p) = token
      BY <1>2, <2>4, <2>6, <2>7, <3>1
    <3> QED
      BY <1>4, <2>2, <2>3, <2>5, <3>2, ViewGame DEF SameView
  <2>8. CASE HeldOf(A, p) = None
    <3>1. ShownOf(A) = {}
      BY <2>8, Holding DEF ShownOf
    <3>2. ShownOf(A) # Peer /\ ShownOf(B) # Peer
      BY <2>2, <3>1, Fields
    <3>3. /\ SealedOf(A) = [q \in Peer |-> HeldOf(A, q)] /\ OpenedOf(A) = {}
          /\ SealedOf(B) = [q \in Peer |-> HeldOf(B, q)] /\ OpenedOf(B) = {}
          /\ LogOf(A) = FrontOf(A) /\ LogOf(B) = FrontOf(A)
      BY <1>4, <2>2, <3>1, <3>2 DEF SealedOf, OpenedOf, LogOf
    <3>4. ~IsOver(FrontOf(A))
      <4>1. FrontOf(A) = A[s].match.played
        BY <1>9, Leading
      <4> QED
        BY <1>1, <4>1 DEF Whole, Sound
    <3>5. SealedOf(B) = [SealedOf(A) EXCEPT ![p] = token]
      BY <2>3, <2>5, <3>3
    <3> QED
      BY <2>8, <3>3, <3>4, <3>5 DEF SealsNow
  <2> QED
    BY <2>7, <2>8
<1> QED
  BY <1>8, <1>9

(* A reveal opens the seal, unless the other book already holds the move,  *)
(* or the server is one turn behind.                                       *)
LEMMA UncoveredBehind ==
  ASSUME NEW A, NEW B, Whole(A), Whole(B), NEW s \in Peer, NEW p \in Peer,
         Uncovered(A, B, s, p), Count(A[s]) # Level(A)
  PROVE  SameGame(A, B)
<1> DEFINE o == Other(s)  n == Count(A[s])
<1>1. /\ B[o] = A[o] /\ A[s].bookTurn = n /\ B[s].bookTurn = A[s].bookTurn
      /\ ~Completes(A[s], p) => B[s].match = A[s].match
      /\ Completes(A[s], p) => Count(B[s]) = n + 1
  BY UncoveredCall DEF UncoverOutcome
<1>2. o \in Peer /\ o # s /\ \A t \in Peer : t = s \/ t = o
  BY Fields
<1>3. n \in Nat /\ n < Level(A) /\ Level(A) \in Nat
  BY Leading
<1>4. Count(A[o]) = Level(A) /\ A[o].match.played = FrontOf(A)
  BY <1>2, Leading
<1>5. Count(B[s]) <= Count(B[o])
  <2>1. Count(B[s]) = n \/ Count(B[s]) = n + 1
    BY <1>1 DEF Count
  <2>2. Count(B[o]) = Level(A)
    BY <1>1, <1>4
  <2> HIDE DEF n
  <2> QED
    BY <1>3, <2>1, <2>2
<1>6. Level(B) = Level(A) /\ FrontOf(B) = FrontOf(A)
  <2>1. Other(o) = s
    BY Fields
  <2> QED
    BY <1>1, <1>2, <1>4, <1>5, <2>1, Levelled
<1> QED
  BY <1>1, <1>2, <1>3, <1>6, SameHoldings DEF OnTurn

LEMMA UncoveredGame ==
  ASSUME NEW A, NEW B, Whole(A), Whole(B), OneSeal(A), NEW s \in Peer, NEW p \in Peer,
         Uncovered(A, B, s, p)
  PROVE  SameGame(A, B) \/ OpensNow(A, B, p)
<1> DEFINE o == Other(s)  n == Count(A[s])  S == ShownOf(A) \cup {p}
<1>1. /\ B[o] = A[o] /\ A[s].bookTurn = n /\ ~A[s].match.over
      /\ move[p] \in Token /\ A[s].commitments[p] = move[p] /\ A[s].moves[p] = None
      /\ B[s].bookTurn = A[s].bookTurn /\ B[s].commitments = A[s].commitments
      /\ B[s].moves[p] # None
      /\ ~Completes(A[s], p) => B[s].match = A[s].match
      /\ Completes(A[s], p) =>
           /\ B[s].match.played = Append(A[s].match.played, Pair(A[s]))
           /\ Count(B[s]) = n + 1
  BY UncoveredCall DEF UncoverOutcome
<1>0. \A q \in Peer : /\ A[s].commitments[q] # None
                      /\ q # p => B[s].moves[q] = A[s].moves[q]
  BY UncoveredCall DEF UncoverOutcome, Lacking
<1>2. o \in Peer /\ o # s /\ \A t \in Peer : t = s \/ t = o
  BY Fields
<1>3. CASE n # Level(A)
  BY <1>3, UncoveredBehind
<1>4. CASE n = Level(A)
  <2>1. /\ OnTurn(A, s) /\ FrontOf(A) = A[s].match.played /\ n \in Nat
        /\ Count(A[o]) \in Nat /\ Count(A[o]) <= n /\ A[o].bookTurn \in Nat
        /\ A[o].bookTurn <= Count(A[o])
    <3>1. A[o].bookTurn <= Count(A[o])
      BY <1>2 DEF Whole, Sound
    <3>2. OnTurn(A, s)
      BY <1>1, <1>4 DEF OnTurn
    <3> QED
      BY <1>2, <1>4, <3>1, <3>2, Leading
  <2>2. \A q \in Peer : HeldOf(A, q) = A[s].commitments[q] /\ HeldOf(A, q) # None
    BY <1>0, <2>1, Holding
  <2>3. ~IsOver(FrontOf(A))
    BY <1>1, <2>1 DEF Whole, Sound
  <2>4. Dealt(A) = Pair(A[s])
    <3>1. Dealt(A) = [r \in EngineRole |->
                        IF r = "cop" THEN A[s].commitments["police"]
                        ELSE A[s].commitments["thief"]]
      BY <2>2, Fields DEF Dealt
    <3> QED
      BY <3>1, Fields
      DEF Pair, PairOf, EngineRoleOf, Police!EngineRoleOf, Police!Peer, Peer, EngineRole
  (* What the reveal comes to, whether or not the engine plays the pair.   *)
  <2>5. /\ S = Peer => /\ LogOf(B) = Append(FrontOf(A), Dealt(A))
                       /\ SealedOf(B) = NoneYet /\ OpenedOf(B) = {}
        /\ S # Peer => /\ LogOf(B) = FrontOf(A) /\ OpenedOf(B) = S
                       /\ SealedOf(B) = [q \in Peer |-> HeldOf(A, q)]
    <3>1. CASE ~Completes(A[s], p)
      <4>1. \A t \in Peer : B[t].match.played = A[t].match.played /\ Count(B[t]) = Count(A[t])
        BY <1>1, <1>2, <3>1 DEF Count
      <4>2. FrontOf(B) = FrontOf(A) /\ Level(B) = n
        <5>1. Lead(B) = Lead(A) /\ Lead(A) \in Peer
          BY <4>1, Fields DEF Lead
        <5> QED
          BY <1>4, <4>1, <5>1 DEF FrontOf, Level
      <4>3. OnTurn(B, s) /\ (OnTurn(B, o) <=> OnTurn(A, o))
        BY <1>1, <1>4, <4>2 DEF OnTurn
      <4>4. ShownOf(B) = S
        BY <1>0, <1>1, <1>2, <2>1, <4>3 DEF ShownOf
      <4>5. \A q \in Peer : HeldOf(B, q) = HeldOf(A, q)
        <5>1. \A t, q \in Peer : B[t].commitments[q] = A[t].commitments[q]
          BY <1>1, <1>2
        <5>2. \A t \in Peer : OnTurn(B, t) <=> OnTurn(A, t)
          BY <1>2, <2>1, <4>3
        <5> QED
          BY <5>1, <5>2, Fields DEF HeldOf
      <4>6. Dealt(B) = Dealt(A)
        BY <4>5, Fields DEF Dealt
      <4> QED
        BY <4>2, <4>4, <4>5, <4>6 DEF LogOf, SealedOf, OpenedOf, NoneYet
    <3>2. CASE Completes(A[s], p)
      <4>1. Count(B[s]) = n + 1 /\ B[s].match.played = Append(FrontOf(A), Dealt(A))
        BY <1>1, <2>1, <2>4, <3>2
      <4>2. Count(B[o]) <= Count(B[s])
        <5>1. Count(B[o]) = Count(A[o])
          BY <1>1
        <5> QED
          BY <2>1, <4>1, <5>1
      <4>3. Level(B) = n + 1 /\ FrontOf(B) = Append(FrontOf(A), Dealt(A))
        BY <4>1, <4>2, Levelled
      <4>4. \A t \in Peer : ~OnTurn(B, t)
        <5>1. /\ B[s].bookTurn = n /\ B[o].bookTurn = A[o].bookTurn
              /\ A[o].bookTurn <= Count(A[o])
          BY <1>1, <2>1
        <5> HIDE DEF n
        <5>2. n # n + 1 /\ A[o].bookTurn # n + 1
          BY <2>1, <5>1
        <5> QED
          BY <1>2, <4>3, <5>1, <5>2 DEF OnTurn
      <4>5. ShownOf(B) = {} /\ {} # Peer /\ \A q \in Peer : HeldOf(B, q) = None
        BY <4>4, Fields DEF ShownOf, HeldOf
      <4>6. SealedOf(B) = NoneYet /\ OpenedOf(B) = {} /\ LogOf(B) = FrontOf(B)
        BY <4>5 DEF SealedOf, OpenedOf, LogOf, NoneYet
      <4>7. S = Peer
        <5>1. \A q \in Peer : q # p => A[s].moves[q] # None
          BY <3>2 DEF Completes, Closed
        <5> QED
          BY <2>1, <5>1 DEF ShownOf
      <4> QED
        BY <4>3, <4>6, <4>7
    <3> QED
      BY <3>1, <3>2
  <2>6. CASE ShownOf(A) = Peer
    <3>1. /\ SealedOf(A) = NoneYet /\ OpenedOf(A) = {} /\ S = Peer
          /\ LogOf(A) = Append(FrontOf(A), Dealt(A))
      BY <2>6 DEF SealedOf, OpenedOf, LogOf, NoneYet
    <3> QED
      BY <2>5, <3>1 DEF SameGame
  <2>7. CASE ShownOf(A) # Peer
    <3>1. /\ SealedOf(A) = [q \in Peer |-> HeldOf(A, q)] /\ OpenedOf(A) = ShownOf(A)
          /\ LogOf(A) = FrontOf(A)
      BY <2>7 DEF SealedOf, OpenedOf, LogOf
    <3>2. CASE p \in ShownOf(A)
      <4>1. S = ShownOf(A)
        BY <3>2
      <4> QED
        BY <2>5, <2>7, <3>1, <4>1 DEF SameGame
    <3>3. CASE p \notin ShownOf(A)
      <4>1. /\ \A q \in Peer : SealedOf(A)[q] # None
            /\ SealedOf(A)[p] \in Token
        BY <1>1, <2>2, <3>1
      <4>2. [r \in EngineRole |-> SealedOf(A)[IF r = "cop" THEN "police" ELSE "thief"]]
              = Dealt(A)
        BY <3>1, Fields DEF Dealt
      <4>3. OpenedOf(A) \cup {p} = S
        BY <3>1
      <4> HIDE DEF S
      <4> QED
        BY <2>3, <2>5, <3>1, <3>3, <4>1, <4>2, <4>3 DEF OpensNow
    <3> QED
      BY <3>2, <3>3
  <2> QED
    BY <2>6, <2>7
<1> QED
  BY <1>3, <1>4

(* The game's variables, as RemoteMatch defines them.                      *)
SealedBar == [p \in Peer |-> IF Shown = Peer THEN None ELSE Held(p)]
OpenedBar == IF Shown = Peer THEN {} ELSE Shown
LogBar ==
  IF Shown = Peer
  THEN Append(Front, [r \in EngineRole |-> Held(IF r = "cop" THEN "police" ELSE "thief")])
  ELSE Front

LEMMA Bars == SealedBar = SealedOf(At) /\ OpenedBar = OpenedOf(At) /\ LogBar = LogOf(At)
<1>1. /\ Front = FrontOf(At) /\ Len(Front) = Level(At)
  BY Fields DEF Front, FrontOf, Level, Lead, Count
<1>2. (PoliceBook <=> OnTurn(At, "police")) /\ (ThiefBook <=> OnTurn(At, "thief"))
  BY <1>1, Fields DEF PoliceBook, ThiefBook, OnTurn
<1>3. /\ At["police"].commitments = pCommitments /\ At["police"].moves = pMoves
      /\ At["thief"].commitments = tCommitments /\ At["thief"].moves = tMoves
  BY Fields
<1>4. \A p : Held(p) = HeldOf(At, p)
  BY <1>2, <1>3 DEF Held, HeldOf
<1>5. Shown = ShownOf(At)
  BY <1>2, <1>3, Fields DEF Shown, ShownOf
<1> QED
  <2>1. SealedBar = SealedOf(At) /\ OpenedBar = OpenedOf(At)
    BY <1>4, <1>5 DEF SealedBar, OpenedBar, SealedOf, OpenedOf
  <2>2. [r \in EngineRole |-> Held(IF r = "cop" THEN "police" ELSE "thief")] = Dealt(At)
    BY <1>4 DEF Dealt
  <2> QED
    BY <1>1, <1>5, <2>1, <2>2 DEF LogBar, LogOf

LEMMA BarsNext ==
  /\ SealedBar' = SealedOf(At') /\ OpenedBar' = OpenedOf(At') /\ LogBar' = LogOf(At')
<1>1. (SealedBar = SealedOf(At) /\ OpenedBar = OpenedOf(At) /\ LogBar = LogOf(At))'
  BY Bars, PTL
<1> QED
  BY <1>1 DEF SealedOf, OpenedOf, LogOf, FrontOf, ShownOf, HeldOf, Dealt, OnTurn, Level,
              Lead, Count

LEMMA GameInit == Init => Game!Init
<1> SUFFICES ASSUME Init PROVE Game!Init
  OBVIOUS
<1>1. \A s \in Peer : /\ At[s].commitments = NoneYet /\ At[s].moves = NoneYet
                      /\ At[s].match.played = <<>>
  BY InitServers DEF NewMatch
<1>2. ShownOf(At) = {} /\ {} # Peer /\ \A p \in Peer : HeldOf(At, p) = None
  BY <1>1, Fields DEF ShownOf, HeldOf, NoneYet
<1>3. FrontOf(At) = <<>>
  BY <1>1, Fields DEF FrontOf, Lead
<1>4. SealedBar = NoneYet /\ OpenedBar = {} /\ LogBar = <<>>
  BY <1>2, <1>3, Bars DEF SealedOf, OpenedOf, LogOf, NoneYet
<1>5. Game!NoSeals = NoneYet
  BY DEF Game!NoSeals, Game!Peer, NoneYet, Peer, Police!Peer
<1> QED
  BY <1>4, <1>5 DEF Game!Init, SealedBar, OpenedBar, LogBar

LEMMA GameSeals ==
  ASSUME NEW p \in Peer, move[p] \in Token, SealsNow(At, At', p)
  PROVE  Game!Next
<1>1. /\ SealedBar' = [SealedBar EXCEPT ![p] = move[p]] /\ OpenedBar' = OpenedBar
      /\ LogBar' = LogBar /\ SealedBar[p] = None /\ ~IsOver(LogBar)
  BY Bars, BarsNext DEF SealsNow
<1>2. Game!Live
  BY <1>1 DEF Game!Live, Game!Ended, LogBar, IsOver, Ends
<1>3. Game!Seal(p, move[p])
  BY <1>1, <1>2 DEF Game!Seal, SealedBar, OpenedBar, LogBar
<1>4. p \in Game!Peer
  BY DEF Peer, Police!Peer, Game!Peer
<1> QED
  BY <1>3, <1>4 DEF Game!Next

LEMMA GameOpens ==
  ASSUME NEW p \in Peer, OpensNow(At, At', p)
  PROVE  Game!Next
<1>0. Game!Peer = Peer
  BY DEF Peer, Police!Peer, Game!Peer
<1>1. /\ ~IsOver(LogBar) /\ \A q \in Peer : SealedBar[q] # None
      /\ p \notin OpenedBar /\ SealedBar[p] \in Token
      /\ IF OpenedBar \cup {p} = Peer
         THEN /\ LogBar' = Append(LogBar,
                                  [r \in EngineRole |->
                                     SealedBar[IF r = "cop" THEN "police" ELSE "thief"]])
              /\ SealedBar' = NoneYet /\ OpenedBar' = {}
         ELSE OpenedBar' = OpenedBar \cup {p} /\ SealedBar' = SealedBar /\ LogBar' = LogBar
  BY Bars, BarsNext DEF OpensNow
<1>2. Game!Live
  BY <1>1 DEF Game!Live, Game!Ended, LogBar, IsOver, Ends
<1>3. Game!AllSealed
  BY <1>0, <1>1 DEF Game!AllSealed, SealedBar
<1>4. Game!NoSeals = NoneYet
  BY <1>0 DEF Game!NoSeals, NoneYet
<1>5. [r \in {"cop", "thief"} |-> SealedBar[Game!PeerOf[r]]]
        = [r \in EngineRole |-> SealedBar[IF r = "cop" THEN "police" ELSE "thief"]]
  BY DEF Game!PeerOf, EngineRole
<1>6. Game!Open(p)
  <2>1. CASE OpenedBar \cup {p} = Peer
    BY <1>0, <1>1, <1>2, <1>3, <1>4, <1>5, <2>1
    DEF Game!Open, SealedBar, OpenedBar, LogBar
  <2>2. CASE OpenedBar \cup {p} # Peer
    BY <1>0, <1>1, <1>2, <1>3, <2>2 DEF Game!Open, SealedBar, OpenedBar, LogBar
  <2> QED
    BY <2>1, <2>2
<1> QED
  BY <1>0, <1>6 DEF Game!Next

LEMMA GameNext == Inv /\ Inv' /\ OneSeal(At) /\ [Next]_vars => [Game!Next]_(Game!vars)
<1> SUFFICES ASSUME Inv, Inv', OneSeal(At), [Next]_vars
             PROVE  [Game!Next]_(Game!vars)
  OBVIOUS
<1>1. ServersStep(At, At') /\ Whole(At)
  BY EveryStep, Wellformed
<1>2. ASSUME SameGame(At, At') PROVE UNCHANGED Game!vars
  <2>1. SealedBar' = SealedBar /\ OpenedBar' = OpenedBar /\ LogBar' = LogBar
    BY <1>2, Bars, BarsNext DEF SameGame
  <2> QED
    BY <2>1 DEF Game!vars, SealedBar, OpenedBar, LogBar
<1>3. CASE Unmoved(At, At')
  BY <1>2, <1>3, UnmovedGame
<1>4. ASSUME NEW s \in Peer, NEW p \in Peer, Accepted(At, At', s, p)
      PROVE  [Game!Next]_(Game!vars)
  BY <1>1, <1>2, <1>4, AcceptedGame, GameSeals DEF Whole, Shape
<1>5. ASSUME NEW s \in Peer, NEW p \in Peer, Uncovered(At, At', s, p)
      PROVE  [Game!Next]_(Game!vars)
  <2>1. Whole(At')
    BY <1>1, <1>5, RevealPhase DEF Uncovered
  <2> QED
    BY <1>1, <1>2, <1>5, <2>1, UncoveredGame, GameOpens
<1> QED
  BY <1>1, <1>3, <1>4, <1>5 DEF ServersStep

(* Every call of the two drivers to the two servers, over losses, forfeits *)
(* and drivers that stop, comes to one game of simultaneous turns: nobody  *)
(* opens a seal on any server before both are sealed, and what is played   *)
(* is what was sealed (push_submission, SubmissionGate).                   *)
THEOREM OneGame == Spec => ImplementsOneGame
<1>1. Spec => []OneSeal(At)
  BY SealInit, SealNext, InvHolds, PTL DEF Spec
<1>2. Spec => Game!Spec
  BY <1>1, GameInit, GameNext, InvHolds, PTL DEF Spec, Game!Spec
<1> QED
  BY <1>2 DEF ImplementsOneGame
=============================================================================
