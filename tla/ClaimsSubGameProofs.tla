------------------------- MODULE ClaimsSubGameProofs -------------------------
(***************************************************************************)
(* The safety of a sub-game on claims, for every board, every contract and *)
(* every choice of dials.                                                  *)
(***************************************************************************)
EXTENDS ClaimsSubGame, FiniteSetTheorems, WellFoundedInduction, TLAPS

-----------------------------------------------------------------------------
(* The inductive invariant, in named parts.                                *)

Done == {"audit", "closing", "closed"}

(* A side seals one record a step, of the cell it then stands on, and has  *)
(* an outcome from its last step on.                                       *)
Sealing ==
  \A p \in Peer :
    /\ Len(chain[p]) <= step[p] /\ step[p] <= Len(chain[p]) + 1
    /\ pc[p] = "play" => Len(chain[p]) = step[p] - 1
    /\ pc[p] \in {"await"} \cup Done => Len(chain[p]) = step[p]
    /\ \A n \in DOMAIN chain[p] : chain[p][n].step = n
    /\ pc[p] = "await" => chain[p][step[p]].position = position[p]
    /\ pc[p] \in Done => outcome[p] \in [outcome : {"capture", "survival"}, steps : {step[p]}]
    /\ outcome[p] # None => pc[p] \in Done

(* What a turn says its sender sealed, it did seal.                        *)
Told(turn) ==
  /\ turn.step \in DOMAIN chain[turn.sender]
  /\ turn.commit = chain[turn.sender][turn.step]

(* A server holds what is dialled to it, and every sealed step was pushed. *)
Delivery ==
  /\ \A q \in Peer : \A i \in DOMAIN inbox[q] :
       Told(inbox[q][i]) /\ dial[inbox[q][i].sender] = q
  /\ \A p \in Peer : pc[p] = "await" =>
       sent[p] \in Turn /\ Told(sent[p]) /\ sent[p].sender = p /\ sent[p].step = step[p]
  /\ \A p \in Peer : \A n \in DOMAIN chain[p] :
       \E i \in DOMAIN inbox[dial[p]] :
         inbox[dial[p]][i].sender = p /\ inbox[dial[p]][i].step = n

(* A piece known to stand in a barrier, or to be boxed in, is caught.      *)
Bounded ==
  \A p \in Peer : placed[p] # {} /\ Captured(position[p], placed[p]) => caught[p]

(* An audit is filed by a side that has sealed its last step.              *)
Judged ==
  \A q \in Peer : \A i \in DOMAIN audits[q] :
    LET entry == audits[q][i]
    IN  /\ dial[entry.sender] = q
        /\ pc[entry.sender] \in {"closing", "closed"}
        /\ dial[Other(q)] = q /\ dial[q] # q =>
             (entry.verdict = "accepted" <=> entry.records = chain[entry.sender])

(* A side whose turns come back to it hears at most one turn of the other, *)
(* which in turn hears nothing.                                            *)
Opening(turn) == turn.step = 1 /\ turn.response = None

Echoes(m) ==
  /\ \A i \in DOMAIN inbox[m] : inbox[m][i].sender # m => Opening(inbox[m][i])
  /\ dial[Other(m)] = m =>
       /\ inbox[Other(m)] = <<>> /\ step[Other(m)] = 1 /\ answer[Other(m)] = None
       /\ pc[Other(m)] = "await" => Opening(sent[Other(m)])
  /\ \/ caught[m]
     \/ pc[m] \in {"play", "await", "failed"} /\ ~capturedThem[m] /\ step[m] <= 2

Mirrored ==
  MaxSteps > 1 => \A p \in Peer : dial[p] = p => Echoes(p)

(* Without barriers a turn is what the two chains say: the police claims   *)
(* the cell it sealed, the thief answers the claim of the step before.     *)
Heard(n) == [claim |-> chain["police"][n].position, caught |-> MetAt(n)]

Speaks(turn) ==
  /\ turn.barrier = None
  /\ turn.claim = Claim(turn.sender, turn.commit.position)
  /\ turn.sender = "police" \/ turn.step = 1 => turn.response = None
  /\ turn.sender = "thief" /\ turn.step > 1 => turn.response = Heard(turn.step - 1)

InStep ==
  \A p \in Peer : step[p] > 1 => step[p] - 1 \in DOMAIN chain[Other(p)]

Spoken ==
  /\ \A q \in Peer : \A i \in DOMAIN inbox[q] : Speaks(inbox[q][i])
  /\ \A p \in Peer : pc[p] = "await" => Speaks(sent[p])
  /\ answer["police"] = None
  /\ pc["thief"] = "play" =>
       answer["thief"] = IF step["thief"] = 1 THEN None ELSE Heard(step["thief"] - 1)

Thief ==
  LET s == step["thief"]
  IN  /\ pc["thief"] = "play" => (caught["thief"] <=> MetAt(s - 1))
      /\ pc["thief"] = "await" => ~caught["thief"]
      /\ \A n \in 1 .. MaxSteps : MetAt(n) =>
           /\ Len(chain["thief"]) <= n + 1
           /\ Len(chain["thief"]) = n + 1 =>
                pc["thief"] \in Done /\ outcome["thief"].outcome = "capture"
      /\ pc["thief"] \in Done =>
           IF outcome["thief"].outcome = "capture"
           THEN MetAt(s - 1) \/ MetAt(MaxSteps)
           ELSE /\ s = MaxSteps /\ Len(chain["police"]) = MaxSteps
                /\ \A n \in 1 .. MaxSteps : ~MetAt(n)

Police ==
  LET s == step["police"]
  IN  /\ ~caught["police"]
      /\ capturedThem["police"] <=>
           pc["police"] \in Done /\ outcome["police"].outcome = "capture"
      /\ \A n \in 1 .. MaxSteps : MetAt(n) =>
           /\ Len(chain["police"]) <= n + 1
           /\ pc["police"] = "play" => Len(chain["police"]) <= n
      /\ pc["police"] \in Done =>
           IF capturedThem["police"]
           THEN MetAt(s - 1)
           ELSE s = MaxSteps /\ \A n \in 1 .. MaxSteps : MetAt(n) => n = MaxSteps

Bare ==
  Placements = {} =>
    /\ \A p \in Peer : placed[p] = {}
    /\ ~capturedThem["thief"]
    /\ InStep /\ Spoken /\ Thief /\ Police

Inv == TypeOK /\ Sealing /\ Delivery /\ Bounded /\ Judged /\ Mirrored /\ Bare

-----------------------------------------------------------------------------
(* The operators the proofs keep needing.                                  *)

(* A set of naturals has a least element.                                  *)
LEMMA LeastNat ==
  ASSUME NEW S \in SUBSET Nat, S # {}
  PROVE  \E n \in S : \A m \in S : n <= m
<1> DEFINE R == OpToRel(<, Nat)
<1>1. IsWellFoundedOn(R, Nat)
  BY NatLessThanWellFounded
<1>2. \A m, n \in Nat : m < n => <<m, n>> \in R
  BY DEF OpToRel
<1> HIDE DEF R
<1>3. PICK n \in S : \A y \in S : ~ (<<y, n>> \in R)
  BY <1>1, WFMin
<1>4. \A m \in S : ~(m < n)
  BY <1>2, <1>3
<1> QED
  BY <1>4

(* First is the least index.                                               *)
LEMMA FirstIs ==
  ASSUME NEW S \in SUBSET Nat, S # {}
  PROVE  First(S) \in S
<1>1. \E i \in S : \A j \in S : i <= j
  BY LeastNat
<1> QED
  BY <1>1 DEF First

(* Latest is the greatest, of a bounded set.                               *)
LEMMA LatestIs ==
  ASSUME NEW n \in Nat, NEW S \in SUBSET (1 .. n), S # {}
  PROVE  Latest(S) \in S
<1> DEFINE T == {n - i : i \in S}
<1>1. T \in SUBSET Nat /\ T # {}
  <2>1. \A i \in S : n - i \in Nat
    OBVIOUS
  <2> QED
    BY <2>1
<1>2. PICK k \in T : \A m \in T : k <= m
  BY <1>1, LeastNat
<1>3. PICK i \in S : k = n - i
  BY <1>2
<1>4. \A j \in S : j <= i
  BY <1>2, <1>3
<1> QED
  BY <1>4 DEF Latest

(* A step on the board can be taken back.                                  *)
LEMMA Backwards ==
  ASSUME NEW cell \in Cell, NEW move \in Action
  PROVE  Toward(cell, move) = cell \/ cell \in Neighbours(Toward(cell, move))
<1>1. PICK x, y \in Int : cell = <<x, y>>
  BY ClaimsAssumption DEF Cell
<1>2. CASE move = "N"
  <2>1. cell = Toward(Toward(cell, move), "S")
    BY <1>1, <1>2 DEF Toward, Delta
  <2> QED
    BY <2>1 DEF Neighbours, Action
<1>3. CASE move = "S"
  <2>1. cell = Toward(Toward(cell, move), "N")
    BY <1>1, <1>3 DEF Toward, Delta
  <2> QED
    BY <2>1 DEF Neighbours, Action
<1>4. CASE move = "E"
  <2>1. cell = Toward(Toward(cell, move), "W")
    BY <1>1, <1>4 DEF Toward, Delta
  <2> QED
    BY <2>1 DEF Neighbours, Action
<1>5. CASE move = "W"
  <2>1. cell = Toward(Toward(cell, move), "E")
    BY <1>1, <1>5 DEF Toward, Delta
  <2> QED
    BY <2>1 DEF Neighbours, Action
<1>6. CASE move = "STAY"
  BY <1>1, <1>6 DEF Toward, Delta
<1> QED
  BY <1>2, <1>3, <1>4, <1>5, <1>6 DEF Action

-----------------------------------------------------------------------------
(* Types.                                                                  *)

(* What a contract grants.                                                 *)
LEMMA Contract ==
  ASSUME scene \in Scenes, dial \in Dials
  PROVE  /\ MaxSteps \in Nat \ {0} /\ Placements \subseteq Cell
         /\ CopStart \in Cell \ Walls /\ ThiefStart \in Cell \ Walls
         /\ Rewriters \subseteq Peer /\ dial \in [Peer -> Peer]
BY ClaimsAssumption DEF MaxSteps, Placements, Walls, Rewriters, Dials

(* A contract and a dial last for the sub-game.                            *)
LEMMA Setting ==
  ASSUME [Next]_vars
  PROVE  scene' = scene /\ dial' = dial
BY DEF Next, vars, setting, DriverStep, Play, Read, Audit, Close, Repush, Unreachable,
       GiveUp, PushFails

LEMMA SameSets ==
  ASSUME scene' = scene
  PROVE  /\ Walls' = Walls /\ MaxSteps' = MaxSteps /\ Placements' = Placements
         /\ Dials' = Dials /\ Turn' = Turn /\ Sealed' = Sealed /\ Response' = Response
         /\ Disclosed' = Disclosed
BY DEF Walls, MaxSteps, Placements, Dials, Turn, Sealed, Response, Disclosed

(* A walk ends on a free cell.                                             *)
LEMMA Walks ==
  ASSUME TypeOK, NEW p \in Peer, NEW move \in Action
  PROVE  /\ Walk(p, move) \in Cell \ Walls
         /\ \/ Walk(p, move) = position[p]
            \/ /\ position[p] \in Neighbours(Walk(p, move))
               /\ Walk(p, move) \notin placed[p]
<1>1. position[p] \in Cell \ Walls
  BY DEF TypeOK
<1> QED
  BY <1>1, Backwards DEF Walk

(* A push appends a turn to one inbox.                                     *)
LEMMA Pushes ==
  ASSUME TypeOK, NEW p \in Peer, NEW message \in Turn, Push(p, message)
  PROVE  /\ inbox' \in [Peer -> Seq(Turn)]
         /\ dial[p] \in Peer
         /\ \A q \in Peer : q # dial[p] => inbox'[q] = inbox[q]
         /\ inbox'[dial[p]] = Append(inbox[dial[p]], message)
<1>1. dial[p] \in Peer
  BY Contract DEF TypeOK
<1>2. inbox \in [Peer -> Seq(Turn)]
  BY DEF TypeOK
<1>3. Append(inbox[dial[p]], message) \in Seq(Turn)
  BY <1>1, <1>2
<1> QED
  BY <1>1, <1>2, <1>3 DEF Push

(* The turn a waiting side reads is one of its inbox.                      *)
LEMMA Reads ==
  ASSUME TypeOK, NEW p \in Peer, Matches(p) # {}
  PROVE  /\ First(Matches(p)) \in DOMAIN inbox[p]
         /\ inbox[p][First(Matches(p))] \in Turn
         /\ \/ Ours(p, inbox[p][First(Matches(p))])
            \/ inbox[p][First(Matches(p))].step = step[p]
<1>1. inbox[p] \in Seq(Turn)
  BY DEF TypeOK
<1>2. Matches(p) \in SUBSET Nat
  BY <1>1 DEF Matches
<1>3. First(Matches(p)) \in Matches(p)
  BY <1>2, FirstIs
<1> DEFINE i == First(Matches(p))
<1>4. i \in DOMAIN inbox[p] /\ (Ours(p, inbox[p][i]) \/ inbox[p][i].step = step[p])
  BY <1>3 DEF Matches
<1> HIDE DEF i
<1>5. inbox[p][i] \in Turn
  BY <1>1, <1>4
<1> QED
  BY <1>4, <1>5 DEF i

(* What a side sends and seals.                                            *)
LEMMA Messages ==
  ASSUME TypeOK, NEW p \in Peer, NEW cell \in Cell \ Walls,
         NEW barrier \in (IF p = "police" THEN Placements \cup {None} ELSE {None})
  PROVE  /\ Seal(step[p], cell) \in Sealed
         /\ BuildTurn(p, step[p], cell, Claim(p, cell), Answered(p), barrier) \in Turn
<1>1. step[p] \in 1 .. MaxSteps /\ answer[p] \in Response \cup {None}
  BY DEF TypeOK
<1>2. Seal(step[p], cell) \in Sealed
  BY <1>1 DEF Seal, Sealed
<1>3. Claim(p, cell) \in Cell \cup {None}
  BY DEF Claim
<1>4. barrier \in Placements \cup {None}
  OBVIOUS
<1> QED
  BY <1>1, <1>2, <1>3, <1>4 DEF BuildTurn, Turn, Answered

(* A disclosed chain has a record for every step that was sealed.          *)
LEMMA Discloses ==
  ASSUME TypeOK, Sealing, NEW p \in Peer, NEW records \in Disclosures(p)
  PROVE  /\ records \in Seq([step : 1 .. MaxSteps, position : Cell])
         /\ DOMAIN records = DOMAIN chain[p]
         /\ \A n \in DOMAIN records : records[n].step = n
<1> DEFINE Record == [step : 1 .. MaxSteps, position : Cell]
<1>1. /\ chain[p] \in Seq(Sealed) /\ step[p] \in 1 .. MaxSteps /\ Len(chain[p]) <= step[p]
      /\ \A n \in DOMAIN chain[p] : chain[p][n].step = n
      /\ MaxSteps \in Nat
  BY Contract DEF TypeOK, Sealing
<1>2. chain[p] \in Seq(Record)
  <2>1. Sealed \subseteq Record
    BY DEF Sealed
  <2> HIDE DEF Record
  <2> QED
    BY <1>1, <2>1
<1>3. ASSUME records = chain[p]
      PROVE  /\ records \in Seq(Record)
             /\ DOMAIN records = DOMAIN chain[p]
             /\ \A n \in DOMAIN records : records[n].step = n
  BY <1>1, <1>2, <1>3
<1>4. ASSUME NEW n \in DOMAIN chain[p], NEW cell \in Cell,
             records = [chain[p] EXCEPT ![n] = Seal(n, cell)]
      PROVE  /\ records \in Seq(Record)
             /\ DOMAIN records = DOMAIN chain[p]
             /\ \A m \in DOMAIN records : records[m].step = m
  <2>1. n \in 1 .. MaxSteps
    BY <1>1
  <2>2. Seal(n, cell) \in Record /\ Seal(n, cell).step = n
    BY <2>1 DEF Seal
  <2> HIDE DEF Record
  <2>3. DOMAIN records = DOMAIN chain[p]
    BY <1>4
  <2>4. records \in Seq(Record)
    BY <1>2, <1>4, <2>2
  <2>5. \A m \in DOMAIN records : records[m].step = m
    BY <1>1, <1>4, <2>2, <2>3
  <2> QED
    BY <2>3, <2>4, <2>5
<1> HIDE DEF Record
<1>5. \/ records = chain[p]
      \/ \E n \in DOMAIN chain[p], cell \in Cell :
           records = [chain[p] EXCEPT ![n] = Seal(n, cell)]
  BY DEF Disclosures
<1>6. /\ records \in Seq(Record)
      /\ DOMAIN records = DOMAIN chain[p]
      /\ \A n \in DOMAIN records : records[n].step = n
  <2>1. CASE records = chain[p]
    BY <1>3, <2>1
  <2>2. CASE \E n \in DOMAIN chain[p], cell \in Cell :
               records = [chain[p] EXCEPT ![n] = Seal(n, cell)]
    BY <1>4, <2>2
  <2> QED
    BY <1>5, <2>1, <2>2
<1> QED
  BY <1>6 DEF Record

Kinds == TypeOK /\ Sealing

LEMMA KindsInit ==
  ASSUME Init
  PROVE  Kinds
<1>1. /\ MaxSteps \in Nat \ {0} /\ CopStart \in Cell \ Walls /\ ThiefStart \in Cell \ Walls
  BY Contract DEF Init
<1>2. \A S : <<>> \in Seq(S) /\ Len(<<>>) = 0 /\ DOMAIN <<>> = {}
  OBVIOUS
<1>3. TypeOK
  BY <1>1, <1>2, ClaimsAssumption DEF Init, TypeOK, Peer
<1>4. Sealing
  BY <1>1, <1>2 DEF Init, Sealing, Done
<1> QED
  BY <1>3, <1>4 DEF Kinds

(* An answer is a response or none.                                        *)
LEMMA Answers ==
  ASSUME TypeOK, NEW p \in Peer, NEW turn \in Turn, NEW conceded \in BOOLEAN
  PROVE  Answer(p, turn, conceded) \in Response \cup {None}
<1>1. position[p] \in Cell /\ answer[p] \in Response \cup {None}
  BY DEF TypeOK
<1>2. turn.claim \in Cell \cup {None}
  BY DEF Turn
<1> QED
  BY <1>1, <1>2 DEF Answer, Response

(* A turn walks to a cell, seals it and pushes the message about it.       *)
Turns(p, cell, barrier, message) ==
  /\ p = "thief" => barrier = None
  /\ cell = position[p] \/ (position[p] \in Neighbours(cell) /\ cell \notin placed[p])
  /\ message = BuildTurn(p, step[p], cell, Claim(p, cell), Answered(p), barrier)
  /\ position' = [position EXCEPT ![p] = cell]
  /\ chain' = [chain EXCEPT ![p] = Append(@, Seal(step[p], cell))]
  /\ sent' = [sent EXCEPT ![p] = message]
  /\ Push(p, message)

LEMMA Plays ==
  ASSUME TypeOK, NEW p \in Peer, Play(p)
  PROVE  \E cell \in Cell \ Walls, barrier \in Placements \cup {None}, message \in Turn :
           Seal(step[p], cell) \in Sealed /\ Turns(p, cell, barrier, message)
<1>1. PICK move \in Action,
           barrier \in (IF p = "police" THEN Placements \cup {None} ELSE {None}) :
        LET cell == Walk(p, move)
            message == BuildTurn(p, step[p], cell, Claim(p, cell), Answered(p), barrier)
        IN  /\ position' = [position EXCEPT ![p] = cell]
            /\ chain' = [chain EXCEPT ![p] = Append(@, Seal(step[p], cell))]
            /\ sent' = [sent EXCEPT ![p] = message]
            /\ Push(p, message)
  BY DEF Play
<1> DEFINE cell == Walk(p, move)
           message == BuildTurn(p, step[p], cell, Claim(p, cell), Answered(p), barrier)
<1>2. /\ cell \in Cell \ Walls
      /\ cell = position[p] \/ (position[p] \in Neighbours(cell) /\ cell \notin placed[p])
  BY Walks
<1>3. /\ position' = [position EXCEPT ![p] = cell]
      /\ chain' = [chain EXCEPT ![p] = Append(@, Seal(step[p], cell))]
      /\ sent' = [sent EXCEPT ![p] = message]
      /\ Push(p, message)
  BY <1>1
<1> HIDE DEF cell
<1>4. Seal(step[p], cell) \in Sealed /\ message \in Turn
  BY <1>2, Messages
<1>5. message = BuildTurn(p, step[p], cell, Claim(p, cell), Answered(p), barrier)
  OBVIOUS
<1> HIDE DEF message
<1>6. barrier \in Placements \cup {None} /\ (p = "thief" => barrier = None)
  OBVIOUS
<1>7. Turns(p, cell, barrier, message)
  BY <1>2, <1>3, <1>5, <1>6 DEF Turns
<1> QED
  BY <1>2, <1>4, <1>6, <1>7

LEMMA KindsPlay ==
  ASSUME Kinds, NEW p \in Peer, Play(p)
  PROVE  Kinds'
<1> USE DEF Kinds
<1>1. PICK cell \in Cell \ Walls, barrier \in Placements \cup {None}, message \in Turn :
        Seal(step[p], cell) \in Sealed /\ Turns(p, cell, barrier, message)
  BY Plays
<1>2. /\ pc[p] = "play"
      /\ answer' = [answer EXCEPT ![p] = None]
      /\ repushes' = [repushes EXCEPT ![p] = 0]
      /\ IF caught[p]
         THEN Finish(p, "capture")
         ELSE Goto(p, "await") /\ UNCHANGED outcome
      /\ scene' = scene /\ dial' = dial /\ UNCHANGED <<audits, placed, caught, capturedThem>>
      /\ UNCHANGED <<step, verdict, harvest>>
  BY DEF Play, setting
<1>3. /\ position' = [position EXCEPT ![p] = cell]
      /\ chain' = [chain EXCEPT ![p] = Append(@, Seal(step[p], cell))]
      /\ sent' = [sent EXCEPT ![p] = message]
      /\ inbox' \in [Peer -> Seq(Turn)]
  BY <1>1, Pushes DEF Turns
<1>4. /\ step[p] \in 1 .. MaxSteps /\ chain[p] \in Seq(Sealed) /\ Len(chain[p]) = step[p] - 1
      /\ MaxSteps \in Nat
      /\ \A n \in DOMAIN chain[p] : chain[p][n].step = n
  BY <1>2, Contract DEF TypeOK, Sealing
<1> DEFINE sealed == Append(chain[p], Seal(step[p], cell))
<1>5. /\ sealed \in Seq(Sealed) /\ Len(sealed) = step[p]
      /\ DOMAIN sealed = 1 .. step[p] /\ sealed[step[p]] = Seal(step[p], cell)
      /\ \A n \in DOMAIN chain[p] : sealed[n] = chain[p][n]
      /\ DOMAIN chain[p] = 1 .. step[p] - 1
  BY <1>1, <1>4
<1>6. \A n \in DOMAIN sealed : sealed[n].step = n
  BY <1>4, <1>5 DEF Seal
<1> HIDE DEF sealed
<1>7. chain' = [chain EXCEPT ![p] = sealed]
  BY <1>3 DEF sealed
<1>8. /\ outcome' \in [Peer -> [outcome : {"capture", "survival"}, steps : 1 .. MaxSteps]
                             \cup {None}]
      /\ pc' \in [Peer -> {"play", "await", "audit", "closing"} \cup Ended]
  <2> DEFINE Results == [outcome : {"capture", "survival"}, steps : 1 .. MaxSteps] \cup {None}
  <2>1. outcome \in [Peer -> Results]
    BY DEF TypeOK
  <2>2. [outcome |-> "capture", steps |-> step[p]] \in Results
    BY <1>4
  <2> HIDE DEF Results
  <2>3. outcome' \in [Peer -> Results]
    BY <1>2, <2>1, <2>2 DEF Finish
  <2>4. pc' = [pc EXCEPT ![p] = "audit"] \/ pc' = [pc EXCEPT ![p] = "await"]
    BY <1>2 DEF Finish, Goto
  <2>5. pc' \in [Peer -> {"play", "await", "audit", "closing"} \cup Ended]
    BY <2>4 DEF TypeOK
  <2> QED
    BY <2>3, <2>5 DEF Results
<1>9. TypeOK'
  <2>1. /\ chain' \in [Peer -> Seq(Sealed)] /\ position' \in [Peer -> Cell \ Walls]
        /\ sent' \in [Peer -> Turn \cup {None}] /\ answer' \in [Peer -> Response \cup {None}]
        /\ repushes' \in [Peer -> 0 .. MaxRepush]
    BY <1>2, <1>3, <1>5, <1>7, ClaimsAssumption DEF TypeOK
  <2>2. /\ Walls' = Walls /\ MaxSteps' = MaxSteps /\ Dials' = Dials /\ Turn' = Turn
        /\ Sealed' = Sealed /\ Response' = Response /\ Disclosed' = Disclosed
    BY <1>2, SameSets
  <2> QED
    BY <1>2, <1>3, <1>8, <2>1, <2>2 DEF TypeOK
<1>10. Sealing'
  <2> SUFFICES ASSUME NEW q \in Peer
               PROVE  /\ Len(chain'[q]) <= step'[q] /\ step'[q] <= Len(chain'[q]) + 1
                      /\ pc'[q] = "play" => Len(chain'[q]) = step'[q] - 1
                      /\ pc'[q] \in {"await"} \cup Done => Len(chain'[q]) = step'[q]
                      /\ \A n \in DOMAIN chain'[q] : chain'[q][n].step = n
                      /\ pc'[q] = "await" => chain'[q][step'[q]].position = position'[q]
                      /\ pc'[q] \in Done =>
                           outcome'[q] \in [outcome : {"capture", "survival"},
                                            steps : {step'[q]}]
                      /\ outcome'[q] # None => pc'[q] \in Done
    BY DEF Sealing, Done
  <2>1. CASE q # p
    <3>1. /\ chain'[q] = chain[q] /\ step'[q] = step[q] /\ pc'[q] = pc[q]
          /\ outcome'[q] = outcome[q] /\ position'[q] = position[q]
      BY <1>2, <1>3, <2>1 DEF TypeOK, Finish, Goto
    <3> QED
      BY <3>1 DEF Sealing, Done
  <2>2. CASE q = p
    <3>1. /\ chain'[p] = sealed /\ step'[p] = step[p] /\ position'[p] = cell
          /\ sealed[step[p]].position = cell
      BY <1>2, <1>3, <1>5, <1>7 DEF TypeOK, Seal
    <3>2. CASE caught[p]
      <4>1. /\ pc'[p] = "audit"
            /\ outcome'[p] = [outcome |-> "capture", steps |-> step[p]]
        BY <1>2, <3>2 DEF TypeOK, Finish, Goto
      <4>2. outcome'[p] \in [outcome : {"capture", "survival"}, steps : {step[p]}]
        BY <4>1
      <4> QED
        BY <1>4, <1>5, <1>6, <2>2, <3>1, <4>1, <4>2 DEF Done
    <3>3. CASE ~caught[p]
      <4>1. pc'[p] = "await" /\ outcome'[p] = outcome[p] /\ outcome[p] = None
        BY <1>2, <3>3 DEF TypeOK, Goto, Sealing, Done
      <4> QED
        BY <1>4, <1>5, <1>6, <2>2, <3>1, <4>1 DEF Done
    <3> QED
      BY <3>2, <3>3
  <2> QED
    BY <2>1, <2>2
<1> QED
  BY <1>9, <1>10

(* Reading: the turn read, what it makes of the side, and what follows.    *)
Taken(p, turn) ==
  LET barriers == placed[p] \cup ({turn.barrier} \ {None})
      conceded == turn.barrier # None /\ Captured(position[p], barriers)
      isCaught == \/ caught[p] \/ conceded
                  \/ p = "thief" /\ turn.claim = position[p]
  IN  /\ placed' = [placed EXCEPT ![p] = barriers]
      /\ answer' = [answer EXCEPT ![p] = Answer(p, turn, conceded)]
      /\ caught' = [caught EXCEPT ![p] = isCaught]
      /\ capturedThem' = [capturedThem EXCEPT ![p] = @ \/ Confirms(p, turn)]
      /\ UNCHANGED position

Refused(p) == Goto(p, "failed") /\ UNCHANGED <<side, step, outcome>>

Follows(p, result) ==
  \/ /\ capturedThem'[p] /\ result = "capture"
     /\ Finish(p, result) /\ UNCHANGED step
  \/ /\ ~capturedThem'[p] /\ step[p] = MaxSteps
     /\ result = IF caught'[p] THEN "capture" ELSE "survival"
     /\ Finish(p, result) /\ UNCHANGED step
  \/ /\ ~capturedThem'[p] /\ step[p] < MaxSteps
     /\ step' = [step EXCEPT ![p] = @ + 1]
     /\ Goto(p, "play") /\ UNCHANGED outcome

LEMMA Hears ==
  ASSUME TypeOK, NEW p \in Peer, Read(p)
  PROVE  \E i \in DOMAIN inbox[p] :
           /\ inbox[p][i] \in Turn
           /\ \/ Ours(p, inbox[p][i]) /\ Refused(p)
              \/ /\ ~Ours(p, inbox[p][i]) /\ inbox[p][i].step = step[p]
                 /\ Taken(p, inbox[p][i])
                 /\ \E result \in {"capture", "survival"} : Follows(p, result)
<1> DEFINE i == First(Matches(p))
<1>1. /\ i \in DOMAIN inbox[p] /\ inbox[p][i] \in Turn
      /\ Ours(p, inbox[p][i]) \/ inbox[p][i].step = step[p]
  BY Reads DEF Read
<1>2. CASE Ours(p, inbox[p][i])
  <2>1. Refused(p)
    BY <1>2 DEF Read, Refused
  <2> QED
    BY <1>1, <1>2, <2>1
<1>3. CASE ~Ours(p, inbox[p][i])
  <2> DEFINE turn == inbox[p][i]
             barriers == placed[p] \cup ({turn.barrier} \ {None})
             conceded == turn.barrier # None /\ Captured(position[p], barriers)
             isCaught == \/ caught[p] \/ conceded
                         \/ p = "thief" /\ turn.claim = position[p]
  <2>1. /\ placed' = [placed EXCEPT ![p] = barriers]
        /\ answer' = [answer EXCEPT ![p] = Answer(p, turn, conceded)]
        /\ caught' = [caught EXCEPT ![p] = isCaught]
        /\ capturedThem' = [capturedThem EXCEPT ![p] = @ \/ Confirms(p, turn)]
        /\ UNCHANGED position
        /\ \/ /\ capturedThem'[p]
              /\ Finish(p, "capture") /\ UNCHANGED step
           \/ /\ ~capturedThem'[p] /\ step[p] = MaxSteps
              /\ Finish(p, IF isCaught THEN "capture" ELSE "survival")
              /\ UNCHANGED step
           \/ /\ ~capturedThem'[p] /\ step[p] < MaxSteps
              /\ step' = [step EXCEPT ![p] = @ + 1]
              /\ Goto(p, "play") /\ UNCHANGED outcome
    BY <1>3 DEF Read
  <2>2. Taken(p, turn)
    BY <2>1 DEF Taken
  <2>3. caught'[p] = isCaught
    BY <2>1 DEF TypeOK
  <2>4. \E result \in {"capture", "survival"} : Follows(p, result)
    <3> HIDE DEF isCaught, turn
    <3>1. (IF isCaught THEN "capture" ELSE "survival") \in {"capture", "survival"}
      OBVIOUS
    <3> QED
      BY <2>1, <2>3, <3>1 DEF Follows
  <2> QED
    BY <1>1, <1>3, <2>2, <2>4
<1> QED
  BY <1>2, <1>3

LEMMA KindsRead ==
  ASSUME Kinds, NEW p \in Peer, Read(p)
  PROVE  Kinds'
<1> USE DEF Kinds
<1>1. PICK i \in DOMAIN inbox[p] :
           /\ inbox[p][i] \in Turn
           /\ \/ Ours(p, inbox[p][i]) /\ Refused(p)
              \/ /\ ~Ours(p, inbox[p][i]) /\ inbox[p][i].step = step[p]
                 /\ Taken(p, inbox[p][i])
                 /\ \E result \in {"capture", "survival"} : Follows(p, result)
  BY Hears
<1>2. /\ pc[p] = "await"
      /\ scene' = scene /\ dial' = dial /\ UNCHANGED <<inbox, audits>>
      /\ UNCHANGED <<chain, sent, repushes, verdict, harvest>>
  BY DEF Read, setting, server
<1> DEFINE turn == inbox[p][i]
<1>3. /\ step[p] \in 1 .. MaxSteps /\ chain[p] \in Seq(Sealed) /\ Len(chain[p]) = step[p]
      /\ MaxSteps \in Nat /\ outcome[p] = None
  BY <1>2, Contract DEF TypeOK, Sealing, Done
<1>4. /\ Walls' = Walls /\ MaxSteps' = MaxSteps /\ Dials' = Dials /\ Turn' = Turn
      /\ Sealed' = Sealed /\ Response' = Response /\ Disclosed' = Disclosed
      /\ Placements' = Placements
  BY <1>2, SameSets
<1>5. position' = position
  BY <1>1 DEF Refused, Taken, side
<1>6. /\ placed' \in [Peer -> SUBSET Cell]
      /\ answer' \in [Peer -> Response \cup {None}]
      /\ caught' \in [Peer -> BOOLEAN] /\ capturedThem' \in [Peer -> BOOLEAN]
  <2>1. CASE Refused(p)
    BY <2>1 DEF Refused, side, TypeOK
  <2>2. CASE Taken(p, turn)
    <3> DEFINE barriers == placed[p] \cup ({turn.barrier} \ {None})
               conceded == turn.barrier # None /\ Captured(position[p], barriers)
    <3>1. placed' = [placed EXCEPT ![p] = barriers]
          /\ answer' = [answer EXCEPT ![p] = Answer(p, turn, conceded)]
      BY <2>2 DEF Taken
    <3>2. barriers \in SUBSET Cell
      <4>1. placed[p] \subseteq Cell
        BY DEF TypeOK
      <4>2. turn.barrier \in Placements \cup {None}
        BY <1>1 DEF Turn
      <4> QED
        BY <4>1, <4>2, Contract DEF TypeOK
    <3>3. Answer(p, turn, conceded) \in Response \cup {None}
      BY <1>1, Answers
    <3>4. caught' \in [Peer -> BOOLEAN] /\ capturedThem' \in [Peer -> BOOLEAN]
      BY <2>2 DEF Taken, TypeOK, Confirms
    <3> HIDE DEF barriers, conceded
    <3> QED
      BY <3>1, <3>2, <3>3, <3>4 DEF TypeOK
  <2> QED
    BY <1>1, <2>1, <2>2
<1> HIDE DEF turn
<1> DEFINE Results == [outcome : {"capture", "survival"}, steps : 1 .. MaxSteps]
<1>7. \/ pc' = [pc EXCEPT ![p] = "failed"] /\ step' = step /\ outcome' = outcome
      \/ /\ pc' = [pc EXCEPT ![p] = "play"] /\ outcome' = outcome
         /\ step[p] < MaxSteps /\ step' = [step EXCEPT ![p] = step[p] + 1]
      \/ /\ pc' = [pc EXCEPT ![p] = "audit"] /\ step' = step
         /\ \E result \in {"capture", "survival"} :
              outcome' = [outcome EXCEPT ![p] = [outcome |-> result, steps |-> step[p]]]
  <2>1. CASE Refused(p)
    BY <2>1 DEF Refused, Goto
  <2>2. CASE \E result \in {"capture", "survival"} : Follows(p, result)
    BY <2>2 DEF Follows, Goto, Finish
  <2> QED
    BY <1>1, <2>1, <2>2
<1>8. TypeOK'
  <2>1. /\ step' \in [Peer -> 1 .. MaxSteps]
        /\ pc' \in [Peer -> {"play", "await", "audit", "closing"} \cup Ended]
    <3>1. pc' \in [Peer -> {"play", "await", "audit", "closing"} \cup Ended]
      BY <1>7 DEF TypeOK, Ended
    <3>2. step[p] < MaxSteps => step[p] + 1 \in 1 .. MaxSteps
      BY <1>3
    <3>3. step \in [Peer -> 1 .. MaxSteps]
      BY DEF TypeOK
    <3>4. step' \in [Peer -> 1 .. MaxSteps]
      BY <1>7, <3>2, <3>3
    <3> QED
      BY <3>1, <3>4
  <2>2. outcome' \in [Peer -> Results \cup {None}]
    <3>1. outcome \in [Peer -> Results \cup {None}]
      BY DEF TypeOK
    <3>2. \A result \in {"capture", "survival"} :
            [outcome |-> result, steps |-> step[p]] \in Results
      BY <1>3
    <3> HIDE DEF Results
    <3> QED
      BY <1>7, <3>1, <3>2
  <2> QED
    BY <1>2, <1>4, <1>5, <1>6, <2>1, <2>2 DEF TypeOK
<1>9. Sealing'
  <2> SUFFICES ASSUME NEW q \in Peer
               PROVE  /\ Len(chain'[q]) <= step'[q] /\ step'[q] <= Len(chain'[q]) + 1
                      /\ pc'[q] = "play" => Len(chain'[q]) = step'[q] - 1
                      /\ pc'[q] \in {"await"} \cup Done => Len(chain'[q]) = step'[q]
                      /\ \A n \in DOMAIN chain'[q] : chain'[q][n].step = n
                      /\ pc'[q] = "await" => chain'[q][step'[q]].position = position'[q]
                      /\ pc'[q] \in Done =>
                           outcome'[q] \in [outcome : {"capture", "survival"},
                                            steps : {step'[q]}]
                      /\ outcome'[q] # None => pc'[q] \in Done
    BY DEF Sealing, Done
  <2>1. CASE q # p
    <3>1. /\ step'[q] = step[q] /\ pc'[q] = pc[q] /\ outcome'[q] = outcome[q]
      BY <1>7, <2>1 DEF TypeOK
    <3> QED
      BY <1>2, <1>5, <3>1 DEF Sealing, Done
  <2>2. CASE q = p
    <3>1. \A n \in DOMAIN chain[p] : chain[p][n].step = n
      BY DEF Sealing
    <3>2. CASE pc' = [pc EXCEPT ![p] = "failed"] /\ step' = step /\ outcome' = outcome
      <4>1. pc'[p] = "failed"
        BY <3>2 DEF TypeOK
      <4> QED
        BY <1>2, <1>3, <2>2, <3>1, <3>2, <4>1 DEF Done
    <3>3. CASE /\ pc' = [pc EXCEPT ![p] = "play"] /\ outcome' = outcome
               /\ step[p] < MaxSteps /\ step' = [step EXCEPT ![p] = step[p] + 1]
      <4>1. pc'[p] = "play" /\ step'[p] = step[p] + 1
        BY <3>3 DEF TypeOK
      <4> QED
        BY <1>2, <1>3, <2>2, <3>1, <3>3, <4>1 DEF Done
    <3>4. ASSUME NEW result \in {"capture", "survival"},
                 pc' = [pc EXCEPT ![p] = "audit"], step' = step,
                 outcome' = [outcome EXCEPT ![p] = [outcome |-> result, steps |-> step[p]]]
          PROVE  /\ pc'[p] = "audit" /\ step'[p] = step[p]
                 /\ outcome'[p] \in [outcome : {"capture", "survival"}, steps : {step[p]}]
      BY <3>4 DEF TypeOK
    <3> QED
      BY <1>2, <1>3, <1>7, <2>2, <3>1, <3>2, <3>3, <3>4 DEF Done
  <2> QED
    BY <2>1, <2>2
<1> QED
  BY <1>8, <1>9

LEMMA KindsAudit ==
  ASSUME Kinds, NEW p \in Peer, Audit(p)
  PROVE  Kinds'
<1> USE DEF Kinds
<1>1. PICK records \in Disclosures(p) :
        LET q == dial[p]
            ruling == IF Tampered(q, records) THEN "tampered" ELSE "accepted"
        IN  /\ audits' = [audits EXCEPT ![q] = Append(@,
                 [sender |-> p, records |-> records,
                  claim |-> outcome[p].outcome, verdict |-> ruling])]
            /\ verdict' = [verdict EXCEPT ![p] = ruling]
  BY DEF Audit
<1> DEFINE ruling == IF Tampered(dial[p], records) THEN "tampered" ELSE "accepted"
           entry == [sender |-> p, records |-> records,
                     claim |-> outcome[p].outcome, verdict |-> ruling]
<1>2. /\ pc[p] = "audit" /\ pc' = [pc EXCEPT ![p] = "closing"]
      /\ scene' = scene /\ dial' = dial /\ UNCHANGED inbox
      /\ UNCHANGED <<position, placed, answer, caught, capturedThem>>
      /\ UNCHANGED <<step, chain, sent, repushes, outcome, harvest>>
  BY DEF Audit, Goto, setting, side
<1>3. ruling \in {"accepted", "tampered"}
  OBVIOUS
<1>4. outcome[p].outcome \in {"capture", "survival"}
  BY <1>2 DEF Sealing, Done
<1>5. entry \in Disclosed
  <2>1. records \in Seq([step : 1 .. MaxSteps, position : Cell])
    BY Discloses
  <2> HIDE DEF ruling
  <2> QED
    BY <1>3, <1>4, <2>1 DEF Disclosed
<1>6. audits' = [audits EXCEPT ![dial[p]] = Append(audits[dial[p]], entry)]
  BY <1>1
<1>7. verdict' = [verdict EXCEPT ![p] = ruling]
  BY <1>1
<1> HIDE DEF ruling, entry
<1>8. dial[p] \in Peer
  BY Contract DEF TypeOK
<1>9. /\ audits' \in [Peer -> Seq(Disclosed)]
      /\ verdict' \in [Peer -> {None, "accepted", "tampered", "unreachable"}]
      /\ pc' \in [Peer -> {"play", "await", "audit", "closing"} \cup Ended]
  <2>1. Append(audits[dial[p]], entry) \in Seq(Disclosed)
    BY <1>5, <1>8 DEF TypeOK
  <2> QED
    BY <1>2, <1>3, <1>6, <1>7, <1>8, <2>1 DEF TypeOK
<1>10. TypeOK'
  BY <1>2, <1>9, SameSets DEF TypeOK
<1>11. Sealing'
  BY <1>2 DEF Sealing, TypeOK, Done
<1> QED
  BY <1>10, <1>11

(* The steps that only move a driver on, and what they leave alone.        *)
Drifts(p) ==
  /\ UNCHANGED <<scene, dial, audits, position, placed, answer, caught, capturedThem>>
  /\ UNCHANGED <<step, chain, sent, outcome>>
  /\ \/ /\ pc[p] = "await" /\ pc' = pc /\ Push(p, sent[p])
        /\ repushes' \in [Peer -> 0 .. MaxRepush] /\ UNCHANGED <<verdict, harvest>>
     \/ /\ inbox' = inbox /\ repushes' = repushes
        /\ \/ /\ pc[p] = "audit" /\ pc' = [pc EXCEPT ![p] = "closing"]
              /\ verdict' = [verdict EXCEPT ![p] = "unreachable"] /\ harvest' = harvest
           \/ /\ pc[p] = "closing" /\ pc' = [pc EXCEPT ![p] = "closed"]
              /\ harvest' = [harvest EXCEPT ![p] = audits[p]] /\ verdict' = verdict
           \/ /\ pc[p] \in {"await", "play"} /\ pc' = [pc EXCEPT ![p] = "failed"]
              /\ UNCHANGED <<verdict, harvest>>

LEMMA Others ==
  ASSUME Kinds, NEW p \in Peer,
         Repush(p) \/ Unreachable(p) \/ Close(p) \/ GiveUp(p) \/ PushFails(p)
  PROVE  Drifts(p)
<1> USE DEF Kinds
<1>1. CASE Repush(p)
  <2>1. repushes' \in [Peer -> 0 .. MaxRepush]
    BY <1>1, ClaimsAssumption DEF Repush, TypeOK
  <2> QED
    BY <1>1, <2>1 DEF Repush, Drifts, setting, side
<1>2. CASE Unreachable(p)
  BY <1>2 DEF Unreachable, Drifts, setting, side, server, Goto
<1>3. CASE Close(p)
  BY <1>3 DEF Close, Drifts, setting, side, server, Goto
<1>4. CASE GiveUp(p)
  BY <1>4 DEF GiveUp, Drifts, setting, side, server, Goto
<1>5. CASE PushFails(p)
  BY <1>5 DEF PushFails, Drifts, setting, side, server, Goto
<1> QED
  BY <1>1, <1>2, <1>3, <1>4, <1>5

LEMMA KindsDrift ==
  ASSUME Kinds, Delivery, NEW p \in Peer, Drifts(p)
  PROVE  Kinds'
<1> USE DEF Kinds
<1>1. /\ Walls' = Walls /\ MaxSteps' = MaxSteps /\ Dials' = Dials /\ Turn' = Turn
      /\ Sealed' = Sealed /\ Response' = Response /\ Disclosed' = Disclosed
  BY SameSets DEF Drifts
<1>2. inbox' \in [Peer -> Seq(Turn)]
  <2>1. CASE pc[p] = "await" /\ Push(p, sent[p])
    <3>1. sent[p] \in Turn
      BY <2>1 DEF Delivery
    <3> QED
      BY <2>1, <3>1, Pushes
  <2>2. CASE inbox' = inbox
    BY <2>2 DEF TypeOK
  <2> QED
    BY <2>1, <2>2 DEF Drifts
<1>3. /\ pc' \in [Peer -> {"play", "await", "audit", "closing"} \cup Ended]
      /\ verdict' \in [Peer -> {None, "accepted", "tampered", "unreachable"}]
      /\ harvest' \in [Peer -> Seq(Disclosed)] /\ repushes' \in [Peer -> 0 .. MaxRepush]
  BY DEF TypeOK, Drifts, Ended
<1>4. TypeOK'
  BY <1>1, <1>2, <1>3 DEF TypeOK, Drifts
<1>5. Sealing'
  <2>1. \A q \in Peer :
          /\ pc'[q] \in {"play", "await"} => pc'[q] = pc[q]
          /\ pc'[q] \in Done <=> pc[q] \in Done
    BY DEF TypeOK, Done, Drifts
  <2>2. UNCHANGED <<step, chain, position, outcome>>
    BY DEF Drifts
  <2>3. \A q \in Peer : pc'[q] \in {"await"} \cup Done => pc[q] \in {"await"} \cup Done
    BY <2>1
  <2> QED
    BY <2>1, <2>2, <2>3 DEF Sealing
<1> QED
  BY <1>4, <1>5

LEMMA Steps ==
  ASSUME Kinds, Next
  PROVE  \E p \in Peer : Play(p) \/ Read(p) \/ Audit(p) \/ Drifts(p)
<1>1. PICK p \in Peer : DriverStep(p) \/ Repush(p) \/ Unreachable(p) \/ GiveUp(p) \/ PushFails(p)
  BY DEF Next
<1> QED
  BY <1>1, Others DEF DriverStep

-----------------------------------------------------------------------------
(* What is delivered.                                                      *)

(* The chains only grow.                                                   *)
Grown ==
  \A p \in Peer : \A n \in DOMAIN chain[p] :
    n \in DOMAIN chain'[p] /\ chain'[p][n] = chain[p][n]

LEMMA ChainAt ==
  ASSUME Kinds, NEW p \in Peer, Play(p)
  PROVE  /\ pc[p] = "play"
         /\ \A q \in Peer : q # p => chain'[q] = chain[q]
         /\ step[p] \in Nat \ {0} /\ Len(chain[p]) = step[p] - 1
         /\ DOMAIN chain[p] = 1 .. step[p] - 1 /\ Len(chain'[p]) = step[p]
         /\ DOMAIN chain'[p] = 1 .. step[p]
         /\ \A n \in DOMAIN chain[p] : chain'[p][n] = chain[p][n]
         /\ chain'[p][step[p]] = Seal(step[p], position'[p])
         /\ position'[p] \in Cell \ Walls
<1> USE DEF Kinds
<1>1. PICK cell \in Cell \ Walls, barrier \in Placements \cup {None}, message \in Turn :
        Seal(step[p], cell) \in Sealed /\ Turns(p, cell, barrier, message)
  BY Plays
<1>2. pc[p] = "play"
  BY DEF Play
<1>3. /\ step[p] \in 1 .. MaxSteps /\ chain[p] \in Seq(Sealed) /\ Len(chain[p]) = step[p] - 1
      /\ MaxSteps \in Nat
  BY <1>2, Contract DEF TypeOK, Sealing
<1> DEFINE sealed == Append(chain[p], Seal(step[p], cell))
<1>4. /\ Len(sealed) = step[p]
      /\ DOMAIN sealed = 1 .. step[p] /\ sealed[step[p]] = Seal(step[p], cell)
      /\ \A n \in DOMAIN chain[p] : sealed[n] = chain[p][n]
      /\ DOMAIN chain[p] = 1 .. step[p] - 1
  BY <1>1, <1>3
<1>5. chain'[p] = sealed /\ position'[p] = cell /\ \A q \in Peer : q # p => chain'[q] = chain[q]
  BY <1>1 DEF TypeOK, Turns
<1> HIDE DEF sealed
<1>6. step[p] \in Nat \ {0}
  BY <1>3
<1> QED
  BY <1>1, <1>2, <1>3, <1>4, <1>5, <1>6

LEMMA Growth ==
  ASSUME Kinds, NEW p \in Peer, Play(p) \/ Read(p) \/ Audit(p) \/ Drifts(p)
  PROVE  Grown
<1>1. CASE Play(p)
  BY <1>1, ChainAt DEF Grown
<1>2. CASE Read(p) \/ Audit(p) \/ Drifts(p)
  BY <1>2 DEF Read, Audit, Drifts, Grown
<1> QED
  BY <1>1, <1>2

(* A push adds one turn to one inbox, and keeps the others.                *)
Arrives(q, message) ==
  /\ \A r \in Peer : \A i \in DOMAIN inbox'[r] :
       \/ i \in DOMAIN inbox[r] /\ inbox'[r][i] = inbox[r][i]
       \/ r = q /\ inbox'[r][i] = message
  /\ \A r \in Peer : \A i \in DOMAIN inbox[r] :
       i \in DOMAIN inbox'[r] /\ inbox'[r][i] = inbox[r][i]
  /\ \E i \in DOMAIN inbox'[q] : inbox'[q][i] = message
  /\ \A r \in Peer : r # q => inbox'[r] = inbox[r]

LEMMA Arrivals ==
  ASSUME TypeOK, NEW p \in Peer, NEW message \in Turn, Push(p, message)
  PROVE  dial[p] \in Peer /\ Arrives(dial[p], message)
<1> DEFINE q == dial[p]
<1>1. /\ q \in Peer /\ inbox'[q] = Append(inbox[q], message)
      /\ \A r \in Peer : r # q => inbox'[r] = inbox[r]
  BY Pushes
<1>2. inbox[q] \in Seq(Turn)
  BY <1>1 DEF TypeOK
<1> HIDE DEF q
<1> DEFINE n == Len(inbox[q]) + 1
<1>3. /\ DOMAIN inbox[q] = 1 .. Len(inbox[q]) /\ DOMAIN inbox'[q] = 1 .. n
      /\ inbox'[q][n] = message /\ Len(inbox[q]) \in Nat
      /\ \A i \in 1 .. Len(inbox[q]) : inbox'[q][i] = inbox[q][i]
  BY <1>1, <1>2
<1>4. n \in DOMAIN inbox'[q] /\ DOMAIN inbox'[q] = DOMAIN inbox[q] \cup {n}
  BY <1>3
<1> HIDE DEF n
<1> QED
  BY <1>1, <1>3, <1>4 DEF Arrives, q

LEMMA DeliveryInit ==
  ASSUME Init
  PROVE  Delivery
<1>1. dial \in [Peer -> Peer]
  BY Contract DEF Init
<1> QED
  BY <1>1 DEF Init, Delivery

LEMMA DeliveryPlay ==
  ASSUME Kinds, Delivery, NEW p \in Peer, Play(p)
  PROVE  Delivery'
<1> USE DEF Kinds
<1>1. PICK cell \in Cell \ Walls, barrier \in Placements \cup {None}, message \in Turn :
        Seal(step[p], cell) \in Sealed /\ Turns(p, cell, barrier, message)
  BY Plays
<1>2. /\ pc[p] = "play" /\ dial' = dial /\ scene' = scene /\ step' = step
      /\ \E label \in {"await", "audit"} : pc' = [pc EXCEPT ![p] = label]
  BY DEF Play, setting, Finish, Goto
<1>3. Grown
  BY Growth
<1>4. dial[p] \in Peer /\ Arrives(dial[p], message)
  BY <1>1, Arrivals DEF Turns
<1>5. /\ message.sender = p /\ message.step = step[p]
      /\ message.step \in DOMAIN chain'[p] /\ message.commit = chain'[p][message.step]
  <2>1. /\ message.sender = p /\ message.step = step[p] /\ message.commit = Seal(step[p], cell)
    BY <1>1 DEF Turns, BuildTurn
  <2>2. position'[p] = cell
    BY <1>1 DEF Turns, TypeOK
  <2> QED
    BY <2>1, <2>2, ChainAt
<1>6. ASSUME NEW q \in Peer, NEW i \in DOMAIN inbox'[q]
      PROVE  /\ inbox'[q][i].step \in DOMAIN chain'[inbox'[q][i].sender]
             /\ inbox'[q][i].commit = chain'[inbox'[q][i].sender][inbox'[q][i].step]
             /\ dial'[inbox'[q][i].sender] = q
  <2>1. CASE i \in DOMAIN inbox[q] /\ inbox'[q][i] = inbox[q][i]
    <3> DEFINE turn == inbox[q][i]
    <3>1. turn.step \in DOMAIN chain[turn.sender] /\ turn.commit = chain[turn.sender][turn.step]
          /\ dial[turn.sender] = q
      BY <2>1 DEF Delivery, Told
    <3>2. turn.sender \in Peer
      <4>1. inbox[q] \in Seq(Turn)
        BY DEF TypeOK
      <4>2. turn \in Turn
        BY <2>1, <4>1
      <4> QED
        BY <4>2 DEF Turn
    <3> HIDE DEF turn
    <3>3. turn.step \in DOMAIN chain'[turn.sender] /\ turn.commit = chain'[turn.sender][turn.step]
      BY <1>3, <3>1, <3>2 DEF Grown
    <3> QED
      BY <1>2, <2>1, <3>1, <3>3 DEF turn
  <2>2. CASE q = dial[p] /\ inbox'[q][i] = message
    BY <1>2, <1>5, <2>2
  <2> QED
    BY <1>4, <2>1, <2>2 DEF Arrives
<1>7. ASSUME NEW q \in Peer, pc'[q] = "await"
      PROVE  /\ sent'[q] \in Turn'
             /\ sent'[q].step \in DOMAIN chain'[sent'[q].sender]
             /\ sent'[q].commit = chain'[sent'[q].sender][sent'[q].step]
             /\ sent'[q].sender = q /\ sent'[q].step = step'[q]
  <2>1. Turn' = Turn
    BY <1>2, SameSets
  <2>2. CASE q = p
    <3>1. sent'[p] = message
      BY <1>1 DEF Turns, TypeOK
    <3> QED
      BY <1>2, <1>5, <2>1, <2>2, <3>1
  <2>3. CASE q # p
    <3>1. sent'[q] = sent[q] /\ pc[q] = "await"
      BY <1>1, <1>2, <1>7, <2>3 DEF Turns, TypeOK
    <3>2. /\ sent[q] \in Turn /\ sent[q].sender = q /\ sent[q].step = step[q]
          /\ sent[q].step \in DOMAIN chain[q]
          /\ sent[q].commit = chain[q][sent[q].step]
      BY <3>1 DEF Delivery, Told
    <3> QED
      BY <1>2, <1>3, <2>1, <3>1, <3>2 DEF Grown
  <2> QED
    BY <2>2, <2>3
<1>8. ASSUME NEW q \in Peer, NEW n \in DOMAIN chain'[q]
      PROVE  \E i \in DOMAIN inbox'[dial'[q]] :
               inbox'[dial'[q]][i].sender = q /\ inbox'[dial'[q]][i].step = n
  <2>1. dial[q] \in Peer
    BY Contract DEF TypeOK
  <2>2. CASE n \in DOMAIN chain[q]
    <3>1. PICK i \in DOMAIN inbox[dial[q]] :
            inbox[dial[q]][i].sender = q /\ inbox[dial[q]][i].step = n
      BY <2>2 DEF Delivery
    <3>2. i \in DOMAIN inbox'[dial[q]] /\ inbox'[dial[q]][i] = inbox[dial[q]][i]
      BY <1>4, <2>1 DEF Arrives
    <3> QED
      BY <1>2, <3>1, <3>2
  <2>3. CASE n \notin DOMAIN chain[q]
    <3>1. q = p /\ n = step[p]
      BY <2>3, ChainAt
    <3> QED
      BY <1>2, <1>4, <1>5, <3>1 DEF Arrives
  <2> QED
    BY <2>2, <2>3
<1> QED
  BY <1>6, <1>7, <1>8 DEF Delivery, Told

(* Steps that leave the chains as they are push nothing new.               *)
LEMMA DeliveryStays ==
  ASSUME Kinds, Delivery, NEW p \in Peer, Read(p) \/ Audit(p) \/ Drifts(p)
  PROVE  Delivery'
<1> USE DEF Kinds
<1>1. scene' = scene /\ dial' = dial /\ chain' = chain /\ sent' = sent
  BY DEF Read, Audit, Drifts, setting
<1>2. \A q \in Peer : pc'[q] = "await" => pc[q] = "await" /\ step'[q] = step[q]
  <2>1. CASE Read(p)
    BY <2>1, Hears DEF Read, Refused, Follows, Finish, Goto, TypeOK
  <2>2. CASE Audit(p)
    BY <2>2 DEF Audit, Goto, TypeOK
  <2>3. CASE Drifts(p)
    BY <2>3 DEF Drifts, TypeOK
  <2> QED
    BY <2>1, <2>2, <2>3
<1>3. inbox' = inbox \/ (pc[p] = "await" /\ Push(p, sent[p]))
  BY DEF Read, Audit, Drifts, server
<1>4. /\ \A q \in Peer : \A i \in DOMAIN inbox'[q] :
           Told(inbox'[q][i]) /\ dial[inbox'[q][i].sender] = q
      /\ \A q \in Peer : \A i \in DOMAIN inbox[q] :
           i \in DOMAIN inbox'[q] /\ inbox'[q][i] = inbox[q][i]
  <2>1. CASE inbox' = inbox
    BY <2>1 DEF Delivery
  <2>2. CASE pc[p] = "await" /\ Push(p, sent[p])
    <3>1. sent[p] \in Turn /\ Told(sent[p]) /\ sent[p].sender = p
      BY <2>2 DEF Delivery
    <3>2. Arrives(dial[p], sent[p])
      BY <2>2, <3>1, Arrivals
    <3> QED
      BY <3>1, <3>2 DEF Delivery, Arrives
  <2> QED
    BY <1>3, <2>1, <2>2
<1>5. \A q \in Peer : \A i \in DOMAIN inbox'[q] :
        /\ inbox'[q][i].step \in DOMAIN chain'[inbox'[q][i].sender]
        /\ inbox'[q][i].commit = chain'[inbox'[q][i].sender][inbox'[q][i].step]
        /\ dial'[inbox'[q][i].sender] = q
  BY <1>1, <1>4 DEF Told
<1>6. \A q \in Peer : pc'[q] = "await" =>
        /\ sent'[q] \in Turn'
        /\ sent'[q].step \in DOMAIN chain'[sent'[q].sender]
        /\ sent'[q].commit = chain'[sent'[q].sender][sent'[q].step]
        /\ sent'[q].sender = q /\ sent'[q].step = step'[q]
  BY <1>1, <1>2, SameSets DEF Delivery, Told
<1>7. \A q \in Peer : \A n \in DOMAIN chain'[q] :
        \E i \in DOMAIN inbox'[dial'[q]] :
          inbox'[dial'[q]][i].sender = q /\ inbox'[dial'[q]][i].step = n
  <2>1. \A q \in Peer : dial[q] \in Peer
    BY Contract DEF TypeOK
  <2> QED
    BY <1>1, <1>4, <2>1 DEF Delivery
<1> QED
  BY <1>5, <1>6, <1>7 DEF Delivery, Told

-----------------------------------------------------------------------------
(* Barriers bind.                                                          *)

LEMMA BoundedKept ==
  ASSUME Kinds, Bounded, NEW p \in Peer, Play(p) \/ Read(p) \/ Audit(p) \/ Drifts(p)
  PROVE  Bounded'
<1> USE DEF Kinds
<1>1. CASE Play(p)
  <2>1. PICK cell \in Cell \ Walls, barrier \in Placements \cup {None}, message \in Turn :
          Seal(step[p], cell) \in Sealed /\ Turns(p, cell, barrier, message)
    BY <1>1, Plays
  <2>2. /\ scene' = scene /\ placed' = placed /\ caught' = caught
        /\ position' = [position EXCEPT ![p] = cell]
        /\ cell = position[p] \/ (position[p] \in Neighbours(cell) /\ cell \notin placed[p])
    BY <1>1, <2>1 DEF Play, Turns, setting
  <2>3. ASSUME NEW q \in Peer, placed[q] # {}, ~caught[q]
        PROVE  ~(\/ position'[q] \in placed[q]
                 \/ Neighbours(position'[q]) \cap Cell \subseteq placed[q] \cup Walls)
    <3>1. /\ position[q] \notin placed[q] /\ position[q] \in Cell \ Walls
          /\ ~(Neighbours(position[q]) \cap Cell \subseteq placed[q] \cup Walls)
      BY <2>3 DEF Bounded, Captured, TypeOK
    <3>2. CASE position'[q] = position[q]
      BY <3>1, <3>2
    <3>3. CASE position'[q] # position[q]
      <4>1. q = p /\ position'[q] = cell /\ cell # position[p]
        BY <2>2, <3>3 DEF TypeOK
      <4> QED
        BY <2>2, <3>1, <4>1
    <3> QED
      BY <3>2, <3>3
  <2>4. Walls' = Walls
    BY <2>2 DEF Walls
  <2> QED
    BY <2>2, <2>3, <2>4 DEF Bounded, Captured
<1>2. CASE Read(p)
  <2>1. PICK i \in DOMAIN inbox[p] : Refused(p) \/ Taken(p, inbox[p][i])
    BY <1>2, Hears
  <2>2. Walls' = Walls
    BY <1>2 DEF Read, setting, Walls
  <2>3. CASE Refused(p)
    BY <2>2, <2>3 DEF Refused, side, Bounded, Captured
  <2>4. CASE Taken(p, inbox[p][i])
    <3> DEFINE turn == inbox[p][i]
               barriers == placed[p] \cup ({turn.barrier} \ {None})
               conceded == turn.barrier # None /\ Captured(position[p], barriers)
    <3>1. /\ placed' = [placed EXCEPT ![p] = barriers] /\ position' = position
          /\ caught' = [caught EXCEPT ![p] = \/ caught[p] \/ conceded
                                             \/ p = "thief" /\ turn.claim = position[p]]
      BY <2>4 DEF Taken
    <3>2. turn.barrier = None => barriers = placed[p]
      OBVIOUS
    <3>3. /\ placed'[p] = barriers /\ (caught[p] \/ conceded => caught'[p])
          /\ \A q \in Peer : q # p => placed'[q] = placed[q] /\ caught'[q] = caught[q]
      BY <3>1 DEF TypeOK
    <3>4. barriers # {} /\ Captured(position[p], barriers) => caught'[p]
      BY <3>2, <3>3 DEF Bounded
    <3> HIDE DEF barriers, conceded, turn
    <3>5. \A q \in Peer : placed'[q] # {} /\ Captured(position[q], placed'[q]) => caught'[q]
      BY <3>3, <3>4 DEF Bounded
    <3> QED
      BY <2>2, <3>1, <3>5 DEF Bounded, Captured
  <2> QED
    BY <2>1, <2>3, <2>4
<1>3. CASE Audit(p) \/ Drifts(p)
  <2>1. UNCHANGED <<scene, placed, position, caught>>
    BY <1>3 DEF Audit, Drifts, setting, side
  <2> QED
    BY <2>1 DEF Bounded, Captured, Walls
<1> QED
  BY <1>1, <1>2, <1>3

-----------------------------------------------------------------------------
(* Audits.                                                                 *)

(* Between peers that reach each other, the last digest pushed at a step   *)
(* is the one that was sealed.                                             *)
LEMMA Pushed ==
  ASSUME Kinds, Delivery, NEW p \in Peer, NEW q \in Peer,
         dial[p] = q, q # p, dial[q] # q, NEW n \in DOMAIN chain[p]
  PROVE  PushedCommit(q, n) = chain[p][n] /\ chain[p][n] # None
<1> USE DEF Kinds
<1>1. inbox[q] \in Seq(Turn) /\ chain[p] \in Seq(Sealed)
  BY DEF TypeOK
<1>2. PICK i \in DOMAIN inbox[q] : inbox[q][i].sender = p /\ inbox[q][i].step = n
  BY DEF Delivery
<1>3. \A j \in DOMAIN inbox[q] : inbox[q][j].sender = p
  <2> SUFFICES ASSUME NEW j \in DOMAIN inbox[q] PROVE inbox[q][j].sender = p
    OBVIOUS
  <2>1. inbox[q][j] \in Turn
    BY <1>1
  <2>2. inbox[q][j].sender \in Peer /\ dial[inbox[q][j].sender] = q
    BY <2>1 DEF Delivery, Turn
  <2> QED
    BY <2>2 DEF Peer
<1> DEFINE S == At(q, n)
<1>4. S \in SUBSET (1 .. Len(inbox[q])) /\ Len(inbox[q]) \in Nat /\ S # {}
  BY <1>1, <1>2 DEF At
<1>5. Latest(S) \in S
  BY <1>4, LatestIs
<1>6. PushedCommit(q, n) = inbox[q][Latest(S)].commit
  BY <1>4 DEF PushedCommit
<1>7. Latest(S) \in DOMAIN inbox[q] /\ inbox[q][Latest(S)].step = n
  BY <1>5 DEF At
<1> HIDE DEF S
<1>8. inbox[q][Latest(S)].commit = chain[p][n]
  BY <1>3, <1>7 DEF Delivery, Told
<1>9. chain[p][n] # None
  <2>1. chain[p][n] \in Sealed
    BY <1>1
  <2>2. Sealed \subseteq [step : Nat, position : Cell]
    BY Contract DEF TypeOK, Sealed
  <2> QED
    BY <2>1, <2>2, ClaimsAssumption
<1> QED
  BY <1>6, <1>8, <1>9

(* Hence the judge tells the sealed chain from any other.                  *)
LEMMA Justice ==
  ASSUME Kinds, Delivery, NEW p \in Peer, NEW q \in Peer,
         dial[p] = q, q # p, dial[q] # q, NEW records \in Disclosures(p)
  PROVE  ~Tampered(q, records) <=> records = chain[p]
<1> USE DEF Kinds
<1>1. /\ records \in Seq([step : 1 .. MaxSteps, position : Cell])
      /\ DOMAIN records = DOMAIN chain[p]
      /\ \A n \in DOMAIN records : records[n].step = n
  BY Discloses
<1>2. chain[p] \in Seq(Sealed)
  BY DEF TypeOK
<1>3. records = chain[p] <=> \A n \in DOMAIN records : records[n] = chain[p][n]
  <2>1. Len(records) = Len(chain[p])
    BY <1>1, <1>2
  <2> QED
    BY <1>1, <1>2, <2>1
<1>4. \A n \in DOMAIN records :
        PushedCommit(q, records[n].step) = chain[p][n] /\ chain[p][n] # None
  BY <1>1, Pushed
<1> QED
  BY <1>3, <1>4 DEF Tampered

LEMMA JudgedKept ==
  ASSUME Kinds, Delivery, Judged, NEW p \in Peer,
         Play(p) \/ Read(p) \/ Audit(p) \/ Drifts(p)
  PROVE  Judged'
<1> USE DEF Kinds
<1>1. dial' = dial /\ dial \in [Peer -> Peer]
  BY Contract DEF TypeOK, Play, Read, Audit, Drifts, setting
<1>2. \A q \in Peer : \A i \in DOMAIN audits[q] : audits[q][i].sender \in Peer
  <2> SUFFICES ASSUME NEW q \in Peer, NEW i \in DOMAIN audits[q]
               PROVE  audits[q][i].sender \in Peer
    OBVIOUS
  <2>1. audits[q] \in Seq(Disclosed)
    BY DEF TypeOK
  <2>2. audits[q][i] \in Disclosed
    BY <2>1
  <2> QED
    BY <2>2 DEF Disclosed
<1>3. \A r \in Peer : pc[r] \in {"closing", "closed"} =>
        pc'[r] \in {"closing", "closed"} /\ chain'[r] = chain[r]
  <2>1. CASE Play(p)
    BY <2>1, ChainAt DEF Play, Finish, Goto, TypeOK
  <2>2. CASE Read(p)
    BY <2>2, Hears DEF Read, Refused, Follows, Finish, Goto, TypeOK
  <2>3. CASE Audit(p)
    BY <2>3 DEF Audit, Goto, TypeOK
  <2>4. CASE Drifts(p)
    BY <2>4 DEF Drifts, TypeOK
  <2> QED
    BY <2>1, <2>2, <2>3, <2>4
<1>4. CASE Play(p) \/ Read(p) \/ Drifts(p)
  <2>1. audits' = audits
    BY <1>4 DEF Play, Read, Drifts, server
  <2> QED
    BY <1>1, <1>2, <1>3, <2>1 DEF Judged
<1>5. CASE Audit(p)
  <2>1. PICK records \in Disclosures(p) :
          LET q == dial[p]
              ruling == IF Tampered(q, records) THEN "tampered" ELSE "accepted"
          IN  /\ audits' = [audits EXCEPT ![q] = Append(@,
                   [sender |-> p, records |-> records,
                    claim |-> outcome[p].outcome, verdict |-> ruling])]
              /\ verdict' = [verdict EXCEPT ![p] = ruling]
    BY <1>5 DEF Audit
  <2> DEFINE ruling == IF Tampered(dial[p], records) THEN "tampered" ELSE "accepted"
             filed == [sender |-> p, records |-> records,
                       claim |-> outcome[p].outcome, verdict |-> ruling]
             q == dial[p]
  <2>2. audits' = [audits EXCEPT ![q] = Append(audits[q], filed)]
    BY <2>1
  <2>3. filed.sender = p /\ filed.records = records /\ filed.verdict = ruling
    OBVIOUS
  <2>4. ruling = "accepted" <=> ~Tampered(q, records)
    OBVIOUS
  <2> HIDE DEF filed, ruling
  <2>5. q \in Peer /\ audits[q] \in Seq(Disclosed)
    BY <1>1 DEF TypeOK
  <2> HIDE DEF q
  <2>6. ASSUME NEW r \in Peer, NEW i \in DOMAIN audits'[r]
        PROVE  \/ i \in DOMAIN audits[r] /\ audits'[r][i] = audits[r][i]
               \/ r = q /\ audits'[r][i] = filed
    <3>1. CASE r # q
      BY <2>2, <3>1 DEF TypeOK
    <3>2. CASE r = q
      <4>1. audits'[q] = Append(audits[q], filed)
        BY <2>2, <2>5 DEF TypeOK
      <4> QED
        BY <2>5, <2>6, <3>2, <4>1
    <3> QED
      BY <3>1, <3>2
  <2>7. pc'[p] = "closing" /\ chain' = chain
    BY <1>5 DEF Audit, Goto, TypeOK
  <2>8. ASSUME NEW r \in Peer, NEW i \in DOMAIN audits'[r]
        PROVE  /\ dial'[audits'[r][i].sender] = r
               /\ pc'[audits'[r][i].sender] \in {"closing", "closed"}
               /\ dial'[Other(r)] = r /\ dial'[r] # r =>
                    (audits'[r][i].verdict = "accepted"
                       <=> audits'[r][i].records = chain'[audits'[r][i].sender])
    <3>1. CASE i \in DOMAIN audits[r] /\ audits'[r][i] = audits[r][i]
      BY <1>1, <1>2, <1>3, <3>1 DEF Judged
    <3>2. CASE r = q /\ audits'[r][i] = filed
      <4>1. dial[q] # q => q # p
        BY DEF q
      <4>2. dial[q] # q => (ruling = "accepted" <=> records = chain[p])
        BY <2>4, <2>5, <4>1, Justice DEF q
      <4> QED
        BY <1>1, <2>3, <2>7, <3>2, <4>2 DEF q
    <3> QED
      BY <2>6, <3>1, <3>2
  <2> QED
    BY <2>8 DEF Judged
<1> QED
  BY <1>4, <1>5

-----------------------------------------------------------------------------
(* A dial that comes back.                                                 *)

LEMMA MirroredInit ==
  ASSUME Init
  PROVE  Mirrored
BY Contract DEF Init, Mirrored, Echoes, Other, Peer

LEMMA EchoesPlay ==
  ASSUME Kinds, NEW m \in Peer, dial[m] = m, Echoes(m), NEW p \in Peer, Play(p)
  PROVE  Echoes(m)'
<1> USE DEF Kinds
<1> DEFINE o == Other(m)
<1>1. PICK cell \in Cell \ Walls, barrier \in Placements \cup {None}, message \in Turn :
        Seal(step[p], cell) \in Sealed /\ Turns(p, cell, barrier, message)
  BY Plays
<1>2. /\ dial' = dial /\ step' = step /\ caught' = caught /\ capturedThem' = capturedThem
      /\ answer' = [answer EXCEPT ![p] = None]
      /\ \/ pc' = [pc EXCEPT ![p] = "await"]
         \/ caught[p] /\ pc' = [pc EXCEPT ![p] = "audit"]
  BY DEF Play, setting, Finish, Goto
<1>3. /\ message.sender = p /\ message.step = step[p] /\ message.response = answer[p]
      /\ sent' = [sent EXCEPT ![p] = message]
  BY <1>1 DEF Turns, BuildTurn, Answered
<1>4. dial[p] \in Peer /\ Arrives(dial[p], message)
  BY <1>1, Arrivals DEF Turns
<1>5. o \in Peer /\ o # m /\ (p = m \/ p = o)
  BY DEF o, Other, Peer
<1>6. dial[p] = m /\ p # m => Opening(message)
  BY <1>3, <1>5 DEF Echoes, Opening, o
<1>7. ASSUME NEW i \in DOMAIN inbox'[m], inbox'[m][i].sender # m
      PROVE  inbox'[m][i].step = 1 /\ inbox'[m][i].response = None
  <2>1. CASE i \in DOMAIN inbox[m] /\ inbox'[m][i] = inbox[m][i]
    BY <1>7, <2>1 DEF Echoes, Opening
  <2>2. CASE m = dial[p] /\ inbox'[m][i] = message
    BY <1>3, <1>6, <1>7, <2>2 DEF Opening
  <2> QED
    BY <1>4, <2>1, <2>2 DEF Arrives
<1>8. ASSUME dial[o] = m
      PROVE  /\ inbox'[o] = <<>> /\ step'[o] = 1 /\ answer'[o] = None
             /\ pc'[o] = "await" => sent'[o].step = 1 /\ sent'[o].response = None
  <2>1. dial[p] = m
    BY <1>5, <1>8
  <2>2. inbox'[o] = inbox[o]
    BY <1>4, <1>5, <2>1 DEF Arrives
  <2>3. inbox[o] = <<>> /\ step[o] = 1 /\ answer[o] = None
    BY <1>8 DEF Echoes, o
  <2>4. answer'[o] = None
    BY <1>2, <1>5, <2>3 DEF TypeOK
  <2>5. CASE p = o
    <3>1. sent'[o] = message
      BY <1>3, <1>5, <2>5 DEF TypeOK
    <3> QED
      BY <1>2, <1>5, <1>6, <2>1, <2>2, <2>3, <2>4, <2>5, <3>1 DEF Opening
  <2>6. CASE p = m
    <3>1. sent'[o] = sent[o] /\ pc'[o] = pc[o]
      BY <1>2, <1>3, <1>5, <2>6 DEF TypeOK
    <3>2. pc[o] = "await" => sent[o].step = 1 /\ sent[o].response = None
      BY <1>8 DEF Echoes, Opening, o
    <3> QED
      BY <1>2, <2>2, <2>3, <2>4, <3>1, <3>2
  <2> QED
    BY <1>5, <2>5, <2>6
<1>9. \/ caught[m]
      \/ pc'[m] \in {"play", "await", "failed"} /\ ~capturedThem[m] /\ step[m] <= 2
  BY <1>2 DEF Echoes, TypeOK
<1> QED
  BY <1>2, <1>7, <1>8, <1>9 DEF Echoes, Opening, o

LEMMA EchoesRead ==
  ASSUME Kinds, MaxSteps > 1,
         NEW m \in Peer, dial[m] = m, Echoes(m), NEW p \in Peer, Read(p)
  PROVE  Echoes(m)'
<1> USE DEF Kinds
<1> DEFINE o == Other(m)
<1>1. PICK i \in DOMAIN inbox[p] :
           /\ inbox[p][i] \in Turn
           /\ \/ Ours(p, inbox[p][i]) /\ Refused(p)
              \/ /\ ~Ours(p, inbox[p][i]) /\ inbox[p][i].step = step[p]
                 /\ Taken(p, inbox[p][i])
                 /\ \E result \in {"capture", "survival"} : Follows(p, result)
  BY Hears
<1>2. dial' = dial /\ inbox' = inbox /\ sent' = sent
  BY DEF Read, setting, server
<1>3. o \in Peer /\ o # m /\ (p = m \/ p = o)
  BY DEF o, Other, Peer
<1>4. \A r \in Peer : r # p =>
        /\ pc'[r] = pc[r] /\ step'[r] = step[r] /\ answer'[r] = answer[r]
        /\ caught'[r] = caught[r] /\ capturedThem'[r] = capturedThem[r]
  BY <1>1 DEF Refused, Taken, Follows, Finish, Goto, side, TypeOK
<1>5. CASE p = m
  <2>1. \/ caught'[m]
        \/ pc'[m] \in {"play", "await", "failed"} /\ ~capturedThem'[m] /\ step'[m] <= 2
    <3>1. CASE caught[m]
      BY <1>1, <1>5, <3>1 DEF Refused, Taken, side, TypeOK
    <3>2. CASE ~caught[m] /\ Refused(m)
      BY <3>2 DEF Refused, Goto, side, TypeOK, Echoes
    <3>3. CASE ~caught[m] /\ ~Ours(m, inbox[m][i])
      <4> DEFINE turn == inbox[m][i]
      <4>1. turn.step = 1 /\ turn.response = None /\ step[m] = 1
        BY <1>1, <1>5, <3>3 DEF Echoes, Opening, Ours
      <4>2. ~Confirms(m, turn)
        BY <4>1 DEF Confirms
      <4>3. ~capturedThem'[m]
        BY <1>1, <1>5, <3>3, <4>2 DEF Taken, TypeOK, Echoes
      <4>4. PICK result \in {"capture", "survival"} : Follows(m, result)
        BY <1>1, <1>5, <3>3
      <4>5. pc'[m] = "play" /\ step'[m] = 2
        BY <4>1, <4>3, <4>4 DEF Follows, Goto, TypeOK
      <4> QED
        BY <4>3, <4>5
    <3> QED
      BY <1>1, <1>5, <3>1, <3>2, <3>3
  <2> QED
    BY <1>2, <1>3, <1>4, <1>5, <2>1 DEF Echoes, Opening, o
<1>6. CASE p = o
  <2>1. dial[o] # m
    <3>1. DOMAIN inbox[o] # {}
      BY <1>1, <1>6
    <3> QED
      BY <3>1 DEF Echoes, o
  <2> QED
    BY <1>2, <1>3, <1>4, <1>6, <2>1 DEF Echoes, Opening, o
<1> QED
  BY <1>3, <1>5, <1>6

LEMMA EchoesStay ==
  ASSUME Kinds, Delivery, NEW m \in Peer, dial[m] = m, Echoes(m), NEW p \in Peer,
         Audit(p) \/ Drifts(p)
  PROVE  Echoes(m)'
<1> USE DEF Kinds
<1> DEFINE o == Other(m)
<1>1. /\ dial' = dial /\ sent' = sent /\ step' = step /\ answer' = answer
      /\ caught' = caught /\ capturedThem' = capturedThem
  BY DEF Audit, Drifts, setting, side
<1>2. /\ \A r \in Peer : pc'[r] = "await" => pc[r] = "await"
      /\ \A r \in Peer : pc[r] \in {"play", "await", "failed"} =>
           pc'[r] \in {"play", "await", "failed"}
  BY DEF Audit, Goto, Drifts, TypeOK
<1>3. inbox' = inbox \/ (pc[p] = "await" /\ Push(p, sent[p]))
  BY DEF Audit, Drifts, server
<1>4. o \in Peer /\ o # m /\ (p = m \/ p = o)
  BY DEF o, Other, Peer
<1>5. /\ \A i \in DOMAIN inbox'[m] : inbox'[m][i].sender # m =>
           inbox'[m][i].step = 1 /\ inbox'[m][i].response = None
      /\ dial[o] = m => inbox'[o] = <<>>
  <2>1. CASE inbox' = inbox
    BY <2>1 DEF Echoes, Opening, o
  <2>2. CASE pc[p] = "await" /\ Push(p, sent[p])
    <3>1. sent[p] \in Turn /\ sent[p].sender = p
      BY <2>2 DEF Delivery
    <3>2. Arrives(dial[p], sent[p])
      BY <2>2, <3>1, Arrivals
    <3>3. dial[p] = m /\ p # m => Opening(sent[p])
      BY <1>4, <2>2 DEF Echoes, o
    <3>4. ASSUME NEW i \in DOMAIN inbox'[m], inbox'[m][i].sender # m
          PROVE  inbox'[m][i].step = 1 /\ inbox'[m][i].response = None
      <4>1. CASE i \in DOMAIN inbox[m] /\ inbox'[m][i] = inbox[m][i]
        BY <3>4, <4>1 DEF Echoes, Opening
      <4>2. CASE m = dial[p] /\ inbox'[m][i] = sent[p]
        BY <3>1, <3>3, <3>4, <4>2 DEF Opening
      <4> QED
        BY <3>2, <4>1, <4>2 DEF Arrives
    <3>5. dial[o] = m => inbox'[o] = inbox[o] /\ inbox[o] = <<>>
      BY <1>4, <3>2 DEF Arrives, Echoes, o
    <3> QED
      BY <3>4, <3>5
  <2> QED
    BY <1>3, <2>1, <2>2
<1>6. dial[o] = m =>
        /\ step[o] = 1 /\ answer[o] = None
        /\ pc'[o] = "await" => sent[o].step = 1 /\ sent[o].response = None
  BY <1>2, <1>4 DEF Echoes, Opening, o
<1>7. \/ caught[m]
      \/ pc'[m] \in {"play", "await", "failed"} /\ ~capturedThem[m] /\ step[m] <= 2
  BY <1>2 DEF Echoes
<1> QED
  BY <1>1, <1>5, <1>6, <1>7 DEF Echoes, Opening, o

LEMMA MirroredKept ==
  ASSUME Kinds, Delivery, Mirrored, NEW p \in Peer,
         Play(p) \/ Read(p) \/ Audit(p) \/ Drifts(p)
  PROVE  Mirrored'
<1>1. dial' = dial /\ scene' = scene
  BY DEF Play, Read, Audit, Drifts, setting
<1>2. MaxSteps' = MaxSteps
  BY <1>1 DEF MaxSteps
<1>3. ASSUME MaxSteps > 1, NEW m \in Peer, dial[m] = m
      PROVE  Echoes(m)'
  <2>1. Echoes(m)
    BY <1>3 DEF Mirrored, Echoes
  <2> QED
    BY <1>3, <2>1, EchoesPlay, EchoesRead, EchoesStay
<1> QED
  BY <1>1, <1>2, <1>3 DEF Mirrored, Echoes

-----------------------------------------------------------------------------
(* Without barriers: meetings, and what is said of them.                   *)

LEMMA Domains ==
  ASSUME Kinds, NEW p \in Peer
  PROVE  /\ DOMAIN chain[p] = 1 .. Len(chain[p]) /\ Len(chain[p]) \in Nat
         /\ step[p] \in 1 .. MaxSteps /\ MaxSteps \in Nat \ {0}
         /\ Len(chain[p]) <= step[p] /\ step[p] <= Len(chain[p]) + 1
         /\ \A n \in DOMAIN chain[p] : chain[p][n].position \in Cell
<1>1. /\ chain[p] \in Seq(Sealed) /\ step[p] \in 1 .. MaxSteps /\ MaxSteps \in Nat \ {0}
      /\ Len(chain[p]) <= step[p] /\ step[p] <= Len(chain[p]) + 1
  BY Contract DEF Kinds, TypeOK, Sealing
<1>2. \A n \in DOMAIN chain[p] : chain[p][n] \in Sealed
  BY <1>1
<1> QED
  BY <1>1, <1>2 DEF Sealed

LEMMA MetKept ==
  ASSUME Grown, NEW n
  PROVE  /\ MetAt(n) => MetAt(n)'
         /\ (\A p \in Peer : n \in DOMAIN chain[p]) =>
              MetAt(n)' = MetAt(n) /\ Heard(n)' = Heard(n)
<1>1. MetAt(n) => MetAt(n)'
  BY DEF Grown, MetAt, Peer
<1>2. ASSUME \A p \in Peer : n \in DOMAIN chain[p]
      PROVE  MetAt(n)' = MetAt(n) /\ Heard(n)' = Heard(n)
  <2>1. \A p \in Peer : n \in DOMAIN chain'[p] /\ chain'[p][n] = chain[p][n]
    BY <1>2 DEF Grown
  <2>2. MetAt(n)' = MetAt(n)
    BY <1>2, <2>1 DEF MetAt, Peer
  <2>3. chain'["police"][n] = chain["police"][n]
    BY <2>1 DEF Peer
  <2> QED
    BY <2>2, <2>3 DEF Heard
<1> QED
  BY <1>1, <1>2

(* The step before a turn of the thief's is in both chains.                *)
LEMMA Before ==
  ASSUME Kinds, InStep, NEW p \in Peer, NEW n \in DOMAIN chain[p], n > 1
  PROVE  \A q \in Peer : n - 1 \in DOMAIN chain[q]
<1>1. /\ DOMAIN chain[p] = 1 .. Len(chain[p]) /\ Len(chain[p]) \in Nat
      /\ step[p] \in Nat /\ Len(chain[p]) <= step[p]
  BY Domains
<1>2. /\ Other(p) \in Peer /\ Peer = {p, Other(p)}
      /\ DOMAIN chain[Other(p)] = 1 .. Len(chain[Other(p)]) /\ Len(chain[Other(p)]) \in Nat
  BY Domains DEF Other, Peer
<1>3. n - 1 \in DOMAIN chain[p] /\ n <= step[p] /\ step[p] > 1 /\ n \in Nat
  BY <1>1
<1>4. step[p] - 1 \in DOMAIN chain[Other(p)]
  BY <1>3 DEF InStep
<1>5. n - 1 \in DOMAIN chain[Other(p)]
  BY <1>1, <1>2, <1>3, <1>4
<1> QED
  BY <1>2, <1>3, <1>5

LEMMA SpeaksKept ==
  ASSUME Kinds, InStep, Grown, NEW turn \in Turn, Told(turn), Speaks(turn)
  PROVE  Speaks(turn)'
<1>1. turn.sender \in Peer /\ turn.step \in DOMAIN chain[turn.sender]
  BY DEF Told, Turn
<1>2. turn.step > 1 => Heard(turn.step - 1)' = Heard(turn.step - 1)
  <2> HAVE turn.step > 1
  <2>1. \A q \in Peer : turn.step - 1 \in DOMAIN chain[q]
    BY <1>1, Before
  <2> QED
    BY <2>1, MetKept
<1> QED
  BY <1>2 DEF Speaks

(* A step in which the two agents meet anew is the last step of both.      *)
LEMMA NewMeeting ==
  ASSUME Kinds, InStep, NEW p \in Peer, Play(p), NEW n, MetAt(n)', ~MetAt(n)
  PROVE  n = step[p] /\ Len(chain[Other(p)]) = n
<1>1. /\ DOMAIN chain[p] = 1 .. step[p] - 1 /\ DOMAIN chain'[p] = 1 .. step[p]
      /\ step[p] \in Nat \ {0}
      /\ \A q \in Peer : q # p => chain'[q] = chain[q]
      /\ \A i \in DOMAIN chain[p] : chain'[p][i] = chain[p][i]
  BY ChainAt
<1>2. Grown
  BY Growth
<1>3. /\ Other(p) \in Peer /\ Other(p) # p /\ Peer = {p, Other(p)} /\ Other(Other(p)) = p
      /\ DOMAIN chain[Other(p)] = 1 .. Len(chain[Other(p)]) /\ Len(chain[Other(p)]) \in Nat
      /\ step[Other(p)] \in Nat /\ Len(chain[Other(p)]) <= step[Other(p)]
      /\ step[Other(p)] >= 1
  BY Domains DEF Other, Peer
<1>4. n \in DOMAIN chain'[p] /\ n \in DOMAIN chain[Other(p)]
  BY <1>1, <1>3 DEF MetAt
<1>5. n \notin DOMAIN chain[p]
  BY <1>2, <1>3, <1>4, MetKept
<1>6. n = step[p]
  BY <1>1, <1>4, <1>5
<1>7. step[Other(p)] <= step[p]
  <2>1. step[Other(p)] > 1 => step[Other(p)] - 1 \in DOMAIN chain[p]
    BY <1>3 DEF InStep
  <2> QED
    BY <1>1, <1>3, <2>1
<1> QED
  BY <1>1, <1>3, <1>4, <1>6, <1>7

-----------------------------------------------------------------------------
(* Bare is kept.                                                           *)

(* What the barriers have no part in.                                      *)
Plain == (\A p \in Peer : placed[p] = {}) /\ ~capturedThem["thief"]

LEMMA BareInit ==
  ASSUME Init
  PROVE  Bare
<1>1. \A n : ~MetAt(n)
  BY DEF Init, MetAt, Peer
<1>2. /\ \A p \in Peer : /\ inbox[p] = <<>> /\ pc[p] = "play" /\ step[p] = 1
                         /\ chain[p] = <<>> /\ placed[p] = {} /\ answer[p] = None
                         /\ caught[p] = FALSE /\ capturedThem[p] = FALSE
  BY DEF Init
<1>3. "police" \in Peer /\ "thief" \in Peer /\ "play" \notin Done
  BY DEF Peer, Done
<1>4. Spoken
  BY <1>2, <1>3 DEF Spoken
<1>5. Thief
  BY <1>1, <1>2, <1>3 DEF Thief
<1>6. Police
  BY <1>1, <1>2, <1>3 DEF Police
<1>7. InStep
  BY <1>2 DEF InStep
<1> QED
  BY <1>2, <1>3, <1>4, <1>5, <1>6, <1>7 DEF Bare

(* Walking, sealing and pushing.                                           *)
LEMMA SpokenPlay ==
  ASSUME Kinds, Delivery, Placements = {}, InStep, Spoken, NEW p \in Peer, Play(p)
  PROVE  InStep' /\ Spoken'
<1>1. PICK cell \in Cell \ Walls, barrier \in Placements \cup {None}, message \in Turn :
        Seal(step[p], cell) \in Sealed /\ Turns(p, cell, barrier, message)
  BY Plays DEF Kinds
<1>2. /\ pc[p] = "play" /\ step' = step
      /\ answer' = [answer EXCEPT ![p] = None]
      /\ \E label \in {"await", "audit"} : pc' = [pc EXCEPT ![p] = label]
  BY DEF Play, Finish, Goto
<1>3. Grown
  BY Growth
<1>4. dial[p] \in Peer /\ Arrives(dial[p], message)
  BY <1>1, Arrivals DEF Turns, Kinds
<1>5. /\ message.sender = p /\ message.step = step[p] /\ message.barrier = None
      /\ message.claim = Claim(p, cell) /\ message.response = answer[p]
      /\ message.commit = Seal(step[p], cell) /\ message.commit.position = cell
      /\ sent' = [sent EXCEPT ![p] = message]
  BY <1>1 DEF Turns, BuildTurn, Answered, Seal
<1>6. Speaks(message)'
  <2>1. p = "police" => answer[p] = None
    BY DEF Spoken
  <2>2. CASE p = "thief"
    <3>1. answer[p] = IF step[p] = 1 THEN None ELSE Heard(step[p] - 1)
      BY <1>2, <2>2 DEF Spoken
    <3>2. step[p] \in Nat \ {0} /\ DOMAIN chain[p] = 1 .. step[p] - 1
      BY ChainAt
    <3>3. ASSUME NEW n, n = step[p] - 1, step[p] > 1
          PROVE  Heard(n)' = Heard(n)
      <4>1. n \in DOMAIN chain[p] /\ n \in DOMAIN chain[Other(p)]
        BY <3>2, <3>3 DEF InStep
      <4>2. \A q \in Peer : n \in DOMAIN chain[q]
        BY <4>1 DEF Peer, Other
      <4> QED
        BY <1>3, <4>2, MetKept
    <3>4. step[p] > 1 => message.response = Heard(step[p] - 1)'
      BY <1>2, <1>5, <3>1, <3>2, <3>3
    <3> QED
      BY <1>2, <1>5, <2>2, <3>1, <3>2, <3>4 DEF Speaks
  <2> QED
    BY <1>5, <2>1, <2>2 DEF Speaks, Peer
<1>7. \A q \in Peer : \A i \in DOMAIN inbox[q] :
        inbox[q][i] \in Turn /\ Told(inbox[q][i]) /\ Speaks(inbox[q][i])
  BY DEF Kinds, TypeOK, Delivery, Spoken
<1>8. ASSUME NEW q \in Peer, NEW i \in DOMAIN inbox'[q], NEW turn, turn = inbox'[q][i]
      PROVE  Speaks(turn)'
  <2>1. CASE i \in DOMAIN inbox[q] /\ turn = inbox[q][i]
    BY <1>3, <1>7, <2>1, SpeaksKept
  <2>2. CASE turn = message
    BY <1>6, <2>2
  <2> QED
    BY <1>4, <1>8, <2>1, <2>2 DEF Arrives
<1>9. ASSUME NEW q \in Peer, pc'[q] = "await", NEW turn, turn = sent'[q]
      PROVE  Speaks(turn)'
  <2>1. CASE q = p
    <3>1. turn = message
      BY <1>5, <1>9, <2>1 DEF Kinds, TypeOK
    <3> QED
      BY <1>6, <3>1
  <2>2. CASE q # p
    <3>1. turn = sent[q] /\ pc[q] = "await"
      BY <1>2, <1>5, <1>9, <2>2 DEF Kinds, TypeOK
    <3>2. turn \in Turn /\ Told(turn) /\ Speaks(turn)
      BY <3>1 DEF Delivery, Spoken
    <3> QED
      BY <1>3, <3>2, SpeaksKept
  <2> QED
    BY <2>1, <2>2
<1>10. answer'["police"] = None
  BY <1>2 DEF Kinds, TypeOK, Spoken, Peer
<1>11. ASSUME pc'["thief"] = "play"
       PROVE  answer'["thief"] = IF step'["thief"] = 1 THEN None
                                 ELSE Heard(step["thief"] - 1)'
  <2>1. p # "thief" /\ pc["thief"] = "play" /\ answer'["thief"] = answer["thief"]
    BY <1>2, <1>11 DEF Kinds, TypeOK, Peer
  <2>2. ASSUME NEW n, n = step["thief"] - 1, step["thief"] > 1
        PROVE  Heard(n)' = Heard(n)
    <3>1. /\ n \in DOMAIN chain[Other("thief")] /\ step["thief"] \in Nat
          /\ DOMAIN chain["thief"] = 1 .. Len(chain["thief"])
          /\ Len(chain["thief"]) = step["thief"] - 1
      BY <2>1, <2>2, Domains DEF InStep, Peer, Kinds, Sealing
    <3>2. \A q \in Peer : n \in DOMAIN chain[q]
      BY <2>2, <3>1 DEF Peer, Other
    <3> QED
      BY <1>3, <3>2, MetKept
  <2>3. step["thief"] \in Nat \ {0}
    BY Domains DEF Peer
  <2> QED
    BY <1>2, <2>1, <2>2, <2>3 DEF Spoken
<1>12. InStep'
  <2>1. \A q \in Peer : Other(q) \in Peer
    BY DEF Other, Peer
  <2> QED
    BY <1>2, <1>3, <2>1 DEF InStep, Grown
<1>13. Spoken'
  BY <1>8, <1>9, <1>10, <1>11 DEF Spoken, Speaks
<1> QED
  BY <1>12, <1>13

(* Reading, where nobody places barriers: the thief is caught if the turn  *)
(* claims its cell, the police reads the answer to its last claim.         *)
Learns(p) ==
  LET n == step[p]
  IN  /\ placed' = placed
      /\ n \in DOMAIN chain["police"] /\ n \in DOMAIN chain["thief"]
      /\ p = "police" =>
           /\ answer' = answer /\ caught' = caught
           /\ capturedThem' = [capturedThem EXCEPT ![p] = @ \/ (n > 1 /\ MetAt(n - 1))]
      /\ p = "thief" =>
           /\ answer' = [answer EXCEPT ![p] = Heard(n)] /\ capturedThem' = capturedThem
           /\ caught' = [caught EXCEPT ![p] = @ \/ MetAt(n)]

LEMMA LearnsRead ==
  ASSUME Kinds, Delivery, Placements = {}, Plain, InStep, Spoken, NEW p \in Peer, Read(p)
  PROVE  Refused(p) \/ (Learns(p) /\ \E result \in {"capture", "survival"} : Follows(p, result))
<1> USE DEF Kinds
<1>1. PICK i \in DOMAIN inbox[p] :
           /\ inbox[p][i] \in Turn
           /\ \/ Ours(p, inbox[p][i]) /\ Refused(p)
              \/ /\ ~Ours(p, inbox[p][i]) /\ inbox[p][i].step = step[p]
                 /\ Taken(p, inbox[p][i])
                 /\ \E result \in {"capture", "survival"} : Follows(p, result)
  BY Hears
<1> SUFFICES ASSUME ~Ours(p, inbox[p][i]), inbox[p][i].step = step[p],
                    Taken(p, inbox[p][i])
             PROVE  Learns(p)
  BY <1>1
<1>2. PICK turn : turn = inbox[p][i]
  OBVIOUS
<1>3. /\ turn \in Turn /\ Told(turn) /\ Speaks(turn) /\ turn.step = step[p]
      /\ turn.sender = Other(p) /\ turn.barrier = None
  BY <1>1, <1>2 DEF Delivery, Spoken, Ours, Turn, Peer, Other, Speaks
<1>4. PICK n : n = step[p]
  OBVIOUS
<1>5. /\ n \in Nat \ {0} /\ pc[p] = "await" /\ n \in DOMAIN chain[p]
      /\ position[p] = chain[p][n].position
      /\ n \in DOMAIN chain[Other(p)] /\ turn.commit = chain[Other(p)][n]
  BY <1>3, <1>4, Domains DEF Read, Sealing, Told
<1>6. n \in DOMAIN chain["police"] /\ n \in DOMAIN chain["thief"]
  BY <1>5 DEF Other, Peer
<1> DEFINE barriers == placed[p] \cup ({turn.barrier} \ {None})
           conceded == turn.barrier # None /\ Captured(position[p], barriers)
<1>7. barriers = placed[p] /\ conceded = FALSE
  BY <1>3
<1>8. /\ placed' = [placed EXCEPT ![p] = barriers]
      /\ answer' = [answer EXCEPT ![p] = Answer(p, turn, conceded)]
      /\ caught' = [caught EXCEPT ![p] = \/ caught[p] \/ conceded
                                         \/ p = "thief" /\ turn.claim = position[p]]
      /\ capturedThem' = [capturedThem EXCEPT ![p] = @ \/ Confirms(p, turn)]
  BY <1>2 DEF Taken
<1> HIDE DEF barriers, conceded
<1>9. placed' = placed
  BY <1>7, <1>8 DEF TypeOK
<1>10. CASE p = "police"
  <2>1. Answer(p, turn, conceded) = answer[p]
    BY <1>7, <1>10 DEF Answer
  <2>2. answer' = answer
    BY <1>8, <2>1 DEF TypeOK
  <2>3. caught' = caught
    <3>1. caught' = [caught EXCEPT ![p] = caught[p]]
      BY <1>7, <1>8, <1>10 DEF TypeOK
    <3> QED
      BY <3>1 DEF TypeOK
  <2>4. Confirms(p, turn) <=> (n > 1 /\ MetAt(n - 1))
    <3>1. CASE n = 1
      BY <1>3, <1>4, <3>1 DEF Speaks, Confirms
    <3>2. CASE n > 1
      <4>1. turn.response = Heard(n - 1)
        BY <1>3, <1>4, <1>10, <3>2 DEF Speaks, Other
      <4>2. n - 1 \in DOMAIN chain["police"]
        BY <1>5, <1>6, <3>2, Before DEF Peer
      <4>3. chain["police"][n - 1].position \in Cell
        BY <4>2, Domains DEF Peer
      <4>4. Heard(n - 1) \in [claim : Cell, caught : BOOLEAN]
        BY <4>3 DEF Heard, MetAt
      <4>5. Heard(n - 1) # None /\ (Heard(n - 1).caught <=> MetAt(n - 1))
        BY <4>4, ClaimsAssumption DEF Heard
      <4> QED
        BY <1>10, <3>2, <4>1, <4>5 DEF Confirms
    <3> QED
      BY <1>5, <3>1, <3>2
  <2>5. capturedThem' = [capturedThem EXCEPT ![p] = @ \/ (n > 1 /\ MetAt(n - 1))]
    BY <1>8, <2>4 DEF TypeOK
  <2> QED
    BY <1>4, <1>6, <1>9, <1>10, <2>2, <2>3, <2>5 DEF Learns
<1>11. CASE p = "thief"
  <2>1. Other(p) = "police" /\ chain["police"][n].position \in Cell
    BY <1>6, <1>11, Domains DEF Other, Peer
  <2>2. turn.claim = chain["police"][n].position /\ turn.claim # None
    BY <1>3, <1>5, <2>1, ClaimsAssumption DEF Speaks, Claim
  <2>3. MetAt(n) <=> turn.claim = position[p]
    BY <1>5, <1>6, <1>11, <2>2 DEF MetAt, Peer
  <2>4. Answer(p, turn, conceded) = Heard(n)
    <3>1. MetAt(n) = (turn.claim = position[p])
      BY <2>3 DEF MetAt
    <3> QED
      BY <1>11, <2>2, <3>1 DEF Answer, Heard
  <2>5. ~Confirms(p, turn)
    BY <1>11 DEF Confirms
  <2>6. capturedThem' = capturedThem
    BY <1>8, <2>5 DEF TypeOK
  <2>7. caught' = [caught EXCEPT ![p] = @ \/ MetAt(n)]
    BY <1>7, <1>8, <1>11, <2>3 DEF TypeOK
  <2> QED
    BY <1>4, <1>6, <1>8, <1>9, <1>11, <2>4, <2>6, <2>7 DEF Learns
<1> QED
  BY <1>10, <1>11 DEF Peer

LEMMA SpokenStays ==
  ASSUME Kinds, Delivery, Placements = {}, Plain, InStep, Spoken, NEW p \in Peer,
         Read(p) \/ Audit(p) \/ Drifts(p)
  PROVE  InStep' /\ Spoken'
<1> USE DEF Kinds
<1>1. chain' = chain /\ sent' = sent
  BY DEF Read, Audit, Drifts
<1>2. inbox' = inbox \/ (pc[p] = "await" /\ Push(p, sent[p]))
  BY DEF Read, Audit, Drifts, server
<1>3. \A q \in Peer : \A i \in DOMAIN inbox'[q] : Speaks(inbox'[q][i])
  <2>1. CASE inbox' = inbox
    BY <2>1 DEF Spoken
  <2>2. CASE pc[p] = "await" /\ Push(p, sent[p])
    <3>1. sent[p] \in Turn /\ Speaks(sent[p])
      BY <2>2 DEF Delivery, Spoken
    <3>2. Arrives(dial[p], sent[p])
      BY <2>2, <3>1, Arrivals
    <3> QED
      BY <3>1, <3>2 DEF Spoken, Arrives
  <2> QED
    BY <1>2, <2>1, <2>2
<1>4. Other("police") = "thief" /\ Other("thief") = "police"
  BY DEF Other
<1>5. \A q \in Peer : step[q] \in Nat \ {0}
  BY Domains
<1>6. /\ \A q \in Peer : pc'[q] = "await" => pc[q] = "await"
      /\ \A q \in Peer : step'[q] = step[q] \/ (step'[q] = step[q] + 1 /\ pc'[q] = "play"
                                                /\ q = p /\ Learns(p))
      /\ answer'["police"] = None
      /\ pc'["thief"] = "play" =>
           \/ pc["thief"] = "play" /\ answer'["thief"] = answer["thief"]
                /\ step'["thief"] = step["thief"]
           \/ step'["thief"] = step["thief"] + 1 /\ answer'["thief"] = Heard(step["thief"])
  <2>1. CASE Audit(p) \/ Drifts(p)
    BY <2>1 DEF Audit, Drifts, Goto, TypeOK, side, Spoken, Peer
  <2>2. CASE Read(p) /\ Refused(p)
    BY <2>2 DEF Read, Refused, Goto, TypeOK, side, Spoken, Peer
  <2>3. CASE /\ Read(p) /\ Learns(p)
             /\ \E result \in {"capture", "survival"} : Follows(p, result)
    <3>1. PICK result \in {"capture", "survival"} : Follows(p, result)
      BY <2>3
    <3>2. /\ pc[p] = "await"
          /\ \/ pc' = [pc EXCEPT ![p] = "audit"] /\ step' = step
             \/ pc' = [pc EXCEPT ![p] = "play"] /\ step' = [step EXCEPT ![p] = step[p] + 1]
      BY <2>3, <3>1 DEF Read, Follows, Finish, Goto
    <3>3. \/ p = "police" /\ answer' = answer
          \/ p = "thief" /\ answer' = [answer EXCEPT ![p] = Heard(step[p])]
      BY <2>3 DEF Learns, Peer
    <3>4. answer'["police"] = None
      BY <3>3 DEF TypeOK, Spoken, Peer
    <3>5. /\ \A q \in Peer : pc'[q] = "await" => pc[q] = "await"
          /\ \A q \in Peer : step'[q] = step[q] \/ (step'[q] = step[q] + 1 /\ pc'[q] = "play"
                                                    /\ q = p /\ Learns(p))
      BY <2>3, <3>2 DEF TypeOK
    <3>6. ASSUME pc'["thief"] = "play"
          PROVE  \/ pc["thief"] = "play" /\ answer'["thief"] = answer["thief"]
                      /\ step'["thief"] = step["thief"]
                 \/ step'["thief"] = step["thief"] + 1 /\ answer'["thief"] = Heard(step["thief"])
      BY <3>2, <3>3, <3>6 DEF TypeOK, Peer
    <3> QED
      BY <3>4, <3>5, <3>6
  <2> QED
    BY <2>1, <2>2, <2>3, LearnsRead
<1>7. InStep'
  <2>1. Learns(p) => \A q \in Peer : step[p] \in DOMAIN chain[q]
    BY DEF Learns, Peer
  <2>2. \A q \in Peer : Other(q) \in Peer
    BY DEF Other, Peer
  <2>3. ASSUME NEW q \in Peer, step'[q] > 1
        PROVE  step'[q] - 1 \in DOMAIN chain[Other(q)]
    <3>1. CASE step'[q] = step[q]
      BY <2>3, <3>1 DEF InStep
    <3>2. CASE step'[q] = step[q] + 1 /\ q = p /\ Learns(p)
      BY <1>5, <2>1, <2>2, <3>2
    <3> QED
      BY <1>6, <3>1, <3>2
  <2> QED
    BY <1>1, <2>3 DEF InStep
<1>8. Spoken'
  <2>1. \A n : Heard(n)' = Heard(n)
    BY <1>1 DEF Heard, MetAt
  <2>2. ASSUME NEW turn, Speaks(turn)
        PROVE  Speaks(turn)'
    BY <2>1, <2>2 DEF Speaks
  <2>3. \A q \in Peer : \A i \in DOMAIN inbox'[q] : \A turn :
          turn = inbox'[q][i] => Speaks(turn)'
    BY <1>3, <2>2
  <2>4. \A q \in Peer : pc'[q] = "await" => \A turn : turn = sent'[q] => Speaks(turn)'
    BY <1>1, <1>6, <2>2 DEF Spoken
  <2>5. ASSUME pc'["thief"] = "play"
        PROVE  answer'["thief"] = IF step'["thief"] = 1 THEN None
                                  ELSE Heard(step["thief"] - 1)'
    <3>1. Heard(step["thief"] - 1)' = Heard(step'["thief"] - 1)
      BY <1>1 DEF Heard, MetAt
    <3>2. CASE /\ pc["thief"] = "play" /\ answer'["thief"] = answer["thief"]
               /\ step'["thief"] = step["thief"]
      BY <3>1, <3>2 DEF Spoken
    <3>3. CASE step'["thief"] = step["thief"] + 1 /\ answer'["thief"] = Heard(step["thief"])
      <4>1. step["thief"] \in Nat \ {0}
        BY <1>5 DEF Peer
      <4>2. step'["thief"] # 1 /\ step'["thief"] - 1 = step["thief"]
        BY <3>3, <4>1
      <4> QED
        BY <3>1, <3>3, <4>2
    <3> QED
      BY <1>6, <2>5, <3>2, <3>3
  <2> QED
    BY <1>6, <2>3, <2>4, <2>5 DEF Spoken, Speaks
<1> QED
  BY <1>7, <1>8

(* Who is caught, who knows, and when each side stops.                     *)
LEMMA ThiefPlay ==
  ASSUME Kinds, InStep, Thief, Police, NEW p \in Peer, Play(p)
  PROVE  Thief'
<1> USE DEF Kinds
<1>1. /\ Grown /\ pc[p] = "play" /\ step' = step /\ caught' = caught /\ scene' = scene
      /\ IF caught[p]
         THEN /\ pc' = [pc EXCEPT ![p] = "audit"]
              /\ outcome' = [outcome EXCEPT ![p] = [outcome |-> "capture", steps |-> step[p]]]
         ELSE pc' = [pc EXCEPT ![p] = "await"] /\ outcome' = outcome
  BY Growth DEF Play, setting, Finish, Goto
<1>2. /\ DOMAIN chain["thief"] = 1 .. Len(chain["thief"]) /\ Len(chain["thief"]) \in Nat
      /\ step["thief"] \in 1 .. MaxSteps /\ MaxSteps \in Nat /\ MaxSteps' = MaxSteps
      /\ DOMAIN chain["police"] = 1 .. Len(chain["police"]) /\ Len(chain["police"]) \in Nat
  BY <1>1, Domains DEF Peer, MaxSteps
<1>3. \A n : MetAt(n) => MetAt(n)'
  BY <1>1, MetKept
<1>4. \A n : MetAt(n)' => MetAt(n) \/ (n = step[p] /\ Len(chain[Other(p)]) = n)
  BY NewMeeting
<1>5. CASE p = "thief"
  <2>1. Len(chain'["thief"]) = step["thief"] /\ Len(chain["thief"]) = step["thief"] - 1
    BY <1>5, ChainAt
  <2>2. pc["thief"] = "play" /\ pc["thief"] \notin Done
    BY <1>1, <1>5 DEF Done
  <2>3. caught["thief"] <=> MetAt(step["thief"] - 1)
    BY <2>2 DEF Thief
  <2>4. \A n \in 1 .. MaxSteps : MetAt(n) => Len(chain["thief"]) <= n
    BY <1>2, <2>2 DEF Thief
  <2>5. \A n \in 1 .. MaxSteps : MetAt(n)' => step["thief"] <= n + 1
    BY <1>2, <1>4, <1>5, <2>1, <2>4
  <2>6. ASSUME NEW n \in 1 .. MaxSteps, MetAt(n)', step["thief"] = n + 1
        PROVE  caught["thief"]
    <3>1. n # step["thief"] /\ n = step["thief"] - 1
      BY <1>2, <2>6
    <3>2. MetAt(n)
      BY <1>4, <1>5, <2>6, <3>1
    <3> QED
      BY <2>3, <3>1, <3>2
  <2>7. CASE caught["thief"]
    <3>1. pc'["thief"] = "audit" /\ outcome'["thief"].outcome = "capture"
      BY <1>1, <1>5, <2>7 DEF TypeOK
    <3>2. ASSUME NEW n, n = step["thief"] - 1
          PROVE  MetAt(n)'
      BY <1>3, <2>3, <2>7, <3>2
    <3>3. MetAt(step["thief"] - 1)'
      BY <1>1, <3>2 DEF MetAt
    <3> QED
      BY <1>1, <1>2, <2>1, <2>5, <3>1, <3>3 DEF Thief, Done
  <2>8. CASE ~caught["thief"]
    <3>1. pc'["thief"] = "await"
      BY <1>1, <1>5, <2>8 DEF TypeOK
    <3> QED
      BY <1>1, <1>2, <2>1, <2>5, <2>6, <2>8, <3>1 DEF Thief, Done
  <2> QED
    BY <2>7, <2>8
<1>6. CASE p = "police"
  <2>1. /\ Len(chain["police"]) = step["police"] - 1 /\ step["police"] \in 1 .. MaxSteps
        /\ DOMAIN chain["police"] = 1 .. step["police"] - 1
        /\ chain'["thief"] = chain["thief"]
    BY <1>6, ChainAt, Domains DEF Peer
  <2>2. pc'["thief"] = pc["thief"] /\ outcome'["thief"] = outcome["thief"]
    <3>1. "thief" # p
      BY <1>6
    <3>2. CASE caught[p]
      BY <1>1, <3>1, <3>2 DEF TypeOK, Peer
    <3>3. CASE ~caught[p]
      BY <1>1, <3>1, <3>3 DEF TypeOK, Peer
    <3> QED
      BY <3>2, <3>3
  <2>3. ASSUME pc["thief"] = "play", NEW n, n = step["thief"] - 1
        PROVE  MetAt(n)' <=> MetAt(n)
    <3>1. step["thief"] > 1 => n \in DOMAIN chain["police"]
      BY <2>3 DEF InStep, Peer, Other
    <3>2. n # step["police"] \/ n \notin DOMAIN chain'["thief"]
      BY <1>2, <2>1, <3>1, <2>3
    <3>3. MetAt(n)' => n # step["police"]
      BY <3>2 DEF MetAt, Peer
    <3> QED
      BY <1>3, <1>4, <1>6, <3>3
  <2>4. \A n : MetAt(n)' => MetAt(n) \/ Len(chain["thief"]) = n
    BY <1>4, <1>6 DEF Other
  <2>5. pc["thief"] = "play" => (caught["thief"] <=> MetAt(step["thief"] - 1)')
    <3>1. ASSUME pc["thief"] = "play", NEW n, n = step["thief"] - 1
          PROVE  caught["thief"] <=> MetAt(n)'
      BY <2>3, <3>1 DEF Thief
    <3> QED
      BY <1>1, <3>1 DEF MetAt
  <2>6. \A n \in 1 .. MaxSteps : MetAt(n)' =>
          /\ Len(chain["thief"]) <= n + 1
          /\ Len(chain["thief"]) = n + 1 =>
               pc["thief"] \in Done /\ outcome["thief"].outcome = "capture"
    BY <1>2, <2>4 DEF Thief
  <2>7. pc["thief"] \in Done =>
          outcome["thief"].outcome = "capture" /\ (MetAt(step["thief"] - 1) \/ MetAt(MaxSteps))
    BY <1>2, <2>1 DEF Thief
  <2>8. pc["thief"] \in Done => MetAt(step["thief"] - 1)' \/ MetAt(MaxSteps)'
    <3>1. ASSUME NEW n, NEW m, n = step["thief"] - 1, m = MaxSteps, MetAt(n) \/ MetAt(m)
          PROVE  MetAt(n)' \/ MetAt(m)'
      BY <1>3, <3>1
    <3> QED
      BY <1>1, <1>2, <2>7, <3>1 DEF MetAt
  <2> QED
    BY <1>1, <1>2, <2>1, <2>2, <2>5, <2>6, <2>7, <2>8 DEF Thief
<1> QED
  BY <1>5, <1>6 DEF Peer

LEMMA PolicePlay ==
  ASSUME Kinds, InStep, Thief, Police, NEW p \in Peer, Play(p)
  PROVE  Police'
<1> USE DEF Kinds
<1>1. /\ Grown /\ pc[p] = "play" /\ step' = step /\ caught' = caught /\ scene' = scene
      /\ capturedThem' = capturedThem
      /\ IF caught[p]
         THEN /\ pc' = [pc EXCEPT ![p] = "audit"]
              /\ outcome' = [outcome EXCEPT ![p] = [outcome |-> "capture", steps |-> step[p]]]
         ELSE pc' = [pc EXCEPT ![p] = "await"] /\ outcome' = outcome
  BY Growth DEF Play, setting, Finish, Goto
<1>2. /\ DOMAIN chain["thief"] = 1 .. Len(chain["thief"]) /\ Len(chain["thief"]) \in Nat
      /\ step["police"] \in 1 .. MaxSteps /\ MaxSteps \in Nat /\ MaxSteps' = MaxSteps
      /\ DOMAIN chain["police"] = 1 .. Len(chain["police"]) /\ Len(chain["police"]) \in Nat
  BY <1>1, Domains DEF Peer, MaxSteps
<1>3. \A n : MetAt(n) => MetAt(n)'
  BY <1>1, MetKept
<1>4. \A n : MetAt(n)' => MetAt(n) \/ (n = step[p] /\ Len(chain[Other(p)]) = n)
  BY NewMeeting
<1>5. CASE p = "police"
  <2>1. Len(chain'["police"]) = step["police"] /\ Len(chain["police"]) = step["police"] - 1
    BY <1>5, ChainAt
  <2>2. pc["police"] = "play" /\ ~caught["police"] /\ pc'["police"] = "await"
    BY <1>1, <1>5 DEF Police, TypeOK
  <2>3. \A n \in 1 .. MaxSteps : MetAt(n) => Len(chain["police"]) <= n
    BY <2>2 DEF Police
  <2>4. \A n \in 1 .. MaxSteps : MetAt(n)' => step["police"] <= n + 1
    BY <1>2, <1>4, <1>5, <2>1, <2>3
  <2>5. ~capturedThem["police"]
    BY <2>2 DEF Police, Done
  <2> QED
    BY <1>1, <1>2, <2>1, <2>2, <2>4, <2>5 DEF Police, Done
<1>6. CASE p = "thief"
  <2>1. /\ chain'["police"] = chain["police"] /\ pc'["police"] = pc["police"]
        /\ outcome'["police"] = outcome["police"]
    BY <1>1, <1>6, ChainAt DEF TypeOK, Peer
  <2>2. \A n : MetAt(n)' => MetAt(n) \/ Len(chain["police"]) = n
    BY <1>4, <1>6 DEF Other
  <2>3. \A n \in 1 .. MaxSteps : MetAt(n)' =>
          /\ Len(chain["police"]) <= n + 1
          /\ pc["police"] = "play" => Len(chain["police"]) <= n
    BY <1>2, <2>2 DEF Police
  <2>4. pc["police"] \in Done => Len(chain["police"]) = step["police"]
    BY DEF Sealing, Peer
  <2>5. ASSUME pc["police"] \in Done
        PROVE  IF capturedThem["police"]
               THEN MetAt(step["police"] - 1)'
               ELSE step["police"] = MaxSteps
                      /\ \A n \in 1 .. MaxSteps : MetAt(n)' => n = MaxSteps
    <3>1. CASE capturedThem["police"]
      <4>1. ASSUME NEW n, n = step["police"] - 1
            PROVE  MetAt(n)'
        BY <1>3, <2>5, <3>1, <4>1 DEF Police
      <4> QED
        BY <1>1, <3>1, <4>1 DEF MetAt
    <3>2. CASE ~capturedThem["police"]
      BY <1>2, <2>2, <2>4, <2>5, <3>2 DEF Police
    <3> QED
      BY <3>1, <3>2
  <2> QED
    BY <1>1, <1>2, <2>1, <2>3, <2>5 DEF Police
<1> QED
  BY <1>5, <1>6 DEF Peer

LEMMA ThiefStays ==
  ASSUME Kinds, Delivery, Placements = {}, Plain, InStep, Spoken, Thief, NEW p \in Peer,
         Read(p) \/ Audit(p) \/ Drifts(p)
  PROVE  Thief' /\ (capturedThem["thief"] <=> capturedThem'["thief"])
<1> USE DEF Kinds
<1>1. /\ DOMAIN chain["thief"] = 1 .. Len(chain["thief"]) /\ Len(chain["thief"]) \in Nat
      /\ step["thief"] \in 1 .. MaxSteps /\ MaxSteps \in Nat
      /\ DOMAIN chain["police"] = 1 .. Len(chain["police"]) /\ Len(chain["police"]) \in Nat
      /\ Len(chain["police"]) <= step["police"] /\ step["police"] \in 1 .. MaxSteps
  BY Domains DEF Peer
<1>2. chain' = chain /\ scene' = scene
  BY DEF Read, Audit, Drifts, setting
<1>3. /\ MaxSteps' = MaxSteps
      /\ \A n : MetAt(n)' <=> MetAt(n)
      /\ MetAt(step["thief"] - 1)' <=> MetAt(step'["thief"] - 1)
      /\ MetAt(MaxSteps)' <=> MetAt(MaxSteps)
  BY <1>2 DEF MetAt, MaxSteps
<1>4. CASE /\ capturedThem'["thief"] = capturedThem["thief"]
           /\ caught'["thief"] = caught["thief"] /\ step'["thief"] = step["thief"]
           /\ \/ pc'["thief"] = pc["thief"] /\ outcome'["thief"] = outcome["thief"]
              \/ pc["thief"] \in Done /\ pc'["thief"] \in Done
                   /\ outcome'["thief"] = outcome["thief"]
              \/ pc["thief"] \notin Done /\ pc'["thief"] = "failed"
  <2>1. /\ pc'["thief"] \in {"play", "await"} => pc'["thief"] = pc["thief"]
        /\ pc'["thief"] \in Done <=> pc["thief"] \in Done
        /\ pc["thief"] \in Done => outcome'["thief"] = outcome["thief"]
    BY <1>4 DEF Done
  <2> QED
    BY <1>1, <1>2, <1>3, <1>4, <2>1 DEF Thief
<1>5. CASE /\ p = "thief" /\ Read(p) /\ Learns(p)
           /\ \E result \in {"capture", "survival"} : Follows(p, result)
  <2>1. PICK s : s = step["thief"]
    OBVIOUS
  <2>2. /\ pc["thief"] = "await" /\ Len(chain["thief"]) = s /\ ~caught["thief"]
        /\ s \in 1 .. MaxSteps /\ Len(chain["police"]) <= MaxSteps
        /\ ~capturedThem["thief"]
    BY <1>1, <1>5, <2>1 DEF Read, Sealing, Thief, Peer, Plain
  <2>3. /\ s \in DOMAIN chain["police"] /\ ~capturedThem'["thief"]
        /\ caught'["thief"] <=> MetAt(s)
    BY <1>5, <2>1, <2>2 DEF Learns, TypeOK
  <2>4. \A n \in 1 .. MaxSteps : MetAt(n) => s <= n
    <3>1. "await" \notin Done
      BY DEF Done
    <3>2. \A n \in 1 .. MaxSteps : MetAt(n) => s <= n + 1 /\ s # n + 1
      BY <2>2, <3>1 DEF Thief
    <3> QED
      BY <1>1, <2>2, <3>2
  <2>5. PICK result \in {"capture", "survival"} : Follows("thief", result)
    BY <1>5
  <2>6. CASE s = MaxSteps
    <3>1. /\ step'["thief"] = s /\ pc'["thief"] = "audit"
          /\ outcome'["thief"] = [outcome |-> result, steps |-> s]
          /\ result = IF caught'["thief"] THEN "capture" ELSE "survival"
      <4>1. /\ step' = step /\ pc' = [pc EXCEPT !["thief"] = "audit"]
            /\ outcome' = [outcome EXCEPT !["thief"] = [outcome |-> result, steps |-> s]]
            /\ result = IF caught'["thief"] THEN "capture" ELSE "survival"
        BY <1>1, <2>1, <2>3, <2>5, <2>6 DEF Follows, Finish, Goto
      <4>2. "thief" \in DOMAIN pc /\ "thief" \in DOMAIN outcome
        BY DEF TypeOK, Peer
      <4> QED
        BY <2>1, <4>1, <4>2
    <3>2. outcome'["thief"].outcome = result
      BY <3>1
    <3>3. result = "capture" => MetAt(MaxSteps)
      BY <2>3, <2>6, <3>1
    <3>4. result # "capture" =>
            /\ Len(chain["police"]) = MaxSteps
            /\ \A n \in 1 .. MaxSteps : ~MetAt(n)
      <4>1. Len(chain["police"]) = MaxSteps
        BY <1>1, <2>2, <2>3, <2>6
      <4>2. result # "capture" => ~MetAt(s)
        BY <2>3, <3>1
      <4>3. \A n \in 1 .. MaxSteps : MetAt(n) => n = s
        BY <1>1, <2>4, <2>6
      <4> QED
        BY <4>1, <4>2, <4>3
    <3>5. \A n \in 1 .. MaxSteps : MetAt(n) => Len(chain["thief"]) <= n + 1
                                               /\ Len(chain["thief"]) # n + 1
      BY <1>1, <2>2, <2>4
    <3> QED
      BY <1>2, <1>3, <2>2, <2>3, <2>6, <3>1, <3>2, <3>3, <3>4, <3>5 DEF Thief
  <2>7. CASE s # MaxSteps
    <3>1. step'["thief"] = s + 1 /\ pc'["thief"] = "play"
      BY <2>1, <2>2, <2>3, <2>5, <2>7 DEF Follows, Goto, TypeOK, Peer
    <3>2. step'["thief"] - 1 = s /\ pc'["thief"] \notin Done
      BY <2>2, <3>1 DEF Done
    <3>3. \A n \in 1 .. MaxSteps : MetAt(n) => Len(chain["thief"]) <= n + 1
                                               /\ Len(chain["thief"]) # n + 1
      BY <1>1, <2>2, <2>4
    <3> QED
      BY <1>2, <1>3, <2>2, <2>3, <3>1, <3>2, <3>3 DEF Thief
  <2> QED
    BY <2>6, <2>7
<1>6. CASE p = "police" /\ Read(p)
  <2>1. Refused(p) \/ (Learns(p) /\ \E result \in {"capture", "survival"} : Follows(p, result))
    BY <1>6, LearnsRead
  <2>2. /\ capturedThem'["thief"] = capturedThem["thief"]
        /\ caught'["thief"] = caught["thief"] /\ step'["thief"] = step["thief"]
        /\ pc'["thief"] = pc["thief"] /\ outcome'["thief"] = outcome["thief"]
    BY <1>6, <2>1 DEF Refused, Learns, Follows, Finish, Goto, side, TypeOK, Peer
  <2> QED
    BY <1>4, <2>2
<1>7. CASE p = "thief" /\ Read(p) /\ Refused(p)
  <2>1. /\ capturedThem'["thief"] = capturedThem["thief"]
        /\ caught'["thief"] = caught["thief"] /\ step'["thief"] = step["thief"]
        /\ pc["thief"] \notin Done /\ pc'["thief"] = "failed"
    BY <1>7 DEF Read, Refused, Goto, side, TypeOK, Peer, Done
  <2> QED
    BY <1>4, <2>1
<1>8. CASE Audit(p) \/ Drifts(p)
  <2>1. UNCHANGED <<capturedThem, caught, step, outcome>>
    BY <1>8 DEF Audit, Drifts, side
  <2>2. \/ pc'["thief"] = pc["thief"]
        \/ pc["thief"] \in Done /\ pc'["thief"] \in Done
        \/ pc["thief"] \notin Done /\ pc'["thief"] = "failed"
    BY <1>8 DEF Audit, Drifts, Goto, TypeOK, Done, Peer
  <2> QED
    BY <1>4, <2>1, <2>2
<1> QED
  BY <1>5, <1>6, <1>7, <1>8, LearnsRead DEF Peer

LEMMA PoliceStays ==
  ASSUME Kinds, Delivery, Placements = {}, Plain, InStep, Spoken, Police, NEW p \in Peer,
         Read(p) \/ Audit(p) \/ Drifts(p)
  PROVE  Police'
<1> USE DEF Kinds
<1>1. /\ DOMAIN chain["police"] = 1 .. Len(chain["police"]) /\ Len(chain["police"]) \in Nat
      /\ step["police"] \in 1 .. MaxSteps /\ MaxSteps \in Nat
  BY Domains DEF Peer
<1>2. chain' = chain /\ scene' = scene
  BY DEF Read, Audit, Drifts, setting
<1>3. /\ MaxSteps' = MaxSteps
      /\ \A n : MetAt(n)' <=> MetAt(n)
      /\ MetAt(step["police"] - 1)' <=> MetAt(step'["police"] - 1)
  BY <1>2 DEF MetAt, MaxSteps
<1>4. CASE /\ capturedThem'["police"] = capturedThem["police"]
           /\ caught'["police"] = caught["police"] /\ step'["police"] = step["police"]
           /\ \/ pc'["police"] = pc["police"] /\ outcome'["police"] = outcome["police"]
              \/ pc["police"] \in Done /\ pc'["police"] \in Done
                   /\ outcome'["police"] = outcome["police"]
              \/ pc["police"] \notin Done /\ pc'["police"] = "failed"
  <2>1. /\ pc'["police"] = "play" => pc["police"] = "play"
        /\ pc'["police"] \in Done <=> pc["police"] \in Done
        /\ pc["police"] \in Done => outcome'["police"] = outcome["police"]
    BY <1>4 DEF Done
  <2> QED
    BY <1>1, <1>2, <1>3, <1>4, <2>1 DEF Police
<1>5. CASE /\ p = "police" /\ Read(p) /\ Learns(p)
           /\ \E result \in {"capture", "survival"} : Follows(p, result)
  <2>1. PICK s : s = step["police"]
    OBVIOUS
  <2>2. /\ pc["police"] = "await" /\ Len(chain["police"]) = s /\ ~caught["police"]
        /\ s \in 1 .. MaxSteps /\ ~capturedThem["police"]
    BY <1>1, <1>5, <2>1 DEF Read, Sealing, Police, Peer, Done
  <2>3. /\ ~caught'["police"]
        /\ capturedThem'["police"] <=> (s > 1 /\ MetAt(s - 1))
    BY <1>5, <2>1, <2>2 DEF Learns, TypeOK, Peer
  <2>4. \A n \in 1 .. MaxSteps : MetAt(n) => s <= n + 1
    BY <2>2 DEF Police
  <2>5. PICK result \in {"capture", "survival"} : Follows("police", result)
    BY <1>5
  <2>6. CASE capturedThem'["police"]
    <3>1. /\ step'["police"] = s /\ pc'["police"] = "audit"
          /\ outcome'["police"].outcome = "capture"
      BY <2>1, <2>2, <2>5, <2>6 DEF Follows, Finish, Goto, TypeOK, Peer
    <3> QED
      BY <1>2, <1>3, <2>2, <2>3, <2>4, <2>6, <3>1 DEF Police, Done
  <2>7. CASE ~capturedThem'["police"]
    <3>1. \A n \in 1 .. MaxSteps : MetAt(n) => s <= n
      <4> SUFFICES ASSUME NEW n \in 1 .. MaxSteps, MetAt(n), ~(s <= n)
                   PROVE  FALSE
        OBVIOUS
      <4>1. n = s - 1 /\ s > 1
        BY <1>1, <2>2, <2>4
      <4> QED
        BY <2>3, <2>7, <4>1
    <3>2. CASE s = MaxSteps
      <4>1. /\ step'["police"] = s /\ pc'["police"] = "audit"
            /\ outcome'["police"].outcome = "survival"
        <5>1. /\ step' = step /\ pc' = [pc EXCEPT !["police"] = "audit"]
              /\ outcome' = [outcome EXCEPT !["police"] = [outcome |-> result, steps |-> s]]
              /\ result = "survival"
          BY <1>1, <2>1, <2>3, <2>5, <2>7, <3>2 DEF Follows, Finish, Goto
        <5>2. "police" \in DOMAIN pc /\ "police" \in DOMAIN outcome
          BY DEF TypeOK, Peer
        <5> QED
          BY <2>1, <5>1, <5>2
      <4>2. \A n \in 1 .. MaxSteps : MetAt(n) => n = MaxSteps
        BY <1>1, <3>1, <3>2
      <4> QED
        BY <1>2, <1>3, <2>2, <2>3, <2>4, <2>7, <3>2, <4>1, <4>2 DEF Police
    <3>3. CASE s # MaxSteps
      <4>1. /\ step'["police"] = s + 1 /\ pc'["police"] = "play"
        BY <2>1, <2>2, <2>5, <2>7, <3>3 DEF Follows, Goto, TypeOK, Peer
      <4> QED
        BY <1>2, <1>3, <2>2, <2>3, <2>4, <2>7, <3>1, <4>1 DEF Police, Done
    <3> QED
      BY <3>2, <3>3
  <2> QED
    BY <2>6, <2>7
<1>6. CASE p = "thief" /\ Read(p)
  <2>1. Refused(p) \/ (Learns(p) /\ \E result \in {"capture", "survival"} : Follows(p, result))
    BY <1>6, LearnsRead
  <2>2. /\ capturedThem'["police"] = capturedThem["police"]
        /\ caught'["police"] = caught["police"] /\ step'["police"] = step["police"]
        /\ pc'["police"] = pc["police"] /\ outcome'["police"] = outcome["police"]
    BY <1>6, <2>1 DEF Refused, Learns, Follows, Finish, Goto, side, TypeOK, Peer
  <2> QED
    BY <1>4, <2>2
<1>7. CASE p = "police" /\ Read(p) /\ Refused(p)
  <2>1. /\ capturedThem'["police"] = capturedThem["police"]
        /\ caught'["police"] = caught["police"] /\ step'["police"] = step["police"]
        /\ pc["police"] \notin Done /\ pc'["police"] = "failed"
    BY <1>7 DEF Read, Refused, Goto, side, TypeOK, Peer, Done
  <2> QED
    BY <1>4, <2>1
<1>8. CASE Audit(p) \/ Drifts(p)
  <2>1. UNCHANGED <<capturedThem, caught, step, outcome>>
    BY <1>8 DEF Audit, Drifts, side
  <2>2. \/ pc'["police"] = pc["police"]
        \/ pc["police"] \in Done /\ pc'["police"] \in Done
        \/ pc["police"] \notin Done /\ pc'["police"] = "failed"
    BY <1>8 DEF Audit, Drifts, Goto, TypeOK, Done, Peer
  <2> QED
    BY <1>4, <2>1, <2>2
<1> QED
  BY <1>5, <1>6, <1>7, <1>8, LearnsRead DEF Peer

LEMMA BareKept ==
  ASSUME Kinds, Delivery, Bare, NEW p \in Peer, Play(p) \/ Read(p) \/ Audit(p) \/ Drifts(p)
  PROVE  Bare'
<1>1. scene' = scene
  BY DEF Play, Read, Audit, Drifts, setting
<1>2. SUFFICES ASSUME Placements = {}
               PROVE  Plain' /\ InStep' /\ Spoken' /\ Thief' /\ Police'
  BY <1>1 DEF Bare, Plain, Placements
<1>3. Plain /\ InStep /\ Spoken /\ Thief /\ Police
  BY <1>2 DEF Bare, Plain
<1>4. CASE Play(p)
  <2>1. placed' = placed /\ capturedThem' = capturedThem
    BY <1>4 DEF Play
  <2>2. Plain'
    BY <1>3, <2>1 DEF Plain
  <2> QED
    BY <1>2, <1>3, <1>4, <2>2, SpokenPlay, ThiefPlay, PolicePlay
<1>5. CASE Read(p) \/ Audit(p) \/ Drifts(p)
  <2>1. InStep' /\ Spoken' /\ Thief' /\ Police'
        /\ (capturedThem["thief"] <=> capturedThem'["thief"])
    BY <1>2, <1>3, <1>5, SpokenStays, ThiefStays, PoliceStays
  <2>2. placed' = placed
    <3>1. CASE Read(p)
      BY <1>2, <1>3, <3>1, LearnsRead DEF Learns, Refused, side
    <3>2. CASE Audit(p) \/ Drifts(p)
      BY <3>2 DEF Audit, Drifts, side
    <3> QED
      BY <1>5, <3>1, <3>2
  <2> QED
    BY <1>3, <2>1, <2>2 DEF Plain
<1> QED
  BY <1>4, <1>5

-----------------------------------------------------------------------------
(* The theorems.                                                           *)

LEMMA InvInit == Init => Inv
BY KindsInit, DeliveryInit, MirroredInit, BareInit
   DEF Inv, Kinds, Bounded, Judged, Init

LEMMA InvStays ==
  ASSUME Inv, UNCHANGED vars
  PROVE  Inv'
<1>1. UNCHANGED <<scene, dial, inbox, audits, position, placed, answer, caught, capturedThem>>
      /\ UNCHANGED <<pc, step, chain, sent, repushes, outcome, verdict, harvest>>
  BY DEF vars, setting, server, side, driver
<1>2. /\ Walls' = Walls /\ MaxSteps' = MaxSteps /\ Placements' = Placements
      /\ Dials' = Dials /\ Turn' = Turn /\ Sealed' = Sealed /\ Response' = Response
      /\ Disclosed' = Disclosed
  BY <1>1, SameSets
<1>3. TypeOK' /\ Sealing' /\ Delivery' /\ Bounded'
  BY <1>1, <1>2 DEF Inv, TypeOK, Sealing, Delivery, Told, Bounded, Captured
<1>4. Judged' /\ Mirrored'
  BY <1>1, <1>2 DEF Inv, Judged, Mirrored, Echoes, Opening
<1>5. Bare'
  BY <1>1, <1>2 DEF Inv, Bare, InStep, Spoken, Speaks, Heard, MetAt, Thief, Police
<1> QED
  BY <1>3, <1>4, <1>5 DEF Inv

LEMMA InvNext ==
  ASSUME Inv, [Next]_vars
  PROVE  Inv'
<1>1. CASE UNCHANGED vars
  BY <1>1, InvStays
<1>2. CASE Next
  <2>1. Kinds /\ Delivery /\ Bounded /\ Judged /\ Mirrored /\ Bare
    BY DEF Inv, Kinds
  <2>2. PICK p \in Peer : Play(p) \/ Read(p) \/ Audit(p) \/ Drifts(p)
    BY <1>2, <2>1, Steps
  <2>3. Kinds'
    BY <2>1, <2>2, KindsPlay, KindsRead, KindsAudit, KindsDrift
  <2>4. Delivery'
    BY <2>1, <2>2, DeliveryPlay, DeliveryStays
  <2>5. Bounded' /\ Judged' /\ Mirrored' /\ Bare'
    BY <2>1, <2>2, BoundedKept, JudgedKept, MirroredKept, BareKept
  <2> QED
    BY <2>3, <2>4, <2>5 DEF Inv, Kinds
<1> QED
  BY <1>1, <1>2

(* The inductive invariant holds of every sub-game.                        *)
THEOREM InvHolds == Spec => []Inv
BY InvInit, InvNext, PTL DEF Spec

(* Side.walk and Side.read: wherever barriers are placed, a piece neither  *)
(* stands in one nor lives on boxed in without being caught.               *)
THEOREM BarriersBind == Spec => []BarriersBite
<1>1. Inv => BarriersBite
  BY DEF Inv, Bounded, BarriersBite
<1> QED
  BY <1>1, InvHolds, PTL

(* verify_records against the turns of the sub-game: the sealed chain, and *)
(* no other, is accepted, however often a turn was pushed again.           *)
THEOREM AuditsJudge == Spec => []AuditsAreJust
<1>1. Inv => AuditsAreJust
  BY DEF Inv, Judged, AuditsAreJust
<1> QED
  BY <1>1, InvHolds, PTL

(* await_turn on one's own tunnel: no sub-game is played out against one's *)
(* own turns, whatever the other group dials.                              *)
THEOREM NoMirror == Spec => []MirrorNeverCloses
<1>1. Inv => MirrorNeverCloses
  BY DEF Inv, Mirrored, Echoes, MirrorNeverCloses
<1> QED
  BY <1>1, InvHolds, PTL

(* Claims and answers: the police has captured only where the two chains   *)
(* meet, and no side seals a second step after a meeting.                  *)
THEOREM Captures == Spec => []CaptureIsMeeting
<1>1. Inv => CaptureIsMeeting
  <2> SUFFICES ASSUME Inv, Placements = {}
               PROVE  /\ capturedThem["police"] => \E n \in 1 .. MaxSteps : MetAt(n)
                      /\ \A n \in 1 .. MaxSteps : MetAt(n) =>
                           \A p \in Peer : Len(chain[p]) <= n + 1
    BY DEF CaptureIsMeeting
  <2>1. Police /\ Thief /\ Kinds
    BY DEF Inv, Bare, Kinds
  <2>2. capturedThem["police"] => MetAt(step["police"] - 1)
    BY <2>1 DEF Police
  <2>3. \A n : MetAt(n) => n \in 1 .. MaxSteps
    <3>1. /\ DOMAIN chain["police"] = 1 .. Len(chain["police"])
          /\ Len(chain["police"]) \in Nat /\ Len(chain["police"]) <= step["police"]
          /\ step["police"] \in 1 .. MaxSteps /\ MaxSteps \in Nat
      BY <2>1, Domains DEF Peer
    <3>2. \A n : MetAt(n) => n \in DOMAIN chain["police"]
      BY DEF MetAt, Peer
    <3> QED
      BY <3>1, <3>2
  <2> QED
    BY <2>1, <2>2, <2>3 DEF Police, Thief, Peer
<1> QED
  BY <1>1, InvHolds, PTL

(* play_sub_game on both sides: the claims filed agree on the outcome and  *)
(* on the steps it took, but where the agents meet on the last step.       *)
THEOREM Outcomes == Spec => []OutcomesAgreeBeforeLast
<1>1. Inv => OutcomesAgreeBeforeLast
  <2> SUFFICES ASSUME Inv, Placements = {}, \A p \in Peer : outcome[p] # None,
                      ~MetAt(MaxSteps)
               PROVE  outcome["police"] = outcome["thief"]
    BY DEF OutcomesAgreeBeforeLast
  <2>1. Police /\ Thief /\ Kinds
    BY DEF Inv, Bare, Kinds
  <2>2. \A p \in Peer : /\ pc[p] \in Done /\ Len(chain[p]) = step[p]
                        /\ outcome[p] \in [outcome : {"capture", "survival"}, steps : {step[p]}]
    BY <2>1 DEF Kinds, Sealing
  <2>3. \A p \in Peer : step[p] \in 1 .. MaxSteps /\ MaxSteps \in Nat
                        /\ DOMAIN chain[p] = 1 .. step[p]
    BY <2>1, <2>2, Domains
  <2>4. \A n : MetAt(n) => n \in 1 .. MaxSteps
    BY <2>3 DEF MetAt, Peer
  <2>5. CASE outcome["thief"].outcome = "capture"
    <3>1. MetAt(step["thief"] - 1)
      BY <2>1, <2>2, <2>5 DEF Thief, Peer
    <3>2. step["thief"] - 1 < MaxSteps /\ step["thief"] - 1 \in 1 .. MaxSteps
      BY <2>3, <2>4, <3>1 DEF Peer
    <3>3. capturedThem["police"]
      BY <2>1, <2>2, <3>1, <3>2 DEF Police, Peer
    <3>4. MetAt(step["police"] - 1) /\ outcome["police"].outcome = "capture"
      BY <2>1, <2>2, <3>3 DEF Police, Peer
    <3>5. step["police"] - 1 \in 1 .. MaxSteps
      BY <2>4, <3>4
    <3>6. step["thief"] <= step["police"] - 1 + 1 /\ step["police"] <= step["thief"] - 1 + 1
      BY <2>1, <2>2, <3>1, <3>2, <3>4, <3>5 DEF Police, Thief, Peer
    <3>7. step["thief"] = step["police"]
      BY <2>3, <3>6 DEF Peer
    <3> QED
      BY <2>2, <2>5, <3>4, <3>7 DEF Peer
  <2>6. CASE outcome["thief"].outcome # "capture"
    <3>1. step["thief"] = MaxSteps /\ \A n \in 1 .. MaxSteps : ~MetAt(n)
      BY <2>1, <2>2, <2>6 DEF Thief, Peer
    <3>2. ~capturedThem["police"]
      BY <2>1, <2>4, <3>1 DEF Police
    <3>3. step["police"] = MaxSteps /\ outcome["police"].outcome # "capture"
      BY <2>1, <2>2, <3>2 DEF Police, Peer
    <3> QED
      BY <2>2, <2>6, <3>1, <3>3 DEF Peer
  <2> QED
    BY <2>5, <2>6
<1> QED
  BY <1>1, InvHolds, PTL
=============================================================================
