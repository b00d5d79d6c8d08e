-------------------------- MODULE SimultaneousTurns --------------------------
(***************************************************************************)
(* What the commit/reveal server of one peer promises, with no wire, no    *)
(* turn numbers, no clock and no buffers: the two peers play simultaneous  *)
(* turns.  Each seals one move; only when both are sealed may either open  *)
(* its seal, and what it opens is what it sealed; when both are open the   *)
(* pair is played.  A turn that stalls may instead be forfeited, against   *)
(* exactly the peers that owe the turn its next act.  A match that ended   *)
(* on the board, or was forfeited, stays as it is.                         *)
(***************************************************************************)
EXTENDS Integers, Sequences

CONSTANTS Token, None, Unopenable, MaxMoves, Captures(_)

Peer == {"police", "thief"}
EngineRoleOf == [p \in Peer |-> IF p = "police" THEN "cop" ELSE "thief"]
PeerOf == [r \in {"cop", "thief"} |-> IF r = "cop" THEN "police" ELSE "thief"]

VARIABLES
  sealed,    \* what each peer has sealed this turn
  opened,    \* the peers that have opened their seal
  log,       \* the pairs played
  blamed     \* the peers the match was forfeited against

vars == <<sealed, opened, log, blamed>>

NoSeals == [p \in Peer |-> None]

Ended == log # <<>> /\ (Captures(log) \/ Len(log) >= MaxMoves)
Live == ~Ended /\ blamed = {}

Init == sealed = NoSeals /\ opened = {} /\ log = <<>> /\ blamed = {}

Seal(p, value) ==
  /\ Live
  /\ sealed[p] = None
  /\ sealed' = [sealed EXCEPT ![p] = value]
  /\ UNCHANGED <<opened, log, blamed>>

AllSealed == \A p \in Peer : sealed[p] # None

Open(p) ==
  /\ Live
  /\ AllSealed
  /\ p \notin opened
  /\ sealed[p] \in Token
  /\ IF opened \cup {p} = Peer
     THEN /\ log' = Append(log, [r \in {"cop", "thief"} |-> sealed[PeerOf[r]]])
          /\ sealed' = NoSeals
          /\ opened' = {}
     ELSE /\ opened' = opened \cup {p}
          /\ UNCHANGED <<sealed, log>>
  /\ UNCHANGED blamed

Owing ==
  IF AllSealed THEN Peer \ opened ELSE {p \in Peer : sealed[p] = None}

Blame ==
  /\ Live
  /\ \E p \in Peer : sealed[p] # None
  /\ blamed' = Owing
  /\ UNCHANGED <<sealed, opened, log>>

Next ==
  \/ \E p \in Peer, value \in Token \cup {Unopenable} : Seal(p, value)
  \/ \E p \in Peer : Open(p)
  \/ Blame

Spec == Init /\ [][Next]_vars
=============================================================================
