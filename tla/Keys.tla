-------------------------------- MODULE Keys --------------------------------
(***************************************************************************)
(* The signing keys of the two peers: a private half of each role, which a *)
(* checkout may lack, and the public halves each peer's workspace holds,   *)
(* under which shipped logs are verified.  Both match scripts call         *)
(* ensure_keys whenever they start.                                        *)
(***************************************************************************)
EXTENDS Naturals

CONSTANT MaxRuns    \* bound: times a match script is started

Role == {"police", "thief"}
Absent == <<>>

\* The n-th pair of a role; the shipped logs were signed under pair 0.
Key(role, n) == <<role, n>>

VARIABLES
  private,     \* <role>/signing_key.pem
  published,   \* <own>/peers/<role>.pub
  shipped,     \* history: roles whose public halves the checkout came with
  withdrawn,   \* history: roles whose public halves the operator deleted
  runs

vars == <<private, published, shipped, withdrawn, runs>>

\* A checkout: a public half is tracked or was never made, a private half is
\* not tracked and is there only where it was made.
Init ==
  /\ shipped \in SUBSET Role
  /\ published = [own \in Role |->
       [p \in Role |-> IF p \in shipped THEN Key(p, 0) ELSE Absent]]
  /\ \E kept \in SUBSET shipped :
       private = [p \in Role |-> IF p \in kept THEN Key(p, 0) ELSE Absent]
  /\ withdrawn = {} /\ runs = 0

Created == {p \in Role : private[p] = Absent}

\* load_signing_key, or a new pair where there is none to load.
Keyed == [p \in Role |-> IF p \in Created THEN Key(p, runs + 1) ELSE private[p]]

\* _publish: a half that differs is replaced, unless its private half is new.
Publish(held, key, protected) ==
  IF held # Absent /\ protected THEN held ELSE key

\* ensure_keys: what is missing is created, then every half is published.
EnsureKeys ==
  /\ runs < MaxRuns
  /\ runs' = runs + 1
  /\ private' = Keyed
  /\ published' = [own \in Role |->
       [p \in Role |-> Publish(published[own][p], Keyed[p], p \in Created)]]
  /\ UNCHANGED <<shipped, withdrawn>>

\* The two ways out _RECOVERY_HINT names: restore a private half, or delete
\* the shipped public ones to publish a fresh set.
Restore(p) ==
  /\ p \in shipped
  /\ private' = [private EXCEPT ![p] = Key(p, 0)]
  /\ UNCHANGED <<published, shipped, withdrawn, runs>>

Withdraw(p) ==
  /\ published' = [own \in Role |-> [published[own] EXCEPT ![p] = Absent]]
  /\ withdrawn' = withdrawn \cup {p}
  /\ UNCHANGED <<private, shipped, runs>>

Next == EnsureKeys \/ \E p \in Role : Restore(p) \/ Withdraw(p)

Spec == Init /\ [][Next]_vars
---------------------------------------------------------------------------

\* keygen.py:10-19: a public half the checkout came with, which the shipped
\* log was signed under, is never overwritten unless the operator deletes it.
ShippedHalvesStand ==
  \A own, p \in Role :
    p \in shipped \ withdrawn => published[own][p] = Key(p, 0)
=============================================================================
