--------------------------- MODULE EvidenceProofs ---------------------------
(***************************************************************************)
(* The evidence of a game.  First the settlement: what a report says is    *)
(* wrong only by what was lost, and what is confirmed has its evidence, for*)
(* every series, every scoring, every number of retries and whatever order *)
(* the files and the mails come in.  Then the logs: what their verifiers       *)
(* accept, for every board, every length of match and every number of      *)
(* edits.  The two components share no state.                              *)
(***************************************************************************)
EXTENDS Settlement, Replay, WellFoundedInduction, TLAPS

Words == {"idle", "failed", "ok", "sending"}

MailRecord ==
  [runs : Nat, mode : Modes, tries : 0 .. MaxRetries + 1,
   landed : 0 .. MaxRetries + 1, lost : 0 .. MaxRetries + 1, draft : BOOLEAN, said : Words]

(* A file that is there has what Reportable and confirm look at.           *)
Filed(r) == {"written", "confirmed", "official"} \subseteq DOMAIN r

(* What is true of one report, whatever its result file says now: what has *)
(* left is what was told and what was lost, a draft and a delivery under   *)
(* way follow from a mode that allows them, and an attempt that may still  *)
(* be made has a try left.                                                 *)
Sound(m) ==
  /\ m \in MailRecord
  /\ m.lost <= m.tries
  /\ m.landed = m.lost + (IF ToldSent(m) THEN 1 ELSE 0)
  /\ m.said = "sending" => m.tries <= MaxRetries /\ ~m.draft /\ m.mode # "draft"
  /\ m.draft => m.said = "ok" /\ m.mode # "send"
  /\ m.mode = "draft" => m.landed = 0

(* A report waits for nothing but a result that is there to stay: while    *)
(* the series is played no report exists.                                  *)
Inv ==
  /\ run \in [Groups -> {"playing", "filed", "broken"}]
  /\ DOMAIN result = Groups
  /\ mail \in [Groups -> MailRecord]
  /\ \A g \in Groups :
       /\ result[g].written => Filed(result[g])
       /\ result[g].written => run[g] # "playing"
       /\ run[g] = "playing" => mail[g] = NoMail
       /\ Sound(mail[g])
       /\ mail[g].landed > 0 \/ mail[g].draft \/ mail[g].said = "sending"
            => Reportable(g)

-----------------------------------------------------------------------------

LEMMA SoundReport ==
  ASSUME NEW m \in MailRecord, Sound(m)
  PROVE  /\ m.landed = m.lost + (IF ToldSent(m) THEN 1 ELSE 0)
         /\ m.draft => m.said = "ok" /\ m.mode # "send"
         /\ m.mode = "draft" => m.landed = 0
         /\ m.landed <= MaxRetries + 1
         /\ ToldSent(m) => m.landed > 0
BY SettlementAssumption DEF Sound, MailRecord

LEMMA NoMailSound == NoMail \in MailRecord /\ Sound(NoMail)
BY SettlementAssumption DEF NoMail, MailRecord, Sound, ToldSent, Modes, Words

LEMMA InitInv == Init => Inv
<1> SUFFICES ASSUME Init PROVE Inv
  OBVIOUS
<1>1. \A g \in Groups : mail[g] = NoMail /\ ~result[g].written /\ run[g] = "playing"
  BY DEF Init, NoResult
<1>2. mail \in [Groups -> MailRecord]
  BY NoMailSound DEF Init
<1>3. run \in [Groups -> {"playing", "filed", "broken"}] /\ DOMAIN result = Groups
  BY DEF Init
<1>4. \A g \in Groups : ~(mail[g].landed > 0 \/ mail[g].draft \/ mail[g].said = "sending")
  BY <1>1 DEF NoMail
<1> QED
  BY <1>1, <1>2, <1>3, <1>4, NoMailSound DEF Inv

(* What send_game_report begins, and what one attempt leaves.              *)
LEMMA BegunSound ==
  ASSUME Inv, NEW g \in Groups, NEW mode \in Modes
  PROVE  /\ Sound(SendGameReport(g, mode))
         /\ LET m == SendGameReport(g, mode)
            IN  m.landed > 0 \/ m.draft \/ m.said = "sending" => Reportable(g)
<1> DEFINE report == [NoMail EXCEPT !.runs = mail[g].runs + 1, !.mode = mode]
           drafted == WriteDraft(report)
           sending == [report EXCEPT !.said = "sending"]
           failed == [report EXCEPT !.said = "failed"]
<1>1. mail[g].runs + 1 \in Nat
  BY DEF Inv, MailRecord
<1>2. /\ NoMail.tries = 0 /\ NoMail.landed = 0 /\ NoMail.lost = 0 /\ ~NoMail.draft
      /\ NoMail.said = "idle"
  BY DEF NoMail
<1>3. /\ report \in MailRecord /\ report.tries = 0 /\ report.landed = 0
      /\ report.lost = 0 /\ ~report.draft /\ report.mode = mode
  BY <1>1, <1>2, NoMailSound DEF MailRecord
<1>4. SendGameReport(g, mode) = IF ~Reportable(g) THEN failed
                                ELSE IF mode = "draft" THEN drafted ELSE sending
  BY DEF SendGameReport
<1> HIDE DEF report
<1>5. Sound(failed) /\ failed.landed = 0 /\ ~failed.draft /\ failed.said = "failed"
  <2>1. /\ failed \in MailRecord /\ failed.tries = 0 /\ failed.landed = 0 /\ failed.lost = 0
        /\ ~failed.draft /\ failed.said = "failed"
    BY <1>3 DEF MailRecord, Words
  <2> QED
    BY <2>1 DEF Sound, ToldSent
<1>6. CASE Reportable(g) /\ mode = "draft"
  <2>1. /\ drafted \in MailRecord /\ drafted.tries = 0 /\ drafted.landed = 0 /\ drafted.lost = 0
        /\ drafted.draft /\ drafted.said = "ok" /\ drafted.mode = mode
    BY <1>3 DEF MailRecord, Words, WriteDraft
  <2> HIDE DEF drafted
  <2>2. Sound(drafted)
    BY <2>1, <1>6 DEF Sound, ToldSent
  <2> QED
    BY <2>2, <1>4, <1>6
<1>7. CASE Reportable(g) /\ mode # "draft"
  <2>1. /\ sending \in MailRecord /\ sending.tries = 0 /\ sending.landed = 0 /\ sending.lost = 0
        /\ ~sending.draft /\ sending.said = "sending" /\ sending.mode = mode
    BY <1>3 DEF MailRecord, Words
  <2> HIDE DEF sending
  <2>2. Sound(sending)
    BY <2>1, <1>7, SettlementAssumption DEF Sound, ToldSent
  <2> QED
    BY <2>2, <1>4, <1>7
<1>8. CASE ~Reportable(g)
  BY <1>4, <1>5, <1>8
<1> QED
  BY <1>6, <1>7, <1>8

(* Giving up after m is sound as soon as m is sound but for its tries.     *)
LEMMA GivesUpSound ==
  ASSUME NEW m \in MailRecord, m.said = "sending", m.lost <= m.tries,
         m.landed = m.lost, ~m.draft, m.mode # "draft"
  PROVE  Sound(GivesUp(m))
<1>1. CASE m.mode = "send"
  <2>1. GivesUp(m) = [m EXCEPT !.said = "failed"]
    BY <1>1 DEF GivesUp
  <2> QED
    BY <1>1, <2>1, SettlementAssumption DEF Sound, ToldSent, MailRecord, Words
<1>2. CASE m.mode # "send"
  <2> DEFINE drafted == WriteDraft(m)
  <2>1. GivesUp(m) = drafted
    BY <1>2 DEF GivesUp
  <2>2. /\ drafted.draft /\ drafted.said = "ok" /\ drafted.mode = m.mode
        /\ drafted.tries = m.tries /\ drafted.landed = m.landed /\ drafted.lost = m.lost
    BY DEF MailRecord, WriteDraft
  <2>3. drafted \in MailRecord
    BY DEF MailRecord, WriteDraft, Words
  <2> HIDE DEF drafted
  <2>4. m.tries \in Nat /\ m.landed \in Nat /\ m.lost \in Nat
    BY SettlementAssumption DEF MailRecord
  <2> QED
    BY <1>2, <2>1, <2>2, <2>3, <2>4 DEF Sound, ToldSent
<1> QED
  BY <1>1, <1>2

(* One attempt of gmail_send leaves a sound report.                        *)
LEMMA SendSound ==
  ASSUME Inv, NEW g \in Groups, Send(g)
  PROVE  /\ \E m \in MailRecord : Sound(m) /\ mail' = [mail EXCEPT ![g] = m]
         /\ Reportable(g)
<1> DEFINE m == mail[g]
<1>1. m \in MailRecord /\ Sound(m) /\ m.said = "sending" /\ Reportable(g)
  BY DEF Inv, Send
<1> HIDE DEF m
<1>2. /\ m.tries <= MaxRetries /\ m.lost <= m.tries /\ m.landed = m.lost /\ ~m.draft
      /\ m.mode # "draft" /\ m.tries \in Nat /\ m.lost \in Nat
  BY <1>1, SettlementAssumption DEF Sound, ToldSent, MailRecord
<1>3. CASE mail' = [mail EXCEPT ![g].landed = @ + 1, ![g].said = "ok"]
  <2> DEFINE sent == [m EXCEPT !.landed = @ + 1, !.said = "ok"]
  <2>1. mail' = [mail EXCEPT ![g] = sent]
    BY <1>3 DEF Inv, m
  <2>2. /\ sent.landed = m.landed + 1 /\ sent.said = "ok" /\ sent.mode = m.mode
        /\ sent.tries = m.tries /\ sent.draft = m.draft /\ sent.lost = m.lost
    BY <1>1 DEF MailRecord
  <2>3. m.landed + 1 \in 0 .. MaxRetries + 1
    BY <1>2, SettlementAssumption
  <2>4. sent \in MailRecord
    BY <1>1, <2>3 DEF MailRecord, Words
  <2> HIDE DEF sent
  <2>5. Sound(sent)
    BY <1>2, <2>2, <2>4 DEF Sound, ToldSent
  <2> QED
    BY <2>1, <2>4, <2>5, <1>1
<1>4. CASE mail' = [mail EXCEPT ![g] = GivesUp(m)]
  <2>1. Sound(GivesUp(m))
    BY <1>1, <1>2, GivesUpSound
  <2> QED
    BY <2>1, <1>1, <1>4 DEF Sound
<1>5. ASSUME NEW accepted \in {0, 1},
             mail' = [mail EXCEPT ![g] =
                        IF m.tries = MaxRetries
                        THEN GivesUp([m EXCEPT !.landed = @ + accepted,
                                               !.lost = @ + accepted, !.tries = @ + 1])
                        ELSE [m EXCEPT !.landed = @ + accepted,
                                       !.lost = @ + accepted, !.tries = @ + 1]]
      PROVE  \E n \in MailRecord : Sound(n) /\ mail' = [mail EXCEPT ![g] = n]
  <2> DEFINE later == [m EXCEPT !.landed = @ + accepted, !.lost = @ + accepted,
                                !.tries = @ + 1]
  <2>1. /\ later.landed = m.landed + accepted /\ later.lost = m.lost + accepted
        /\ later.tries = m.tries + 1
        /\ later.said = m.said /\ later.mode = m.mode /\ later.draft = m.draft
    BY <1>1 DEF MailRecord
  <2>2. m.landed + accepted \in 0 .. MaxRetries + 1 /\ m.lost + accepted \in 0 .. MaxRetries + 1
        /\ m.tries + 1 \in 0 .. MaxRetries + 1
    BY <1>2, <1>5, SettlementAssumption
  <2>3. later \in MailRecord
    BY <1>1, <2>2 DEF MailRecord
  <2>4. /\ later \in MailRecord /\ later.said = "sending" /\ later.lost <= later.tries
        /\ later.landed = later.lost /\ ~later.draft /\ later.mode # "draft"
    <3> HIDE DEF later
    <3> QED
      BY <1>1, <1>2, <1>5, <2>1, <2>3
  <2>5. CASE m.tries = MaxRetries
    <3>1. Sound(GivesUp(later))
      <4> HIDE DEF later
      <4> QED
        BY <2>4, GivesUpSound
    <3> QED
      BY <3>1, <2>5, <1>5 DEF Sound
  <2>6. CASE m.tries # MaxRetries
    <3>1. later.tries <= MaxRetries
      <4> HIDE DEF later
      <4>1. later.tries = m.tries + 1
        BY <2>1
      <4>2. MaxRetries \in Nat
        BY SettlementAssumption
      <4> QED
        BY <4>1, <4>2, <2>6, <1>2
    <3>2. Sound(later)
      <4> HIDE DEF later
      <4>1. ~ToldSent(later) /\ later.lost \in Nat
        BY <2>4, SettlementAssumption DEF ToldSent, MailRecord
      <4>2. later.landed = later.lost + 0
        BY <2>4, <4>1
      <4>3. later.mode = "draft" => later.landed = 0
        BY <2>4
      <4> QED
        BY <3>1, <2>4, <4>1, <4>2, <4>3 DEF Sound
    <3> QED
      BY <3>2, <2>4, <2>6, <1>5
  <2> QED
    BY <2>5, <2>6
<1> QED
  BY <1>1, <1>3, <1>4, <1>5 DEF Send, m

-----------------------------------------------------------------------------

(* A step that leaves the mail alone keeps what was reportable reportable. *)
LEMMA FilesStep ==
  ASSUME Inv, NEW g \in Groups, Close(g) \/ Break(g) \/ WriteSeries(g) \/ Settle(g)
  PROVE  Inv'
<1>1. mail' = mail
  BY DEF Close, Break, WriteSeries, Settle
<1>2. CASE Close(g)
  <2>1. run' = run /\ result' = result
    BY <1>2 DEF Close
  <2> QED
    BY <1>1, <2>1 DEF Inv, Reportable
<1>3. CASE Break(g)
  <2>1. run' = [run EXCEPT ![g] = "broken"] /\ result' = result
    BY <1>3 DEF Break
  <2>2. run' \in [Groups -> {"playing", "filed", "broken"}]
    BY <2>1 DEF Inv
  <2>3. \A h \in Groups : run'[h] = "playing" => run[h] = "playing"
    BY <2>1 DEF Inv
  <2> QED
    BY <1>1, <2>1, <2>2, <2>3 DEF Inv, Reportable
<1>4. CASE WriteSeries(g)
  <2>1. /\ run[g] = "playing" /\ run' = [run EXCEPT ![g] = "filed"]
        /\ result' = [result EXCEPT ![g] = BuildResult(g)]
    BY <1>4 DEF WriteSeries
  <2>2. /\ run' \in [Groups -> {"playing", "filed", "broken"}]
        /\ run'[g] = "filed" /\ \A h \in Groups \ {g} : run'[h] = run[h]
    BY <2>1 DEF Inv
  <2>3. DOMAIN result' = Groups
    BY <2>1 DEF Inv
  <2>4. result'[g] = BuildResult(g) /\ \A h \in Groups \ {g} : result'[h] = result[h]
    BY <2>1 DEF Inv
  <2>5. BuildResult(g).written /\ Filed(BuildResult(g))
    BY DEF BuildResult, Filed
  <2>6. ~(mail[g].landed > 0 \/ mail[g].draft \/ mail[g].said = "sending")
    BY <2>1 DEF Inv, NoMail
  <2>7. ASSUME NEW h \in Groups
        PROVE  /\ result'[h].written => Filed(result'[h]) /\ run'[h] # "playing"
               /\ run'[h] = "playing" => mail[h] = NoMail
               /\ mail[h].landed > 0 \/ mail[h].draft \/ mail[h].said = "sending"
                    => Reportable(h)'
    <3>1. CASE h = g
      BY <3>1, <2>2, <2>4, <2>5, <2>6
    <3>2. CASE h # g
      BY <3>2, <2>2, <2>4 DEF Inv, Reportable
    <3> QED
      BY <3>1, <3>2
  <2> QED
    BY <1>1, <2>2, <2>3, <2>7 DEF Inv
<1>5. CASE Settle(g)
  <2>1. /\ run' = run /\ result[g].written
        /\ result' = [result EXCEPT ![g] = Confirm(result[g])]
    BY <1>5 DEF Settle
  <2>2. Filed(result[g])
    BY <2>1 DEF Inv
  <2>3. /\ DOMAIN result' = Groups /\ result'[g] = Confirm(result[g])
        /\ \A h \in Groups \ {g} : result'[h] = result[h]
    BY <2>1 DEF Inv
  <2>4. /\ Confirm(result[g]).written /\ Confirm(result[g]).confirmed
        /\ Filed(Confirm(result[g]))
    BY <2>1, <2>2 DEF Confirm, Filed
  <2>5. ASSUME NEW h \in Groups
        PROVE  /\ result'[h].written => Filed(result'[h]) /\ run[h] # "playing"
               /\ mail[h].landed > 0 \/ mail[h].draft \/ mail[h].said = "sending"
                    => Reportable(h)'
    <3>1. CASE h = g
      BY <3>1, <2>1, <2>3, <2>4 DEF Inv, Reportable
    <3>2. CASE h # g
      BY <3>2, <2>3 DEF Inv, Reportable
    <3> QED
      BY <3>1, <3>2
  <2> QED
    BY <1>1, <2>1, <2>3, <2>5 DEF Inv
<1> QED
  BY <1>2, <1>3, <1>4, <1>5

(* A step of the mail finds the files at rest.                             *)
LEMMA MailStep ==
  ASSUME Inv, NEW g \in Groups, Report(g) \/ Send(g)
  PROVE  Inv'
<1>1. run' = run /\ result' = result /\ run[g] # "playing"
  <2>1. CASE Report(g)
    BY <2>1 DEF Report
  <2>2. CASE Send(g)
    BY <2>2 DEF Send, Inv, NoMail
  <2> QED
    BY <2>1, <2>2
<1>2. PICK m \in MailRecord :
        /\ Sound(m) /\ mail' = [mail EXCEPT ![g] = m]
        /\ m.landed > 0 \/ m.draft \/ m.said = "sending" => Reportable(g)
  <2>1. CASE Report(g)
    <3>1. PICK mode \in Modes : mail' = [mail EXCEPT ![g] = SendGameReport(g, mode)]
      BY <2>1 DEF Report
    <3> QED
      BY <3>1, BegunSound DEF Sound
  <2>2. CASE Send(g)
    BY <2>2, SendSound
  <2> QED
    BY <2>1, <2>2
<1>3. /\ mail' \in [Groups -> MailRecord] /\ mail'[g] = m
      /\ \A h \in Groups \ {g} : mail'[h] = mail[h]
  BY <1>2 DEF Inv
<1>4. ASSUME NEW h \in Groups
      PROVE  /\ run[h] = "playing" => mail'[h] = NoMail
             /\ Sound(mail'[h])
             /\ mail'[h].landed > 0 \/ mail'[h].draft \/ mail'[h].said = "sending"
                  => Reportable(h)
  <2>1. CASE h = g
    BY <2>1, <1>1, <1>2, <1>3
  <2>2. CASE h # g
    BY <2>2, <1>3 DEF Inv
  <2> QED
    BY <2>1, <2>2
<1> QED
  BY <1>1, <1>3, <1>4 DEF Inv, Reportable

LEMMA NextInv == Inv /\ [Next]_vars => Inv'
<1> SUFFICES ASSUME Inv, [Next]_vars PROVE Inv'
  OBVIOUS
<1>1. CASE Play \/ UNCHANGED vars
  <2>1. run' = run /\ result' = result /\ mail' = mail
    BY <1>1 DEF Play, vars
  <2> QED
    BY <2>1 DEF Inv, Reportable
<1>2. CASE \E g \in Groups : Close(g) \/ Break(g) \/ WriteSeries(g) \/ Settle(g)
  BY <1>2, FilesStep
<1>3. CASE \E g \in Groups : Report(g) \/ Send(g)
  BY <1>3, MailStep
<1> QED
  BY <1>1, <1>2, <1>3 DEF Next

LEMMA InvMisled == Inv => OnlyLossMisleads
<1> SUFFICES ASSUME Inv, NEW g \in Groups
             PROVE  LET m == mail[g] IN
                      /\ (m.landed > 0 \/ m.draft \/ ToldSent(m)) => Reportable(g)
                      /\ m.landed = m.lost + (IF ToldSent(m) THEN 1 ELSE 0)
                      /\ m.draft => m.said = "ok" /\ m.mode # "send"
                      /\ m.mode = "draft" => m.landed = 0
                      /\ m.landed <= MaxRetries + 1
  BY DEF OnlyLossMisleads
<1>1. mail[g] \in MailRecord /\ Sound(mail[g])
  BY DEF Inv
<1>2. mail[g].landed > 0 \/ mail[g].draft => Reportable(g)
  BY DEF Inv
<1> QED
  BY <1>1, <1>2, SoundReport

-----------------------------------------------------------------------------
(* Confirmation.  Both groups' files tell the same complete play, each from *)
(* its own side; nothing is played or filed again once one of them stands.  *)

Summary == [number : Nat, side : Sides, reason : Reasons, reply : Receipts]

(* A list of summaries tells the play as g saw it.                         *)
Tells(g, list) ==
  /\ list \in Seq(Summary) /\ Len(list) <= Len(played)
  /\ \A i \in 1 .. Len(list) :
       /\ list[i].number = i /\ list[i].side = SideIn(g, i)
       /\ list[i].reason = played[i][SideIn(g, i)]

Games(g) ==
  [i \in 1 .. asked |-> [number |-> i, side |-> SideIn(g, i),
                        reason |-> played[i][SideIn(g, i)]]]

AllAccepted(g) == \A n \in 1 .. asked : logs[g][n].reply.accepted

Settled(g) ==
  /\ asked = SubGames /\ result[Rival(g)].written /\ Story(g) = Story(Rival(g))
  /\ \A n \in 1 .. asked : logs[g][n].reply.records = "whole"

(* A result that is there is of a complete play, and confirmed on evidence.*)
Evident(g) ==
  /\ Len(played) = asked /\ Len(logs[g]) = asked /\ run[g] = "filed"
  /\ {"written", "games", "confirmed", "consensus", "official"} \subseteq DOMAIN result[g]
  /\ result[g].games = Games(g) /\ result[g].consensus = BuildConsensus(g, Games(g))
  /\ result[g].confirmed /\ ~result[g].official => AllAccepted(g)
  /\ result[g].official => Settled(g)

EvidenceInv ==
  /\ asked \in 1 .. SubGames /\ played \in Seq(Endings) /\ Len(played) <= asked
  /\ DOMAIN run = Groups /\ DOMAIN result = Groups
  /\ DOMAIN closed = Groups /\ DOMAIN logs = Groups
  /\ \A g \in Groups :
       /\ Tells(g, closed[g]) /\ Tells(g, logs[g])
       /\ run[g] = "playing" => logs[g] = closed[g]
       /\ result[g].written => Evident(g)

(* Everybody plays a side and has a rival.                                 *)
LEMMA SidesAndRivals ==
  /\ \A g \in Groups, n \in Nat : SideIn(g, n) \in Sides
  /\ \A g \in Groups : Rival(g) \in Groups /\ Rival(g) # g
<1>1. \A g \in Groups : \E x \in Groups : x # g
  BY DEF Groups
<1> QED
  BY <1>1 DEF SideIn, Sides, Rival

LEMMA EndingReasons == \A e \in Endings, s \in Sides : e[s] \in Reasons
BY DEF Endings, Sides, Reasons

LEMMA InitEvidence == Init => EvidenceInv
<1> SUFFICES ASSUME Init PROVE EvidenceInv
  OBVIOUS
<1>1. /\ asked \in 1 .. SubGames /\ played = <<>>
      /\ \A g \in Groups : closed[g] = <<>> /\ logs[g] = <<>> /\ ~result[g].written
      /\ DOMAIN run = Groups /\ DOMAIN result = Groups
      /\ DOMAIN closed = Groups /\ DOMAIN logs = Groups
  BY DEF Init, NoResult
<1>2. played \in Seq(Endings) /\ Len(played) = 0
  BY <1>1
<1>3. \A g \in Groups : Tells(g, <<>>)
  BY <1>2 DEF Tells
<1>4. \A g \in Groups : Tells(g, closed[g]) /\ Tells(g, logs[g]) /\ logs[g] = closed[g]
  BY <1>1, <1>3
<1>5. Len(played) <= asked
  BY <1>1, <1>2, SettlementAssumption
<1> QED
  BY <1>1, <1>2, <1>4, <1>5 DEF EvidenceInv

(* Nothing is told differently by a step that does not play.               *)
LEMMA SamePlay ==
  ASSUME EvidenceInv, asked' = asked, played' = played, NEW g \in Groups,
         logs'[g] = logs[g], result'[g] = result[g], run'[g] = run[g],
         result[g].written => result'[Rival(g)].written = result[Rival(g)].written,
         result[g].written
  PROVE  Evident(g)'
<1>1. Evident(g)
  BY DEF EvidenceInv
<1>2. Games(g)' = Games(g) /\ BuildConsensus(g, Games(g))' = BuildConsensus(g, Games(g))
  BY DEF Games, BuildConsensus
<1>3. Settled(g) => Settled(g)'
  BY DEF Settled, Story
<1>4. AllAccepted(g)' = AllAccepted(g)
  BY DEF AllAccepted
<1> QED
  BY <1>1, <1>2, <1>3, <1>4 DEF Evident

(* What has been told stays true as the play goes on.                      *)
LEMMA PlayEvidence ==
  ASSUME EvidenceInv, Play PROVE EvidenceInv'
<1>1. PICK e \in Endings : played' = Append(played, e)
  BY DEF Play
<1>2. /\ Len(played) < asked /\ \A g \in Groups : run[g] = "playing"
      /\ asked' = asked /\ run' = run /\ closed' = closed /\ logs' = logs
      /\ result' = result
  BY DEF Play
<1>3. /\ played \in Seq(Endings) /\ Len(played) \in Nat
      /\ played' \in Seq(Endings) /\ Len(played') = Len(played) + 1
      /\ \A i \in 1 .. Len(played) : played'[i] = played[i]
  BY <1>1 DEF EvidenceInv
<1>4. ASSUME NEW g \in Groups, NEW list, Tells(g, list)
      PROVE  Tells(g, list)'
  <2>1. /\ list \in Seq(Summary) /\ Len(list) <= Len(played)
        /\ \A i \in 1 .. Len(list) :
             /\ list[i].number = i /\ list[i].side = SideIn(g, i)
             /\ list[i].reason = played[i][SideIn(g, i)]
    BY <1>4 DEF Tells
  <2>2. Len(list) \in Nat
    BY <2>1
  <2>3. \A i \in 1 .. Len(list) : played'[i] = played[i]
    BY <1>3, <2>1, <2>2
  <2>4. Len(list) <= Len(played')
    BY <1>3, <2>1, <2>2
  <2> QED
    BY <2>1, <2>3, <2>4 DEF Tells
<1>5. \A g \in Groups : ~result[g].written
  BY <1>2 DEF EvidenceInv, Evident
<1>6. asked \in Nat /\ Len(played') <= asked'
  BY <1>2, <1>3, SettlementAssumption DEF EvidenceInv
<1>7. \A g \in Groups : Tells(g, closed[g])' /\ Tells(g, logs[g])'
  BY <1>2, <1>4 DEF EvidenceInv, Tells
<1> QED
  BY <1>2, <1>3, <1>5, <1>6, <1>7 DEF EvidenceInv

(* A summary that closes a sub-game is the next one of the story.          *)
LEMMA NextSummary ==
  ASSUME EvidenceInv, NEW g \in Groups, NEW list, Tells(g, list), Len(list) < Len(played),
         NEW r \in Receipts
  PROVE  LET n == Len(list) + 1
         IN  Tells(g, Append(list, [number |-> n, side |-> SideIn(g, n),
                                    reason |-> played[n][SideIn(g, n)], reply |-> r]))
<1> DEFINE n == Len(list) + 1
           last == [number |-> n, side |-> SideIn(g, n),
                    reason |-> played[n][SideIn(g, n)], reply |-> r]
           longer == Append(list, last)
<1>1. /\ list \in Seq(Summary) /\ Len(list) \in Nat /\ Len(played) \in Nat
      /\ played \in Seq(Endings)
  BY DEF Tells, EvidenceInv
<1>2. n \in 1 .. Len(played) /\ n \in Nat
  BY <1>1
<1>3. SideIn(g, n) \in Sides /\ played[n] \in Endings
  BY <1>1, <1>2, SidesAndRivals
<1>4. last \in Summary
  BY <1>2, <1>3, EndingReasons DEF Summary
<1>5. last.number = n /\ last.side = SideIn(g, n) /\ last.reason = played[n][SideIn(g, n)]
  OBVIOUS
<1> HIDE DEF last
<1>6. /\ longer \in Seq(Summary) /\ Len(longer) = n /\ longer[n] = last
      /\ \A i \in 1 .. Len(list) : longer[i] = list[i]
  BY <1>1, <1>4
<1> HIDE DEF longer
<1>7. \A i \in 1 .. n : i = n \/ i \in 1 .. Len(list)
  BY <1>1
<1>8. \A i \in 1 .. n : /\ longer[i].number = i /\ longer[i].side = SideIn(g, i)
                       /\ longer[i].reason = played[i][SideIn(g, i)]
  BY <1>5, <1>6, <1>7 DEF Tells
<1>9. Tells(g, longer)
  BY <1>2, <1>6, <1>8 DEF Tells
<1> QED
  BY <1>9 DEF longer, last

LEMMA CloseEvidence ==
  ASSUME EvidenceInv, NEW g \in Groups, Close(g) PROVE EvidenceInv'
<1> DEFINE n == Len(closed[g]) + 1
           told(r) == [number |-> n, side |-> SideIn(g, n),
                       reason |-> played[n][SideIn(g, n)], reply |-> r]
<1>1. PICK r \in Receipts :
        /\ closed' = [closed EXCEPT ![g] = Append(closed[g], told(r))]
        /\ logs' = [logs EXCEPT ![g] = Append(logs[g], told(r))]
  BY DEF Close
<1>2. /\ run[g] = "playing" /\ Len(closed[g]) < Len(played) /\ asked' = asked
      /\ played' = played /\ run' = run /\ result' = result
  BY DEF Close
<1>3. logs[g] = closed[g] /\ Tells(g, closed[g]) /\ ~result[g].written
  BY <1>2 DEF EvidenceInv, Evident
<1>4. Tells(g, Append(closed[g], told(r)))
  BY <1>2, <1>3, NextSummary
<1> HIDE DEF told
<1>5. /\ DOMAIN closed' = Groups /\ DOMAIN logs' = Groups
      /\ closed'[g] = Append(closed[g], told(r)) /\ logs'[g] = closed'[g]
      /\ \A h \in Groups \ {g} : closed'[h] = closed[h] /\ logs'[h] = logs[h]
  BY <1>1, <1>3 DEF EvidenceInv
<1>6. ASSUME NEW h \in Groups
      PROVE  /\ Tells(h, closed'[h]) /\ Tells(h, logs'[h])
             /\ run[h] = "playing" => logs'[h] = closed'[h]
             /\ result[h].written => Evident(h)'
  <2>1. CASE h = g
    BY <2>1, <1>3, <1>4, <1>5
  <2>2. CASE h # g
    <3>1. result[h].written => Evident(h)'
      BY <2>2, <1>2, <1>5, SamePlay
    <3> QED
      BY <3>1, <2>2, <1>5 DEF EvidenceInv
  <2> QED
    BY <2>1, <2>2
<1>7. \A h \in Groups : Tells(h, closed[h])' /\ Tells(h, logs[h])'
  BY <1>2, <1>6 DEF Tells
<1> QED
  BY <1>2, <1>5, <1>6, <1>7 DEF EvidenceInv

(* What a broken run leaves is its logs.                                   *)
LEMMA BreakEvidence ==
  ASSUME EvidenceInv, NEW g \in Groups, Break(g) PROVE EvidenceInv'
<1>1. /\ run[g] = "playing" /\ run' = [run EXCEPT ![g] = "broken"]
      /\ closed' = [closed EXCEPT ![g] = <<>>]
      /\ asked' = asked /\ played' = played /\ logs' = logs /\ result' = result
  BY DEF Break
<1>2. ~result[g].written
  BY <1>1 DEF EvidenceInv, Evident
<1>3. /\ DOMAIN run' = Groups /\ DOMAIN closed' = Groups /\ closed'[g] = <<>>
      /\ run'[g] # "playing"
      /\ \A h \in Groups \ {g} : closed'[h] = closed[h] /\ run'[h] = run[h]
  BY <1>1 DEF EvidenceInv
<1>4. Tells(g, <<>>)
  <2>1. Len(played) \in Nat
    BY DEF EvidenceInv
  <2> QED
    BY <2>1 DEF Tells
<1>5. ASSUME NEW h \in Groups
      PROVE  /\ Tells(h, closed'[h]) /\ Tells(h, logs'[h])
             /\ run'[h] = "playing" => logs'[h] = closed'[h]
             /\ result[h].written => Evident(h)'
  <2>1. CASE h = g
    BY <2>1, <1>1, <1>2, <1>3, <1>4 DEF EvidenceInv
  <2>2. CASE h # g
    <3>1. result[h].written => Evident(h)'
      BY <2>2, <1>1, <1>3, SamePlay
    <3> QED
      BY <3>1, <2>2, <1>1, <1>3 DEF EvidenceInv
  <2> QED
    BY <2>1, <2>2
<1>6. \A h \in Groups : Tells(h, closed[h])' /\ Tells(h, logs[h])'
  BY <1>1, <1>5 DEF Tells
<1> QED
  BY <1>1, <1>3, <1>5, <1>6 DEF EvidenceInv

(* A result is filed of a complete play, with what its summaries say.      *)
LEMMA WriteEvidence ==
  ASSUME EvidenceInv, NEW g \in Groups, WriteSeries(g) PROVE EvidenceInv'
<1>1. /\ run[g] = "playing" /\ Len(closed[g]) = asked
      /\ run' = [run EXCEPT ![g] = "filed"] /\ logs' = [logs EXCEPT ![g] = closed[g]]
      /\ result' = [result EXCEPT ![g] = BuildResult(g)]
      /\ asked' = asked /\ played' = played /\ closed' = closed
  BY DEF WriteSeries
<1>2. Tells(g, closed[g]) /\ asked \in Nat /\ Len(played) \in Nat
  BY SettlementAssumption DEF EvidenceInv
<1>3. Len(played) = asked
  BY <1>1, <1>2 DEF EvidenceInv, Tells
<1>4. /\ DOMAIN run' = Groups /\ DOMAIN logs' = Groups /\ DOMAIN result' = Groups
      /\ run'[g] = "filed" /\ logs'[g] = closed[g] /\ result'[g] = BuildResult(g)
      /\ \A h \in Groups \ {g} : /\ run'[h] = run[h] /\ logs'[h] = logs[h]
                                /\ result'[h] = result[h]
  BY <1>1 DEF EvidenceInv
<1>5. /\ BuildResult(g).written /\ ~BuildResult(g).official
      /\ {"written", "games", "confirmed", "consensus", "official"} \subseteq DOMAIN BuildResult(g)
      /\ BuildResult(g).confirmed = LiveAgreement(closed[g])
      /\ BuildResult(g).consensus = BuildConsensus(g, BuildResult(g).games)
      /\ BuildResult(g).games =
           [i \in DOMAIN closed[g] |-> [number |-> closed[g][i].number, side |-> closed[g][i].side,
                                       reason |-> closed[g][i].reason]]
  BY DEF BuildResult
<1>6. DOMAIN closed[g] = 1 .. asked
  BY <1>1, <1>2 DEF Tells
<1>7. BuildResult(g).games = Games(g)
  BY <1>1, <1>2, <1>5, <1>6 DEF Games, Tells
<1>8. BuildResult(g).confirmed => \A n \in 1 .. asked : closed[g][n].reply.accepted
  BY <1>5, <1>6 DEF LiveAgreement
<1>9. Evident(g)'
  <2>1. Games(g)' = Games(g) /\ BuildConsensus(g, Games(g))' = BuildConsensus(g, Games(g))
    BY <1>1 DEF Games, BuildConsensus
  <2>2. result'[g].confirmed => AllAccepted(g)'
    BY <1>1, <1>4, <1>8 DEF AllAccepted
  <2> QED
    BY <1>1, <1>3, <1>4, <1>5, <1>7, <2>1, <2>2 DEF Evident
<1>10. ASSUME NEW h \in Groups
       PROVE  /\ Tells(h, closed'[h]) /\ Tells(h, logs'[h])
              /\ run'[h] = "playing" => logs'[h] = closed'[h]
              /\ result'[h].written => Evident(h)'
  <2>1. CASE h = g
    BY <2>1, <1>1, <1>2, <1>4, <1>9
  <2>2. CASE h # g
    <3>1. result[h].written => result'[Rival(h)].written \/ ~result[Rival(h)].written
      BY <2>2, <1>4, <1>5, SidesAndRivals
    <3>2. ASSUME result[h].written PROVE Evident(h)'
      <4>1. Evident(h)
        BY <3>2 DEF EvidenceInv
      <4>2. Settled(h) => Settled(h)'
        BY <2>2, <1>1, <1>4, <3>1, <3>2 DEF Settled, Story
      <4>3. Games(h)' = Games(h) /\ BuildConsensus(h, Games(h))' = BuildConsensus(h, Games(h))
        BY <1>1 DEF Games, BuildConsensus
      <4>4. AllAccepted(h)' = AllAccepted(h)
        BY <2>2, <1>1, <1>4 DEF AllAccepted
      <4> QED
        BY <2>2, <1>1, <1>4, <4>1, <4>2, <4>3, <4>4 DEF Evident
    <3> QED
      BY <3>2, <2>2, <1>1, <1>4 DEF EvidenceInv
  <2> QED
    BY <2>1, <2>2
<1>11. \A h \in Groups : Tells(h, closed[h])' /\ Tells(h, logs[h])'
  BY <1>1, <1>10 DEF Tells
<1> QED
  BY <1>1, <1>4, <1>10, <1>11 DEF EvidenceInv

(* Two league scopes that agree tell one story.                            *)
LEMMA OneScopeOneStory ==
  ASSUME EvidenceInv, NEW g \in Groups, result[g].written, result[Rival(g)].written,
         OfficialScope(g) = OfficialScope(Rival(g))
  PROVE  Story(g) = Story(Rival(g))
<1>1. ASSUME NEW h \in Groups, result[h].written
      PROVE  \A i \in 1 .. asked : OfficialScope(h).rows[i].result = played[i][SideIn(h, i)]
  <2>1. result[h].games = Games(h)
    BY <1>1 DEF EvidenceInv, Evident
  <2>2. DOMAIN Games(h) = 1 .. asked
    BY DEF Games
  <2>3. \A i \in 1 .. asked : Games(h)[i].reason = played[i][SideIn(h, i)]
    BY DEF Games
  <2>4. \A i \in DOMAIN result[h].games :
          OfficialScope(h).rows[i].result = result[h].games[i].reason
    BY DEF OfficialScope
  <2> QED
    BY <2>1, <2>2, <2>3, <2>4
<1>2. Rival(g) \in Groups
  BY SidesAndRivals
<1>3. \A i \in 1 .. asked : played[i][SideIn(g, i)] = played[i][SideIn(Rival(g), i)]
  BY <1>1, <1>2
<1> QED
  BY <1>3 DEF Story

(* A settlement puts on the file what it has just verified.                *)
LEMMA SettleEvidence ==
  ASSUME EvidenceInv, NEW g \in Groups, Settle(g) PROVE EvidenceInv'
<1>1. /\ result[g].written /\ result[Rival(g)].written /\ Verify(g)
      /\ result' = [result EXCEPT ![g] = Confirm(result[g])]
      /\ asked' = asked /\ played' = played /\ run' = run
      /\ closed' = closed /\ logs' = logs
  BY DEF Settle
<1>2. /\ DOMAIN result' = Groups /\ result'[g] = Confirm(result[g])
      /\ \A h \in Groups \ {g} : result'[h] = result[h]
  BY <1>1 DEF EvidenceInv
<1>3. Evident(g)
  BY <1>1 DEF EvidenceInv
<1>4. /\ DOMAIN Confirm(result[g]) = DOMAIN result[g]
      /\ Confirm(result[g]).official
      /\ Confirm(result[g]).written = result[g].written
      /\ Confirm(result[g]).games = result[g].games
      /\ Confirm(result[g]).consensus = result[g].consensus
  BY <1>3 DEF Evident, Confirm
<1>5. Settled(g)
  <2>1. asked = SubGames /\ DOMAIN logs[g] = 1 .. asked
    BY <1>1, <1>3 DEF Verify, Evident, EvidenceInv, Tells
  <2>2. \A n \in 1 .. asked : logs[g][n].reply.records = "whole"
    BY <1>1, <2>1 DEF Verify, RecordsVerify
  <2>3. Story(g) = Story(Rival(g))
    BY <1>1, OneScopeOneStory DEF Verify, Digest
  <2> QED
    BY <1>1, <2>1, <2>2, <2>3 DEF Settled
<1>6. \A h \in Groups : result'[h].written = result[h].written
  BY <1>2, <1>4
<1>7. \A h \in Groups : /\ Games(h)' = Games(h)
                         /\ BuildConsensus(h, Games(h))' = BuildConsensus(h, Games(h))
  BY <1>1 DEF Games, BuildConsensus
<1>8. \A h \in Groups : (Settled(h) => Settled(h)') /\ AllAccepted(h)' = AllAccepted(h)
  BY <1>1, <1>6, SidesAndRivals DEF Settled, Story, AllAccepted
<1>9. ASSUME NEW h \in Groups, result'[h].written PROVE Evident(h)'
  <2>1. Evident(h)
    BY <1>6, <1>9 DEF EvidenceInv
  <2>2. CASE h = g
    BY <2>1, <2>2, <1>1, <1>2, <1>4, <1>5, <1>7, <1>8 DEF Evident
  <2>3. CASE h # g
    BY <2>1, <2>3, <1>1, <1>2, <1>7, <1>8 DEF Evident
  <2> QED
    BY <2>2, <2>3
<1>10. \A h \in Groups : Tells(h, closed[h])' /\ Tells(h, logs[h])'
  BY <1>1 DEF EvidenceInv, Tells
<1> QED
  BY <1>1, <1>2, <1>9, <1>10 DEF EvidenceInv

LEMMA NextEvidence == EvidenceInv /\ [Next]_vars => EvidenceInv'
<1> SUFFICES ASSUME EvidenceInv, [Next]_vars PROVE EvidenceInv'
  OBVIOUS
<1>1. CASE Play
  BY <1>1, PlayEvidence
<1>2. CASE \E g \in Groups : Close(g) \/ Break(g)
  BY <1>2, CloseEvidence, BreakEvidence
<1>3. CASE \E g \in Groups : WriteSeries(g) \/ Settle(g)
  BY <1>3, WriteEvidence, SettleEvidence
<1>4. CASE (\E g \in Groups : Report(g) \/ Send(g)) \/ UNCHANGED vars
  <2>1. /\ asked' = asked /\ played' = played /\ run' = run
        /\ closed' = closed /\ logs' = logs /\ result' = result
    BY <1>4 DEF Report, Send, vars
  <2>2. \A g \in Groups : Tells(g, closed[g])' /\ Tells(g, logs[g])'
    BY <2>1 DEF EvidenceInv, Tells
  <2>3. \A g \in Groups : result[g].written => Evident(g)'
    BY <2>1, SamePlay
  <2> QED
    BY <2>1, <2>2, <2>3 DEF EvidenceInv
<1> QED
  BY <1>1, <1>2, <1>3, <1>4 DEF Next

(* The league's table sets each row beside the log of its own number.      *)
LEMMA TableAudits ==
  ASSUME EvidenceInv, NEW g \in Groups, result[g].written, NEW n \in 1 .. asked
  PROVE  LeagueResult(g).rows[n].audit.logVerified = logs[g][n].reply.accepted
<1> DEFINE sealed == result[g].consensus
<1>1. sealed = BuildConsensus(g, Games(g))
  BY DEF EvidenceInv, Evident
<1>2. DOMAIN Games(g) = 1 .. asked /\ Games(g)[n].number = n
  BY DEF Games
<1>3. DOMAIN sealed.rows = 1 .. asked /\ sealed.rows[n].number = n
  BY <1>1, <1>2 DEF BuildConsensus
<1>4. LeagueResult(g).rows[n] = SubGame(g, sealed.rows[n])
  BY <1>3 DEF LeagueResult
<1>5. SubGame(g, sealed.rows[n]).audit = Audit(logs[g][sealed.rows[n].number])
  BY DEF SubGame
<1>6. Audit(logs[g][n]).logVerified = logs[g][n].reply.accepted
  BY DEF Audit
<1> QED
  BY <1>3, <1>4, <1>5, <1>6

LEMMA EvidenceConfirms == EvidenceInv => ConfirmedOnEvidence
<1> SUFFICES ASSUME EvidenceInv, NEW g \in Groups, result[g].written, result[g].confirmed
             PROVE  /\ Len(logs[g]) = asked
                    /\ ~result[g].official =>
                         \A n \in 1 .. asked : LeagueResult(g).rows[n].audit.logVerified
                    /\ AllAccepted(g) \/ Settled(g)
  BY DEF ConfirmedOnEvidence, AllAccepted, Settled
<1>1. Evident(g)
  BY DEF EvidenceInv
<1>2. ~result[g].official => AllAccepted(g)
  BY <1>1 DEF Evident
<1>3. result[g].official => Settled(g)
  BY <1>1 DEF Evident
<1> QED
  BY <1>1, <1>2, <1>3, TableAudits DEF Evident, AllAccepted

-----------------------------------------------------------------------------
(* Settlement.  Sums are never opened: they are the same because they are  *)
(* taken over the same points.                                             *)

(* A sub-game is played by two groups on two sides.                        *)
LEMMA Sided ==
  ASSUME NEW g \in Groups, NEW n \in Nat
  PROVE  /\ Rival(g) \in Groups /\ Rival(g) # g /\ Rival(Rival(g)) = g
         /\ Groups = {g, Rival(g)} /\ Sides = {SideIn(g, n), SideIn(Rival(g), n)}
         /\ SideIn(Rival(g), n) # SideIn(g, n)
         /\ SideIn(Rival(g), n) = Opposed(SideIn(g, n))
<1>1. Rival(g) \in Groups /\ Rival(g) # g
  BY SidesAndRivals
<1>2. Groups = {g, Rival(g)}
  BY <1>1 DEF Groups
<1>3. Rival(Rival(g)) = g
  BY <1>1, <1>2, SidesAndRivals
<1>4. g = "A" <=> Rival(g) # "A"
  BY <1>1, <1>2 DEF Groups
<1>5. /\ SideIn(Rival(g), n) # SideIn(g, n) /\ SideIn(Rival(g), n) = Opposed(SideIn(g, n))
      /\ Sides = {SideIn(g, n), SideIn(Rival(g), n)}
  BY <1>4 DEF SideIn, Sides, Opposed
<1> QED
  BY <1>1, <1>2, <1>3, <1>5

(* Who played a side, read off the side one of them played.                *)
Casting(g, n) == [s \in Sides |-> IF s = SideIn(g, n) THEN g ELSE Rival(g)]

LEMMA CastingIsOne ==
  ASSUME NEW g \in Groups, NEW n \in Nat
  PROVE  /\ \A s \in Sides : SideIn(Casting(g, n)[s], n) = s
         /\ \A x \in Groups : (CHOOSE s \in Sides : Casting(g, n)[s] = x) = SideIn(x, n)
         /\ Casting(Rival(g), n) = Casting(g, n)
<1>1. /\ Rival(g) \in Groups /\ Rival(g) # g /\ Rival(Rival(g)) = g /\ Groups = {g, Rival(g)}
      /\ Sides = {SideIn(g, n), SideIn(Rival(g), n)} /\ SideIn(Rival(g), n) # SideIn(g, n)
  BY Sided
<1>2. Casting(g, n)[SideIn(g, n)] = g /\ Casting(g, n)[SideIn(Rival(g), n)] = Rival(g)
  BY <1>1 DEF Casting
<1>3. \A s \in Sides : SideIn(Casting(g, n)[s], n) = s
  BY <1>1, <1>2
<1>4. ASSUME NEW x \in Groups
      PROVE  (CHOOSE s \in Sides : Casting(g, n)[s] = x) = SideIn(x, n)
  <2>1. SideIn(x, n) \in Sides /\ Casting(g, n)[SideIn(x, n)] = x
    BY <1>1, <1>2
  <2>2. \A s \in Sides : Casting(g, n)[s] = x => s = SideIn(x, n)
    BY <1>3
  <2> QED
    BY <2>1, <2>2
<1>5. Casting(Rival(g), n) = Casting(g, n)
  BY <1>1 DEF Casting
<1> QED
  BY <1>3, <1>4, <1>5

(* What everybody earned in a sub-game that is told to have ended so.      *)
Purse(n, told) == [x \in Groups |-> Earned(x, n, told)]

Told(g, n) == played[n][SideIn(g, n)]

(* The row of a group's own scope.                                         *)
OurRow(g, n) ==
  [number |-> n, roles |-> Casting(g, n), result |-> Told(g, n),
   score |-> Purse(n, Told(g, n)), winner |-> WinnerOf(Purse(n, Told(g, n)))]

LEMMA OurRows ==
  ASSUME EvidenceInv, NEW g \in Groups, result[g].written
  PROVE  LET rows == [n \in 1 .. asked |-> OurRow(g, n)]
         IN  result[g].consensus = [rows |-> rows, aggregate |-> Aggregate(rows)]
<1> DEFINE games == Games(g)
           roles(i) == RolesFor(g, games[i], games[1].side)
           score(i) == SubGameScore(games[i], roles(i))
           row(i) == [number |-> games[i].number, roles |-> roles(i), result |-> games[i].reason,
                      score |-> score(i), winner |-> WinnerOf(score(i))]
           rows == [i \in DOMAIN games |-> row(i)]
<1>1. result[g].consensus = BuildConsensus(g, games)
  BY DEF EvidenceInv, Evident
<1>2. BuildConsensus(g, games) = [rows |-> rows, aggregate |-> Aggregate(rows)]
  BY DEF BuildConsensus
<1>3. DOMAIN games = 1 .. asked
  BY DEF Games
<1>4. ASSUME NEW i \in 1 .. asked
      PROVE  row(i) = OurRow(g, i)
  <2>1. i \in Nat
    BY SettlementAssumption DEF EvidenceInv
  <2>2. games[i].number = i /\ games[i].side = SideIn(g, i) /\ games[i].reason = Told(g, i)
    BY DEF Games, Told
  <2> HIDE DEF games
  <2>3. roles(i) = Casting(g, i)
    BY <2>2 DEF RolesFor, Casting
  <2>4. score(i) = Purse(i, Told(g, i))
    <3>1. \A x \in Groups : (CHOOSE s \in Sides : Casting(g, i)[s] = x) = SideIn(x, i)
      BY <2>1, CastingIsOne
    <3>2. score(i) = [x \in Groups |->
                        Scoring[Told(g, i)][CHOOSE s \in Sides : Casting(g, i)[s] = x]]
      BY <2>2, <2>3 DEF SubGameScore
    <3> QED
      BY <3>1, <3>2 DEF Purse, Earned
  <2> HIDE DEF roles, score
  <2> QED
    BY <2>2, <2>3, <2>4 DEF OurRow
<1> HIDE DEF row, games
<1>5. rows = [n \in 1 .. asked |-> OurRow(g, n)]
  BY <1>3, <1>4
<1> QED
  BY <1>1, <1>2, <1>5

(* Rows with the same scores and winners add up to the same.               *)
LEMMA AggregateAlike ==
  ASSUME NEW one, NEW two, DOMAIN one = DOMAIN two,
         \A i \in DOMAIN one : one[i].score = two[i].score /\ one[i].winner = two[i].winner
  PROVE  Aggregate(one) = Aggregate(two)
<1> DEFINE points(rows, x) == [i \in DOMAIN rows |-> rows[i].score[x]]
           sum(rows) == [x \in Groups |-> SumFunction(points(rows, x))]
           won(rows) == [x \in Groups |-> Cardinality({i \in DOMAIN rows : rows[i].winner = x})]
           total(rows) == AwardSeriesTie(sum(rows))
<1>1. \A x : points(one, x) = points(two, x)
  OBVIOUS
<1>2. won(one) = won(two)
  <2>1. ASSUME NEW x \in Groups
        PROVE  {i \in DOMAIN one : one[i].winner = x} = {i \in DOMAIN two : two[i].winner = x}
    OBVIOUS
  <2> QED
    BY <2>1
<1>3. /\ Aggregate(one) = [total |-> total(one), winner |-> WinnerOf(total(one)), won |-> won(one)]
      /\ Aggregate(two) = [total |-> total(two), winner |-> WinnerOf(total(two)), won |-> won(two)]
  BY DEF Aggregate
<1> HIDE DEF points, won
<1>4. sum(one) = sum(two)
  BY <1>1
<1> HIDE DEF sum
<1>5. total(one) = total(two)
  BY <1>4
<1> HIDE DEF total
<1> QED
  BY <1>2, <1>3, <1>5

(* The league's rows score a sub-game like our own.                        *)
LEMMA OfficialRows ==
  ASSUME EvidenceInv, NEW g \in Groups, result[g].written
  PROVE  OfficialScope(g).aggregate = result[g].consensus.aggregate
<1> DEFINE ours == g = "A" \/ native
           side(n, x) == IF x = g THEN logs[g][n].side ELSE Opposed(logs[g][n].side)
           games == result[g].games
           score(i) == [x \in Groups |-> Scoring[games[i].reason][side(games[i].number, x)]]
           row(i) == [number |-> games[i].number, clock |-> IF ours THEN Rival(g) ELSE g,
                      roles |-> [x \in Groups |-> side(games[i].number, x)],
                      result |-> games[i].reason, score |-> score(i), winner |-> WinnerOf(score(i))]
           rows == [i \in DOMAIN games |-> row(i)]
           mine == [n \in 1 .. asked |-> OurRow(g, n)]
<1>1. OfficialScope(g) = [rows |-> rows, aggregate |-> Aggregate(rows)]
  BY DEF OfficialScope
<1>2. result[g].consensus = [rows |-> mine, aggregate |-> Aggregate(mine)]
  BY OurRows
<1>3. /\ games = Games(g) /\ Len(logs[g]) = asked /\ Tells(g, logs[g])
  BY DEF EvidenceInv, Evident
<1>4. DOMAIN games = 1 .. asked
  BY <1>3 DEF Games
<1>5. ASSUME NEW i \in 1 .. asked
      PROVE  rows[i].score = mine[i].score /\ rows[i].winner = mine[i].winner
  <2>1. i \in Nat
    BY SettlementAssumption DEF EvidenceInv
  <2>2. games[i].number = i /\ games[i].reason = Told(g, i)
    BY <1>3 DEF Games, Told
  <2>3. logs[g][i].side = SideIn(g, i)
    BY <1>3 DEF Tells
  <2>4. \A x \in Groups : side(i, x) = SideIn(x, i)
    BY <2>1, <2>3, Sided
  <2> HIDE DEF side, games
  <2>5. score(i) = Purse(i, Told(g, i))
    BY <2>2, <2>4 DEF Purse, Earned
  <2> HIDE DEF score
  <2>6. rows[i].score = score(i) /\ rows[i].winner = WinnerOf(score(i))
    BY <1>4
  <2>7. mine[i].score = Purse(i, Told(g, i)) /\ mine[i].winner = WinnerOf(Purse(i, Told(g, i)))
    BY DEF OurRow
  <2> QED
    BY <2>5, <2>6, <2>7
<1>6. DOMAIN rows = 1 .. asked /\ DOMAIN mine = 1 .. asked
  BY <1>4
<1> HIDE DEF rows, mine
<1>7. Aggregate(rows) = Aggregate(mine)
  BY <1>5, <1>6, AggregateAlike
<1> QED
  BY <1>1, <1>2, <1>7

(* What is filed pays what was earned.                                     *)
LEMMA SumsAreEarned ==
  ASSUME EvidenceInv, NEW g \in Groups, result[g].written
  PROVE  LET ours == result[g].consensus
             points == [x \in Groups |->
                          SumFunction([n \in 1 .. asked |-> Earned(x, n, Told(g, n))])]
         IN  /\ ours.aggregate.total = AwardSeriesTie(points)
             /\ \A n \in 1 .. asked : ours.rows[n] = OurRow(g, n)
             /\ DOMAIN ours.rows = 1 .. asked
             /\ points = [x \in Groups |-> SumFunction([n \in 1 .. asked |-> ours.rows[n].score[x]])]
<1> DEFINE rows == [n \in 1 .. asked |-> OurRow(g, n)]
           paid(x) == [n \in 1 .. asked |-> rows[n].score[x]]
           earned(x) == [n \in 1 .. asked |-> Earned(x, n, Told(g, n))]
           points == [x \in Groups |-> SumFunction(earned(x))]
<1>1. result[g].consensus = [rows |-> rows, aggregate |-> Aggregate(rows)]
  BY OurRows
<1>2. ASSUME NEW x \in Groups PROVE paid(x) = earned(x)
  <2>1. \A n \in 1 .. asked : rows[n].score[x] = Earned(x, n, Told(g, n))
    BY DEF OurRow, Purse
  <2> QED
    BY <2>1
<1>3. DOMAIN rows = 1 .. asked /\ \A n \in 1 .. asked : rows[n] = OurRow(g, n)
  OBVIOUS
<1>4. Aggregate(rows).total = AwardSeriesTie([x \in Groups |-> SumFunction(paid(x))])
  BY <1>3 DEF Aggregate
<1> HIDE DEF earned
<1>5. points = [x \in Groups |-> SumFunction(paid(x))]
  <2> HIDE DEF paid
  <2> QED
    BY <1>2
<1> HIDE DEF rows
<1>6. /\ result[g].consensus.rows = rows
      /\ result[g].consensus.aggregate.total = Aggregate(rows).total
  BY <1>1
<1> QED
  BY <1>3, <1>4, <1>5, <1>6 DEF earned

(* The league's table is the sealed scope, row by row.                     *)
LEMMA TableRows ==
  ASSUME EvidenceInv, NEW g \in Groups, result[g].written, NEW n \in 1 .. asked
  PROVE  /\ LeagueResult(g).rows[n].score = result[g].consensus.rows[n].score
         /\ LeagueResult(g).rows[n].audit.claim = LeagueResult(g).rows[n].result
<1> DEFINE sealed == result[g].consensus
           row == sealed.rows[n]
<1>1. DOMAIN sealed.rows = 1 .. asked /\ row = OurRow(g, n)
  BY SumsAreEarned
<1>2. row.number = n /\ row.result = Told(g, n)
  BY <1>1 DEF OurRow
<1>3. LeagueResult(g).rows[n] = SubGame(g, row)
  BY <1>1 DEF LeagueResult
<1>4. logs[g][n].reason = Told(g, n)
  BY DEF EvidenceInv, Evident, Tells, Told
<1> HIDE DEF row
<1>5. /\ SubGame(g, row).score = row.score /\ SubGame(g, row).result = row.result
      /\ SubGame(g, row).audit.claim = logs[g][row.number].reason
  BY DEF SubGame, Audit
<1> QED
  BY <1>2, <1>3, <1>4, <1>5 DEF row

(* Two groups with one story file one scope.                               *)
LEMMA OneStoryOneScope ==
  ASSUME EvidenceInv, NEW g \in Groups, result[g].written, result[Rival(g)].written,
         Story(Rival(g)) = Story(g)
  PROVE  result[Rival(g)].consensus = result[g].consensus
<1>1. Rival(g) \in Groups
  BY SidesAndRivals
<1>2. ASSUME NEW n \in 1 .. asked PROVE OurRow(Rival(g), n) = OurRow(g, n)
  <2>1. n \in Nat
    BY SettlementAssumption DEF EvidenceInv
  <2>2. Story(g)[n] = Told(g, n) /\ Story(Rival(g))[n] = Told(Rival(g), n)
    BY DEF Story, Told
  <2>3. Casting(Rival(g), n) = Casting(g, n)
    BY <2>1, CastingIsOne
  <2> QED
    BY <2>2, <2>3 DEF OurRow
<1>3. [n \in 1 .. asked |-> OurRow(Rival(g), n)] = [n \in 1 .. asked |-> OurRow(g, n)]
  BY <1>2
<1> QED
  BY <1>1, <1>3, OurRows

LEMMA EvidenceSettles == EvidenceInv => SettlesTheTruth
<1> SUFFICES ASSUME EvidenceInv, NEW g \in Groups, result[g].written
             PROVE  LET story == Story(g)
                        points == [x \in Groups |->
                                     SumFunction([n \in 1 .. asked |-> Earned(x, n, story[n])])]
                        due == IF points["A"] = points["B"]
                               THEN [x \in Groups |-> points[x] + TieScore]
                               ELSE points
                        ours == result[g].consensus
                        table == LeagueResult(g)
                    IN  /\ \A n \in 1 .. asked :
                             \A s \in Sides : SideIn(ours.rows[n].roles[s], n) = s
                        /\ ours.aggregate.total = due
                        /\ OfficialScope(g).aggregate = ours.aggregate
                        /\ table.final.total = due
                        /\ points = [x \in Groups |->
                                       SumFunction([n \in 1 .. asked |-> table.rows[n].score[x]])]
                        /\ \A n \in 1 .. asked : table.rows[n].audit.claim = table.rows[n].result
                        /\ (result[Rival(g)].written /\ Story(Rival(g)) = story)
                             => result[Rival(g)].consensus = ours
  BY DEF SettlesTheTruth
<1> DEFINE told(x) == [n \in 1 .. asked |-> Earned(x, n, Story(g)[n])]
           earned(x) == [n \in 1 .. asked |-> Earned(x, n, Told(g, n))]
           points == [x \in Groups |-> SumFunction(told(x))]
           ours == result[g].consensus
           table == LeagueResult(g)
<1>1. \A x \in Groups : told(x) = earned(x)
  <2>1. \A n \in 1 .. asked : Story(g)[n] = Told(g, n)
    BY DEF Story, Told
  <2> QED
    BY <2>1
<1>2. points = [x \in Groups |-> SumFunction(earned(x))]
  <2> HIDE DEF told, earned
  <2> QED
    BY <1>1
<1>3. /\ ours.aggregate.total = AwardSeriesTie(points)
      /\ \A n \in 1 .. asked : ours.rows[n] = OurRow(g, n)
      /\ points = [x \in Groups |-> SumFunction([n \in 1 .. asked |-> ours.rows[n].score[x]])]
  <2> HIDE DEF points
  <2> QED
    BY <1>2, SumsAreEarned
<1>4. AwardSeriesTie(points) = IF points["A"] = points["B"]
                               THEN [x \in Groups |-> points[x] + TieScore]
                               ELSE points
  BY DEF AwardSeriesTie
<1>5. \A n \in 1 .. asked : \A s \in Sides : SideIn(ours.rows[n].roles[s], n) = s
  <2> SUFFICES ASSUME NEW n \in 1 .. asked, NEW s \in Sides
               PROVE  SideIn(ours.rows[n].roles[s], n) = s
    OBVIOUS
  <2>1. n \in Nat
    BY SettlementAssumption DEF EvidenceInv
  <2>2. ours.rows[n].roles = Casting(g, n)
    <3>1. ours.rows[n] = OurRow(g, n)
      BY <1>3
    <3> HIDE DEF ours
    <3> QED
      BY <3>1 DEF OurRow
  <2> QED
    BY <2>1, <2>2, CastingIsOne
<1>6. table.final = ours.aggregate
  BY DEF LeagueResult
<1>7. \A n \in 1 .. asked : /\ table.rows[n].score = ours.rows[n].score
                            /\ table.rows[n].audit.claim = table.rows[n].result
  BY TableRows
<1>8. points = [x \in Groups |-> SumFunction([n \in 1 .. asked |-> table.rows[n].score[x]])]
  <2> HIDE DEF points, table, ours
  <2>1. \A x \in Groups : [n \in 1 .. asked |-> table.rows[n].score[x]]
                             = [n \in 1 .. asked |-> ours.rows[n].score[x]]
    BY <1>7
  <2> QED
    BY <1>3, <2>1
<1>9. OfficialScope(g).aggregate = ours.aggregate
  BY OfficialRows
<1>10. result[Rival(g)].written /\ Story(Rival(g)) = Story(g) => result[Rival(g)].consensus = ours
  BY OneStoryOneScope
<1> HIDE DEF ours, table
<1> QED
  BY <1>3, <1>4, <1>5, <1>6, <1>7, <1>8, <1>9, <1>10 DEF ours, table

-----------------------------------------------------------------------------

(* Only a lost answer makes the reporter wrong, and by exactly one mail:   *)
(* what has left of a report is what it was told sent and what was lost,   *)
(* of a confirmed result only and never more than the attempts             *)
(* (email_sender.py:65-104, gmail_transport.py:72-82).                     *)
THEOREM ReportsMissOnlyLosses == Spec => []OnlyLossMisleads
<1>1. Init => Inv
  BY InitInv
<1>2. Inv /\ [Next]_vars => Inv'
  BY NextInv
<1>3. Inv => OnlyLossMisleads
  BY InvMisled
<1> QED
  BY <1>1, <1>2, <1>3, PTL DEF Spec

(* A result is confirmed only on the rival's word: it accepted our chain in *)
(* every sub-game, or both groups filed one story of a full series and each *)
(* record it disclosed re-hashes (reference_artifacts.py:114,               *)
(* settle_official.py:46).                                                  *)
THEOREM ConfirmationHasEvidence == Spec => []ConfirmedOnEvidence
<1>1. Init => EvidenceInv
  BY InitEvidence
<1>2. EvidenceInv /\ [Next]_vars => EvidenceInv'
  BY NextEvidence
<1>3. EvidenceInv => ConfirmedOnEvidence
  BY EvidenceConfirms
<1> QED
  BY <1>1, <1>2, <1>3, PTL DEF Spec

(* A filed result pays every sub-game to the group that played the side,   *)
(* the tie award exactly when the points are level; two groups with one    *)
(* story file one scope, and the league's scope and table agree with it    *)
(* (settlement.py:118-140, official_scope.py:117-130,                      *)
(* league_result.py:107-144).                                              *)
THEOREM SettlementIsTrue == Spec => []SettlesTheTruth
<1>1. Init => EvidenceInv
  BY InitEvidence
<1>2. EvidenceInv /\ [Next]_vars => EvidenceInv'
  BY NextEvidence
<1>3. EvidenceInv => SettlesTheTruth
  BY EvidenceSettles
<1> QED
  BY <1>1, <1>2, <1>3, PTL DEF Spec

-----------------------------------------------------------------------------
(* A set of naturals has a least element.                                  *)
LEMMA LeastNat ==
  ASSUME NEW S \in SUBSET Nat, S # {}
  PROVE  \E n \in S : \A m \in S : n <= m
<1> DEFINE R == OpToRel(<, Nat)
<1>1. IsWellFoundedOn(R, Nat)
  BY NatLessThanWellFounded
<1>2. \A m, n \in Nat : m < n => <<m, n>> \in R
  BY DEF OpToRel
<1> HIDE DEF R
<1>3. PICK n \in S : \A y \in S : ~ (<<y, n>> \in R)
  BY <1>1, WFMin
<1>4. \A m \in S : ~(m < n)
  BY <1>2, <1>3
<1> QED
  BY <1>4

(* What a submission, a result and a log entry are made of; a digest is the*)
(* state and the move it hashes, a signature the peer, turn and digest.    *)
State == Nat \X Cell \X Cell
Sub == [state : State, move : Action, digest : State \X Action,
        signature : Peers \X Nat \X (State \X Action)]
Res == [cop : Cell, thief : Cell, count : Nat, captured : BOOLEAN, over : BOOLEAN]
Entry == [turn : Nat, submissions : [Peers -> Sub], result : Res]

-----------------------------------------------------------------------------
(* A turn of an episode.                                                   *)

LEMMA ResolvedCell ==
  ASSUME NEW cell \in Cell, NEW move, NEW barriers
  PROVE  Resolved(cell, move, barriers) \in Cell
BY DEF Resolved

LEMMA EpisodeRes == Episode \in Res /\ Episode.count = 0 /\ Episode.over = FALSE
BY ReplayAssumption DEF Episode, Res

LEMMA SteppedRes ==
  ASSUME NEW e \in Res, NEW a, NEW b, NEW barriers, NEW limit
  PROVE  /\ Stepped(e, a, b, barriers, limit) \in Res
         /\ ~e.over => Stepped(e, a, b, barriers, limit).count = e.count + 1
<1> DEFINE cop == Resolved(e.cop, a, barriers)
           thief == Resolved(e.thief, b, barriers)
           captured == cop = thief \/ (cop = e.thief /\ thief = e.cop)
           next == [cop |-> cop, thief |-> thief, count |-> e.count + 1, captured |-> captured,
                    over |-> captured \/ e.count + 1 >= limit]
<1>1. cop \in Cell /\ thief \in Cell /\ e.count \in Nat /\ captured \in BOOLEAN
  BY ResolvedCell DEF Res
<1>2. (captured \/ e.count + 1 >= limit) \in BOOLEAN
  OBVIOUS
<1>3. Stepped(e, a, b, barriers, limit) = IF e.over THEN e ELSE next
  BY DEF Stepped
<1> HIDE DEF cop, thief, captured
<1>4. next \in Res /\ next.count = e.count + 1
  BY <1>1, <1>2 DEF Res
<1> QED
  BY <1>3, <1>4

(* The replay satisfies the recursion it is defined by.                    *)
LEMMA ReplayedIs ==
  ASSUME Len(log.turns) \in Nat
  PROVE  /\ Replayed[0] = Episode
         /\ \A i \in 1 .. Len(log.turns) :
              Replayed[i] = Stepped(Replayed[i - 1], log.turns[i].submissions["police"].move,
                                    log.turns[i].submissions["thief"].move, log.barriers,
                                    limits["police"])
<1> DEFINE G(i, x) == Stepped(x, log.turns[i].submissions["police"].move,
                              log.turns[i].submissions["thief"].move, log.barriers,
                              limits["police"])
           F(f, m) == f = [i \in 0 .. m |-> IF i = 0 THEN Episode ELSE G(i, f[i - 1])]
           Bad == {m \in Nat : ~ \E f : F(f, m)}
<1>1. Replayed = CHOOSE f : F(f, Len(log.turns))
  BY DEF Replayed
<1> HIDE DEF G
<1>2. Bad = {}
  <2> SUFFICES ASSUME Bad # {} PROVE FALSE
    OBVIOUS
  <2>1. PICK m \in Bad : \A k \in Bad : m <= k
    BY LeastNat
  <2>2. m \in Nat /\ ~ \E f : F(f, m)
    BY <2>1
  <2>3. m # 0
    <3> DEFINE f == [i \in 0 .. 0 |-> Episode]
    <3>1. F(f, 0)
      OBVIOUS
    <3> QED
      BY <2>2, <3>1
  <2>4. m - 1 \in Nat /\ m - 1 \notin Bad
    <3> HIDE DEF Bad, F
    <3> QED
      BY <2>1, <2>2, <2>3
  <2>5. PICK f : F(f, m - 1)
    BY <2>4
  <2> DEFINE g == [i \in 0 .. m |-> IF i = 0 THEN Episode
                                    ELSE IF i = m THEN G(m, f[m - 1]) ELSE f[i]]
  <2>6. ASSUME NEW i \in 0 .. m, i # 0 PROVE g[i] = G(i, g[i - 1])
    <3>1. i \in Nat /\ i - 1 \in 0 .. m - 1 /\ i - 1 # m
      BY <2>2, <2>6
    <3>2. g[i - 1] = f[i - 1]
      BY <2>2, <2>5, <3>1
    <3>3. CASE i = m
      BY <2>2, <3>2, <3>3, <2>6
    <3>4. CASE i # m
      <4>1. i \in 0 .. m - 1
        BY <2>2, <3>1, <3>4
      <4> QED
        BY <2>5, <2>6, <3>2, <3>4, <4>1
    <3> QED
      BY <3>3, <3>4
  <2>7. F(g, m)
    <3>1. g[0] = Episode
      BY <2>2
    <3> QED
      BY <2>6, <3>1
  <2> QED
    BY <2>2, <2>7
<1>3. \E f : F(f, Len(log.turns))
  BY <1>2
<1>4. F(Replayed, Len(log.turns))
  BY <1>1, <1>3
<1>5. Replayed[0] = Episode
  BY <1>4
<1>6. ASSUME NEW i \in 1 .. Len(log.turns)
      PROVE  Replayed[i] = G(i, Replayed[i - 1])
  <2>1. i \in 0 .. Len(log.turns) /\ i # 0
    OBVIOUS
  <2> QED
    BY <1>4, <2>1
<1> QED
  BY <1>5, <1>6 DEF G

-----------------------------------------------------------------------------
(* The match and the walk.                                                 *)

(* The episode before turn i + 1 of the match.                             *)
Before(i) == IF i = 0 THEN Episode ELSE history[i].result

(* Submissions are of their turn, their digest is of their move and their  *)
(* signature of the digest, and a result is one turn from the one before.  *)
Genuine(h, i) ==
  /\ h[i].turn = i - 1
  /\ \A p \in Peers :
       LET s == h[i].submissions[p]
       IN  s.digest = Commit(s.state, s.move) /\ s.signature = Sign(p, i - 1, s.digest)
  /\ h[i].result =
       Stepped(IF i = 1 THEN Episode ELSE h[i - 1].result, h[i].submissions["police"].move,
               h[i].submissions["thief"].move, boards["police"], limits["police"])
  /\ h[i].result.count = i

MatchInv ==
  /\ history \in Seq(Entry)
  /\ \A i \in 1 .. Len(history) : Genuine(history, i)
  /\ pc # "split" => engines["thief"] = engines["police"]
                     /\ engines["police"] = Before(Len(history))
  /\ pc \in {"agree", "play"} => ~Before(Len(history)).over
  /\ pc \in {"done", "written"} => Before(Len(history)).over

(* A walk's records are committed to as they are, and numbered from one.   *)
Sealed == Nat \X Cell \X Action
WalkRecord == [payload : Sealed, commit : Sealed]
WalkInv ==
  /\ history \in Seq(WalkRecord)
  /\ \A i \in 1 .. Len(history) :
       history[i].commit = history[i].payload /\ history[i].payload[1] = i
  /\ pc \in {"done", "written"} => history # <<>>
  /\ pc # "agree"

(* Of either wire.                                                         *)
GameInv ==
  /\ wire \in {"native", "v3"}
  /\ boards \in [Peers \cup {"root"} -> SUBSET Cell]
  /\ engines \in [Peers -> Res]
  /\ wire = "native" => MatchInv
  /\ wire = "v3" => WalkInv

LEMMA GameInit == ReplayInit => GameInv
<1> SUFFICES ASSUME ReplayInit PROVE GameInv
  OBVIOUS
<1>1. wire \in {"native", "v3"} /\ history = <<>> /\ engines = [p \in Peers |-> Episode]
      /\ (wire = "v3" => pc = "play") /\ (wire = "native" => pc = "agree")
  BY DEF ReplayInit
<1>2. boards \in [Peers \cup {"root"} -> SUBSET Cell]
  BY ReplayAssumption DEF ReplayInit
<1>3. engines \in [Peers -> Res] /\ engines["police"] = Episode /\ engines["thief"] = Episode
  BY <1>1, EpisodeRes DEF Peers
<1>4. Len(history) = 0 /\ Before(Len(history)) = Episode
  BY <1>1 DEF Before
<1>5. wire = "native" => MatchInv
  BY <1>1, <1>3, <1>4, EpisodeRes DEF MatchInv
<1>6. wire = "v3" => WalkInv
  BY <1>1, <1>4 DEF WalkInv
<1> QED
  BY <1>1, <1>2, <1>3, <1>5, <1>6 DEF GameInv

(* What the players send.                                                  *)
LEMMA SubmissionIs ==
  ASSUME engines \in [Peers -> Res], Len(history) \in Nat,
         NEW p \in Peers, NEW move \in Action
  PROVE  LET s == Submission(p, move)
         IN  /\ s \in Sub /\ s.move = move
             /\ s.digest = Commit(s.state, s.move)
             /\ s.signature = Sign(p, Len(history), s.digest)
<1> DEFINE e == engines["police"]
           own == IF p = "police" THEN e.cop ELSE e.thief
           other == IF p = "police" THEN e.thief ELSE e.cop
           state == <<Len(history), own, other>>
           digest == <<state, move>>
           signature == <<p, Len(history), digest>>
<1>1. e \in Res
  BY DEF Peers
<1>2. own \in Cell /\ other \in Cell
  BY <1>1 DEF Res
<1> HIDE DEF own, other
<1>3. state \in State
  BY <1>2 DEF State
<1> HIDE DEF state
<1>4. digest \in State \X Action
  BY <1>3
<1> HIDE DEF digest
<1>5. signature \in Peers \X Nat \X (State \X Action)
  BY <1>4
<1> HIDE DEF signature
<1>6. Submission(p, move)
        = [state |-> state, move |-> move, digest |-> digest, signature |-> signature]
  BY DEF Submission, state, own, other, digest, signature, Commit, Sign
<1>7. digest = Commit(state, move) /\ signature = Sign(p, Len(history), digest)
  BY DEF digest, signature, Commit, Sign
<1>8. Submission(p, move) \in Sub
  BY <1>3, <1>4, <1>5, <1>6 DEF Sub
<1> QED
  BY <1>6, <1>7, <1>8

(* One turn: nothing recorded, or one genuine entry more.                  *)
LEMMA TurnInv == ASSUME GameInv, Turn PROVE GameInv'
<1>1. wire = "native" /\ pc = "play" /\ MatchInv /\ UNCHANGED <<wire, boards, limits>>
  BY DEF GameInv, Turn, contracts
<1>2. PICK copMove \in Moves, thiefMove \in Moves :
        LET results == [p \in Peers |-> Stepped(engines[p], copMove, thiefMove, boards[p], limits[p])]
            entry == [turn |-> Len(history),
                      submissions |-> [p \in Peers |->
                        Submission(p, IF p = "police" THEN copMove ELSE thiefMove)],
                      result |-> results["police"]]
        IN  /\ engines' = results
            /\ IF Diverges(results)
               THEN pc' = "split" /\ UNCHANGED history
               ELSE /\ pc' = IF results["police"].over THEN "done" ELSE "play"
                    /\ history' = Append(history, entry)
  BY DEF Turn
<1> DEFINE n == Len(history)
           results == [p \in Peers |-> Stepped(engines[p], copMove, thiefMove, boards[p], limits[p])]
           subs == [p \in Peers |-> Submission(p, IF p = "police" THEN copMove ELSE thiefMove)]
           entry == [turn |-> n, submissions |-> subs, result |-> results["police"]]
<1>3. engines' = results
      /\ IF Diverges(results)
         THEN pc' = "split" /\ UNCHANGED history
         ELSE /\ pc' = IF results["police"].over THEN "done" ELSE "play"
              /\ history' = Append(history, entry)
  BY <1>2
<1>4. /\ history \in Seq(Entry) /\ n \in Nat /\ copMove \in Action /\ thiefMove \in Action
      /\ engines \in [Peers -> Res] /\ engines["police"] = Before(n) /\ ~engines["police"].over
  BY <1>1, ReplayAssumption DEF MatchInv, GameInv
<1>5. results \in [Peers -> Res]
  BY <1>4, SteppedRes
<1>6. results["police"] = Stepped(Before(n), copMove, thiefMove, boards["police"], limits["police"])
  BY <1>4 DEF Peers
<1>7. CASE Diverges(results)
  <2>1. pc' = "split" /\ history' = history
    BY <1>3, <1>7
  <2> HIDE DEF results
  <2>2. MatchInv'
    BY <1>1, <2>1 DEF MatchInv, Genuine
  <2> QED
    BY <1>1, <1>3, <1>5, <2>2 DEF GameInv
<1>8. CASE ~Diverges(results)
  <2>1. history' = Append(history, entry) /\ pc' = IF results["police"].over THEN "done" ELSE "play"
    BY <1>3, <1>8
  <2>2. results["thief"] = results["police"]
    BY <1>8 DEF Diverges, Peers
  <2>3. subs \in [Peers -> Sub]
    BY <1>4, SubmissionIs
  <2>4. ASSUME NEW p \in Peers
        PROVE  /\ subs[p].digest = Commit(subs[p].state, subs[p].move)
               /\ subs[p].signature = Sign(p, n, subs[p].digest)
               /\ subs["police"].move = copMove /\ subs["thief"].move = thiefMove
    BY <1>4, SubmissionIs DEF Peers
  <2>5. results["police"] \in Res
    BY <1>5 DEF Peers
  <2>6. Before(n).count = n
    <3>1. CASE n = 0
      BY <3>1, EpisodeRes DEF Before
    <3>2. CASE n # 0
      <4>1. n \in 1 .. Len(history)
        BY <1>4, <3>2
      <4> QED
        BY <1>1, <3>2, <4>1 DEF MatchInv, Genuine, Before
    <3> QED
      BY <3>1, <3>2
  <2>7. results["police"].count = n + 1
    BY <1>4, <1>6, <2>6, SteppedRes DEF Peers
  <2> HIDE DEF results, subs
  <2>8. entry \in Entry
    BY <1>4, <2>3, <2>5 DEF Entry
  <2>9. entry.turn = n /\ entry.submissions = subs /\ entry.result = results["police"]
    OBVIOUS
  <2> HIDE DEF entry
  <2>10. /\ history' \in Seq(Entry) /\ Len(history') = n + 1 /\ history'[n + 1] = entry
         /\ \A i \in 1 .. n : history'[i] = history[i]
    BY <1>4, <2>1, <2>8
  <2> HIDE DEF n
  <2>11. ASSUME NEW i \in 1 .. n + 1 PROVE Genuine(history, i)'
    <3>1. CASE i = n + 1
      <4>1. (IF i = 1 THEN Episode ELSE history'[i - 1].result) = Before(n)
        <5>1. CASE n = 0
          BY <3>1, <5>1 DEF Before
        <5>2. CASE n # 0
          <6>1. n \in 1 .. n /\ i - 1 = n /\ i # 1
            BY <1>4, <3>1, <5>2
          <6> QED
            BY <2>10, <5>2, <6>1 DEF Before
        <5> QED
          BY <5>1, <5>2
      <4>2. history'[i].turn = i - 1 /\ i - 1 = n /\ history'[i].submissions = subs
            /\ history'[i].result = results["police"]
        BY <1>4, <2>9, <2>10, <3>1
      <4>3. /\ history'[i].result
                 = Stepped(IF i = 1 THEN Episode ELSE history'[i - 1].result, copMove, thiefMove,
                           boards["police"], limits["police"])
            /\ history'[i].result.count = i
        BY <1>4, <1>6, <2>7, <3>1, <4>1, <4>2
      <4>4. /\ history'[i].submissions["police"].move = copMove
            /\ history'[i].submissions["thief"].move = thiefMove
        BY <2>4, <4>2 DEF Peers
      <4>5. \A p \in Peers :
              /\ history'[i].submissions[p].digest
                   = Commit(history'[i].submissions[p].state, history'[i].submissions[p].move)
              /\ history'[i].submissions[p].signature
                   = Sign(p, i - 1, history'[i].submissions[p].digest)
        BY <2>4, <4>2
      <4> QED
        BY <1>1, <4>2, <4>3, <4>4, <4>5 DEF Genuine
    <3>2. CASE i \in 1 .. n
      <4>1. history'[i] = history[i] /\ (i # 1 => history'[i - 1] = history[i - 1])
        BY <1>4, <2>10, <3>2
      <4>2. Genuine(history, i)
        BY <1>1, <3>2 DEF MatchInv, n
      <4> QED
        BY <1>1, <4>1, <4>2 DEF Genuine
    <3> QED
      BY <1>4, <3>1, <3>2
  <2>12. Before(Len(history))' = results["police"]
    BY <1>4, <2>9, <2>10 DEF Before
  <2>13. MatchInv'
    <3>1. pc' \in {"done", "play"} /\ (pc' = "done" <=> results["police"].over)
      BY <2>1
    <3>2. engines'["police"] = results["police"] /\ engines'["thief"] = results["police"]
      BY <1>3, <2>2
    <3> QED
      BY <2>10, <2>11, <2>12, <3>1, <3>2 DEF MatchInv
  <2> QED
    BY <1>1, <1>3, <1>5, <2>13 DEF GameInv
<1> QED
  BY <1>7, <1>8

(* One step of a walk: one sealed record more.                             *)
LEMMA WalkStepInv == ASSUME GameInv, Walk PROVE GameInv'
<1>1. wire = "v3" /\ wire' = "v3" /\ boards' = boards /\ WalkInv
  BY DEF GameInv, Walk, contracts
<1>2. PICK move \in Moves :
        LET cell == Resolved(engines["police"].cop, move, boards["police"])
            payload == <<Len(history) + 1, cell, move>>
        IN  /\ engines' = [engines EXCEPT !["police"].cop = cell]
            /\ history' = Append(history, SealRecord(payload))
  BY DEF Walk
<1> DEFINE n == Len(history)
           cell == Resolved(engines["police"].cop, move, boards["police"])
           payload == <<n + 1, cell, move>>
           record == SealRecord(payload)
<1>3. engines' = [engines EXCEPT !["police"].cop = cell] /\ history' = Append(history, record)
  BY <1>2
<1>4. engines \in [Peers -> Res] /\ n \in Nat /\ move \in Action
      /\ history \in Seq(WalkRecord)
  BY <1>1, ReplayAssumption DEF GameInv, WalkInv
<1>5. cell \in Cell
  BY <1>4, ResolvedCell DEF Res, Peers
<1>6. payload \in Sealed /\ payload[1] = n + 1
  BY <1>4, <1>5 DEF Sealed
<1> HIDE DEF cell, payload
<1>7. record \in WalkRecord /\ record.payload = payload
      /\ record.commit = payload
  BY <1>6 DEF SealRecord, WalkRecord
<1>8. engines' \in [Peers -> Res]
  <2>1. engines["police"] \in Res
    BY <1>4 DEF Peers
  <2>2. [engines["police"] EXCEPT !.cop = cell] \in Res
    BY <1>5, <2>1 DEF Res
  <2> QED
    BY <1>3, <1>4, <2>2
<1> HIDE DEF record
<1>9. /\ history' \in Seq(WalkRecord) /\ Len(history') = n + 1
      /\ history'[n + 1] = record /\ \A i \in 1 .. n : history'[i] = history[i]
  BY <1>3, <1>4, <1>7
<1>10. ASSUME NEW i \in 1 .. Len(history')
       PROVE  history'[i].commit = history'[i].payload /\ history'[i].payload[1] = i
  <2>1. CASE i = n + 1
    BY <1>6, <1>7, <1>9, <2>1
  <2>2. CASE i \in 1 .. n
    BY <1>1, <1>9, <2>2 DEF WalkInv
  <2> QED
    BY <1>4, <1>9, <2>1, <2>2
<1>11. history' # <<>> /\ pc' # "agree"
  BY <1>4, <1>9 DEF Walk
<1>12. WalkInv'
  BY <1>9, <1>10, <1>11 DEF WalkInv
<1> QED
  BY <1>1, <1>8, <1>12 DEF GameInv

LEMMA GameNext == GameInv /\ [ReplayNext]_replayVars => GameInv'
<1> SUFFICES ASSUME GameInv, [ReplayNext]_replayVars PROVE GameInv'
  OBVIOUS
<1> USE DEF GameInv, MatchInv, WalkInv, Genuine, Before, contracts
<1>1. CASE Agree
  BY <1>1 DEF Agree
<1>2. CASE Write
  BY <1>2 DEF Write
<1>3. CASE Edit
  BY <1>3 DEF Edit
<1>4. CASE UNCHANGED replayVars
  BY <1>4 DEF replayVars
<1> QED
  BY <1>1, <1>2, <1>3, <1>4, TurnInv, WalkStepInv DEF ReplayNext

-----------------------------------------------------------------------------
(* The log, as written and as edited.                                      *)

(* An entry each submission of which carries the state and the signature   *)
(* of some submission of the match.                                        *)
Copied(e) ==
  \A p \in Peers : \E j \in DOMAIN history : \E q \in Peers :
    /\ e.submissions[p].state = history[j].submissions[q].state
    /\ e.submissions[p].signature = history[j].submissions[q].signature
MatchEntry == {e \in Entry : Copied(e)}

(* A record with a commitment that was made, if nobody sealed one again.   *)
WalkEntry ==
  {e \in [step : Nat, payload : Sealed, commit : Sealed] :
     resealed \/ \E j \in DOMAIN history : e.commit = history[j].payload}

Logs(S) == [barriers : SUBSET Cell, turns : Seq(S), claimed : Nat]

(* The file holds copies of what was signed or sealed, and is what was     *)
(* written as long as nobody edits it.                                     *)
LogInv ==
  pc = "written" =>
    /\ wire = "native" =>
         /\ log \in Logs(MatchEntry)
         /\ edits = 0 => log = BuildLog
         /\ resultFile = BuildMatchResult
    /\ wire = "v3" =>
         /\ log \in Logs(WalkEntry)
         /\ edits = 0 => log = BuildWalkLog

ReplayInv == GameInv /\ edits \in Nat /\ LogInv

LEMMA LogInit == ReplayInit => LogInv /\ edits \in Nat
BY DEF ReplayInit, LogInv

(* The file is written of the match as it is.                              *)
LEMMA WriteLog == ASSUME GameInv, edits \in Nat, Write PROVE LogInv'
<1>1. UNCHANGED <<wire, boards, limits, engines, history, edits, resealed>>
  BY DEF Write, contracts
<1>2. CASE wire = "native"
  <2>1. log' = BuildLog /\ resultFile' = BuildMatchResult
    BY <1>2 DEF Write
  <2>2. MatchInv /\ boards["root"] \in SUBSET Cell
    BY <1>2 DEF GameInv, Peers
  <2>3. ASSUME NEW i \in 1 .. Len(history) PROVE history[i] \in MatchEntry
    <3>1. history[i] \in Entry /\ i \in DOMAIN history
      BY <2>2 DEF MatchInv
    <3> QED
      BY <3>1 DEF MatchEntry, Copied
  <2>4. history \in Seq(MatchEntry) /\ Len(history) \in Nat
    BY <2>2, <2>3 DEF MatchInv
  <2>5. BuildLog \in Logs(MatchEntry)
    <3>1. boards["root"] \in SUBSET Cell
      BY <2>2
    <3> HIDE DEF MatchEntry
    <3> QED
      BY <3>1, <2>4 DEF BuildLog, Logs
  <2>6. MatchEntry' = MatchEntry /\ BuildLog' = BuildLog /\ BuildMatchResult' = BuildMatchResult
    BY <1>1 DEF MatchEntry, Copied, BuildLog, BuildMatchResult
  <2>7. log' \in Logs(MatchEntry')
    BY <2>1, <2>5, <2>6
  <2> QED
    BY <1>1, <1>2, <2>1, <2>6, <2>7 DEF LogInv
<1>3. CASE wire = "v3"
  <2>1. log' = BuildWalkLog
    BY <1>3 DEF Write
  <2>2. WalkInv /\ boards["police"] \in SUBSET Cell
    BY <1>3 DEF GameInv, Peers
  <2> DEFINE entry(i) == [step |-> history[i].payload[1], payload |-> history[i].payload,
                          commit |-> history[i].commit]
  <2>3. ASSUME NEW i \in 1 .. Len(history) PROVE entry(i) \in WalkEntry
    <3>1. /\ history[i].payload \in Sealed /\ history[i].commit = history[i].payload
          /\ history[i].payload[1] = i /\ i \in Nat /\ i \in DOMAIN history
      <4>1. history \in Seq(WalkRecord) /\ Len(history) \in Nat
        BY <2>2 DEF WalkInv
      <4>2. i \in Nat /\ i \in DOMAIN history
        BY <4>1
      <4>3. history[i] \in WalkRecord
        BY <4>1, <4>2
      <4> QED
        BY <2>2, <4>2, <4>3 DEF WalkInv, WalkRecord
    <3>2. entry(i) \in [step : Nat, payload : Sealed, commit : Sealed]
      <4> DEFINE k == history[i].payload[1]
                 x == history[i].payload
                 c == history[i].commit
      <4>1. k \in Nat /\ x \in Sealed /\ c \in Sealed
        BY <3>1
      <4> HIDE DEF k, x, c
      <4>2. [step |-> k, payload |-> x, commit |-> c] \in [step : Nat, payload : Sealed, commit : Sealed]
        BY <4>1
      <4> QED
        BY <4>2 DEF k, x, c
    <3>3. entry(i).commit = history[i].payload
      BY <3>1
    <3> QED
      BY <3>1, <3>2, <3>3 DEF WalkEntry
  <2>4. Len(history) \in Nat /\ DOMAIN history = 1 .. Len(history)
    BY <2>2 DEF WalkInv
  <2>5. [i \in DOMAIN history |-> entry(i)] \in Seq(WalkEntry)
    <3> HIDE DEF entry, WalkEntry
    <3> QED
      BY <2>3, <2>4
  <2>6. BuildWalkLog \in Logs(WalkEntry)
    <3> DEFINE t == [i \in DOMAIN history |-> entry(i)]
    <3>1. BuildWalkLog = [barriers |-> boards["police"], turns |-> t, claimed |-> Len(history)]
      BY DEF BuildWalkLog
    <3> HIDE DEF t, WalkEntry
    <3> QED
      BY <2>2, <2>4, <2>5, <3>1 DEF Logs, t
  <2>7. WalkEntry' = WalkEntry /\ BuildWalkLog' = BuildWalkLog
    BY <1>1 DEF WalkEntry, BuildWalkLog
  <2>8. log' \in Logs(WalkEntry')
    BY <2>1, <2>6, <2>7
  <2> QED
    BY <1>1, <1>3, <2>1, <2>7, <2>8 DEF LogInv
<1> QED
  BY <1>2, <1>3 DEF GameInv

(* Cutting, swapping and copying the entries of a log makes no entry.      *)
LEMMA ReorderedSeq ==
  ASSUME NEW S, NEW turns \in Seq(S), NEW t \in Reordered(turns)
  PROVE  t \in Seq(S)
<1>1. Len(turns) \in Nat /\ DOMAIN turns = 1 .. Len(turns) /\ \A i \in DOMAIN turns : turns[i] \in S
  OBVIOUS
<1>2. CASE \E n \in 0 .. Len(turns) - 1 : t = SubSeq(turns, 1, n)
  BY <1>1, <1>2
<1>3. CASE \E i \in 1 .. Len(turns) - 1 : t = Swapped(turns, i)
  <2>1. PICK i \in 1 .. Len(turns) - 1 : t = [turns EXCEPT ![i] = turns[i + 1], ![i + 1] = turns[i]]
    BY <1>3 DEF Swapped
  <2>2. i \in DOMAIN turns /\ i + 1 \in DOMAIN turns
    BY <1>1, <2>1
  <2>3. turns[i] \in S /\ turns[i + 1] \in S
    BY <1>1, <2>2
  <2> QED
    BY <2>1, <2>3
<1>4. CASE \E i \in DOMAIN turns : t = Append(turns, turns[i])
  BY <1>1, <1>4
<1> QED
  BY <1>2, <1>3, <1>4 DEF Reordered

LEMMA PutTurns ==
  ASSUME NEW S, NEW l \in Logs(S), NEW t \in Seq(S)
  PROVE  [l EXCEPT !.turns = t] \in Logs(S)
BY DEF Logs

LEMMA PutEntry ==
  ASSUME NEW S, NEW l \in Logs(S), NEW i \in DOMAIN l.turns, NEW e \in S
  PROVE  /\ [l EXCEPT !.turns[i] = e] \in Logs(S)
         /\ l.turns[i] \in S
<1>1. l.turns \in Seq(S)
  BY DEF Logs
<1>2. [l.turns EXCEPT ![i] = e] \in Seq(S) /\ l.turns[i] \in S
  BY <1>1
<1>3. [l EXCEPT !.turns[i] = e] = [l EXCEPT !.turns = [l.turns EXCEPT ![i] = e]]
  OBVIOUS
<1> QED
  BY <1>2, <1>3, PutTurns

LEMMA EditedSubmission ==
  ASSUME NEW x \in Sub, NEW move \in Action, NEW d \in State \X Action
  PROVE  /\ [x EXCEPT !.move = move] \in Sub
         /\ [x EXCEPT !.move = move].state = x.state
         /\ [x EXCEPT !.move = move].signature = x.signature
         /\ [x EXCEPT !.digest = d] \in Sub
         /\ [x EXCEPT !.digest = d].state = x.state
         /\ [x EXCEPT !.digest = d].signature = x.signature
<1> DEFINE D == State \X Action
           G == Peers \X Nat \X D
<1>1. Sub = [state : State, move : Action, digest : D, signature : G] /\ d \in D
  BY DEF Sub
<1> HIDE DEF D, G
<1> QED
  BY <1>1

(* What an edit does to one entry of a match's log.                        *)
LEMMA EditedEntry ==
  ASSUME NEW e \in MatchEntry
  PROVE  /\ \A p \in Peers, move \in Moves : [e EXCEPT !.submissions[p].move = move] \in MatchEntry
         /\ \A p \in Peers : [e EXCEPT !.submissions[p].digest =
              Commit(e.submissions[p].state, e.submissions[p].move)] \in MatchEntry
         /\ [e EXCEPT !.submissions =
              [police |-> e.submissions["thief"], thief |-> e.submissions["police"]]] \in MatchEntry
         /\ \A c \in Cell : [e EXCEPT !.result.cop = c] \in MatchEntry
         /\ [e EXCEPT !.result.captured = ~e.result.captured] \in MatchEntry
         /\ [e EXCEPT !.result.count = e.result.count + 1] \in MatchEntry
         /\ \A n \in Nat : [e EXCEPT !.turn = n] \in MatchEntry
<1>1. /\ e \in Entry /\ Copied(e) /\ e.submissions \in [Peers -> Sub] /\ e.result \in Res
      /\ \A p \in Peers : e.submissions[p] \in Sub
  BY DEF MatchEntry, Entry
<1>2. ASSUME NEW f \in Entry,
             \A p \in Peers : \E q \in Peers : f.submissions[p].state = e.submissions[q].state
                                               /\ f.submissions[p].signature = e.submissions[q].signature
      PROVE  f \in MatchEntry
  <2>1. Copied(f)
    BY <1>1, <1>2 DEF Copied
  <2> QED
    BY <2>1 DEF MatchEntry
<1>3. ASSUME NEW p \in Peers, NEW s \in Sub, s.state = e.submissions[p].state,
             s.signature = e.submissions[p].signature
      PROVE  [e EXCEPT !.submissions = [e.submissions EXCEPT ![p] = s]] \in MatchEntry
  <2> DEFINE subs == [e.submissions EXCEPT ![p] = s]
             f == [e EXCEPT !.submissions = subs]
  <2>1. subs \in [Peers -> Sub]
        /\ \A q \in Peers : subs[q].state = e.submissions[q].state
                            /\ subs[q].signature = e.submissions[q].signature
    BY <1>1, <1>3
  <2> HIDE DEF subs
  <2>2. f \in Entry /\ f.submissions = subs
    BY <1>1, <2>1 DEF Entry
  <2> HIDE DEF f
  <2>3. f \in MatchEntry
    BY <1>2, <2>1, <2>2
  <2> QED
    BY <2>3 DEF f, subs
<1>4. ASSUME NEW p \in Peers, NEW move \in Moves
      PROVE  [e EXCEPT !.submissions[p].move = move] \in MatchEntry
  <2> DEFINE s == [e.submissions[p] EXCEPT !.move = move]
  <2>1. move \in Action
    BY ReplayAssumption
  <2>2. s \in Sub /\ s.state = e.submissions[p].state /\ s.signature = e.submissions[p].signature
    <3>1. e.submissions[p].digest \in State \X Action
      BY <1>1 DEF Sub
    <3> QED
      BY <1>1, <2>1, <3>1, EditedSubmission
  <2>3. [e EXCEPT !.submissions[p].move = move]
          = [e EXCEPT !.submissions = [e.submissions EXCEPT ![p] = s]]
    OBVIOUS
  <2> HIDE DEF s
  <2> QED
    BY <1>3, <2>2, <2>3
<1>5. ASSUME NEW p \in Peers
      PROVE  [e EXCEPT !.submissions[p].digest =
                Commit(e.submissions[p].state, e.submissions[p].move)] \in MatchEntry
  <2> DEFINE d == Commit(e.submissions[p].state, e.submissions[p].move)
             s == [e.submissions[p] EXCEPT !.digest = d]
  <2>1. d \in State \X Action
    BY <1>1 DEF Sub, Commit
  <2> HIDE DEF d
  <2>2. s \in Sub /\ s.state = e.submissions[p].state /\ s.signature = e.submissions[p].signature
    <3>1. e.submissions[p].move \in Action
      BY <1>1 DEF Sub
    <3> QED
      BY <1>1, <2>1, <3>1, EditedSubmission
  <2>3. [e EXCEPT !.submissions[p].digest = d]
          = [e EXCEPT !.submissions = [e.submissions EXCEPT ![p] = s]]
    OBVIOUS
  <2> HIDE DEF s
  <2>4. [e EXCEPT !.submissions[p].digest = d] \in MatchEntry
    BY <1>3, <2>2, <2>3
  <2> QED
    BY <2>4 DEF d
<1>6. [e EXCEPT !.submissions =
        [police |-> e.submissions["thief"], thief |-> e.submissions["police"]]] \in MatchEntry
  <2> DEFINE subs == [police |-> e.submissions["thief"], thief |-> e.submissions["police"]]
             f == [e EXCEPT !.submissions = subs]
  <2>1. subs["police"] = e.submissions["thief"] /\ subs["thief"] = e.submissions["police"]
        /\ DOMAIN subs = Peers
    BY DEF Peers
  <2>2. subs \in [Peers -> Sub]
    <3>1. e.submissions["thief"] \in Sub /\ e.submissions["police"] \in Sub
      BY <1>1 DEF Peers
    <3> QED
      BY <3>1 DEF Peers
  <2> HIDE DEF subs
  <2>3. f \in Entry /\ f.submissions = subs
    BY <1>1, <2>2 DEF Entry
  <2> HIDE DEF f
  <2>4. f \in MatchEntry
    BY <1>2, <2>1, <2>3 DEF Peers
  <2> QED
    BY <2>4 DEF f, subs
<1>7. ASSUME NEW r \in Res PROVE [e EXCEPT !.result = r] \in MatchEntry
  <2> DEFINE f == [e EXCEPT !.result = r]
  <2>1. f \in Entry /\ f.submissions = e.submissions
    BY <1>1 DEF Entry
  <2> HIDE DEF f
  <2>2. f \in MatchEntry
    BY <1>2, <2>1
  <2> QED
    BY <2>2 DEF f
<1>8. ASSUME NEW c \in Cell PROVE [e EXCEPT !.result.cop = c] \in MatchEntry
  <2>1. [e.result EXCEPT !.cop = c] \in Res
    BY <1>1 DEF Res
  <2> QED
    BY <1>7, <2>1
<1>9. [e EXCEPT !.result.captured = ~e.result.captured] \in MatchEntry
  <2>1. [e.result EXCEPT !.captured = ~e.result.captured] \in Res
    BY <1>1 DEF Res
  <2> QED
    BY <1>7, <2>1
<1>10. [e EXCEPT !.result.count = e.result.count + 1] \in MatchEntry
  <2>1. [e.result EXCEPT !.count = e.result.count + 1] \in Res
    BY <1>1 DEF Res
  <2> QED
    BY <1>7, <2>1
<1>11. ASSUME NEW n \in Nat PROVE [e EXCEPT !.turn = n] \in MatchEntry
  <2> DEFINE f == [e EXCEPT !.turn = n]
  <2>1. f \in Entry /\ f.submissions = e.submissions
    BY <1>1 DEF Entry
  <2> HIDE DEF f
  <2>2. f \in MatchEntry
    BY <1>2, <2>1
  <2> QED
    BY <2>2 DEF f
<1> HIDE DEF MatchEntry
<1> QED
  BY <1>4, <1>5, <1>6, <1>8, <1>9, <1>10, <1>11

(* No edit of a match's log signs anything.                                *)
LEMMA EditNativeLog ==
  ASSUME log \in Logs(MatchEntry), EditNative, boards \in [Peers \cup {"root"} -> SUBSET Cell]
  PROVE  log' \in Logs(MatchEntry)
<1> HIDE DEF MatchEntry
<1>1. log.turns \in Seq(MatchEntry)
  BY DEF Logs
<1>2. CASE \E b \in Layouts : log' = [log EXCEPT !.barriers = b]
  <2>1. PICK b \in SUBSET Cell : log' = [log EXCEPT !.barriers = b]
    BY <1>2, ReplayAssumption
  <2> QED
    BY <2>1 DEF Logs
<1>3. CASE \E t \in Reordered(log.turns) : log' = [log EXCEPT !.turns = t]
  BY <1>1, <1>3, ReorderedSeq, PutTurns
<1>4. CASE log' = [log EXCEPT !.turns = [i \in DOMAIN log.turns |-> [log.turns[i] EXCEPT !.turn = i - 1]]]
  <2> DEFINE t == [i \in DOMAIN log.turns |-> [log.turns[i] EXCEPT !.turn = i - 1]]
  <2>1. ASSUME NEW i \in DOMAIN log.turns PROVE t[i] \in MatchEntry
    <3>1. log.turns[i] \in MatchEntry /\ i - 1 \in Nat
      BY <1>1
    <3> QED
      BY <3>1, EditedEntry
  <2>2. t \in Seq(MatchEntry)
    <3>1. DOMAIN t = 1 .. Len(log.turns) /\ Len(log.turns) \in Nat /\ t = [i \in DOMAIN t |-> t[i]]
      BY <1>1
    <3> HIDE DEF t
    <3> QED
      BY <2>1, <3>1, <1>1
  <2> HIDE DEF t
  <2> QED
    BY <1>4, <2>2, PutTurns DEF t
<1>5. ASSUME NEW i \in DOMAIN log.turns
      PROVE  /\ \A p \in Peers, move \in Moves :
                  log' = [log EXCEPT !.turns[i].submissions[p].move = move] => log' \in Logs(MatchEntry)
             /\ \A p \in Peers :
                  log' = [log EXCEPT !.turns[i].submissions[p].digest =
                            Commit(log.turns[i].submissions[p].state,
                                   log.turns[i].submissions[p].move)] => log' \in Logs(MatchEntry)
             /\ log' = [log EXCEPT !.turns[i].submissions =
                          [police |-> log.turns[i].submissions["thief"],
                           thief |-> log.turns[i].submissions["police"]]] => log' \in Logs(MatchEntry)
             /\ \A c \in Cell : log' = [log EXCEPT !.turns[i].result.cop = c] => log' \in Logs(MatchEntry)
             /\ log' = [log EXCEPT !.turns[i].result.captured = ~log.turns[i].result.captured]
                  => log' \in Logs(MatchEntry)
             /\ log' = [log EXCEPT !.turns[i].result.count = log.turns[i].result.count + 1]
                  => log' \in Logs(MatchEntry)
  <2> DEFINE e == log.turns[i]
  <2>1. e \in MatchEntry
    BY <1>1
  <2>2. ASSUME NEW f \in MatchEntry PROVE [log EXCEPT !.turns[i] = f] \in Logs(MatchEntry)
    BY <1>5, PutEntry
  <2>3. ASSUME NEW p \in Peers, NEW move \in Moves
        PROVE  [log EXCEPT !.turns[i].submissions[p].move = move] \in Logs(MatchEntry)
    <3>1. [log EXCEPT !.turns[i].submissions[p].move = move]
            = [log EXCEPT !.turns[i] = [e EXCEPT !.submissions[p].move = move]]
      OBVIOUS
    <3>2. [e EXCEPT !.submissions[p].move = move] \in MatchEntry
      BY <2>1, EditedEntry
    <3> HIDE DEF e
    <3> QED
      BY <2>2, <3>1, <3>2
  <2>4. ASSUME NEW p \in Peers
        PROVE  [log EXCEPT !.turns[i].submissions[p].digest =
                  Commit(e.submissions[p].state, e.submissions[p].move)] \in Logs(MatchEntry)
    <3> DEFINE d == Commit(e.submissions[p].state, e.submissions[p].move)
    <3>1. [e EXCEPT !.submissions[p].digest = d] \in MatchEntry
      BY <2>1, EditedEntry
    <3> HIDE DEF d
    <3>2. [log EXCEPT !.turns[i].submissions[p].digest = d]
            = [log EXCEPT !.turns[i] = [e EXCEPT !.submissions[p].digest = d]]
      OBVIOUS
    <3> HIDE DEF e
    <3>3. [log EXCEPT !.turns[i].submissions[p].digest = d] \in Logs(MatchEntry)
      BY <2>2, <3>1, <3>2
    <3> QED
      BY <3>3 DEF d
  <2>5. [log EXCEPT !.turns[i].submissions =
           [police |-> e.submissions["thief"], thief |-> e.submissions["police"]]] \in Logs(MatchEntry)
    <3> DEFINE s == [police |-> e.submissions["thief"], thief |-> e.submissions["police"]]
    <3>1. [e EXCEPT !.submissions = s] \in MatchEntry
      BY <2>1, EditedEntry
    <3> HIDE DEF s
    <3>2. [log EXCEPT !.turns[i].submissions = s]
            = [log EXCEPT !.turns[i] = [e EXCEPT !.submissions = s]]
      OBVIOUS
    <3> HIDE DEF e
    <3>3. [log EXCEPT !.turns[i].submissions = s] \in Logs(MatchEntry)
      BY <2>2, <3>1, <3>2
    <3> QED
      BY <3>3 DEF s
  <2>6. ASSUME NEW c \in Cell PROVE [log EXCEPT !.turns[i].result.cop = c] \in Logs(MatchEntry)
    <3>1. [log EXCEPT !.turns[i].result.cop = c]
            = [log EXCEPT !.turns[i] = [e EXCEPT !.result.cop = c]]
      OBVIOUS
    <3>2. [e EXCEPT !.result.cop = c] \in MatchEntry
      BY <2>1, EditedEntry
    <3> HIDE DEF e
    <3> QED
      BY <2>2, <3>1, <3>2
  <2>7. [log EXCEPT !.turns[i].result.captured = ~e.result.captured] \in Logs(MatchEntry)
    <3>1. [log EXCEPT !.turns[i].result.captured = ~e.result.captured]
            = [log EXCEPT !.turns[i] = [e EXCEPT !.result.captured = ~e.result.captured]]
      OBVIOUS
    <3>2. [e EXCEPT !.result.captured = ~e.result.captured] \in MatchEntry
      BY <2>1, EditedEntry
    <3> HIDE DEF e
    <3> QED
      BY <2>2, <3>1, <3>2
  <2>8. [log EXCEPT !.turns[i].result.count = e.result.count + 1] \in Logs(MatchEntry)
    <3>1. [log EXCEPT !.turns[i].result.count = e.result.count + 1]
            = [log EXCEPT !.turns[i] = [e EXCEPT !.result.count = e.result.count + 1]]
      OBVIOUS
    <3>2. [e EXCEPT !.result.count = e.result.count + 1] \in MatchEntry
      BY <2>1, EditedEntry
    <3> HIDE DEF e
    <3> QED
      BY <2>2, <3>1, <3>2
  <2> QED
    BY <2>3, <2>4, <2>5, <2>6, <2>7, <2>8
<1> DEFINE One(i) ==
             \/ \E p \in Peers, move \in Moves :
                  log' = [log EXCEPT !.turns[i].submissions[p].move = move]
             \/ \E p \in Peers :
                  log' = [log EXCEPT !.turns[i].submissions[p].digest =
                            Commit(log.turns[i].submissions[p].state,
                                   log.turns[i].submissions[p].move)]
             \/ log' = [log EXCEPT !.turns[i].submissions =
                          [police |-> log.turns[i].submissions["thief"],
                           thief |-> log.turns[i].submissions["police"]]]
             \/ \E c \in Cell : log' = [log EXCEPT !.turns[i].result.cop = c]
             \/ log' = [log EXCEPT !.turns[i].result.captured = ~log.turns[i].result.captured]
             \/ log' = [log EXCEPT !.turns[i].result.count = log.turns[i].result.count + 1]
<1>6. CASE \E i \in DOMAIN log.turns : One(i)
  <2>1. PICK i \in DOMAIN log.turns : One(i)
    BY <1>6
  <2>2. CASE \E p \in Peers, move \in Moves :
               log' = [log EXCEPT !.turns[i].submissions[p].move = move]
    BY <1>5, <2>2
  <2>3. CASE \E p \in Peers :
               log' = [log EXCEPT !.turns[i].submissions[p].digest =
                         Commit(log.turns[i].submissions[p].state,
                                log.turns[i].submissions[p].move)]
    BY <1>5, <2>3
  <2>4. CASE log' = [log EXCEPT !.turns[i].submissions =
                       [police |-> log.turns[i].submissions["thief"],
                        thief |-> log.turns[i].submissions["police"]]]
    BY <1>5, <2>4
  <2>5. CASE \E c \in Cell : log' = [log EXCEPT !.turns[i].result.cop = c]
    BY <1>5, <2>5
  <2>6. CASE log' = [log EXCEPT !.turns[i].result.captured = ~log.turns[i].result.captured]
    BY <1>5, <2>6
  <2>7. CASE log' = [log EXCEPT !.turns[i].result.count = log.turns[i].result.count + 1]
    BY <1>5, <2>7
  <2> QED
    BY <2>1, <2>2, <2>3, <2>4, <2>5, <2>6, <2>7
<1>7. \/ \E b \in Layouts : log' = [log EXCEPT !.barriers = b]
      \/ \E t \in Reordered(log.turns) : log' = [log EXCEPT !.turns = t]
      \/ log' = [log EXCEPT !.turns = [i \in DOMAIN log.turns |-> [log.turns[i] EXCEPT !.turn = i - 1]]]
      \/ \E i \in DOMAIN log.turns : One(i)
  BY DEF EditNative
<1> HIDE DEF One
<1> QED
  BY <1>2, <1>3, <1>4, <1>6, <1>7

(* Nor does one of a walk's seal anything, short of sealing it again.      *)
LEMMA EditWalkLog ==
  ASSUME log \in Logs(WalkEntry), EditWalk, history' = history, WalkInv
  PROVE  log' \in Logs(WalkEntry')
<1>1. WalkEntry \subseteq WalkEntry'
  BY DEF EditWalk, WalkEntry
<1>2. ASSUME log' \in Logs(WalkEntry) PROVE log' \in Logs(WalkEntry')
  <2> DEFINE S == WalkEntry
             T == WalkEntry'
  <2>1. S \subseteq T
    BY <1>1
  <2>2. \A t \in Seq(S) : t \in Seq(T)
    <3> HIDE DEF S, T
    <3> QED
      BY <2>1
  <2> QED
    BY <1>2, <2>2 DEF Logs
<1>3. log.turns \in Seq(WalkEntry) /\ Len(log.turns) \in Nat /\ DOMAIN log.turns = 1 .. Len(log.turns)
      /\ \A i \in DOMAIN log.turns : log.turns[i] \in WalkEntry
  <2> HIDE DEF WalkEntry
  <2> QED
    BY DEF Logs
<1>4. ASSUME NEW t \in Reordered(log.turns), log' = [log EXCEPT !.turns = t]
      PROVE  log' \in Logs(WalkEntry')
  <2> HIDE DEF WalkEntry
  <2> QED
    BY <1>2, <1>3, <1>4, ReorderedSeq, PutTurns
<1>5. CASE log' = [log EXCEPT !.turns = [i \in DOMAIN log.turns |-> [log.turns[i] EXCEPT !.step = i]]]
  <2> DEFINE t == [i \in DOMAIN log.turns |-> [log.turns[i] EXCEPT !.step = i]]
  <2>1. ASSUME NEW i \in DOMAIN log.turns PROVE t[i] \in WalkEntry
    <3>1. log.turns[i] \in WalkEntry /\ i \in Nat
      BY <1>3
    <3> QED
      BY <3>1 DEF WalkEntry
  <2>2. t \in Seq(WalkEntry)
    <3>1. DOMAIN t = 1 .. Len(log.turns) /\ t = [i \in DOMAIN t |-> t[i]]
      BY <1>3
    <3> HIDE DEF t, WalkEntry
    <3> QED
      BY <1>3, <2>1, <3>1
  <2> HIDE DEF t, WalkEntry
  <2> QED
    BY <1>2, <1>5, <2>2, PutTurns DEF t
<1>6. CASE log' = [log EXCEPT !.claimed = Len(log.turns)]
  <2> HIDE DEF WalkEntry
  <2>1. log' \in Logs(WalkEntry)
    BY <1>3, <1>6 DEF Logs
  <2> QED
    BY <1>2, <2>1
<1>7. ASSUME NEW i \in DOMAIN log.turns, NEW c \in Cell, NEW move \in Moves,
             log' = [log EXCEPT !.turns[i].payload = <<log.turns[i].payload[1], c, move>>]
      PROVE  log' \in Logs(WalkEntry')
  <2> DEFINE e == log.turns[i]
             x == <<log.turns[i].payload[1], c, move>>
             f == [e EXCEPT !.payload = x]
  <2>1. e \in WalkEntry /\ e \in [step : Nat, payload : Sealed, commit : Sealed]
    BY <1>3, <1>7 DEF WalkEntry
  <2>2. x \in Sealed
    BY <2>1, ReplayAssumption DEF Sealed
  <2> HIDE DEF x
  <2>3. f \in WalkEntry
    BY <2>1, <2>2 DEF WalkEntry
  <2>4. log' = [log EXCEPT !.turns[i] = f]
    BY <1>7 DEF x
  <2> HIDE DEF f, e, WalkEntry
  <2> QED
    BY <1>2, <1>7, <2>3, <2>4, PutEntry
<1>8. ASSUME NEW i \in DOMAIN log.turns, resealed' = TRUE,
             log' = [log EXCEPT !.turns[i].commit = log.turns[i].payload]
      PROVE  log' \in Logs(WalkEntry')
  <2> DEFINE e == log.turns[i]
             f == [e EXCEPT !.commit = e.payload]
             T == WalkEntry'
  <2>1. e \in [step : Nat, payload : Sealed, commit : Sealed]
    BY <1>3, <1>8 DEF WalkEntry
  <2>2. f \in T
    BY <1>8, <2>1 DEF WalkEntry
  <2>3. log \in Logs(T)
    <3> DEFINE S == WalkEntry
    <3>1. S \subseteq T
      BY <1>1
    <3>2. \A t \in Seq(S) : t \in Seq(T)
      <4> HIDE DEF S, T
      <4> QED
        BY <3>1
    <3> HIDE DEF T
    <3> QED
      BY <3>2 DEF Logs
  <2>4. log' = [log EXCEPT !.turns[i] = f]
    BY <1>8
  <2> HIDE DEF f, e, T
  <2>5. log' \in Logs(T)
    BY <1>8, <2>2, <2>3, <2>4, PutEntry
  <2> QED
    BY <2>5 DEF T
<1> QED
  BY <1>4, <1>5, <1>6, <1>7, <1>8 DEF EditWalk

LEMMA NextLog == ReplayInv /\ [ReplayNext]_replayVars => ReplayInv'
<1> SUFFICES ASSUME ReplayInv, [ReplayNext]_replayVars PROVE ReplayInv'
  OBVIOUS
<1>1. GameInv' /\ GameInv /\ edits \in Nat /\ LogInv
  BY GameNext DEF ReplayInv
<1>2. CASE Agree
  BY <1>1, <1>2 DEF Agree, LogInv, ReplayInv
<1>3. CASE Turn
  BY <1>1, <1>3 DEF Turn, LogInv, ReplayInv
<1>4. CASE Walk
  BY <1>1, <1>4 DEF Walk, LogInv, ReplayInv
<1>5. CASE Write
  BY <1>1, <1>5, WriteLog DEF Write, ReplayInv
<1>6. CASE Edit
  <2>1. /\ pc = "written" /\ edits' = edits + 1 /\ edits' # 0 /\ edits' \in Nat
        /\ UNCHANGED <<wire, boards, limits, silent, pc, engines, history, resultFile>>
        /\ (EditNative \/ EditWalk)
    BY <1>1, <1>6 DEF Edit, contracts
  <2>2. BuildMatchResult' = BuildMatchResult /\ MatchEntry' = MatchEntry
    BY <2>1 DEF BuildMatchResult, MatchEntry, Copied
  <2>3. CASE wire = "native"
    <3>1. EditNative
      BY <2>1, <2>3 DEF EditWalk
    <3>2. log' \in Logs(MatchEntry)
      BY <1>1, <2>1, <2>3, <3>1, EditNativeLog DEF LogInv, GameInv
    <3>3. log' \in Logs(MatchEntry')
      BY <2>2, <3>2
    <3> QED
      BY <1>1, <2>1, <2>2, <2>3, <3>3 DEF LogInv, ReplayInv
  <2>4. CASE wire = "v3"
    <3>1. EditWalk
      BY <2>1, <2>4 DEF EditNative
    <3>2. log' \in Logs(WalkEntry')
      BY <1>1, <2>1, <2>4, <3>1, EditWalkLog DEF LogInv, GameInv
    <3> QED
      BY <1>1, <2>1, <2>4, <3>2 DEF LogInv, ReplayInv
  <2> QED
    BY <1>1, <2>3, <2>4 DEF GameInv
<1>7. CASE UNCHANGED replayVars
  BY <1>1, <1>7 DEF replayVars, contracts, LogInv, ReplayInv, MatchEntry, Copied, WalkEntry,
                    BuildLog, BuildMatchResult, BuildWalkLog
<1> QED
  BY <1>2, <1>3, <1>4, <1>5, <1>6, <1>7 DEF ReplayNext

(* What is true of a match or a walk, and of the file it left: the         *)
(* invariant behind the two theorems below.                                *)
THEOREM ReplayInvariance == ReplaySpec => []ReplayInv
<1>1. ReplayInit => ReplayInv
  BY GameInit, LogInit DEF ReplayInv
<1> QED
  BY <1>1, NextLog, PTL DEF ReplaySpec

-----------------------------------------------------------------------------
(* What the verifiers say.                                                 *)

(* On the board played, turns that carry the submissions of the match      *)
(* replay to its results.                                                  *)
LEMMA ReplayAgrees ==
  ASSUME MatchInv, log \in Logs(MatchEntry), log.barriers = boards["police"],
         NEW n \in Nat, n <= Len(log.turns), n <= Len(history),
         \A i \in 1 .. n : log.turns[i].submissions = history[i].submissions
  PROVE  Replayed[n] = Before(n)
<1>1. Len(log.turns) \in Nat /\ Len(history) \in Nat
  <2> HIDE DEF MatchEntry
  <2> QED
    BY DEF Logs, MatchInv
<1> DEFINE Bad == {i \in 0 .. n : Replayed[i] # Before(i)}
<1>2. SUFFICES ASSUME Bad # {} PROVE FALSE
  OBVIOUS
<1>3. PICK i \in Bad : \A j \in Bad : i <= j
  <2>1. Bad \in SUBSET Nat
    OBVIOUS
  <2> HIDE DEF Bad
  <2> QED
    BY <1>2, <2>1, LeastNat
<1>4. i \in 0 .. n /\ Replayed[i] # Before(i)
  BY <1>3
<1>5. i # 0
  BY <1>1, <1>4, ReplayedIs DEF Before
<1>6. i \in 1 .. n /\ i - 1 \in 0 .. n /\ i \in 1 .. Len(log.turns) /\ i \in 1 .. Len(history)
  BY <1>1, <1>4, <1>5
<1>7. Replayed[i - 1] = Before(i - 1)
  <2>1. i - 1 \notin Bad
    <3> HIDE DEF Bad
    <3> QED
      BY <1>3, <1>6
  <2> QED
    BY <1>6, <2>1
<1>8. Replayed[i] = Stepped(Replayed[i - 1], history[i].submissions["police"].move,
                            history[i].submissions["thief"].move, boards["police"],
                            limits["police"])
  BY <1>1, <1>6, ReplayedIs
<1>9. history[i].result = Stepped(Before(i - 1), history[i].submissions["police"].move,
                                  history[i].submissions["thief"].move, boards["police"],
                                  limits["police"])
  BY <1>6 DEF MatchInv, Genuine, Before
<1>10. Before(i) = history[i].result
  BY <1>5 DEF Before
<1> QED
  BY <1>4, <1>7, <1>8, <1>9, <1>10

(* An untouched log of a match, check by check.                            *)
LEMMA HonestMatch ==
  ASSUME ReplayInv, wire = "native", pc = "written", edits = 0
  PROVE  /\ engines["police"] = engines["thief"] /\ engines["police"].over
         /\ boards["root"] = boards["police"] => VerifyLog
<1>1. MatchInv /\ log \in Logs(MatchEntry) /\ log = BuildLog
  BY DEF ReplayInv, GameInv, LogInv
<1>2. engines["police"] = engines["thief"] /\ engines["police"].over /\ Before(Len(history)).over
  BY <1>1 DEF MatchInv
<1>3. Len(history) \in Nat /\ DOMAIN history = 1 .. Len(history)
  BY <1>1 DEF MatchInv
<1>4. Len(history) # 0
  BY <1>2, EpisodeRes DEF Before
<1>5. log.turns = history /\ log.barriers = boards["root"]
  BY <1>1 DEF BuildLog
<1>6. \A i \in DOMAIN history : Genuine(history, i)
  BY <1>1, <1>3 DEF MatchInv
<1>7. CheckStructure /\ CheckTurnIndices
  BY <1>3, <1>4, <1>5, <1>6 DEF CheckStructure, CheckTurnIndices, Genuine
<1>8. CheckCommitments /\ CheckSignatures
  BY <1>5, <1>6 DEF CheckCommitments, CheckSignatures, VerifySignature, Genuine, Sign
<1>9. ASSUME boards["root"] = boards["police"] PROVE CheckReplay
  <2>1. ASSUME NEW i \in DOMAIN history PROVE Replayed[i] = history[i].result
    <3>1. i \in Nat /\ i <= Len(history) /\ i # 0
      BY <1>3
    <3>2. Replayed[i] = Before(i)
      BY <1>1, <1>5, <1>9, <3>1, ReplayAgrees
    <3> QED
      BY <3>1, <3>2 DEF Before
  <2>2. Len(history) \in DOMAIN history /\ history[Len(history)].result.count = Len(history)
    BY <1>3, <1>4, <1>6 DEF Genuine
  <2> QED
    BY <1>5, <2>1, <2>2 DEF CheckReplay
<1> QED
  BY <1>2, <1>7, <1>8, <1>9 DEF VerifyLog

(* An untouched walk: only its reachability is ever in doubt.              *)
LEMMA HonestWalk ==
  ASSUME ReplayInv, wire = "v3", pc = "written", edits = 0
  PROVE  VerifyWalk <=> ~Bumped
<1>1. WalkInv /\ log = BuildWalkLog
  BY DEF ReplayInv, GameInv, LogInv
<1>2. history \in Seq(WalkRecord) /\ Len(history) \in Nat /\ DOMAIN history = 1 .. Len(history)
      /\ Len(history) # 0
  BY <1>1 DEF WalkInv
<1> DEFINE t == [i \in DOMAIN history |->
     [step |-> history[i].payload[1], payload |-> history[i].payload,
      commit |-> history[i].commit]]
<1>3. log.turns = t /\ log.claimed = Len(history)
  BY <1>1 DEF BuildWalkLog
<1>4. DOMAIN t = 1 .. Len(history) /\ Len(t) = Len(history) /\ t # <<>>
  BY <1>2
<1>5. ASSUME NEW i \in DOMAIN history
      PROVE  /\ t[i].step = i /\ t[i].payload = history[i].payload /\ t[i].commit = t[i].payload
             /\ history[i].payload[2] \in Cell
  <2>1. history[i] \in WalkRecord
    BY <1>2
  <2> QED
    BY <1>1, <1>2, <2>1 DEF WalkInv, WalkRecord, Sealed
<1> HIDE DEF t
<1>6. Contiguity /\ Seal
  BY <1>2, <1>3, <1>4, <1>5 DEF Contiguity, Seal
<1>7. ASSUME Reachable, Bumped PROVE FALSE
  <2>1. PICK i \in 2 .. Len(history) :
          Toward(history[i - 1].payload[2], history[i].payload[3]) # history[i].payload[2]
    BY <1>7 DEF Bumped
  <2>2. i \in DOMAIN history /\ i - 1 \in DOMAIN history /\ i > 1 /\ i \in DOMAIN t
    BY <1>2, <1>4, <2>1
  <2> QED
    BY <1>3, <1>5, <1>7, <2>1, <2>2 DEF Reachable
<1>8. ASSUME ~Bumped PROVE Reachable
  <2>1. ASSUME NEW i \in DOMAIN log.turns
        PROVE  /\ log.turns[i].payload[2] \in Cell
               /\ i > 1 => Toward(log.turns[i - 1].payload[2], log.turns[i].payload[3])
                             = log.turns[i].payload[2]
    <3>1. i \in DOMAIN history
      BY <1>2, <1>3, <1>4, <2>1
    <3>2. CASE i > 1
      <4>1. i \in 2 .. Len(history) /\ i - 1 \in DOMAIN history
        BY <1>2, <3>1, <3>2
      <4> QED
        BY <1>3, <1>5, <1>8, <3>1, <4>1 DEF Bumped
    <3> QED
      BY <1>3, <1>5, <3>1, <3>2
  <2> QED
    BY <2>1 DEF Reachable
<1> QED
  BY <1>3, <1>4, <1>6, <1>7, <1>8 DEF VerifyWalk

(* The verifiers accept what the writers wrote: a match both engines ended *)
(* alike, on the board its file records (log_checks.py:103-127), and a walk*)
(* exactly when it never bumped (reference_replay.py:126-141), for every   *)
(* board, limit and length.                                                *)
THEOREM HonestLogsVerify == ReplaySpec => []HonestVerifies
<1>1. ReplayInv => HonestVerifies
  BY HonestMatch, HonestWalk DEF HonestVerifies, Verified, ReplayInv, GameInv
<1> QED
  BY <1>1, ReplayInvariance, PTL

(* A signature binds a submission to its peer, its turn and its move, so   *)
(* that an entry which verifies carries the submissions of its own turn.   *)
LEMMA SubmissionsArePlayed ==
  ASSUME MatchInv, log \in Logs(MatchEntry), VerifyLog, NEW i \in DOMAIN log.turns
  PROVE  /\ i \in DOMAIN history
         /\ log.turns[i].submissions = history[i].submissions
<1> DEFINE e == log.turns[i]
<1>1. DOMAIN log.turns = 1 .. Len(log.turns) /\ Len(log.turns) \in Nat /\ e \in MatchEntry
  <2>1. log.turns \in Seq(MatchEntry)
    <3> HIDE DEF MatchEntry
    <3> QED
      BY DEF Logs
  <2> HIDE DEF MatchEntry
  <2> QED
    BY <2>1
<1>2. history \in Seq(Entry) /\ DOMAIN history = 1 .. Len(history) /\ Len(history) \in Nat
  BY DEF MatchInv
<1>3. e.turn = i - 1 /\ e.submissions \in [Peers -> Sub] /\ Copied(e)
  BY <1>1 DEF VerifyLog, CheckTurnIndices, MatchEntry, Entry
<1>4. ASSUME NEW p \in Peers
      PROVE  i \in DOMAIN history /\ e.submissions[p] = history[i].submissions[p]
  <2> DEFINE s == e.submissions[p]
  <2>1. s.digest = Commit(s.state, s.move) /\ s.signature = <<p, i - 1, s.digest>>
    BY <1>3 DEF VerifyLog, CheckCommitments, CheckSignatures, VerifySignature
  <2>2. PICK j \in DOMAIN history, q \in Peers :
          s.signature = history[j].submissions[q].signature
    BY <1>3 DEF Copied
  <2> DEFINE h == history[j].submissions[q]
  <2>3. h.digest = Commit(h.state, h.move) /\ h.signature = <<q, j - 1, h.digest>>
    BY <1>2, <2>2 DEF MatchInv, Genuine, Sign
  <2>4. h \in Sub /\ s \in Sub
    <3>1. history[j] \in Entry
      BY <1>2, <2>2
    <3> QED
      BY <1>3, <3>1 DEF Entry
  <2> HIDE DEF s, h
  <2>5. <<p, i - 1, s.digest>> = <<q, j - 1, h.digest>>
    BY <2>1, <2>2, <2>3 DEF h
  <2>6. p = q /\ i - 1 = j - 1 /\ s.digest = h.digest
    BY <2>5
  <2>7. i = j
    BY <1>1, <1>2, <2>2, <2>6
  <2>8. <<s.state, s.move>> = <<h.state, h.move>>
    BY <2>1, <2>3, <2>6 DEF Commit
  <2>9. s.state = h.state /\ s.move = h.move
    BY <2>8
  <2>10. s = h
    <3> DEFINE D == State \X Action
               G == Peers \X Nat \X D
    <3>1. s \in [state : State, move : Action, digest : D, signature : G]
          /\ h \in [state : State, move : Action, digest : D, signature : G]
      BY <2>4 DEF Sub
    <3>2. s.signature = h.signature
      BY <2>2 DEF h
    <3> HIDE DEF D, G
    <3> QED
      BY <2>6, <2>9, <3>1, <3>2
  <2> QED
    BY <2>2, <2>6, <2>7, <2>10 DEF s, h
<1>5. i \in DOMAIN history
  BY <1>4 DEF Peers
<1>6. history[i].submissions \in [Peers -> Sub]
  <2>1. history[i] \in Entry
    BY <1>2, <1>5
  <2> QED
    BY <2>1 DEF Entry
<1>7. e.submissions = history[i].submissions
  <2> DEFINE f == e.submissions
             g == history[i].submissions
  <2>1. f \in [Peers -> Sub] /\ g \in [Peers -> Sub] /\ \A p \in Peers : f[p] = g[p]
    BY <1>3, <1>4, <1>6
  <2> HIDE DEF f, g
  <2>2. f = g
    BY <2>1
  <2> QED
    BY <2>2 DEF f, g
<1> QED
  BY <1>5, <1>7

(* What one turn of a verified log says, and what is drawn of it.          *)
LEMMA VerifiedMatch ==
  ASSUME ReplayInv, wire = "native", pc = "written", VerifyLog, NEW i \in DOMAIN log.turns
  PROVE  /\ i <= Len(history)
         /\ log.turns[i].submissions = history[i].submissions
         /\ log.barriers = boards["police"] =>
              \A key \in {"cop", "thief", "captured", "count"} :
                log.turns[i].result[key] = history[i].result[key]
         /\ \A key \in {"cop", "thief", "captured"} :
              Frames[i][key] = log.turns[i].result[key]
         /\ \A p \in Peers : Frames[i].checks[p].commitment /\ Frames[i].checks[p].signature
         /\ i = resultFile.turns /\ log.barriers = boards["police"] => Replayed[i] = resultFile.final
<1>1. MatchInv /\ log \in Logs(MatchEntry) /\ resultFile = BuildMatchResult
  BY DEF ReplayInv, GameInv, LogInv
<1>2. Len(log.turns) \in Nat /\ DOMAIN log.turns = 1 .. Len(log.turns)
  <2> HIDE DEF MatchEntry
  <2> QED
    BY <1>1 DEF Logs
<1>3. DOMAIN history = 1 .. Len(history) /\ Len(history) \in Nat
  BY <1>1 DEF MatchInv
<1>4. \A j \in DOMAIN log.turns :
        j \in DOMAIN history /\ log.turns[j].submissions = history[j].submissions
  BY <1>1, SubmissionsArePlayed
<1>5. i \in Nat /\ i # 0 /\ i <= Len(log.turns) /\ i <= Len(history)
  BY <1>2, <1>3, <1>4
<1>6. \A key \in {"cop", "thief", "captured", "count"} :
        log.turns[i].result[key] = Replayed[i][key]
  BY DEF VerifyLog, CheckReplay
<1>7. ASSUME log.barriers = boards["police"] PROVE Replayed[i] = history[i].result
  <2>1. \A j \in 1 .. i : log.turns[j].submissions = history[j].submissions
    BY <1>2, <1>4, <1>5
  <2>2. Replayed[i] = Before(i)
    BY <1>1, <1>5, <1>7, <2>1, ReplayAgrees
  <2> QED
    BY <1>5, <2>2 DEF Before
<1>8. \A key \in {"cop", "thief", "captured"} : Frames[i][key] = log.turns[i].result[key]
  <2>1. /\ Frames[i].cop = Replayed[i].cop /\ Frames[i].thief = Replayed[i].thief
        /\ Frames[i].captured = Replayed[i].captured
    BY DEF Frames
  <2>2. /\ Frames[i]["cop"] = log.turns[i].result["cop"]
        /\ Frames[i]["thief"] = log.turns[i].result["thief"]
        /\ Frames[i]["captured"] = log.turns[i].result["captured"]
    BY <1>6, <2>1
  <2> QED
    BY <2>2
<1>9. ASSUME NEW p \in Peers
      PROVE  Frames[i].checks[p].commitment /\ Frames[i].checks[p].signature
  <2>1. Frames[i].checks = TurnChecks(log.turns[i])
    BY DEF Frames
  <2> DEFINE s == log.turns[i].submissions[p]
  <2>2. s.digest = Commit(s.state, s.move)
        /\ VerifySignature(p, log.turns[i].turn, s.digest, s.signature)
    BY DEF VerifyLog, CheckCommitments, CheckSignatures
  <2>3. /\ TurnChecks(log.turns[i])[p].commitment = (s.digest = Commit(s.state, s.move))
        /\ TurnChecks(log.turns[i])[p].signature
             = VerifySignature(p, log.turns[i].turn, s.digest, s.signature)
    BY Zenon DEF TurnChecks
  <2> QED
    BY <2>1, <2>2, <2>3
<1>10. ASSUME i = resultFile.turns, log.barriers = boards["police"]
       PROVE  Replayed[i] = resultFile.final
  BY <1>1, <1>7, <1>10 DEF BuildMatchResult
<1>11. log.barriers = boards["police"] =>
         \A key \in {"cop", "thief", "captured", "count"} :
           log.turns[i].result[key] = history[i].result[key]
  BY <1>6, <1>7
<1> QED
  BY <1>4, <1>5, <1>8, <1>9, <1>10, <1>11

(* A commitment nobody made again is one of the walk's own.                *)
LEMMA VerifiedWalk ==
  ASSUME ReplayInv, wire = "v3", pc = "written", VerifyWalk, ~resealed,
         NEW i \in DOMAIN log.turns
  PROVE  log.turns[i].payload \in {history[j].payload : j \in DOMAIN history}
<1>1. log.turns \in Seq(WalkEntry)
  <2>1. log \in Logs(WalkEntry)
    BY DEF ReplayInv, LogInv
  <2> HIDE DEF WalkEntry
  <2> QED
    BY <2>1 DEF Logs
<1>2. log.turns[i] \in WalkEntry
  <2> HIDE DEF WalkEntry
  <2> QED
    BY <1>1
<1>3. PICK j \in DOMAIN history : log.turns[i].commit = history[j].payload
  BY <1>2 DEF WalkEntry
<1>4. log.turns[i].commit = log.turns[i].payload
  BY DEF VerifyWalk, Seal
<1> QED
  BY <1>3, <1>4

(* Whatever edits were made, and however many, a log that verifies holds   *)
(* turns of the match in their places, with the results played if the board*)
(* is the one played, and draws without a red badge; a walk's holds cells  *)
(* that were sealed, if nobody sealed one again (replay_match.py:70-87).   *)
THEOREM VerifiedLogsWerePlayed == ReplaySpec => []VerifiedIsPlayed
<1>1. ASSUME ReplayInv, pc = "written", Verified PROVE VerifiedIsPlayed
  <2>1. CASE wire = "native"
    <3>1. VerifyLog
      BY <1>1, <2>1 DEF Verified
    <3> QED
      BY <1>1, <2>1, <3>1, VerifiedMatch DEF VerifiedIsPlayed
  <2>2. CASE wire # "native"
    <3>1. VerifyWalk /\ wire = "v3"
      BY <1>1, <2>2 DEF Verified, ReplayInv, GameInv
    <3> QED
      BY <1>1, <2>2, <3>1, VerifiedWalk DEF VerifiedIsPlayed
  <2> QED
    BY <2>1, <2>2
<1>2. ReplayInv => VerifiedIsPlayed
  BY <1>1 DEF VerifiedIsPlayed
<1> QED
  BY <1>2, ReplayInvariance, PTL
=============================================================================
