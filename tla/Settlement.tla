----------------------------- MODULE Settlement -----------------------------
(***************************************************************************)
(* From a played series to the report that leaves: the summary and the log *)
(* of each sub-game as it closes, the result and its consensus when the    *)
(* series is over, the settlement recorded off the wire afterwards, and    *)
(* the mail.  Both groups file the same series, each from what it saw.     *)
(*                                                                         *)
(* Hashes are injective, so a digest is its scope.  Times, commits and     *)
(* names are left out, except whose clock stamped a sub-game: the official *)
(* scope takes it from the records the rival disclosed.                    *)
(***************************************************************************)
EXTENDS Integers, Sequences, FiniteSetsExt

CONSTANTS
  SubGames,      \* SUB_GAMES, what an off-the-wire settlement must cover
  Scoring,       \* the agreed table: capture, survival -> side -> points
  TieScore,
  MaxRetries,    \* of the mail transport
  Reporters,     \* the groups whose settlement and mail are followed
  MaxReports     \* bound: times send_game_report is started

Groups == {"A", "B"}
Sides == {"cop", "thief"}
Reasons == {"capture", "survival"}
Modes == {"auto", "draft", "send"}

ASSUME SettlementAssumption ==
  /\ SubGames \in Nat \ {0} /\ TieScore \in Nat /\ MaxRetries \in Nat
  /\ Scoring \in [Reasons -> [Sides -> Nat]] /\ Reporters \subseteq Groups

Rival(g) == CHOOSE x \in Groups : x # g
Opposed(side) == IF side = "cop" THEN "thief" ELSE "cop"

\* How a sub-game ended for the two sides.  The last step may leave the
\* thief with a capture and the cop with a survival (ClaimsSubGame).
Endings == {[cop |-> "capture",  thief |-> "capture"],
            [cop |-> "survival", thief |-> "survival"],
            [cop |-> "survival", thief |-> "capture"]}

\* What the rival's submit_audit answered: its verdict, and the records of
\* its own chain some implementations add.
Receipts == {[accepted |-> TRUE,  records |-> "none"],
             [accepted |-> TRUE,  records |-> "whole"],
             [accepted |-> TRUE,  records |-> "forged"],
             [accepted |-> FALSE, records |-> "whole"]}

VARIABLES
  native,   \* does B run this code, stamping its scope from A's records?
  asked,    \* --sub-games
  played,   \* the endings, in order
  run,      \* playing, filed or broken, for each group
  closed,   \* summaries: one per sub-game a group has closed
  logs,     \* log_<game>_gNN.json on disk, by number
  result,   \* result_<game>.json
  mail      \* the group's last report; landed and lost are history: how many
            \* mails of it left, and how many of these were answered by an error

vars == <<native, asked, played, run, closed, logs, result, mail>>

NoResult == [written |-> FALSE]
NoMail == [runs |-> 0, mode |-> "auto", tries |-> 0, landed |-> 0, lost |-> 0,
           draft |-> FALSE, said |-> "idle"]

Init ==
  /\ native \in BOOLEAN /\ asked \in 1..SubGames
  /\ played = <<>>
  /\ run = [g \in Groups |-> "playing"]
  /\ closed = [g \in Groups |-> <<>>]
  /\ logs = [g \in Groups |-> <<>>]
  /\ result = [g \in Groups |-> NoResult]
  /\ mail = [g \in Groups |-> NoMail]

\* A opens as the cop; the sides swap every sub-game.
SideIn(g, n) == IF (g = "A") = (n % 2 = 1) THEN "cop" ELSE "thief"
---------------------------------------------------------------------------
(* The scopes.  A game row is [number, side, reason], a scope its rows and *)
(* their aggregate.                                                        *)

\* Seeded bug: every row keeps the series mapping.
RolesForMutant(g, game, first) ==
  [s \in Sides |-> IF s = first THEN g ELSE Rival(g)]

\* _roles_to_groups and _roles_for: the side a row declares, not the one the
\* series opened with.
RolesFor(g, game, first) ==
  [s \in Sides |-> IF s = game.side THEN g ELSE Rival(g)]

SubGameScore(game, roles) ==
  [x \in Groups |-> Scoring[game.reason][CHOOSE s \in Sides : roles[s] = x]]

WinnerOf(score) ==
  IF score["A"] = score["B"] THEN "none"
  ELSE CHOOSE x \in Groups : score[x] > score[Rival(x)]

AwardSeriesTie(total) ==
  IF total["A"] = total["B"] THEN [x \in Groups |-> total[x] + TieScore] ELSE total

Aggregate(rows) ==
  LET sum == [x \in Groups |-> SumFunction([i \in DOMAIN rows |-> rows[i].score[x]])]
      total == AwardSeriesTie(sum)
  IN  [total |-> total, winner |-> WinnerOf(total),
       won |-> [x \in Groups |-> Cardinality({i \in DOMAIN rows : rows[i].winner = x})]]

\* build_consensus: our own scope, what both sides must sign alike.
BuildConsensus(g, games) ==
  LET row(i) ==
        LET roles == RolesFor(g, games[i], games[1].side)
            score == SubGameScore(games[i], roles)
        IN  [number |-> games[i].number, roles |-> roles, result |-> games[i].reason,
             score |-> score, winner |-> WinnerOf(score)]
      rows == [i \in DOMAIN games |-> row(i)]
  IN  [rows |-> rows, aggregate |-> Aggregate(rows)]

\* official_scope.build: the league's.  Sides come from the log, times from
\* the records the rival disclosed there; a foreign group stamps its own.
OfficialScope(g) ==
  LET ours == g = "A" \/ native
      side(n, x) == IF x = g THEN logs[g][n].side ELSE Opposed(logs[g][n].side)
      row(i) ==
        LET game == result[g].games[i]
            score == [x \in Groups |-> Scoring[game.reason][side(game.number, x)]]
        IN  [number |-> game.number, clock |-> IF ours THEN Rival(g) ELSE g,
             roles |-> [x \in Groups |-> side(game.number, x)],
             result |-> game.reason, score |-> score, winner |-> WinnerOf(score)]
      rows == [i \in DOMAIN result[g].games |-> row(i)]
  IN  [rows |-> rows, aggregate |-> Aggregate(rows)]

\* digest: over the whole serialized scope.
Digest(scope) == scope
---------------------------------------------------------------------------
(* Playing and filing.                                                     *)

\* A sub-game is played to its end.
Play ==
  /\ Len(played) < asked
  /\ \A g \in Groups : run[g] = "playing" /\ Len(closed[g]) = Len(played)
  /\ \E e \in Endings : played' = Append(played, e)
  /\ UNCHANGED <<native, asked, run, closed, logs, result, mail>>

\* play_series appends the summary, and keep() lands its log, at once.
Close(g) ==
  /\ run[g] = "playing" /\ Len(closed[g]) < Len(played)
  /\ \E r \in Receipts :
       LET n == Len(closed[g]) + 1
           side == SideIn(g, n)
           summary == [number |-> n, side |-> side, reason |-> played[n][side], reply |-> r]
       IN  /\ closed' = [closed EXCEPT ![g] = Append(@, summary)]
           /\ logs' = [logs EXCEPT ![g] = Append(@, summary)]
  /\ UNCHANGED <<native, asked, played, run, result, mail>>

\* The run dies between two sub-games: its summaries go with it.
Break(g) ==
  /\ run[g] = "playing" /\ Len(closed[g]) < asked
  /\ run' = [run EXCEPT ![g] = "broken"]
  /\ closed' = [closed EXCEPT ![g] = <<>>]
  /\ UNCHANGED <<native, asked, played, logs, result, mail>>

\* Seeded bug: one accepted receipt confirms the series.
LiveAgreementMutant(summaries) == \E i \in DOMAIN summaries : summaries[i].reply.accepted

\* _accepted over every summary: silence is not acceptance.
LiveAgreement(summaries) == \A i \in DOMAIN summaries : summaries[i].reply.accepted

\* build_result: what a group files of its closed sub-games.
BuildResult(g) ==
  LET games == [i \in DOMAIN closed[g] |->
                  [number |-> closed[g][i].number, side |-> closed[g][i].side,
                   reason |-> closed[g][i].reason]]
  IN  [written |-> TRUE, games |-> games, confirmed |-> LiveAgreement(closed[g]),
       consensus |-> BuildConsensus(g, games), official |-> FALSE]

\* write_series_artifacts: the logs again, and the result.
WriteSeries(g) ==
  /\ run[g] = "playing" /\ Len(closed[g]) = asked
  /\ run' = [run EXCEPT ![g] = "filed"]
  /\ logs' = [logs EXCEPT ![g] = closed[g]]
  /\ result' = [result EXCEPT ![g] = BuildResult(g)]
  /\ UNCHANGED <<native, asked, played, closed, mail>>
---------------------------------------------------------------------------
(* Settling afterwards.                                                    *)

\* _records_verify: every record the rival disclosed re-hashes.  A receipt
\* without records ends the command on a KeyError before this.
RecordsVerify(g) == \A n \in DOMAIN logs[g] : logs[g][n].reply.records = "whole"

\* verify: the full series, all of it re-hashed, and the digest the rival
\* published for the series as it filed it.
Verify(g) ==
  /\ Len(result[g].games) = SubGames /\ Len(logs[g]) = SubGames
  /\ RecordsVerify(g)
  /\ Digest(OfficialScope(g)) = Digest(OfficialScope(Rival(g)))

\* confirm: what is recorded beside the digest of the played series.
Confirm(filed) == [filed EXCEPT !.confirmed = TRUE, !.official = TRUE]

\* main of settle_official: confirm, or refuse and leave the file alone.
Settle(g) ==
  /\ g \in Reporters
  /\ result[g].written /\ result[Rival(g)].written
  /\ Verify(g)
  /\ result' = [result EXCEPT ![g] = Confirm(@)]
  /\ UNCHANGED <<native, asked, played, run, closed, logs, mail>>
---------------------------------------------------------------------------
(* The league's table, from a sealed result and the logs beside it.        *)

\* _audit: what was verified is the rival's acceptance of our chain, and that
\* the results agree is read off the same answer.
Audit(entry) ==
  [logVerified |-> entry.reply.accepted, tampered |-> FALSE,
   resultsAgree |-> entry.reply.accepted, claim |-> entry.reason]

\* _sub_game: a row of the consensus and the log of its number.
SubGame(g, row) ==
  [number |-> row.number, roles |-> row.roles, result |-> row.result,
   winner |-> row.winner, tie |-> row.winner = "none", score |-> row.score,
   audit |-> Audit(logs[g][row.number])]

\* league_result: copied from what was sealed, nothing is counted again.
LeagueResult(g) ==
  LET sealed == result[g].consensus
  IN  [rows |-> [i \in DOMAIN sealed.rows |-> SubGame(g, sealed.rows[i])],
       final |-> sealed.aggregate, sha256 |-> Digest(sealed),
       confirmed |-> result[g].confirmed]
---------------------------------------------------------------------------
(* The report.                                                             *)

\* send_game_report refuses a result that nobody confirmed.
Reportable(g) == result[g].written /\ result[g].confirmed

\* _write_draft: the report, into the drafts directory.
WriteDraft(m) == [m EXCEPT !.draft = TRUE, !.said = "ok"]

\* send_game_report: refused, drafted, or handed to the transport.
SendGameReport(g, mode) ==
  LET report == [NoMail EXCEPT !.runs = mail[g].runs + 1, !.mode = mode]
  IN  IF ~Reportable(g) THEN [report EXCEPT !.said = "failed"]
      ELSE IF mode = "draft" THEN WriteDraft(report)
      ELSE [report EXCEPT !.said = "sending"]

\* main: a report is started; mail tells of the last one only.
Report(g) ==
  /\ g \in Reporters
  /\ mail[g].said # "sending" /\ mail[g].runs < MaxReports
  /\ run[g] # "playing"
  /\ \E mode \in Modes : mail' = [mail EXCEPT ![g] = SendGameReport(g, mode)]
  /\ UNCHANGED <<native, asked, played, run, closed, logs, result>>

\* Seeded bug: send mode falls back to a draft too.
GivesUpMutant(m) == WriteDraft(m)

\* What an attempt that raises for good leaves: send mode reports it, auto
\* falls back to a draft.
GivesUp(m) ==
  IF m.mode = "send" THEN [m EXCEPT !.said = "failed"]
  ELSE WriteDraft(m)

\* One attempt of gmail_send: it lands; or the credentials are unusable,
\* which is never retried; or it fails, with the mail accepted or not.
Send(g) ==
  /\ mail[g].said = "sending"
  /\ LET m == mail[g] IN
       \/ mail' = [mail EXCEPT ![g].landed = @ + 1, ![g].said = "ok"]
       \/ mail' = [mail EXCEPT ![g] = GivesUp(m)]
       \/ \E accepted \in {0, 1} :
            LET later == [m EXCEPT !.landed = @ + accepted, !.lost = @ + accepted,
                                   !.tries = @ + 1]
            IN  mail' = [mail EXCEPT ![g] =
                           IF m.tries = MaxRetries THEN GivesUp(later) ELSE later]
  /\ UNCHANGED <<native, asked, played, run, closed, logs, result>>

Next ==
  \/ Play
  \/ \E g \in Groups :
       Close(g) \/ Break(g) \/ WriteSeries(g) \/ Settle(g) \/ Report(g) \/ Send(g)

Spec == Init /\ [][Next]_vars
---------------------------------------------------------------------------
(* Properties.                                                             *)

\* What x earned in sub-game n, told from the ending itself.
Earned(x, n, told) == Scoring[told][SideIn(x, n)]

\* The story a group tells: sub-game by sub-game, as its own side saw it.
Story(g) == [i \in 1..asked |-> played[i][SideIn(g, i)]]

\* A filed result pays every sub-game to the group that played the side, the
\* tie award exactly when the points are level; two groups with one story
\* file equal preimages; the league's scope agrees with our own on every
\* score, and its table adds up to the points that were earned, each row
\* beside the log of that sub-game (settlement.py:118-140,
\* official_scope.py:117-130, league_result.py:107-144).
SettlesTheTruth ==
  \A g \in Groups : result[g].written =>
    LET story == Story(g)
        points == [x \in Groups |-> SumFunction([n \in 1..asked |-> Earned(x, n, story[n])])]
        due == IF points["A"] = points["B"]
               THEN [x \in Groups |-> points[x] + TieScore]
               ELSE points
        ours == result[g].consensus
        table == LeagueResult(g)
    IN  /\ \A n \in 1..asked :
             \A s \in Sides : SideIn(ours.rows[n].roles[s], n) = s
        /\ ours.aggregate.total = due
        /\ OfficialScope(g).aggregate = ours.aggregate
        /\ table.final.total = due
        /\ points = [x \in Groups |-> SumFunction([n \in 1..asked |-> table.rows[n].score[x]])]
        /\ \A n \in 1..asked : table.rows[n].audit.claim = table.rows[n].result
        /\ (result[Rival(g)].written /\ Story(Rival(g)) = story)
             => result[Rival(g)].consensus = ours

\* A result is confirmed only by the rival: it accepted our chain in every
\* sub-game, or both filed the same story of a full series and each record
\* it disclosed holds (reference_artifacts.py:114, settle_official.py:46).
\* A table confirmed at the end of the series shows no sub-game unverified.
ConfirmedOnEvidence ==
  \A g \in Groups : (result[g].written /\ result[g].confirmed) =>
    /\ Len(logs[g]) = asked
    /\ ~result[g].official => \A n \in 1..asked : LeagueResult(g).rows[n].audit.logVerified
    /\ \/ \A n \in 1..asked : logs[g][n].reply.accepted
       \/ /\ asked = SubGames /\ result[Rival(g)].written
          /\ Story(g) = Story(Rival(g))
          /\ \A n \in 1..asked : logs[g][n].reply.records = "whole"

\* Told that it was sent, by an answer that is not the draft's.
ToldSent(m) == m.said = "ok" /\ ~m.draft

\* Only a confirmed result leaves or is drafted, and only a lost answer makes
\* what the reporter says of a mail wrong.  Told sent, the league has it, and
\* once more for every answer lost before; told "failed", or left with a draft
\* that says "not sent", it has it exactly as often as answers were lost.  No
\* draft stands in for a delivery that was required, a draft mode mails
\* nothing, and the attempts of a start bound what it mails
\* (email_sender.py:65-104, gmail_transport.py:72-82).
OnlyLossMisleads ==
  \A g \in Groups : LET m == mail[g] IN
    /\ (m.landed > 0 \/ m.draft \/ ToldSent(m)) => Reportable(g)
    /\ m.landed = m.lost + (IF ToldSent(m) THEN 1 ELSE 0)
    /\ m.draft => m.said = "ok" /\ m.mode # "send"
    /\ m.mode = "draft" => m.landed = 0
    /\ m.landed <= MaxRetries + 1
=============================================================================
