# A TLA+ verification of zero-trust-cop

Two groups play pursuit games (a cop, called police on the wire, and a thief on
a small grid with barriers) over a network, without trusting each other. Each
group runs its own servers, its own engine and its own drivers; nothing is
refereed by a third party. This directory models what the program
does on its three wires, from the handshake to the mailed result, checks it with
TLC on small instances and proves part of it with TLAPS.

All source paths are relative to the repository; the program is under `src/src/`.

## 1. Inventory

| Part | State it keeps | Operations | Where |
| --- | --- | --- | --- |
| Engine | barriers, two positions, turn count, history | draw and judge a layout, reset, resolve a joint move | `engine/` |
| Match state, action buffer | an episode, two action slots, a deadline, forfeits | submit, forfeit, reset, lazy expiry | `mcp_server/match_state.py`, `action_buffer.py` |
| Commitment book, submission gate | the open turn, its digests and moves, a deadline, forfeits | `submit_commitment`, `reveal_move`, `get_observation`, `get_match_status` | `mcp_server/commitments.py`, `submissions.py`, `tools.py` |
| Remote match driver | its turn, its move, the replies and statuses collected so far | submit to both servers, poll, cross-examine, record | `scripts/remote_match.py`, `remote_sync.py`, `match_loop.py` |
| Claims sub-game (reference-v3) | a piece, the barriers it learned of, an owed answer, a sealed chain; the server's inbox and audits | walk, seal, push, repeat, await, read, audit | `scripts/claims_match_loop.py`, `claims_guards.py`, `mcp_server/claims_side.py`, `barrier_record.py`, `turn_client.py`, `audit_check.py`, `reference_tools.py` |
| Claims series | the schedule of roles, a summary per sub-game; two servers per group | clear, negotiate, play, harvest | `scripts/claims_runner.py` |
| Push dialect | digests and moves by step, in a store per peer; an engine each | reset, commit, reveal, await, advance, two audits | `mcp_server/push_*.py`, `scripts/push_*.py` |
| Negotiation and pairing | terms, a role, the counter-signature | offer, check, refuse, answer | `mcp_server/negotiate_*.py`, `reference_negotiate.py`, `pairing.py` |
| Dialling layer | sessions by endpoint, whether the first turn was counted | open lazily, reopen, release, reconnect | `scripts/reference_pool.py`, `reference_launch.py`, `reference_run.py` |
| Rate limiter | the start of the last call, calls in flight | space, retry, watchdog | `mcp_server/rate_limiter.py` |
| Settlement, reporting | summaries, logs, the result file, the mail | score, tie award, consensus, confirm, report | `reporting/`, `scripts/reference_artifacts.py`, `settle_official.py`, `league_result.py`, `send_game_report.py` |
| Replay, artifacts | a log and a result file | agree on a board, play, write, verify, render | `scripts/match_loop.py`, `board_agreement.py`, `replay_match.py`, `log_*.py`, `reference_replay.py`, `render_replay.py` |
| Scent, beliefs, policy, thaw | a trail per piece, a belief field, a run of stays | emit, decay, read, deposit, fade, choose, refuse | `mcp_server/smell_*.py`, `strategy/`, `agent/agent_core.py` |
| Keys | a private half per role, the public halves in each workspace | create, publish, withdraw, restore | `mcp_server/keygen.py`, `identity.py` |
| Training, views, operator tools | tables, windows, consoles | learn, draw, prepare | `strategy/qvalues.py`, `gui/`, other scripts |

How they interact. A group's driver calls tools on the servers of both groups;
a handler runs on its server's event loop and, apart from `match_state.submit`,
awaits nothing. `submit` takes a lock inside which it awaits nothing either, so
no handler is ever suspended half way: a handler is one step of the models. What
interleaves is everything between two calls: the other driver's calls, the
clocks of the two servers, repeated calls, and processes that stop.

On the native wire the two servers each keep a full engine, and a driver submits
its sealed move to both. On the reference-v3 wire nobody knows both positions:
turns are pushed into the other group's inbox, the police claims the cell it
stands on, the thief answers one turn later, and the sealed chains are disclosed
and re-hashed at the end. On the push wire each side steps an engine of its own
from digests and moves that land in a store. Before a series the two groups
negotiate; after it each files what it saw, and the two must come to one result.

What is hard here:

* stalls are found lazily, by whoever calls a tool after a deadline, and the
  blame depends on the phase the turn is in;
* forfeits and turn numbers are kept twice, by two objects on one server;
* a turn's result may be put together from four calls to two servers between
  which the opponent keeps playing;
* a call may have been executed although its reply was lost, and is repeated,
  by the limiter, by the session pool and by the launcher;
* on the claims and push wires nothing carries a sub-game number, servers accept
  while drivers are elsewhere, and what is cleared when decides everything;
* facts only one side can know (being boxed in by the opponent's barrier, a
  meeting on the last step) must reach the other before the loop stops;
* each side files its own story of the series, and what settles it is a digest
  that both must compute from their own files;
* logs are judged by people who were not there and may have been edited;
* beliefs are read from decaying trails, lag behind, and outlive a sub-game.

`PROJECT.json` lists these at their lines, with the properties that cover them.

## 2. Modules

| Module | Models | Built on |
| --- | --- | --- |
| `Grid` | cells, moves, neighbours | |
| `Engine` | one `GameEpisode`: the barrier search of every reset and the joint moves | `Grid` |
| `MatchState` | the operators of `MatchState` and `ActionBuffer` (no variables) | |
| `Gate` | one server: gate, commitment book and match state behind the four tools | `MatchState` |
| `SimultaneousTurns` | abstract: what a server, or the two servers of a match, promise, with no wire, clock or turn numbers | |
| `RemoteMatch` | two drivers over two servers (two instances of `Gate`) | `MatchState`, `Gate` |
| `ClaimsSubGame` | two groups in one reference-v3 sub-game | `Grid` |
| `ClaimsSeries` | two groups in a series, two servers each | |
| `PushSeries` | two groups in a series on the push dialect, an engine each | `MatchState` |
| `Handshake` | the negotiate gate in both directions (no variables) | |
| `Reaching` | one group's run against any opponent: URLs, sessions, retries, reconnection | `Handshake` |
| `Settlement` | both groups' files from the first summary to the mail | |
| `Replay` | a local match or a walk, its log, edits of it, and the verifiers | `Grid` |
| `Chase` | one side's choices from scent, belief and refusals | `Grid` |
| `Keys` | the key files of a checkout over several starts | |
| `GateProofs`, `RemoteMatchProofs`, `ClaimsSubGameProofs`, `ClaimsSeriesProofs`, `PushSeriesProofs`, `ReachingProofs` | theorems about the module of that name | |
| `BoardProofs` | theorems about `Engine` and about `Chase` | |
| `EvidenceProofs` | theorems about `Settlement` and about `Replay` | |
| `MC...` | instances for TLC | |

A proof module about two components extends both, so `Chase` and `Replay` prefix
the names they would share with the other (`ChaseInit`, `ReplaySpec`,
`BuildMatchResult`). The two specifications share no state.
Definitions keep the names of the functions they stand for where they can
(`SubmitCommitment`, `RevealMove`, `ExpireIfStale`, `Walk`, `PushedCommit`,
`BuildConsensus`), and `PROJECT.json` maps each to its lines. A definition whose
comment starts with "Seeded bug" is never used by the model: it is what the
definition after it would be with a plausible mistake, and shows which property
would notice.

### Engine

`phase` says whether the episode is drawing a layout, flooding it to see whether
it is connected, being played, or refused by `barrier_layout`'s limit of
attempts. The flood fill is step by step, in any order of its frontier, and
`FillsBoard` counts cells like the code does. `random.sample` is the constant
operator `Sample`, assumed to return that many candidate cells. `laid`
remembers the first board of the episode, so that "every reset lays the same
board" can be said.

### MatchState and Gate

`match` is one record: the played pairs (`played`), the two slots, the deadline
(`left`: how many ticks are left), `over` and the forfeits. The board is seen
only through the constant operator `Captures(history)`: which histories end in
a capture. `Gate` adds the book and `forfeitedBy`. A digest is the token it
seals, or `Unopenable`; a signature verifies or does not. `Tick` lets one unit
of time pass; what is observable about time is only whether a deadline has gone
by, and `Timeout` is how many units it takes. Submissions name any turn in
`Turns` and any role, including one that is no peer. One action is a whole tool:
the lazy expiry, the checks in their order, the book, the episode and the reset
of the book.

### RemoteMatch

`pc` is the next call of a driver. `Commit` and `Reveal` submit to the two
servers in the driver's order, `Status` polls them, `Observe` rebuilds a result
from the observations, `Take` records it and goes on. A call and its handler are
one step, and any step of the other side may come between two calls. `weather`
is chosen once per match: smooth; lossy, where `MaxLost` replies are lost after
the server executed the call and the limiter makes the call again; or stalls,
where either driver may stop at any call and each server's clock runs. The
sequence of played pairs stands for the position it leads to.

### ClaimsSubGame

Each side has a position the other never sees. `Play` is one iteration's first
half (choose, walk, seal, build the turn, push), `Read` the second (await,
`Side.read`, the end conditions), `Repush` the repetition inside `await_turn`,
`Audit` the disclosure and the other server's verdict, `Close` the harvest of
`play_series`. A turn is a record of what decides anything: step, sender,
digest (the sealed record itself), claim, answer, a barrier. A `Scene` fixes what
goes wrong: `placements` lets the other group's cop place barriers (this
program's own cop never does, but its thief must obey them), `rewriters` lets a
side disclose a chain with one record changed, `dials` lets `--opponent-url`
reach the wrong server, `stalls` lets pushes fail, waits run out and peers vanish.

Left out, because the loop reads none of it: hints, scent and timestamps, the
control channel, and messages the server refuses for their shape. A disclosed
chain that lacks a record is not judged: `verify_records` raises no objection to
a step nobody pushed, and the models keep that (`None` in `Tampered`).

### ClaimsSeries

A group is one driver and two servers, one per role; the role, and with it the
server that is listening, alternates. `Open` is the clear at the top of
`play_series`, `Negotiate` the handshake, which the rival's server answers
whatever its driver does, and the fresh `Side`. Positions are gone: a claim hits
or misses. Digests carry their sub-game, turns do not, just like on the wire.
`dropped` remembers that a clear deleted a turn of the very sub-game it opened.

### PushSeries

A group is one driver, two stores (one per role) and the match state of the peer
that plays. `Open` resets both at the boundary, `Commit` and `Reveal` push one
after the other without waiting, `Advance` waits for the rival's digest and move
of the step and submits both moves to the engine, ours first, so that a word
that `decode` refuses leaves half a turn behind. `Audit` discloses the chain to
either audit tool. `Liars` reveal moves they did not seal. The model has one
endpoint of the rival serve both roles, which `run_push_match --opponent-url`
asks for. A message carries its sub-game as history only.

### Handshake and Reaching

`Handshake` has an operator per check of the gate, for the reply an opponent gives and for
the request it sends. `Reaching` is one group's whole run: the URLs as they were typed,
the pool of sessions, the call under way with the limiter's tries and the pool's
one revival, the pause that releases sessions, and the launcher's reconnection
as long as no turn has been counted. A call may fail before or after the server
executed it; `heard` is what each server has executed. `far` is who answers at
each URL: this program, or a foreign implementation with any of the replies it
may give.

### Settlement

Both groups file one series, each from the endings it saw; an ending may differ
for the two sides on the last step, as in `ClaimsSubGame`. `Close` and
`WriteSeries` are the log and the result, `BuildConsensus` and `OfficialScope`
the two scopes that are hashed, `Settle` the confirmation recorded off the wire,
`LeagueResult` the table built from the sealed result and the logs, `Report` and
`Send` the mail in its three modes with the transport's retries. A digest is
its scope.

### Replay

A match of two peers whose contracts may differ (`boards`, `limits`), agreed on
by counts and stated rules, played turn by turn on two engines that are compared;
or a reference-v3 walk. `Write` is the log and the result file, `EditNative` and `EditWalk` what
somebody without the keys may do to the log (drop, swap, copy, renumber, change
a move, a result, a digest or the board, and seal anew what is only hashed),
`Verified` what `replay_match` says and `Frames` what `render_replay` shows.

### Chase

One side against rivals that walk, park, place barriers, send no grid, or send one
that is not of our board. What a rival has placed (`placed`) stops our piece as in
`Side.walk`, and may capture it; a captured piece walks once more, to push its
answer, and reads no turn after that (`pc` is `over`). The mask the choice is made
under does not know what was placed, nor does the count of stays.

Intensities are whole numbers of the decay; the belief, which fades by a ratio, is
kept exact by scaling it with every turn read (`unit` is the scale reached). The
code rounds it to twelve digits, which orders no two cells the other way round; a
cell it rounds to nothing has decayed for hundreds of steps. The policy is the
shipped `manhattan_primary`, or `qtable_primary` on a flat or a learned table; a
learned table is any preference, so learning itself is not modelled.

### Keys

Which private and public halves a checkout holds, `ensure_keys` at every start
of a match script, and the two recoveries its hint names.

## 3. What is checked

| Run | Instance | Shows |
| --- | --- | --- |
| `gate` | 2 tokens, 2 moves, turn numbers -1..3, timeout 1 | no reveal before both commitments (`NoRevealBeforeBoth`); book, engine and both records of a forfeit agree (`OneStory`); blame falls on those the phase waits for (`BlameFollowsPhase`); outcomes are final (`OutcomeStands`); refinement of `SimultaneousTurns`; no opened turn hangs (`StallSettles`) |
| `engine` | 3x3, 2 barriers, five kinds of seed, 4 moves, 3 attempts | play is on connected boards only, within them (`FairGame`), and no connected one is rejected (`RejectsOnlyWalled`), by a definition of connectedness without a search; resets lay the same board (`SameBoard`); a capture is exactly a meeting at half time or at the end of the turn (`CapturedIffMet`); the search ends (`SetupEnds`) |
| `remote_match` | 2 tokens, 2 moves, 1 lost reply | refinement of one `SimultaneousTurns` game by both servers together (`ImplementsOneGame`), no driver is refused in a smooth match (`NeverOutOfStep`), the engines play one game and settled results are never torn or different between the groups (`RecordsTrue`), everybody finishes or is released (`EverybodyEnds`) |
| `claims` | 2x2, 1 repetition; a corridor of 3 steps with a thief that may rewrite its chain, and a storm of 2 steps with barriers, any dial and stalls | a capture is a meeting, and a meeting that is claimed ends the game (`CaptureIsMeeting`); both sides claim the same result unless they meet on the last step (`OutcomesAgreeBeforeLast`); audits accept exactly the sealed chain (`AuditsAreJust`); nobody plays a sub-game of two steps or more out against its own tunnel (`MirrorNeverCloses`); the opponent's barriers bind (`BarriersBite`); nobody waits for ever (`EverybodyEnds`) |
| `claims_concession` | 2x2, 3 steps | violation, see below |
| `series` | 3 sub-games, 2 steps, 2 copies of a turn | turns, evidence and audits of one sub-game never serve another (`ReadsThisGame`, `EvidenceIsOwn`); only a cleared early turn stalls the series (`OnlyClearsStall`) |
| `push` | 3 sub-games, 2 steps, 2 tokens and a bad word, one liar | both engines play the same pairs (`EnginesAgree`), one engine step per turn (`OneStepPerTurn`), `receive_final_audit` tells the sealed chain from any other (`NoncesAreJudged`), only a reset that deletes an early message or an unreadable move stalls (`OnlyResetsStall`) |
| `reaching` | 3 sub-games of 2 steps, 2 URLs, 1 reconnection, 1 retry | no opponent holds turns of two attempts (`OneSeries`); turns arrive in order and every sub-game opens where it belongs (`NothingSkipped`); no turn reaches a peer that plays our side or other terms (`PlaysOnlyAgreed`); the run ends (`RunEnds`) |
| `settlement` | 2 sub-games, 1 retry, 2 reports | points go to who earned them, the two scopes agree, equal stories give equal digests, the league's table adds up (`SettlesTheTruth`); only the rival confirms (`ConfirmedOnEvidence`); what the reporter says of a mail is wrong only by the answers that were lost (`OnlyLossMisleads`) |
| `replay` | 2x2, 2 moves, 2 edits | an honest log of one board verifies (`HonestVerifies`); what verifies after edits was played, entry by entry, and is what the frames show (`VerifiedIsPlayed`) |
| `chase` | 3x3, sub-games of 5 steps, 6 steps over all | a trail points at its piece (`ReadsWhereTheyStand`); no side chooses to stay for long, and only where its steps may be stopped does it stand for long (`FreezesOnlyByBumping`); a cop walks up to a thief that parks (`PursuitArrives`) |
| `keys` | 2 starts | violation, see below |

Why the bounds are enough. Two tokens tell a right reveal from a wrong one and
give histories that end in a capture and histories that run to the limit; two
moves are the first at which a turn number can be stale, a book can be behind
the engine and a pair can be played out of step. Timeout 1 has all three states
of a deadline: unset, running, passed; the push series never lets one pass, since
both submits of a turn are made in one breath. Three sub-games are the first in
which a role, and so a server, is played a second time, and in which a handshake
may be skipped after one that held. On 2x2 the agents can meet, swap, and keep
apart for any number of steps; three steps have a first, a middle and a last one.
On 3x3 with two barriers there are layouts that wall off the cop, the thief and a
third cell. The repetition bounds (`MaxRepush`, `MaxCopies`, `MaxLost`,
`MaxRetries`, `MaxPolls`) stand for budgets that are larger; one repetition is
the first that puts two copies in an inbox or makes a retry run out. Two
sub-games settle a series: each side is played once, and level and uneven points
are both reachable. Two edits compose (change an entry and seal it again); two
turns give a log a first entry, a last one and a wrong order. In `chase` five
steps are more than the board's diameter with a lost step, and the sixth falls
into a second sub-game that inherits the belief of the first. The two cells a rival
may build on (`Placeable`) are the neighbours of the corner a thief flees to: one
of them stops it, both box it in.

Deadlock checking is off in the runs whose systems stop: a match, a sub-game, a
series and a file all end. It is on for `gate`, whose server always accepts
another call.

### Fairness

* `Gate`: `WF(Tick)`, time passes; `WF(Poll)`, the compliant peer polls its own
  server while it waits (`remote_sync.await_turn_count`). Nobody is assumed to submit.
* `RemoteMatch`: weak fairness per driver (a running process makes its next call)
  and per clock. A driver may still stop, as an action of its own.
* `ClaimsSubGame`: weak fairness of each driver's step, and of `GiveUp`, since
  `await_turn` counts its polls. No fairness of `Repush`: progress does not rest on it.
* `ClaimsSeries`: weak fairness of each driver and of `Repush`, which
  `await_turn` makes every 20 polls for as long as it waits.
* `PushSeries`, `Reaching`: weak fairness of the next-state relation as a whole:
  some process goes on, or some call ends, which the watchdog sees to. Which one,
  and how, is left open; nothing in either model repeats without a bound.
* `Engine`: weak fairness of the steps of the layout search, a loop.

No fairness is assumed of choices (moves, claims, losses).

### Disagreements found

Two are runs expected to be violated, with the sentence each contradicts in
`PROJECT.json`.

1. `claims_concession` (`claims_side.py:115`). A thief boxed in by a barrier in a
   turn that also claims another cell overwrites its concession with "not caught"
   and stops. The police plays on.
2. `keys` (`keygen.py:121`). `ensure_keys` protects a shipped public half only
   during the very call that had to make its private half. The second start of a
   match script in the same checkout loads that private half, no longer counts it
   as created, and overwrites the shipped public half, under which the shipped
   log was signed. The docstring says it never happens, and the README calls the second
   run a no-op.

The others were met while modelling. The properties of the passing runs are
stated so that they hold in spite of them, and say so.

On the native wire:

* `remote_match.py:79`: told `resolved` by exactly one server, a driver drops the
  statuses it has just polled, although the other server may have forfeited that
  turn; lines 9-10 say that both are cross-examined every turn. `RecordsTrue`
  compares the two histories of matches without a forfeit only.
* `submit_commitment` does not ask whether the match is over: a commitment for
  the turn after the last is accepted and starts a deadline, whose passing
  records a forfeit on a finished match. Its `terminal_reason` stays what it was
  (`OutcomeStands`).
* `RateLimiter.run` repeats calls the server has executed; the repeated
  submission is refused as `already_committed` and the driver gives the match up.
  The game stays one game all the same, and `NeverOutOfStep` is about smooth matches.
* `peer_processes.py:67`: `wait_for_port` takes any listener on the port for its
  child before it asks whether the child died, so a peer left over from a killed
  run is played against.

On the claims wire:

* `claims_runner.py:79`: a group that is ahead pushes its step 1 before the other
  reaches the clear at the top of its loop. The clear deletes it. The first group then
  reads the other's step 1 and never repeats its own, and the other waits for a
  step it accepted and deleted. This is the deadlock the comment above the clear
  describes; clearing before the handshake narrows the window, but the previous
  sub-game's audit and the persisting of its summary come before the clear, and
  the rival need not wait for them. `OnlyClearsStall` shows that nothing else
  stalls a series.
* `claims_runner.py:124`: the side that audits first copies the audits it has
  received before the other's has arrived, so that audit is in no summary, which
  PRD 22 says is persisted.
* `claims_adapters.py:31`: the policy chooses under the contract's board, without
  the barriers the rival has placed (`claims_side.py:71-73`), and a step that one
  of them stops still sets the count of stays back to zero (`thaw.py:69`). A thief
  cornered beside a placed barrier can so choose the same stopped step again and
  again, and stand there past `max_consecutive_stay` although it has a way out: the
  freezing that PRD 18 is about, which its FR2 bounds only as a count of the word
  `STAY`. `FreezesOnlyByBumping` says where this can happen; without its clause about
  placed barriers TLC finds it in five steps, with the shipped policy.
* `scent.py:12-13` says that the ranking by density is not offered to the thief;
  `claims_adapters.py:37-40` passes it for either role, and the model follows that.
* `reference_tools.py:102`: a meeting on the last step is not settled by the
  audits, though PLAN 10 says it is. The thief closes with capture, the police
  with survival, and both audits are accepted (`OutcomesAgreeBeforeLast`).

On the push wire:

* `submit_audit` compares a chain with an inbox this dialect never fills, so a
  reveal that differs from its commitment is accepted there (`push_match_loop.py:3-8`
  says the audit compares them). `NoncesAreJudged` is about `receive_final_audit`.
* A reveal is pushed without waiting for the rival's commitment, against
  `push_match_loop.py:10-13`; a commitment pushed early is deleted by `_reset`
  and both wait (`OnlyResetsStall`).

Reaching an opponent:

* The pool repeats a call that the limiter's watchdog has ruled lost and that
  its docstring says is never retried; the server may execute it twice.
* `reference_pool.py` says that a reopened session replays nothing; in the middle
  of a sub-game it replays the call that failed. `OneSeries` holds because
  reconnection from the start stops at the first counted turn.
* Each session has a limiter of its own, so a reopened one starts without the
  agreed spacing. A different sub-game number in a reply is printed and played through,
  the uid is compared by nobody, and no caller passes the number the server would
  compare.

Settling:

* Two groups that both run this program never settle officially: each stamps the
  official scope with the times the rival's records carry, and `submit_audit`
  here returns no records, so that `settle_official` ends on a `KeyError`.
* Two contradictory stories of a last step can both be confirmed live and
  mailed, although `email_sender.py:5-8` says that a mail implies agreement. A
  draft that says "not sent" may exist beside a mail that was delivered and whose
  answer was lost, and a required delivery may be reported failed after one;
  `OnlyLossMisleads` says that nothing else makes an answer wrong.
* `league_result` sets `results_agree` from the acceptance of our own chain, and
  `opponent_result_claim` from our own claim. It is called from tests only.
* The 60-30 example in `series_tie.py` cannot arise from sides that alternate.
* `send_game_report` makes its token bucket anew at every start, so it never throttles.

Replaying:

* `reference_replay` never reads the log's barriers, does not check the first
  position, and does not compare a payload's step with the outer one; an honest
  walk that bumped into a barrier reads as tampered (`HonestVerifies` says exactly when).
* A native log cut short verifies; barriers and results are not signed; the
  result file is read by no verifier. `VerifiedIsPlayed` says what is left.
* `run_local_mcp_match` plays the contract of `config/police` and records the
  barriers of the one at the root; board agreement compares how many barriers
  there are, not where.

Choosing:

* A grid whose strongest cell is not on our board is refused by the field with a
  `ValueError` that ends the match, although `smell_reader.py:20-22` says that an
  unreadable grid never does (`claims_adapters.py:50`).
* The belief field belongs to the policy and lives through the whole series
  although `thaw.py:37-40` and the benchmarks start every sub-game with none
  (`PursuitArrives` is about the first).
* With a learned table in `qtable_primary` the policy may choose a step into a wall
  of the contract for ever, for the same reason as with a placed barrier: the bound
  of `thaw` counts words, not positions (the other clause of `FreezesOnlyByBumping`).

## 4. What is proved

By TLAPS, for every value of the constants that satisfies the modules' ASSUMEs.

`GateProofs`, for every set of tokens, timeout, move limit and capture rule:
`TypeCorrect`, `SealsHold`, `BookStaysInStep`, `BlameIsFair`, `OneForfeitStory`,
`ServerTellsOneStory`, `OutcomeIsFinal`, and `Refinement`: `Gate` implements
`SimultaneousTurns`.

The invariants the runs check are not inductive on their own. The strengthening
adds three facts: between two handlers the action buffer is empty
(`BufferIdle`), the episode is over exactly when its history says so
(`OverIsEnded`), and a clock runs exactly for a turn with a commitment
(`ClockFollowsBook`). `TwoSubmissions` shows that the two submissions
`reveal_move` makes to an idle buffer are one step of the episode on that pair;
with it, `NextInv` goes tool by tool. The refinement maps a book that is behind
the engine to an empty turn and hides what the book accepts after the end; each
tool is an abstract step or a stutter, and the lazy expiry is shown separately,
since every tool starts with it.

`BoardProofs` on `Engine`, for every board size, start, sampling function and limit:
`TypeCorrect`, `BoardsAreFair`, `OnlyWalledRejected`, `BoardIsDerived`,
`PositionsAreLegal`, `GamesAreFair`, `AgentsApart`, `CaptureRule`. The flood
fill's invariant (`FloodInv`) is that what it has seen is closed but for the
frontier, and inside every closed set that holds the cop's start; when the
frontier is empty the two together make "the counts are equal" the same as
connectedness (`FloodVerdict`, on the cardinalities in `CellCardinality`).
`CaptureRule` is arithmetic on half-way points: two unit walks pass through each
other only by exchanging cells.

`BoardProofs` on `Chase`, for every board, kernel, pair of starts, length and
number of stays: `TrailPointsAtItsOwner`, `OnlyBumpingFreezes`, `HuntersArrive`. That a
trail points at its owner is inductive once said of every cell (`Points`: the
owner's cell holds exactly what a fresh centre has left, every other one less),
since a decay takes the same from all and the next emission is merged by maximum.
It needs a scent that outlasts one decay (`Decay < Centre` in `ChaseAssumption`:
the contract's are 0.1 and 0.9). For `OnlyBumpingFreezes` the run of
rests is bounded by the run of chosen stays wherever no step of ours may be stopped
(`MayBump`), which is inductive because barriers only accumulate within a sub-game;
`AllowedIs` shows what a forbidden stay leaves to choose from. `HuntersArrive` adds `Hunt`: the belief of a thief that parks is a
strict peak at its cell (`AdvancedPeaks`: fading keeps a peak and a deposit adds
the most at its centre, which is arithmetic on products, `LessProduct`), and the
distance to it is at most the way there less the steps taken, plus the step to
hear of it and one that a refusal may cost (`CopComesNearer`).

`RemoteMatchProofs`, for every set of tokens, timeout, move limit but 0, capture
rule and number of lost replies: `OneGame`, `NobodyIsRefused`, `TrueRecords`. Each
server by itself satisfies what `GateProofs` shows of one (`Sound`, on the two
servers written as records). What is new is between a server and a driver
(`Together`): the server is at the driver's turn, has played it, or was forfeited
after the driver revealed; what the book holds of the driver is its submission
of this turn. From it follows what holds between the servers (`Alike`): their
histories agree where both have one, and are at most one turn apart, since
neither driver leaves a turn before both servers have played it or one has
forfeited it. What a driver was told stays true (`Truthful`): an answer that
settles a turn is never overtaken, because the server cannot go on without that
driver. Hence two resolved answers never differ, a torn observation is never kept,
and statuses clash only if a server forfeited. `Smooth` is the pace of a match
without losses or stalls, in which no call can come out of step. The proof goes
in two phases: a handler as a relation between two records, then the driver
that called it.

`OneGame` is the refinement: the two servers together implement one
`SimultaneousTurns`. The game's log is the history of the engine that is ahead
(`Front`) and its seals are what either book holds of the turn after that
(`Held`, `Shown`); a turn counts as played once both moves are on some book, since
from then on nothing can change it. It rests on one more invariant, `OneSeal`: what a
book holds of a driver for the engine's turn is that driver's submission of it, as
long as the driver is at that turn, and both books hold the same, even where a
clock has run out since. `EveryStep` reduces
a step to a stall check, one accepted commitment or one accepted reveal; each is
then a step of the game, or a stutter when it happens on the server that lags or
repeats what the other book already holds.

`ClaimsSubGameProofs`, for every board, length, dial and number of repetitions:
`Captures`, `Outcomes`, `AuditsJudge`, `NoMirror`, `BarriersBind`. The invariant says what a
side seals (one record a step, `Sealing`), that every push says what was sealed
and every sealed step is in the inbox it was dialled to (`Delivery`), and, without
barriers, what the two chains mean (`Bare`): a turn claims the cell sealed with
it, the thief's answer is the truth about the step before, and neither side
seals a second step after a meeting. The two outcomes are then read off the chains.
`AuditsJudge` needs the last index of a step in the inbox, as the code's reversed
scan does; that it exists is the least-number principle, `LeastNat`, from
well-foundedness. The proof of `NoMirror` showed that it is about sub-games of
two steps or more: with one step, the only turn of the opponent ends the
sub-game of a side that otherwise hears itself, and `MirrorNeverCloses` says so.

`ClaimsSeriesProofs`, for every number of sub-games, steps and copies:
`OwnEvidence`, `ReadsItsOwnGame`. Nothing on the wire names a sub-game, so the
argument is about time (`Pace`): the drivers are at most one sub-game apart, and the one
ahead cannot get past its first turn. A server belongs to one role, which comes
back every second sub-game and is cleared when it does; so whatever lands in it
is of the current sub-game or of one too far away to be sent (`Lands`,
`LandsHere`). That serves turns and audits alike. `Kept` says that what was told
is still there unless `dropped`, so that a disclosure finds every digest.

`PushSeriesProofs`, for every number of sub-games and steps, engine, set of
liars and audit tools: `EnginesPlayAlike`, `OneStepEach`, `AuditsTellTheTruth`. The pace is the
same, and a driver that is ahead has an empty store; roles swap, so that messages of
neighbouring sub-games land in different stores (`Crossing`). What an engine has
played is what its store holds of the rival (`Kept`) and what its own driver
revealed (`Revealed`); put together for both sides, the pairs are the same
(`Alike`). `Pushed` keeps every digest of a chain in the rival's store until a
reset deletes one.

`ReachingProofs`, for every opponent, pair of URLs and number of attempts,
retries, polls and sub-games: `TypeCorrect`, `OneSeriesOnly`, `NothingIsSkipped`,
`PlayedAsAgreed`. The invariant of the first adds to `OneSeries`
that nothing has been heard before a turn is counted, and that a call that
carries a turn is under way only after the counting: the launcher counts before
it calls, which is why an execution whose answer was lost cannot be followed by a
second attempt. The others rest on `Order`: what every server has heard is
in order and of sub-games it did not contradict (`Kept`), and the call under way
presupposes what it needs (`Standing`): a turn is the next one there, or has already
landed, which is what a retry repeats. A peer that contradicts the handshake is
never at a turn.

`EvidenceProofs` on `Settlement`, for every length of a series, scoring, number of retries and
set of reporters: `ReportsMissOnlyLosses`. What makes it inductive is that a report
exists only once the series is no longer played, so that the file it was read
from is not written again but by a confirmation; and that a delivery that may
still be retried has lost at most as many answers as it has made attempts (`Sound`).
`SoundReport` reads the property off.
And `ConfirmationHasEvidence`: only the rival's word confirms. Its invariant
(`EvidenceInv`) says that every list of summaries tells the play as its owner
saw it, that the logs are those summaries until the result is filed, and that a
filed result is of the complete play, so that a confirmation after it can still
be read against the same story; `OneScopeOneStory` takes equal scopes apart, row
by row, into equal stories, without looking at any sum. `SettlementIsTrue` is read
off the same invariant: who is cast as what is arithmetic on the schedule
(`Casting`, `OurRow`), and two tables have the same totals because they sum the same
function over the same rows, so the proof never opens a sum. That a sum of many rows
is the number it should be is what TLC evaluates.

`EvidenceProofs` on `Replay`, for every board, limit, length of a match and number of
edits: `HonestLogsVerify`, `VerifiedLogsWerePlayed`. Of the match, `MatchInv` says
that entry by entry what was sent is bound to its turn and its move, and the
result is one turn from the result before it (`Genuine`). Of the file, `LogInv`
says what no edit changes: every submission in it carries a signature that was
made in the match (`Copied`), every record of a walk a commitment that was made,
unless somebody sealed anew. So the invariant is about each entry alone and holds
through any composition of edits, in any order. A verified entry then has its
turn, its peer and its digest from the signature, and its move from the digest
(`SubmissionsArePlayed`). The replay is a recursive function of the log:
`ReplayedIs` shows that it satisfies its equation, and `ReplayAgrees` that on the
board played it is the match, both by the least counterexample (`LeastNat`, from
well-foundedness), since induction itself takes an operator.

Only model-checked: liveness, which needs fairness and ENABLED: `StallSettles`,
`SetupEnds`, `EverybodyEnds` (in two runs), `OnlyClearsStall`, `OnlyResetsStall` and
`RunEnds`. Every other property of a passing run is a theorem.

Assumed, not proved: SHA-256 has no collisions and signatures cannot be made
without the key (a digest is what it seals); `random.sample` samples; handlers
are not suspended, which rests on the reading of the code above.

## 5. What is not modelled

* The unified endpoint: it answers handshakes on one port, dispatches by a role set at
  start and plays no series.
* Shapes and spellings of messages (`wire_v3.py`, `wire_vocab.py`, most of
  `push_messages.py`): the models build messages that are well formed; a refused one
  changes nothing. Of the vocabulary, `decode` and `strongest_cell` are modelled.
* The clock of the rate limiter, and its concurrency: when a call is made does
  not change which calls are made.
* Learning, opponents that explore, the belief tracker and foresight, training
  and benchmarks: numeric and offline.
* The text of reports, file names, identities, the audits of filed artifacts,
  consoles, views, connectors and command lines.
* A series abandoned half way in `ClaimsSeries` and `PushSeries`: a driver that
  would give up stays waiting, which is what their liveness is about. `Reaching`
  and `Settlement` do abandon series.

## 6. Plan

1. `ClaimsSubGame` as an implementation of an abstract pursuit in which captures
   are announced.
2. A clock in `Reaching`: spacing over several sessions, and the concurrency cap.
3. Longer instances of `replay` and `chase`: a third turn, a third edit, a
   rival that builds while it walks.
