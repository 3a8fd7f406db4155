# Pursuit: TLA+ models, checks and proofs

Pursuit (`src/pursuit`) is a peer-to-peer cops-and-robbers game.  Two autonomous
agents, each a process with an MCP server and an HTTP client, agree on signed
terms, play a series of sub-games turn by turn with no referee, and settle every
sub-game by revealing the sealed log of their own moves to each other.  This
directory holds the TLA+ models of the parts whose correctness depends on the
order of things: the turn protocol with its retrying transport, the mutual
audit, the series loop with its window handshake, and the report that the
processes of a group build from each other's files; and of the parts whose
arithmetic or case analysis everything else rests on: the signed agreement, the
scent and what a peer reads from it, the brains in the lab's referee, the clocks
of a process, its e-mail gates, its sealed log and its trust in hints.

## 1. Inventory

| Component | State it keeps | Operations | Hard behaviour |
|---|---|---|---|
| Board and rules (`domain/board.py`, `domain/rules.py`) | none | step, legal moves, barrier reach, quota, jail, landing | boundary cells, a move set without some directions |
| Peer runtime (`peer/runtime.py`, `turn_sender.py`, `turn_handler.py`, `fsm.py`, `domain/own_state.py`) | FSM, position, barrier map, quota, sealed log, live commits, breach count, answer due | take a turn, digest a turn, two ceilings, every exception path | two private views of one game; duplicates; a turn applied but not acknowledged; one-sided endings |
| Transport and inboxes (`infra/transport.py`, `infra/mcp_server.py`, `peer/inboxes.py`, `peer/deadlines.py`) | four unbounded FIFO queues per process, deadlines | call with retries until a deadline, put, get with timeout, drain | at-least-once delivery, lost replies, requests that outlive their call |
| Audit (`peer/audit.py`, `replay_audit.py`, `sealing.py`) | audit inbox, verdict | reveal, bind to live commits, trajectory check, end-state digest | absence versus forgery, partial logs, late reveals |
| Series and handshake (`sdk/series.py`, `peer/handshake.py`) | window number, rows | drain, offer, re-offer, skip, refuse, play, settle | peers in different windows, stale offers, turns and reveals of another window |
| Terms, ids, scoring (`domain/negotiation.py`, `game_ids.py`, `scoring.py`, `peer/agreement.py`) | none | pure functions | two configurations judged by each side alone, optional locks, rows from logs |
| Crypto (`domain/crypto`, `interface/replay_verify.py`) | none | hash dialects, Ed25519, two auditors | a reveal changed and made consistent again; dialects that differ |
| Scent and belief (`domain/scent`, `domain/belief`) | floating-point grids | absorb, decay, predict, update | rounding drift, overlapping trails, a history given up; an exception after the turn was applied |
| Brains (`strategy`, `peer/brain_clock.py`, `peer/hint_fusion.py`) | private | decide under a deadline; read and fuse hints; profile | any answer, an exception, an abandoned worker; walls that trap their builder, steps into a jail |
| Watchdog (`peer/watchdog.py`) | last kick per heartbeat, fired alarms | kick, scan, ring | a kick between a scan and its callback; fires during a legitimate wait |
| Gatekeeper, e-mail (`infra/gatekeeper.py`, `email.py`) | call window, bucket, breaker, hourly window | execute, send | windows that refusals and probes pass through in any order |
| Report (`sdk/series_log.py`, `report`) | files of sibling processes | merge, emit, file once | two processes that decide from each other's files |
| Lab (`lab`, `sdk/lab_*.py`) | none shared | simulate matches | a capture rule that differs from the live one |
| Interface, SDK, configuration, tools, `archive/q20` | - | - | input and output, wiring, or not part of the system |

**How they interact.**  A process runs `run_series`; for every window it drains
its turn and audit inboxes, builds a `PeerRuntime` and calls `run`.  `run`
handshakes over `negotiate`, alternates `TurnSender.take_turn` (an outbound
`receive_turn` call) and `TurnHandler.process` (a blocking read of the turns
inbox), and ends with `submit_audit` and a read of the audits inbox.  The MCP
server thread only puts messages into inboxes.  So the two processes share
nothing but messages (the two fixed-role processes of one group also share a
directory of logs), and within a process the only concurrency that reaches
the game is "the server thread may append to an inbox at any time".

**What makes it correct.**  The two private views must stay one game (what was
applied is what was sealed, once, in order; the barrier maps agree where it
matters; one token), an ending must be true of the board, the audit must accuse
nobody who is honest, the endings and digests the two file must agree where the
protocol promises it, every wait must end, the peers must be in the same window when
they play under one contract, and a series must be reported once, whole and
as the partner reports it.  Beside the protocol: what a peer infers from scent
and hints must not hide the truth, a brain must not lose by its own rules, two
live peers must not time each other out, and the alarm, the e-mail limits and
both auditors must do what they say.

## 2. Modules

| Module | Models | Extends |
|---|---|---|
| `Board` | grid, move set and referee rules, pure operators | - |
| `TurnGame` | the promise: one refereed game, steps in turn, earned outcomes | `Board` |
| `PeerGame` | one sub-game between two peers, with the network and the audit | `Board`; INSTANCE `TurnGame` |
| `PeerGameProofs` | type correctness; theorems on the exchange of turns and on the audit | `PeerGame`, `TLAPS` |
| `PeerGameEndings` | the refinement of `TurnGame`; theorems on how a sub-game ends and is accounted for | `PeerGameProofs` |
| `Series` | windows, handshake, drains, what crosses between sub-games | - |
| `SeriesProofs` | theorems about `Series` | `Series`, `TLAPS` |
| `SeriesReport` | the logs of a group, the merge, the result file, the single emitter | - |
| `SeriesReportProofs` | theorems about `SeriesReport` and `Settlement` | `Settlement`, `TLAPS` |
| `Settlement` | scores, rows, totals, the result artifact and the agreement scope | `SeriesReport` |
| `Agreement` | configuration, signed terms, locks, what each side accepts | - |
| `Scent` | the three scent laws and the scoring of a cell | `Board` |
| `Tracking` | one peer followed by its scent, live after an agreement or in the lab | `Agreement`, `Scent` |
| `TrackingProofs` | theorems about the agreement, and about what the reader makes of a grid under every scent law | `Tracking`, `TLAPS` |
| `Paths` | breadth-first distances around walls | `Board` |
| `Brains` | the decision of every registered brain | `Paths` |
| `Arena` | the lab's referee with two brains | `Brains` |
| `ArenaProofs` | theorems about the brains and their referee | `Arena`, `TLAPS` |
| `TurnClock` | every deadline of the turn loops, the watchdog | - |
| `TurnClockProofs` | theorems about the watchdog and the deadlines | `TurnClock`, `TLAPS` |
| `Gatekeeper` | quota, bucket, breaker, the sender's hourly limit | - |
| `Sealing` | the sealed log, its reveal with the trajectory check, the two auditors | - |
| `Trust` | hints, their reliability, their effect on the belief, the profiler | - |
| `ProcessProofs` | theorems about these three | `Gatekeeper`, `Sealing`, `Trust`, `TLAPS` |
| `MCPeerGame`, `MCSeries`, `MCSeriesReport`, `MCTracking`, `MCArena` | constants of the checked instances | each its module |
| `MCProcess` | `TurnClock`, `Gatekeeper`, `Sealing`, `Trust` and `Settlement` side by side | those four, `MCSeriesReport` |

Definitions marked "Mutant" are plausible slips of the definition they stand
next to; nothing uses them but the list of mutants in `PROJECT.json`, and each
makes TLC find one property violated.

### PeerGame

Both peers run the same code, so every variable is a function from roles.

| Variable | In the code |
|---|---|
| `fsm` | `GameStateMachine.state` from the first turn on (`GAME_OVER` until the reveal, `AUDITING` until the verdict) |
| `result` | what `_turn_loop` returned, then what `run` reports |
| `pos`, `walls`, `placed` | `OwnGameState.position`, `barriers`, `my_barriers` |
| `log` | `SealedLog` without step 0; the n-th record seals step n, so its length is the step counter |
| `seen` | `TurnHandler.commits`; its length is `last_step` |
| `oppPlaced`, `breaches` | `TurnHandler.opponent_barriers`, `breaches` |
| `due` | the `claim_response` the loop carries to the next own turn |
| `call`, `wire` | the outbound `receive_turn` call and its request copies |
| `turns`, `audits` | the inboxes |
| `theirs`, `verdict` | what `exchange_audits` read and concluded |

A **commit is the sealed record itself** (no collisions), a record is a position
and a barrier set (what the `state` string holds and the checks read).

| Action | In the code |
|---|---|
| `TakeTurn` | `take_turn` up to the call: any brain answer, guard, apply, seal, compose, `SENDING` |
| `BrainRaises` | an exception before the message is out, caught by `run` |
| `SendReturns` | the call is acknowledged: terminal, move ceiling, or `OPP_TURN` |
| `Retry`, `GiveUp` | `_send` after a failed attempt: again, or `TransportError` |
| `Deliver`, `Lose`, `Stray` | the network; a stray is a message that is not of this sub-game |
| `Accept`, `DropDuplicate`, `Reject`, `BeliefRaises` | the four ways through `process` and the loop after it |
| `TurnTimeout` | the opponent-turn deadline |
| `Reveal`, `ReadAudit`, `AuditTimeout` | `exchange_audits` and the verdict in `run` |

One attempt of a call is one copy on the wire.  A copy may be delivered at any
time, also after its sender has given up, so requests are delayed, reordered
and duplicated.  A client-side failure is free when its request was lost and
counts as a fault when the request or only the reply is late.  Deadlines
likewise: free when nothing can arrive any more, a fault when they fire early.
Faults are bounded per behaviour (`MaxFaults`), attempts per call (`MaxTries`,
the number of retries that fit in a deadline).

### Series

`phase`, `num`, `hello`, `turns`, `audits` and `rows` are the position of a
process in `run_series`, the window it declares, its three inboxes and its
rows.  `made` and `seen` reduce the turn loop to step counts and, per step
heard, the window it was sealed in: commits of different windows differ.
`late` holds requests that are still under way after their sender gave up.

| Action | In the code |
|---|---|
| `StartSubGame` | the two drains, the new runtime, the first offer |
| `ReadOffer`, `Reoffer`, `HandshakeDeadline` | `run_handshake`, `_receive_with_reoffer` |
| `Move`, `Raises`, `ReadTurn`, `TurnTimeout` | the turn loop as far as windows matter |
| `Reveal`, `ReadAudit`, `AuditTimeout` | `exchange_audits`, the row |
| `EndSeries`, `Arrives` | the end of the loop, a late request |

The kinds of fault are a constant: `twice` (a retried call is delivered twice),
`late` (the sender gives up, the request may still arrive), `raise` (a peer's
own turn fails), `slow` (a deadline fires although the answer was coming),
`lost_offer` (an offer is acknowledged and dropped, which `handshake.py` names).

### SeriesReport

One group's side of a series: two fixed-role processes (`--fixed-role`), each
through the windows `logical_subgame_numbers` gives its role, or one process
through all of them.  They share `logs/<group>` and nothing else.  A log is told
only by the series it belongs to (`old`, `new`), or that it does not parse
(`torn`); `rows` maps windows to the series of the log a row was made from.

| Action | In the code |
|---|---|
| `Play`, `Logged` | a window was played and `write_json` writes its log: truncate, then write |
| `ListLogs`, `ReadLog` | `_read_sibling_logs`: the directory is listed, then each file read |
| `WriteResult` | `_merged_summary` (own documents win) and the result file |
| `Archive`, `Archived` | `write_artifacts` writes every merged log back, the sibling's too |
| `Return` | `maybe_email`: files if it is the emitter and counts enough rows |
| `Swallows` | an exception of the report stage, caught by `emit_artifacts` or `maybe_email` |
| `Crash` | the process is killed, or `run` raises out of `run_series` |

`Emitter`, `Complete`, `Merged` and `Own` are the code's decisions; `pen` and
`over` follow files two writers have open at once, which is how a log that both
wrote can be left torn.  `alone` is a history variable for `FiledByTheLast`.

### TurnGame and the refinement

`TurnGame` holds what both peers promise together: `trail`, the steps of each
side with the barriers it knew, and `outcome`, what each side reports.
`ThiefSteps` and `PoliceSteps` are the steps of one referee, who owns the true
barrier map; `Reports` allows a capture only of a caught thief, a survival only
after the threshold or the ceiling, and a technical loss always.  `PeerGame`
instantiates it with `trail <- log, outcome <- result`: a step happens when it
is sealed, a report when a peer leaves its loop, and everything the network,
the inboxes and the audit do is a stutter, a verdict of forgery included where
no peer forges.

### Settlement

The reports of `SeriesReport`, read.  `ScoreSubgame` scores an ending,
`SubRow` is the row of the process that played and `RowFromLog` the row rebuilt
from a log, `SeriesTotals` adds the scores with the tie rule, `ResultArtifact`
condenses, `AgreementScope` is what both groups hash.  The partner is a group
whose process played every window itself.

### Agreement, Scent and Tracking

`Agreement` follows a peer from its file to an accepted offer: `Launch`
(configuration checked, port bound), `Offer` (terms, signature, locks, or the
refusal of a rule delta that does not raise), `Agree` (`_candidate_handshake`),
`Expire`.  A configuration is told by the values of its wire terms, the rest of
the file, its dialect, the `wire_dialect_terms` flag, its deltas and the
command-line override.

`Scent` counts intensities in 1/`Fine` of a thousandth, so that decay and the
rounding of the wire are exact; a value half-way between two thousandths may be
rounded either way.  `FullTurn` is one turn of an emitter in the order its law
pins, `Continues` and `Restarts` are the two likelihoods.

In `Tracking` an emitter moves or builds and sends its grid (`EmitTurn`); the
reader parses it, scores every free cell, resyncs if nothing explains it, and
keeps the cells that explain it best (`ReadTurn`).  `mode` is the stand-in
belief, which takes the strongest cell.

| Variable | In the code |
|---|---|
| `field`, `air` | the emitter's `ScentModel`, the `smell` of its turn |
| `masked`, `prev` | `BeliefV2._barriers`, `_s_prev` |
| `best`, `refit` | the cells of highest likelihood; the resync branch of `observe_smell` |
| `mode` | `ScentBelief.mode` |

### Paths, Brains and Arena

`Brains` has one operator per registered brain, from its own state and a belief
(a most likely cell and how sure it is) to the set of decisions it may take:
more than one only where the code draws.  Ties break as Python's `min`, `max` and
sorts break them.  `Arena` is `play_subgame`: `ThiefMoves`, `CopMoves`,
`CopBuilds` with the captures each is judged for, and `CopRefused`, an exception
of the referee.  A brain may be given any belief at any turn, so what is shown
does not depend on the filter.

### TurnClock and Gatekeeper

`TurnClock` gives each loop its phase and the ticks left of the deadline it is
under: `Decide`, `Acknowledged`, `Refused`, `AckLost`, `Hangs`/`HangEnds`,
`Reads`, `TimesOut`; `LinkBreaks` is an outage.  The watchdog has two steps,
`Scan` under the lock and `OnFreeze` after it, and `Kick` is part of the loops'
steps.  `Tick` waits for whatever is due.  `Gatekeeper` has one action per way
through `execute`: `FastRefused`, `OverQuota`, `OutOfTokens`, `LetThrough`, then
`Raises` or `Returns`; instants are ages.  `starts`, `passed`, `streak` and
`rest` are history variables for its properties, as are `stalls` and `silences`
in `TurnClock`.

### Sealing and Trust

`Sealing` treats digests and signatures as terms.  A log is sealed step by step
(`SealTurn`; its commit arrives live or is lost), revealed (`AuditReveal`),
possibly changed (`Differs`: a record lost, moved, renumbered, reworded, sealed
anew) and judged (`Judges`, `HearsNothing`) by the commits, by those that came
live and by the positions (`AuditVerify`, `RevealMismatches`,
`TrajectoryMismatches`); `ReplayAudit` is the auditor that reads the saved log.
Of what a step says only the position is told: off the board (`OffBoard`), or
more than a step away from another (`Far`).  `Trust` reads a hint, crosses it with a belief and a trail
(`HearsHint`), keeps the ledger in exact fractions, and hands the revealed
intents to the profiler (`Profiles`).

## 3. Runs

The board of the `PeerGame` runs is 2 x 2 with the peers in opposite corners.
It is small, and every rule bites on it: moves off the board, a landing after
two steps, a barrier on the own cell and on each neighbour, a jail with two
barriers, a second declaration of a cell, a quota that runs out.

| Run | Properties | Bounds and what it shows |
|---|---|---|
| `game` | eleven invariants, `ImplementsTurnGame`, `Terminates` | threshold and ceiling 3, two barriers, two attempts per call, two faults: enough for a lost reply and then a lost request, or a failure on each side. 1.3 million states |
| `ceiling_result` | `SameResult` (violated) | ceiling 2 below the threshold 3, no fault: see the findings |
| `stray` | `WallsAccounted`, `SurvivalCounted`, `Terminates` | up to two left-over or malformed messages to either peer (as many as end a game), a ceiling of 2, no other fault. 880 thousand states |
| `series` | `PlayTogether`, `DrainsStale`, `OwnWindow`, `SeriesAgrees`, `SeriesCompletes` | three windows, fixed roles (messages of neighbouring windows look alike), every kind of fault, two faults. 930 thousand states |
| `series_forgery` | `NoFalseForgery` (violated) | one failing turn: see the findings |
| `series_lost_offer` | `OffersAnswered` (violated) | one dropped offer: see the findings |
| `report_early` | `OneReportFiled` (violated) | two processes, no failure: see the findings |
| `report_stale` | `NoPartialFiled` (violated) | old logs of the four windows, no failure |
| `tracking` | `SameContract`, `TruthStandsOut`, `NoFalseResync`, `ScentPinpoints` | 5 x 5 board, three turns, one barrier, eleven configurations per peer, the shipped pheromone values; live or lab, either role followed |
| `arena` | `NoMissedCapture`, `RefusedOnlyImmured`, `RouteKept`, `KeepsAway`, `NoTrapEntered` | 3 x 3 board, three barriers, thirteen pairings: every police brain against a thief that takes any legal step, every thief brain against the greedy cop that walls by a coin |
| `process` | `AlarmsMatchStalls`, `NobodyImpatient`, `LimitsExact`, `PassedIsPlayed`, `AuditorsAgree`, `HintsBounded`; `AtMostOneReport`, `OwnRowsFresh`, `FiledByTheLast`, `SettledAlike` | one behaviour exercises the clocks, the e-mail, the log, the trust or the report: two processes, four windows, old logs of all four, every failure; the scores of the shipped configuration and ten histories: ties, wins of each group, histories that differ in one window or in the order only. 800 thousand states |
| `audit_gap` | `NoStepSkipped` (violated) | the bounds of `process`: see the findings |

`faults` in `Series` is the list of what has gone wrong, and three properties
say under which faults they hold: `OwnWindow` as long as no request outlives its
call and no deadline fires early, `SeriesAgrees` under duplicates only,
`SeriesCompletes` as long as acknowledged offers are kept.

Three windows are enough in `Series` because the drain and the pairing guard only
ever relate neighbouring windows (the theorem `Paired` covers any number).  Four
windows give each process of `SeriesReport` two logs, so that one can be read
before and one after the sibling writes; the theorems of `SeriesReportProofs`
cover any number.

In `tracking` three turns on 5 x 5 let two deposits overlap and the first one
fade while the emitter stays, walks, leaves the window of its stamp or stands
on its own barrier.  `ResyncAt` is the logarithm of the shipped `resync_floor`
in the units of the score.  `TruthStandsOut` and `NoFalseResync` are about peers
under one law; two peers may agree under different laws when no lock names
them, which `SameContract` says exactly.

The thresholds of the brains are scaled to the board in `arena`: `LaneFloor` is 1
where the code has 2, as on 3 x 3 the only cell of centrality 2 is the middle
and no lane beside it could ever be caged.
In `arena` five thief steps and four police turns fit the corner chase, a jail
by three barriers, and a cop that walls itself in.  A cop may build on its own
cell, after which even its hold is refused: `RefusedOnlyImmured` says that this
is the only refusal.  `RouteKept` is asked of every belief, not of the true
position; a wall on the believed thief or on its last exit is exempt.

In `process` the watchdog polls every 2 ticks with a stall limit of 3, the wait
for a turn is 7 ticks, the call 9: the waits legitimately outlast the stall
limit, as they do in the shipped values.  `NobodyImpatient` holds under a
condition on these values that the formula states: the opponent-turn deadline
must outlast a brain deadline and the downtime
`MaxOutages * (MaxOutage + RetryInterval - 1)`, the call deadline must outlast
the downtime, and no request may hang, because one hung request uses up the
whole call.  The gates have a quota of 4 in 7 ticks, a bucket of 2 that
refills half a token per tick, a breaker of 2 failures and 2 ticks; every gate
refuses in some state of the run.  Two steps after the declaration and one
change of the reveal are enough for a record to move, to take another's number
or to be replaced by a sealed one (the theorems cover any number of both); three
positions in a row and one off the board give a trail every way to be legal or
not.  `Trust` has a 3 x 3 board, two hints, one barrier,
posteriors of at most two cells in halves and trails with one peak: a claim is
met with all, half or none of the posterior inside it.

**Fairness.**  Each peer's own steps are weakly fair as long as they cost no
fault: a Python thread keeps running and its deadlines are real.  Delivery of a
copy that is not lost is weakly fair in `PeerGame`.  No fairness is assumed of
faults, of strays or of late requests in `Series`, and none at all in the other
modules, which state safety only.  A stray is delivered at no particular time,
and at most `MaxStrays` of them are: `Terminates` says that those a game meets do
not hold it, not that a stream of them without end would not.

**Deadlock** is checked in `PeerGame`, `Series`, `Arena` and `MCProcess`; the
only states where these may stop are those where the game, or the last process
of the group, is at its end (`Finished`, `Stopped`, `Over`, `Ended`).  It is not
checked in the two runs of `SeriesReport` alone, which look for one state, nor in
`Tracking`, where a peer whose offer was refused, or a trail of `Turns`
emissions, simply ends.

## 4. Findings

1. *A capture on the last move is reported as a survival by the police.*  The
   police leaves its loop when its last move is acknowledged (`runtime.py:147`)
   and never reads the answer to the capture claim that move carries; the thief
   skips its own ceiling check because it is captured, concedes and reports a
   capture.  Visible when `max_moves` is below `survival_threshold` (they are
   equal in the shipped configuration, where the thief claims its win first).
2. *A truthful reveal is settled as a forgery in the next sub-game.*  If one
   peer's turn fails, it waits ten seconds for the audit, opens the next window
   and drains; the other is still in its 180-second wait, then reveals.  That
   reveal is read at the end of the next sub-game.
3. *A dropped offer separates the peers for good.*  A peer stops advertising as
   soon as it has heard the other, whether or not the other has heard it.
4. *Nobody files.*  Only the process that played the final window may file, and
   it files only if every row is there when it merges.  If its sibling is still
   playing it skips; the sibling, which later merges the whole series, may not.
5. *A report with rows of an earlier series.*  Logs are named after the two
   groups and the window.  After an earlier series of the same groups the emitter
   takes the old logs for windows its sibling has not finished, counts enough rows
   and files.  If the sibling has returned this cannot happen (`FiledByTheLast`).
6. *A skipped step passes the audit.*  `replay_audit.py:8-11` says that a skipped
   step is provable forgery; no function compares the numbers.
   `_reveal_mismatches` looks up what is revealed among the live commits, not the
   live commits among what is revealed, and `trajectory_mismatches` judges the
   positions in the order of the list.  So a record under another number, or none
   at all, passes as long as its neighbours stand within a step; the test
   `test_skipped_step_number_is_tolerated` leaves the numbers to "the binding
   layer".  What a passed audit does say is `PassedIsPlayed`: no record shown under
   the number of a step that was heard is any other than the sealed one.

## 5. Proofs

Every safety invariant, every action property and the refinement that a passing
run checks is proved for every value of the constants, but for one grid of
`TruthStandsOut`: the first that the lab reads of its thief, under one of the two
summing laws.  The assumptions are those the modules name
(`BoardAssumption`, ...), which TLC evaluates in the runs, and the following,
each stated in the theorem that needs it:

| Assumption | Says | Why the code justifies it |
|---|---|---|
| `OnlyOwnMessages` | `Strays = {}`: no message of another sub-game arrives | the drain and the window guard of `Series`; the runs `stray` and `series_forgery` show what happens otherwise |
| `CeilingNotFirst` | `SurvivalThreshold <= MaxMoves` | they are equal in every `config/*/game.json` (`docs/GAME-DAY-RUNBOOK.md:37`); `ceiling_result` shows what happens otherwise |
| `AllWays`, `AllMoves` | the signed move set has the four directions, and the hold | Table 15 (`planning/prd/PRD-1-base-logic.md:26`) and every `config/*/game.json` |
| `ApartStarts` | the two start cells differ | every `config/*/game.json` starts at (3, 3) and (0, 0) |
| `Decaying`, `Sloping` | a turn's decay is positive and less than an emission; a stamp falls off by a thousandth a ring | every `config/*/game.json`: decay 0.1, centre 0.9, 5 x 5 stamp |
| `Halving` | `Fine` is even: there is a value half-way between two thousandths | a choice of the model's unit, not of the code |
| `Fitting` | a thousandth of difference in every cell scores below the resync floor | shipped floor 1e-8 and sigma 0.1 (`lab_belief.py:21-23`) put the floor at 3 684 136; 7 x 7 cells (`config/*/game.json`) cost at most 490 |
| `Telling` | the stamp fits the board, and under the book law a cell with one stamp more differs by so many thousandths (`gap`) that it outweighs a thousandth in every cell | with the shipped stamp, decay and zero weight 0.6 a gap of 78 is left, enough for every board up to 60 x 60 |
| `OnlyThisSeries` | no logs of an earlier series, nobody asked to play beyond the signed windows | `report_stale` shows that the first is needed |

`QuotaHolds` and `SurvivalIsCounted` need none of them: they hold whatever strays
arrive.

### One sub-game

`PeerGameProofs` first proves type correctness, which is more than typing here:
`placed` and `oppPlaced` never exceed the signed quota, and no peer ever stands
or builds off the board.  The argument starts from the guard: whatever a brain
answers, what is played is a hold, a legal move or, for the police within its
quota, a legal barrier (`GuardLegal`).  `TypeOK` is inductive together with
`CallOpen`, which says that a peer in `SENDING` has an open call.

It then proves `SeenIsPrefix`, `OneToken`, `MapsInSync`, `NoHonestBreach` and
`NoFalseForgery` under `OnlyOwnMessages`.  Lost, late, reordered and repeated
requests, failing brains and early deadlines are unbounded.  None of the five is
inductive.  `OrderInv` is: every message under way says of its step what its
sender sealed there (`Genuine`); each peer's own step count and the count of what
it has applied stand in the relation its state requires (`InPhase`), which with
the prefix property forces the chain

    applied by thief <= sealed by police <= applied by police <= sealed by thief <= applied by thief + 1

(`Chain`); and the two barrier maps and the two barrier counts differ by exactly
the one police turn the thief has not read yet, if there is one (`Missing`).
From the chain a message that is read is either a repetition of what was applied
or the next step, and `Missing` gives that its barrier is new and within the
quota, so `Reject` is never enabled (`RejectNever`).  Steps are of three kinds:
those that send nothing new and move nobody (`Quiet`), a turn applied
(`FoldOrder`) and a turn taken (`TakeTurnOrder`).  `AuditInv` adds that every
log is a walk and that what lies in an audit inbox is the complete log of an
opponent past its last turn.

`PeerGameEndings` proves the refinement `ImplementsTurnGame`.  The mapping is the
identity on what was sealed and reported, so what has to be shown is that the
referee's guards hold when a peer seals or reports by its own, partial view.
`TruthInv` supplies them: what a message claims of its step is what the step did
on the one board (`Truthful`: the thief concedes exactly when the last police
step caught it, claims the win exactly when it has earned it), each peer's own
state is what its last record says (`Standing`), and who is to move may move
(`MoveInv`).  `EarnedInv` adds that a report stays earned: the police makes no
step after the catching one, and a caught thief stays where it was caught.
Every action is then a step of `TurnGame` or a stutter (`StepGame`).
`CaptureSound` and `NoConflictingVictory` follow from the same invariants, and
`NoSilentCapture` with `FreeInv`: a jail is looked for only when a barrier has
just been declared, so it must be shown that nobody walks into a closed one.

The accounts of an ending rest on `LearnedInv` (what a peer holds of the other's
log is all of it, and final) and on one fact about both sides: if both report a
victory, the number of turns, the cells and the barriers each computes from its
own and from the revealed log are those of the one board.  `RowTurnsAgree` and
`DigestAgreement` are read off it.  `FaultFreeAgreement` needs `FaultFreeInv`:
without a fault the step that was not read yet is under way (`Carried`) and
whoever reveals is heard (`Heard`).  `WallsAccounted` and `SurvivalCounted` are
proved from `CountInv` alone, without the order of turns.

### A series and its report

`SeriesProofs` proves `PlayTogether` and `DrainsStale` for any number of
windows and any faults.  The strengthening: a peer past the handshake of window
n has heard an offer of n, so the other has opened n (`Met`), and nothing that
was ever sent to a peer belongs to a window it has not opened (`Bounds`).
`Met` on both sides gives equality while both play; `Bounds` on the receiving
side gives that what a drain discards is older than the window it opens.

`OwnWindow` needs more, for after one side has left a window the messages of two
windows look alike.  The peers are never two windows apart (`Close`), and
`WindowInv` says that a peer the other has deserted makes no move any more
(`Mute`): what it still has unread ends the sub-game.  `SeriesAgrees` rests on
`CleanInv`: offers are queued in the order of their windows, one row is filed per
window left, the step a peer has not heard lies in its inbox, and a reveal of
another window can only be met where it has nothing to compare (`Hasty`).

`SeriesReportProofs` proves, for any number of windows, either role order, any
left-over logs and any failures, that at most one report is filed, that own
windows are shown by own logs, and that an emitter which starts after its
sibling has returned files the whole series.  The windows of the two roles are
disjoint (`OwnDisjoint`), which gives one emitter, and a process that has filed
is done.  That `FiledByTheLast` holds needs that the two together play all the
windows (`OwnCovers`, an argument on parity and the size of each role's share),
that as long as a process plays, what its sibling has logged stays on disk as
it is, but for the log the sibling is itself writing again (`Shelf`), and that
from the moment it reads nobody else writes (`Waited`, `Settled`).  `FiledWhole`
proves `NoPartialFiled` under `OnlyThisSeries`.  `SettledAlike` follows from
`RowsCover` (a filed report has a row for each window of its process) and from
the scope being injective in the endings: rows read back and rows made have the
same winner and result, whatever the points.

### The parts of a process

`TurnClockProofs` proves `AlarmsMatchStalls` for every threshold, poll interval
and deadline.  The two loops and the link enter only by what they do to the
watchdog: a kick or nothing (`LoopKicks`).  The property is not inductive, for a
kick between the scan and its callback takes the mark away while the callback
is still to come.  `AlarmInv` adds that an unmarked heartbeat was young when it
was last scanned (`Scanned`: its age and the time to the next scan stay within
threshold plus poll), that no time passes between mark and callback
(`MidCallback`), and how far the counts may stand apart before the mark
(`Unmarked`) and after it (`Marked`).  `NobodyImpatient` follows from
`PunctualInv`: how long a peer has waited is at most what its opponent's brain
has used plus what the outages so far have cost (`Waits`), how long a call has
been open at most that cost (`InTime`), and an outage costs what is left of it
and an attempt too late (`Outlasts`).

`ProcessProofs` proves the gates, the sealed log and the trust in hints.
`GateInv`: the calls a window remembers are exactly those of the window
(`Remembered`, with the lemma that there is one way to cut a window), and the
calls from any one on are paid for by what the bucket has lost and was given
since (`Paid`), which is the rate in every window (`Rated`).  `Tripped` relates
the breaker to the failures in a row, which gives `BreakerRests`.  `SealInv`:
every record of the chain is sealed by its dialect at its place, its positions are
a walk (`Walked`) and the live commits are those of the chain (`ChainInv`), and a
verdict is that of what was revealed (`VerdictInv`); commits are injective within
a dialect and across the two, so that under the number of a step that was heard a
passed audit can only have seen its sealed record (of a step left out this says
nothing), and an honest trail has no mismatch (`NothingTrailed`).  `TrustInv`: with k
hints to come each count of the ledger is at least `OutOf^k`, so that it stays
positive; both weights of a claim are then positive and ordered as the property
says (`WeightsAre`), and a sum of evenly weighed cells is weighed so too
(`InsideScales`).

### The brains

`ArenaProofs` has one invariant, `GameInv`: types, ceilings and
`NoMissedCapture` (`ArenaTypes`, `CapturesAreSeen`).  The other four properties are about one decision, so the work
is in what a decision can be.  The rings of the breadth-first search exist, its
distances are zero of a cell to itself only (`RingsExist`, `DistancesAre`); every ranking a brain makes has a foremost
element (`SomeForemost`); every police brain answers with something the board
accepts, or with a hold where there is no move (`Sound`, `PoliceSound`); the
interceptor's walls leave a route as short as it was (`TempoKept`); and staying
put never scores below zero where a trap always does (`ScoresAre`), so that the
ban on a trap outweighs all the rest.

### Agreement and scent

`TrackingProofs` proves `SameContract` from `HandshakeInv` (who has agreed found
the other's message acceptable, and nobody changes its configuration).
`ScentPinpoints` rests on `PinInv`: under the reference law the field is whole
thousandths of at most what a turn leaves of an emission, and after an emission
only the emitter's cell has that much.  `ReferenceFindsTheTruth` adds
`TruthInv`, that the reader's previous grid is the emitter's previous field: then
the continuation from the true cell has no residual, every other one has
(`ReadingIs`, with the sum over the board in `TotalIs`), and nothing has to be
explained from scratch.  The lab's thief is first read against a seed nobody
left (`SeededReading`); under the reference law even that grid is pointed out
(`SeedTells`), by the continuation or from scratch, whichever the filter takes.

The other two laws sum, and one of them rounds, so that the reader's history
and the emitter's differ.  `FollowInv` says by how much: the field is what a law
can leave (`Worn`), the grid on the air is its rounding (`OnAir`), and the reader
remembers the last grid, not the last field.  What the law continues from a
rounded grid is in every cell within one thousandth of what it sends, however
either side rounds its ties, since the drift does not add up over turns: each
grid is rounded from the emitter's own field (`DriftIs`).  So the true cell
scores at most the heaviest weight times the number of cells, which is below the
floor: `ResyncsForCause`.  For `TruthStandsOut` a wrong cell must score more.
The stamps of two cells never cover the same cells of a board as large as the
stamp (`WindowsDiffer`); where only one of them falls, the book law leaves a
difference that decay, cap and rounding cannot take (`GapIs`, `BookApart`), and
its square outweighs the drift of the whole board.  The merged law sends
unrounded grids, so that the true cell has no residual at all.  `TypeOK` is
inductive as it stands; what needs an argument is that a grid that has a scent
has a strongest cell (`StrongestExists`).

### How recursion is treated

No definition that has a theorem is a `RECURSIVE` operator.  A recursive function
or a fold of the community modules is a `CHOOSE` for the prover, so its existence
is itself a lemma (`RingsExist`, `SumsExist`, `SomePowers`, `SumsTo`).  Where an
argument runs by induction, the least counterexample is taken (`LeastOf`, from
the well-foundedness of the natural numbers), as the library's induction theorems
cannot be instantiated here.

### Only model-checked

- Liveness: `Terminates`, `SeriesCompletes`.
- `TruthStandsOut` for the first grid the lab reads of its thief, under a summing
  law: the seed lies under every continuation, and whether it favours the true cell
  depends on the numbers of the kernel and on the edge of the board.
- The six expected violations, which are counterexamples.

## 6. Observed while modelling

These follow from the source and have no run of their own; several decided how
a property is stated.

- The prior an opponent's profile yields is put into the belief's configuration,
  which never reads it; `build_hint_fuser` (`hint_fusion.py:51-65`) always starts
  the ledger from the configured prior, although `series.py:66`,
  `series_log.py:20-24` and `hint_fusion.py:4-6` say the profile seeds it.  So
  every sub-game starts `Trust` from `FreshLedger`.
- A caught liar's claim that covers less of the board than his reliability gains
  from the inversion (`engine.py:128-136`): the inverted weight inside is `r / n`,
  outside `(1 - r) / (N - n)`.  `HintsBounded` therefore asks for a claim that
  covers at least the share below which the inversion starts.
- `Gatekeeper` and sender are created for each e-mail (`series_log.py:393`), so
  within one process the limits never see two calls; and a provider that answers
  `{"sent": False}` counts as a success for the breaker.  Both gates are modelled
  as objects that live on, which is what their limits are for; no hazard of the
  program is listed for them, and `BreakerRests` is proved but has no run.
- The step-0 declaration is not bound live, its `sub_game_number` is not compared,
  and an empty reveal passes the live audit while the replay auditor fails it:
  hence `revealed # <<>>` in `AuditorsAgree`.
- The identity block of an offer is unsigned; `game_uid` depends on its
  `group_id`.
- `config_sha256` covers the whole file although `config.py:166-172` speaks of the
  wire terms; the book law has no registered scent hash, so that peers of which
  one runs it are not told apart by locks (`SameContract`).
- If the thief survives and its reveal is absent, the police's row counts one
  turn fewer than the winner made (`series_log.py:141-151`); `RowTurnsAgree` is
  about reveals that arrived.
- One hung request consumes the whole call deadline, retries included
  (`transport.py:119-133`), and every duplicate re-arms the wait for a turn; the
  alarm of the watchdog is only logged (`sdk.py:151-152`).
- The adaptive cop skips a sure landing when it cages (`adaptive_police.py:38-52`),
  and a survivor may step onto the believed cop; neither is claimed of the code.
- The lab's filter starts from a deposit nobody made: its first grid may be a
  resync (`NoFalseResync`).

## 7. Not modelled

- Hashing and signatures are perfect, in `PeerGame` (a commit is the record) as
  in `Sealing` (terms).  Canonical JSON is the equality of records.
- The floats of the posterior: motion kernel, product with the likelihoods and
  normalisation.  `Tracking` keeps which cells a grid favours, `Trust` meets any
  posterior of its grid of values.  That a long product underflows to the uniform
  reset of `_renormalize` is out of reach.
- Wording: templates, the model-backed talk and its client.  In `PeerGame` a turn
  is its step; in `Trust` a hint is the set of directions it names.
- The control channel, which the runtime never reads; the HTTP session.
- The `PAUSED` and `ABORTED` states of the state machine, which nothing enters.
- In `SeriesReport` the declaration, configuration and series artifacts (written,
  never read back); e-mail is enabled.  Composing a mail and its sessions.
- The lab's runner, statistics and gates; the scout brain helper, which nothing
  calls; windows, viewers and argument parsing; repository tools;
  `archive/q20`, an earlier project nothing imports.
- Time in `PeerGame` and `Series` is "fires when nothing can arrive" and "fires
  early"; the values are related in `TurnClock`, where a step takes whole ticks.
- An audit payload that does not parse is treated by the code like an absent one.

## 8. Plan

Done: every module of section 2, its runs, and the theorems of section 5.

Next:

1. `OnlyOwnMessages` of `PeerGame` as a consequence of `Series`: `OwnWindow`
   gives it for turns where no request is late and no deadline early; the two
   modules are related in words only.
