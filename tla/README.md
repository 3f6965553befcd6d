# Topics: verification project

TLA+ specifications of the parts of Topics whose correctness depends on the order of
things: requests, turns, timers, lost calls and restarts. Topics is a desktop workspace
for coding agents. One server process (TypeScript, `src/server.ts` and `src/server/`)
runs the chats; each chat is a *session*; a *turn* is one run of a model on a session;
models run as child processes which a broker may keep alive while the server restarts.

Contents: 1 inventory; 2 the modules; 3 the runs; 4 fairness; 5 proofs;
6 what the checks found; 7 what is left out, and the plan.

## 1. Inventory

The server is one JavaScript process: a handler runs without interruption to its next
`await`. Concurrency is the interleaving of handlers at their awaits, of timers, of the
child processes, of the person's clicks, and of crashes and restarts.

| Component | State it keeps | Operations | What makes it hard | What makes it correct |
|---|---|---|---|---|
| **Rendez-vous of questions**: `lib/ask-user-bridge.ts`, `lib/question-outlives-asker.ts` | the open ask, the waiting leg, the buffered answer of each session; the panel's status on its row | begin/end/cancel an ask, wait, deliver, expire, route a click | the asker polls in short legs, so an answer usually arrives between two of them; the memory is lost at a restart and the child is not | the model never reads the answer to another question; an answer is delivered once; a question waits for its human |
| **Answer relay**: `lib/answer-relay.ts`, `lib/owed-answers.ts`, `lib/turn-ended.ts` | the queue of answers whose asker is gone, the carries that travel with turns, the retry wait; the mark on the row and its index | enqueue, pump, claim, take, give back, settle, boot | the chat route takes an answer and delivers it later; turns fail, are shadowed, and the server restarts | nothing owed is lost or delivered twice, the order is kept, an answer comes before what the person wrote after it, and it does arrive |
| **Turns of a session**: gate of `routes/chat.ts`, `activeStreams` in `utils.ts`, `lib/turn-ledger.ts` | the stack of streams, the sources that say "a turn is running" | start, end, adopt, shadow, hold at boot | two records of one fact; turns the CLI opens by itself | one turn at a time; whoever waits for a free session is woken |
| Boot: `lib/ripresa-boot.ts`, `lib/boot-orphan-tools.ts`, sweeps | rows left half written, survivors of the broker | hold, adopt, resume, sweep | order of the boot's steps against the first requests | a killed turn is resumed once; no row stays running for ever |
| **Permissions**: `lib/permission-bridge.ts`, `lib/permission-paint.ts`, `lib/session-free-mode.ts` | open requests, waiting legs, buffered decisions, aliases; the panel on a row; rules and the session's mode on disk | ask, press, cancel, free a session | several commands ask at once, and one call has two identities (its id, and the row found by its name); a press may also write a rule | a yes reaches only the request that was shown; what the person says beats the rules; whoever watches knows that the session waits |
| **Outbound gate and board questions**: `lib/outbound-gate.ts`, `routes/outbound.ts`, `services/board-ask-routing.ts` | a hold per card or session, the question on a card, the wait and the buffer of the session | confirm a send, ask on a card, answer in a thread or on a panel | shares the rendez-vous with questions; sockets die under a leg that stays alive | nothing is sent without its own yes, nor twice on one; a click answers the question that was read |
| Late answers: `lib/late-answer-lane.ts`, `lib/turn-body-flush.ts`, `lib/finalized-turn-guard.ts` | the body of a turn, its final row | append, flush, finalize | events after the finalize | no late write reopens or overwrites a final row |
| **Wakes of commands**: `lib/process-exit-wake.ts`, `lib/process-wait.ts`, the registry of `routes/processes.ts`; `services/subagent-wake.ts` | the rows of commands and what they owe, the waits of a turn, the chain of wakes of a chat | start, exit, stop, wait, read, wake, copy after an outage, boot | the wait and the wake both claim the same end; the row is on disk, the chain in memory; turns are cut and restarted | an end is told to the agent, and once |
| Task board and dispatcher: `services/tasks.ts`, `services/task-dispatcher.ts` | tasks, runs, capacity, reservations | dispatch, finish, relaunch, resume | ownership of a run across restarts | a task has one run; capacity is never exceeded |
| **Landing**: `services/landing-queue.ts`, `landTask` of `routes/tasks.ts`, `services/task-automerge.ts`, `services/landing-audit*.ts`, `services/worktree-gc.ts` | the lane and its tickets; delivery, verdict and witness of a card; branch, worktree and main | enqueue, merge, prove, close, reap, stamp, publish, audit | every step awaits git, and the agent of the card may be at work meanwhile; the queue is in memory only | a verdict of landed is true of the delivery it speaks of; nothing that main lacks is removed or published; a debt is said |
| **Capacity**: `services/swap-freeze.ts` and its ledger, `services/budget-governor.ts` | stopped process groups, one file of both levers | freeze, thaw, recover | a kill between any write and any signal; two levers on one tree; pids used again | no stopped process is unknown to the next server; every one is continued |
| Goals, attention, idempotency, serial queues | small maps | nudge, note, single flight | timers against turns | one nudge per turn; one effect per key |
| Remote relay: `relay/`, `services/relay-client.ts` | connections, requests in flight | connect, forward, reset | reconnection with requests open | each request is answered once or fails |
| Shared browser, process broker, client, desktop shell, scripts | views and handles | rendering and I/O | external processes | not protocols of their own |

How the parts meet. The child calls `ask_user_question`; its bridge subprocess polls
`POST /api/sessions/:k/ask-user` in legs of about 25 seconds. The panel is painted from the
provider's stream onto the row of the turn. The person's click is
`POST /api/chat/tool-response`, routed to the asker (leg or buffer), or, when the asker is
gone, queued in the relay. The relay posts it to the chat route when the session's turn
ends, or the person's next message carries it. `endStream` tells the relay that a turn is
over and marks the questions the turn leaves open. A command the session's mode does not
cover asks by the same kind of legs through the permission bridge; a send asks through the
outbound gate, which waits in the rendez-vous of its session and shows its question on the
card of the task, if it has one. A card whose agent has finished is landed by the queue;
the audit looks afterwards for what no land saw. The freezer and the governor stop the
commands of the agents when the machine is short of memory. The end of a command is told to
the turn that waits for it, or opens a turn of its own in the chat that started it.

## 2. The modules

| Module | What it is |
|---|---|
| `AnswerRelay` | the delivery of answers whose asker is gone, of one session: relay, chat route, streams, CLI turns, restarts |
| `OwedDelivery` | the abstract promise of the relay: accepted once, settled once, in the order given; `AnswerRelay` implements it (`KeepsPromise`): what was accepted is `given`, what is settled are the answers whose mark says sent |
| `AskBridge` | the questions of one session: rows, rendez-vous, click, legs, turn end, stop, stale sweep, restarts |
| `QuestionLife` | the one life of a question: shown once, answered once, its answer to its own call or to one message, and over for good, unless it is taken up again (`reopened`: where an adoption shows an answered panel again, and what follows from that); `AskBridge` implements it (`LivesOnce`): the row's status, what was heard and queued, and the buffer tell where a question is |
| `PermissionBridge` | the permissions of one session: several commands of a turn that ask at once, rows and panels, presses, rules, free sessions |
| `OutboundGate` | the sends of the sessions of a card, their questions on the card and on panels, next to a generic question of the same session |
| `Landing` | the landing of the cards of one board: agents, git, the queue, the land, the audit |
| `SwapFreeze` | the two levers that stop processes, with the ledger they share and the boot that reads it |
| `CommandWake` | the ends of the commands of one chat: rows, waits, reads, stops, the chain of wakes, outages, restarts |
| `EndNotice` | the abstract promise of the wakes: an end is owed from the start of its command, said at most once to a chat that does not know it, and its debt goes for a named reason only, for good; `CommandWake` implements it (`KeepsNotice`): `cmd.wake` is the debt, the row of the wake says that the chat was told |
| `MC...` | the small instances for TLC |
| `QueueFacts` | lemmas about the operations on sequences the relay and the wakes are built from: members, injectivity, and order by a relation |
| `..._proofs` | the inductive invariants of `AnswerRelay`, `AskBridge`, `PermissionBridge`, `Landing`, `SwapFreeze`, `CommandWake` and `OutboundGate`, and their theorems |

Definitions introduced by "A mistake kept for checking" are wrong versions of an action
or helper. They are not part of `Next`: each property is also run against a model with one
of them in place of the right one, and must fail.

`AskBridge` and `AnswerRelay` meet in one operation: `QueuedAsMessage` in `AskBridge` (and the
boot's sweep in `RestartKills`) raises `owed[q]`; in `AnswerRelay` the same call is `Give(a)`.
Each takes the other side as an environment that may act at any time, so their composition
adds no behaviour to either. `OutboundGate` holds the rendez-vous of `AskBridge` again, for
the waits `AskBridge` leaves out (those that name their panel) and without restarts.

The maps of these modules are keyed by session, and only the card of a task ties sessions
together: one session is the whole behaviour of `AskBridge`, `AnswerRelay`,
`PermissionBridge` and `CommandWake`, and `OutboundGate` has the sessions of one card.

### AnswerRelay against the code

| State | Code |
|---|---|
| `owed`, `carrying`, `posting`, `retry`, `held` | `owedBySession`, `carrying`, `posting`, the retry map (`none`; `waiting`: a wait with no timer; `armed`: a timer will pump; `due`: the wait is over), `holds` |
| `tick` | the `setTimeout(0)` of `onEnd` |
| `returning`, `settling`, `loading` | what is left of the loops of `onEnd`, `heard` and the boot; one iteration is one step, `RunToCompletion` keeps other handlers out, only a crash cuts a loop |
| `turn[t]` | a turn with the request that made it: `accepted` is between the gate and `startStream`, `streaming` has an entry in `activeStreams`, `orphan` outlived a restart, `closed` ended before its model spoke |
| `streams` | `activeStreams` and what its entry shadows |
| `cli`, `bootHold` | two sources of the turn ledger; the third, "route", follows `streams` |
| `mark`, `index`, `given` | `answerRelay` on the question's row, `owed_answers`, its `created_at` order |
| `cut` | the row the resume sweep may resend |
| `reached` | what the model has heard: bookkeeping for the properties |

`Checkpoints` is the setting that makes the route await a checkpoint between taking an
answer and starting its turn. `CliSession` says that the provider can open turns of its own
(the Claude CLI).

### AskBridge against the code

| State | Code |
|---|---|
| `status`, `gone`, `answered`, `order` | the tool call on its row: `waiting_for_input`/`running`/`success`/`error`, `askerGone`, `userResponse`, the order of rows |
| `open` | `activeAsks`: no ask, an ask whose wait named no question (`Unsaid`), or its texts |
| `waiter`, `buffer` | `waiters`, `buffered` (with the panel the answer was given on) |
| `stream`, `onStream` | the session's turn and the questions on its row |
| `pending` | the provider's `pendingInputs` |
| `alive`, `asker`, `leg`, `took` | the child, the call it is blocked on, its poll, what the last leg brought |
| `reopened` | bookkeeping: the questions shown again by an adoption after their answer, and those a click took up on a closed panel |

A question's texts are one model value (`text`); two questions may have the same, as when a
relaunched turn asks again. The texts are all a leg can say of its question, which is why
`text`, not the question, decides in `Fits`, `RecordedFor` and `IsLegPanel`.

`Reattach` is the adoption of a turn whose child is still blocked on its call: the replay of the
stream rebuilds the panel and shows it again, whether it was answered or not. `ReattachToResult` is
the one whose replay holds the result of the call.

`PanelFirst` restricts the environment: the panel is on its row before the first leg of
its call. `routes/permission.ts` writes that this is so ("the UI is already showing the form
by the time we start waiting"); nothing enforces it. Properties that hold without it are
checked without it.

Each handler is one action up to its last `await`; loops over rows in `endStream` and in the
boot sweep are synchronous and atomic. The interplay with the database is not split: each
write is a synchronous SQLite call in the same stretch.

### PermissionBridge against the code

| State | Code |
|---|---|
| `open`, `old` | `activeRequests`, and those past their two hours |
| `leg`, `buffer`, `alias` | `waiters` (`dead`: the connection of the leg is lost, the waiter is not), `buffered`, `aliases` |
| `held` | the last phase of `emitHumanHoldChange` |
| `row`, `panel` | the status of the command's tool on its row, and whose request the row shows |
| `asking`, `result` | `callApprovalPrompt` of the subprocess, what it returned to the CLI |
| `grants`, `free` | the rules of `tool-grants`, the mode of the session (`composer`: changed outside of a press) |
| `turn` | whether the stream that holds the rows is live |

`Late` are commands whose row reaches the transcript after their request, `Plain` those whose
row keeps its tools in `tool_calls`: together they are the cases in which the id of a request
is on no row and `decidePermissionPaint` looks for the tool's name. `Polls`, `LegCovered`,
`LegWaits` and the rest of `Leg` are one request of the subprocess, in the order the route
asks its questions: the buffer, the rules, the free session, the time to live, the wait.

### OutboundGate against the code

| State | Code |
|---|---|
| `hold` | `holds` of the gate: who holds a surface (a card, or a session without one), and the row of the thread its hold wrote |
| `card` | the routed question of the card: its row, its session, what it asks, whether its heartbeat is too old |
| `open`, `ident`, `buffer` | `activeAsks` and the panel they name, `buffered` |
| `leg`, `stray` | a request the server is serving: `waiting` in the rendez-vous, `parked` (it sleeps a leg and touches nothing), `woken` (its wait is over), `sending`; a stray is one whose socket died |
| `call`, `token`, `legs` | `pollOutbound` of the subprocess: what it posts, whether its last leg gave it the token of the hold, how many it has posted |
| `rows`, `row`, `painted`, `recorded` | the tool rows of the session and what is drawn on them; `userResponse` |
| `view` | the block a person has in front of them (`answerTo`) |
| `unspent` | bookkeeping: yeses delivered to a message, less the sends of it that started |

`Worlds` is the choice of who makes the calls: in a chat, in one session of a card, in two
sessions of a card.

### Landing against the code

| State | Code |
|---|---|
| `status`, `doneActor`, `delivered`, `verdict`, `witnessed` | the columns of the task: `status`, `done_actor`, `delivery_commit`, `landing_state`, `landing_witnessed` |
| `tip`, `branch`, `dirty`, `onMain` | git: the commits of the branch, whether it and its worktree exist, uncommitted work, what main has |
| `turn`, `capture` | the agent at work, the deliveries read from git and not yet written (`captureDelivery`, `backfillDeliveries`) |
| `lane`, `phase`, `past` | `lanes`, the tickets by phase, the closed ones of the window |
| `land` | where `landTask` is: merging, proving, closing, probing, reaping, stamping, asking; with the delivery it began with and what it found |
| `push` | what `publishProject` does once its land has settled |
| `audit` | the card `runLandingAudit` is asking git about |

The work of a card is a number of commits: the branch carries the first `tip[c]`, main the
first `onMain[c]`. What properties tell apart is only whether main has the work a verdict or
a removal is about. `spoke` remembers which delivery a verdict was given on, 0 where it speaks of
none in particular (a merge that carries the name of the card, an error, a decision of a person).

`Answers` is all the audit's questions to git: the commit, the content of the branch or of the
commit, the merge of the card. Of a delivery main has not it may be told three things: that it is
not there, that nothing is proved, or that a merge of the card is on main.

### SwapFreeze against the code

| State | Code |
|---|---|
| `os`, `by`, `life` | the processes of a tree, the levers that hold each stopped, which use of its pids it is (the start time that identifies it) |
| `disk`, `diskCount`, `mem`, `memCount` | the ledger file and its copy in memory: batches stopped, counts of freezes |
| `js` | the stretch being run: a write of the ledger and a batch of signals are two steps, a SIGKILL of the server may fall between them, nothing else of this process may |
| `fz`, `snap`, `beatOn`, `tired`, `disabled` | the frozen map and its awaits, the processes read before a freeze, the beat in flight, `noEffectThisEpisode`, the freezer's own switch |
| `glist`, `gstop`, `gcont`, `gcount` | the governor's `state.frozen`, its signals in flight, `freezeCounts` |
| `server`, `boots` | down, booting, the boot thaw done, up, closing |

A tree has a root that leads its process group, the rest of the tree as it was read, and
children forked late into the group (`kin`) or into one of their own (`stray`). `Readings` is what
a `ps` says of a tree: the root and any part of what runs under it, since one that is cut by its
deadline is taken for a complete one. The governor asks it three times, for the record, the stop
and the continue, and may be told three different things. `DiskFails` is whether the ledger can
fail to be written, and to be read by the next server (which then starts from an empty one).
`unseen` and `cut` are bookkeeping: the trees a reading of the governor missed something of, and
those whose stop was still in flight when they were continued.

### CommandWake against the code

| State | Code |
|---|---|
| `os`, `row` | the process of a command; its row: in `runningScripts`, in `recentScripts`, pruned |
| `wake`, `stop` | `cmd.wake`; `cmd.closing`, `cmd.stopFailed`, `cmd.stopped` (with a group `closing` comes first, without one `stopped` does) |
| `chain`, `at`, `counted`, `waiting`, `refused` | `chains` of `process-exit-wake.ts`, where the loop of the first wake is, its `copy`, the requests of a boot, `wakeFailed` |
| `turn`, `wait`, `loose` | the stream of the chat and whose message opened it, `watches`, the requests of waits that `endStream` closed the watch of |
| `sent`, `spent`, `last` | the newest row of the wake and how its turn ended, `resend_counts`, whose message is the last of the chat |
| `held`, `resend`, `open` | `isProviderHeld`, `outageResendOwed`, `wakeVerdict` |
| `read`, `chosen`, `missed`, `dropped` | bookkeeping for the properties |

The rounds of `deliverProcessExit` that only sleep are not steps. Between the check
that the chat is free and the gate of the route the body of the request is awaited, and another
message may get in: `PostWaits` is its 409. The exit of a wait and its last round of reading
are one step after the row is closed, which may come late: until then the watch is open.

## 3. The runs

| Run | Instance | Checks |
|---|---|---|
| `RelayCore` | 2 answers, 2 turns at once, CLI turns, 1 restart, no checkpoints | `TypeOK`, `OwedOnce`, `SentWasHeard`, `HeardInOrder`, `KeepsPromise` (refinement of `OwedDelivery`), `PersonNeverOvertakes`, `NoHotLoop` |
| `RelayLive` | 1 answer, 2 turns, no CLI turns, 1 restart, fair | `AnswersArrive` |
| `AskCore` | 3 questions, two alike; panel first; 1 restart | `TypeOK`, `RightQuestion`, `WaitingIsAnswerable`, `QuestionWaitsForItsHuman` |
| `AskOnce` | 3 different questions, 2 restarts, legs and panels in any order, fair | `LivesOnce` (refinement of `QuestionLife`), `AnsweredMovesOn` |
| `PermitCore` | 2 commands of one tool, the row of one late and of the other plain, 1 fault, fair | `TypeOK`, `HoldIsAnnounced`, `ThePersonDecides`, `YesIsItsOwn`, `OpenIsAwaited`, `AskedIsAnswered` |
| `GateCore` | 2 sends of the same words and a question, in a chat, in a session of a card, in two; 2 legs, 1 click, 1 fault | `TypeOK`, `OneYesOneSend`, `HolderIsOnTheCard`, `SendIsNotCut`, `ClicksReachTheirQuestion` |
| `LandCore` | 1 card delivered twice, 2 decisions, 1 fault, fair | `VerdictIsTrue`, `DebtIsSaid` |
| `LandLine` | 2 delivered cards, 2 decisions, 1 fault, one closed ticket kept, fair | `TypeOK`, `TicketsAreTheLane`, `PublishedIsOnMain`, `EveryLandEnds` |
| `FreezeCore` | 1 tree with late children of its group, 2 freezes, 1 reboot | `TypeOK`, `StopsAreOnDisk`, `AtMostTwoFreezes` |
| `FreezeLive` | 1 tree, pids used twice, 1 freeze, 1 reboot, fair | `StoppedIsContinued` |
| `WakeCore` | 2 commands of a chat, 1 copy after a cut, 2 events among restarts, outages, stops of turns, refusals, lost calls, archivings and messages of the person, fair | `TypeOK`, `OwedIsInLine`, `KeepsNotice` (refinement of `EndNotice`), `EndIsTold` |
| `ViolStamp` | 1 card delivered twice, 2 decisions | `LandedIsTheDelivery`, which the code violates |

Bounds of the relay and the questions. Two answers are enough to invert, to lose one and keep
the other, and to have one in the queue while another is carried; two turns are a turn and
the one that shadows it, or one in the checkpoint and one that overtakes it; names of turns
are reused, so a behaviour has any number of turns. `MaxStack` = 2 is what the code can build:
the adoption of a CLI turn shadows one parked send. One restart separates two lives of the
server, and a second restart adds only the repetition of the first (`AskOnce` has two: an
answer can be read from its row after the first and be owed by the second). Three questions
are: an old one, a new one that asks the same, and a different one between them. `owed` and
`reached` stop counting at 2, which is "more than once".

Bounds of the others. Two commands are one that asks and one whose panel may be mistaken for it.
Two sends and one question are the three parties the gate's comments name; the second leg is the
one that finds what the first left. Two commits of a card are a delivery and the one that comes
while it lands; two decisions are a land and what a person does during it; the lane with two cards
has one running and one behind it, and a window of one closed ticket makes the pruning happen at
the second. `MaxReads` is how many deliveries of a card are being read when the repair pass reads
one more: 1 in `LandCore`, 2 in `LandLine`. A tree frozen twice, by two levers, across one reboot
meets the limit, both writers of the ledger and the reading of it by another server. A second use
of its pids is in `FreezeLive`; `FreezeCore` with it is larger than a run may be, and there the
theorems `StopsAreRecorded` and `FreezesAreLimited` cover any number of lives. Two commands are one
whose wake runs and one behind it; two events are a cut and a restart, two cuts (the second finds
the copies spent), or a lost call and a message. Every bound that is a counter (`MaxLegs`,
`MaxClicks`, `MaxFaults`, `MaxPress`, `MaxWork`, `MaxReads`, `MaxLife`, `MaxBoots`, `MaxRestarts`,
`MaxEvents`) is a guard of the action it counts; the theorems of section 5 hold for all their
values. No run uses symmetry.

Why some properties are checked on a smaller instance than the module allows: each such
restriction is a finding of section 6. `HeardInOrder`, `KeepsPromise` and `PersonNeverOvertakes`
fail with checkpoints (two requests past the gate at once, finding 4; what is taken and kept is
still right then, which `EveryAnswerIsOwedOnce` and `SentMeansHeard` prove),
`PersonNeverOvertakes` exempts the resend of a cut turn, `AnswersArrive` fails with turns of the
CLI (finding 1 is why), `LivesOnce` and `AnsweredMovesOn` fail when a relaunched turn asks the
same text again within the life of the buffer, and leave out what an adoption shows again (finding
7). `WaitingIsAnswerable` (a click on any panel on screen is taken, by the child blocked on it or
as a message) needs `PanelFirst`: a leg that came before its panel, of a child that then died,
leaves an ask open which no turn end releases; the stale sweep does, while the turn is live.
`StoppedIsContinued` speaks of the root and of what the freeze read, not of children forked later
into groups of their own; it and `StopsAreOnDisk` leave out what a reading of the governor missed
and the stops its continue overtook (findings 22 and 23). `YesIsItsOwn` exempts commands shown on
a row lent by name (finding 8). `VerdictIsTrue` lets a verdict speak of an earlier merge of the
card, and `DebtIsSaid` takes it, and "nothing is proved", for an answer (finding 20).

Deadlock is checked in the runs of the relay and of the questions: a session can always go on. It
is not in `PermitCore`, `GateCore`, `LandCore`, `LandLine`, `FreezeCore`,
`FreezeLive`, `WakeCore` and `ViolStamp`: a system whose commands are answered
or told, whose lands are over or whose processes are gone has nothing left to do within the
bounds.

## 4. Fairness

`AnswerRelay!Fairness`. Weak fairness of the loops: the process runs what it started.
Strong fairness of timers, of the relay's request and of the boot's decisions: they do
happen, but a handler that is running disables every other one for a while, so that weak
fairness would ask nothing. `TickInTime`, `PostInTime`, `StartsCarrying`, `HearsInTime`:
no race is lost every time. The code retries for ever and has no cap, so that an answer
whose post always meets a new machine turn, or whose every turn fails before the model
speaks, never arrives; `AnswersArrive` is about the sessions where this does not go on for
ever. It also supposes that turns keep ending, which the relay counts on as its only wake-up.

`NoHotLoop` is stated without any fairness: infinitely many posts imply infinitely many
elapsed waits or first events.

`AskBridge!Fairness`. Weak fairness of the asker's polling and of its continuation, of the
two timers (leg and buffer), of the adoption at boot, and of the end of a turn whose child
is dead (the provider's exit handler and the stale sweep). Nothing is supposed of the
person, of the model, or of a turn whose child lives.

`PermissionBridge!Fairness`. Weak fairness of the polling, of the timer that ends a leg and of
the two hours of a request. Nobody ever has to press: `AskedIsAnswered` is about the command
that is asked about and that nobody looks at.

`Landing!Fairness`. Weak fairness of the land that runs, strong fairness of the audit's turn at
each card, weak of the two steps that follow. The audit passes over every candidate each half
hour, so a card that stays or comes back among them is asked about; it is strong because a
land, or an agent, makes a card stop being a candidate for a while.

`SwapFreeze!Fairness`. A handler that awaits goes on (each `ps` has a deadline); the beats come
every ten seconds, and no freeze outlasts its cap (ten minutes, four of the governor), but
both are disabled while another handler of the same tree is awaited, hence strong. A server
that is down is started again.

`CommandWake!Fairness`. An exit that has happened is seen (the exit handler, or the poll of pids)
and a group that was told to end and has ended is settled; a wait returns (each has a limit of
time); the loop of the wake at the head of the chain goes round, and what a boot requested
enters the chain; the sweep resends the person's message or lets it go, and a hold of the
provider has an end. Strong fairness of the end of a turn, which is enabled only between its
calls. Nothing makes a command end, a stop succeed, or anybody write.

`OutboundGate` has no liveness property and states no fairness: a send that nobody answers
ends when its legs are over.

What the modules suppose besides. Distances between two constants of the code: the lease of a
hold outlives its leg by thirty seconds (`Lapses`); a heartbeat is older than two minutes only
if no leg repeats its question (`HeartbeatStops`); an answer in the buffer, kept for two minutes,
outlives a call that is failing (`AskBridge`); the boot reads `ps` before the first beat of the
levers (four seconds against ten); a pid is not used again while an answer of `ps` about it is
acted on; the governor plans a tree again only when its last stop and its last continue have
ended, since it wants two readings over the budget and beats are ten seconds apart (`GovPlans`) -
but nothing keeps a beat from continuing a tree that is still being stopped, and `GovThaws` has no
such guard. One is a choice of names: a card launched again after its branch was removed does what
main has not under the same numbers (`Landing`).

## 5. Proofs

All theorems hold for every value of the constants: any number of answers, turns, questions,
commands, cards and trees, and any bound of restarts, faults, legs and lives. Every safety
property of the runs that pass is stated by one of them, the three refinements included; a
hypothesis on a constant is named below, and the runs check the property with the same one.

`AnswerRelay_proofs`: `TypeCorrect` (`TypeOK`), `EveryAnswerIsOwedOnce` (`OwedOnce`: on disk and in
memory alike, in one place), `SentMeansHeard` (`SentWasHeard`), with and without checkpoints
and CLI turns. Assumptions: `DistinctNames`, `Settings`, `Bounds`. The inductive invariant `IInv`
adds two facts: `CarriesAreSilent` (a turn that carries answers is a current or just closed
one, the model has not spoken on it, and it carries something: without it a second event
could settle answers that were given back) and `SettlingWasHeard` (what a running settle loop
still has to mark was heard). Each action has its lemma; the sequence arithmetic (`RemoveAt`,
`SelectSeq` under concatenation, injectivity) is in `QueueFacts`.

With `~Checkpoints` (finding 4 shows the overtaking and the inversion with them):
`HeardInTheirOrder` (`HeardInOrder`), `NoMessageOvertakes` (`PersonNeverOvertakes`) and
`RelayKeepsPromise` (`KeepsPromise`, the refinement of `OwedDelivery`). An answer is in the queue,
in a carry, in a post, in the settle loop or in what a boot loads, and order between these places
is what can go wrong, so the second invariant `OInv` is about the relation "given earlier" across
all of them: `PlacesInOrder` (each place is in that order, and what is carried or being settled
comes before what is queued, which comes before what a boot has still to load), `OneCarry` (one
turn carries at a time, and none while others are settled or loaded), `CarryIsBusy` (nothing is
carried in a free session), `PostingIsOldest` (what is posted is the oldest where it is),
`TextsAreClosed` (a text with an answer has every earlier one, or they were heard) and
`BehindIsCarried` (a message of the person has all that was given before it). `QueueFacts` says
how appending, concatenating, taking the head and removing keep a sequence in the order of a
relation; no induction over data is needed.

`AskBridge_proofs`: `ShapesAreKept` (`TypeOK`), `NoAnswerToAnother` (`RightQuestion`),
`OnlyAHumanEndsIt` (`QuestionWaitsForItsHuman`), with legs and panels in any order. Assumptions:
`TextsOfQuestions`, `DistinctNames`, `Settings`. Its invariant adds what a leg relies on:
`LegIsOfAsker` (the leg that is out is the waiter, and the open ask has its texts: whatever route
a click takes to that leg compares texts), `TookFits` (what a leg brought back fits the call that
waits for it) and `BufferedIsAnswered` (what the buffer holds was given by the person, so that
handing it on ends no open question).

With `PanelFirst`, `EveryPanelIsAnswerable` (`WaitingIsAnswerable`). What is on screen is
described by `ScreenInv`: the panel of the call the child is blocked on is the newest
(`AskerIsNewest`), and a panel that waits with nobody marked gone is the newest, on the row of the
turn, of the child that is blocked on it or died there (`HeldIsNewest`). `PanelInv` adds that an
open ask is about such a panel, with its texts (`AskIsHeld`), so that no click on it is sent
elsewhere, and that the provider holds the panel of a live call (`PanelIsHeld`), so that the end
of the call ends its ask. The proof showed that `routeAnswer`'s cases need `NoAsk` and `Unsaid` to
differ, which `DistinctNames` now says.

When no two questions ask the same thing (`TextsTellApart`, as in `AskOnce`; finding 7 and the
bounds of section 3 say what happens otherwise), with legs and panels in any order:
`AnswersGoOneWay` (`DeliveredOnce`: an answer is the result of one call or one message, never
both, but for a question in `reopened`: answered, and shown again by an adoption before its call
heard it) and `QuestionsLiveOnce` (`LivesOnce`, the refinement of `QuestionLife`, which `AskOnce`
checks: the life says when a question may be taken up again, and of one that was not it has no
state for an answer that went two ways). `OnceInv` says that the answers of running rows, of the
buffer and of the leg that came back went nowhere yet, and are different ones
(`RunningIsUndelivered`, `CarriedIsUndelivered`), and that an open ask is about a question still
to be painted, or held, and names it as long as no panel was shown again (`OpenIsToAnswer`), so
that a click routed to a process is on a panel that is held. A leg reads the buffer only after an
adoption has shown a panel again; otherwise the row is written first, and the leg looks there
first. For the refinement, `Ages` is what every step does to a question that is not taken up again
(what is closed, with no answer of its on its way, is left alone), and `TakenUpFrom` says from
where one can be.

`PermissionBridge_proofs`: `PermitShapesAreKept` (`TypeOK`), `TheHoldIsTrue` (`HoldIsAnnounced`),
`ThePersonIsObeyed` (`ThePersonDecides`), `NoYesToAnother` (`YesIsItsOwn`), `NoRequestIsLeftOpen`
(`OpenIsAwaited`), from `CallNames` and `PermitBounds`, for any number of commands and tools.
`IInv` has three parts next to the shapes: `Requests` (a hold is announced while something is
open, a leg waits only for an open request, who asks has no answer, who is open has asked),
`Decisions` (a buffered decision is the one the person said; a session set free by a press
leaves nothing open; who has been decided is no longer open, unless a rule overtook it) and
`Panels` (a panel, and an alias, that is not of its own command is of one in `borrowed`).

`Landing_proofs`: `LandShapesAreKept` (`TypeOK`), `TheQueueIsTrue` (`TicketsAreTheLane`),
`NoFalseLanding` (`VerdictIsTrue`) and `PublishesAreOnMain` (`PublishedIsOnMain`), with no
assumption but `CardNames` and `LandBounds`. The invariant of the last two is what each await of a
land, or of the audit, may still rely on when it comes back: `LandKnows` (what the land has found
out about the delivery it began with stays true, since main only grows) and `AuditKnows` (the same
for the answer the audit holds, whatever was delivered or merged since it asked).

`SwapFreeze_proofs`: `FreezeShapesAreKept` (`TypeOK`), `StopsAreRecorded` (`StopsAreOnDisk`, of the
freezer and of the governor), `FreezesAreLimited` (`AtMostTwoFreezes`), from `TreeNames` and
`FreezeSettings`, for whatever the three readings of the governor say; the last two say nothing of
a ledger that cannot be written or read (`DiskFails`). `Records` is the invariant: memory and disk
agree, only living processes are stopped, a batch that is being signalled is recorded before, a
thaw drops its record only after its last batch, and the boot clears only what it continued. Of
the governor it says `StopIsRecorded` (a stop about to be sent is on disk, but for what the reading
of the record missed, and for a stop its own continue overtook) and `NothingToContinue` (nothing of
a tree is held by the governor when it begins its record, nor after it has left it: otherwise a
new record could replace one that somebody still needs). `FreezesAreCounted` says that the count
on disk is never behind the freezes that stood.

`CommandWake_proofs`: `WakeShapesAreKept` (`TypeOK`), `NoWakeIsForgotten` (`OwedIsInLine`) and
`NoEndIsToldTwice` (`NotToldTwice`, an action property; `WakeCore` checks it as the `Tell` of
`KeepsNotice`), from `TurnNames` and `WakeBounds`, for any number of commands, copies and events.
`IInv` adds `GoneOwesNothing` (a pruned row owes nothing: the next boot, which requests wakes from
the rows it reads, does not know it), `KnownIsSettled` (what was read or stopped is owed no
longer, unless the row of its wake is out already) and `TurnHasItsRow` (the turn of a wake has its
row, so that its end sends no first row). `WakesKeepTheirNotice` is the refinement of `EndNotice`
(`KeepsNotice`): `cmd.wake` is cleared by stops, exits, waits, reads, boots and the loop of the
wake, in two modules, and each of these is a `Learn` or a `Settle` of the promise, with its
reason. It needs `StoppedOwesNothing` (the boot and the exit handler drop the debt of a stopped
command without asking who was told) and `DrainsItsRow` (the wake that settles after its turn has
its row). One reason the promise allows is finding 24: a turn that waits for the end.

`OutboundGate_proofs`: `GateShapesAreKept` (`TypeOK`), `YesesPayForSends` (`OneYesOneSend`),
`HoldersAreOnTheCard` (`HolderIsOnTheCard`), `QuestionsLeaveSendsAlone` (`SendIsNotCut`) and
`ClicksFindTheirQuestion` (`ClicksReachTheirQuestion`), from `GateNames`, `GateCalls` and
`GateFinite` (there are finitely many calls and sessions: a new row needs a number nobody has).
The invariant has two parts. `Paid`: the yeses of a message that are on their way, in woken legs
and in buffers, are no more than the yeses said less the sends started; it stands because a
session has one wait (`OneWait`), so that one answer wakes one leg or goes to the buffer, never
both. `Holds`: a leg that holds is of the holder of its surface, the row a question wrote is not
the row of a hold (or the end of a question would take a send off the card), and who waits holding
repeats the question that is on the card, so that nobody may replace it. `CardIsAsked` and
`ViewIsTrue` say for the clicks that whoever waits in the session of the card's question waits for
that question (or a leg that will take it off has just been woken), and that a row keeps its
question. The shapes need more than the type of each variable: `ShapeInv` bounds the names of
questions by counting the places that can hold one (a surface, a leg, the leg of a lost socket,
card and view), the transcript by writing a send once (`RowsOK`), and the waits of a session by
`OneWait`.

Model-checked only: the liveness properties `AnswersArrive`, `AnsweredMovesOn`, `NoHotLoop`,
`AskedIsAnswered`, `DebtIsSaid`, `EveryLandEnds`, `StoppedIsContinued` and `EndIsTold` (fairness
and ENABLED are out of the prover's reach), and the properties the code violates (section 6).

## 6. What the checks found

What a comment of the code says and the code does not do is stated as a property of its module.
One of them is the run `ViolStamp`, which must fail:

- `LandedIsTheDelivery`: a land proves its delivery on main, awaits the removal of the worktree, and
  stamps `landed` on the card. A delivery recorded during that await gets the verdict, and the seal
  that keeps the audit away from it. `recordDelivery` says that a new delivery invalidates any
  previous verdict (`services/tasks.ts:6660-6661`).

The others are no runs of their own. TLC finds each violated, by a short trace in which every step
is one of the code's, when it is put in the place of the properties of the run that is named.

| Property | Run | What happens | Finding |
|---|---|---|---|
| `OldestFirst` | `RelayCore` with `Checkpoints` | two requests carry answers of a session at once; each carry given back goes in front of the queue, and the newer may come to stand before the older | 4 |
| `PersonNeverOvertakes` | `RelayCore` with `Checkpoints` | the route takes an answer and awaits the checkpoint; a message of the person passes the open gate and finds an empty queue | 4 |
| `OwedIsOnItsWay` | `RelayCore` | a post refused by a hold of the turn ledger waits for the end of a turn; the end of the hold announces none, and the answer stays owed in a free session | 1 |
| `AnsweredIsNotAsked` | `AskOnce` | a restart adopts a turn whose child has been answered but has not collected it: the replay shows the panel again and writes `waiting_for_input` on the row (`providers/claude-code.ts:3546`, `routes/chat.ts:3282-3289`), and from a row that waits no answer is collected. `routes/topics.ts:2959-2962` forgets the pending entry so that a replay does not show it: that is memory, which the restart has lost anyway | 7 |
| `YesIsAlwaysItsOwn` | `PermitCore` | the yes given on a panel lent by name goes to the command whose row it is | 8 |
| `NothingIsDestroyed` | `ViolStamp` | the reap probes the worktree, then waits for its turn to remove it by force; what an agent at work on the card writes in between is destroyed | 19 |
| `UnlandedIsNotOverturned` | `ViolStamp` | of a delivery main has not, the content proves nothing, and the merge of an earlier land of the card makes it `landed` (`services/landing-audit.ts:193-200`) | 20 |
| `NoStopOffDisk` | `FreezeCore` | the `ps` of the governor's record misses what the `ps` of its stop sees, which is then stopped with nothing on disk | 22 |
| `DroppedOnlyWhenContinued` | `FreezeCore` | the `ps` of the continue misses a process in another group, or the root is continued while its stop is in flight; the record is dropped all the same | 22, 23 |

The list holds these and what else came up while the models were checked: each is why a
property has the exemption it has, or is not stated. They were seen as traces of the models.

Relay and questions.
1. A post refused because of a hold of the turn ledger (boot, or a turn of the
   CLI) counts as "somebody else got in first" and waits for a turn end; releasing the hold
   announces none (`lib/answer-relay.ts:187`). The answer stays owed in a free session.
2. The end of a CLI turn gives back the answers carried by the send parked behind it, which
   is still going to the model (`lib/answer-relay.ts:253`).
3. The resend of a cut turn takes none of the owed answers, and passes the hold that stops the
   relay (`routes/chat.ts:652`).
4. With checkpoints on, a message overtakes the answer that an
   earlier request took (`routes/chat.ts:849`). Two carries in progress at once are also given
   back one by one, each in front of the queue, and come back inverted.
5. An answered question still running is closed as an error by the end of its turn while its
   answer is only in memory; a restart then loses it (`utils.ts:2421`).
6. `cancelAsk` drops an answer buffered for another question (`lib/ask-user-bridge.ts:475`).
7. A leg served from the buffer leaves its ask open and anonymous; the next click on any
   panel, also a closed one, is delivered (`routes/permission.ts:175`). It takes two questions with
   the same text, or an answered panel that an adoption shows again.

Permissions.
8. A request painted on a row found by its tool's name writes an alias; when the
   row's own command asks, a press on the old panel goes to the other
   (`lib/permission-bridge.ts:281-289`).
9. The end of a turn releases the session's requests only if a row of it still says that it
   awaits permission (`utils.ts:2430-2451`); a write of the turn's blocks between the paint and
   the end takes that word away, and the requests stay open, for two hours at most.
10. `allow_always` on one of two open requests of a tool writes the rule that answers both; the
   entry of the other stays open until its next leg.
11. A decision that resolves a leg whose connection is lost is heard by nobody; cancelling
   leaves the aliases; a leg that comes after the turn's end opens its request again and
   paints a row that is closed; a bridge that stayed away for more than thirty seconds after
   a press asks again.

Outbound gate.
12. A generic question answered after its first leg, or read from its row, stays on the card
   (`routes/permission.ts:252`, `:279`: the row is remembered by the leg that wrote it), and while
   its heartbeat is fresh no other question gets there.
13. In a chat without a card a send supersedes the open question of its session, which the
   gate's comment says must be turned away before (`lib/outbound-gate.ts:420`).
14. When the socket of a send's first leg dies the retry has no token: it is refused by its own
   hold, the agent is told that nothing was sent, and the leg that still waits can be answered
   and send. A later leg that dies is superseded by the retry, and its end closes the question
   and the hold of the leg that took its place.
15. If the response is lost after the mail has left, the retry asks again for a mail already
   sent. A send that runs out of legs leaves its block on the card.
16. An answer given on the card is buffered without the panel it was given on, and a leg that
   reads its own answer from the row ends the wait of a send of the same session.

Landing.
17. The push of a publish runs after its land has left the lane, next to the following land
   (`routes/tasks-board.ts:796-798` says it must never).
18. The window of closed tickets holds a card as many times as it landed, and its pruning
   deletes the ticket by card: the newest one may go (`services/landing-queue.ts:109`).
19. The removal of a worktree trusts a probe made before an await.
20. A deduction of the audit is written over a witnessed landing, and an error after a confirmed
   merge stamps `unlanded` on work main has. A proof that cannot be read, with a merge made
   elsewhere, closes a card whose work is not on main; the audit may go on calling it landed by
   the merge of an earlier land, or "nothing is proved" for good.

Freezing.
21. A child forked into a group of its own after the record is stopped with nothing on disk
   (`Late` with `stray`); so is everything after a write of the ledger that failed, which is
   logged and ignored. A boot that cannot read the file starts from an empty ledger: what was
   stopped stays stopped, and the counts of freezes begin again (`DiskFails`).
22. The governor's record, stop and continue ask `ps` anew, and one
   that was cut is taken for complete: what the first missed is stopped off disk, what the last
   missed stays stopped while its record is dropped. Of a tree whose root is gone the continue
   misses every other group. The freezer's `thawAll` skips a tree whose freeze or thaw is in
   flight; the next boot continues it.
23. A shutdown, and a beat that finds the use under the budget, continue and
   release a tree of the governor whose stop is still in flight
   (`services/budget-governor.ts:231`); the stop then lands on processes that are no longer on
   disk, while `swap-freeze-ledger.ts:2` says that no pid is ever stopped unless it is already on
   disk. `GovernorStopsAreOnDisk` exempts them (`cut`).

Wakes.
24. The exit of a command takes its wake away if a wait is open (`routes/processes.ts:822`), but
   the wait reads one more round before it returns. A turn that is cut, stopped or restarted in
   between, or a call that is lost, leaves an end nobody was told, and nothing owes it any more;
   `utils.ts:2519` says that the wake "is owed again" then. `EndIsTold` exempts them (`missed`).
25. An exception in the loop of a wake leaves the chain by the catch of `schedule`
   (`lib/process-exit-wake.ts:366`), without `settle` or `fail`: the row says that a wake is owed,
   and whoever waits for it waits until the next boot asks for it again (`dropped`).

## 7. What is left out, and the plan

Left out of the modules, with the reason.

- Questions: the archive of a chat and the clear of a session (they cancel the ask as Stop
  does); the lookback windows of rows and the thirty days of the boot sweep (time); the text of
  messages and panels, notifications and logs (no property is about them).
- Permissions: the routes that list and revoke rules; a second session.
- Gate: attachments, the command lines of the mail tools, the configuration that exempts a
  send; a comment that cannot be written; a restart of the server (it empties holds, waits and
  buffer at once, and every caller posts again).
- Landing: deploy, archive, projects of several repositories, open steps of a card, realign;
  git failing to answer the audit; the verdict asked again after a day.
- Freezing: the thresholds of memory, the spacing of beats and the choice of the heaviest tree:
  any beat may freeze or thaw any tree. No property says that the boot never signals a stranger
  who has the pid of a tree: it would only restate the comparison of identities (`Matching`), which
  is modelled with the case that it cannot be made (a mute `ps`).
- Wakes: the results of sub-agents (another store and another text, the same wait for a free
  chat); commands that ask for no wake; the runs of a person; background shells; reads of a
  command by another session of the project, which settle nothing; who looks at what is owed
  (goals, cards).
- Everything rated `not_modelled` in the table of components: mostly rendering and I/O, and the
  protocols of the plan below. The repository is far larger than what a model can follow; the
  modules stand for the protocols whose errors a test would hardly reach.

Plan, in order of importance.

1. `TurnLedger` and the boot: holds, adoption, resume; a killed turn is resumed at most once and
   never next to a live one; composed with `AnswerRelay`.
2. `LateAnswer` (writes after the finalize) and `Dispatcher` (ownership, capacity, reservations).
3. Small utilities (the idempotency cache) and the remote relay's requests.
