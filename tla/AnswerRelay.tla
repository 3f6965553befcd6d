---------------------------- MODULE AnswerRelay ----------------------------
(***************************************************************************)
(* The delivery of answers whose asker is gone, for ONE chat session.      *)
(*                                                                         *)
(* A person answers a question after the process that asked it has gone.   *)
(* The answer is then owed to the model: server/lib/answer-relay.ts keeps  *)
(* it in a queue, the chat route (server/routes/chat.ts) takes it out of   *)
(* the queue into a carry that travels with one message, and the first     *)
(* event of the model on that message's turn settles it.  The stack of     *)
(* live streams and the end of a turn are server/utils.ts, the durable     *)
(* side is the mark on the question's row and its entry in owed_answers    *)
(* (server/lib/owed-answers.ts), and the boot is server.ts.                *)
(*                                                                         *)
(* Every map of the relay is keyed by session and no operation touches two *)
(* sessions, except the boot hold, which only delays: one session is the   *)
(* whole behaviour.                                                        *)
(*                                                                         *)
(* The server is one JavaScript process: a handler runs to its next await. *)
(* A loop of the code is written here as one step per iteration, and       *)
(* RunToCompletion keeps every other handler out until it is over.  Only a *)
(* restart, which is a crash of the process, can cut it.                   *)
(***************************************************************************)
EXTENDS Naturals, Sequences, FiniteSets, SequencesExt

CONSTANTS
  Answer,        \* tool call ids of the questions answered with nobody asking
  Turn,          \* names for the turns that can be in progress at once, reused
  NoPost,        \* the relay has no post on its way
  NoCut,         \* no turn of this session was cut by the last restart
  Checkpoints,   \* automatic turn checkpoints are on (app setting)
  CliSession,    \* the provider is the Claude CLI, which opens turns by itself
  MaxStack,      \* bound: entries of activeStreams on one session (top + shadowed)
  MaxRestarts    \* bound: crashes of the server in one behaviour

ASSUME DistinctNames == NoPost \notin Answer
ASSUME Settings == Checkpoints \in BOOLEAN /\ CliSession \in BOOLEAN
ASSUME Bounds == MaxStack \in Nat \ {0} /\ MaxRestarts \in Nat

VARIABLES
  \* The relay's memory
  owed,       \* owedBySession: the answers waiting, oldest first
  carrying,   \* carrying: the turns that took answers and did not settle them
  posting,    \* posting: the answer the relay is posting to the chat route
  retry,      \* retry: none, waiting, armed (a timer will pump), due (elapsed)
  tick,       \* a setTimeout(0) of onEnd is pending
  held,       \* holds > 0: the boot has not adopted the surviving turns yet
  \* What is left of a loop that is running
  returning,  \* onEnd: turns whose carry is still to be given back
  settling,   \* heard: answers whose row is still to be marked sent
  loading,    \* the boot: owed answers still to be enqueued
  \* The chat route and the streams
  turn,       \* the turns: see TurnRecord
  streams,    \* activeStreams: top first, then what it shadows
  cli,        \* the ledger's "cli" source: the CLI is in a turn of its own
  bootHold,   \* the ledger's "boot" source
  \* What survives a restart
  given,      \* the answers in the order the person gave them (created_at)
  mark,       \* answerRelay on the question's row
  index,      \* the rows of owed_answers
  cut,        \* the turn the last restart cut, which the resume sweep resends
  \* Bookkeeping that is not in the code
  reached,    \* how many times the model heard each answer (2 = more than once)
  restarts

relayVars == <<owed, carrying, posting, retry, tick, held>>
loopVars  == <<returning, settling, loading>>
routeVars == <<turn, streams, cli, bootHold>>
diskVars  == <<given, mark, index, cut>>
vars == <<relayVars, loopVars, routeVars, diskVars, reached, restarts>>

-----------------------------------------------------------------------------
(* A turn.  "accepted" is past the gate of the chat route with its stream   *)
(* not started, "orphan" a turn whose process outlived a restart and was    *)
(* not adopted yet, "closed" one that ended with the model still silent: an *)
(* event of its may still arrive.  text is what the model reads of the owed *)
(* answers in it, and behind the answers the person had given before the    *)
(* message of the turn, not heard by the model when the route took it.      *)
TurnRecord == [st: {"free", "accepted", "streaming", "closed", "orphan"},
               by: {"nobody", "relay", "person", "machine", "woken", "resume"},
               text: Seq(Answer), behind: SUBSET Answer, heard: BOOLEAN]

FreeTurn == [st |-> "free", by |-> "nobody", text |-> <<>>, behind |-> {},
             heard |-> FALSE]

NewTurn(st, by, text, behind) ==
  [st |-> st, by |-> by, text |-> text, behind |-> behind, heard |-> FALSE]

\* The answers of s that q does not hold, in the order of s.
Missing(s, q) ==
  IF ToSet(s) \cap ToSet(q) = {} THEN s
  ELSE SelectSeq(s, LAMBDA a : a \notin ToSet(q))

Position(s, e) == CHOOSE i \in DOMAIN s : s[i] = e

\* The answers that travel with a turn.
Carried == UNION {ToSet(turn[t].text) : t \in ToSet(carrying)}

\* turnStarted: from startStream on, the turn's end decides and not the route's exit.
Started(t) == turn[t].st # "accepted"

\* No other handler runs before the current one reaches an await.  Between the
\* gate and startStream the route awaits only the turn checkpoint.
RunToCompletion ==
  /\ returning = {} /\ settling = <<>> /\ loading = {}
  /\ Checkpoints \/ \A t \in Turn : turn[t].st # "accepted"

\* The chat route's gate: the live stream, then every source of the turn ledger.
GateOpen == streams = <<>> /\ ~cli /\ ~bootHold
ResumeGateOpen == streams = <<>> /\ ~cli

Init ==
  /\ owed = <<>> /\ carrying = <<>> /\ posting = NoPost /\ retry = "none"
  /\ tick = FALSE /\ held = FALSE
  /\ returning = {} /\ settling = <<>> /\ loading = {}
  /\ turn = [t \in Turn |-> FreeTurn] /\ streams = <<>>
  /\ cli = FALSE /\ bootHold = FALSE
  /\ given = <<>> /\ mark = [a \in Answer |-> "none"] /\ index = {}
  /\ cut = NoCut
  /\ reached = [a \in Answer |-> 0] /\ restarts = 0

-----------------------------------------------------------------------------
(* The relay *)

\* pump: post the oldest answer of q, or arm the timer if a failed post still waits.
Pump(q, isHeld) ==
  LET free == q # <<>> /\ ~isHeld /\ posting = NoPost /\ streams = <<>>
      wait == retry \in {"waiting", "armed"}
  IN  /\ posting' = IF free /\ ~wait THEN Head(q) ELSE posting
      /\ retry' = IF free /\ wait THEN "armed" ELSE retry

\* The list of owed answers with a enqueued: a second call for one is a no-op.
Enqueued(a) ==
  IF a \in ToSet(owed) \cup Carried THEN owed ELSE Append(owed, a)

\* deliverAsMessage: the row and the index in one transaction, then the queue.
Give(a) ==
  /\ RunToCompletion
  /\ mark[a] = "none"
  /\ mark' = [mark EXCEPT ![a] = "queued"]
  /\ index' = index \cup {a}
  /\ given' = Append(given, a)
  /\ owed' = Enqueued(a)
  /\ Pump(owed', held)
  /\ UNCHANGED <<carrying, tick, held, loopVars, routeVars, cut, reached, restarts>>

\* The setTimeout(0) of onEnd.
TickFires ==
  /\ RunToCompletion
  /\ tick
  /\ tick' = FALSE
  /\ Pump(owed, held)
  /\ UNCHANGED <<owed, carrying, held, loopVars, routeVars, diskVars, reached, restarts>>

\* The wait after a failure ends with no timer armed: nobody is told.
WaitElapses ==
  /\ RunToCompletion
  /\ retry = "waiting"
  /\ retry' = "due"
  /\ UNCHANGED <<owed, carrying, posting, tick, held, loopVars, routeVars,
                 diskVars, reached, restarts>>

\* The timer pump armed fires, with the wait over.
TimerFires ==
  /\ RunToCompletion
  /\ retry = "armed"
  /\ retry' = "due"
  /\ posting' = IF owed # <<>> /\ ~held /\ posting = NoPost /\ streams = <<>>
                THEN Head(owed) ELSE posting
  /\ UNCHANGED <<owed, carrying, tick, held, loopVars, routeVars, diskVars,
                 reached, restarts>>

\* The first event of the model on the turn.  It settles the carry of the turn
\* only while that is a current one; the event of a closed turn can come late.
Hears(t) ==
  /\ RunToCompletion
  /\ turn[t].st \in {"streaming", "closed"}
  /\ ~turn[t].heard
  /\ turn[t].by \in {"woken", "nobody"} \/ ~cli
  /\ turn' = [turn EXCEPT ![t] =
       IF @.st = "closed" THEN FreeTurn ELSE [@ EXCEPT !.heard = TRUE]]
  /\ reached' = [a \in Answer |->
       IF a \in ToSet(turn[t].text) /\ reached[a] < 2 THEN reached[a] + 1 ELSE reached[a]]
  /\ IF t \in ToSet(carrying)
     THEN /\ carrying' = RemoveAt(carrying, Position(carrying, t))
          /\ retry' = "none"
          /\ settling' = turn[t].text
     ELSE UNCHANGED <<carrying, retry, settling>>
  /\ UNCHANGED <<owed, posting, tick, held, returning, loading, streams, cli,
                 bootHold, diskVars, restarts>>

\* settle, for the next answer of the carry: mark and index in one transaction.
SettleNext ==
  /\ settling # <<>>
  /\ mark' = [mark EXCEPT ![Head(settling)] = "sent"]
  /\ index' = index \ {Head(settling)}
  /\ settling' = Tail(settling)
  /\ UNCHANGED <<relayVars, returning, loading, routeVars, given, cut, reached, restarts>>

\* The boot has adopted the surviving turns: release of the hold.
ReleaseHold ==
  /\ RunToCompletion
  /\ held
  /\ \A t \in Turn : turn[t].st # "orphan"
  /\ held' = FALSE
  /\ Pump(owed, FALSE)
  /\ UNCHANGED <<owed, carrying, tick, loopVars, routeVars, diskVars, reached, restarts>>

-----------------------------------------------------------------------------
(* The chat route *)

\* The relay's request is at the gate, read and not claimed yet.
PostAtGate ==
  /\ posting # NoPost
  /\ \A t \in Turn : ~(turn[t].st = "accepted" /\ turn[t].by = "relay")

\* The post comes back with no turn.  409 stream_in_flight and 409 answer_not_owed do not
\* count as failures; any other status, or a throw, starts the wait.
PostRefused ==
  /\ RunToCompletion
  /\ PostAtGate
  /\ \/ (~GateOpen \/ posting \notin ToSet(owed)) /\ retry' = retry
     \/ retry' = "waiting"
  /\ posting' = NoPost
  /\ UNCHANGED <<owed, carrying, tick, held, loopVars, routeVars,
                 diskVars, reached, restarts>>

\* claim: the relay's own message takes its answer and is written.
PostClaims(t) ==
  /\ RunToCompletion
  /\ PostAtGate /\ GateOpen /\ posting \in ToSet(owed)
  /\ turn[t].st = "free"
  /\ owed' = RemoveAt(owed, Position(owed, posting))
  /\ carrying' = Append(carrying, t)
  /\ turn' = [turn EXCEPT ![t] = NewTurn("accepted", "relay", <<posting>>, {})]
  /\ cut' = NoCut
  /\ UNCHANGED <<posting, retry, tick, held, loopVars, streams, cli, bootHold,
                 given, mark, index,
                 reached, restarts>>

\* A mistake kept for checking: the person's message leaves the answers in the queue.
PersonPostsAlone(t) ==
  /\ RunToCompletion
  /\ GateOpen
  /\ turn[t].st = "free"
  /\ turn' = [turn EXCEPT ![t] = NewTurn("accepted", "person", <<>>,
                {a \in Answer : mark[a] # "none" /\ reached[a] = 0})]
  /\ cut' = NoCut
  /\ UNCHANGED <<relayVars, loopVars, streams, cli, bootHold, given, mark, index,
                 reached, restarts>>

\* takeOwed: a message the person typed takes every answer the session owes.
PersonPosts(t) ==
  /\ RunToCompletion
  /\ GateOpen
  /\ turn[t].st = "free"
  /\ turn' = [turn EXCEPT ![t] = NewTurn("accepted", "person", owed,
                {a \in Answer : mark[a] # "none" /\ reached[a] = 0})]
  /\ carrying' = IF owed = <<>> THEN carrying ELSE Append(carrying, t)
  /\ owed' = <<>>
  /\ cut' = NoCut
  /\ UNCHANGED <<posting, retry, tick, held, loopVars, streams, cli, bootHold,
                 given, mark, index,
                 reached, restarts>>

\* A message of the machine (dispatcher, goal nudge, wake) or a slash command.
MachinePosts(t) ==
  /\ RunToCompletion
  /\ GateOpen
  /\ turn[t].st = "free"
  /\ turn' = [turn EXCEPT ![t] = NewTurn("accepted", "machine", <<>>, {})]
  /\ cut' = NoCut
  /\ UNCHANGED <<relayVars, loopVars, streams, cli, bootHold, given, mark, index,
                 reached, restarts>>

\* The resume sweep resends the last user row of the turn the restart cut.  Its
\* request passes the boot hold and is not the person's: it takes nothing.
ResumePosts(t) ==
  /\ RunToCompletion
  /\ cut # NoCut /\ ~held
  /\ ResumeGateOpen
  /\ turn[t].st = "free"
  /\ turn' = [turn EXCEPT ![t] = NewTurn("accepted", "resume", cut.text, cut.behind)]
  /\ cut' = NoCut
  /\ UNCHANGED <<relayVars, loopVars, streams, cli, bootHold, given, mark, index,
                 reached, restarts>>

\* A mistake kept for checking: the rows say sent as soon as the stream starts.
StartTurnSettles(t) ==
  /\ returning = {} /\ settling = <<>> /\ loading = {}
  /\ turn[t].st = "accepted"
  /\ Len(streams) < MaxStack
  /\ turn' = [turn EXCEPT ![t].st = "streaming"]
  /\ streams' = <<t>> \o streams
  /\ posting' = IF turn[t].by = "relay" THEN NoPost ELSE posting
  /\ bootHold' = IF turn[t].by = "resume" THEN FALSE ELSE bootHold
  /\ carrying' = <<>>
  /\ settling' = IF t \in ToSet(carrying) THEN turn[t].text ELSE <<>>
  /\ UNCHANGED <<owed, retry, tick, held, returning, loading, cli, diskVars,
                 reached, restarts>>

\* startStream, and turnStarted.  A stream of another turn is shadowed.
StartTurn(t) ==
  /\ returning = {} /\ settling = <<>> /\ loading = {}
  /\ turn[t].st = "accepted"
  /\ Len(streams) < MaxStack
  /\ turn' = [turn EXCEPT ![t].st = "streaming"]
  /\ streams' = <<t>> \o streams
  /\ posting' = IF turn[t].by = "relay" THEN NoPost ELSE posting
  /\ bootHold' = IF turn[t].by = "resume" THEN FALSE ELSE bootHold
  /\ UNCHANGED <<owed, carrying, retry, tick, held, loopVars, cli, diskVars,
                 reached, restarts>>

\* A mistake kept for checking: an exit nobody thought of loses the carry.
RefuseTurnLoses(t) ==
  /\ returning = {} /\ settling = <<>> /\ loading = {}
  /\ turn[t].st = "accepted"
  /\ turn' = [turn EXCEPT ![t] = FreeTurn]
  /\ carrying' = SelectSeq(carrying, LAMBDA c : c # t)
  /\ posting' = IF turn[t].by = "relay" THEN NoPost ELSE posting
  /\ UNCHANGED <<owed, retry, tick, held, loopVars, streams, cli, bootHold,
                 diskVars, reached, restarts>>

\* The request leaves the route with no turn started: its carry is given back,
\* and the relay's own post counts one more failure.
RefuseTurn(t) ==
  /\ returning = {} /\ settling = <<>> /\ loading = {}
  /\ turn[t].st = "accepted"
  /\ turn' = [turn EXCEPT ![t] = FreeTurn]
  /\ IF t \in ToSet(carrying)
     THEN /\ carrying' = RemoveAt(carrying, Position(carrying, t))
          /\ owed' = Missing(turn[t].text, owed) \o owed
          /\ retry' = "waiting"
     ELSE UNCHANGED <<carrying, owed, retry>>
  /\ posting' = IF turn[t].by = "relay" THEN NoPost ELSE posting
  /\ UNCHANGED <<tick, held, loopVars, streams, cli, bootHold, diskVars, reached, restarts>>

\* The CLI opens a turn nobody asked for (a monitor, a cron) and closes it.
CliOpens ==
  /\ RunToCompletion
  /\ CliSession /\ ~cli
  /\ \A t \in Turn : ~(turn[t].st = "streaming" /\ turn[t].heard)
  /\ cli' = TRUE
  /\ UNCHANGED <<relayVars, loopVars, turn, streams, bootHold, diskVars, reached, restarts>>

CliCloses ==
  /\ RunToCompletion
  /\ cli
  /\ cli' = FALSE
  /\ UNCHANGED <<relayVars, loopVars, turn, streams, bootHold, diskVars, reached, restarts>>

\* The adoption of that turn passes no gate and shadows a send parked behind it.
WokenTurn(t) ==
  /\ RunToCompletion
  /\ cli
  /\ turn[t].st = "free"
  /\ \A s \in Turn : turn[s].by # "woken"
  /\ Len(streams) < MaxStack
  /\ turn' = [turn EXCEPT ![t] = NewTurn("streaming", "woken", <<>>, {})]
  /\ streams' = <<t>> \o streams
  /\ UNCHANGED <<relayVars, loopVars, cli, bootHold, diskVars, reached, restarts>>

-----------------------------------------------------------------------------
(* The end of a turn *)

AfterEnd(t) ==
  IF turn[t].heard \/ (turn[t].text = <<>> /\ turn[t].behind = {})
  THEN FreeTurn ELSE [turn[t] EXCEPT !.st = "closed"]

\* A mistake kept for checking: the end of a turn wakes nobody.
EndTurnSilent(t) ==
  /\ RunToCompletion
  /\ streams # <<>> /\ Head(streams) = t
  /\ streams' = Tail(streams)
  /\ turn' = [turn EXCEPT ![t] = AfterEnd(t)]
  /\ returning' = {c \in ToSet(carrying) : Started(c)}
  /\ UNCHANGED <<relayVars, settling, loading, cli, bootHold, diskVars, reached, restarts>>

\* endStream of the turn on top: its entry goes, a shadowed one comes back, and
\* onEnd gives back every started carry, or pumps a tick later if there is none.
EndTurn(t) ==
  /\ RunToCompletion
  /\ streams # <<>> /\ Head(streams) = t
  /\ streams' = Tail(streams)
  /\ turn' = [turn EXCEPT ![t] = AfterEnd(t)]
  /\ returning' = {c \in ToSet(carrying) : Started(c)}
  /\ tick' = (tick \/ (returning' = {} /\ owed # <<>>))
  /\ UNCHANGED <<owed, carrying, posting, retry, held, settling, loading, cli,
                 bootHold, diskVars, reached, restarts>>

\* endStream by row of the turn under the top one: the entry is dropped with
\* whatever it shadowed, and nobody is told.
EndShadowed(t) ==
  /\ RunToCompletion
  /\ Len(streams) > 1 /\ streams[2] = t
  /\ streams' = <<Head(streams)>>
  /\ turn' = [turn EXCEPT ![t] = AfterEnd(t)]
  /\ UNCHANGED <<relayVars, loopVars, cli, bootHold, diskVars, reached, restarts>>

\* A mistake kept for checking: what is given back goes behind what was queued since.
GiveBackLast ==
  /\ returning # {}
  /\ \E i \in DOMAIN carrying :
       /\ carrying[i] \in returning
       /\ \A j \in 1 .. i - 1 : carrying[j] \notin returning
       /\ carrying' = RemoveAt(carrying, i)
       /\ owed' = owed \o Missing(turn[carrying[i]].text, owed)
       /\ returning' = returning \ {carrying[i]}
  /\ retry' = "waiting"
  /\ UNCHANGED <<posting, tick, held, settling, loading, routeVars, diskVars,
                 reached, restarts>>

\* A mistake kept for checking: no wait after a failure, and the end of the turn posts again.
GiveBackAtOnce ==
  /\ returning # {}
  /\ \E i \in DOMAIN carrying :
       /\ carrying[i] \in returning
       /\ \A j \in 1 .. i - 1 : carrying[j] \notin returning
       /\ carrying' = RemoveAt(carrying, i)
       /\ owed' = Missing(turn[carrying[i]].text, owed) \o owed
       /\ returning' = returning \ {carrying[i]}
  /\ tick' = TRUE
  /\ UNCHANGED <<posting, retry, held, settling, loading, routeVars, diskVars,
                 reached, restarts>>

\* giveBack of the next started carry, in the order they were taken.
GiveBackNext ==
  /\ returning # {}
  /\ \E i \in DOMAIN carrying :
       /\ carrying[i] \in returning
       /\ \A j \in 1 .. i - 1 : carrying[j] \notin returning
       /\ carrying' = RemoveAt(carrying, i)
       /\ owed' = Missing(turn[carrying[i]].text, owed) \o owed
       /\ returning' = returning \ {carrying[i]}
  /\ retry' = "waiting"
  /\ UNCHANGED <<posting, tick, held, settling, loading, routeVars, diskVars,
                 reached, restarts>>

\* No late event of the closed turn will come any more: its name is free.
Forget(t) ==
  /\ RunToCompletion
  /\ turn[t].st = "closed" /\ t \notin ToSet(carrying)
  /\ turn' = [turn EXCEPT ![t] = FreeTurn]
  /\ UNCHANGED <<relayVars, loopVars, streams, cli, bootHold, diskVars, reached, restarts>>

-----------------------------------------------------------------------------
(* Restart *)

\* A mistake kept for checking: the resend remembers the turn and not its message.
ResentWhole(t) == turn[t]

\* The last user row of a turn: the answer the relay posted, or the person's words.
Resent(t) == [text |-> IF turn[t].by = "person" THEN <<>> ELSE turn[t].text,
              behind |-> turn[t].behind]

\* The server dies and boots.  The process of at most one turn outlives it; a
\* turn the model never spoke on is one the resume sweep may resend.  The boot
\* holds the session while it looks mid-turn, and loads the owed answers.
Restart ==
  /\ restarts < MaxRestarts
  /\ restarts' = restarts + 1
  /\ owed' = <<>> /\ carrying' = <<>> /\ posting' = NoPost /\ retry' = "none"
  /\ tick' = FALSE /\ held' = TRUE
  /\ returning' = {} /\ settling' = <<>> /\ loading' = index
  /\ streams' = <<>> /\ cli' = FALSE
  /\ bootHold' = (streams # <<>>)
  /\ \/ /\ streams # <<>>
        /\ turn' = [t \in Turn |->
             IF t = Head(streams) THEN [turn[t] EXCEPT !.st = "orphan"] ELSE FreeTurn]
        /\ cut' = NoCut
     \/ /\ turn' = [t \in Turn |-> FreeTurn]
        /\ \/ cut' = NoCut
           \/ \E t \in Turn :
                /\ turn[t].st = "streaming" /\ ~turn[t].heard
                /\ turn[t].by \in {"person", "relay", "resume"}
                /\ cut' = Resent(t)
  /\ UNCHANGED <<given, mark, index, reached>>

\* A mistake kept for checking: the index is read newest first.
LoadNewestFirst ==
  /\ loading # {}
  /\ \E i \in DOMAIN given :
       /\ given[i] \in loading
       /\ \A j \in i + 1 .. Len(given) : given[j] \notin loading
       /\ owed' = Enqueued(given[i])
       /\ loading' = loading \ {given[i]}
  /\ UNCHANGED <<carrying, posting, retry, tick, held, returning, settling,
                 routeVars, diskVars, reached, restarts>>

\* enqueue of the next owed answer, oldest first.
LoadNext ==
  /\ loading # {}
  /\ \E i \in DOMAIN given :
       /\ given[i] \in loading
       /\ \A j \in 1 .. i - 1 : given[j] \notin loading
       /\ owed' = Enqueued(given[i])
       /\ loading' = loading \ {given[i]}
  /\ UNCHANGED <<carrying, posting, retry, tick, held, returning, settling,
                 routeVars, diskVars, reached, restarts>>

\* The boot adopts a turn that outlived the restart: a stream, and no carry.
Reattach(t) ==
  /\ RunToCompletion
  /\ turn[t].st = "orphan"
  /\ Len(streams) < MaxStack
  /\ turn' = [turn EXCEPT ![t].st = "streaming"]
  /\ streams' = <<t>> \o streams
  /\ UNCHANGED <<relayVars, loopVars, cli, bootHold, diskVars, reached, restarts>>

\* The boot has decided about the session: no turn of it is left to adopt or resend.
ReleaseBootHold ==
  /\ RunToCompletion
  /\ bootHold
  /\ \A t \in Turn : turn[t].st # "orphan"
  /\ bootHold' = FALSE
  /\ UNCHANGED <<relayVars, loopVars, turn, streams, cli, diskVars, reached, restarts>>

-----------------------------------------------------------------------------
TurnStep(t) ==
  \/ PostClaims(t) \/ PersonPosts(t) \/ MachinePosts(t) \/ ResumePosts(t)
  \/ StartTurn(t) \/ RefuseTurn(t) \/ WokenTurn(t) \/ Hears(t)
  \/ EndTurn(t) \/ EndShadowed(t) \/ Forget(t) \/ Reattach(t)

Next ==
  \/ \E a \in Answer : Give(a)
  \/ \E t \in Turn : TurnStep(t)
  \/ TickFires \/ WaitElapses \/ TimerFires
  \/ SettleNext \/ GiveBackNext \/ LoadNext
  \/ ReleaseHold \/ PostRefused
  \/ CliOpens \/ CliCloses
  \/ Restart \/ ReleaseBootHold

Spec == Init /\ [][Next]_vars

\* A step of a loop the process is in.
LoopStep == SettleNext \/ GiveBackNext \/ LoadNext

\* A step of the boot.
BootStep == ReleaseHold \/ ReleaseBootHold \/ \E t \in Turn : Reattach(t)

\* A step that wins its race: the tick fires in a free session, the relay's post
\* finds the gate open, and a turn that carries answers is started, or spoken
\* on, rather than refused.
TickInTime == GateOpen /\ TickFires
PostInTime == \E t \in Turn : PostClaims(t)
StartsCarrying == \E t \in ToSet(carrying) : StartTurn(t)
HearsInTime == \E t \in ToSet(carrying) : Hears(t)

\* What the server and the provider are trusted to do in the end.  The process
\* runs its loops, its timers and its requests, and the boot decides: strong
\* fairness, since a handler that is running disables all the others for a
\* while.  And no race is lost every time: by the relay's tick and its post, by
\* a turn carrying answers in the route, or by the model on the turns handed to it.
Fairness ==
  /\ WF_vars(LoopStep)
  /\ SF_vars(WaitElapses \/ TimerFires) /\ SF_vars(PostRefused) /\ SF_vars(BootStep)
  /\ SF_vars(TickInTime) /\ SF_vars(PostInTime)
  /\ SF_vars(StartsCarrying) /\ SF_vars(HearsInTime)

FairSpec == Spec /\ Fairness

-----------------------------------------------------------------------------
(* Properties *)

(* Every variable has the shape the code gives it. *)
TypeOK ==
  /\ owed \in Seq(Answer) /\ carrying \in Seq(Turn)
  /\ posting \in Answer \cup {NoPost}
  /\ retry \in {"none", "waiting", "armed", "due"}
  /\ tick \in BOOLEAN /\ held \in BOOLEAN
  /\ returning \subseteq Turn /\ settling \in Seq(Answer) /\ loading \subseteq Answer
  /\ turn \in [Turn -> TurnRecord] /\ streams \in Seq(Turn)
  /\ cli \in BOOLEAN /\ bootHold \in BOOLEAN
  /\ given \in Seq(Answer) /\ mark \in [Answer -> {"none", "queued", "sent"}]
  /\ index \subseteq Answer
  /\ cut = NoCut \/ cut \in [text : Seq(Answer), behind : SUBSET Answer]
  /\ reached \in [Answer -> 0 .. 2] /\ restarts \in 0 .. MaxRestarts

\* What the memory of the process holds of the owed answers.
InMemory == ToSet(owed) \cup Carried \cup ToSet(settling) \cup loading

(* No answer is lost and none is owed by nobody: the rows that say queued, the  *)
(* entries of owed_answers and what the relay holds (queued, carried by a turn, *)
(* being settled, being loaded) are the same answers, through refusals, failed  *)
(* turns, shadowed streams and restarts.                                        *)
OwedIsSomewhere ==
  /\ index = {a \in Answer : mark[a] = "queued"}
  /\ InMemory = index

(* An owed answer is in one place at a time: never twice in the queue, never in *)
(* the queue and in a carry, never in the carries of two turns.  Two places are *)
(* two deliveries of the same answer.                                           *)
OnePlace ==
  /\ IsInjective(owed) /\ IsInjective(carrying) /\ IsInjective(settling)
  /\ \A t \in ToSet(carrying) :
       /\ IsInjective(turn[t].text)
       /\ ToSet(turn[t].text) \cap (ToSet(owed) \cup ToSet(settling) \cup loading) = {}
       /\ \A u \in ToSet(carrying) \ {t} : ToSet(turn[t].text) \cap ToSet(turn[u].text) = {}
  /\ ToSet(owed) \cap (ToSet(settling) \cup loading) = {}
  /\ ToSet(settling) \cap loading = {}

(* What the relay owes is kept: nothing is lost, and nothing is owed twice.      *)
OwedOnce == OwedIsSomewhere /\ OnePlace

(* Taking is not delivering: a row says sent only when the model has heard a    *)
(* turn that carries its answer.                                                *)
SentWasHeard == \A a \in Answer : mark[a] = "sent" => reached[a] > 0

(* The model hears a session's answers in the order the person gave them, even  *)
(* when a turn that carried some failed or the server restarted in between.     *)
HeardInOrder ==
  \A i, j \in DOMAIN given :
    i < j /\ reached[given[j]] > 0 => reached[given[i]] > 0

(* The queue holds the oldest answer first, also when turns give theirs back.    *)
(* With checkpoints the code breaks it: two requests are past the gate at once,  *)
(* each carry goes in front of what the other gave back.                         *)
OldestFirst ==
  \A i, j \in DOMAIN owed : i < j => Position(given, owed[i]) < Position(given, owed[j])

(* An answer reaches the model before anything the person wrote after it: when  *)
(* the model hears a message, it has heard every answer given before it. The    *)
(* message that the resume sweep sends again after a restart is left out: it    *)
(* takes no answers (README, section 6).                                        *)
PersonNeverOvertakes ==
  [][\A t \in Turn : turn[t].by # "resume" /\ Hears(t) =>
       \A a \in turn[t].behind : reached'[a] > 0]_vars

(* Whoever waits for the session to be free acts at the moment it is: what is    *)
(* owed in a free session, with no failure to wait out, is being posted or about *)
(* to be.  The code breaks it: a post that a hold of the ledger turned away is   *)
(* taken for one that met a turn, and the end of the hold is announced to nobody. *)
OwedIsOnItsWay ==
  /\ RunToCompletion /\ GateOpen /\ ~held /\ carrying = <<>>
  /\ \A t \in Turn : turn[t].st \notin {"accepted", "orphan"}
  /\ retry = "none" /\ owed # <<>>
  => tick \/ posting # NoPost

(* A post that fails ends a turn, and a turn end wakes the relay: posting for   *)
(* ever takes time for ever (a wait elapses) or the model hears something.      *)
NoHotLoop ==
  []<><<\E t \in Turn : PostClaims(t)>>_vars =>
    []<><<WaitElapses \/ TimerFires \/ \E t \in Turn : Hears(t)>>_vars

(* An answer stays owed to the next turn end: in a session whose turns keep     *)
(* ending, each answer is settled in the end.                                   *)
AnswersArrive ==
  []<><<\E t \in Turn : EndTurn(t)>>_vars =>
    \A a \in Answer : mark[a] = "queued" ~> mark[a] = "sent"

(* The relay implements the promise of OwedDelivery: of the answers in the order *)
(* they were given, the rows say sent for a longer and longer beginning, one     *)
(* more at a time, whatever the turns, the refusals and the restarts.            *)
Promise == INSTANCE OwedDelivery WITH
  accepted <- given,
  sent     <- {a \in Answer : mark[a] = "sent"}
KeepsPromise == Promise!Spec
=============================================================================
