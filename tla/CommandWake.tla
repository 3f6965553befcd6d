----------------------------- MODULE CommandWake -----------------------------
(***************************************************************************)
(* The end of a command an agent started with run_command: the registry    *)
(* row that closes (server/routes/processes.ts), the calls of a live turn  *)
(* that wait for it or read it, and the wake that tells the chat otherwise *)
(* (server/lib/process-exit-wake.ts).                                      *)
(*                                                                         *)
(* One chat and the commands it started.  A step is what the server does   *)
(* from one await to the next; the registry is saved within the step that  *)
(* changes it, so a restart finds on disk what the last step left.         *)
(***************************************************************************)
EXTENDS Naturals, SequencesExt

CONSTANTS
  Command,    \* the commands started in the chat
  Free,       \* no turn
  Agent,      \* a turn that no wake opened, or the person's message of it
  MaxCopies,  \* MAX_RESUME_ATTEMPTS: 4
  MaxEvents   \* bound: restarts, outages, stops of turns, refusals, lost calls, archivings
              \* and messages of the person, in all

ASSUME TurnNames == Free \notin Command /\ Agent \notin Command /\ Free # Agent
ASSUME WakeBounds == MaxCopies \in Nat /\ MaxEvents \in Nat

VARIABLES
  \* The command and its row
  os,       \* its process: none, runs, over
  row,      \* none, running (runningScripts), closed (recentScripts), gone
  wake,     \* cmd.wake: its end is owed to the chat
  stop,     \* no, closing, failed, stopped
  \* The wakes, one chain for the chat
  waiting,  \* requests of a boot that have not entered the chain
  chain,    \* the wakes in line, the first one being delivered
  at,       \* the first one is looking for a moment, or draining its turn
  counted,  \* the copy it is about to send was counted
  refused,  \* wakeFailed: left to the next boot
  \* The chat
  turn,     \* Free, Agent, or the command whose wake opened the turn
  wait,     \* the commands the turn at work is waiting for (wait_for_process)
  loose,    \* such requests still open after their turn is over
  sent,     \* the row of the wake: no, turn (its turn runs), kept, cut (by an outage)
  spent,    \* resend_counts: copies sent after cuts
  last,     \* whose message is the last of the chat
  held,     \* the provider is held
  resend,   \* the person's message, cut by an outage, is owed its resend
  open,     \* the chat takes wakes: not archived, not a stopped child's
  \* Bookkeeping that is not in the code
  read,     \* the ends a live turn was given
  chosen,   \* the commands somebody stopped
  dropped,  \* the wakes whose loop ended by an exception
  missed,   \* the ends that were not owed any more when the wait for them was lost
  events

cmdVars   == <<os, row, wake, stop>>
lineVars  == <<waiting, chain, at, counted, refused>>
waitVars  == <<wait, loose>>
rowVars   == <<sent, spent, last>>
chatVars  == <<held, resend, open>>
ghostVars == <<read, chosen, dropped, missed>>
vars == <<cmdVars, lineVars, turn, waitVars, rowVars, chatVars, ghostVars, events>>

Init ==
  /\ os = [c \in Command |-> "none"] /\ row = [c \in Command |-> "none"]
  /\ wake = [c \in Command |-> FALSE] /\ stop = [c \in Command |-> "no"]
  /\ waiting = {} /\ chain = <<>> /\ at = "looking" /\ counted = FALSE /\ refused = {}
  /\ turn = Agent /\ wait = {} /\ loose = {}
  /\ sent = [c \in Command |-> "no"] /\ spent = [c \in Command |-> 0] /\ last = Agent
  /\ held = FALSE /\ resend = FALSE /\ open = TRUE
  /\ read = {} /\ chosen = {} /\ dropped = {} /\ missed = {}
  /\ events = 0

-----------------------------------------------------------------------------
(* Helpers *)

Event == events < MaxEvents /\ events' = events + 1

\* wakeCutByOutage: an outage cut the turn of the wake, and that is the chat's last word.
Cut(c) == sent[c] = "cut" /\ last = c

\* wakeDelivered: the chat has the row of the wake, and needs no other.
Delivered(c) == sent[c] # "no" /\ ~Cut(c)

\* The row of a command closes, and its wake is requested if it is owed.
Closed(c, owed) ==
  /\ row' = [row EXCEPT ![c] = "closed"]
  /\ wake' = [wake EXCEPT ![c] = owed]
  /\ chain' = IF owed THEN Append(chain, c) ELSE chain

\* Who holds the row keeps it after it is gone from the registry.
Over(c) == row[c] \in {"closed", "gone"}

\* settleWakeReadInTurn
Settled(c) == wake' = [wake EXCEPT ![c] = @ /\ Delivered(c)]

\* The ends that nobody is going to say any more when the waits of these calls are lost.
Lost(calls) ==
  {c \in calls : Over(c) /\ ~wake[c] /\ c \notin read /\ sent[c] = "no"}

-----------------------------------------------------------------------------
(* The process, and its row *)

\* run_command, from a turn of the chat, with its wake (the default).
Starts(c) ==
  /\ turn # Free /\ row[c] = "none"
  /\ os' = [os EXCEPT ![c] = "runs"] /\ row' = [row EXCEPT ![c] = "running"]
  /\ wake' = [wake EXCEPT ![c] = TRUE]
  /\ UNCHANGED <<stop, lineVars, turn, waitVars, rowVars, chatVars, ghostVars, events>>

Exits(c) ==
  /\ os[c] = "runs" /\ os' = [os EXCEPT ![c] = "over"]
  /\ UNCHANGED <<row, wake, stop, lineVars, turn, waitVars, rowVars, chatVars, ghostVars, events>>

\* finishCommand, after the exit was seen: nothing is owed of a stopped command, nor to
\* a turn that is waiting for it.
FinishCommand(c) ==
  /\ os[c] = "over" /\ row[c] = "running" /\ stop[c] \in {"no", "stopped"}
  /\ Closed(c, wake[c] /\ stop[c] = "no" /\ c \notin wait)
  /\ UNCHANGED <<os, stop, waiting, at, counted, refused, turn, waitVars, rowVars, chatVars,
                 ghostVars, events>>

\* Stop on a running command: its group is told to end.  Without a group, it is the
\* process, and the row closes at its exit.
StopCommand(c) ==
  /\ row[c] = "running" /\ os[c] = "runs" /\ stop[c] \in {"no", "failed"}
  /\ \E s \in {"closing", "stopped"} : stop' = [stop EXCEPT ![c] = s]
  /\ wake' = [wake EXCEPT ![c] = FALSE] /\ chosen' = chosen \cup {c}
  /\ UNCHANGED <<os, row, lineVars, turn, waitVars, rowVars, chatVars, read, dropped, missed, events>>

\* onSettled, at the end of the group or at once if it was over: the row closes as stopped.
StopSettles(c) ==
  /\ row[c] = "running" /\ os[c] = "over" /\ stop[c] # "stopped"
  /\ stop' = [stop EXCEPT ![c] = "stopped"] /\ Closed(c, FALSE)
  /\ chosen' = chosen \cup {c}
  /\ UNCHANGED <<os, waiting, at, counted, refused, turn, waitVars, rowVars, chatVars, read,
                 dropped, missed, events>>

\* A group that does not end keeps its row: it closes with another stop only.
StopFails(c) ==
  /\ stop[c] = "closing" /\ Event
  /\ stop' = [stop EXCEPT ![c] = "failed"] /\ wake' = [wake EXCEPT ![c] = FALSE]
  /\ UNCHANGED <<os, row, lineVars, turn, waitVars, rowVars, chatVars, ghostVars>>

\* The card or the chat is over, and what a finished command left behind is stopped.
StopGroup(c) ==
  /\ row[c] = "closed" /\ stop[c] = "no"
  /\ stop' = [stop EXCEPT ![c] = "stopped"] /\ wake' = [wake EXCEPT ![c] = FALSE]
  /\ chosen' = chosen \cup {c}
  /\ UNCHANGED <<os, row, lineVars, turn, waitVars, rowVars, chatVars, read, dropped, missed, events>>

\* A mistake kept for checking: the oldest rows go, whatever they owe.
TrimsOldest(c) ==
  /\ row[c] = "closed" /\ row' = [row EXCEPT ![c] = "gone"]
  /\ UNCHANGED <<os, wake, stop, lineVars, turn, waitVars, rowVars, chatVars, ghostVars, events>>

\* trimRecent: other rows that close push it out of the ones that are kept, if it owes nothing.
Trims(c) ==
  /\ row[c] = "closed" /\ ~wake[c] /\ row' = [row EXCEPT ![c] = "gone"]
  /\ UNCHANGED <<os, wake, stop, lineVars, turn, waitVars, rowVars, chatVars, ghostVars, events>>

-----------------------------------------------------------------------------
(* The calls of a turn *)

\* wait_for_process opens its watch.
OpenWatch(c) ==
  /\ turn # Free /\ row[c] \in {"running", "closed"} /\ c \notin wait
  /\ wait' = wait \cup {c}
  /\ UNCHANGED <<cmdVars, lineVars, turn, loose, rowVars, chatVars, ghostVars, events>>

\* Its time is over, or a line matched, and the command still runs.
WaitEnds(c) ==
  /\ c \in wait /\ row[c] = "running"
  /\ wait' = wait \ {c}
  /\ UNCHANGED <<cmdVars, lineVars, turn, loose, rowVars, chatVars, ghostVars, events>>

\* The end was seen, and the last lines were read in one more round, or matched: the turn
\* at work has the end, and it is not owed.
WaitReturns(c) ==
  /\ c \in wait /\ Over(c)
  /\ wait' = wait \ {c}
  /\ read' = (IF turn # Free THEN read \cup {c} ELSE read) /\ Settled(c)
  /\ UNCHANGED <<os, row, stop, lineVars, turn, loose, rowVars, chatVars, chosen, dropped, missed, events>>

\* The call is gone and its turn is not: the bridge died, the CLI restarted.
WaitAborts(c) ==
  /\ c \in wait /\ Event
  /\ wait' = wait \ {c}
  /\ missed' = missed \cup Lost({c})
  /\ UNCHANGED <<cmdVars, lineVars, turn, loose, rowVars, chatVars, read, chosen, dropped>>

\* A mistake kept for checking: a call that returns to nobody settles the end it carries.
LooseSettles(c) ==
  /\ c \in loose /\ loose' = loose \ {c}
  /\ IF Over(c) THEN Settled(c) ELSE UNCHANGED wake
  /\ UNCHANGED <<os, row, stop, lineVars, turn, wait, rowVars, chatVars, ghostVars, events>>

\* A call whose turn is over returns to nobody; what it settles is the watch it finds.
LooseReturns(c) ==
  /\ c \in loose /\ loose' = loose \ {c}
  /\ IF Over(c) /\ c \in wait THEN Settled(c) ELSE UNCHANGED wake
  /\ UNCHANGED <<os, row, stop, lineVars, turn, wait, rowVars, chatVars, ghostVars, events>>

\* read_process_output of a command that is over.
ReadsOutput(c) ==
  /\ turn # Free /\ row[c] = "closed"
  /\ read' = read \cup {c} /\ Settled(c)
  /\ UNCHANGED <<os, row, stop, lineVars, turn, waitVars, rowVars, chatVars, chosen, dropped, missed, events>>

-----------------------------------------------------------------------------
(* Turns *)

\* A mistake kept for checking: the watches of a turn outlive it.
TurnOverWatched(row_) ==
  /\ turn' = Free /\ UNCHANGED <<wait, loose, missed>>
  /\ sent' = [c \in Command |-> IF c = turn THEN row_ ELSE sent[c]]

\* endStream: the watches of the turn are closed, their requests may stay open.
TurnOver(row_) ==
  /\ turn' = Free /\ wait' = {}
  /\ loose' \in {loose, loose \cup wait}
  /\ missed' = missed \cup Lost(wait)
  /\ sent' = [c \in Command |-> IF c = turn THEN row_ ELSE sent[c]]

\* A turn that ends by itself has no call pending.
TurnEnds ==
  /\ turn # Free /\ wait = {} /\ TurnOver("kept")
  /\ UNCHANGED <<cmdVars, lineVars, spent, last, chatVars, read, chosen, dropped, events>>

\* Stopped by the person, or closed by the sweep of silent streams.
TurnStopped ==
  /\ turn # Free /\ Event /\ TurnOver("kept")
  /\ UNCHANGED <<cmdVars, lineVars, spent, last, chatVars, read, chosen, dropped>>

\* Cut by an outage, which may hold the provider.  The person's message is owed a resend.
TurnCut ==
  /\ turn # Free /\ Event /\ TurnOver("cut")
  /\ held' \in {held, TRUE} /\ resend' = (resend \/ (turn = Agent /\ open))
  /\ UNCHANGED <<cmdVars, lineVars, spent, last, open, read, chosen, dropped>>

PersonWrites ==
  /\ turn = Free /\ open /\ Event
  /\ turn' = Agent /\ last' = Agent /\ resend' = FALSE
  /\ UNCHANGED <<cmdVars, lineVars, waitVars, sent, spent, held, open, ghostVars>>

\* The sweep resends the message that was cut, or it is too late for that.
SweepResends ==
  /\ resend /\ resend' = FALSE
  /\ \/ turn = Free /\ ~held /\ turn' = Agent /\ last' = Agent
     \/ UNCHANGED <<turn, last>>
  /\ UNCHANGED <<cmdVars, lineVars, waitVars, sent, spent, held, open, ghostVars, events>>

HoldLifts ==
  /\ held /\ held' = FALSE
  /\ UNCHANGED <<cmdVars, lineVars, turn, waitVars, rowVars, resend, open, ghostVars, events>>

Archives ==
  /\ open /\ Event /\ open' = FALSE /\ resend' = FALSE
  /\ UNCHANGED <<cmdVars, lineVars, turn, waitVars, rowVars, held, ghostVars>>

-----------------------------------------------------------------------------
(* The wake at the head of the chain: deliverProcessExit *)

First(c) == chain # <<>> /\ Head(chain) = c

\* A round that finds the chat free.
Looks(c) == First(c) /\ at = "looking" /\ open /\ turn = Free

\* Behind the hold of the provider and the resend the person's message is owed.
MayGo(c) == Looks(c) /\ wake[c] /\ ~held /\ ~resend

\* The wake leaves the chain; nothing is owed any more.
SettlesWake(c) ==
  /\ chain' = Tail(chain) /\ at' = "looking" /\ counted' = FALSE
  /\ wake' = [wake EXCEPT ![c] = FALSE]

NoTopic(c) ==
  /\ First(c) /\ at = "looking" /\ ~open /\ SettlesWake(c)
  /\ UNCHANGED <<os, row, stop, waiting, refused, turn, waitVars, rowVars, chatVars, ghostVars, events>>

\* A turn read it meanwhile, or the chat has its row.
AlreadyDelivered(c) ==
  /\ Looks(c) /\ (wake[c] => ~held /\ ~resend /\ Delivered(c))
  /\ SettlesWake(c)
  /\ UNCHANGED <<os, row, stop, waiting, refused, turn, waitVars, rowVars, chatVars, ghostVars, events>>

\* Cut again, with the copies spent: the chat is left to the person.
Capped(c) ==
  /\ MayGo(c) /\ Cut(c) /\ ~counted /\ spent[c] = MaxCopies /\ SettlesWake(c)
  /\ UNCHANGED <<os, row, stop, waiting, refused, turn, waitVars, rowVars, chatVars, ghostVars, events>>

\* A mistake kept for checking: copies go without end.
SendsUnbudgeted(c) ==
  /\ MayGo(c) /\ ~Delivered(c)
  /\ spent' = [spent EXCEPT ![c] = IF Cut(c) /\ ~counted THEN @ + 1 ELSE @]

\* A copy is counted before it goes, once for the cut it answers.
Sends(c) ==
  /\ MayGo(c) /\ ~Delivered(c) /\ (Cut(c) /\ ~counted => spent[c] < MaxCopies)
  /\ spent' = [spent EXCEPT ![c] = IF Cut(c) /\ ~counted THEN @ + 1 ELSE @]

\* The route takes it: its row, and its turn.
Posts(c) ==
  /\ Sends(c) /\ turn' = c /\ sent' = [sent EXCEPT ![c] = "turn"] /\ last' = c
  /\ at' = "draining" /\ counted' = FALSE
  /\ UNCHANGED <<cmdVars, waiting, chain, refused, waitVars, chatVars, ghostVars, events>>

\* 409: a turn of the CLI's own that is not in the map yet.
PostWaits(c) ==
  /\ Sends(c) /\ Event /\ counted' = Cut(c)
  /\ UNCHANGED <<cmdVars, waiting, chain, at, refused, turn, waitVars, sent, last, chatVars, ghostVars>>

\* Any other answer of the route, before its row or after it.
PostFails(c) ==
  /\ Sends(c) /\ Event /\ refused' = refused \cup {c}
  /\ \/ UNCHANGED <<sent, last>>
     \/ (sent' = [sent EXCEPT ![c] = "kept"] /\ last' = c)
  /\ chain' = Tail(chain) /\ counted' = FALSE
  /\ UNCHANGED <<cmdVars, waiting, at, turn, waitVars, chatVars, ghostVars>>

\* An exception, while the wake looks for its moment or drains its turn, ends its loop: it
\* stays owed, and the next boot asks for it again.
Throws(c) ==
  /\ First(c) /\ Event /\ dropped' = dropped \cup {c}
  /\ chain' = Tail(chain) /\ at' = "looking" /\ counted' = FALSE
  /\ UNCHANGED <<cmdVars, waiting, refused, turn, waitVars, rowVars, chatVars, read, chosen, missed>>

\* The turn of the wake is over: cut by an outage, it goes again.
Drained(c) ==
  /\ First(c) /\ at = "draining" /\ turn # c
  /\ IF Cut(c)
       THEN at' = "looking" /\ UNCHANGED <<chain, counted, wake>>
       ELSE SettlesWake(c)
  /\ UNCHANGED <<os, row, stop, waiting, refused, turn, waitVars, rowVars, chatVars, ghostVars, events>>

-----------------------------------------------------------------------------
(* A restart of the server *)

\* A command that ended unseen is closed by the boot.
FoundDead(c) == os[c] = "over" /\ row[c] = "running" /\ stop[c] # "failed"
OwedAtBoot(c) == wake[c] /\ (row[c] = "closed" \/ (FoundDead(c) /\ stop[c] # "stopped"))

\* loadState: what still runs is followed again, what ended is closed, and every wake
\* that is owed is requested.  Calls are lost; the turn is taken up again, or its cut is
\* the sweep's to resend, the row of a wake included.
Restart ==
  /\ Event
  /\ row' = [c \in Command |-> IF FoundDead(c) THEN "closed" ELSE row[c]]
  /\ wake' = [c \in Command |-> IF FoundDead(c) THEN OwedAtBoot(c) ELSE wake[c]]
  /\ stop' = [c \in Command |-> IF stop[c] = "closing" THEN "no" ELSE stop[c]]
  /\ waiting' = {c \in Command : OwedAtBoot(c)}
  /\ chain' = <<>> /\ at' = "looking" /\ counted' = FALSE /\ refused' = {}
  /\ turn' \in {turn, Free} /\ wait' = {} /\ loose' = {}
  /\ sent' = [c \in Command |-> IF sent[c] = "turn" /\ turn' # c THEN "kept" ELSE sent[c]]
  /\ missed' = missed \cup Lost(wait)
  /\ dropped' = {}
  /\ UNCHANGED <<os, spent, last, chatVars, read, chosen>>

\* startProcessExitWakes: what the boot requested enters the chain.
StartWakes(c) ==
  /\ c \in waiting /\ waiting' = waiting \ {c} /\ chain' = Append(chain, c)
  /\ UNCHANGED <<cmdVars, at, counted, refused, turn, waitVars, rowVars, chatVars, ghostVars, events>>

-----------------------------------------------------------------------------
Process(c) ==
  \/ Starts(c) \/ Exits(c) \/ FinishCommand(c)
  \/ StopCommand(c) \/ StopSettles(c) \/ StopFails(c) \/ StopGroup(c) \/ Trims(c)
Call(c) ==
  \/ OpenWatch(c) \/ WaitEnds(c) \/ WaitReturns(c) \/ WaitAborts(c)
  \/ LooseReturns(c) \/ ReadsOutput(c)
Deliver(c) ==
  \/ NoTopic(c) \/ AlreadyDelivered(c) \/ Capped(c)
  \/ Posts(c) \/ PostWaits(c) \/ PostFails(c) \/ Throws(c) \/ Drained(c)
Chat == TurnEnds \/ TurnStopped \/ TurnCut \/ PersonWrites \/ SweepResends \/ HoldLifts \/ Archives

Next ==
  \/ \E c \in Command : Process(c) \/ Call(c) \/ Deliver(c) \/ StartWakes(c)
  \/ Chat \/ Restart

\* What was called returns, what has ended is seen; turns, holds and the wait of the
\* person's message for its resend come to an end; the loop of a wake goes on.
Fairness ==
  /\ \A c \in Command :
       /\ WF_vars(FinishCommand(c)) /\ WF_vars(stop[c] = "closing" /\ StopSettles(c))
       /\ WF_vars(WaitEnds(c)) /\ WF_vars(WaitReturns(c))
       /\ WF_vars(Deliver(c)) /\ WF_vars(StartWakes(c))
  /\ SF_vars(TurnEnds) /\ WF_vars(SweepResends) /\ WF_vars(HoldLifts)

Spec == Init /\ [][Next]_vars /\ Fairness

-----------------------------------------------------------------------------
(* Properties *)

CommandTypes ==
  /\ os \in [Command -> {"none", "runs", "over"}]
  /\ row \in [Command -> {"none", "running", "closed", "gone"}]
  /\ wake \in [Command -> BOOLEAN] /\ stop \in [Command -> {"no", "closing", "failed", "stopped"}]
LineTypes ==
  /\ waiting \subseteq Command /\ chain \in Seq(Command) /\ at \in {"looking", "draining"}
  /\ counted \in BOOLEAN /\ refused \subseteq Command
ChatTypes ==
  /\ turn \in Command \cup {Free, Agent} /\ wait \subseteq Command /\ loose \subseteq Command
  /\ last \in Command \cup {Agent}
  /\ sent \in [Command -> {"no", "turn", "kept", "cut"}] /\ spent \in [Command -> 0..MaxCopies]
  /\ held \in BOOLEAN /\ resend \in BOOLEAN /\ open \in BOOLEAN
GhostTypes ==
  /\ read \subseteq Command /\ chosen \subseteq Command
  /\ dropped \subseteq Command /\ missed \subseteq Command
  /\ events \in 0..MaxEvents

(* The state has the shape the code gives it; the copies of a wake stay within the budget
   they share with the sweep. *)
TypeOK == CommandTypes /\ LineTypes /\ ChatTypes /\ GhostTypes

(* A wake is owed on the registry exactly as long as somebody is going to deliver it, and
   by one loop only: the row that owes one is in the chain once, or is waiting for it, or
   was refused until the next boot (wake, wakeFailed and the chain are kept in two
   modules, and the chain is in memory). *)
OwedIsInLine ==
  /\ IsInjective(chain) /\ ToSet(chain) \cap waiting = {}
  /\ \A c \in ToSet(chain) \cup waiting : Over(c)
  /\ \A c \in Command : Over(c) /\ wake[c] /\ c \notin refused \cup dropped
                          => c \in ToSet(chain) \cup waiting

(* The chat is not woken for an end that a live turn of it was given before, nor for a
   command somebody stopped. *)
NotToldTwice ==
  [][\A c \in Command : sent[c] = "no" /\ sent'[c] # "no" => c \notin read \cup chosen]_vars

(* The wakes implement the promise of EndNotice: an end is owed from the start of its
   command, said once at most, and its debt goes only when the chat has the message, a turn
   has the end or waits for it, somebody stopped the command or the chat takes no wakes
   (the flag cmd.wake of processes.ts, and the loop of a wake). *)
Promise == INSTANCE EndNotice WITH
  end <- [c \in Command |-> IF row[c] = "none" THEN "unborn" ELSE IF wake[c] THEN "owed" ELSE "settled"],
  told <- {c \in Command : sent[c] # "no"}, known <- read \cup chosen,
  watched <- wait, shut <- ~open
KeepsNotice == Promise!Spec

Told(c) == c \in read \/ sent[c] = "kept"
\* What the person was told in the agent's place: their message came after the cut, or the
\* copies are spent.
LeftToThePerson(c) == sent[c] = "cut" /\ (last # c \/ spent[c] = MaxCopies)

(* The end of a command comes to the agent, in a turn that was not cut by an outage, unless
   somebody stopped the command, the chat takes no wakes, the route refused this one, the
   person was told instead, or the call that was waiting for it was lost after the end. *)
EndIsTold ==
  \A c \in Command : (os[c] = "over" /\ wake[c])
    ~> \/ Told(c) \/ c \in chosen \/ ~open \/ c \in refused \cup dropped \/ LeftToThePerson(c) \/ c \in missed
=============================================================================
