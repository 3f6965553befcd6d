----------------------------- MODULE AskBridge -----------------------------
(***************************************************************************)
(* The life of the questions of ONE chat session: from the call that asks, *)
(* through the in-memory rendez-vous with the person's answer, to the      *)
(* model, or to the queue of answers whose asker is gone (AnswerRelay).    *)
(*                                                                         *)
(*   asker       server/mcp/topics-mcp-server.ts, callAskUserQuestion: the *)
(*               child is blocked on one call and polls the server in legs *)
(*   rendez-vous server/lib/ask-user-bridge.ts                             *)
(*   leg route   server/routes/permission.ts, POST .../ask-user            *)
(*   answer      server/routes/topics.ts, POST /api/chat/tool-response     *)
(*   rows        the tool calls on the messages: server/utils.ts endStream,*)
(*               server/lib/orphan-tool-sweep.ts at boot, and the message  *)
(*               that supersedes (server/routes/chat.ts)                   *)
(*                                                                         *)
(* Every handler here runs from its last await to its end in one stretch,  *)
(* so each is one action.  The send confirmations of the outbound gate and *)
(* the answers written in a task's thread use the same rendez-vous and are *)
(* not modelled.                                                           *)
(***************************************************************************)
EXTENDS Naturals, Sequences, FiniteSets, SequencesExt

CONSTANTS
  Question,     \* tool call ids of the questions
  Text,         \* the texts a question can have
  text,         \* the text of each question: two calls may ask the same
  NoQ,          \* no question
  NoAsk,        \* no ask is open
  Unsaid,       \* an ask is open and its wait named no question
  PanelFirst,   \* a panel is on its row before the first leg of its call comes
  MaxRestarts   \* bound: restarts of the server in one behaviour

ASSUME TextsOfQuestions == text \in [Question -> Text]
ASSUME DistinctNames ==
  NoQ \notin Question /\ NoAsk # Unsaid /\ {NoAsk, Unsaid} \cap Text = {}
ASSUME Settings == PanelFirst \in BOOLEAN /\ MaxRestarts \in Nat

VARIABLES
  \* The rows, which survive a restart
  status,    \* status of each question's tool call ("unasked": not painted)
  gone,      \* questions marked askerGone
  answered,  \* questions whose row carries the person's answer (userResponse)
  order,     \* the painted questions, newest last
  owed,      \* how often each answer was queued as a message (2 = more than once)
  \* The memory of the server
  open,      \* activeAsks: what the open ask is about
  waiter,    \* waiters: the question of the leg that waits
  buffer,    \* buffered: the panel the answer waiting for a leg was given on
  stream,    \* the session's turn: none, live, or unadopted after a restart
  onStream,  \* the questions on the row of that turn
  pending,   \* pendingInputs: the provider still holds the asker's panel
  \* The process that asks
  alive,     \* the child is there
  asker,     \* the question whose call it is blocked on
  leg,       \* its poll: idle, out, answered, cancelled
  took,      \* the answer its last leg brought back
  \* Bookkeeping that is not in the code
  heardAs,   \* the calls each answer became the result of
  reopened,  \* the questions taken up again after they were answered or over
  restarts

rowVars    == <<status, gone, answered, order, owed>>
memoryVars == <<open, waiter, buffer, stream, onStream, pending>>
askerVars  == <<alive, asker, leg, took>>
vars == <<rowVars, memoryVars, askerVars, heardAs, reopened, restarts>>

Init ==
  /\ status = [q \in Question |-> "unasked"] /\ gone = {} /\ answered = {}
  /\ order = <<>> /\ owed = [q \in Question |-> 0]
  /\ open = NoAsk /\ waiter = NoQ /\ buffer = NoQ
  /\ stream = "none" /\ onStream = {} /\ pending = FALSE
  /\ alive = FALSE /\ asker = NoQ /\ leg = "idle" /\ took = NoQ
  /\ heardAs = [q \in Question |-> {}] /\ reopened = {} /\ restarts = 0

Waiting == {q \in Question : status[q] = "waiting"}

-----------------------------------------------------------------------------
(* Helpers *)

\* A mistake kept for checking: the buffer belongs to the session, any leg takes it.
FitsAny(p, q) == p # NoQ

\* bufferedAnswerFits, for an answer given on panel p and a leg of question q: a
\* leg cannot name its row, so the texts decide.
Fits(p, q) == p # NoQ /\ text[p] = text[q]

\* A mistake kept for checking: a leg never looks at the rows.
NothingRecorded(q) == FALSE

\* answerRecordedOnRow: the newest question is q's, answered, its result not back.
RecordedFor(q) ==
  /\ order # <<>>
  /\ LET newest == Last(order) IN
       /\ status[newest] = "running" /\ newest \in answered
       /\ text[newest] = text[q]

\* liveQuestionCallId: the newest panel still waiting that asks what the leg asks.
IsLegPanel(q, t) ==
  /\ q \in Waiting /\ text[q] = t
  /\ \A i, j \in DOMAIN order :
       order[i] = q /\ j > i => ~(order[j] \in Waiting /\ text[order[j]] = t)

\* A mistake kept for checking: a click on a panel that is over finds the session free.
GoesToAnyone(q) ==
  CASE open = NoAsk -> q \notin gone
    [] open = Unsaid -> q \notin gone
    [] OTHER -> \/ IsLegPanel(q, open)
                \/ /\ \A p \in Question : ~IsLegPanel(p, open)
                   /\ text[q] = open /\ q \notin gone

\* routeAnswer: the click goes to the process that asked this very question.
GoesToAsker(q) ==
  CASE open = NoAsk -> q \in Waiting /\ q \notin gone
    [] open = Unsaid -> q \notin gone
    [] OTHER -> \/ IsLegPanel(q, open)
                \/ /\ \A p \in Question : ~IsLegPanel(p, open)
                   /\ text[q] = open /\ q \notin gone

\* routeAnswer: nobody waits for it any more, it becomes a message.
GoesAsMessage(q) == ~GoesToAsker(q) /\ q \in Waiting /\ q \in gone

OneMore(n) == IF n < 2 THEN n + 1 ELSE n

-----------------------------------------------------------------------------
(* The turns and the process that asks *)

\* A turn starts.  A message a person sent closes, as superseded, the questions
\* left open by askers that are gone; an open ask of the session spares them all.
StartTurn(byPerson) ==
  /\ stream = "none"
  /\ stream' = "live" /\ alive' = TRUE
  /\ status' = [q \in Question |->
       IF byPerson /\ open = NoAsk /\ q \in Waiting \cap gone THEN "error" ELSE status[q]]
  /\ UNCHANGED <<gone, answered, order, owed, open, waiter, buffer, onStream, pending,
                 asker, leg, took, heardAs, reopened, restarts>>

\* The model calls the tool: the child blocks on the call.
Asks(q) ==
  /\ stream = "live" /\ alive /\ asker = NoQ
  /\ status[q] = "unasked"
  /\ asker' = q
  /\ UNCHANGED <<rowVars, memoryVars, alive, leg, took, heardAs, reopened, restarts>>

\* The detector paints the panel on the row of the turn; a leg may come first.
Paints(q) ==
  /\ stream = "live" /\ asker = q
  /\ status[q] = "unasked"
  /\ status' = [status EXCEPT ![q] = "waiting"]
  /\ order' = Append(order, q)
  /\ onStream' = onStream \cup {q}
  /\ pending' = TRUE
  /\ UNCHANGED <<gone, answered, owed, open, waiter, buffer, stream, askerVars,
                 heardAs, reopened, restarts>>

\* The provider reads the result of the call, closes its row and, if it holds the
\* panel, the ask.
ResultIsRead(held) ==
  /\ leg = "answered"
  /\ heardAs' = [heardAs EXCEPT ![took] = @ \cup {asker}]
  /\ status' = IF asker \in onStream THEN [status EXCEPT ![asker] = "success"] ELSE status
  /\ open' = IF held THEN NoAsk ELSE open
  /\ pending' = FALSE
  /\ asker' = NoQ /\ leg' = "idle" /\ took' = NoQ
  /\ UNCHANGED <<gone, answered, order, owed, waiter, buffer, onStream, alive, reopened,
                 restarts>>

\* It reads that the call failed: its leg was told cancelled, or the bridge lost
\* the server.
ErrorIsRead(held) ==
  /\ leg = "cancelled"
  /\ status' = IF asker \in onStream THEN [status EXCEPT ![asker] = "error"] ELSE status
  /\ open' = IF held THEN NoAsk ELSE open
  /\ pending' = FALSE
  /\ asker' = NoQ /\ leg' = "idle"
  /\ UNCHANGED <<gone, answered, order, owed, waiter, buffer, onStream, alive, took,
                 heardAs, reopened, restarts>>

\* The child proceeds with the answer as the result of its call.
Resumes == stream # "unadopted" /\ ResultIsRead(pending) /\ stream' = stream

\* The call of the child fails.
CallFails == stream # "unadopted" /\ ErrorIsRead(pending) /\ stream' = stream

\* The child dies under its call.  A waiter of its is not told.
AskerDies ==
  /\ alive
  /\ alive' = FALSE /\ asker' = NoQ /\ leg' = "idle" /\ took' = NoQ
  /\ UNCHANGED <<rowVars, memoryVars, heardAs, reopened, restarts>>

-----------------------------------------------------------------------------
(* The legs *)

Polls(q) == asker = q /\ leg = "idle" /\ (PanelFirst => status[q] # "unasked")

\* A mistake kept for checking: the wait is about its call id, not its texts.
LegWaitsById(q) ==
  /\ Polls(q)
  /\ ~RecordedFor(q) /\ ~Fits(buffer, q)
  /\ waiter' = q /\ open' = q /\ leg' = "out"
  /\ UNCHANGED <<rowVars, buffer, stream, onStream, pending, alive, asker, took,
                 heardAs, reopened, restarts>>

\* The leg finds no answer: beginAsk, and waitForAnswer takes over the rendez-vous.
LegWaits(q) ==
  /\ Polls(q)
  /\ ~RecordedFor(q) /\ ~Fits(buffer, q)
  /\ waiter' = q /\ open' = text[q] /\ leg' = "out"
  /\ UNCHANGED <<rowVars, buffer, stream, onStream, pending, alive, asker, took,
                 heardAs, reopened, restarts>>

\* The leg finds the answer on the row and forgets the copy in the buffer.
LegReadsRow(q) ==
  /\ Polls(q)
  /\ RecordedFor(q)
  /\ leg' = "answered" /\ took' = Last(order)
  /\ buffer' = IF Fits(buffer, q) THEN NoQ ELSE buffer
  /\ open' = NoAsk
  /\ UNCHANGED <<rowVars, waiter, stream, onStream, pending, alive, asker, heardAs, reopened,
                 restarts>>

\* The leg finds the answer in the buffer: beginAsk has opened an ask again.
LegReadsBuffer(q) ==
  /\ Polls(q)
  /\ ~RecordedFor(q) /\ Fits(buffer, q)
  /\ leg' = "answered" /\ took' = buffer
  /\ buffer' = NoQ
  /\ open' = IF open = NoAsk THEN Unsaid ELSE open
  /\ UNCHANGED <<rowVars, waiter, stream, onStream, pending, alive, asker, heardAs, reopened,
                 restarts>>

\* The timer of the waiter: pending, and its child comes straight back.
LegExpires ==
  /\ waiter # NoQ
  /\ waiter' = NoQ
  /\ leg' = IF leg = "out" THEN "idle" ELSE leg
  /\ UNCHANGED <<rowVars, open, buffer, stream, onStream, pending, alive, asker, took,
                 heardAs, reopened, restarts>>

\* The socket of a leg dies.  The server is not told: its waiter stays.
LegDrops ==
  /\ leg = "out"
  /\ leg' = "idle"
  /\ UNCHANGED <<rowVars, memoryVars, alive, asker, took, heardAs, reopened, restarts>>

-----------------------------------------------------------------------------
(* The answer *)

\* The row of p says queued and the relay owes its answer (deliverAsMessage).
QueuedAsMessage(p) ==
  /\ status' = [status EXCEPT ![p] = "success"]
  /\ owed' = [owed EXCEPT ![p] = OneMore(@)]

\* The asker is gone: the answer is queued as a message, no ask is touched.
AnswerAsMessage(q) ==
  /\ GoesAsMessage(q)
  /\ QueuedAsMessage(q)
  /\ answered' = answered \cup {q}
  /\ UNCHANGED <<gone, order, memoryVars, askerVars, heardAs, reopened, restarts>>

\* A click counts for a question that is over only when the open ask names none.
TakenUp(q) == IF open = Unsaid /\ q \notin Waiting THEN reopened \cup {q} ELSE reopened

\* The click ends the ask and the leg that waits, if any, resolves with it.
AnswerToLeg(q) ==
  /\ status[q] # "unasked" /\ GoesToAsker(q)
  /\ waiter # NoQ
  /\ waiter' = NoQ /\ open' = NoAsk
  /\ IF leg = "out" THEN leg' = "answered" /\ took' = q ELSE UNCHANGED <<leg, took>>
  /\ pending' = (pending /\ asker # q)
  /\ status' = [status EXCEPT ![q] = "running"]
  /\ answered' = answered \cup {q} /\ reopened' = TakenUp(q)
  /\ UNCHANGED <<gone, order, owed, buffer, stream, onStream, alive, asker, heardAs, restarts>>

\* No leg waits: the answer is buffered for the next one.  An answer to another
\* question that was waiting there goes out as a message now.
AnswerToBuffer(q) ==
  /\ status[q] # "unasked" /\ GoesToAsker(q)
  /\ waiter = NoQ
  /\ open' = NoAsk /\ buffer' = q
  /\ pending' = (pending /\ asker # q)
  /\ answered' = answered \cup {q} /\ reopened' = TakenUp(q)
  /\ LET handed == buffer \notin {NoQ, q} IN
       /\ status' = [p \in Question |->
            IF p = q THEN "running" ELSE IF handed /\ p = buffer THEN "success" ELSE status[p]]
       /\ owed' = [p \in Question |->
            IF handed /\ p = buffer THEN OneMore(owed[p]) ELSE owed[p]]
  /\ UNCHANGED <<gone, order, waiter, stream, onStream, askerVars, heardAs, restarts>>

\* No leg of its question collected the answer in time.  The time to live is
\* longer than an asker that is still there may stay away, and than the failure of
\* its call takes to come.
BufferExpires ==
  /\ buffer # NoQ
  /\ ~(asker # NoQ /\ leg \in {"idle", "cancelled"} /\ Fits(buffer, asker))
  /\ QueuedAsMessage(buffer)
  /\ buffer' = NoQ
  /\ UNCHANGED <<gone, answered, order, open, waiter, stream, onStream, pending,
                 askerVars, heardAs, reopened, restarts>>

-----------------------------------------------------------------------------
(* The end of a turn, and restarts *)

\* cancelAsk: the ask is closed, its leg told, the buffer dropped.
AskCancelled ==
  /\ open' = NoAsk /\ waiter' = NoQ /\ buffer' = NoQ
  /\ leg' = IF leg = "out" THEN "cancelled" ELSE leg

\* A turn of the session ends by itself: done, with the child on no call, or dead.
Over ==
  \/ stream = "live" /\ (asker = NoQ \/ ~alive)
  \/ stream = "unadopted" /\ ~alive

\* A mistake kept for checking: the end of a turn ends the question on screen.
TurnEndsAsks ==
  /\ Over
  /\ stream' = "none" /\ onStream' = {}
  /\ status' = [q \in Question |->
       IF q \in onStream /\ status[q] \in {"running", "waiting"} THEN "error" ELSE status[q]]
  /\ IF onStream \cap Waiting # {} THEN AskCancelled
     ELSE UNCHANGED <<open, waiter, buffer, leg>>
  /\ UNCHANGED <<gone, answered, order, owed, pending, alive, asker, took, heardAs, reopened,
                 restarts>>

\* A mistake kept for checking: the question is marked and its ask not released.
TurnEndsHolding ==
  /\ Over
  /\ stream' = "none" /\ onStream' = {}
  /\ status' = [q \in Question |->
       IF q \in onStream /\ status[q] = "running" THEN "error" ELSE status[q]]
  /\ gone' = gone \cup (onStream \cap Waiting)
  /\ UNCHANGED <<open, waiter, buffer, leg, answered, order, owed, pending, alive,
                 asker, took, heardAs, reopened, restarts>>

\* endStream: a tool still running is closed as interrupted; a question still on
\* screen stays open, marked, and whoever waits on the session is released.
TurnEnds ==
  /\ Over
  /\ stream' = "none" /\ onStream' = {}
  /\ status' = [q \in Question |->
       IF q \in onStream /\ status[q] = "running" THEN "error" ELSE status[q]]
  /\ gone' = gone \cup (onStream \cap Waiting)
  /\ IF onStream \cap Waiting # {} THEN AskCancelled
     ELSE UNCHANGED <<open, waiter, buffer, leg>>
  /\ UNCHANGED <<answered, order, owed, pending, alive, asker, took, heardAs, reopened,
                 restarts>>

\* The person stops the turn: its child is killed, and the question on screen
\* ends with it.
Stopped ==
  /\ stream = "live"
  /\ stream' = "none" /\ onStream' = {}
  /\ alive' = FALSE /\ asker' = NoQ /\ leg' = "idle" /\ took' = NoQ
  /\ open' = NoAsk /\ waiter' = NoQ /\ buffer' = NoQ
  /\ status' = [q \in Question |->
       IF q \in onStream /\ status[q] \in {"running", "waiting"} THEN "error" ELSE status[q]]
  /\ UNCHANGED <<gone, answered, order, owed, pending, heardAs, reopened, restarts>>

\* The stale sweep finds an ask open over a dead child.
SweepClosesAsk ==
  /\ stream = "live" /\ ~alive /\ open # NoAsk
  /\ AskCancelled
  /\ UNCHANGED <<rowVars, stream, onStream, pending, alive, asker, took, heardAs, reopened,
                 restarts>>

\* A restart under a child the broker keeps: the memory is gone, the rows stay,
\* and after a long outage its bridge has given up.
RestartAround ==
  /\ alive /\ restarts < MaxRestarts
  /\ restarts' = restarts + 1
  /\ open' = NoAsk /\ waiter' = NoQ /\ buffer' = NoQ
  /\ stream' = IF stream = "none" THEN "none" ELSE "unadopted"
  /\ \/ leg' = IF leg = "out" THEN "idle" ELSE leg
     \/ asker # NoQ /\ leg \in {"out", "idle"} /\ leg' = "cancelled"
  /\ UNCHANGED <<rowVars, onStream, pending, alive, asker, took, heardAs, reopened>>

\* The turn that outlived the restart is adopted, and the replay of its stream has
\* no result for the call the child is blocked on: the provider holds its panel
\* again and shows it again, whether it was answered or not.
Reattach ==
  /\ stream = "unadopted" /\ alive
  /\ stream' = "live"
  /\ pending' = (asker \in onStream)
  /\ IF asker \in onStream
     THEN /\ status' = [status EXCEPT ![asker] = "waiting"]
          /\ reopened' = IF status[asker] = "waiting" THEN reopened ELSE reopened \cup {asker}
     ELSE UNCHANGED <<status, reopened>>
  /\ UNCHANGED <<gone, answered, order, owed, open, waiter, buffer, onStream, askerVars,
                 heardAs, restarts>>

\* The child went on before the adoption, and the replay has the result of its call.
ReattachToResult ==
  /\ stream = "unadopted" /\ alive
  /\ stream' = "live"
  /\ LET held == asker \in onStream IN ResultIsRead(held) \/ ErrorIsRead(held)

\* A restart the child does not survive, and the boot's sweep of the rows: an
\* answered question is owed to the model, an open one has nobody any more.
RestartKills ==
  /\ restarts < MaxRestarts
  /\ restarts' = restarts + 1
  /\ open' = NoAsk /\ waiter' = NoQ /\ buffer' = NoQ
  /\ stream' = "none" /\ onStream' = {} /\ pending' = FALSE
  /\ alive' = FALSE /\ asker' = NoQ /\ leg' = "idle" /\ took' = NoQ
  /\ status' = [q \in Question |->
       IF status[q] # "running" THEN status[q]
       ELSE IF q \in answered THEN "success" ELSE "error"]
  /\ owed' = [q \in Question |->
       IF status[q] = "running" /\ q \in answered THEN OneMore(owed[q]) ELSE owed[q]]
  /\ gone' = gone \cup Waiting
  /\ UNCHANGED <<answered, order, heardAs, reopened>>

-----------------------------------------------------------------------------
Leg(q) == LegWaits(q) \/ LegReadsRow(q) \/ LegReadsBuffer(q)
Answer(q) == AnswerAsMessage(q) \/ AnswerToLeg(q) \/ AnswerToBuffer(q)

Next ==
  \/ \E q \in Question : Asks(q) \/ Paints(q) \/ Leg(q) \/ Answer(q)
  \/ \E byPerson \in BOOLEAN : StartTurn(byPerson)
  \/ TurnEnds \/ Stopped
  \/ Resumes \/ CallFails \/ AskerDies
  \/ LegExpires \/ LegDrops \/ BufferExpires
  \/ SweepClosesAsk
  \/ RestartAround \/ Reattach \/ ReattachToResult \/ RestartKills

Spec == Init /\ [][Next]_vars

\* What is trusted to happen in the end: the bridge polls and its child goes on,
\* the timers fire, the boot adopts, and a turn whose child died is closed.
Fairness ==
  /\ WF_vars(\E q \in Question : Leg(q))
  /\ WF_vars(Resumes) /\ WF_vars(CallFails)
  /\ WF_vars(LegExpires) /\ WF_vars(BufferExpires)
  /\ WF_vars(Reattach \/ ReattachToResult)
  /\ WF_vars(~alive /\ TurnEnds)

FairSpec == Spec /\ Fairness

-----------------------------------------------------------------------------
(* Properties *)

(* Every variable has the shape the code gives it. *)
TypeOK ==
  /\ status \in [Question -> {"unasked", "waiting", "running", "success", "error"}]
  /\ gone \subseteq Question /\ answered \subseteq Question
  /\ order \in Seq(Question) /\ owed \in [Question -> 0 .. 2]
  /\ open \in Text \cup {NoAsk, Unsaid}
  /\ waiter \in Question \cup {NoQ} /\ buffer \in Question \cup {NoQ}
  /\ stream \in {"none", "live", "unadopted"} /\ onStream \subseteq Question
  /\ pending \in BOOLEAN /\ alive \in BOOLEAN
  /\ asker \in Question \cup {NoQ} /\ leg \in {"idle", "out", "answered", "cancelled"}
  /\ took \in Question \cup {NoQ}
  /\ heardAs \in [Question -> SUBSET Question] /\ reopened \subseteq Question
  /\ restarts \in 0 .. MaxRestarts

(* The model never reads the answer to one question as the result of another:   *)
(* what a call gets back was given on a panel that asks the same thing.         *)
RightQuestion ==
  \A p, q \in Question : q \in heardAs[p] => text[p] = text[q]

(* An answer is delivered one way: as the result of one call, or as one message. *)
(* A question that is taken up again (LivesOnce says when) is answered again.     *)
DeliveredOnce ==
  \A p \in Question \ reopened : Cardinality(heardAs[p]) + owed[p] <= 1

(* A question waits for its human: no clock, no turn end, no restart and no     *)
(* lost leg ends it.  It stops waiting because it is answered, the person stops *)
(* the turn or writes something else, or its own call fails.                    *)
QuestionWaitsForItsHuman ==
  [][\A q \in Waiting : status'[q] # "waiting" =>
       \/ q \in answered'
       \/ Stopped \/ StartTurn(TRUE)
       \/ (Resumes \/ CallFails \/ ReattachToResult) /\ asker = q]_vars

(* A click on a panel that waits is never turned down, when panels are painted  *)
(* before the first leg of their call comes (PanelFirst): it finds the process  *)
(* that asked, or nobody waits for it any more and it becomes a message.        *)
WaitingIsAnswerable == \A q \in Waiting : GoesToAsker(q) \/ GoesAsMessage(q)

(* An answered question is not asked again: routes/topics.ts:2959-2960 forgets    *)
(* the provider's entry "so a reattach REPLAY won't re-open the panel for an      *)
(* already-answered question".  The entry is memory, and the replay after a       *)
(* restart builds it again from the stream (claude-code.ts 3546-3548).            *)
AnsweredIsNotAsked == \A q \in answered : status[q] # "waiting"

(* A question lives one life, when no two ask the same thing: once it is closed,  *)
(* or its answer went off, no leg, click or sweep takes it up again (status on    *)
(* its row, and the ask and the buffer of ask-user-bridge.ts).  It starts with    *)
(* the adoption of a turn that shows an answered panel again; a leg that reads    *)
(* the answer of such a panel from the buffer holds the ask open under no name,   *)
(* and a click on a closed panel then counts (routeAnswer): no other question is  *)
(* taken up again.                                                                *)
Fate(q) ==
  IF q \in reopened THEN "reopened" ELSE
  CASE status[q] = "unasked" -> "unasked"
    [] status[q] = "waiting" -> "open"
    [] OTHER ->
         CASE owed[q] = 1 /\ heardAs[q] = {}  -> "message"
           [] owed[q] = 0 /\ heardAs[q] = {q} -> "result"
           [] owed[q] = 0 /\ heardAs[q] = {}  ->
                IF status[q] = "running" \/ buffer = q \/ (leg = "answered" /\ took = q)
                THEN "answered" ELSE "closed"
           [] OTHER -> "astray"
Life == INSTANCE QuestionLife WITH fate <- [q \in Question |-> Fate(q)]
LivesOnce == Life!Spec

(* An answer that was given is not left lying: a leg or the buffer brings it to   *)
(* the model, it is closed with the turn it was for, or an adoption asks again.   *)
AnsweredMovesOn == \A q \in Question : Fate(q) = "answered" ~> Fate(q) # "answered"
=============================================================================
