---------------------------- MODULE OutboundGate ----------------------------
(***************************************************************************)
(* The yes a person gives before a message leaves the machine: the gate of *)
(* the sends (server/lib/outbound-gate.ts behind routes/outbound.ts), the  *)
(* questions a card shows in its thread (services/board-ask-routing.ts),   *)
(* and the rendez-vous of the session, which the sends share with the      *)
(* generic questions (lib/ask-user-bridge.ts, routes/permission.ts).       *)
(*                                                                         *)
(* A call is a tool call of an agent.  It polls in short legs, each a      *)
(* request the server answers "pending" until a person decides; a socket   *)
(* that dies leaves its leg alive on the server, and the caller posts it   *)
(* again.  The calls of a session run together.                            *)
(*                                                                         *)
(* The server runs a leg up to its wait without a pause, and a wait that   *)
(* is over resumes before anything else runs.                              *)
(***************************************************************************)
EXTENDS Integers, Sequences, FiniteSets

CONSTANTS
  Send,        \* calls that send a message
  Ask,         \* calls that ask a generic question
  Session,     \* the sessions that make them
  Message,     \* what a send carries: two sends may carry the same
  MessageOf,   \* the message of a send
  Worlds,      \* who makes the calls: [card: its sessions have a card, home: session of a call]
  Card,        \* the surface of the card, where sessions have one
  None,
  MaxLegs,     \* bound: legs of a send (OUTBOUND_MAX_LEGS, 600 in the code)
  MaxClicks,   \* bound: answers of persons
  MaxFaults    \* bound: sockets that die and agents that do

Call == Send \cup Ask
Surface == Session \cup {Card}

ASSUME GateNames == /\ Send \cap Ask = {} /\ Card \notin Session
                    /\ None \notin Call \cup Message \cup Session
ASSUME GateCalls == /\ Worlds \subseteq [card : BOOLEAN, home : [Call -> Session]]
                    /\ MessageOf \in [Send -> Message]
ASSUME GateFinite == IsFiniteSet(Send) /\ IsFiniteSet(Ask) /\ IsFiniteSet(Session)
ASSUME GateBounds == MaxLegs \in Nat \ {0} /\ MaxClicks \in Nat /\ MaxFaults \in Nat

VARIABLES
  world,     \* which of the Worlds it is
  \* The callers
  call,      \* each call: idle, posting, leg (it waits for one), answered, over
  token,     \* sends whose last leg was given the token of the hold that stands
  legs,      \* legs a send has posted
  \* The legs on the server: the one its caller reads, and one whose socket died
  leg, stray,
  \* Memory of the server
  hold,      \* per surface, the send that holds it, and the row of the thread it wrote
  card,      \* the question the thread of the card shows
  open,      \* sessions with a question open
  ident,     \* the panel the open question of a session names
  buffer,    \* the answer no leg has collected yet
  \* The transcript
  rows,      \* tool rows of the sends, in order
  row,       \* the row of a call: none, running, waiting, over
  painted,   \* the question drawn on it
  recorded,  \* questions with an answer recorded on their row
  \* Persons
  view,      \* the block a person reads on the card
  clicks, faults,
  unspent    \* per message: yeses delivered, less the sends started

callVars  == <<call, token, legs>>
legVars   == <<leg, stray>>
askVars   == <<open, ident, buffer>>
rowVars   == <<rows, row, painted, recorded>>
countVars == <<clicks, faults, unspent>>
vars == <<world, callVars, legVars, hold, card, askVars, rowVars, view, countVars>>

NoLeg == [at |-> "none", holds |-> FALSE, ask |-> 0, got |-> None, yes |-> FALSE]
NoHold == [by |-> None, ask |-> 0]
NoBlock == [id |-> 0, of |-> None, what |-> None, stale |-> FALSE]
NoAnswer == [what |-> None, yes |-> FALSE, on |-> None]
NoView == [id |-> 0, what |-> None]
Ids == 0..(2 * Cardinality(Call) + Cardinality(Surface) + 3)

Init ==
  /\ world \in Worlds
  /\ call = [c \in Call |-> "idle"] /\ token = {} /\ legs = [c \in Send |-> 0]
  /\ leg = [c \in Call |-> NoLeg] /\ stray = [c \in Call |-> NoLeg]
  /\ hold = [k \in Surface |-> NoHold] /\ card = NoBlock
  /\ open = {} /\ ident = [s \in Session |-> None]
  /\ buffer = [s \in Session |-> NoAnswer]
  /\ rows = <<>> /\ row = [c \in Call |-> "none"] /\ painted = [c \in Call |-> None]
  /\ recorded = {}
  /\ view = NoView /\ clicks = 0 /\ faults = 0
  /\ unspent = [m \in Message |-> 0]

-----------------------------------------------------------------------------
(* Helpers *)

SessionOf == world.home
\* The sessions belong to one card: a coordinator and its children.
carded == world.card

What(c) == IF c \in Send THEN MessageOf[c] ELSE c
Face(s) == IF carded THEN Card ELSE s
Fresh(used) == CHOOSE n \in 1..(Cardinality(used) + 1) : n \notin used

UsedIds == {card.id, view.id} \cup {hold[k].ask : k \in Surface}
           \cup {leg[c].ask : c \in Call} \cup {stray[c].ask : c \in Call}

\* Nothing else runs while a wait that is over has not resumed.
Settled == \A c \in Call : leg[c].at # "woken" /\ stray[c].at # "woken"

\* The caller reads its answer, if it is still there, and its row is over.
Told(c, what) ==
  /\ call' = [call EXCEPT ![c] = IF @ = "over" THEN @ ELSE what]
  /\ row' = [row EXCEPT ![c] = "over"]

\* The row a confirmation is drawn on: the last send of the session still running (the
\* one that posts is running).
PanelOf(s) ==
  LET live == {i \in DOMAIN rows : SessionOf[rows[i]] = s /\ row[rows[i]] \in {"running", "waiting"}}
  IN rows[CHOOSE i \in live : \A j \in live : j <= i]

\* bufferedAnswerFits: an answer given on the card names no panel, and goes to anybody.
Fits(s, panel) == buffer[s] # NoAnswer /\ buffer[s].on \in {None, panel}

-----------------------------------------------------------------------------
(* The thread of the card: routeAskToTaskThread *)

Asks(c) == card.id # 0 /\ card.of = SessionOf[c] /\ card.what = What(c)

\* The question on the card still has somebody who comes back for it.
Owned(alive) == card.id # 0 /\ ~card.stale /\ card.of \in alive

\* Another question takes the card only where nobody owns the one that is there.
TakesCard(c, alive) == ~Asks(c) /\ ~Owned(alive)

NewBlock(c, id) == [id |-> id, of |-> SessionOf[c], what |-> What(c), stale |-> FALSE]

\* The session that lost the card to another has its question cancelled.
Loser(c) == IF card.id # 0 /\ card.of # SessionOf[c] THEN card.of ELSE None

-----------------------------------------------------------------------------
(* A call starts; a generic question is drawn by the stream at once. *)

Starts(c) ==
  /\ Settled /\ call[c] = "idle" /\ call' = [call EXCEPT ![c] = "posting"]
  /\ IF c \in Send
       THEN /\ rows' = Append(rows, c) /\ row' = [row EXCEPT ![c] = "running"]
            /\ UNCHANGED painted
       ELSE /\ row' = [row EXCEPT ![c] = "waiting"] /\ painted' = [painted EXCEPT ![c] = c]
            /\ UNCHANGED rows
  /\ UNCHANGED <<world, token, legs, legVars, hold, card, askVars, recorded, view,
                 countVars>>

Posting(c) == Settled /\ call[c] = "posting"
Posted(c) == call' = [call EXCEPT ![c] = "leg"]

\* waitForAnswer, for the panel p: the buffered answer that fits, or a wait that ends
\* those of the sessions given; the session lost to another has its question cancelled.
WaitsEnding(c, p, l, lost, ended) ==
  LET s == SessionOf[c]
      taken == Fits(s, p)
      mine == IF taken THEN [l EXCEPT !.at = "woken", !.got = buffer[s].what, !.yes = buffer[s].yes]
              ELSE [l EXCEPT !.at = "waiting"]
      cut == {lost} \cup (IF taken THEN {} ELSE ended)
      over(d, m) == IF SessionOf[d] \in cut /\ m.at = "waiting" THEN [m EXCEPT !.at = "woken"] ELSE m
  IN /\ leg' = [d \in Call |-> IF d = c THEN mine ELSE over(d, leg[d])]
     /\ stray' = [d \in Call |-> over(d, stray[d])]
     /\ open' = (open \ {lost}) \cup {s}
     /\ ident' = [t \in Session |-> IF t = lost THEN None ELSE IF t = s /\ ~taken THEN p ELSE ident[t]]
     /\ buffer' = [t \in Session |-> IF t = lost \/ (t = s /\ taken) THEN NoAnswer ELSE buffer[t]]

\* A mistake kept for checking: the wait of another leg goes on beside the new one.
WaitsBeside(c, p, l, lost) == WaitsEnding(c, p, l, lost, {})

\* A session has one rendez-vous: the new wait takes the place of the old.
Waits(c, p, l, lost) == WaitsEnding(c, p, l, lost, {SessionOf[c]})

-----------------------------------------------------------------------------
(* A leg of a send *)

\* acquireHold: the hold of the surface is this call's, or nobody's.
MayHold(c) == LET h == hold[Face(SessionOf[c])] IN h.by = None \/ (h.by = c /\ c \in token)

\* The row this request wrote on an earlier leg; a new hold has none.
MineOf(c) == hold[Face(SessionOf[c])].ask

\* The surface is let go: the token and what the legs of its holder had are worth nothing.
LetGo(c, k) ==
  /\ hold' = [hold EXCEPT ![k] = NoHold]
  /\ token' = token \ {c}

Legged(c) == legs' = [legs EXCEPT ![c] = @ + 1]

\* Another send holds the surface: turned away, having touched nothing.
SendTurnedAway(c) ==
  /\ Posting(c) /\ legs[c] < MaxLegs /\ ~MayHold(c) /\ Legged(c) /\ Told(c, "over")
  /\ UNCHANGED <<world, token, legVars, hold, card, askVars, rows, painted, recorded, view, countVars>>

\* A mistake kept for checking: the row the routing hands back is taken as this call's.
CardTakenAdopts(c) == carded /\ ~Asks(c) /\ ~TakesCard(c, open)

\* The card shows a question that is not this call's: another one somebody waits for, or
\* the same words under a row it did not write.
CardTaken(c) == carded /\ IF Asks(c) THEN card.id # MineOf(c) ELSE ~TakesCard(c, open)

\* It is refused, and lets go of the surface; the same words count as a heartbeat.
SendFindsCardTaken(c) ==
  /\ Posting(c) /\ legs[c] < MaxLegs /\ MayHold(c) /\ CardTaken(c)
  /\ Legged(c) /\ Told(c, "over") /\ LetGo(c, Face(SessionOf[c]))
  /\ card' = IF Asks(c) THEN [card EXCEPT !.stale = FALSE] ELSE card
  /\ UNCHANGED <<world, legVars, askVars, rows, painted, recorded, view, countVars>>

\* The question goes on the card and on the row of the tool, and the leg waits; an
\* answer already given on the card, or on that row, is taken at once.
SendWaits(c) ==
  LET s == SessionOf[c]
      panel == PanelOf(s)
      new == carded /\ ~Asks(c)
      id == IF new THEN Fresh(UsedIds) ELSE MineOf(c)
  IN /\ Posting(c) /\ legs[c] < MaxLegs /\ MayHold(c) /\ ~CardTaken(c)
     /\ Legged(c) /\ Posted(c) /\ UNCHANGED token
     /\ hold' = [hold EXCEPT ![Face(s)] = [by |-> c, ask |-> id]]
     /\ card' = IF new THEN NewBlock(c, id)
                ELSE IF carded THEN [card EXCEPT !.stale = FALSE] ELSE card
     /\ row' = [row EXCEPT ![panel] = "waiting"]
     /\ painted' = IF row[panel] = "waiting" THEN painted ELSE [painted EXCEPT ![panel] = MessageOf[c]]
     /\ Waits(c, panel, [NoLeg EXCEPT !.holds = TRUE], IF new THEN Loser(c) ELSE None)
     /\ UNCHANGED <<world, rows, recorded, view, countVars>>

\* releaseHold: only the holder releases.
Releases(c, l) ==
  IF l.holds THEN LetGo(c, Face(SessionOf[c])) ELSE UNCHANGED <<hold, token>>

\* endMyQuestion: the row its hold wrote, if the card still shows it, is closed.
EndsItsQuestion(c, l) ==
  card' = IF l.holds /\ MineOf(c) # 0 /\ card.id = MineOf(c) THEN NoBlock ELSE card

\* A mistake kept for checking: any yes sends.
GrantsAny(c, l) == l.got # None /\ l.yes

\* Only the word that sends, under the key or the words of this message, sends.
Grants(c, l) == l.got = MessageOf[c] /\ l.yes

Spent(c, l) == unspent' = IF Grants(c, l) THEN [unspent EXCEPT ![MessageOf[c]] = @ - 1] ELSE unspent
Resumed(c, l) == IF Grants(c, l) THEN [NoLeg EXCEPT !.at = "sending"] ELSE NoLeg

\* The wait is over: the question is closed, the hold let go, and the message leaves, or
\* it does not.
SendResumes(c) ==
  LET l == leg[c]
  IN /\ l.at = "woken" /\ EndsItsQuestion(c, l) /\ Releases(c, l) /\ Spent(c, l)
     /\ leg' = [leg EXCEPT ![c] = Resumed(c, l)]
     /\ stray' = IF l.holds THEN [stray EXCEPT ![c].holds = FALSE] ELSE stray
     /\ IF Grants(c, l) THEN UNCHANGED <<call, row>> ELSE Told(c, "over")
     /\ UNCHANGED <<world, legs, askVars, rows, painted, recorded, view, clicks, faults>>

\* The same for a leg nobody reads any more: the hold it lets go is also that of the leg
\* its caller posted after it.
StrayResumes(c) ==
  LET l == stray[c]
  IN /\ l.at = "woken" /\ EndsItsQuestion(c, l) /\ Releases(c, l) /\ Spent(c, l)
     /\ stray' = [stray EXCEPT ![c] = Resumed(c, l)]
     /\ leg' = IF l.holds THEN [leg EXCEPT ![c].holds = FALSE] ELSE leg
     /\ UNCHANGED <<world, call, legs, askVars, rowVars, view, clicks, faults>>

\* The CLI has run; what it did reaches whoever reads the leg.
SendEnds(c) ==
  /\ Settled
  /\ \/ leg[c].at = "sending" /\ leg' = [leg EXCEPT ![c] = NoLeg] /\ Told(c, "over") /\ UNCHANGED stray
     \/ stray[c].at = "sending" /\ stray' = [stray EXCEPT ![c] = NoLeg] /\ UNCHANGED <<leg, call, row>>
  /\ UNCHANGED <<world, token, legs, hold, card, askVars, rows, painted, recorded, view, countVars>>

-----------------------------------------------------------------------------
(* A leg of a generic question *)

\* A mistake kept for checking: only the card says that a send of the session waits.
HeldOnCard(s) == FALSE

\* outboundHoldOfSession: a send of this session waits for its confirmation.
Held(s) == \E k \in Surface : hold[k].by # None /\ SessionOf[hold[k].by] = s

\* A question of this same session is on the card and still has an owner.
OwnBusy(c) == carded /\ ~Asks(c) /\ Owned(open \cup {SessionOf[c]}) /\ card.of = SessionOf[c]

\* The answer is on the row already: it is collected there, and the question closed.
AskReadsRow(c) ==
  LET s == SessionOf[c]
  IN /\ Posting(c) /\ c \in recorded /\ Told(c, "answered")
     /\ open' = open \ {s} /\ ident' = [ident EXCEPT ![s] = None]
     /\ buffer' = IF Fits(s, c) THEN [buffer EXCEPT ![s] = NoAnswer] ELSE buffer
     /\ UNCHANGED <<world, token, legs, legVars, hold, card, rows, painted, recorded, view, countVars>>

\* The leg is spent without touching what is on screen.
AskParks(c) ==
  /\ Posting(c) /\ c \notin recorded /\ (Held(SessionOf[c]) \/ OwnBusy(c))
  /\ Posted(c) /\ leg' = [leg EXCEPT ![c] = [NoLeg EXCEPT !.at = "parked"]]
  /\ open' = open \cup {SessionOf[c]}
  /\ UNCHANGED <<world, token, legs, stray, hold, card, ident, buffer, rowVars, view, countVars>>

\* The question goes on the card, if nobody else's is there, and the leg waits.
AskWaits(c) ==
  LET new == carded /\ TakesCard(c, open \cup {SessionOf[c]})
      id == IF new THEN Fresh(UsedIds) ELSE 0
  IN /\ Posting(c) /\ c \notin recorded /\ ~Held(SessionOf[c]) /\ ~OwnBusy(c) /\ Posted(c)
     /\ card' = IF new THEN NewBlock(c, id)
                ELSE IF carded /\ Asks(c) THEN [card EXCEPT !.stale = FALSE] ELSE card
     /\ Waits(c, c, [NoLeg EXCEPT !.ask = id], IF new THEN Loser(c) ELSE None)
     /\ UNCHANGED <<world, token, legs, hold, rowVars, view, countVars>>

\* The wait is over: the row this very leg wrote is taken off the card.
AskOff(l) == card' = IF l.ask # 0 /\ card.id = l.ask THEN NoBlock ELSE card

AskResumes(c) ==
  \/ /\ leg[c].at = "woken" /\ AskOff(leg[c]) /\ leg' = [leg EXCEPT ![c] = NoLeg]
     /\ Told(c, IF leg[c].got # None THEN "answered" ELSE "over")
     /\ UNCHANGED <<world, token, legs, stray, hold, askVars, rows, painted, recorded, view, countVars>>
  \/ /\ stray[c].at = "woken" /\ AskOff(stray[c]) /\ stray' = [stray EXCEPT ![c] = NoLeg]
     /\ UNCHANGED <<world, callVars, leg, hold, askVars, rowVars, view, countVars>>

-----------------------------------------------------------------------------
(* Legs that expire, sockets that die, callers that stop *)

\* "pending": the caller comes back, a send with its token.
LegExpires(c) ==
  /\ Settled /\ leg[c].at \in {"waiting", "parked"} /\ leg' = [leg EXCEPT ![c] = NoLeg]
  /\ IF call[c] = "leg"
       THEN /\ call' = [call EXCEPT ![c] = "posting"]
            /\ token' = IF leg[c].holds THEN token \cup {c} ELSE token \ {c}
       ELSE UNCHANGED <<call, token>>
  /\ UNCHANGED <<world, legs, stray, hold, card, askVars, rowVars, view, countVars>>

StrayExpires(c) ==
  /\ Settled /\ stray[c].at \in {"waiting", "parked"} /\ stray' = [stray EXCEPT ![c] = NoLeg]
  /\ UNCHANGED <<world, callVars, leg, hold, card, askVars, rowVars, view, countVars>>

Fault == Settled /\ faults < MaxFaults /\ faults' = faults + 1 /\ UNCHANGED <<clicks, unspent>>

\* The socket dies under a leg: the server does not know, the caller posts again.
SocketDies(c) ==
  /\ Fault /\ call[c] = "leg" /\ stray[c].at = "none"
  /\ stray' = [stray EXCEPT ![c] = leg[c]] /\ leg' = [leg EXCEPT ![c] = NoLeg]
  /\ call' = [call EXCEPT ![c] = "posting"]
  /\ UNCHANGED <<world, token, legs, hold, card, askVars, rowVars, view>>

\* The agent dies: its call is over, a leg of it is not.
CallerDies(c) ==
  /\ Fault /\ call[c] \in {"posting", "leg"} /\ Told(c, "over") /\ token' = token \ {c}
  /\ UNCHANGED <<world, legs, legVars, hold, card, askVars, rows, painted, recorded, view>>

\* A send that ran out of legs says that nothing was sent; the server is not told.
RunsOut(c) ==
  /\ Posting(c) /\ legs[c] = MaxLegs /\ Told(c, "over") /\ token' = token \ {c}
  /\ UNCHANGED <<world, legs, legVars, hold, card, askVars, rows, painted, recorded, view, countVars>>

\* The lease outlives the leg by half a minute.
Lapses(k) ==
  hold[k].by # None /\ \A l \in {leg[hold[k].by], stray[hold[k].by]} : ~(l.at = "waiting" /\ l.holds)

HoldLapses(k) ==
  /\ Settled /\ Lapses(k) /\ LetGo(hold[k].by, k)
  /\ UNCHANGED <<world, call, legs, legVars, card, askVars, rowVars, view, countVars>>

\* Two minutes without a leg that repeats the question on the card.
HeartbeatStops ==
  /\ Settled /\ card.id # 0 /\ ~card.stale
  /\ \A c \in Call : Asks(c) => leg[c].at # "waiting" /\ stray[c].at # "waiting"
  /\ card' = [card EXCEPT !.stale = TRUE]
  /\ UNCHANGED <<world, callVars, legVars, hold, askVars, rowVars, view, countVars>>

\* Two minutes in the buffer: the answer leaves by another way, or is dropped.
BufferLapses(s) ==
  /\ Settled /\ buffer[s] # NoAnswer /\ buffer' = [buffer EXCEPT ![s] = NoAnswer]
  /\ UNCHANGED <<world, callVars, legVars, hold, card, open, ident, rowVars, view, countVars>>

-----------------------------------------------------------------------------
(* Persons *)

\* deliverAnswer: the question is over; the leg that waits resumes with the answer, or
\* the buffer keeps it.
Delivered(s, what, said, on) ==
  LET up(c, l) == IF SessionOf[c] = s /\ l.at = "waiting"
                  THEN [l EXCEPT !.at = "woken", !.got = what, !.yes = said] ELSE l
  IN /\ open' = open \ {s} /\ ident' = [ident EXCEPT ![s] = None]
     /\ leg' = [c \in Call |-> up(c, leg[c])] /\ stray' = [c \in Call |-> up(c, stray[c])]
     /\ buffer' = IF leg' = leg /\ stray' = stray
                    THEN [buffer EXCEPT ![s] = [what |-> what, yes |-> said, on |-> on]] ELSE buffer
     /\ unspent' = IF what \in Message /\ said THEN [unspent EXCEPT ![what] = @ + 1] ELSE unspent

\* What is said to a question of one's own: a confirmation is a yes or a no.
Sayings(what) == IF what \in Message THEN BOOLEAN ELSE {TRUE}

Clicked == Settled /\ clicks < MaxClicks /\ clicks' = clicks + 1 /\ UNCHANGED faults

\* The card on a screen: what it shows now.
Looks ==
  /\ Settled /\ card.id # 0 /\ view' = [id |-> card.id, what |-> card.what] /\ view' # view
  /\ UNCHANGED <<world, callVars, legVars, hold, card, askVars, rowVars, countVars>>

\* A mistake kept for checking: the open question takes the answer, whichever was read.
AnswersBlind == card.id # 0

\* answerRoutedAsk compares the row that was clicked with the one that is open.
Answers == card.id # 0 /\ card.id = view.id

\* A quick reply of the card; on a block that is over, nothing is delivered and it says so.
ClicksCard ==
  /\ Clicked /\ Answers
  /\ \E said \in Sayings(card.what) : Delivered(card.of, card.what, said, None)
  /\ card' = NoBlock /\ view' = NoView
  /\ UNCHANGED <<world, callVars, hold, rowVars>>

\* routeAnswer: the panel is the one the open question names, or nothing names one.
ReachesAsker(p) ==
  LET s == SessionOf[p]
  IN IF s \in open THEN ident[s] \in {None, p} ELSE p \in Ask /\ row[p] = "waiting"

ClicksPanel(p) ==
  /\ Clicked /\ painted[p] # None /\ ReachesAsker(p)
  /\ \E said \in Sayings(painted[p]) : Delivered(SessionOf[p], painted[p], said, p)
  /\ row' = [row EXCEPT ![p] = IF @ = "over" THEN @ ELSE "running"]
  /\ recorded' = IF p \in Ask THEN recorded \cup {p} ELSE recorded
  /\ UNCHANGED <<world, callVars, hold, card, rows, painted, view>>

-----------------------------------------------------------------------------
SendStep(c) ==
  \/ SendTurnedAway(c) \/ SendFindsCardTaken(c) \/ SendWaits(c)
  \/ SendResumes(c) \/ StrayResumes(c) \/ SendEnds(c) \/ RunsOut(c)
AskStep(c) == AskReadsRow(c) \/ AskParks(c) \/ AskWaits(c) \/ AskResumes(c)
LegEnds(c) == LegExpires(c) \/ StrayExpires(c)

Next ==
  \/ \E c \in Call : Starts(c) \/ LegEnds(c) \/ SocketDies(c) \/ CallerDies(c) \/ ClicksPanel(c)
  \/ \E c \in Send : SendStep(c)
  \/ \E c \in Ask : AskStep(c)
  \/ \E k \in Surface : HoldLapses(k)
  \/ \E s \in Session : BufferLapses(s)
  \/ HeartbeatStops \/ Looks \/ ClicksCard

Spec == Init /\ [][Next]_vars

-----------------------------------------------------------------------------
(* Properties *)

Waiting(s) ==
  LET of(l) == {c \in Call : SessionOf[c] = s /\ l[c].at = "waiting"}
  IN ({"leg"} \X of(leg)) \cup ({"stray"} \X of(stray))

LegType(l) ==
  /\ l.at \in {"none", "waiting", "parked", "woken", "sending"} /\ l.holds \in BOOLEAN
  /\ l.ask \in Ids /\ l.got \in Message \cup Ask \cup {None} /\ l.yes \in BOOLEAN

(* The state has the shape the code gives it, and a session has at most one wait. *)
TypeOK ==
  /\ world \in Worlds
  /\ call \in [Call -> {"idle", "posting", "leg", "answered", "over"}]
  /\ token \subseteq Send /\ legs \in [Send -> 0..MaxLegs]
  /\ \A c \in Call : LegType(leg[c]) /\ LegType(stray[c])
  /\ \A s \in Session : Cardinality(Waiting(s)) <= 1
  /\ hold \in [Surface -> [by : Send \cup {None}, ask : Ids]]
  /\ card \in [id : Ids, of : Session \cup {None}, what : Message \cup Ask \cup {None}, stale : BOOLEAN]
  /\ open \subseteq Session /\ ident \in [Session -> Call \cup {None}]
  /\ buffer \in [Session -> [what : Message \cup Ask \cup {None}, yes : BOOLEAN, on : Call \cup {None}]]
  /\ rows \in Seq(Send) /\ Len(rows) <= Cardinality(Send)
  /\ row \in [Call -> {"none", "running", "waiting", "over"}]
  /\ painted \in [Call -> Message \cup Ask \cup {None}] /\ recorded \subseteq Ask
  /\ view \in [id : Ids, what : Message \cup Ask \cup {None}]
  /\ clicks \in 0..MaxClicks /\ faults \in 0..MaxFaults /\ unspent \in [Message -> Int]

(* A message leaves once for each yes given to that very message: not on a yes given to
   another question of the session, not twice on one yes, through lost sockets, replaced
   questions, answers left in the buffer and two sends of the same words. *)
OneYesOneSend == \A m \in Message : unspent[m] >= 0

WaitsHolding(c, l) == l.at = "waiting" /\ l.holds

(* A send that waits while it holds the card has its own question on the card, under the
   row it wrote: nobody else's leg, ending, took it away (the reason of the hold). *)
HolderIsOnTheCard ==
  carded => \A c \in Send : \A l \in {leg[c], stray[c]} :
    WaitsHolding(c, l) => hold[Card].by = c /\ card.id # 0 /\ card.id = MineOf(c) /\ Asks(c)

(* A generic question never ends the wait of a send of its session that holds its
   surface ("this leg touches nothing", routes/permission.ts). *)
SendIsNotCut ==
  [][\A q \in Ask : AskStep(q) =>
       \A c \in Send : WaitsHolding(c, leg[c]) /\ SessionOf[c] = SessionOf[q] => leg'[c] = leg[c]]_vars

(* A click on the card that resumes a leg resumes the leg of the question that was read
   ("the yes belongs to the question the person read", answerRoutedAsk). *)
ClicksReachTheirQuestion ==
  [][\A c \in Call : ClicksCard /\ leg[c].at = "waiting" /\ leg'[c].at = "woken"
       => What(c) = view.what]_vars
=============================================================================
