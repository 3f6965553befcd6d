-------------------------- MODULE PermissionBridge --------------------------
(***************************************************************************)
(* The permission channel of one session: server/lib/permission-bridge.ts, *)
(* its two routes in server/routes/permission.ts, the subprocess that asks *)
(* (server/mcp/topics-mcp-server.ts) and the panels on the rows.           *)
(*                                                                         *)
(* A command the mode of the session does not cover asks by short polls    *)
(* (legs).  A leg opens the request, paints its panel on the row that      *)
(* carries the tool and waits; a press closes the request and resolves the *)
(* leg, or waits in a buffer for the next one.  Several commands of a turn *)
(* ask at once, each under its own key.  A row whose tools are not yet in  *)
(* its blocks is found by the tool's name when the id is on no row; the    *)
(* match is then written as an alias.                                      *)
(*                                                                         *)
(* A handler is one step: nothing in it awaits before its leg waits.       *)
(***************************************************************************)
EXTENDS Naturals, FiniteSets

CONSTANTS
  Call,        \* the commands of the turn, by tool_use_id
  NoCall,      \* no command
  Tool(_),     \* the tool of a command
  Late,        \* commands whose row may land after their request
  Plain,       \* commands whose row keeps its tools in tool_calls, no blocks
  MaxFaults    \* bound: legs lost or late, and restarts of the server, in all

ASSUME CallNames == NoCall \notin Call
ASSUME PermitBounds ==
  MaxFaults \in Nat /\ Late \subseteq Call /\ Plain \subseteq Call

Tools == {Tool(c) : c \in Call}
Decision == {"allow", "allow_always", "deny"}   \* what goes back to the CLI
Press == Decision \cup {"allow_free"}

VARIABLES
  \* The turn and its rows
  turn,      \* live, ended
  row,       \* the tool of each command: absent, running, awaiting, ended
  panel,     \* the command whose request the row shows
  \* The asking side
  asking,    \* commands whose bridge is polling
  result,    \* what the CLI got: none, a decision, gone (the child died)
  \* The bridge of the server, in memory
  open,      \* activeRequests
  old,       \* those past their time to live
  leg,       \* waiters: none, waiting, dead (its connection is lost)
  buffer,    \* decisions for the next leg
  alias,     \* the request a row answers for
  held,      \* the last phase announced to who watches the session
  \* On disk
  grants,    \* tools a rule allows
  free,      \* the session asks no more: no, panel, composer (who said so)
  \* Counters, and bookkeeping that is not in the code
  faults,
  said,      \* the last decision a press gave each request
  saw,       \* the request the pressed panel showed
  lost,      \* decisions that had nobody to go to
  gaveUp,    \* commands whose bridge stopped polling by itself
  overtaken, \* open requests that a rule, or the composer, answered
  borrowed   \* commands that showed a request on another's row, and those rows

rowVars   == <<turn, row, panel>>
askVars   == <<asking, result>>
memVars   == <<open, old, leg, buffer, alias, held>>
diskVars  == <<grants, free>>
countVars == <<faults>>
ghostVars == <<said, saw, lost, gaveUp, overtaken, borrowed>>
vars == <<rowVars, askVars, memVars, diskVars, countVars, ghostVars>>

Init ==
  /\ turn = "live" /\ row = [c \in Call |-> "absent"] /\ panel = [c \in Call |-> NoCall]
  /\ asking = {} /\ result = [c \in Call |-> "none"]
  /\ open = {} /\ old = {} /\ leg = [c \in Call |-> "none"]
  /\ buffer = [c \in Call |-> "none"] /\ alias = [c \in Call |-> NoCall] /\ held = FALSE
  /\ grants = {} /\ free = "no" /\ faults = 0
  /\ said = [c \in Call |-> "none"] /\ saw = [c \in Call |-> NoCall]
  /\ lost = {} /\ gaveUp = {} /\ overtaken = {} /\ borrowed = {}

-----------------------------------------------------------------------------
(* Helpers *)

\* A mistake kept for checking: the clock of a closed request runs on.
ClosesKeepingClock(S) ==
  /\ open' = open \ S /\ UNCHANGED old
  /\ held' = IF S \cap open # {} /\ open \subseteq S THEN FALSE ELSE held

\* The set of open requests changes: the first one announces the hold, the last
\* one to go releases it.
Opens(c) ==
  /\ open' = open \cup {c} /\ UNCHANGED old
  /\ held' = IF open = {} THEN TRUE ELSE held
Closes(S) ==
  /\ open' = open \ S /\ old' = old \ S
  /\ held' = IF S \cap open # {} /\ open \subseteq S THEN FALSE ELSE held

\* The CLI is answered: its bridge polls no more for this command.
Answered(c, d) == asking' = asking \ {c} /\ result' = [result EXCEPT ![c] = d]

\* deliverDecision for the requests S, with the decision of each: to the leg that
\* waits, into a leg nobody reads any more, or into the buffer.  endPermission drops
\* the aliases of what it closes.
Delivered(S, d) ==
  /\ Closes(S)
  /\ alias' = [r \in Call |-> IF alias[r] \in S THEN NoCall ELSE alias[r]]
  /\ LET heard == {c \in S : leg[c] = "waiting"} IN
       /\ asking' = asking \ heard
       /\ result' = [c \in Call |-> IF c \in heard THEN d[c] ELSE result[c]]
       /\ leg' = [c \in Call |-> IF c \in S THEN "none" ELSE leg[c]]
       /\ buffer' = [c \in Call |-> IF c \in S /\ leg[c] = "none" THEN d[c] ELSE buffer[c]]
       /\ lost' = (lost \ S) \cup {c \in S : leg[c] = "dead"}
  /\ said' = [c \in Call |-> IF c \in S THEN d[c] ELSE said[c]]

\* A mistake kept for checking: with one request open, every press is for it.
ResolvedAlone(r) ==
  IF r \in open THEN r
  ELSE IF Cardinality(open) = 1 THEN CHOOSE c \in Call : c \in open ELSE NoCall

\* resolvePendingPermission: the request that a press on this row is about.
Resolved(r) ==
  IF r \in open THEN r ELSE IF alias[r] \in open THEN alias[r] ELSE NoCall

Covered(c) == Tool(c) \in grants \/ free # "no"

\* decidePermissionPaint: where to look when the id of the command is on no row.
ByName(c) ==
  {r \in Plain : row[c] = "absent" /\ row[r] = "running" /\ Tool(r) = Tool(c)}

\* A leg is sent when the one before it came back, or was lost.
Polls(c) == c \in asking /\ leg[c] # "waiting"

-----------------------------------------------------------------------------
(* The turn *)

\* The row of a tool is written as the stream announces it.
RowLands(c) ==
  /\ turn = "live" /\ row[c] = "absent" /\ result[c] = "none"
  /\ row' = [row EXCEPT ![c] = "running"]
  /\ UNCHANGED <<turn, panel, askVars, memVars, diskVars, countVars, ghostVars>>

\* The CLI asks before it runs a command.
Asks(c) ==
  /\ turn = "live" /\ c \notin asking /\ result[c] = "none"
  /\ row[c] = "running" \/ (c \in Late /\ row[c] = "absent")
  /\ asking' = asking \cup {c}
  /\ UNCHANGED <<rowVars, result, memVars, diskVars, countVars, ghostVars>>

\* The live timeline writes its own copy of the row over the painted panel.
PaintOverwritten(c) ==
  /\ turn = "live" /\ row[c] = "awaiting"
  /\ row' = [row EXCEPT ![c] = "running"] /\ panel' = [panel EXCEPT ![c] = NoCall]
  /\ UNCHANGED <<turn, askVars, memVars, diskVars, countVars, ghostVars>>

\* The command, allowed or denied, returns.
ToolReturns(c) ==
  /\ result[c] \in Decision /\ row[c] \in {"running", "awaiting"}
  /\ row' = [row EXCEPT ![c] = "ended"] /\ panel' = [panel EXCEPT ![c] = NoCall]
  /\ UNCHANGED <<turn, askVars, memVars, diskVars, countVars, ghostVars>>

-----------------------------------------------------------------------------
(* A leg *)

\* The person already decided: that word first, before any rule.
LegReadsBuffer(c) ==
  /\ Polls(c) /\ buffer[c] # "none"
  /\ buffer' = [buffer EXCEPT ![c] = "none"] /\ Answered(c, buffer[c])
  /\ UNCHANGED <<rowVars, open, old, leg, alias, held, diskVars, countVars, ghostVars>>

\* A mistake kept for checking: the rules are read before the buffer.
LegCoveredFirst(c) ==
  /\ Polls(c) /\ Covered(c)
  /\ Answered(c, "allow")
  /\ UNCHANGED overtaken
  /\ UNCHANGED <<rowVars, memVars, diskVars, countVars, said, saw, lost, gaveUp, borrowed>>

\* A rule, or a session that asks no more, answers.
LegCovered(c) ==
  /\ Polls(c) /\ buffer[c] = "none" /\ Covered(c)
  /\ Answered(c, "allow")
  /\ overtaken' = overtaken \cup
       {o \in {c} \cap open : Tool(c) \in grants \/ free = "composer"}
  /\ UNCHANGED <<rowVars, memVars, diskVars, countVars, said, saw, lost, gaveUp, borrowed>>

\* A mistake kept for checking: nobody hears that the hold is over.
LegRefusedQuietly(c) ==
  /\ Polls(c) /\ buffer[c] = "none" /\ ~Covered(c) /\ c \in open
  /\ c \in old \/ (row[c] = "absent" /\ ByName(c) = {})
  /\ open' = open \ {c} /\ old' = old \ {c} /\ leg' = [leg EXCEPT ![c] = "none"]
  /\ Answered(c, "deny")
  /\ UNCHANGED <<rowVars, buffer, alias, held, diskVars, countVars, ghostVars>>

\* cancelPermission: the request expired, or no row has announced the tool for the
\* fifteen seconds of grace.
LegRefused(c) ==
  /\ Polls(c) /\ buffer[c] = "none" /\ ~Covered(c) /\ c \in open
  /\ c \in old \/ (row[c] = "absent" /\ ByName(c) = {})
  /\ Closes({c}) /\ leg' = [leg EXCEPT ![c] = "none"] /\ Answered(c, "deny")
  /\ UNCHANGED <<rowVars, buffer, alias, diskVars, countVars, ghostVars>>

\* A mistake kept for checking: nobody looks at how long the request is open.
LegWaitsForever(c) ==
  /\ Polls(c) /\ buffer[c] = "none" /\ ~Covered(c)
  /\ Opens(c) /\ leg' = [leg EXCEPT ![c] = "waiting"]
  /\ UNCHANGED <<rowVars, askVars, buffer, alias, diskVars, countVars, ghostVars>>

\* The request is opened if it was not, its panel painted where it is not, and the
\* leg waits; a leg still registered is superseded.
LegWaits(c) ==
  /\ Polls(c) /\ buffer[c] = "none" /\ ~Covered(c) /\ c \notin old
  /\ Opens(c) /\ leg' = [leg EXCEPT ![c] = "waiting"]
  /\ \/ /\ row[c] # "absent"
        /\ row' = [row EXCEPT ![c] = "awaiting"]
        /\ panel' = IF row[c] = "awaiting" THEN panel ELSE [panel EXCEPT ![c] = c]
        /\ UNCHANGED <<alias, borrowed>>
     \/ \E r \in ByName(c) :
          /\ row' = [row EXCEPT ![r] = "awaiting"] /\ panel' = [panel EXCEPT ![r] = c]
          /\ alias' = [alias EXCEPT ![r] = c] /\ borrowed' = borrowed \cup {r, c}
     \/ /\ row[c] = "absent" /\ ByName(c) = {}
        /\ UNCHANGED <<row, panel, alias, borrowed>>
  /\ UNCHANGED <<turn, askVars, buffer, diskVars, countVars, said, saw, lost, gaveUp, overtaken>>

\* The leg comes back with nothing, or nobody reads it any more and its timer ends it.
LegEnds(c) ==
  /\ leg[c] # "none"
  /\ leg' = [leg EXCEPT ![c] = "none"]
  /\ UNCHANGED <<rowVars, askVars, open, old, buffer, alias, held, diskVars, countVars, ghostVars>>

\* The connection of a leg is lost: the server does not notice.
LegDrops(c) ==
  /\ leg[c] = "waiting" /\ faults < MaxFaults
  /\ leg' = [leg EXCEPT ![c] = "dead"] /\ faults' = faults + 1
  /\ UNCHANGED <<rowVars, askVars, open, old, buffer, alias, held, diskVars, ghostVars>>

\* Ninety seconds without an answer of the server: the bridge says no.
GivesUp(c) ==
  /\ Polls(c)
  /\ Answered(c, "deny") /\ gaveUp' = gaveUp \cup {c}
  /\ UNCHANGED <<rowVars, memVars, diskVars, countVars, said, saw, lost, overtaken, borrowed>>

-----------------------------------------------------------------------------
(* The person *)

\* A mistake kept for checking: set free, the other requests stay open.
PressedFreeAlone(r, d) ==
  /\ row[r] = "awaiting" /\ panel[r] # NoCall /\ Resolved(r) # NoCall
  /\ LET c == Resolved(r)
         given == [x \in Call |-> IF d = "allow_free" THEN "allow" ELSE d] IN
       Delivered({c}, given) /\ saw' = [saw EXCEPT ![c] = panel[r]]
  /\ row' = [row EXCEPT ![r] = "running"] /\ panel' = [panel EXCEPT ![r] = NoCall]
  /\ grants' = IF d = "allow_always" THEN grants \cup {Tool(r)} ELSE grants
  /\ free' = IF d = "allow_free" THEN "panel" ELSE free
  /\ UNCHANGED <<turn, countVars, gaveUp, overtaken, borrowed>>

\* A press on the panel of a row.  409 when no request stands behind it.
\* allow_always writes the rule of the row's tool; allow_free sets the session free
\* and allows whatever else is open.
Pressed(r, d) ==
  /\ row[r] = "awaiting" /\ panel[r] # NoCall /\ Resolved(r) # NoCall
  /\ LET c == Resolved(r)
         S == IF d = "allow_free" THEN open ELSE {c}
         given == [x \in Call |-> IF d = "allow_free" THEN "allow" ELSE d]
         shown == S \cup {x \in Call : alias[x] \in S} \cup {r} IN
       /\ Delivered(S, given)
       /\ saw' = [x \in Call |-> IF x = c THEN panel[r] ELSE IF x \in S THEN x ELSE saw[x]]
       /\ row' = [x \in Call |-> IF x \in (IF d = "allow_free" THEN shown ELSE {r})
                                    /\ row[x] # "absent" THEN "running" ELSE row[x]]
       /\ panel' = [x \in Call |-> IF row'[x] = "awaiting" THEN panel[x] ELSE NoCall]
  /\ grants' = IF d = "allow_always" THEN grants \cup {Tool(r)} ELSE grants
  /\ free' = IF d = "allow_free" THEN "panel" ELSE free
  /\ UNCHANGED <<turn, countVars, gaveUp, overtaken, borrowed>>

\* The level of the session is changed from the composer: no request is closed.
FreedElsewhere ==
  /\ free = "no" /\ free' = "composer"
  /\ UNCHANGED <<rowVars, askVars, memVars, grants, countVars, ghostVars>>

-----------------------------------------------------------------------------
(* Time, ends and restarts *)

TtlPasses(c) ==
  /\ c \in open \ old /\ old' = old \cup {c}
  /\ UNCHANGED <<rowVars, askVars, open, leg, buffer, alias, held, diskVars, countVars, ghostVars>>

\* Thirty seconds: at once when nobody asks any more, else a leg was that late.
BufferExpires(c) ==
  /\ buffer[c] # "none"
  /\ IF c \in asking THEN faults < MaxFaults /\ faults' = faults + 1 ELSE UNCHANGED faults
  /\ buffer' = [buffer EXCEPT ![c] = "none"] /\ lost' = lost \cup {c}
  /\ UNCHANGED <<rowVars, askVars, open, old, leg, alias, held, diskVars, said, saw,
                 gaveUp, overtaken, borrowed>>

\* cancelPermissionsForSession: every open request ends, its leg is told.
CancelledAll ==
  LET told == {c \in open : leg[c] = "waiting"} IN
  /\ Closes(open)
  /\ leg' = [c \in Call |-> IF c \in open THEN "none" ELSE leg[c]]
  /\ buffer' = [c \in Call |-> IF c \in open THEN "none" ELSE buffer[c]]
  /\ asking' = asking \ told
  /\ result' = [c \in Call |-> IF c \in told THEN "deny" ELSE result[c]]

RowsEnd ==
  /\ row' = [c \in Call |-> IF row[c] = "absent" THEN "absent" ELSE "ended"]
  /\ panel' = [c \in Call |-> NoCall]

\* endStream: the rows close, and a panel found on them ends every request.
TurnEnds ==
  /\ turn = "live" /\ turn' = "ended" /\ RowsEnd
  /\ IF \E c \in Call : row[c] = "awaiting" THEN CancelledAll
     ELSE UNCHANGED <<askVars, open, old, leg, buffer, held>>
  /\ UNCHANGED <<alias, diskVars, countVars, ghostVars>>

\* Stop: every request ends first.
Stopped ==
  /\ turn = "live" /\ turn' = "ended" /\ RowsEnd /\ CancelledAll
  /\ UNCHANGED <<alias, diskVars, countVars, ghostVars>>

\* The child dies with its bridges: their legs have no reader.
ChildDies ==
  /\ asking # {} /\ asking' = {}
  /\ result' = [c \in Call |-> IF c \in asking THEN "gone" ELSE result[c]]
  /\ leg' = [c \in Call |-> IF leg[c] = "waiting" THEN "dead" ELSE leg[c]]
  /\ UNCHANGED <<rowVars, open, old, buffer, alias, held, diskVars, countVars, ghostVars>>

\* A restart around a child that survives: memory is lost, and the boot closes the
\* panels that wait for a permission.
Restart ==
  /\ faults < MaxFaults /\ faults' = faults + 1
  /\ open' = {} /\ old' = {} /\ leg' = [c \in Call |-> "none"]
  /\ buffer' = [c \in Call |-> "none"] /\ alias' = [c \in Call |-> NoCall] /\ held' = FALSE
  /\ lost' = lost \cup {c \in Call : buffer[c] # "none"}
  /\ row' = [c \in Call |-> IF row[c] = "awaiting" THEN "ended" ELSE row[c]]
  /\ panel' = [c \in Call |-> NoCall]
  /\ UNCHANGED <<turn, askVars, diskVars, said, saw, gaveUp, overtaken, borrowed>>

-----------------------------------------------------------------------------

Leg(c) == LegReadsBuffer(c) \/ LegCovered(c) \/ LegRefused(c) \/ LegWaits(c)

Commands ==
  \E c \in Call :
    \/ RowLands(c) \/ Asks(c) \/ PaintOverwritten(c) \/ ToolReturns(c)
    \/ Leg(c) \/ LegEnds(c) \/ LegDrops(c) \/ GivesUp(c)
    \/ TtlPasses(c) \/ BufferExpires(c)

Next ==
  \/ Commands
  \/ \E r \in Call, d \in Press : Pressed(r, d)
  \/ FreedElsewhere \/ TurnEnds \/ Stopped \/ ChildDies \/ Restart

\* A bridge polls as long as it is not answered, a leg ends by its timer, and two
\* hours pass.  No person has to press.
Fairness ==
  \A c \in Call : WF_vars(Leg(c)) /\ WF_vars(LegEnds(c)) /\ WF_vars(TtlPasses(c))

Spec == Init /\ [][Next]_vars /\ Fairness

-----------------------------------------------------------------------------
(* Properties *)

RowTypes ==
  /\ turn \in {"live", "ended"} /\ row \in [Call -> {"absent", "running", "awaiting", "ended"}]
  /\ panel \in [Call -> Call \cup {NoCall}]
AskTypes ==
  asking \subseteq Call /\ result \in [Call -> Decision \cup {"none", "gone"}]
MemTypes ==
  /\ open \subseteq Call /\ old \subseteq open
  /\ leg \in [Call -> {"none", "waiting", "dead"}]
  /\ buffer \in [Call -> Decision \cup {"none"}]
  /\ alias \in [Call -> Call \cup {NoCall}] /\ held \in BOOLEAN
DiskTypes == grants \subseteq Tools /\ free \in {"no", "panel", "composer"}
CountTypes == faults \in 0..MaxFaults
GhostTypes ==
  /\ said \in [Call -> Decision \cup {"none"}] /\ saw \in [Call -> Call \cup {NoCall}]
  /\ lost \subseteq Call /\ gaveUp \subseteq Call
  /\ overtaken \subseteq Call /\ borrowed \subseteq Call

(* The shapes of the variables; a request past its time to live is an open one,  *)
(* and a leg is only sent for a command that waits.                              *)
TypeOK ==
  RowTypes /\ AskTypes /\ MemTypes /\ DiskTypes /\ CountTypes /\ GhostTypes

(* Who watches the session reads that it waits for a person exactly while a      *)
(* request is open, whichever of the exits the last request took.                *)
HoldIsAnnounced == held = (open # {})

(* What the person said to a request is what the CLI gets for it, not what a     *)
(* rule, written meanwhile by the same press or by another, would have said:     *)
(* unless it had nobody to go to (a dead connection, thirty seconds without a    *)
(* leg, a restart), the bridge had stopped asking, or the answer had already gone *)
(* when the person pressed.                                                      *)
ThePersonDecides ==
  \A c \in Call \ (lost \cup gaveUp \cup overtaken) :
    said[c] # "none" /\ result[c] \in Decision => result[c] = said[c]

(* A yes reaches only the command whose request the pressed panel showed.  A row *)
(* that a search by name lent to another command is the exception (README,       *)
(* section 6).                                                                   *)
YesIsItsOwn ==
  \A c \in Call \ borrowed : said[c] # "none" => saw[c] = c

(* The same of every command: a correspondence that is written down guesses      *)
(* nothing.  The code breaks it: the alias of a borrowed row gives way to the    *)
(* row's own request, while the panel on the row still shows the other's.        *)
YesIsAlwaysItsOwn ==
  \A c \in Call : said[c] # "none" => saw[c] = c

(* A request that is open has a command that waits for it: when a press sets the *)
(* session free, no request is left behind to hold the turn for two hours.  Only *)
(* a rule or the composer overtakes an open request, or a bridge that gave up or *)
(* died leaves it.                                                               *)
OpenIsAwaited ==
  \A c \in open \ (overtaken \cup gaveUp) : result[c] \in {"none", "gone"}

(* A command that asks gets an answer, if nobody ever presses and whatever       *)
(* happens to its legs, its row, its turn and the server.                        *)
AskedIsAnswered == \A c \in Call : c \in asking ~> c \notin asking
=============================================================================
