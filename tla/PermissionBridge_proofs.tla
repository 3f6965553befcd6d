----------------------- MODULE PermissionBridge_proofs -----------------------
(***************************************************************************)
(* Proofs about PermissionBridge, for any commands, tools, rows and number *)
(* of faults: the shapes of the variables, and that the person decides.    *)
(***************************************************************************)
EXTENDS PermissionBridge, TLAPS

USE CallNames, PermitBounds
USE DEF RowTypes, AskTypes, MemTypes, DiskTypes, CountTypes, GhostTypes, Decision, Press, Tools
USE DEF rowVars, askVars, memVars, diskVars, countVars, ghostVars

\* A leg that waits is of an open request whose command asks.
WaitingLegs == \A c \in Call : leg[c] = "waiting" => c \in open /\ c \in asking

\* A command is answered once; before it asks nobody opened its request.
AskingIsUnanswered == \A c \in asking : result[c] = "none"
OpenHasAsked == \A c \in open : c \in asking \/ result[c] # "none"

\* A decision on its way is the last one said, of a request that closed.
BufferedIsSaid ==
  \A c \in Call : buffer[c] # "none" => buffer[c] = said[c] /\ c \notin open

\* A session set free by its panel has no open request.
FreedHasNoneOpen == free = "panel" => open = {}

\* A request whose decision had a way to go is closed, and its command waits only as
\* long as the decision is on its way.
DecidedIsDone ==
  \A c \in Call \ (lost \cup gaveUp \cup overtaken) :
    said[c] # "none" =>
      /\ c \notin open
      /\ c \in asking => buffer[c] # "none"
      /\ c \notin asking => result[c] # "none"

\* What a row shows, and whom it answers for, unless a search by name lent it.
RowsShowTheirOwn ==
  \A r \in Call :
    /\ panel[r] # NoCall /\ r \notin borrowed => panel[r] = r
    /\ alias[r] # NoCall => alias[r] \in borrowed

Requests == HoldIsAnnounced /\ WaitingLegs /\ AskingIsUnanswered /\ OpenHasAsked
Decisions ==
  /\ BufferedIsSaid /\ FreedHasNoneOpen /\ DecidedIsDone
  /\ ThePersonDecides /\ OpenIsAwaited
Panels == RowsShowTheirOwn /\ YesIsItsOwn

IInv == TypeOK /\ Requests /\ Decisions /\ Panels

-----------------------------------------------------------------------------
(* Every step keeps the invariant *)

LEMMA Starts == Init => IInv
<1> SUFFICES ASSUME Init PROVE IInv
  OBVIOUS
<1> USE DEF Init
<1>1. RowTypes /\ AskTypes /\ DiskTypes /\ CountTypes /\ GhostTypes
  OBVIOUS
<1>2. MemTypes
  OBVIOUS
<1>3. Requests
  BY DEF Requests, HoldIsAnnounced, WaitingLegs, AskingIsUnanswered, OpenHasAsked
<1>4. Decisions
  BY DEF Decisions, BufferedIsSaid, FreedHasNoneOpen, DecidedIsDone, ThePersonDecides,
         OpenIsAwaited
<1>5. Panels
  BY DEF Panels, RowsShowTheirOwn, YesIsItsOwn
<1> QED
  BY <1>1, <1>2, <1>3, <1>4, <1>5 DEF IInv, TypeOK

LEMMA RowStepKeeps ==
  ASSUME IInv, NEW c \in Call, RowLands(c) \/ PaintOverwritten(c) \/ ToolReturns(c)
  PROVE  IInv'
<1> USE DEF RowLands, PaintOverwritten, ToolReturns
<1>1. TypeOK'
  BY DEF IInv, TypeOK
<1>2. Requests'
  BY DEF IInv, TypeOK, Requests, HoldIsAnnounced, WaitingLegs, AskingIsUnanswered,
         OpenHasAsked
<1>3. Decisions'
  BY DEF IInv, TypeOK, Requests, WaitingLegs, AskingIsUnanswered, OpenHasAsked,
         Decisions, BufferedIsSaid, FreedHasNoneOpen, DecidedIsDone, ThePersonDecides, OpenIsAwaited
<1>4. Panels'
  BY DEF IInv, TypeOK, Panels, RowsShowTheirOwn, YesIsItsOwn
<1> QED
  BY <1>1, <1>2, <1>3, <1>4 DEF IInv

LEMMA AsksKeeps ==
  ASSUME IInv, NEW c \in Call, Asks(c)
  PROVE  IInv'
<1> USE DEF Asks
<1>1. TypeOK'
  BY DEF IInv, TypeOK
<1>2. Requests'
  BY DEF IInv, TypeOK, Requests, HoldIsAnnounced, WaitingLegs, AskingIsUnanswered,
         OpenHasAsked
<1>3. Decisions'
  BY DEF IInv, TypeOK, Requests, WaitingLegs, AskingIsUnanswered, OpenHasAsked,
         Decisions, BufferedIsSaid, FreedHasNoneOpen, DecidedIsDone, ThePersonDecides, OpenIsAwaited
<1>4. Panels'
  BY DEF IInv, TypeOK, Panels, RowsShowTheirOwn, YesIsItsOwn
<1> QED
  BY <1>1, <1>2, <1>3, <1>4 DEF IInv

LEMMA AnswerStepKeeps ==
  ASSUME IInv, NEW c \in Call,
         LegReadsBuffer(c) \/ LegCovered(c) \/ LegRefused(c) \/ GivesUp(c)
  PROVE  IInv'
<1> USE DEF Polls, Answered
<1>1. CASE LegReadsBuffer(c)
  <2> USE <1>1 DEF LegReadsBuffer
  <2>1. TypeOK'
    BY DEF IInv, TypeOK
  <2>2. Requests'
    BY DEF IInv, TypeOK, Requests, HoldIsAnnounced, WaitingLegs, AskingIsUnanswered,
           OpenHasAsked
  <2>3. Decisions'
    BY DEF IInv, TypeOK, Requests, WaitingLegs, AskingIsUnanswered, OpenHasAsked,
           Decisions, BufferedIsSaid, FreedHasNoneOpen, DecidedIsDone, ThePersonDecides, OpenIsAwaited
  <2>4. Panels'
    BY DEF IInv, TypeOK, Panels, RowsShowTheirOwn, YesIsItsOwn
  <2> QED
    BY <2>1, <2>2, <2>3, <2>4 DEF IInv
<1>2. CASE LegCovered(c)
  <2> USE <1>2 DEF LegCovered, Covered
  <2>1. TypeOK'
    BY DEF IInv, TypeOK
  <2>2. Requests'
    BY DEF IInv, TypeOK, Requests, HoldIsAnnounced, WaitingLegs, AskingIsUnanswered,
           OpenHasAsked
  <2>3. Decisions'
    BY DEF IInv, TypeOK, Requests, WaitingLegs, AskingIsUnanswered, OpenHasAsked,
           Decisions, BufferedIsSaid, FreedHasNoneOpen, DecidedIsDone, ThePersonDecides, OpenIsAwaited
  <2>4. Panels'
    BY DEF IInv, TypeOK, Panels, RowsShowTheirOwn, YesIsItsOwn
  <2> QED
    BY <2>1, <2>2, <2>3, <2>4 DEF IInv
<1>3. CASE LegRefused(c)
  <2> USE <1>3 DEF LegRefused, Closes
  <2>1. TypeOK'
    BY DEF IInv, TypeOK
  <2>2. Requests'
    BY DEF IInv, TypeOK, Requests, HoldIsAnnounced, WaitingLegs, AskingIsUnanswered,
           OpenHasAsked
  <2>3. Decisions'
    BY DEF IInv, TypeOK, Requests, WaitingLegs, AskingIsUnanswered, OpenHasAsked,
           Decisions, BufferedIsSaid, FreedHasNoneOpen, DecidedIsDone, ThePersonDecides, OpenIsAwaited
  <2>4. Panels'
    BY DEF IInv, TypeOK, Panels, RowsShowTheirOwn, YesIsItsOwn
  <2> QED
    BY <2>1, <2>2, <2>3, <2>4 DEF IInv
<1>4. CASE GivesUp(c)
  <2> USE <1>4 DEF GivesUp
  <2>1. TypeOK'
    BY DEF IInv, TypeOK
  <2>2. Requests'
    BY DEF IInv, TypeOK, Requests, HoldIsAnnounced, WaitingLegs, AskingIsUnanswered,
           OpenHasAsked
  <2>3. Decisions'
    BY DEF IInv, TypeOK, Requests, WaitingLegs, AskingIsUnanswered, OpenHasAsked,
           Decisions, BufferedIsSaid, FreedHasNoneOpen, DecidedIsDone, ThePersonDecides, OpenIsAwaited
  <2>4. Panels'
    BY DEF IInv, TypeOK, Panels, RowsShowTheirOwn, YesIsItsOwn
  <2> QED
    BY <2>1, <2>2, <2>3, <2>4 DEF IInv
<1> QED
  BY <1>1, <1>2, <1>3, <1>4

LEMMA LegWaitsKeeps ==
  ASSUME IInv, NEW c \in Call, LegWaits(c)
  PROVE  IInv'
<1> USE DEF LegWaits, Polls, Opens, ByName, Covered
<1>1. TypeOK'
  <2>1. AskTypes' /\ DiskTypes' /\ CountTypes' /\ GhostTypes'
    BY DEF IInv, TypeOK
  <2>2. RowTypes'
    BY DEF IInv, TypeOK
  <2>3. held' \in BOOLEAN
    BY DEF IInv, TypeOK
  <2>4. alias' \in [Call -> Call \cup {NoCall}]
    BY DEF IInv, TypeOK
  <2>5. MemTypes'
    BY <2>3, <2>4 DEF IInv, TypeOK
  <2> QED
    BY <2>1, <2>2, <2>5 DEF TypeOK
<1>2. Requests'
  BY DEF IInv, TypeOK, Requests, HoldIsAnnounced, WaitingLegs, AskingIsUnanswered,
         OpenHasAsked
<1>3. Decisions'
  BY DEF IInv, TypeOK, Requests, WaitingLegs, AskingIsUnanswered, OpenHasAsked,
         Decisions, BufferedIsSaid, FreedHasNoneOpen, DecidedIsDone, ThePersonDecides, OpenIsAwaited
<1>4. Panels'
  BY DEF IInv, TypeOK, Panels, RowsShowTheirOwn, YesIsItsOwn
<1> QED
  BY <1>1, <1>2, <1>3, <1>4 DEF IInv

LEMMA TimerStepKeeps ==
  ASSUME IInv, NEW c \in Call, LegEnds(c) \/ LegDrops(c) \/ TtlPasses(c) \/ BufferExpires(c)
  PROVE  IInv'
<1> USE DEF LegEnds, LegDrops, TtlPasses, BufferExpires
<1>1. TypeOK'
  BY DEF IInv, TypeOK
<1>2. Requests'
  BY DEF IInv, TypeOK, Requests, HoldIsAnnounced, WaitingLegs, AskingIsUnanswered,
         OpenHasAsked
<1>3. Decisions'
  BY DEF IInv, TypeOK, Requests, WaitingLegs, AskingIsUnanswered, OpenHasAsked,
         Decisions, BufferedIsSaid, FreedHasNoneOpen, DecidedIsDone, ThePersonDecides, OpenIsAwaited
<1>4. Panels'
  BY DEF IInv, TypeOK, Panels, RowsShowTheirOwn, YesIsItsOwn
<1> QED
  BY <1>1, <1>2, <1>3, <1>4 DEF IInv

LEMMA PressedKeeps ==
  ASSUME IInv, NEW r \in Call, NEW d \in Press, Pressed(r, d)
  PROVE  IInv'
<1> USE DEF Pressed, Resolved, Delivered, Closes
<1>1. TypeOK'
  BY DEF IInv, TypeOK
<1>2. Requests'
  BY DEF IInv, TypeOK, Requests, HoldIsAnnounced, WaitingLegs, AskingIsUnanswered,
         OpenHasAsked
<1>3. Decisions'
  BY DEF IInv, TypeOK, Requests, WaitingLegs, AskingIsUnanswered, OpenHasAsked,
         Decisions, BufferedIsSaid, FreedHasNoneOpen, DecidedIsDone, ThePersonDecides, OpenIsAwaited
<1>4. Panels'
  BY DEF IInv, TypeOK, Panels, RowsShowTheirOwn, YesIsItsOwn
<1> QED
  BY <1>1, <1>2, <1>3, <1>4 DEF IInv

LEMMA FreedElsewhereKeeps ==
  ASSUME IInv, FreedElsewhere
  PROVE  IInv'
<1> USE DEF FreedElsewhere
<1>1. TypeOK'
  BY DEF IInv, TypeOK
<1>2. Requests'
  BY DEF IInv, TypeOK, Requests, HoldIsAnnounced, WaitingLegs, AskingIsUnanswered,
         OpenHasAsked
<1>3. Decisions'
  BY DEF IInv, TypeOK, Requests, WaitingLegs, AskingIsUnanswered, OpenHasAsked,
         Decisions, BufferedIsSaid, FreedHasNoneOpen, DecidedIsDone, ThePersonDecides, OpenIsAwaited
<1>4. Panels'
  BY DEF IInv, TypeOK, Panels, RowsShowTheirOwn, YesIsItsOwn
<1> QED
  BY <1>1, <1>2, <1>3, <1>4 DEF IInv

\* The end of a turn: either every request ends with it, or none is touched.
LEMMA CancelledShape ==
  ASSUME IInv, CancelledAll
  PROVE  /\ open' = {} /\ old' = {} /\ held' = FALSE
         /\ leg' \in [Call -> {"none", "waiting", "dead"}]
         /\ buffer' \in [Call -> Decision \cup {"none"}]
         /\ result' \in [Call -> Decision \cup {"none", "gone"}]
         /\ asking' \subseteq Call
         /\ \A c \in Call :
              /\ leg'[c] = IF c \in open THEN "none" ELSE leg[c]
              /\ buffer'[c] = IF c \in open THEN "none" ELSE buffer[c]
              /\ c \in asking' <=> c \in asking /\ leg[c] # "waiting"
              /\ leg[c] = "waiting" => c \in open /\ c \in asking
              /\ result'[c] = IF leg[c] = "waiting" THEN "deny" ELSE result[c]
BY DEF CancelledAll, Closes, IInv, TypeOK, Requests, HoldIsAnnounced, WaitingLegs

LEMMA TurnEndKeeps ==
  ASSUME IInv, TurnEnds \/ Stopped
  PROVE  IInv'
<1> USE DEF RowsEnd
<1>1. RowTypes' /\ DiskTypes' /\ CountTypes' /\ GhostTypes'
  BY DEF TurnEnds, Stopped, IInv, TypeOK
<1>2. Panels'
  BY DEF TurnEnds, Stopped, IInv, TypeOK, Panels, RowsShowTheirOwn, YesIsItsOwn
<1>3. CASE CancelledAll
  <2>1. UNCHANGED <<alias, diskVars, countVars, ghostVars>>
    BY DEF TurnEnds, Stopped
  <2>2. AskTypes' /\ MemTypes'
    BY <1>3, <2>1, CancelledShape DEF IInv, TypeOK
  <2>3. Requests'
    BY <1>3, <2>1, CancelledShape
       DEF IInv, TypeOK, Requests, HoldIsAnnounced, WaitingLegs, AskingIsUnanswered, OpenHasAsked
  <2>4. BufferedIsSaid' /\ FreedHasNoneOpen'
    BY <1>3, <2>1, CancelledShape
       DEF IInv, TypeOK, Decisions, BufferedIsSaid, FreedHasNoneOpen
  <2>5. OpenIsAwaited'
    BY <1>3, CancelledShape DEF OpenIsAwaited
  <2>6. DecidedIsDone' /\ ThePersonDecides'
    <3> SUFFICES ASSUME NEW c \in Call \ (lost \cup gaveUp \cup overtaken), said[c] # "none"
                 PROVE  /\ c \notin open'
                        /\ c \in asking' => buffer'[c] # "none"
                        /\ c \notin asking' => result'[c] # "none"
                        /\ result'[c] \in Decision => result'[c] = said[c]
      BY <2>1 DEF DecidedIsDone, ThePersonDecides
    <3>1. c \notin open /\ leg[c] # "waiting"
      BY <1>3, CancelledShape DEF IInv, Decisions, DecidedIsDone
    <3> QED
      BY <1>3, <3>1, CancelledShape DEF IInv, Decisions, DecidedIsDone, ThePersonDecides
  <2>7. Decisions'
    BY <2>4, <2>5, <2>6 DEF Decisions
  <2> QED
    BY <1>1, <1>2, <2>2, <2>3, <2>7 DEF IInv, TypeOK
<1>4. CASE UNCHANGED <<askVars, memVars>>
  <2>1. UNCHANGED <<diskVars, countVars, ghostVars>>
    BY DEF TurnEnds, Stopped
  <2>2. AskTypes' /\ MemTypes' /\ Requests'
    BY <1>4 DEF IInv, TypeOK, Requests, HoldIsAnnounced, WaitingLegs, AskingIsUnanswered,
                OpenHasAsked
  <2>3. Decisions'
    BY <1>4, <2>1 DEF IInv, Decisions, BufferedIsSaid, FreedHasNoneOpen, DecidedIsDone,
                      ThePersonDecides, OpenIsAwaited
  <2> QED
    BY <1>1, <1>2, <2>2, <2>3 DEF IInv, TypeOK
<1> QED
  BY <1>3, <1>4 DEF TurnEnds, Stopped

LEMMA ChildDiesKeeps ==
  ASSUME IInv, ChildDies
  PROVE  IInv'
<1> USE DEF ChildDies
<1>1. TypeOK'
  BY DEF IInv, TypeOK
<1>2. Requests'
  BY DEF IInv, TypeOK, Requests, HoldIsAnnounced, WaitingLegs, AskingIsUnanswered,
         OpenHasAsked
<1>3. Decisions'
  BY DEF IInv, TypeOK, Requests, WaitingLegs, AskingIsUnanswered, OpenHasAsked,
         Decisions, BufferedIsSaid, FreedHasNoneOpen, DecidedIsDone, ThePersonDecides, OpenIsAwaited
<1>4. Panels'
  BY DEF IInv, TypeOK, Panels, RowsShowTheirOwn, YesIsItsOwn
<1> QED
  BY <1>1, <1>2, <1>3, <1>4 DEF IInv

LEMMA RestartKeeps ==
  ASSUME IInv, Restart
  PROVE  IInv'
<1> USE DEF Restart
<1>1. TypeOK'
  <2>1. AskTypes' /\ DiskTypes' /\ CountTypes' /\ RowTypes'
    BY DEF IInv, TypeOK
  <2>2. GhostTypes'
    BY DEF IInv, TypeOK
  <2>3. MemTypes'
    OBVIOUS
  <2> QED
    BY <2>1, <2>2, <2>3 DEF TypeOK
<1>2. Requests'
  BY DEF IInv, TypeOK, Requests, HoldIsAnnounced, WaitingLegs, AskingIsUnanswered,
         OpenHasAsked
<1>3. Decisions'
  BY DEF IInv, TypeOK, Requests, WaitingLegs, AskingIsUnanswered, OpenHasAsked,
         Decisions, BufferedIsSaid, FreedHasNoneOpen, DecidedIsDone, ThePersonDecides, OpenIsAwaited
<1>4. Panels'
  BY DEF IInv, TypeOK, Panels, RowsShowTheirOwn, YesIsItsOwn
<1> QED
  BY <1>1, <1>2, <1>3, <1>4 DEF IInv

LEMMA NextKeeps == IInv /\ [Next]_vars => IInv'
<1> SUFFICES ASSUME IInv, [Next]_vars PROVE IInv'
  OBVIOUS
<1>1. CASE UNCHANGED vars
  BY <1>1 DEF vars, IInv, TypeOK, Requests, HoldIsAnnounced, WaitingLegs, AskingIsUnanswered,
              OpenHasAsked, Decisions, BufferedIsSaid, FreedHasNoneOpen, DecidedIsDone,
              ThePersonDecides, OpenIsAwaited, Panels, RowsShowTheirOwn, YesIsItsOwn
<1>2. CASE Commands
  <2> SUFFICES ASSUME NEW c \in Call,
                      \/ RowLands(c) \/ Asks(c) \/ PaintOverwritten(c) \/ ToolReturns(c)
                      \/ Leg(c) \/ LegEnds(c) \/ LegDrops(c) \/ GivesUp(c)
                      \/ TtlPasses(c) \/ BufferExpires(c)
               PROVE  IInv'
    BY <1>2 DEF Commands
  <2> QED
    BY RowStepKeeps, AsksKeeps, AnswerStepKeeps, LegWaitsKeeps, TimerStepKeeps DEF Leg
<1>3. CASE \E r \in Call, d \in Press : Pressed(r, d)
  BY <1>3, PressedKeeps
<1>4. CASE FreedElsewhere \/ TurnEnds \/ Stopped \/ ChildDies \/ Restart
  BY <1>4, FreedElsewhereKeeps, TurnEndKeeps, ChildDiesKeeps, RestartKeeps
<1> QED
  BY <1>1, <1>2, <1>3, <1>4 DEF Next

LEMMA AlwaysIInv == Spec => []IInv
BY Starts, NextKeeps, PTL DEF Spec

-----------------------------------------------------------------------------
(* What follows *)

(* Every variable of the channel keeps its shape, for any commands of any tools. *)
THEOREM PermitShapesAreKept == Spec => []TypeOK
<1>1. IInv => TypeOK
  BY DEF IInv
<1> QED
  BY <1>1, AlwaysIInv, PTL

(* The session says that it waits for a person exactly while a request is open,  *)
(* whichever way the last request ended.                                         *)
THEOREM TheHoldIsTrue == Spec => []HoldIsAnnounced
<1>1. IInv => HoldIsAnnounced
  BY DEF IInv, Requests
<1> QED
  BY <1>1, AlwaysIInv, PTL

(* The CLI gets what the person said, also when the same press wrote a rule or   *)
(* set the session free before the next leg came.                                *)
THEOREM ThePersonIsObeyed == Spec => []ThePersonDecides
<1>1. IInv => ThePersonDecides
  BY DEF IInv, Decisions
<1> QED
  BY <1>1, AlwaysIInv, PTL

(* A yes is the yes to what its panel showed, unless a search by name lent a row.*)
THEOREM NoYesToAnother == Spec => []YesIsItsOwn
<1>1. IInv => YesIsItsOwn
  BY DEF IInv, Panels
<1> QED
  BY <1>1, AlwaysIInv, PTL

(* A press that sets the session free leaves no request open behind it.          *)
THEOREM NoRequestIsLeftOpen == Spec => []OpenIsAwaited
<1>1. IInv => OpenIsAwaited
  BY DEF IInv, Decisions
<1> QED
  BY <1>1, AlwaysIInv, PTL
=============================================================================
