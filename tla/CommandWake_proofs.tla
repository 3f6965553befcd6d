-------------------------- MODULE CommandWake_proofs --------------------------
(***************************************************************************)
(* Proofs about CommandWake, for any commands, copies and number of events: *)
(* the shapes of the variables, that a wake that is owed is in line once,   *)
(* and that an end is not told twice.                                       *)
(***************************************************************************)
EXTENDS CommandWake, QueueFacts, TLAPS

USE TurnNames, WakeBounds
USE DEF cmdVars, lineVars, waitVars, rowVars, chatVars, ghostVars

\* A row that is pruned owes nothing: the next boot does not know it.
GoneOwesNothing == \A c \in Command : row[c] = "gone" => ~wake[c]
Line == OwedIsInLine /\ GoneOwesNothing

\* What was read or stopped has ended or runs, and is not owed unless its row is out.
KnownIsSettled ==
  \A c \in read \cup chosen : row[c] # "none" /\ (wake[c] => sent[c] # "no")
\* The turn of a wake has the row of the wake.
TurnHasItsRow == turn \in Command => sent[turn] # "no"
Known == KnownIsSettled /\ TurnHasItsRow

IInv == TypeOK /\ Line /\ Known

-----------------------------------------------------------------------------
(* Shapes *)

LEMMA ShapeInit == Init => TypeOK
<1> SUFFICES ASSUME Init PROVE TypeOK
  OBVIOUS
<1>1. CommandTypes
  BY DEF Init, CommandTypes
<1>2. LineTypes
  <2>1. chain \in Seq(Command)
    BY DEF Init
  <2> QED BY <2>1 DEF Init, LineTypes
<1>3. ChatTypes
  <2>1. sent \in [Command -> {"no", "turn", "kept", "cut"}]
    BY DEF Init
  <2>2. spent \in [Command -> 0..MaxCopies]
    BY DEF Init
  <2> QED BY <2>1, <2>2 DEF Init, ChatTypes
<1>4. GhostTypes
  BY DEF Init, GhostTypes
<1> QED BY <1>1, <1>2, <1>3, <1>4 DEF TypeOK

LEMMA TailIsChain ==
  ASSUME TypeOK, chain # <<>>
  PROVE  Tail(chain) \in Seq(Command)
  BY TailQueue DEF TypeOK, LineTypes

LEMMA AppendIsChain ==
  ASSUME TypeOK, NEW c \in Command
  PROVE  Append(chain, c) \in Seq(Command)
  BY AppendQueue DEF TypeOK, LineTypes

LEMMA ShapeNext == TypeOK /\ [Next]_vars => TypeOK'
<1> SUFFICES ASSUME TypeOK, [Next]_vars PROVE TypeOK'
  OBVIOUS
<1> USE DEF TypeOK, CommandTypes, LineTypes, ChatTypes, GhostTypes, Event
<1>1. ASSUME NEW c \in Command, Process(c) PROVE TypeOK'
  <2>1. Append(chain, c) \in Seq(Command)
    BY AppendIsChain
  <2>2. CASE Starts(c)
    BY <2>2 DEF Starts
  <2>3. CASE Exits(c)
    BY <2>3 DEF Exits
  <2>4. CASE FinishCommand(c)
    BY <2>1, <2>4 DEF FinishCommand, Closed
  <2>5. CASE StopCommand(c)
    BY <2>5 DEF StopCommand
  <2>6. CASE StopSettles(c)
    BY <2>6 DEF StopSettles, Closed
  <2>7. CASE StopFails(c)
    BY <2>7 DEF StopFails
  <2>8. CASE StopGroup(c)
    BY <2>8 DEF StopGroup
  <2>9. CASE Trims(c)
    BY <2>9 DEF Trims
  <2> QED
    BY <1>1, <2>2, <2>3, <2>4, <2>5, <2>6, <2>7, <2>8, <2>9 DEF Process
<1>2. ASSUME NEW c \in Command, Call(c) PROVE TypeOK'
  <2> USE DEF Settled
  <2>1. Lost({c}) \subseteq Command
    BY DEF Lost
  <2>2. CASE OpenWatch(c)
    BY <2>2 DEF OpenWatch
  <2>3. CASE WaitEnds(c)
    BY <2>3 DEF WaitEnds
  <2>4. CASE WaitReturns(c)
    BY <2>4 DEF WaitReturns
  <2>5. CASE WaitAborts(c)
    <3>1. CommandTypes' /\ LineTypes'
      BY <2>1, <2>5 DEF WaitAborts
    <3>2. ChatTypes'
      BY <2>1, <2>5 DEF WaitAborts
    <3>3. events' \in 0..MaxEvents
      BY <2>5 DEF WaitAborts
    <3>4. missed' \subseteq Command
      BY <2>1, <2>5 DEF WaitAborts
    <3>5. GhostTypes'
      BY <2>5, <3>3, <3>4 DEF WaitAborts
    <3> QED BY <3>1, <3>2, <3>5
  <2>6. CASE LooseReturns(c)
    BY <2>6 DEF LooseReturns
  <2>7. CASE ReadsOutput(c)
    BY <2>7 DEF ReadsOutput
  <2> QED
    BY <1>2, <2>2, <2>3, <2>4, <2>5, <2>6, <2>7 DEF Call
<1>3. ASSUME NEW c \in Command, Deliver(c) PROVE TypeOK'
  <2>1. First(c) => Tail(chain) \in Seq(Command)
    BY TailIsChain DEF First
  <2> USE DEF SettlesWake, MayGo, Looks
  <2>2. CASE NoTopic(c)
    BY <2>1, <2>2 DEF NoTopic
  <2>3. CASE AlreadyDelivered(c)
    BY <2>1, <2>3 DEF AlreadyDelivered
  <2>4. CASE Capped(c)
    BY <2>1, <2>4 DEF Capped
  <2>5. Sends(c) => spent' \in [Command -> 0..MaxCopies]
    BY DEF Sends
  <2>6. CASE Posts(c)
    BY <2>5, <2>6 DEF Posts
  <2>7. CASE PostWaits(c)
    <3>1. Cut(c) \in BOOLEAN
      BY DEF Cut
    <3> QED BY <2>5, <2>7, <3>1 DEF PostWaits
  <2>8. CASE PostFails(c)
    <3>1. Tail(chain) \in Seq(Command)
      BY <2>1, <2>8 DEF PostFails, Sends
    <3>2. CommandTypes' /\ LineTypes'
      BY <2>8, <3>1 DEF PostFails
    <3>3. ChatTypes'
      BY <2>5, <2>8 DEF PostFails
    <3>4. GhostTypes'
      BY <2>8 DEF PostFails
    <3> QED BY <3>2, <3>3, <3>4
  <2>9. CASE Throws(c)
    <3>1. CommandTypes' /\ LineTypes'
      BY <2>1, <2>9 DEF Throws
    <3>2. ChatTypes'
      BY <2>1, <2>9 DEF Throws
    <3>3. GhostTypes'
      BY <2>1, <2>9 DEF Throws
    <3> QED BY <3>1, <3>2, <3>3
  <2>10. CASE Drained(c)
    BY <2>1, <2>10 DEF Drained
  <2> QED
    BY <1>3, <2>2, <2>3, <2>4, <2>6, <2>7, <2>8, <2>9, <2>10 DEF Deliver
<1>4. ASSUME NEW c \in Command, StartWakes(c) PROVE TypeOK'
  BY <1>4, AppendIsChain DEF StartWakes
<1>5. CASE Chat
  <2>1. Lost(wait) \subseteq Command
    BY DEF Lost
  <2>2. CASE TurnEnds
    BY <2>1, <2>2 DEF TurnEnds, TurnOver
  <2>3. CASE TurnStopped
    BY <2>1, <2>3 DEF TurnStopped, TurnOver
  <2>4. CASE TurnCut
    <3>1. CommandTypes' /\ LineTypes'
      BY <2>1, <2>4 DEF TurnCut, TurnOver
    <3>2. ChatTypes'
      BY <2>1, <2>4 DEF TurnCut, TurnOver
    <3>3. GhostTypes'
      BY <2>1, <2>4 DEF TurnCut, TurnOver
    <3> QED BY <3>1, <3>2, <3>3
  <2>5. CASE PersonWrites
    <3>1. CommandTypes' /\ LineTypes'
      BY <2>5 DEF PersonWrites
    <3>2. ChatTypes'
      BY <2>5 DEF PersonWrites
    <3>3. GhostTypes'
      BY <2>5 DEF PersonWrites
    <3> QED BY <3>1, <3>2, <3>3
  <2>6. CASE SweepResends
    BY <2>6 DEF SweepResends
  <2>7. CASE HoldLifts
    BY <2>7 DEF HoldLifts
  <2>8. CASE Archives
    <3>1. CommandTypes' /\ LineTypes'
      BY <2>8 DEF Archives
    <3>2. ChatTypes'
      BY <2>8 DEF Archives
    <3>3. GhostTypes'
      BY <2>8 DEF Archives
    <3> QED BY <3>1, <3>2, <3>3
  <2> QED
    BY <1>5, <2>2, <2>3, <2>4, <2>5, <2>6, <2>7, <2>8 DEF Chat
<1>6. CASE Restart
  <2>1. Lost(wait) \subseteq Command
    BY DEF Lost
  <2>2. CommandTypes'
    BY <1>6 DEF Restart, OwedAtBoot
  <2>3. LineTypes'
    <3>1. chain' \in Seq(Command)
      BY <1>6 DEF Restart
    <3>2. waiting' \subseteq Command
      BY <1>6 DEF Restart
    <3> QED BY <1>6, <3>1, <3>2 DEF Restart
  <2>4. ChatTypes'
    BY <1>6 DEF Restart
  <2>5. GhostTypes'
    BY <1>6, <2>1 DEF Restart
  <2> QED BY <2>2, <2>3, <2>4, <2>5
<1>7. CASE UNCHANGED vars
  BY <1>7 DEF vars
<1> QED
  BY <1>1, <1>2, <1>3, <1>4, <1>5, <1>6, <1>7 DEF Next

-----------------------------------------------------------------------------
(* What is owed is in line *)

\* A step that leaves the line alone, closes no row and owes nothing new.
LEMMA LineStays ==
  ASSUME TypeOK, Line, UNCHANGED <<chain, waiting>>,
         refused \subseteq refused', dropped \subseteq dropped',
         \A c \in Command : /\ Over(c)' <=> Over(c)
                            /\ Over(c) /\ wake'[c] => wake[c]
                            /\ row'[c] = "gone" => row[c] = "gone" \/ ~wake[c]
  PROVE  Line'
<1>1. ToSet(chain) \subseteq Command /\ waiting \subseteq Command
  BY ToSetInSet DEF TypeOK, LineTypes
<1>2. OwedIsInLine'
  BY <1>1 DEF Line, OwedIsInLine
<1>3. GoneOwesNothing'
  BY DEF Line, GoneOwesNothing, Over
<1> QED BY <1>2, <1>3 DEF Line

\* A row that closes joins the line, if it is owed.
LEMMA ClosesInLine ==
  ASSUME TypeOK, Line, NEW c \in Command, NEW owed \in BOOLEAN,
         row[c] = "running", Closed(c, owed), UNCHANGED <<waiting, refused, dropped>>
  PROVE  Line'
<1>1. /\ ToSet(chain) \subseteq Command /\ waiting \subseteq Command
      /\ chain \in Seq(Command) /\ chain' \in Seq(Command)
  BY ToSetInSet, AppendQueue DEF TypeOK, LineTypes, Closed
<1>2. c \notin ToSet(chain) \cup waiting
  BY DEF Line, OwedIsInLine, Over
<1>3. /\ ToSet(chain') = IF owed THEN ToSet(chain) \cup {c} ELSE ToSet(chain)
      /\ IsInjective(chain')
  BY <1>1, <1>2, AppendQueue DEF Closed, Line, OwedIsInLine
<1>4. /\ \A d \in Command : Over(d)' <=> Over(d) \/ d = c
      /\ wake'[c] = owed /\ row'[c] = "closed"
      /\ \A d \in Command \ {c} : wake'[d] = wake[d] /\ row'[d] = row[d]
  BY DEF Closed, Over, TypeOK, CommandTypes
<1>5. OwedIsInLine'
  <2>1. ToSet(chain') \cap waiting' = {}
    BY <1>2, <1>3 DEF Line, OwedIsInLine
  <2>2. \A d \in ToSet(chain') \cup waiting' : Over(d)'
    BY <1>1, <1>3, <1>4 DEF Line, OwedIsInLine
  <2>3. \A d \in Command : Over(d)' /\ wake'[d] /\ d \notin refused' \cup dropped'
                              => d \in ToSet(chain') \cup waiting'
    BY <1>3, <1>4 DEF Line, OwedIsInLine
  <2> QED BY <1>3, <2>1, <2>2, <2>3 DEF OwedIsInLine
<1>6. GoneOwesNothing'
  BY <1>4 DEF Line, GoneOwesNothing
<1> QED BY <1>5, <1>6 DEF Line

\* The first wake leaves the line: it is settled, or left to the next boot.
LEMMA LeavesLine ==
  ASSUME TypeOK, Line, NEW c \in Command, First(c), chain' = Tail(chain),
         UNCHANGED <<row, waiting>>, refused \subseteq refused', dropped \subseteq dropped',
         ~wake'[c] \/ c \in refused' \cup dropped',
         \A d \in Command : wake'[d] => wake[d]
  PROVE  Line'
<1>1. /\ ToSet(chain) = {c} \cup ToSet(chain') /\ IsInjective(chain')
      /\ ToSet(chain) \subseteq Command /\ waiting \subseteq Command
  BY TailQueue, ToSetInSet DEF First, TypeOK, LineTypes, Line, OwedIsInLine
<1>2. \A d \in Command : Over(d)' <=> Over(d)
  BY DEF Over
<1>3. OwedIsInLine'
  BY <1>1, <1>2 DEF Line, OwedIsInLine
<1>4. GoneOwesNothing'
  BY DEF Line, GoneOwesNothing
<1> QED BY <1>3, <1>4 DEF Line

LEMMA LineInit == Init => Line
<1> SUFFICES ASSUME Init PROVE Line
  OBVIOUS
<1>1. ToSet(chain) = {} /\ IsInjective(chain) /\ waiting = {}
  BY EmptyQueue DEF Init
<1>2. \A c \in Command : ~Over(c) /\ row[c] = "none"
  BY DEF Init, Over
<1> QED BY <1>1, <1>2 DEF Line, OwedIsInLine, GoneOwesNothing

LEMMA LineNext == TypeOK /\ Line /\ [Next]_vars => Line'
<1> SUFFICES ASSUME TypeOK, Line, [Next]_vars PROVE Line'
  OBVIOUS
<1> USE DEF CommandTypes
<1>1. ASSUME NEW c \in Command, Process(c) PROVE Line'
  <2>1. CASE Starts(c)
    BY <2>1, LineStays DEF Starts, Over, TypeOK
  <2>2. CASE Exits(c)
    BY <2>2, LineStays DEF Exits, Over
  <2>3. CASE FinishCommand(c)
    <3>1. (wake[c] /\ stop[c] = "no" /\ c \notin wait) \in BOOLEAN
      BY DEF TypeOK
    <3> QED BY <2>3, <3>1, ClosesInLine DEF FinishCommand
  <2>4. CASE StopCommand(c)
    BY <2>4, LineStays DEF StopCommand, Over, TypeOK
  <2>5. CASE StopSettles(c)
    BY <2>5, ClosesInLine DEF StopSettles
  <2>6. CASE StopFails(c)
    BY <2>6, LineStays DEF StopFails, Over, TypeOK
  <2>7. CASE StopGroup(c)
    BY <2>7, LineStays DEF StopGroup, Over, TypeOK
  <2>8. CASE Trims(c)
    <3>1. \A d \in Command : Over(d)' <=> Over(d)
      BY <2>8 DEF Trims, Over, TypeOK
    <3>2. \A d \in Command : wake'[d] => wake[d] /\ row'[d] = row[d]
      BY <2>8 DEF Trims, TypeOK
    <3> QED BY <2>8, <3>1, <3>2, LineStays DEF Trims
  <2> QED
    BY <1>1, <2>1, <2>2, <2>3, <2>4, <2>5, <2>6, <2>7, <2>8 DEF Process
<1>2. ASSUME NEW c \in Command, Call(c) PROVE Line'
  <2>1. UNCHANGED <<chain, waiting, row, refused, dropped>>
    BY <1>2 DEF Call, OpenWatch, WaitEnds, WaitReturns, WaitAborts, LooseReturns, ReadsOutput
  <2>2. \A d \in Command : wake'[d] => wake[d]
    BY <1>2 DEF Call, OpenWatch, WaitEnds, WaitReturns, WaitAborts, LooseReturns, ReadsOutput,
                Settled, TypeOK
  <2> QED BY <2>1, <2>2, LineStays DEF Over
<1>3. ASSUME NEW c \in Command, Deliver(c) PROVE Line'
  <2> USE DEF SettlesWake, MayGo, Looks
  <2>1. CASE First(c) /\ SettlesWake(c) /\ UNCHANGED <<row, waiting, refused, dropped>>
    BY <2>1, LeavesLine DEF TypeOK
  <2>2. CASE NoTopic(c) \/ AlreadyDelivered(c) \/ Capped(c)
    BY <2>1, <2>2 DEF NoTopic, AlreadyDelivered, Capped
  <2>3. CASE Posts(c) \/ PostWaits(c)
    BY <2>3, LineStays DEF Posts, PostWaits, Over
  <2>4. CASE PostFails(c)
    BY <2>4, LeavesLine DEF PostFails, Sends
  <2>5. CASE Throws(c)
    BY <2>5, LeavesLine DEF Throws
  <2>6. CASE Drained(c)
    <3>1. CASE Cut(c)
      BY <2>6, <3>1, LineStays DEF Drained, Over
    <3> QED BY <2>1, <2>6, <3>1 DEF Drained
  <2> QED
    BY <1>3, <2>2, <2>3, <2>4, <2>5, <2>6 DEF Deliver
<1>4. ASSUME NEW c \in Command, StartWakes(c) PROVE Line'
  <2>1. /\ chain \in Seq(Command) /\ c \in waiting /\ c \notin ToSet(chain)
        /\ UNCHANGED <<row, wake, refused, dropped>>
    BY <1>4 DEF StartWakes, TypeOK, LineTypes, Line, OwedIsInLine
  <2>2. ToSet(chain') = ToSet(chain) \cup {c} /\ IsInjective(chain')
    BY <1>4, <2>1, AppendQueue DEF StartWakes, Line, OwedIsInLine
  <2>3. waiting' = waiting \ {c}
    BY <1>4 DEF StartWakes
  <2> QED BY <2>1, <2>2, <2>3 DEF Line, OwedIsInLine, GoneOwesNothing, Over
<1>5. CASE Chat
  <2>1. UNCHANGED <<chain, waiting, row, wake, refused, dropped>>
    BY <1>5 DEF Chat, TurnEnds, TurnStopped, TurnCut, PersonWrites, SweepResends, HoldLifts,
                Archives
  <2> QED BY <2>1, LineStays DEF Over
<1>6. CASE Restart
  <2>1. chain' = <<>> /\ ToSet(chain') = {} /\ IsInjective(chain')
    BY <1>6, EmptyQueue DEF Restart
  <2>2. waiting' = {c \in Command : OwedAtBoot(c)}
    BY <1>6 DEF Restart
  <2>3. \A c \in Command : /\ row'[c] = IF FoundDead(c) THEN "closed" ELSE row[c]
                           /\ wake'[c] = IF FoundDead(c) THEN OwedAtBoot(c) ELSE wake[c]
    BY <1>6 DEF Restart
  <2>4. \A c \in waiting' : Over(c)'
    BY <2>2, <2>3 DEF OwedAtBoot, Over
  <2>5. \A c \in Command : Over(c)' /\ wake'[c] => c \in waiting'
    BY <2>2, <2>3 DEF OwedAtBoot, Over, Line, GoneOwesNothing
  <2>6. GoneOwesNothing'
    BY <2>3 DEF Line, GoneOwesNothing, FoundDead
  <2> QED BY <2>1, <2>4, <2>5, <2>6 DEF Line, OwedIsInLine
<1>7. CASE UNCHANGED vars
  BY <1>7, LineStays DEF vars, Over
<1> QED
  BY <1>1, <1>2, <1>3, <1>4, <1>5, <1>6, <1>7 DEF Next

-----------------------------------------------------------------------------
(* What was read is not told *)

\* A step that adds nothing to what is known, nor to what is owed.
LEMMA KnownStays ==
  ASSUME TypeOK, Known, UNCHANGED <<read, chosen>>,
         \A c \in Command : /\ row[c] # "none" => row'[c] # "none"
                            /\ wake'[c] => wake[c] \/ row[c] = "none"
                            /\ sent[c] # "no" => sent'[c] # "no",
         turn' \in Command => sent'[turn'] # "no"
  PROVE  Known'
<1>1. read \cup chosen \subseteq Command
  BY DEF TypeOK, GhostTypes
<1>2. KnownIsSettled'
  BY <1>1 DEF Known, KnownIsSettled
<1>3. TurnHasItsRow'
  BY DEF TurnHasItsRow
<1> QED BY <1>2, <1>3 DEF Known

LEMMA KnownInit == Init => Known
  BY TurnNames DEF Init, Known, KnownIsSettled, TurnHasItsRow

\* A step that makes at most one more end known, and settles it.
LEMMA KnownGrows ==
  ASSUME TypeOK, Known, NEW c \in Command, row[c] # "none",
         read' \cup chosen' \subseteq read \cup chosen \cup {c},
         UNCHANGED <<sent, turn>>, wake'[c] => sent[c] # "no",
         \A d \in Command : row[d] # "none" => row'[d] # "none",
         \A d \in Command : wake'[d] => wake[d]
  PROVE  Known'
<1>1. read \cup chosen \subseteq Command
  BY DEF TypeOK, GhostTypes
<1>2. KnownIsSettled'
  BY <1>1 DEF Known, KnownIsSettled
<1>3. TurnHasItsRow'
  BY DEF Known, TurnHasItsRow
<1> QED BY <1>2, <1>3 DEF Known

LEMMA KnownNext == TypeOK /\ Known /\ [Next]_vars => Known'
<1> SUFFICES ASSUME TypeOK, Known, [Next]_vars PROVE Known'
  OBVIOUS
<1> USE DEF TypeOK, CommandTypes, ChatTypes
<1>0. turn \in Command => sent[turn] # "no"
  BY DEF Known, TurnHasItsRow
<1>1. ASSUME NEW c \in Command, Process(c) PROVE Known'
  <2>1. CASE Starts(c)
    BY <1>0, <2>1, KnownStays DEF Starts
  <2>2. CASE Exits(c)
    BY <1>0, <2>2, KnownStays DEF Exits
  <2>3. CASE FinishCommand(c)
    BY <1>0, <2>3, KnownStays DEF FinishCommand, Closed
  <2>4. CASE StopCommand(c)
    <3>1. row[c] # "none" /\ ~wake'[c] /\ read' \cup chosen' = read \cup chosen \cup {c}
      BY <2>4 DEF StopCommand
    <3> QED BY <2>4, <3>1, KnownGrows DEF StopCommand
  <2>5. CASE StopSettles(c)
    <3>1. row[c] # "none" /\ ~wake'[c] /\ read' \cup chosen' = read \cup chosen \cup {c}
      BY <2>5 DEF StopSettles, Closed
    <3> QED BY <2>5, <3>1, KnownGrows DEF StopSettles, Closed
  <2>6. CASE StopFails(c)
    BY <1>0, <2>6, KnownStays DEF StopFails
  <2>7. CASE StopGroup(c)
    <3>1. row[c] # "none" /\ ~wake'[c] /\ read' \cup chosen' = read \cup chosen \cup {c}
      BY <2>7 DEF StopGroup
    <3> QED BY <2>7, <3>1, KnownGrows DEF StopGroup
  <2>8. CASE Trims(c)
    BY <1>0, <2>8, KnownStays DEF Trims
  <2> QED
    BY <1>1, <2>1, <2>2, <2>3, <2>4, <2>5, <2>6, <2>7, <2>8 DEF Process
<1>2. ASSUME NEW c \in Command, Call(c) PROVE Known'
  <2>1. CASE OpenWatch(c) \/ WaitEnds(c) \/ WaitAborts(c)
    BY <1>0, <2>1, KnownStays DEF OpenWatch, WaitEnds, WaitAborts
  <2>2. CASE LooseReturns(c)
    <3>1. \A d \in Command : wake'[d] => wake[d]
      BY <2>2 DEF LooseReturns, Settled
    <3> QED BY <1>0, <2>2, <3>1, KnownStays DEF LooseReturns
  <2>3. ASSUME row[c] # "none", Settled(c), read' \subseteq read \cup {c},
               UNCHANGED <<row, sent, turn, chosen>>
        PROVE  Known'
    <3>1. /\ wake'[c] => sent[c] # "no"
          /\ \A d \in Command : wake'[d] => wake[d]
      BY <2>3 DEF Settled, Delivered
    <3> QED BY <2>3, <3>1, KnownGrows
  <2>4. CASE WaitReturns(c)
    <3>1. row[c] # "none" /\ read' \subseteq read \cup {c}
      BY <2>4 DEF WaitReturns, Over
    <3> QED BY <2>3, <2>4, <3>1 DEF WaitReturns
  <2>5. CASE ReadsOutput(c)
    BY <2>3, <2>5 DEF ReadsOutput
  <2> QED
    BY <1>2, <2>1, <2>2, <2>4, <2>5 DEF Call
<1>3. ASSUME NEW c \in Command, Deliver(c) PROVE Known'
  <2> USE DEF SettlesWake, MayGo, Looks, Sends
  <2>1. CASE NoTopic(c) \/ AlreadyDelivered(c) \/ Capped(c)
    BY <1>0, <2>1, KnownStays DEF NoTopic, AlreadyDelivered, Capped
  <2>2. CASE Posts(c)
    BY <2>2, KnownStays DEF Posts
  <2>3. CASE PostWaits(c) \/ Throws(c)
    BY <1>0, <2>3, KnownStays DEF PostWaits, Throws
  <2>4. CASE PostFails(c)
    BY <1>0, <2>4, KnownStays DEF PostFails
  <2>5. CASE Drained(c)
    BY <1>0, <2>5, KnownStays DEF Drained
  <2> QED
    BY <1>3, <2>1, <2>2, <2>3, <2>4, <2>5 DEF Deliver
<1>4. ASSUME NEW c \in Command, StartWakes(c) PROVE Known'
  BY <1>0, <1>4, KnownStays DEF StartWakes
<1>5. CASE Chat
  <2>1. CASE TurnEnds \/ TurnStopped \/ TurnCut
    BY <2>1, KnownStays, TurnNames DEF TurnEnds, TurnStopped, TurnCut, TurnOver
  <2>2. CASE PersonWrites \/ SweepResends
    BY <1>0, <2>2, KnownStays, TurnNames DEF PersonWrites, SweepResends
  <2>3. CASE HoldLifts \/ Archives
    BY <1>0, <2>3, KnownStays DEF HoldLifts, Archives
  <2> QED
    BY <1>5, <2>1, <2>2, <2>3 DEF Chat
<1>6. CASE Restart
  <2>1. \A c \in Command : /\ row'[c] = IF FoundDead(c) THEN "closed" ELSE row[c]
                           /\ wake'[c] => wake[c]
                           /\ sent[c] # "no" => sent'[c] # "no"
    BY <1>6 DEF Restart, OwedAtBoot
  <2>2. turn' \in Command => sent'[turn'] # "no"
    BY <1>0, <1>6, <2>1, TurnNames DEF Restart
  <2>3. UNCHANGED <<read, chosen>>
    BY <1>6 DEF Restart
  <2> QED BY <2>1, <2>2, <2>3, KnownStays
<1>7. CASE UNCHANGED vars
  BY <1>0, <1>7, KnownStays DEF vars
<1> QED
  BY <1>1, <1>2, <1>3, <1>4, <1>5, <1>6, <1>7 DEF Next

\* The row of a wake goes out only for an end that is not known.
LEMMA NothingKnownIsSent ==
  ASSUME TypeOK, Known, [Next]_vars, NEW c \in Command, sent[c] = "no", sent'[c] # "no"
  PROVE  c \notin read \cup chosen
<1> USE DEF TypeOK, CommandTypes, ChatTypes
<1>0. c # turn
  BY DEF Known, TurnHasItsRow
<1>1. ASSUME NEW d \in Command, Process(d) \/ Call(d) \/ StartWakes(d) PROVE FALSE
  BY <1>1 DEF Process, Call, StartWakes, Starts, Exits, FinishCommand, StopCommand, StopSettles,
              StopFails, StopGroup, Trims, OpenWatch, WaitEnds, WaitReturns, WaitAborts,
              LooseReturns, ReadsOutput
<1>2. ASSUME NEW d \in Command, Deliver(d) PROVE wake[c]
  <2>1. CASE Posts(d) \/ PostFails(d)
    BY <2>1 DEF Posts, PostFails, Sends, MayGo
  <2>2. CASE ~(Posts(d) \/ PostFails(d))
    BY <1>2, <2>2 DEF Deliver, NoTopic, AlreadyDelivered, Capped, PostWaits, Throws, Drained
  <2> QED BY <2>1, <2>2
<1>3. CASE Chat
  BY <1>0, <1>3 DEF Chat, TurnEnds, TurnStopped, TurnCut, TurnOver, PersonWrites, SweepResends,
                    HoldLifts, Archives
<1>4. CASE Restart
  BY <1>4 DEF Restart
<1>5. CASE UNCHANGED vars
  BY <1>5 DEF vars
<1> QED
  BY <1>1, <1>2, <1>3, <1>4, <1>5 DEF Next, Known, KnownIsSettled

-----------------------------------------------------------------------------
(* The promise *)

\* Nothing is owed of a command that was stopped, or is being stopped.
StoppedOwesNothing == \A c \in Command : stop[c] # "no" => row[c] # "none" /\ ~wake[c]
\* A wake that drains its turn has its row.
DrainsItsRow == at = "draining" => chain # <<>> /\ sent[Head(chain)] # "no"
NInv == StoppedOwesNothing /\ DrainsItsRow

LEMMA NoticeInit == Init => NInv
  BY DEF Init, NInv, StoppedOwesNothing, DrainsItsRow

\* A step that stops nothing, owes nothing more and leaves the head of the chain.
LEMMA NoticeStays ==
  ASSUME TypeOK, NInv,
         \A c \in Command : /\ stop'[c] # "no" => stop[c] # "no" \/ (row'[c] # "none" /\ ~wake'[c])
                            /\ row[c] # "none" => row'[c] # "none"
                            /\ wake'[c] => wake[c] \/ row[c] = "none"
                            /\ sent[c] # "no" => sent'[c] # "no",
         at' = "draining" => at = "draining" /\ chain # <<>> /\ chain' # <<>> /\ Head(chain') = Head(chain)
  PROVE  NInv'
<1>1. StoppedOwesNothing'
  BY DEF NInv, StoppedOwesNothing
<1>2. DrainsItsRow'
  <2>1. chain # <<>> => Head(chain) \in Command
    BY TailQueue DEF TypeOK, LineTypes
  <2> QED BY <2>1 DEF NInv, DrainsItsRow
<1> QED BY <1>1, <1>2 DEF NInv

\* A step away from the line.
LEMMA LineIsLeft ==
  ASSUME NInv, UNCHANGED <<chain, at>>
  PROVE  at' = "draining" => at = "draining" /\ chain # <<>> /\ chain' # <<>> /\ Head(chain') = Head(chain)
  BY DEF NInv, DrainsItsRow

\* A step that puts one more wake in line.
LEMMA LineGrows ==
  ASSUME TypeOK, NInv, NEW c \in Command, chain' = Append(chain, c), at' = at
  PROVE  at' = "draining" => at = "draining" /\ chain # <<>> /\ chain' # <<>> /\ Head(chain') = Head(chain)
<1>1. chain \in Seq(Command)
  BY DEF TypeOK, LineTypes
<1>2. chain # <<>> => Append(chain, c) # <<>> /\ Head(Append(chain, c)) = Head(chain)
  BY <1>1
<1> QED BY <1>2 DEF NInv, DrainsItsRow

LEMMA NoticeNext == TypeOK /\ Known /\ NInv /\ [Next]_vars => NInv'
<1> SUFFICES ASSUME TypeOK, Known, NInv, [Next]_vars PROVE NInv'
  OBVIOUS
<1> USE DEF TypeOK, CommandTypes, ChatTypes
<1>1. ASSUME NEW c \in Command, Process(c) PROVE NInv'
  <2>1. CASE Starts(c)
    <3>1. stop[c] = "no"
      BY <2>1 DEF Starts, NInv, StoppedOwesNothing
    <3>2. StoppedOwesNothing'
      BY <2>1, <3>1 DEF Starts, NInv, StoppedOwesNothing
    <3> QED BY <2>1, <3>2 DEF Starts, NInv, DrainsItsRow
  <2>2. CASE Exits(c) \/ Trims(c)
    BY <2>2, NoticeStays, LineIsLeft DEF Exits, Trims
  <2>3. CASE FinishCommand(c) \/ StopSettles(c)
    <3>1. \A d \in Command : /\ stop'[d] # "no" => stop[d] # "no" \/ (row'[d] # "none" /\ ~wake'[d])
                             /\ row[d] # "none" => row'[d] # "none"
                             /\ wake'[d] => wake[d] \/ row[d] = "none"
                             /\ sent[d] # "no" => sent'[d] # "no"
      BY <2>3 DEF FinishCommand, StopSettles, Closed
    <3>2. (chain' = chain \/ chain' = Append(chain, c)) /\ at' = at
      BY <2>3 DEF FinishCommand, StopSettles, Closed
    <3> QED BY <3>1, <3>2, NoticeStays, LineIsLeft, LineGrows
  <2>4. CASE StopCommand(c) \/ StopFails(c) \/ StopGroup(c)
    <3>1. \A d \in Command : /\ stop'[d] # "no" => stop[d] # "no" \/ (row'[d] # "none" /\ ~wake'[d])
                             /\ row[d] # "none" => row'[d] # "none"
                             /\ wake'[d] => wake[d] \/ row[d] = "none"
                             /\ sent[d] # "no" => sent'[d] # "no"
      BY <2>4 DEF StopCommand, StopFails, StopGroup, NInv, StoppedOwesNothing
    <3>2. UNCHANGED <<chain, at>>
      BY <2>4 DEF StopCommand, StopFails, StopGroup
    <3> QED BY <3>1, <3>2, NoticeStays, LineIsLeft
  <2> QED BY <1>1, <2>1, <2>2, <2>3, <2>4 DEF Process
<1>2. ASSUME NEW c \in Command, Call(c) PROVE NInv'
  <2>1. /\ UNCHANGED <<row, stop, sent, chain, at>>
        /\ \A d \in Command : wake'[d] => wake[d]
    BY <1>2 DEF Call, OpenWatch, WaitEnds, WaitAborts, WaitReturns, LooseReturns, ReadsOutput, Settled
  <2> QED BY <2>1, NoticeStays, LineIsLeft
<1>3. ASSUME NEW c \in Command, Deliver(c) PROVE NInv'
  <2>1. CASE NoTopic(c) \/ AlreadyDelivered(c) \/ Capped(c) \/ Throws(c) \/ Drained(c)
    <3>1. /\ UNCHANGED <<row, stop, sent>> /\ (at' = "looking" \/ UNCHANGED <<chain, at>>)
          /\ \A d \in Command : wake'[d] => wake[d]
      BY <2>1 DEF NoTopic, AlreadyDelivered, Capped, Throws, Drained, SettlesWake
    <3> QED BY <3>1, NoticeStays, LineIsLeft
  <2>2. CASE Posts(c)
    <3>1. chain # <<>> /\ Head(chain) = c /\ chain' = chain /\ sent'[c] = "turn"
      BY <2>2 DEF Posts, Sends, MayGo, Looks, First
    <3>2. DrainsItsRow'
      BY <3>1 DEF DrainsItsRow
    <3>3. StoppedOwesNothing'
      BY <2>2 DEF Posts, NInv, StoppedOwesNothing
    <3> QED BY <3>2, <3>3 DEF NInv
  <2>3. CASE PostWaits(c)
    BY <2>3, NoticeStays, LineIsLeft DEF PostWaits
  <2>4. CASE PostFails(c)
    <3>1. at' = "looking"
      BY <2>4 DEF PostFails, Sends, MayGo, Looks
    <3> QED BY <2>4, <3>1, NoticeStays DEF PostFails
  <2> QED BY <1>3, <2>1, <2>2, <2>3, <2>4 DEF Deliver
<1>4. ASSUME NEW c \in Command, StartWakes(c) PROVE NInv'
  BY <1>4, NoticeStays, LineGrows DEF StartWakes
<1>5. CASE Chat
  <2>1. UNCHANGED <<row, stop, wake, chain, at>>
    BY <1>5 DEF Chat, TurnEnds, TurnStopped, TurnCut, PersonWrites, SweepResends, HoldLifts, Archives
  <2>2. \A d \in Command : sent[d] # "no" => sent'[d] # "no"
    BY <1>5 DEF Chat, TurnEnds, TurnStopped, TurnCut, TurnOver, PersonWrites, SweepResends,
                HoldLifts, Archives
  <2> QED BY <2>1, <2>2, NoticeStays, LineIsLeft
<1>6. CASE Restart
  <2>1. \A c \in Command : /\ row[c] # "none" => row'[c] # "none"
                           /\ wake'[c] => wake[c]
                           /\ stop'[c] # "no" => stop[c] # "no"
                           /\ sent[c] # "no" => sent'[c] # "no"
    BY <1>6 DEF Restart, OwedAtBoot
  <2>2. at' = "looking"
    BY <1>6 DEF Restart
  <2> QED BY <2>1, <2>2, NoticeStays
<1>7. CASE UNCHANGED vars
  BY <1>7, NoticeStays, LineIsLeft DEF vars
<1> QED
  BY <1>1, <1>2, <1>3, <1>4, <1>5, <1>6, <1>7 DEF Next

\* The debt of an end, as the promise sees it.
Debt(c) == IF row[c] = "none" THEN "unborn" ELSE IF wake[c] THEN "owed" ELSE "settled"

\* What the promise leaves to the chat.
LEMMA WorldGoesOn ==
  ASSUME wait' \subseteq Command, open' \in {open, FALSE}
  PROVE  Promise!World
<1>1. CASE open' = open
  BY <1>1 DEF Promise!World
<1>2. CASE open' = FALSE
  BY <1>2 DEF Promise!World
<1> QED BY <1>1, <1>2

\* A step the promise does not see.
LEMMA NoticeElsewhere ==
  ASSUME UNCHANGED <<read, chosen>>, wait' \subseteq Command, open' \in {open, FALSE},
         \A c \in Command : /\ row[c] = "none" <=> row'[c] = "none"
                            /\ row[c] # "none" => (wake'[c] <=> wake[c])
                            /\ sent[c] = "no" <=> sent'[c] = "no"
  PROVE  Promise!Elsewhere
<1>1. {c \in Command : sent'[c] # "no"} = {c \in Command : sent[c] # "no"}
  OBVIOUS
<1>2. [c \in Command |-> Debt(c)]' = [c \in Command |-> Debt(c)]
  BY DEF Debt
<1>3. Promise!World
  BY WorldGoesOn
<1> QED BY <1>1, <1>2, <1>3 DEF Promise!Elsewhere, Debt

\* A step after which the end of at most one command is not owed any more, for a reason.
LEMMA NoticeSettles ==
  ASSUME NEW c \in Command, row[c] # "none", wake \in [Command -> BOOLEAN],
         UNCHANGED <<sent, read, chosen>>, wait' \subseteq Command, open' \in {open, FALSE},
         \A d \in Command : row[d] = "none" <=> row'[d] = "none",
         wake' \in {wake, [wake EXCEPT ![c] = FALSE]},
         wake[c] /\ ~wake'[c] => sent[c] # "no" \/ c \in wait \/ ~open
  PROVE  Promise!Next
<1>1. CASE wake' = wake
  <2>1. Promise!Elsewhere
    BY <1>1, NoticeElsewhere
  <2> QED BY <2>1 DEF Promise!Next
<1>2. CASE wake' = [wake EXCEPT ![c] = FALSE] /\ ~wake[c]
  <2>1. wake' = wake
    BY <1>2
  <2> QED BY <1>1, <2>1
<1>3. CASE wake' = [wake EXCEPT ![c] = FALSE] /\ wake[c]
  <2>1. ~wake'[c] /\ \A d \in Command \ {c} : wake'[d] <=> wake[d]
    BY <1>3
  <2>2. /\ [d \in Command |-> Debt(d)]' = [[d \in Command |-> Debt(d)] EXCEPT ![c] = "settled"]
        /\ Debt(c) = "owed"
    BY <1>3, <2>1 DEF Debt
  <2>3. c \in {d \in Command : sent[d] # "no"} \cup wait \/ ~open
    BY <1>3, <2>1
  <2>4. {d \in Command : sent'[d] # "no"} = {d \in Command : sent[d] # "no"}
    OBVIOUS
  <2>5. Promise!World
    BY WorldGoesOn
  <2>6. Promise!Settle(c)
    BY <2>2, <2>3, <2>4, <2>5 DEF Promise!Settle, Debt
  <2> QED BY <2>6 DEF Promise!Next
<1> QED BY <1>1, <1>2, <1>3

\* A step that makes one end known.
LEMMA NoticeLearns ==
  ASSUME NEW c \in Command, row[c] # "none", wake \in [Command -> BOOLEAN],
         UNCHANGED sent, read' \cup chosen' = read \cup chosen \cup {c},
         wait' \subseteq Command, open' \in {open, FALSE},
         \A d \in Command : row[d] = "none" <=> row'[d] = "none",
         wake' \in {wake, [wake EXCEPT ![c] = FALSE]}, wake'[c] => sent[c] # "no"
  PROVE  Promise!Next
<1>1. /\ Promise!World
      /\ {d \in Command : sent'[d] # "no"} = {d \in Command : sent[d] # "no"}
  BY WorldGoesOn
<1>2. [d \in Command |-> Debt(d)]' \in {[d \in Command |-> Debt(d)],
                                      [[d \in Command |-> Debt(d)] EXCEPT ![c] = "settled"]}
  <2>1. CASE wake' = wake
    <3>1. [d \in Command |-> Debt(d)]' = [d \in Command |-> Debt(d)]
      BY <2>1 DEF Debt
    <3> QED BY <3>1
  <2>2. CASE wake' = [wake EXCEPT ![c] = FALSE]
    <3>1. [d \in Command |-> Debt(d)]' = [[d \in Command |-> Debt(d)] EXCEPT ![c] = "settled"]
      BY <2>2 DEF Debt
    <3> QED BY <3>1
  <2> QED BY <2>1, <2>2
<1>3. Debt(c) # "unborn"
  BY DEF Debt
<1>4. Debt(c)' = "owed" => c \in {d \in Command : sent[d] # "no"}
  BY DEF Debt
<1>5. Promise!Learn(c)
  BY <1>1, <1>2, <1>3, <1>4 DEF Promise!Learn, Debt
<1> QED BY <1>5 DEF Promise!Next

\* Every step of the wakes is a step of the promise.
LEMMA NoticeStep == IInv /\ NInv /\ [Next]_vars => Promise!Next
<1> SUFFICES ASSUME IInv, NInv, [Next]_vars PROVE Promise!Next
  OBVIOUS
<1>0. TypeOK /\ Known /\ wake \in [Command -> BOOLEAN] /\ wait \subseteq Command
  BY DEF IInv, TypeOK, CommandTypes, ChatTypes
<1> USE DEF CommandTypes, ChatTypes
<1>1. ASSUME NEW c \in Command, Process(c) PROVE Promise!Next
  <2>1. CASE Starts(c)
    <3>1. /\ row[c] = "none" /\ row'[c] = "running" /\ wake'[c]
          /\ \A d \in Command \ {c} : row'[d] = row[d] /\ wake'[d] = wake[d]
          /\ UNCHANGED <<sent, read, chosen, wait, open>>
      BY <1>0, <2>1 DEF Starts, TypeOK
    <3>2. Promise!Start(c)
      BY <1>0, <3>1 DEF Promise!Start, Promise!World
    <3> QED BY <3>2 DEF Promise!Next
  <2>2. CASE Exits(c) \/ Trims(c) \/ StopFails(c)
    <3>1. \A d \in Command : /\ row[d] = "none" <=> row'[d] = "none"
                             /\ wake'[d] <=> wake[d]
      BY <1>0, <2>2 DEF Exits, Trims, StopFails, TypeOK, NInv, StoppedOwesNothing
    <3>2. UNCHANGED <<sent, read, chosen, wait, open>>
      BY <2>2 DEF Exits, Trims, StopFails
    <3>3. Promise!Elsewhere
      BY <1>0, <3>1, <3>2, NoticeElsewhere
    <3> QED BY <3>3 DEF Promise!Next
  <2>3. CASE FinishCommand(c)
    <3>1. /\ row[c] # "none" /\ UNCHANGED <<sent, read, chosen, wait, open>>
          /\ wake' = [wake EXCEPT ![c] = wake[c] /\ stop[c] = "no" /\ c \notin wait]
          /\ \A d \in Command : row[d] = "none" <=> row'[d] = "none"
      BY <1>0, <2>3 DEF FinishCommand, Closed, TypeOK
    <3>2. wake' \in {wake, [wake EXCEPT ![c] = FALSE]}
      BY <1>0, <3>1
    <3>3. wake[c] /\ ~wake'[c] => c \in wait
      BY <1>0, <3>1 DEF NInv, StoppedOwesNothing
    <3> QED BY <1>0, <3>1, <3>2, <3>3, NoticeSettles
  <2>4. CASE StopCommand(c) \/ StopSettles(c) \/ StopGroup(c)
    <3>1. /\ row[c] # "none" /\ UNCHANGED <<sent, wait, open>>
          /\ wake' = [wake EXCEPT ![c] = FALSE] /\ ~wake'[c]
          /\ read' \cup chosen' = read \cup chosen \cup {c}
          /\ \A d \in Command : row[d] = "none" <=> row'[d] = "none"
      BY <1>0, <2>4 DEF StopCommand, StopSettles, StopGroup, Closed, TypeOK
    <3> QED BY <1>0, <3>1, NoticeLearns
  <2> QED BY <1>1, <2>1, <2>2, <2>3, <2>4 DEF Process
<1>2. ASSUME NEW c \in Command, Settled(c) \/ wake' = wake, Over(c) \/ wake' = wake
      PROVE  /\ wake' \in {wake, [wake EXCEPT ![c] = FALSE]}
             /\ wake' # wake => row[c] # "none"
             /\ Settled(c) => (wake'[c] => sent[c] # "no")
  BY <1>0, <1>2 DEF Settled, Delivered, Over
<1>3. ASSUME NEW c \in Command, Call(c) PROVE Promise!Next
  <2>1. CASE OpenWatch(c) \/ WaitEnds(c) \/ WaitAborts(c)
    <3>1. wait' \subseteq Command /\ UNCHANGED <<row, wake, sent, read, chosen, open>>
      BY <1>0, <2>1 DEF OpenWatch, WaitEnds, WaitAborts
    <3>2. Promise!Elsewhere
      BY <3>1, NoticeElsewhere
    <3> QED BY <3>2 DEF Promise!Next
  <2>2. CASE LooseReturns(c) /\ wake' = wake
    <3>1. UNCHANGED <<row, wake, sent, read, chosen, wait, open>>
      BY <2>2 DEF LooseReturns
    <3>2. Promise!Elsewhere
      BY <1>0, <3>1, NoticeElsewhere
    <3> QED BY <3>2 DEF Promise!Next
  <2>3. CASE LooseReturns(c) /\ wake' # wake
    <3>1. /\ Over(c) /\ c \in wait /\ Settled(c)
          /\ UNCHANGED <<row, sent, read, chosen, wait, open>>
      BY <2>3 DEF LooseReturns
    <3> QED BY <1>0, <1>2, <2>3, <3>1, NoticeSettles
  <2>4. CASE WaitReturns(c) /\ turn = Free
    <3>1. /\ Over(c) /\ c \in wait /\ Settled(c) /\ wait' \subseteq Command
          /\ UNCHANGED <<row, sent, read, chosen, open>>
      BY <1>0, <2>4 DEF WaitReturns
    <3>2. row[c] # "none"
      BY <3>1 DEF Over
    <3> QED BY <1>0, <1>2, <3>1, <3>2, NoticeSettles
  <2>5. CASE ReadsOutput(c) \/ (WaitReturns(c) /\ turn # Free)
    <3>1. /\ Over(c) /\ Settled(c) /\ wait' \subseteq Command
          /\ read' = read \cup {c} /\ UNCHANGED <<row, sent, chosen, open>>
      BY <1>0, <2>5 DEF WaitReturns, ReadsOutput, Over
    <3>2. row[c] # "none" /\ read' \cup chosen' = read \cup chosen \cup {c}
      BY <3>1 DEF Over
    <3> QED BY <1>0, <1>2, <3>1, <3>2, NoticeLearns
  <2> QED BY <1>3, <2>1, <2>2, <2>3, <2>4, <2>5 DEF Call
<1>4. ASSUME NEW c \in Command, Deliver(c) PROVE Promise!Next
  <2>1. CASE NoTopic(c) \/ AlreadyDelivered(c) \/ Capped(c) \/ (Drained(c) /\ ~Cut(c))
    <3>1. /\ UNCHANGED <<row, sent, read, chosen, wait, open>>
          /\ wake' = [wake EXCEPT ![c] = FALSE]
      BY <2>1 DEF NoTopic, AlreadyDelivered, Capped, Drained, SettlesWake
    <3>2. wake[c] => sent[c] # "no" \/ ~open
      BY <2>1 DEF NoTopic, AlreadyDelivered, Delivered, Capped, Cut, Drained, First, NInv, DrainsItsRow
    <3>3. c \in ToSet(chain)
      BY <1>0, <2>1, TailQueue DEF NoTopic, AlreadyDelivered, Capped, Drained, MayGo, Looks, First,
                                   TypeOK, LineTypes
    <3>4. row[c] # "none"
      BY <3>3 DEF IInv, Line, OwedIsInLine, Over
    <3> QED BY <1>0, <3>1, <3>2, <3>4, NoticeSettles
  <2>2. CASE PostWaits(c) \/ Throws(c) \/ (Drained(c) /\ Cut(c))
    <3>1. UNCHANGED <<row, wake, sent, read, chosen, wait, open>>
      BY <2>2 DEF PostWaits, Throws, Drained
    <3>2. Promise!Elsewhere
      BY <1>0, <3>1, NoticeElsewhere
    <3> QED BY <3>2 DEF Promise!Next
  <2>3. CASE Posts(c) \/ PostFails(c)
    <3>1. /\ UNCHANGED <<row, wake, read, chosen, wait, open>> /\ wake[c]
          /\ \A d \in Command \ {c} : sent'[d] = sent[d]
          /\ sent[c] # "no" => sent'[c] # "no"
      BY <1>0, <2>3 DEF Posts, PostFails, Sends, MayGo, TypeOK
    <3>2. CASE sent[c] = "no" /\ sent'[c] # "no"
      <4>1. c \notin read \cup chosen
        BY <1>0, <3>2, NothingKnownIsSent
      <4>2. row[c] # "none"
        <5>1. c \in ToSet(chain)
          BY <1>0, <2>3, TailQueue DEF Posts, PostFails, Sends, MayGo, Looks, First, TypeOK, LineTypes
        <5> QED BY <5>1 DEF IInv, Line, OwedIsInLine, Over
      <4>3. {d \in Command : sent'[d] # "no"} = {d \in Command : sent[d] # "no"} \cup {c}
        BY <3>1, <3>2
      <4>4. Promise!Tell(c)
        BY <1>0, <3>1, <3>2, <4>1, <4>2, <4>3 DEF Promise!Tell, Promise!World
      <4> QED BY <4>4 DEF Promise!Next
    <3>3. CASE ~(sent[c] = "no" /\ sent'[c] # "no")
      <4>1. \A d \in Command : sent[d] = "no" <=> sent'[d] = "no"
        BY <3>1, <3>3
      <4>2. Promise!Elsewhere
        BY <1>0, <3>1, <4>1, NoticeElsewhere
      <4> QED BY <4>2 DEF Promise!Next
    <3> QED BY <3>2, <3>3
  <2> QED BY <1>4, <2>1, <2>2, <2>3 DEF Deliver
<1>5. CASE Chat \/ Restart \/ (\E c \in Command : StartWakes(c)) \/ UNCHANGED vars
  <2>1. UNCHANGED <<read, chosen>> /\ wait' \subseteq Command /\ open' \in {open, FALSE}
    BY <1>0, <1>5 DEF Chat, TurnEnds, TurnStopped, TurnCut, TurnOver, PersonWrites, SweepResends,
                      HoldLifts, Archives, Restart, StartWakes, vars
  <2>2. \A d \in Command : /\ row[d] = "none" <=> row'[d] = "none"
                           /\ wake'[d] <=> wake[d]
    <3>1. CASE Restart
      <4>1. \A d \in Command : row'[d] = IF FoundDead(d) THEN "closed" ELSE row[d]
        BY <3>1 DEF Restart
      <4>2. \A d \in Command : wake'[d] <=> IF FoundDead(d) THEN OwedAtBoot(d) ELSE wake[d]
        BY <3>1 DEF Restart
      <4> QED BY <4>1, <4>2 DEF FoundDead, OwedAtBoot, NInv, StoppedOwesNothing
    <3>2. CASE ~Restart
      <4>1. UNCHANGED <<row, wake>>
        BY <1>5, <3>2 DEF Chat, TurnEnds, TurnStopped, TurnCut, PersonWrites, SweepResends,
                          HoldLifts, Archives, StartWakes, vars
      <4> QED BY <4>1
    <3> QED BY <3>1, <3>2
  <2>3. ASSUME NEW d \in Command PROVE sent[d] = "no" <=> sent'[d] = "no"
    <3>1. d = turn => sent[d] # "no"
      BY <1>0 DEF Known, TurnHasItsRow
    <3> QED
      BY <1>5, <3>1 DEF Chat, TurnEnds, TurnStopped, TurnCut, TurnOver, PersonWrites, SweepResends,
                        HoldLifts, Archives, Restart, StartWakes, vars
  <2>4. Promise!Elsewhere
    BY <2>1, <2>2, <2>3, NoticeElsewhere
  <2> QED BY <2>4 DEF Promise!Next
<1> QED
  BY <1>1, <1>3, <1>4, <1>5 DEF Next

-----------------------------------------------------------------------------
(* Theorems *)

LEMMA SpecIInv == Spec => []IInv
<1>1. Init => IInv
  BY ShapeInit, LineInit, KnownInit DEF IInv
<1>2. IInv /\ [Next]_vars => IInv'
  BY ShapeNext, LineNext, KnownNext DEF IInv
<1> QED BY <1>1, <1>2, PTL DEF Spec

(* Every variable keeps the shape the code gives it, and no wake goes out more     *)
(* often after cuts than its budget says (resend_counts of ripresa-boot.ts).       *)
THEOREM WakeShapesAreKept == Spec => []TypeOK
<1>1. IInv => TypeOK
  BY DEF IInv
<1> QED BY <1>1, SpecIInv, PTL

(* For any number of commands that end, are stopped, pruned, refused or found dead *)
(* by a boot, in any order: a wake that is owed is in line exactly once.           *)
THEOREM NoWakeIsForgotten == Spec => []OwedIsInLine
<1>1. IInv => OwedIsInLine
  BY DEF IInv, Line
<1> QED BY <1>1, SpecIInv, PTL

(* No chat is woken for an end one of its turns was given, nor for a command that  *)
(* was stopped (settleWakeReadInTurn, the stop hooks and the loop of a wake).      *)
THEOREM NoEndIsToldTwice == Spec => NotToldTwice
<1>1. IInv /\ [Next]_vars =>
        [\A c \in Command : sent[c] = "no" /\ sent'[c] # "no" => c \notin read \cup chosen]_vars
  BY NothingKnownIsSent DEF IInv
<1> QED BY <1>1, SpecIInv, PTL DEF Spec, NotToldTwice

(* What the chat is promised of the commands it starts is kept through every stop, *)
(* wait, read, copy, outage and restart: each step of the code is a step of the    *)
(* promise EndNotice, so an end is said once at most, to a chat that does not know *)
(* it, and no debt of a wake is ever dropped without one of the reasons it names.  *)
THEOREM WakesKeepTheirNotice == Spec => KeepsNotice
<1>1. Init => Promise!Init
  BY DEF Init, Promise!Init
<1>2. IInv /\ NInv /\ [Next]_vars => [Promise!Next]_(Promise!vars)
  BY NoticeStep
<1>3. Init => NInv
  BY NoticeInit
<1>4. IInv /\ NInv /\ [Next]_vars => NInv'
  BY NoticeNext DEF IInv
<1> QED BY <1>1, <1>2, <1>3, <1>4, SpecIInv, PTL DEF Spec, KeepsNotice, Promise!Spec
=============================================================================
