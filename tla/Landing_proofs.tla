--------------------------- MODULE Landing_proofs ---------------------------
(***************************************************************************)
(* Proofs about Landing, for any cards, commits, presses and faults: the   *)
(* shapes of the variables, the queue of lands, and what the verdicts and  *)
(* the publishes are worth.                                                *)
(***************************************************************************)
EXTENDS Landing, QueueFacts, TLAPS

USE CardNames, LandBounds
USE DEF rowVars, gitVars, agentVars, queueVars, countVars
USE DEF Open, At, Result, Verdict

QInv == TypeOK /\ TicketsAreTheLane

\* The steps of a land in its turn, and those that end it.
InTurn(c) ==
  \/ MergeLands(c) \/ MergeFindsNothing(c) \/ MergeConflicts(c) \/ MergeSkips(c)
  \/ MergeHasNoBranch(c) \/ ProofReads(c) \/ LandCloses(c) \/ Probes(c) \/ Reaps(c) \/ StampAsks(c)

Ends(c) == Stamps(c) \/ StampAnswers(c) \/ Throws(c)

-----------------------------------------------------------------------------
(* Shapes: the steps that do not queue, begin or end a land *)

\* Going on with a land, stamping a card and sending it back keep the shapes.
LEMMA GoesTypes ==
  ASSUME LandTypes, NEW at \in At, NEW res \in Result, Goes(at, res)
  PROVE  LandTypes'
<1>1. land' = [at |-> at, seen |-> 0, res |-> res, got |-> land.got, proof |-> land.proof,
               reap |-> FALSE]
  BY DEF LandTypes, Goes
<1>2. land.got \in 0..MaxWork /\ land.proof \in BOOLEAN
  BY DEF LandTypes
<1> QED
  BY <1>1, <1>2 DEF LandTypes

LEMMA StampedTypes ==
  ASSUME VerdictTypes, NEW c \in Card, NEW v \in Verdict, NEW seen \in 0..MaxWork,
         NEW witness \in BOOLEAN, Stamped(c, v, seen, witness)
  PROVE  VerdictTypes'
<1>1. /\ verdict' \in [Card -> Verdict] /\ spoke' \in [Card -> 0..MaxWork]
      /\ delivered' \in [Card -> 0..MaxWork]
  BY DEF VerdictTypes, Stamped
<1>2. witnessed' \in [Card -> BOOLEAN]
  BY DEF VerdictTypes, Stamped
<1> QED
  BY <1>1, <1>2 DEF VerdictTypes

LEMMA BackToAgentTypes ==
  ASSUME ColumnTypes, VerdictTypes, NEW c \in Card, BackToAgent(c)
  PROVE  ColumnTypes' /\ VerdictTypes'
<1>1. ColumnTypes'
  BY DEF ColumnTypes, BackToAgent, Moved
<1>2. CASE status[c] = "in_progress"
  BY <1>1, <1>2 DEF BackToAgent, VerdictTypes
<1>3. CASE status[c] # "in_progress"
  <2>1. /\ verdict' \in [Card -> Verdict] /\ delivered' \in [Card -> 0..MaxWork]
        /\ spoke' \in [Card -> 0..MaxWork]
    BY <1>3 DEF BackToAgent, VerdictTypes
  <2>2. witnessed' \in [Card -> BOOLEAN]
    BY <1>3 DEF BackToAgent, VerdictTypes
  <2> QED
    BY <1>1, <2>1, <2>2 DEF VerdictTypes
<1> QED
  BY <1>2, <1>3

\* What the repository answers is a verdict, of the delivery asked about or of none; and
\* "landed" only of what main has.
LEMMA AnswersAreTyped ==
  ASSUME NEW c \in Card, NEW k \in 0..MaxWork, NEW v \in Answers(c, k)
  PROVE  v[1] \in Verdict /\ v[2] \in 0..MaxWork
<1>1. 0 \in 0..MaxWork
  OBVIOUS
<1>2. v \in {<<"landed", 0>>, <<"unverifiable", k>>, <<"landed", k>>, <<"unlanded", k>>}
  BY DEF Answers
<1> QED
  BY <1>1, <1>2

LEMMA LandedIsOnMain ==
  ASSUME GitTypes, NEW c \in Card, NEW k \in 0..MaxWork, NEW v \in Answers(c, k), v[1] = "landed"
  PROVE  0 < onMain[c] /\ v[2] <= onMain[c]
<1>1. onMain[c] \in 0..MaxWork /\ k \in Nat
  BY DEF GitTypes
<1>2. CASE onMain[c] > 0 /\ v = <<"landed", 0>>
  BY <1>1, <1>2
<1>3. CASE ~(onMain[c] > 0 /\ v = <<"landed", 0>>)
  <2>1. 0 < k /\ k <= onMain[c] /\ v = <<"landed", k>>
    BY <1>1, <1>3 DEF Answers
  <2> QED
    BY <1>1, <2>1
<1> QED
  BY <1>2, <1>3

LEMMA AgentStepKeepsTypes ==
  ASSUME TypeOK, NEW c \in Card, Agent(c)
  PROVE  TypeOK'
<1> USE DEF TypeOK
<1>1. CASE Resumes(c) \/ Launches(c)
  <2>1. GitTypes'
    BY <1>1 DEF Resumes, Launches, GitTypes
  <2>2. AgentTypes'
    BY <1>1 DEF Resumes, Launches, AgentTypes
  <2>3. UNCHANGED <<rowVars, queueVars, audit, countVars, spoke>>
    BY <1>1 DEF Resumes, Launches
  <2>4. ColumnTypes' /\ VerdictTypes' /\ QueueTypes' /\ LandTypes' /\ AuditTypes'
    BY <2>3 DEF ColumnTypes, VerdictTypes, QueueTypes, LandTypes, AuditTypes
  <2> QED
    BY <2>1, <2>2, <2>4 DEF TypeOK
<1>2. CASE Edits(c)
  <2>1. GitTypes'
    BY <1>2 DEF Edits, GitTypes
  <2>2. ColumnTypes' /\ VerdictTypes' /\ AgentTypes' /\ QueueTypes' /\ LandTypes' /\ AuditTypes'
    BY <1>2 DEF Edits, ColumnTypes, VerdictTypes, AgentTypes, QueueTypes, LandTypes, AuditTypes
  <2> QED
    BY <2>1, <2>2 DEF TypeOK
<1>3. CASE Commits(c)
  <2>1. GitTypes'
    BY <1>3 DEF Commits, MayWrite, GitTypes
  <2>2. ColumnTypes' /\ VerdictTypes' /\ AgentTypes' /\ QueueTypes' /\ LandTypes' /\ AuditTypes'
    BY <1>3 DEF Commits, MayWrite, ColumnTypes, VerdictTypes, AgentTypes, QueueTypes,
                LandTypes, AuditTypes
  <2> QED
    BY <2>1, <2>2 DEF TypeOK
<1>4. CASE EntersReview(c)
  <2>1. ColumnTypes'
    BY <1>4 DEF EntersReview, Moved, Pointer, ColumnTypes, GitTypes
  <2>2. AgentTypes'
    BY <1>4 DEF EntersReview, Moved, Pointer, AgentTypes, GitTypes
  <2>3. VerdictTypes' /\ GitTypes' /\ QueueTypes' /\ LandTypes' /\ AuditTypes'
    BY <1>4 DEF EntersReview, Moved, Pointer, VerdictTypes, GitTypes, QueueTypes, LandTypes,
                AuditTypes
  <2> QED
    BY <2>1, <2>2, <2>3 DEF TypeOK
<1>5. CASE Captures(c)
  <2>1. VerdictTypes'
    BY <1>5 DEF Captures, Recorded, VerdictTypes, AgentTypes
  <2>2. AgentTypes'
    BY <1>5 DEF Captures, Recorded, AgentTypes, AgentTypes
  <2>3. ColumnTypes' /\ GitTypes' /\ QueueTypes' /\ LandTypes' /\ AuditTypes'
    BY <1>5 DEF Captures, Recorded, ColumnTypes, GitTypes, QueueTypes, LandTypes, AuditTypes
  <2> QED
    BY <2>1, <2>2, <2>3 DEF TypeOK
<1>6. CASE TurnEnds(c)
  <2>1. AgentTypes'
    BY <1>6 DEF TurnEnds, AgentTypes
  <2>2. ColumnTypes' /\ VerdictTypes' /\ GitTypes' /\ QueueTypes' /\ LandTypes' /\ AuditTypes'
    BY <1>6 DEF TurnEnds, ColumnTypes, VerdictTypes, GitTypes, QueueTypes, LandTypes, AuditTypes
  <2> QED
    BY <2>1, <2>2 DEF TypeOK
<1> QED
  BY <1>1, <1>2, <1>3, <1>4, <1>5, <1>6 DEF Agent

LEMMA RowStepKeepsTypes ==
  ASSUME TypeOK, NEW c \in Card, Approve(c) \/ SendBack(c) \/ PushEnds(c)
  PROVE  TypeOK'
<1> USE DEF TypeOK
<1>1. CASE Approve(c)
  <2>1. ColumnTypes'
    BY <1>1 DEF Approve, Moved, Stamped, Pressed, ColumnTypes
  <2>2. VerdictTypes'
    BY <1>1 DEF Approve, Moved, Stamped, Pressed, VerdictTypes
  <2>3. AuditTypes'
    BY <1>1 DEF Approve, Moved, Stamped, Pressed, AuditTypes
  <2>4. GitTypes' /\ AgentTypes' /\ QueueTypes' /\ LandTypes'
    BY <1>1 DEF Approve, Moved, Stamped, Pressed, GitTypes, AgentTypes, QueueTypes, LandTypes
  <2> QED
    BY <2>1, <2>2, <2>3, <2>4 DEF TypeOK
<1>2. CASE SendBack(c)
  <2>1. ColumnTypes' /\ VerdictTypes'
    BY <1>2, BackToAgentTypes DEF SendBack
  <2>2. AuditTypes'
    BY <1>2 DEF SendBack, BackToAgent, Moved, Pressed, AuditTypes
  <2>3. GitTypes' /\ AgentTypes' /\ QueueTypes' /\ LandTypes'
    BY <1>2 DEF SendBack, BackToAgent, Moved, Pressed, GitTypes, AgentTypes, QueueTypes,
                LandTypes
  <2> QED
    BY <2>1, <2>2, <2>3 DEF TypeOK
<1>3. CASE PushEnds(c)
  <2>1. QueueTypes'
    BY <1>3 DEF PushEnds, QueueTypes
  <2>2. ColumnTypes' /\ VerdictTypes' /\ GitTypes' /\ AgentTypes' /\ LandTypes' /\ AuditTypes'
    BY <1>3 DEF PushEnds, ColumnTypes, VerdictTypes, GitTypes, AgentTypes, LandTypes, AuditTypes
  <2> QED
    BY <2>1, <2>2 DEF TypeOK
<1> QED
  BY <1>1, <1>2, <1>3

LEMMA AuditStepKeepsTypes ==
  ASSUME TypeOK, NEW c \in Card, Audit(c)
  PROVE  TypeOK'
<1> USE DEF TypeOK
<1>1. CASE Backfills(c)
  <2>1. AgentTypes'
    BY <1>1 DEF Backfills, Pointer, AgentTypes, GitTypes
  <2>2. ColumnTypes' /\ VerdictTypes' /\ GitTypes' /\ QueueTypes' /\ LandTypes' /\ AuditTypes'
    BY <1>1 DEF Backfills, ColumnTypes, VerdictTypes, GitTypes, QueueTypes, LandTypes,
                AuditTypes
  <2> QED
    BY <2>1, <2>2 DEF TypeOK
<1>2. CASE AuditLists(c)
  <2>1. AuditTypes'
    BY <1>2 DEF AuditLists, NoAudit, AuditTypes, VerdictTypes
  <2>2. ColumnTypes' /\ VerdictTypes' /\ GitTypes' /\ AgentTypes' /\ QueueTypes' /\ LandTypes'
    BY <1>2 DEF AuditLists, NoAudit, ColumnTypes, VerdictTypes, GitTypes, AgentTypes,
                QueueTypes, LandTypes
  <2> QED
    BY <2>1, <2>2 DEF TypeOK
<1>3. CASE AuditAnswers(c)
  <2>1. AuditTypes'
    <3>1. audit.commit \in 0..MaxWork
      BY DEF AuditTypes
    <3>2. PICK v \in Answers(c, audit.commit) :
            audit' = [audit EXCEPT !.answer = v[1], !.of = v[2]]
      BY <1>3 DEF AuditAnswers
    <3>3. v[1] \in Verdict /\ v[2] \in 0..MaxWork
      BY <3>1, <3>2, AnswersAreTyped
    <3> QED
      BY <1>3, <3>2, <3>3 DEF AuditAnswers, AuditTypes
  <2>2. ColumnTypes' /\ VerdictTypes' /\ GitTypes' /\ AgentTypes' /\ QueueTypes' /\ LandTypes'
    BY <1>3 DEF AuditAnswers, ColumnTypes, VerdictTypes, GitTypes, AgentTypes, QueueTypes,
                LandTypes
  <2> QED
    BY <2>1, <2>2 DEF TypeOK
<1>4. CASE AuditRecords(c)
  <2>1. VerdictTypes'
    BY <1>4 DEF AuditRecords, Stamped, NoAudit, VerdictTypes, AuditTypes
  <2>2. AuditTypes'
    BY <1>4 DEF AuditRecords, Stamped, NoAudit, AuditTypes, AuditTypes
  <2>3. ColumnTypes' /\ GitTypes' /\ AgentTypes' /\ QueueTypes' /\ LandTypes'
    BY <1>4 DEF AuditRecords, Stamped, NoAudit, ColumnTypes, GitTypes, AgentTypes, QueueTypes,
                LandTypes
  <2> QED
    BY <2>1, <2>2, <2>3 DEF TypeOK
<1> QED
  BY <1>1, <1>2, <1>3, <1>4 DEF Audit

LEMMA TurnStepKeepsTypes ==
  ASSUME TypeOK, NEW c \in Card, InTurn(c)
  PROVE  TypeOK'
<1> USE DEF TypeOK
<1>1. CASE MergeLands(c)
  <2>1. GitTypes'
    BY <1>1 DEF MergeLands, Landing, GitTypes, GitTypes
  <2>2. LandTypes'
    <3>1. land' = [at |-> "proving", seen |-> 0, res |-> "merged", got |-> tip[c],
                         proof |-> land.proof, reap |-> land.reap]
      BY <1>1 DEF MergeLands, LandTypes
    <3>2. tip[c] \in 0..MaxWork /\ land.proof \in BOOLEAN /\ land.reap \in BOOLEAN
      BY DEF GitTypes, LandTypes
    <3> QED
      BY <3>1, <3>2 DEF LandTypes
  <2>3. AuditTypes'
    BY <1>1 DEF MergeLands, Landing, AuditTypes, GitTypes
  <2>4. ColumnTypes' /\ VerdictTypes' /\ AgentTypes' /\ QueueTypes'
    BY <1>1 DEF MergeLands, Landing, ColumnTypes, VerdictTypes, AgentTypes, QueueTypes
  <2> QED
    BY <2>1, <2>2, <2>3, <2>4 DEF TypeOK
<1>2. CASE MergeFindsNothing(c)
  <2>1. LandTypes'
    <3>1. Goes("probing", "nothing")
      BY <1>2 DEF MergeFindsNothing, LandTypes
    <3> QED
      BY <3>1, GoesTypes
  <2>2. ColumnTypes' /\ VerdictTypes' /\ GitTypes' /\ AgentTypes' /\ QueueTypes' /\ AuditTypes'
    BY <1>2 DEF MergeFindsNothing, Landing, Goes, ColumnTypes, VerdictTypes, GitTypes,
                AgentTypes, QueueTypes, AuditTypes
  <2> QED
    BY <2>1, <2>2 DEF TypeOK
<1>3. CASE MergeConflicts(c)
  <2>1. ColumnTypes' /\ VerdictTypes'
    BY <1>3, BackToAgentTypes DEF MergeConflicts
  <2>2. LandTypes'
    <3>1. Goes("stamping", "conflict")
      BY <1>3 DEF MergeConflicts, LandTypes
    <3> QED
      BY <3>1, GoesTypes
  <2>3. GitTypes' /\ AgentTypes' /\ QueueTypes' /\ AuditTypes'
    BY <1>3 DEF MergeConflicts, Landing, Goes, BackToAgent, Moved, GitTypes, AgentTypes,
                QueueTypes, AuditTypes
  <2> QED
    BY <2>1, <2>2, <2>3 DEF TypeOK
<1>4. CASE MergeSkips(c)
  <2>1. ColumnTypes' /\ VerdictTypes'
    <3>1. CASE BackToAgent(c)
      BY <3>1, BackToAgentTypes
    <3>2. CASE ~BackToAgent(c)
      BY <1>4, <3>2 DEF MergeSkips, Moved, ColumnTypes, VerdictTypes
    <3> QED
      BY <3>1, <3>2
  <2>2. LandTypes'
    <3>1. Goes("stamping", "skipped")
      BY <1>4 DEF MergeSkips, LandTypes
    <3> QED
      BY <3>1, GoesTypes
  <2>3. GitTypes' /\ AgentTypes' /\ QueueTypes' /\ AuditTypes'
    BY <1>4 DEF MergeSkips, Landing, Goes, BackToAgent, Moved, GitTypes, AgentTypes,
                QueueTypes, AuditTypes
  <2> QED
    BY <2>1, <2>2, <2>3 DEF TypeOK
<1>5. CASE MergeHasNoBranch(c)
  <2>1. LandTypes'
    BY <1>5 DEF MergeHasNoBranch, Landing, Goes, LandTypes
  <2>2. ColumnTypes' /\ VerdictTypes' /\ GitTypes' /\ AgentTypes' /\ QueueTypes' /\ AuditTypes'
    BY <1>5 DEF MergeHasNoBranch, Landing, Goes, ColumnTypes, VerdictTypes, GitTypes,
                AgentTypes, QueueTypes, AuditTypes
  <2> QED
    BY <2>1, <2>2 DEF TypeOK
<1>6. CASE ProofReads(c)
  <2>1. LandTypes'
    BY <1>6 DEF ProofReads, Landing, LandTypes, GitTypes
  <2>2. AuditTypes'
    BY <1>6 DEF ProofReads, Landing, AuditTypes, GitTypes
  <2>3. ColumnTypes' /\ VerdictTypes' /\ GitTypes' /\ AgentTypes' /\ QueueTypes'
    BY <1>6 DEF ProofReads, Landing, ColumnTypes, VerdictTypes, GitTypes, AgentTypes, QueueTypes
  <2> QED
    BY <2>1, <2>2, <2>3 DEF TypeOK
<1>7. CASE LandCloses(c)
  <2>1. ColumnTypes'
    BY <1>7 DEF LandCloses, Landing, Goes, Moved, ColumnTypes
  <2>2. AgentTypes'
    BY <1>7 DEF LandCloses, Landing, Goes, Moved, AgentTypes
  <2>3. LandTypes'
    <3>1. Goes("probing", "merged")
      BY <1>7 DEF LandCloses, LandTypes
    <3> QED
      BY <3>1, GoesTypes
  <2>4. VerdictTypes' /\ GitTypes' /\ QueueTypes' /\ AuditTypes'
    BY <1>7 DEF LandCloses, Landing, Goes, Moved, VerdictTypes, GitTypes, QueueTypes, AuditTypes
  <2> QED
    BY <2>1, <2>2, <2>3, <2>4 DEF TypeOK
<1>8. CASE Probes(c)
  <2>1. LandTypes'
    BY <1>8 DEF Probes, Landing, LandTypes
  <2>2. ColumnTypes' /\ VerdictTypes' /\ GitTypes' /\ AgentTypes' /\ QueueTypes' /\ AuditTypes'
    BY <1>8 DEF Probes, Landing, ColumnTypes, VerdictTypes, GitTypes, AgentTypes, QueueTypes,
                AuditTypes
  <2> QED
    BY <2>1, <2>2 DEF TypeOK
<1>9. CASE Reaps(c)
  <2>1. GitTypes'
    BY <1>9 DEF Reaps, Landing, Goes, GitTypes
  <2>2. LandTypes'
    <3>1. Goes("stamping", land.res) /\ land.res \in Result
      BY <1>9 DEF Reaps, LandTypes
    <3> QED
      BY <3>1, GoesTypes
  <2>3. ColumnTypes' /\ VerdictTypes' /\ AgentTypes' /\ QueueTypes' /\ AuditTypes'
    BY <1>9 DEF Reaps, Landing, Goes, ColumnTypes, VerdictTypes, AgentTypes, QueueTypes,
                AuditTypes
  <2> QED
    BY <2>1, <2>2, <2>3 DEF TypeOK
<1>10. CASE StampAsks(c)
  <2>1. LandTypes'
    BY <1>10 DEF StampAsks, Landing, LandTypes, VerdictTypes
  <2>2. ColumnTypes' /\ VerdictTypes' /\ GitTypes' /\ AgentTypes' /\ QueueTypes' /\ AuditTypes'
    BY <1>10 DEF StampAsks, Landing, ColumnTypes, VerdictTypes, GitTypes, AgentTypes,
                 QueueTypes, AuditTypes
  <2> QED
    BY <2>1, <2>2 DEF TypeOK
<1> QED
  BY <1>1, <1>2, <1>3, <1>4, <1>5, <1>6, <1>7, <1>8, <1>9, <1>10 DEF InTurn

-----------------------------------------------------------------------------
(* The queue *)

\* A request leaves the lane and its tickets in step, and its head where it was.
LEMMA EnqueuedKeepsLane ==
  ASSUME QueueTypes, TicketsAreTheLane, NEW c \in Card, Enqueued(c)
  PROVE  /\ TicketsAreTheLane' /\ lane' \in Seq(Card) /\ past' = past
         /\ phase' \in [Card -> Open \cup {"none", "settled", "failed"}]
         /\ \A d \in Card : Running(d)' <=> Running(d)
<1> USE DEF QueueTypes, TicketsAreTheLane, Running
<1>1. CASE phase[c] \in Open
  BY <1>1 DEF Enqueued
<1>2. CASE phase[c] \notin Open
  <2>1. /\ lane' = Append(lane, c) /\ land' = land /\ past' = past
        /\ phase' = [phase EXCEPT ![c] = "queued"]
    BY <1>2 DEF Enqueued
  <2>2. /\ lane' \in Seq(Card) /\ ToSet(lane') = ToSet(lane) \cup {c}
        /\ IsInjective(lane')
    BY <1>2, <2>1, AppendQueue
  <2>3. lane' # <<>> /\ (lane # <<>> => Head(lane') = Head(lane))
    <3>1. /\ Len(lane') = Len(lane) + 1 /\ Len(lane) \in Nat
          /\ \A i \in 1 .. Len(lane) : lane'[i] = lane[i]
      BY <2>1, AppendProperties
    <3>2. lane # <<>> => Len(lane) > 0 /\ Head(lane) = lane[1]
      BY EmptySeq, HeadTailProperties
    <3>3. lane' # <<>> /\ Head(lane') = lane'[1]
      BY <2>2, <3>1, EmptySeq, HeadTailProperties
    <3> QED
      BY <3>1, <3>2, <3>3
  <2>4. \A d \in Card : Running(d)' <=> Running(d)
    BY <2>1, <2>3
  <2>5. \A d \in Card : phase'[d] = "running" <=> Running(d)'
    <3> SUFFICES ASSUME NEW d \in Card PROVE phase'[d] = "running" <=> Running(d)'
      OBVIOUS
    <3>1. phase'[d] = "running" <=> phase[d] = "running"
      BY <1>2, <2>1
    <3> QED
      BY <3>1, <2>4
  <2>6. \A d \in Card : phase'[d] \in Open <=> d \in ToSet(lane')
    BY <2>1, <2>2
  <2>7. phase' \in [Card -> Open \cup {"none", "settled", "failed"}]
    BY <2>1
  <2>8. land'.at # "idle" => lane' # <<>>
    BY <2>3
  <2> QED
    BY <2>1, <2>2, <2>4, <2>5, <2>6, <2>7, <2>8
<1> QED
  BY <1>1, <1>2

\* A land that closes takes its card out of the lane and of the open tickets.
LEMMA ClosesKeepsLane ==
  ASSUME QueueTypes, TicketsAreTheLane, NEW c \in Card, Running(c),
         NEW ph \in {"settled", "failed"}, Closes(c, ph)
  PROVE  /\ TicketsAreTheLane' /\ QueueTypes' /\ land' = NoLand
         /\ \A d \in Card : ~Running(d)'
<1> USE DEF QueueTypes
<1>1. /\ lane' = Tail(lane) /\ land' = NoLand /\ land'.at = "idle"
      /\ past' = IF Len(past) = HistoryCap THEN Tail(Append(past, c)) ELSE Append(past, c)
  BY DEF Closes, NoLand
<1>2. /\ phase' \in [Card -> Open \cup {"none", "settled", "failed"}]
      /\ phase'[c] = ph
      /\ \A d \in Card \ {c} :
           phase'[d] = phase[d] \/ (phase[d] \notin Open /\ phase'[d] = "none")
  <2> DEFINE full == Len(past) = HistoryCap
             gone == IF full THEN {d \in Card : d = Head(past) /\ d # c /\ phase[d] \notin Open}
                     ELSE {}
  <2>1. phase' = [d \in Card |-> IF d = c THEN ph ELSE IF d \in gone THEN "none" ELSE phase[d]]
    BY Zenon DEF Closes
  <2>2. \A d \in gone : phase[d] \notin Open
    OBVIOUS
  <2> HIDE DEF gone
  <2>3. \A d \in Card : phase'[d] = IF d = c THEN ph ELSE IF d \in gone THEN "none" ELSE phase[d]
    BY <2>1
  <2>4. \A d \in Card : phase'[d] \in Open \cup {"none", "settled", "failed"}
    BY <2>3
  <2>5. phase' \in [Card -> Open \cup {"none", "settled", "failed"}]
    BY <2>1, <2>3, <2>4
  <2>6. phase'[c] = ph
    BY <2>3
  <2>7. ASSUME NEW d \in Card \ {c}
        PROVE  phase'[d] = phase[d] \/ (phase[d] \notin Open /\ phase'[d] = "none")
    <3>1. CASE d \in gone
      BY <3>1, <2>2, <2>3
    <3>2. CASE d \notin gone
      BY <3>2, <2>3
    <3> QED
      BY <3>1, <3>2
  <2> QED
    BY <2>5, <2>6, <2>7
<1>3. lane # <<>> /\ Head(lane) = c
  BY DEF Running
<1>4. /\ lane' \in Seq(Card) /\ IsInjective(lane')
      /\ ToSet(lane) = {c} \cup ToSet(lane') /\ c \notin ToSet(lane')
  BY <1>1, <1>3, TailQueue DEF TicketsAreTheLane
<1>5. \A d \in Card : ~Running(d)'
  BY <1>1 DEF Running
<1>6. \A d \in Card : phase'[d] \in Open <=> d \in ToSet(lane')
  BY <1>2, <1>4 DEF TicketsAreTheLane
<1>7. \A d \in Card : phase'[d] # "running"
  BY <1>2, <1>3 DEF TicketsAreTheLane, Running
<1>8. past' \in Seq(Card) /\ Len(past') <= HistoryCap
  <2>1. /\ Append(past, c) \in Seq(Card) /\ Len(Append(past, c)) = Len(past) + 1
        /\ Len(past) \in Nat
    BY AppendProperties
  <2>2. Len(past) = HistoryCap =>
          /\ Tail(Append(past, c)) \in Seq(Card)
          /\ Len(Tail(Append(past, c))) = Len(Append(past, c)) - 1
    BY <2>1, EmptySeq, HeadTailProperties
  <2> QED
    BY <1>1, <2>1, <2>2
<1>9. push' \in [Card -> {"no", "waiting", "pushing"}]
  BY DEF Closes
<1> QED
  BY <1>1, <1>2, <1>4, <1>5, <1>6, <1>7, <1>8, <1>9 DEF TicketsAreTheLane

LEMMA QueueStarts == Init => QInv
<1> SUFFICES ASSUME Init PROVE QInv
  OBVIOUS
<1> USE DEF Init
<1>1. ColumnTypes /\ VerdictTypes
  BY DEF ColumnTypes, VerdictTypes
<1>2. GitTypes /\ AgentTypes
  BY DEF GitTypes, AgentTypes
<1>3. QueueTypes
  BY DEF QueueTypes
<1>4. LandTypes /\ AuditTypes
  BY DEF LandTypes, AuditTypes, NoLand, NoAudit
<1>5. TicketsAreTheLane
  BY EmptyQueue DEF TicketsAreTheLane, Running, NoLand
<1> QED
  BY <1>1, <1>2, <1>3, <1>4, <1>5 DEF QInv, TypeOK

\* What the agent, the deliveries, the audit and the end of a push do is not about the queue.
LEMMA CardStepKeepsQueue ==
  ASSUME QInv, NEW c \in Card,
         Agent(c) \/ Approve(c) \/ SendBack(c) \/ PushEnds(c) \/ Audit(c)
  PROVE  QInv' /\ UNCHANGED <<lane, phase, land, past>>
<1>1. lane' = lane /\ phase' = phase /\ land' = land /\ past' = past
  BY DEF Agent, Audit, Resumes, Launches, Edits, Commits, EntersReview, Captures, TurnEnds,
         Approve,
         SendBack, PushEnds, Backfills, AuditLists, AuditAnswers, AuditRecords
<1>2. TicketsAreTheLane'
  BY <1>1 DEF QInv, TicketsAreTheLane, Running
<1>3. TypeOK'
  BY AgentStepKeepsTypes, RowStepKeepsTypes, AuditStepKeepsTypes DEF QInv
<1> QED
  BY <1>1, <1>2, <1>3 DEF QInv

LEMMA RequestKeepsQueue ==
  ASSUME QInv, NEW c \in Card, PressLand(c) \/ PressPublish(c) \/ DragDone(c)
  PROVE  QInv' /\ (\A d \in Card : Running(d)' <=> Running(d)) /\ land' = land
<1>1. ColumnTypes' /\ AuditTypes'
  BY DEF QInv, TypeOK, ColumnTypes, AuditTypes, PressLand, PressPublish, DragDone, Moved,
         Pressed
<1>2. VerdictTypes'
  <2>1. CASE Enqueued(c)
    <3>1. \E v \in Verdict : Stamped(c, v, 0, FALSE)
      BY <2>1 DEF Enqueued
    <3>2. 0 \in 0..MaxWork
      OBVIOUS
    <3> QED
      BY <3>1, <3>2, StampedTypes DEF QInv, TypeOK
  <2>2. CASE ~Enqueued(c)
    BY <2>2 DEF QInv, TypeOK, VerdictTypes, PressLand, PressPublish, DragDone
  <2> QED
    BY <2>1, <2>2
<1>3. land' = land /\ UNCHANGED <<gitVars, agentVars>>
  BY DEF PressLand, PressPublish, DragDone, Enqueued
<1>4. GitTypes' /\ AgentTypes' /\ LandTypes'
  BY <1>3 DEF QInv, TypeOK, GitTypes, AgentTypes, LandTypes
<1>5. push' \in [Card -> {"no", "waiting", "pushing"}]
  BY DEF QInv, TypeOK, QueueTypes, PressLand, PressPublish, DragDone
<1>6. TicketsAreTheLane' /\ QueueTypes' /\ \A d \in Card : Running(d)' <=> Running(d)
  <2>1. CASE Enqueued(c)
    <3>1. /\ TicketsAreTheLane' /\ lane' \in Seq(Card) /\ past' = past
          /\ phase' \in [Card -> Open \cup {"none", "settled", "failed"}]
          /\ \A d \in Card : Running(d)' <=> Running(d)
      BY <2>1, EnqueuedKeepsLane DEF QInv, TypeOK, Enqueued
    <3> QED
      BY <3>1, <1>5 DEF QInv, TypeOK, QueueTypes
  <2>2. CASE ~Enqueued(c)
    <3>1. UNCHANGED <<lane, phase, past, land>>
      BY <2>2 DEF PressLand, PressPublish, DragDone
    <3> QED
      BY <3>1, <1>5 DEF QInv, TypeOK, QueueTypes, TicketsAreTheLane, Running
  <2> QED
    BY <2>1, <2>2
<1> QED
  BY <1>1, <1>2, <1>3, <1>4, <1>6 DEF QInv, TypeOK

LEMMA TurnStepKeepsQueue ==
  ASSUME QInv, NEW c \in Card, InTurn(c)
  PROVE  /\ QInv' /\ Running(c) /\ UNCHANGED <<lane, phase, past, push, audit>>
         /\ \A d \in Card : Running(d)' <=> Running(d)
<1>1. TypeOK'
  BY TurnStepKeepsTypes DEF QInv
<1>2. UNCHANGED <<lane, phase, past, push, audit>> /\ Running(c)
  BY DEF InTurn, Landing, MergeLands, MergeFindsNothing, MergeConflicts, MergeSkips,
         MergeHasNoBranch, ProofReads, LandCloses, Probes, Reaps, StampAsks
<1>3. land'.at # "idle"
  BY DEF QInv, TypeOK, LandTypes, InTurn, Goes, MergeLands, MergeFindsNothing, MergeConflicts,
         MergeSkips, MergeHasNoBranch, ProofReads, LandCloses, Probes, Reaps, StampAsks
<1>4. \A d \in Card : Running(d)' <=> Running(d)
  BY <1>2, <1>3 DEF Running
<1>5. TicketsAreTheLane'
  BY <1>2, <1>4 DEF QInv, TicketsAreTheLane, Running
<1> QED
  BY <1>1, <1>2, <1>4, <1>5 DEF QInv

LEMMA BeginsKeepsQueue ==
  ASSUME QInv, NEW c \in Card, Begins(c)
  PROVE  QInv' /\ Running(c)' /\ \A d \in Card : Running(d)' => d = c
<1>1. lane # <<>> /\ Head(lane) = c /\ land.at = "idle" /\ lane' = lane /\ past' = past
  BY DEF Begins
<1>2. phase' = [phase EXCEPT ![c] = "running"] /\ land'.at = "merging"
  BY DEF Begins, NoLand
<1>3. c \in ToSet(lane)
  BY <1>1, TailQueue DEF QInv, TypeOK, QueueTypes
<1>4. Running(c)' /\ \A d \in Card : Running(d)' <=> d = c
  BY <1>1, <1>2 DEF Running
<1>5. TicketsAreTheLane'
  <2>1. \A d \in Card : phase'[d] \in Open <=> d \in ToSet(lane')
    BY <1>1, <1>2, <1>3 DEF QInv, TypeOK, QueueTypes, TicketsAreTheLane
  <2>2. \A d \in Card : phase[d] # "running"
    BY <1>1 DEF QInv, TicketsAreTheLane, Running
  <2>3. \A d \in Card : phase'[d] = "running" <=> Running(d)'
    BY <1>2, <1>4, <2>2 DEF QInv, TypeOK, QueueTypes
  <2> QED
    BY <1>1, <2>1, <2>3 DEF QInv, TicketsAreTheLane
<1>6. ColumnTypes' /\ VerdictTypes' /\ GitTypes' /\ AgentTypes' /\ AuditTypes'
  BY DEF Begins, QInv, TypeOK, ColumnTypes, VerdictTypes, GitTypes, AgentTypes, AuditTypes
<1>7. QueueTypes'
  BY DEF Begins, QInv, TypeOK, QueueTypes
<1>8. LandTypes'
  <2>1. /\ land' = [at |-> "merging", seen |-> delivered[c], res |-> "none", got |-> 0,
                    proof |-> FALSE, reap |-> FALSE]
        /\ delivered[c] \in 0..MaxWork
    BY DEF Begins, NoLand, QInv, TypeOK, VerdictTypes
  <2> QED
    BY <2>1 DEF LandTypes
<1> QED
  BY <1>4, <1>5, <1>6, <1>7, <1>8 DEF QInv, TypeOK

LEMMA EndKeepsQueue ==
  ASSUME QInv, NEW c \in Card, Ends(c)
  PROVE  QInv' /\ Running(c) /\ \A d \in Card : ~Running(d)'
<1>1. PICK ph \in {"settled", "failed"} : Running(c) /\ Closes(c, ph)
  BY DEF Ends, Stamps, StampAnswers, Throws, Landing
<1>2. /\ TicketsAreTheLane' /\ QueueTypes' /\ land' = NoLand
      /\ \A d \in Card : ~Running(d)'
  BY <1>1, ClosesKeepsLane DEF QInv, TypeOK
<1>3. LandTypes'
  BY <1>2 DEF LandTypes, NoLand
<1>4. ColumnTypes' /\ VerdictTypes'
  <2>1. CASE Stamps(c)
    <3>1. ColumnTypes' /\ land.got \in 0..MaxWork
      BY <2>1 DEF Stamps, QInv, TypeOK, ColumnTypes, LandTypes
    <3>2. \E v \in Verdict : Stamped(c, v, land.got, TRUE)
      BY <2>1 DEF Stamps
    <3> QED
      BY <3>1, <3>2, StampedTypes DEF QInv, TypeOK
  <2>2. CASE StampAnswers(c)
    <3>1. ColumnTypes' /\ land.seen \in 0..MaxWork
      BY <2>2 DEF StampAnswers, QInv, TypeOK, ColumnTypes, LandTypes
    <3>2. \/ UNCHANGED <<delivered, verdict, witnessed, spoke>>
          \/ \E w \in Verdict, k \in 0..MaxWork : Stamped(c, w, k, FALSE)
      BY <2>2, <3>1, AnswersAreTyped DEF StampAnswers
    <3> QED
      BY <3>1, <3>2, StampedTypes DEF QInv, TypeOK, VerdictTypes
  <2>3. CASE Throws(c)
    <3>1. CASE BackToAgent(c)
      BY <3>1, BackToAgentTypes DEF QInv, TypeOK
    <3>2. CASE ~BackToAgent(c)
      <4>1. UNCHANGED <<status, doneActor>> /\ \E v \in Verdict : Stamped(c, v, 0, TRUE)
        BY <2>3, <3>2 DEF Throws
      <4>2. 0 \in 0..MaxWork
        OBVIOUS
      <4>3. VerdictTypes'
        BY <4>1, <4>2, StampedTypes DEF QInv, TypeOK
      <4> QED
        BY <4>1, <4>3 DEF QInv, TypeOK, ColumnTypes
    <3> QED
      BY <3>1, <3>2
  <2> QED
    BY <2>1, <2>2, <2>3 DEF Ends
<1>5. GitTypes' /\ AgentTypes' /\ AuditTypes'
  <2>1. /\ UNCHANGED <<gitVars, agentVars, audit, presses>>
        /\ faults' = faults \/ (faults < MaxFaults /\ faults' = faults + 1)
    BY DEF Ends, Stamps, StampAnswers, Throws
  <2> QED
    BY <2>1 DEF QInv, TypeOK, GitTypes, AgentTypes, AuditTypes
<1> QED
  BY <1>1, <1>2, <1>3, <1>4, <1>5 DEF QInv, TypeOK

LEMMA RestartKeepsQueue ==
  ASSUME QInv, Restart
  PROVE  QInv'
<1>1. ColumnTypes' /\ VerdictTypes' /\ GitTypes' /\ AgentTypes'
  BY DEF Restart, QInv, TypeOK, ColumnTypes, VerdictTypes, GitTypes, AgentTypes
<1>2. QueueTypes' /\ LandTypes' /\ AuditTypes'
  BY DEF Restart, QInv, TypeOK, QueueTypes, LandTypes, AuditTypes, NoLand, NoAudit
<1>3. TicketsAreTheLane'
  BY EmptyQueue DEF Restart, TicketsAreTheLane, Running, NoLand
<1> QED
  BY <1>1, <1>2, <1>3 DEF QInv, TypeOK

LEMMA StillKeepsQueue == ASSUME QInv, UNCHANGED vars PROVE QInv'
<1>1. TypeOK'
  BY DEF vars, QInv, TypeOK, ColumnTypes, VerdictTypes, GitTypes, AgentTypes, QueueTypes,
         LandTypes, AuditTypes
<1>2. TicketsAreTheLane'
  BY DEF vars, QInv, TicketsAreTheLane, Running
<1> QED
  BY <1>1, <1>2 DEF QInv

LEMMA QueueStep == QInv /\ [Next]_vars => QInv'
<1> SUFFICES ASSUME QInv, [Next]_vars PROVE QInv'
  OBVIOUS
<1>1. ASSUME NEW c \in Card, LandStep(c) PROVE QInv'
  BY <1>1, BeginsKeepsQueue, TurnStepKeepsQueue, EndKeepsQueue DEF LandStep, InTurn, Ends
<1>2. ASSUME NEW c \in Card, Throws(c) PROVE QInv'
  BY <1>2, EndKeepsQueue DEF Ends
<1>3. ASSUME NEW c \in Card, PushEnds(c) \/ Agent(c) \/ Audit(c) PROVE QInv'
  BY <1>3, CardStepKeepsQueue
<1>4. ASSUME NEW c \in Card, Person(c) PROVE QInv'
  BY <1>4, CardStepKeepsQueue, RequestKeepsQueue DEF Person
<1>5. CASE Restart
  BY <1>5, RestartKeepsQueue
<1>6. CASE UNCHANGED vars
  BY <1>6, StillKeepsQueue
<1> QED
  BY <1>1, <1>2, <1>3, <1>4, <1>5, <1>6 DEF Next

(* The state keeps its shape, and the closed tickets their window. *)
THEOREM LandShapesAreKept == Spec => []TypeOK
<1>1. QInv => TypeOK
  BY DEF QInv
<1> QED
  BY <1>1, QueueStarts, QueueStep, PTL DEF Spec

(* The open tickets are the lands in line, through errors, repeats and restarts. *)
THEOREM TheQueueIsTrue == Spec => []TicketsAreTheLane
<1>1. QInv => TicketsAreTheLane
  BY DEF QInv
<1> QED
  BY <1>1, QueueStarts, QueueStep, PTL DEF Spec

-----------------------------------------------------------------------------
(* What a verdict and a publish are worth *)

\* What the land at work knows of its card stays so until it uses it.
LandKnows ==
  \A c \in Card : Running(c) =>
    /\ land.at = "proving" => 0 < land.got
    /\ land.at \in {"merging", "proving"} => ~land.proof
    /\ land.proof => 0 < land.got /\ land.got <= onMain[c]

\* And so does the answer the audit has not written yet.
AuditKnows ==
  \A c \in Card :
    audit.card = c /\ audit.answer = "landed" => 0 < onMain[c] /\ audit.of <= onMain[c]

KInv == LandKnows /\ AuditKnows /\ VerdictIsTrue /\ PublishedIsOnMain

Step(c) == LandStep(c) \/ Throws(c) \/ PushEnds(c) \/ Agent(c) \/ Person(c) \/ Audit(c)

LEMMA KnowledgeStarts == Init => KInv
<1> SUFFICES ASSUME Init PROVE KInv
  OBVIOUS
<1> USE DEF Init
<1>1. LandKnows /\ AuditKnows
  BY DEF LandKnows, AuditKnows, Running, NoLand, NoAudit
<1>2. VerdictIsTrue /\ PublishedIsOnMain
  BY DEF VerdictIsTrue, PublishedIsOnMain
<1> QED
  BY <1>1, <1>2 DEF KInv

\* Only one card is in its turn.
LEMMA OneAtATime ==
  ASSUME NEW c \in Card, NEW d \in Card, Running(c), Running(d)
  PROVE  c = d
  BY DEF Running

\* A verdict is true when it is written, and main only grows.
LEMMA VerdictStep ==
  ASSUME QInv, KInv, NEW c \in Card, Step(c)
  PROVE  VerdictIsTrue'
<1>1. CASE Captures(c) \/ Backfills(c) \/ MergeConflicts(c) \/ MergeSkips(c) \/ SendBack(c)
         \/ Throws(c) \/ Approve(c) \/ PressLand(c) \/ PressPublish(c) \/ DragDone(c)
  <2>1. onMain' = onMain
    BY <1>1 DEF Captures, Backfills, MergeConflicts, MergeSkips, SendBack, Throws, Approve,
         PressLand, PressPublish, DragDone
  <2>2. \/ UNCHANGED <<verdict, spoke>>
        \/ \E v \in Verdict \ {"landed"} : verdict' = [verdict EXCEPT ![c] = v] /\ spoke' = [spoke EXCEPT ![c] = 0]
    BY <1>1 DEF Captures, Backfills, MergeConflicts, MergeSkips, SendBack, Throws, Approve,
         PressLand, PressPublish, DragDone, Recorded, BackToAgent, Stamped, Enqueued
  <2> QED
    BY <2>1, <2>2 DEF VerdictIsTrue, KInv, QInv, TypeOK, VerdictTypes
<1>2. CASE MergeLands(c)
  BY <1>2 DEF MergeLands, VerdictIsTrue, KInv, QInv, TypeOK, GitTypes, VerdictTypes
<1>3. CASE Stamps(c)
  <2>1. /\ onMain' = onMain /\ Running(c) /\ land.got \in 0..MaxWork
        /\ land.proof => 0 < land.got /\ land.got <= onMain[c]
    BY <1>3 DEF Stamps, Landing, LandKnows, KInv, QInv, TypeOK, LandTypes
  <2>2. \E v \in Verdict : /\ v = "landed" => land.proof
                          /\ verdict' = [verdict EXCEPT ![c] = v]
                          /\ spoke' = [spoke EXCEPT ![c] = land.got]
    <3>1. CASE land.res = "merged" /\ land.proof
      <4>1. Stamped(c, "landed", land.got, TRUE)
        BY <1>3, <3>1 DEF Stamps
      <4> QED
        BY <3>1, <4>1 DEF Stamped, Verdict
    <3>2. CASE land.res = "merged" /\ ~land.proof
      <4>1. Stamped(c, "unverifiable", land.got, TRUE)
        BY <1>3, <3>2 DEF Stamps
      <4> QED
        BY <4>1 DEF Stamped, Verdict
    <3>3. CASE land.res # "merged"
      <4>1. Stamped(c, "unlanded", land.got, TRUE)
        BY <1>3, <3>3 DEF Stamps
      <4> QED
        BY <4>1 DEF Stamped, Verdict
    <3> QED
      BY <3>1, <3>2, <3>3
  <2>3. PICK v \in Verdict : /\ v = "landed" => land.proof
                            /\ verdict' = [verdict EXCEPT ![c] = v]
                            /\ spoke' = [spoke EXCEPT ![c] = land.got]
    BY <2>2
  <2>4. v = "landed" => 0 < onMain[c] /\ land.got <= onMain[c]
    BY <2>1, <2>3, SMT DEF KInv, QInv, TypeOK, GitTypes
  <2> QED
    BY <2>1, <2>3, <2>4 DEF VerdictIsTrue, KInv, QInv, TypeOK, VerdictTypes
<1>4. CASE StampAnswers(c)
  <2>1. onMain' = onMain /\ land.seen \in 0..MaxWork
    BY <1>4 DEF StampAnswers, QInv, TypeOK, LandTypes
  <2>2. CASE UNCHANGED <<verdict, spoke>>
    BY <2>1, <2>2 DEF VerdictIsTrue, KInv
  <2>3. CASE ~UNCHANGED <<verdict, spoke>>
    <3>1. PICK v \in Answers(c, land.seen) :
            verdict' = [verdict EXCEPT ![c] = v[1]] /\ spoke' = [spoke EXCEPT ![c] = v[2]]
      BY <1>4, <2>3 DEF StampAnswers, Stamped
    <3>2. v[1] = "landed" => 0 < onMain[c] /\ v[2] <= onMain[c]
      BY <2>1, <3>1, LandedIsOnMain DEF QInv, TypeOK
    <3> QED
      BY <2>1, <3>1, <3>2 DEF VerdictIsTrue, KInv, QInv, TypeOK, VerdictTypes
  <2> QED
    BY <2>2, <2>3
<1>5. CASE AuditRecords(c)
  BY <1>5 DEF AuditRecords, Stamped, AuditKnows, VerdictIsTrue, KInv, QInv, TypeOK,
              VerdictTypes, AuditTypes
<1>6. CASE \/ Begins(c) \/ MergeFindsNothing(c) \/ MergeHasNoBranch(c) \/ ProofReads(c)
          \/ LandCloses(c) \/ Probes(c) \/ Reaps(c) \/ StampAsks(c) \/ PushEnds(c)
          \/ Resumes(c) \/ Launches(c) \/ Edits(c) \/ Commits(c) \/ EntersReview(c) \/ TurnEnds(c)
          \/ AuditLists(c) \/ AuditAnswers(c)
  <2>1. UNCHANGED <<verdict, spoke, onMain>>
    BY <1>6 DEF Begins, MergeFindsNothing, MergeHasNoBranch, ProofReads, LandCloses, Probes,
         Reaps, StampAsks, PushEnds, Resumes, Launches, Edits, Commits, EntersReview, TurnEnds,
         AuditLists, AuditAnswers
  <2> QED
    BY <2>1 DEF VerdictIsTrue, KInv
<1> QED
  BY <1>1, <1>2, <1>3, <1>4, <1>5, <1>6 DEF Step, LandStep, Agent, Person, Audit

\* What the audit holds of a card stays true.
LEMMA AuditStep ==
  ASSUME QInv, KInv, NEW c \in Card, Step(c)
  PROVE  AuditKnows'
<1>1. CASE MergeLands(c)
  BY <1>1 DEF MergeLands, AuditKnows, KInv, QInv, TypeOK, GitTypes, AuditTypes
<1>2. CASE AuditLists(c)
  BY <1>2 DEF AuditLists, NoAudit, AuditKnows
<1>3. CASE AuditAnswers(c)
  <2>1. /\ audit.commit \in 0..MaxWork /\ audit.card = c /\ onMain' = onMain
    BY <1>3 DEF AuditAnswers, QInv, TypeOK, AuditTypes
  <2>2. PICK v \in Answers(c, audit.commit) :
          audit' = [audit EXCEPT !.answer = v[1], !.of = v[2]]
    BY <1>3 DEF AuditAnswers
  <2>3. v[1] = "landed" => 0 < onMain[c] /\ v[2] <= onMain[c]
    BY <2>1, <2>2, LandedIsOnMain DEF QInv, TypeOK
  <2>4. audit'.card = c /\ audit'.of = v[2] /\ audit'.answer = v[1]
    BY <2>1, <2>2 DEF QInv, TypeOK, AuditTypes
  <2> QED
    BY <2>1, <2>3, <2>4 DEF AuditKnows
<1>4. CASE AuditRecords(c)
  BY <1>4 DEF AuditRecords, NoAudit, AuditKnows
<1>5. CASE \/ Begins(c) \/ MergeFindsNothing(c) \/ MergeConflicts(c) \/ MergeSkips(c)
          \/ MergeHasNoBranch(c) \/ ProofReads(c) \/ LandCloses(c) \/ Probes(c) \/ Reaps(c)
          \/ Stamps(c) \/ StampAsks(c) \/ StampAnswers(c) \/ Throws(c) \/ PushEnds(c) \/ Resumes(c) \/ Launches(c)
          \/ Edits(c) \/ Commits(c)
          \/ EntersReview(c) \/ Captures(c) \/ TurnEnds(c) \/ PressLand(c) \/ PressPublish(c)
          \/ Approve(c) \/ DragDone(c) \/ SendBack(c) \/ Backfills(c)
  <2>1. UNCHANGED <<onMain, audit>>
    BY <1>5 DEF Resumes, Launches, Commits, Begins, MergeFindsNothing, MergeConflicts,
                MergeSkips, MergeHasNoBranch,
         ProofReads, LandCloses, Probes, Reaps, Stamps, StampAsks, StampAnswers, Throws,
         PushEnds, Edits, EntersReview, Captures, TurnEnds, PressLand, PressPublish, Approve,
         DragDone, SendBack, Backfills, Enqueued
  <2> QED
    BY <2>1 DEF AuditKnows, KInv
<1> QED
  BY <1>1, <1>2, <1>3, <1>4, <1>5 DEF Step, LandStep, Agent, Person, Audit

\* What the land knows stays true until it uses it.
LEMMA LandKnowsStep ==
  ASSUME QInv, KInv, NEW c \in Card, Step(c)
  PROVE  LandKnows'
<1>1. CASE Begins(c)
  <2>1. /\ Running(c)' /\ \A d \in Card : Running(d)' => d = c
    BY <1>1, BeginsKeepsQueue
  <2>2. /\ land' = [NoLand EXCEPT !.at = "merging", !.seen = delivered[c]]
    BY <1>1 DEF Begins
  <2>3. land'.at = "merging" /\ ~land'.proof
    BY <2>2 DEF NoLand
  <2> QED
    BY <2>1, <2>3 DEF LandKnows
<1>2. CASE MergeLands(c) \/ MergeFindsNothing(c) \/ MergeConflicts(c) \/ MergeSkips(c)
         \/ MergeHasNoBranch(c) \/ ProofReads(c) \/ LandCloses(c) \/ Probes(c) \/ Reaps(c) \/ StampAsks(c)
  <2>1. /\ Running(c) /\ \A d \in Card : Running(d)' <=> Running(d)
    BY <1>2, TurnStepKeepsQueue DEF InTurn
  <2>2. /\ \A d \in Card : Running(d)' => d = c
        /\ land.at = "proving" => 0 < land.got
        /\ land.proof => 0 < land.got /\ land.got <= onMain[c]
    BY <2>1, OneAtATime DEF LandKnows, KInv
  <2>3. land \in [at : At, seen : 0..MaxWork, res : Result, got : 0..MaxWork,
                  proof : BOOLEAN, reap : BOOLEAN]
    BY DEF QInv, TypeOK, LandTypes
  <2>4. CASE MergeLands(c)
    <3>1. /\ land'.at = "proving" /\ land'.got = tip[c]
          /\ land'.proof = land.proof /\ 0 < tip[c]
      BY <2>3, <2>4 DEF MergeLands, QInv, TypeOK, GitTypes
    <3>2. ~land.proof
      BY <2>1, <2>4 DEF MergeLands, Landing, LandKnows, KInv
    <3> QED
      BY <2>2, <3>1, <3>2 DEF LandKnows, QInv, TypeOK, GitTypes
  <2>5. CASE \/ MergeFindsNothing(c) \/ MergeConflicts(c) \/ MergeSkips(c)
             \/ MergeHasNoBranch(c) \/ LandCloses(c) \/ Reaps(c)
    <3>1. /\ \E at \in {"probing", "stamping"}, res \in Result : Goes(at, res)
          /\ onMain' = onMain
      BY <2>3, <2>5 DEF MergeFindsNothing, MergeConflicts, MergeSkips, MergeHasNoBranch,
           LandCloses, Reaps, Result
    <3>2. /\ land'.at \in {"probing", "stamping"}
          /\ land'.proof = land.proof /\ land'.got = land.got
      BY <2>3, <3>1 DEF Goes
    <3> QED
      BY <2>2, <3>1, <3>2 DEF LandKnows, QInv, TypeOK, GitTypes
  <2>6. CASE ProofReads(c)
    <3>1. /\ land'.at \in {"closing", "stamping"} /\ land.at = "proving"
          /\ land'.got = land.got /\ onMain' = onMain
          /\ land'.proof = land.proof \/ land.got <= onMain[c]
      BY <2>3, <2>6 DEF ProofReads, Landing
    <3> QED
      BY <2>2, <3>1 DEF LandKnows, QInv, TypeOK, GitTypes
  <2>7. CASE Probes(c) \/ StampAsks(c)
    <3>1. /\ land'.at \in {"reaping", "asking"} /\ land'.got = land.got
          /\ land'.proof = land.proof /\ onMain' = onMain
      BY <2>3, <2>7 DEF Probes, StampAsks
    <3> QED
      BY <2>2, <3>1 DEF LandKnows
  <2> QED
    BY <1>2, <2>4, <2>5, <2>6, <2>7
<1>3. CASE Stamps(c) \/ StampAnswers(c) \/ Throws(c)
  <2>1. \A d \in Card : ~Running(d)'
    BY <1>3, EndKeepsQueue DEF Ends
  <2> QED
    BY <2>1 DEF LandKnows
<1>4. CASE PressLand(c) \/ PressPublish(c) \/ DragDone(c)
  <2>1. (\A d \in Card : Running(d)' <=> Running(d)) /\ land' = land
    BY <1>4, RequestKeepsQueue
  <2>2. onMain' = onMain
    BY <1>4 DEF PressLand, PressPublish, DragDone
  <2> QED
    BY <2>1, <2>2 DEF LandKnows, KInv
<1>5. CASE \/ PushEnds(c) \/ Resumes(c) \/ Launches(c) \/ Edits(c) \/ Commits(c)
         \/ EntersReview(c)
          \/ Captures(c) \/ TurnEnds(c) \/ Approve(c) \/ SendBack(c) \/ Backfills(c)
          \/ AuditLists(c) \/ AuditAnswers(c) \/ AuditRecords(c)
  <2>1. UNCHANGED <<onMain, lane, land>>
    BY <1>5 DEF PushEnds, Resumes, Launches, Edits, Commits, EntersReview, Captures, TurnEnds,
                Approve,
         SendBack, Backfills, AuditLists, AuditAnswers, AuditRecords
  <2> QED
    BY <2>1 DEF LandKnows, Running, KInv
<1> QED
  BY <1>1, <1>2, <1>3, <1>4, <1>5 DEF Step, LandStep, Agent, Person, Audit

\* A publish is let through on a verdict that is true.
LEMMA PublishStep ==
  ASSUME QInv, KInv, NEW c \in Card, Step(c)
  PROVE  PublishedIsOnMain'
<1>1. CASE Stamps(c) \/ StampAnswers(c) \/ Throws(c)
  <2>1. VerdictIsTrue'
    BY VerdictStep
  <2>2. PICK ph \in {"settled", "failed"} : Closes(c, ph)
    BY <1>1 DEF Stamps, StampAnswers, Throws
  <2>3. push'[c] = "pushing" => push[c] = "pushing" \/ verdict'[c] = "landed"
    BY <2>2 DEF Closes, QInv, TypeOK, QueueTypes
  <2>4. (\A d \in Card \ {c} : push'[d] = push[d]) /\ onMain' = onMain
    BY <1>1, <2>2 DEF Closes, QInv, TypeOK, QueueTypes, Stamps, StampAnswers, Throws
  <2> QED
    BY <2>1, <2>3, <2>4 DEF VerdictIsTrue, PublishedIsOnMain, KInv
<1>2. CASE MergeLands(c)
  BY <1>2 DEF MergeLands, PublishedIsOnMain, KInv, QInv, TypeOK, GitTypes
<1>3. CASE PressPublish(c)
  BY <1>3 DEF PressPublish, PublishedIsOnMain, KInv, QInv, TypeOK, QueueTypes
<1>4. CASE PushEnds(c)
  BY <1>4 DEF PushEnds, PublishedIsOnMain, KInv, QInv, TypeOK, QueueTypes
<1>5. CASE \/ Begins(c) \/ MergeFindsNothing(c) \/ MergeConflicts(c) \/ MergeSkips(c)
          \/ MergeHasNoBranch(c) \/ ProofReads(c) \/ LandCloses(c) \/ Probes(c) \/ Reaps(c)
          \/ StampAsks(c) \/ Resumes(c) \/ Launches(c) \/ Edits(c) \/ Commits(c) \/ EntersReview(c)
          \/ Captures(c) \/ TurnEnds(c) \/ PressLand(c) \/ Approve(c) \/ DragDone(c)
          \/ SendBack(c) \/ Backfills(c) \/ AuditLists(c) \/ AuditAnswers(c) \/ AuditRecords(c)
  <2>1. UNCHANGED <<push, onMain>>
    BY <1>5 DEF Begins, MergeFindsNothing, MergeConflicts, MergeSkips, MergeHasNoBranch,
         ProofReads, LandCloses, Probes, Reaps, StampAsks, Resumes, Launches, Edits, Commits,
         EntersReview, Captures, TurnEnds, PressLand, Approve, DragDone, SendBack, Backfills,
         AuditLists, AuditAnswers, AuditRecords
  <2> QED
    BY <2>1 DEF PublishedIsOnMain, KInv
<1> QED
  BY <1>1, <1>2, <1>3, <1>4, <1>5 DEF Step, LandStep, Agent, Person, Audit

LEMMA KnowledgeStep == QInv /\ KInv /\ [Next]_vars => KInv'
<1> SUFFICES ASSUME QInv, KInv, [Next]_vars PROVE KInv'
  OBVIOUS
<1>1. ASSUME NEW c \in Card, Step(c) PROVE KInv'
  BY <1>1, VerdictStep, AuditStep, LandKnowsStep, PublishStep DEF KInv
<1>2. CASE Restart
  <2>1. LandKnows' /\ AuditKnows'
    BY <1>2 DEF Restart, LandKnows, AuditKnows, Running, NoLand, NoAudit
  <2>2. VerdictIsTrue' /\ PublishedIsOnMain'
    BY <1>2 DEF Restart, VerdictIsTrue, PublishedIsOnMain, KInv
  <2> QED
    BY <2>1, <2>2 DEF KInv
<1>3. CASE UNCHANGED vars
  BY <1>3 DEF vars, KInv, LandKnows, AuditKnows, VerdictIsTrue, PublishedIsOnMain, Running
<1> QED
  BY <1>1, <1>2, <1>3 DEF Next, Step

LEMMA KnowledgeHolds == Spec => [](QInv /\ KInv)
<1>1. Init => QInv /\ KInv
  BY QueueStarts, KnowledgeStarts
<1>2. QInv /\ KInv /\ [Next]_vars => (QInv /\ KInv)'
  BY QueueStep, KnowledgeStep
<1> QED
  BY <1>1, <1>2, PTL DEF Spec

(* A "landed" speaks of a delivery main has or, where it speaks of a merge of the card, main
   has one: whatever came in between. *)
THEOREM NoFalseLanding == Spec => []VerdictIsTrue
<1>1. QInv /\ KInv => VerdictIsTrue
  BY DEF KInv
<1> QED
  BY <1>1, KnowledgeHolds, PTL

(* Nothing is pushed for a card main has nothing of. *)
THEOREM PublishesAreOnMain == Spec => []PublishedIsOnMain
<1>1. QInv /\ KInv => PublishedIsOnMain
  BY DEF KInv
<1> QED
  BY <1>1, KnowledgeHolds, PTL
=============================================================================
