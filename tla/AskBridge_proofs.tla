-------------------------- MODULE AskBridge_proofs --------------------------
(***************************************************************************)
(* What the rendez-vous guarantees for any number of questions, whatever   *)
(* they ask, with legs and panels in any order and any number of restarts. *)
(***************************************************************************)
EXTENDS AskBridge, FiniteSetTheorems, TLAPS

\* A leg that is out is the waiter, and the open ask says what its call asks.
LegIsOfAsker ==
  leg = "out" => asker \in Question /\ waiter = asker /\ open = text[asker]

\* What a leg brought back was given on a panel that asks what its call asks.
TookFits ==
  leg = "answered" => /\ asker \in Question /\ took \in Question
                      /\ text[took] = text[asker]

\* What the buffer holds was given by the person.
BufferedIsAnswered == buffer # NoQ => buffer \in answered

\* The inductive invariant.
IInv ==
  /\ TypeOK
  /\ LegIsOfAsker
  /\ TookFits
  /\ BufferedIsAnswered
  /\ RightQuestion

-----------------------------------------------------------------------------
(* The initial states and the shapes *)

LEMMA InitIInv == Init => IInv
<1> SUFFICES ASSUME Init PROVE IInv
  OBVIOUS
<1>1. TypeOK
  <2>1. restarts \in 0 .. MaxRestarts
    BY Settings DEF Init
  <2>2. order \in Seq(Question)
    BY DEF Init
  <2>3. /\ status \in [Question -> {"unasked", "waiting", "running", "success", "error"}]
        /\ owed \in [Question -> 0 .. 2]
        /\ heardAs \in [Question -> SUBSET Question]
    BY DEF Init
  <2> QED BY <2>1, <2>2, <2>3 DEF Init, TypeOK
<1>2. LegIsOfAsker /\ TookFits /\ BufferedIsAnswered /\ RightQuestion
  BY DEF Init, LegIsOfAsker, TookFits, BufferedIsAnswered, RightQuestion
<1> QED BY <1>1, <1>2 DEF IInv

\* A step that raises one count of owed answers keeps the counts.
LEMMA OneMoreCounts == ASSUME NEW n \in 0 .. 2 PROVE OneMore(n) \in 0 .. 2
  BY DEF OneMore

\* The turns and the process that asks keep the shapes.
LEMMA AskerKeepsType ==
  ASSUME TypeOK, TookFits,
         \/ \E q \in Question : Asks(q) \/ Paints(q)
         \/ \E byPerson \in BOOLEAN : StartTurn(byPerson)
         \/ Resumes \/ CallFails \/ ReattachToResult \/ AskerDies
  PROVE  TypeOK'
<1>1. ASSUME NEW q \in Question, Asks(q) PROVE TypeOK'
  BY <1>1 DEF Asks, TypeOK, rowVars, memoryVars
<1>2. ASSUME NEW q \in Question, Paints(q) PROVE TypeOK'
  BY <1>2 DEF Paints, TypeOK, askerVars
<1>3. ASSUME NEW byPerson \in BOOLEAN, StartTurn(byPerson) PROVE TypeOK'
  BY <1>3 DEF StartTurn, TypeOK
<1>4. ASSUME NEW held, ResultIsRead(held), stream' \in {stream, "live"} PROVE TypeOK'
  <2>1. asker \in Question /\ took \in Question
    BY <1>4 DEF ResultIsRead, TookFits
  <2>2. heardAs' \in [Question -> SUBSET Question]
    BY <1>4, <2>1 DEF ResultIsRead, TypeOK
  <2>3. status' \in [Question -> {"unasked", "waiting", "running", "success", "error"}]
    BY <1>4 DEF ResultIsRead, TypeOK
  <2> QED BY <1>4, <2>2, <2>3 DEF ResultIsRead, TypeOK
<1>5. ASSUME NEW held, ErrorIsRead(held), stream' \in {stream, "live"} PROVE TypeOK'
  BY <1>5 DEF ErrorIsRead, TypeOK
<1>6. ASSUME AskerDies PROVE TypeOK'
  BY <1>6 DEF AskerDies, TypeOK, rowVars, memoryVars
<1>7. CASE Resumes \/ CallFails \/ ReattachToResult
  BY <1>4, <1>5, <1>7 DEF Resumes, CallFails, ReattachToResult
<1> QED BY <1>1, <1>2, <1>3, <1>6, <1>7

\* The legs and the answers keep the shapes.
LEMMA AnswerKeepsType ==
  ASSUME TypeOK,
         \/ \E q \in Question : Leg(q) \/ Answer(q)
         \/ LegExpires \/ LegDrops \/ BufferExpires
  PROVE  TypeOK'
<1>1. ASSUME NEW q \in Question, LegWaits(q) PROVE TypeOK'
  BY <1>1, TextsOfQuestions DEF LegWaits, TypeOK, rowVars
<1>2. ASSUME NEW q \in Question, LegReadsRow(q) PROVE TypeOK'
  BY <1>2 DEF LegReadsRow, RecordedFor, Last, TypeOK, rowVars
<1>3. ASSUME NEW q \in Question, LegReadsBuffer(q) PROVE TypeOK'
  BY <1>3 DEF LegReadsBuffer, TypeOK, rowVars
<1>4. ASSUME NEW q \in Question, AnswerAsMessage(q) PROVE TypeOK'
  BY <1>4, OneMoreCounts DEF AnswerAsMessage, QueuedAsMessage, TypeOK, memoryVars, askerVars
<1>5. ASSUME NEW q \in Question, AnswerToLeg(q) PROVE TypeOK'
  BY <1>5 DEF AnswerToLeg, TakenUp, TypeOK
<1>6. ASSUME NEW q \in Question, AnswerToBuffer(q) PROVE TypeOK'
  BY <1>6, OneMoreCounts DEF AnswerToBuffer, TakenUp, TypeOK, askerVars
<1>7. ASSUME LegExpires PROVE TypeOK'
  BY <1>7 DEF LegExpires, TypeOK, rowVars
<1>8. ASSUME LegDrops PROVE TypeOK'
  BY <1>8 DEF LegDrops, TypeOK, rowVars, memoryVars
<1>9. ASSUME BufferExpires PROVE TypeOK'
  BY <1>9, OneMoreCounts DEF BufferExpires, QueuedAsMessage, TypeOK, askerVars
<1> QED BY <1>1, <1>2, <1>3, <1>4, <1>5, <1>6, <1>7, <1>8, <1>9 DEF Leg, Answer

\* The ends of turns and the restarts keep the shapes.
LEMMA EndKeepsType ==
  ASSUME TypeOK,
         TurnEnds \/ Stopped \/ SweepClosesAsk \/ RestartAround \/ Reattach \/ RestartKills
  PROVE  TypeOK'
<1>1. ASSUME TurnEnds PROVE TypeOK'
  BY <1>1 DEF TurnEnds, AskCancelled, Waiting, TypeOK
<1>2. ASSUME Stopped PROVE TypeOK'
  BY <1>2 DEF Stopped, TypeOK
<1>3. ASSUME SweepClosesAsk PROVE TypeOK'
  BY <1>3 DEF SweepClosesAsk, AskCancelled, TypeOK, rowVars
<1>4. ASSUME RestartAround PROVE TypeOK'
  BY <1>4, Settings DEF RestartAround, TypeOK, rowVars
<1>5. ASSUME Reattach PROVE TypeOK'
  BY <1>5 DEF Reattach, TypeOK, askerVars
<1>6. ASSUME RestartKills PROVE TypeOK'
  <2>1. restarts' \in 0 .. MaxRestarts
    BY <1>6, Settings DEF RestartKills, TypeOK
  <2>2. owed' \in [Question -> 0 .. 2]
    BY <1>6, OneMoreCounts DEF RestartKills, TypeOK
  <2>3. status' \in [Question -> {"unasked", "waiting", "running", "success", "error"}]
    BY <1>6 DEF RestartKills, TypeOK
  <2>4. gone' \subseteq Question
    BY <1>6 DEF RestartKills, Waiting, TypeOK
  <2> QED BY <1>6, <2>1, <2>2, <2>3, <2>4 DEF RestartKills, TypeOK
<1> QED BY <1>1, <1>2, <1>3, <1>4, <1>5, <1>6

LEMMA TypeStep == TypeOK /\ TookFits /\ [Next]_vars => TypeOK'
<1> SUFFICES ASSUME TypeOK, TookFits, [Next]_vars PROVE TypeOK'
  OBVIOUS
<1>1. CASE UNCHANGED vars
  BY <1>1 DEF vars, rowVars, memoryVars, askerVars, TypeOK
<1>2. CASE Next
  BY <1>2, AskerKeepsType, AnswerKeepsType, EndKeepsType DEF Next
<1> QED BY <1>1, <1>2

-----------------------------------------------------------------------------
(* What a leg relies on *)

\* A click routed to the leg of a call is on a panel that asks what it asks.
LEMMA ClickFitsLeg ==
  ASSUME NEW q \in Question, TypeOK, LegIsOfAsker, leg = "out", GoesToAsker(q)
  PROVE  text[q] = text[asker]
<1>1. open = text[asker] /\ open \in Text
  BY TextsOfQuestions DEF LegIsOfAsker
<1>2. open # NoAsk /\ open # Unsaid
  BY <1>1, DistinctNames
<1>3. IsLegPanel(q, open) \/ text[q] = open
  BY <1>2 DEF GoesToAsker
<1> QED BY <1>1, <1>3 DEF IsLegPanel

\* The leg that is out stays the asker's.
LEMMA LegStep == TypeOK /\ LegIsOfAsker /\ TookFits /\ [Next]_vars => LegIsOfAsker'
<1> SUFFICES ASSUME TypeOK, LegIsOfAsker, TookFits, [Next]_vars, leg' = "out"
             PROVE  (asker \in Question /\ waiter = asker /\ open = text[asker])'
  BY DEF LegIsOfAsker
<1>1. CASE leg = "out" /\ UNCHANGED <<open, waiter, asker>>
  BY <1>1 DEF LegIsOfAsker
<1>2. CASE \E q \in Question : LegWaits(q)
  BY <1>2 DEF LegWaits, Polls
<1>3. ASSUME NEW q \in Question, Asks(q) PROVE FALSE
  BY <1>3, DistinctNames DEF Asks, LegIsOfAsker
<1>4. ASSUME NEW q \in Question, Answer(q) PROVE leg = "out" /\ UNCHANGED <<open, waiter, asker>>
  <2>1. ~AnswerToLeg(q)
    BY DEF AnswerToLeg
  <2>2. ~AnswerToBuffer(q)
    BY DistinctNames DEF AnswerToBuffer, askerVars, LegIsOfAsker
  <2> QED BY <1>4, <2>1, <2>2 DEF Answer, AnswerAsMessage, memoryVars, askerVars
<1>5. ASSUME NEW q \in Question, LegReadsRow(q) \/ LegReadsBuffer(q) PROVE FALSE
  BY <1>5 DEF LegReadsRow, LegReadsBuffer
<1>6. CASE \E q \in Question : Paints(q)
  BY <1>1, <1>6 DEF Paints, askerVars
<1>7. CASE \E byPerson \in BOOLEAN : StartTurn(byPerson)
  BY <1>1, <1>7 DEF StartTurn
<1>8. CASE Resumes \/ CallFails \/ ReattachToResult \/ AskerDies \/ LegExpires \/ LegDrops
  BY <1>8 DEF Resumes, CallFails, ReattachToResult, ResultIsRead, ErrorIsRead, AskerDies,
              LegExpires, LegDrops
<1>9. CASE BufferExpires \/ Reattach
  BY <1>1, <1>9 DEF BufferExpires, Reattach, askerVars
<1>10. CASE TurnEnds
  BY <1>1, <1>10 DEF TurnEnds, AskCancelled
<1>11. CASE Stopped \/ SweepClosesAsk \/ RestartAround \/ RestartKills
  BY <1>11 DEF Stopped, SweepClosesAsk, AskCancelled, RestartAround, RestartKills
<1>12. CASE UNCHANGED vars
  BY <1>1, <1>12 DEF vars, memoryVars, askerVars
<1> QED
  BY <1>1, <1>2, <1>3, <1>4, <1>5, <1>6, <1>7, <1>8, <1>9, <1>10, <1>11, <1>12 DEF Next, Leg

\* What a leg brought back fits its call until the call is over.
LEMMA TookStep == TypeOK /\ LegIsOfAsker /\ TookFits /\ [Next]_vars => TookFits'
<1> SUFFICES ASSUME TypeOK, LegIsOfAsker, TookFits, [Next]_vars, leg' = "answered"
             PROVE  (/\ asker \in Question /\ took \in Question
                     /\ text[took] = text[asker])'
  BY DEF TookFits
<1>1. CASE leg = "answered" /\ UNCHANGED <<asker, took>>
  BY <1>1 DEF TookFits
<1>2. ASSUME NEW q \in Question, LegReadsRow(q)
      PROVE  (asker \in Question /\ took \in Question /\ text[took] = text[asker])'
  BY <1>2 DEF LegReadsRow, Polls, RecordedFor, Last, TypeOK
<1>3. ASSUME NEW q \in Question, LegReadsBuffer(q)
      PROVE  (asker \in Question /\ took \in Question /\ text[took] = text[asker])'
  BY <1>3 DEF LegReadsBuffer, Polls, Fits, TypeOK
<1>4. ASSUME NEW q \in Question, LegWaits(q) PROVE FALSE
  BY <1>4 DEF LegWaits
<1>5. ASSUME NEW q \in Question, Asks(q) PROVE FALSE
  BY <1>5, DistinctNames DEF Asks, TookFits
<1>6. ASSUME NEW q \in Question, AnswerToLeg(q)
      PROVE  (asker \in Question /\ took \in Question /\ text[took] = text[asker])'
  <2>1. CASE leg = "out"
    BY <1>6, <2>1, ClickFitsLeg DEF AnswerToLeg, LegIsOfAsker
  <2>2. CASE leg # "out"
    BY <1>1, <1>6, <2>2 DEF AnswerToLeg
  <2> QED BY <2>1, <2>2
<1>7. CASE \E q \in Question : AnswerAsMessage(q) \/ AnswerToBuffer(q)
  BY <1>1, <1>7 DEF AnswerAsMessage, AnswerToBuffer, askerVars
<1>8. CASE \E q \in Question : Paints(q)
  BY <1>1, <1>8 DEF Paints, askerVars
<1>9. CASE \E byPerson \in BOOLEAN : StartTurn(byPerson)
  BY <1>1, <1>9 DEF StartTurn
<1>10. CASE Resumes \/ CallFails \/ ReattachToResult \/ AskerDies \/ Stopped \/ RestartKills
         \/ LegDrops
  BY <1>10 DEF Resumes, CallFails, ReattachToResult, ResultIsRead, ErrorIsRead, AskerDies,
               Stopped, RestartKills, LegDrops
<1>11. CASE LegExpires \/ BufferExpires \/ Reattach
  BY <1>1, <1>11 DEF LegExpires, BufferExpires, Reattach, askerVars
<1>12. CASE TurnEnds \/ SweepClosesAsk
  BY <1>1, <1>12 DEF TurnEnds, SweepClosesAsk, AskCancelled
<1>13. CASE RestartAround
  BY <1>1, <1>13 DEF RestartAround
<1>14. CASE UNCHANGED vars
  BY <1>1, <1>14 DEF vars, askerVars
<1> QED
  BY <1>1, <1>2, <1>3, <1>4, <1>5, <1>6, <1>7, <1>8, <1>9, <1>10, <1>11, <1>12, <1>13,
     <1>14 DEF Next, Leg, Answer

\* Only the continuation of a call makes an answer heard.
LEMMA HeardStep == TypeOK /\ TookFits /\ RightQuestion /\ [Next]_vars => RightQuestion'
<1> SUFFICES ASSUME TypeOK, TookFits, RightQuestion, [Next]_vars PROVE RightQuestion'
  OBVIOUS
<1>1. CASE UNCHANGED heardAs
  BY <1>1 DEF RightQuestion
<1>2. ASSUME NEW held, ResultIsRead(held) PROVE RightQuestion'
  <2>1. asker \in Question /\ took \in Question /\ text[took] = text[asker]
    BY <1>2 DEF ResultIsRead, TookFits
  <2>2. heardAs' = [heardAs EXCEPT ![took] = @ \cup {asker}]
    BY <1>2 DEF ResultIsRead
  <2> QED BY <2>1, <2>2 DEF RightQuestion, TypeOK
<1>3. CASE Next /\ ~Resumes /\ ~ReattachToResult
  BY <1>1, <1>3 DEF Next, Asks, Paints, Leg, LegWaits, LegReadsRow, LegReadsBuffer, Answer,
     AnswerAsMessage, AnswerToLeg, AnswerToBuffer, StartTurn, TurnEnds, Stopped, CallFails,
     ErrorIsRead,
     AskerDies, LegExpires, LegDrops, BufferExpires, SweepClosesAsk, RestartAround, Reattach,
     RestartKills
<1>4. CASE Resumes \/ ReattachToResult
  BY <1>1, <1>2, <1>4 DEF Resumes, ReattachToResult, ErrorIsRead
<1> QED BY <1>1, <1>3, <1>4 DEF vars

\* The buffer is filled by an answer, and an answer given stays given.
LEMMA BufferStep == BufferedIsAnswered /\ [Next]_vars => BufferedIsAnswered'
<1> SUFFICES ASSUME BufferedIsAnswered, [Next]_vars PROVE BufferedIsAnswered'
  OBVIOUS
<1>1. CASE (buffer' = NoQ \/ buffer' = buffer) /\ answered \subseteq answered'
  BY <1>1 DEF BufferedIsAnswered
<1>2. ASSUME NEW q \in Question, AnswerToBuffer(q) PROVE BufferedIsAnswered'
  BY <1>2 DEF AnswerToBuffer, BufferedIsAnswered
<1>3. ASSUME NEW q \in Question, Leg(q) \/ Asks(q) \/ Paints(q) PROVE BufferedIsAnswered'
  BY <1>1, <1>3 DEF Leg, LegWaits, LegReadsRow, LegReadsBuffer, Asks, Paints, rowVars,
                    memoryVars
<1>4. ASSUME NEW q \in Question, AnswerAsMessage(q) \/ AnswerToLeg(q) PROVE BufferedIsAnswered'
  BY <1>1, <1>4 DEF AnswerAsMessage, AnswerToLeg, memoryVars
<1>5. CASE \E byPerson \in BOOLEAN : StartTurn(byPerson)
  BY <1>1, <1>5 DEF StartTurn
<1>6. CASE Resumes \/ CallFails \/ ReattachToResult \/ AskerDies \/ LegExpires \/ LegDrops
         \/ BufferExpires
  BY <1>1, <1>6 DEF Resumes, CallFails, ReattachToResult, ResultIsRead, ErrorIsRead, AskerDies,
                    LegExpires, LegDrops, BufferExpires,
                    rowVars, memoryVars
<1>7. CASE TurnEnds \/ Stopped \/ SweepClosesAsk
  BY <1>1, <1>7 DEF TurnEnds, Stopped, SweepClosesAsk, AskCancelled, rowVars
<1>8. CASE RestartAround \/ Reattach \/ RestartKills
  BY <1>1, <1>8 DEF RestartAround, Reattach, RestartKills, rowVars
<1>9. CASE UNCHANGED vars
  BY <1>1, <1>9 DEF vars, rowVars, memoryVars
<1> QED
  BY <1>2, <1>3, <1>4, <1>5, <1>6, <1>7, <1>8, <1>9 DEF Next, Answer

LEMMA Induction == IInv /\ [Next]_vars => IInv'
  BY TypeStep, LegStep, TookStep, BufferStep, HeardStep DEF IInv

-----------------------------------------------------------------------------
(* What ends a question *)

LEMMA WaitingStep ==
  ASSUME TypeOK, BufferedIsAnswered, Next,
         NEW q \in Waiting, status'[q] # "waiting"
  PROVE  \/ q \in answered'
         \/ Stopped \/ StartTurn(TRUE)
         \/ (Resumes \/ CallFails \/ ReattachToResult) /\ asker = q
<1>1. q \in Question /\ status[q] = "waiting"
  BY DEF Waiting
<1>2. status' # status
  BY <1>1
<1>3. ASSUME NEW p \in Question, Answer(p) PROVE q \in answered'
  <2>1. CASE AnswerAsMessage(p)
    BY <1>1, <2>1 DEF AnswerAsMessage, QueuedAsMessage, TypeOK
  <2>2. CASE AnswerToLeg(p)
    BY <1>1, <2>2 DEF AnswerToLeg, TypeOK
  <2>3. CASE AnswerToBuffer(p)
    BY <1>1, <2>3 DEF AnswerToBuffer, BufferedIsAnswered, TypeOK
  <2> QED BY <1>3, <2>1, <2>2, <2>3 DEF Answer
<1>4. CASE BufferExpires
  BY <1>1, <1>4 DEF BufferExpires, QueuedAsMessage, BufferedIsAnswered, TypeOK
<1>5. ASSUME NEW p \in Question, Asks(p) \/ Leg(p) PROVE FALSE
  BY <1>2, <1>5 DEF Asks, Leg, LegWaits, LegReadsRow, LegReadsBuffer, rowVars
<1>6. ASSUME NEW p \in Question, Paints(p) PROVE FALSE
  BY <1>1, <1>6 DEF Paints, TypeOK
<1>7. ASSUME NEW byPerson \in BOOLEAN, StartTurn(byPerson) PROVE StartTurn(TRUE)
  BY <1>1, <1>7 DEF StartTurn
<1>8. CASE Resumes \/ CallFails \/ ReattachToResult
  BY <1>1, <1>8 DEF Resumes, CallFails, ReattachToResult, ResultIsRead, ErrorIsRead, TypeOK
<1>9. CASE TurnEnds \/ RestartKills
  BY <1>1, <1>9 DEF TurnEnds, RestartKills
<1>10. CASE AskerDies \/ LegExpires \/ LegDrops \/ SweepClosesAsk \/ RestartAround
  BY <1>2, <1>10 DEF AskerDies, LegExpires, LegDrops, SweepClosesAsk, RestartAround, rowVars
<1>11. CASE Reattach
  BY <1>1, <1>11 DEF Reattach, TypeOK
<1> QED
  BY <1>3, <1>4, <1>5, <1>6, <1>7, <1>8, <1>9, <1>10, <1>11 DEF Next

-----------------------------------------------------------------------------
(* What is on screen *)

\* The child is blocked on a call only while it lives and its turn is there.
AskerIsThere == asker # NoQ => alive /\ stream # "none"

\* A leg that is not idle is the leg of a call.
LegIsOfACall == leg # "idle" => asker # NoQ

\* What the turn's row shows is painted, what is marked or buffered was on screen,
\* and no question is painted twice; the panel of a buffered answer is over unless
\* it was shown again.
RowsArePainted ==
  /\ stream = "none" => onStream = {}
  /\ \A q \in onStream \cup gone : status[q] # "unasked"
  /\ \A i \in 1 .. Len(order) : status[order[i]] # "unasked"
  /\ \A q \in Question : status[q] # "unasked" => \E i \in 1 .. Len(order) : order[i] = q
  /\ \A i, j \in 1 .. Len(order) : order[i] = order[j] => i = j
  /\ buffer # NoQ => /\ status[buffer] # "unasked"
                     /\ buffer \notin reopened => status[buffer] # "waiting"

Newest(q) == order # <<>> /\ order[Len(order)] = q

\* The panel of the call the child is blocked on is the newest of the session.
AskerIsNewest ==
  asker # NoQ =>
    /\ asker \notin gone
    /\ status[asker] # "unasked" => asker \in onStream /\ Newest(asker)

\* The question on screen with nobody marked gone.
Held == Waiting \ gone

\* It is the newest, on the turn's row, and the child is blocked on it or dead.
HeldIsNewest ==
  \A q \in Held : q \in onStream /\ Newest(q) /\ (asker = q \/ (asker = NoQ /\ ~alive))

ScreenInv ==
  /\ AskerIsThere /\ LegIsOfACall /\ RowsArePainted /\ AskerIsNewest /\ HeldIsNewest

LEMMA InitScreen == Init => ScreenInv
  BY DEF Init, ScreenInv, AskerIsThere, LegIsOfACall, RowsArePainted, AskerIsNewest,
         HeldIsNewest, Held, Waiting

LEMMA NoQIsNone == NoQ \notin Question
  BY DistinctNames

\* A question is painted by Paints alone, and starts to wait then, or when an
\* adoption shows it again.
LEMMA OnlyPaintsShows ==
  ASSUME TypeOK, RowsArePainted, Next, NEW q \in Question
  PROVE  /\ status[q] # "unasked" => status'[q] # "unasked"
         /\ \/ Paints(q)
            \/ /\ status[q] = "unasked" => status'[q] = "unasked"
               /\ status'[q] = "waiting" => \/ status[q] = "waiting"
                                            \/ Reattach /\ q = asker /\ q \in onStream
<1> DEFINE Goal == /\ status[q] # "unasked" => status'[q] # "unasked"
                   /\ \/ Paints(q)
                      \/ /\ status[q] = "unasked" => status'[q] = "unasked"
                         /\ status'[q] = "waiting" => \/ status[q] = "waiting"
                                                      \/ Reattach /\ q = asker /\ q \in onStream
<1>1. CASE status' = status
  BY <1>1
<1>2. ASSUME NEW p \in Question, Asks(p) \/ Leg(p) PROVE Goal
  BY <1>1, <1>2 DEF Asks, Leg, LegWaits, LegReadsRow, LegReadsBuffer, rowVars
<1>3. ASSUME NEW p \in Question, Paints(p) PROVE Goal
  BY <1>3 DEF Paints, TypeOK
<1>4. ASSUME NEW p \in Question, AnswerAsMessage(p) PROVE Goal
  BY <1>4 DEF AnswerAsMessage, GoesAsMessage, Waiting, QueuedAsMessage, TypeOK
<1>5. ASSUME NEW p \in Question, AnswerToLeg(p) PROVE Goal
  BY <1>5 DEF AnswerToLeg, TypeOK
<1>6. ASSUME NEW p \in Question, AnswerToBuffer(p) PROVE Goal
  BY <1>6 DEF AnswerToBuffer, RowsArePainted, TypeOK
<1>7. ASSUME NEW byPerson \in BOOLEAN, StartTurn(byPerson) PROVE Goal
  BY <1>7 DEF StartTurn, Waiting
<1>8. CASE Resumes \/ CallFails \/ ReattachToResult
  BY <1>8 DEF Resumes, CallFails, ReattachToResult, ResultIsRead, ErrorIsRead, RowsArePainted,
              TypeOK
<1>9. CASE BufferExpires
  BY <1>9 DEF BufferExpires, QueuedAsMessage, RowsArePainted, TypeOK
<1>10. CASE TurnEnds \/ Stopped \/ RestartKills
  BY <1>10 DEF TurnEnds, Stopped, RestartKills
<1>11. CASE AskerDies \/ LegExpires \/ LegDrops \/ SweepClosesAsk \/ RestartAround
  BY <1>1, <1>11 DEF AskerDies, LegExpires, LegDrops, SweepClosesAsk, RestartAround, rowVars
<1>12. CASE Reattach
  BY <1>12 DEF Reattach, RowsArePainted, TypeOK
<1> QED
  BY <1>2, <1>3, <1>4, <1>5, <1>6, <1>7, <1>8, <1>9, <1>10, <1>11, <1>12 DEF Next, Answer

\* A turn ends, or is swept over a dead child, with the child on no call.
LEMMA EndsOnNoCall ==
  ASSUME AskerIsThere, TurnEnds \/ SweepClosesAsk
  PROVE  asker = NoQ
  BY DEF TurnEnds, SweepClosesAsk, Over, AskerIsThere

LEMMA ThereStep == AskerIsThere /\ [Next]_vars => AskerIsThere'
<1> SUFFICES ASSUME AskerIsThere, [Next]_vars PROVE AskerIsThere'
  OBVIOUS
<1>1. CASE UNCHANGED <<alive, asker, stream>>
  BY <1>1 DEF AskerIsThere
<1>2. CASE asker' = NoQ
  BY <1>2 DEF AskerIsThere
<1>3. ASSUME NEW q \in Question, Asks(q) PROVE AskerIsThere'
  BY <1>3 DEF Asks, AskerIsThere, memoryVars
<1>4. ASSUME NEW q \in Question, Paints(q) \/ Leg(q) \/ Answer(q) PROVE AskerIsThere'
  BY <1>1, <1>4 DEF Paints, Leg, LegWaits, LegReadsRow, LegReadsBuffer, Answer, AnswerAsMessage,
                    AnswerToLeg, AnswerToBuffer, memoryVars, askerVars
<1>5. ASSUME NEW byPerson \in BOOLEAN, StartTurn(byPerson) PROVE AskerIsThere'
  BY <1>5 DEF StartTurn, AskerIsThere
<1>6. CASE TurnEnds \/ SweepClosesAsk
  BY <1>2, <1>6, EndsOnNoCall DEF TurnEnds, SweepClosesAsk
<1>7. CASE Resumes \/ CallFails \/ ReattachToResult \/ AskerDies \/ Stopped \/ RestartKills
  BY <1>2, <1>7 DEF Resumes, CallFails, ReattachToResult, ResultIsRead, ErrorIsRead, AskerDies,
                    Stopped, RestartKills
<1>8. CASE LegExpires \/ LegDrops \/ BufferExpires
  BY <1>1, <1>8 DEF LegExpires, LegDrops, BufferExpires, memoryVars, askerVars
<1>9. CASE RestartAround \/ Reattach
  BY <1>9 DEF RestartAround, Reattach, AskerIsThere, askerVars
<1>10. CASE UNCHANGED vars
  BY <1>1, <1>10 DEF vars, memoryVars, askerVars
<1> QED
  BY <1>3, <1>4, <1>5, <1>6, <1>7, <1>8, <1>9, <1>10 DEF Next

LEMMA CallStep == LegIsOfACall /\ AskerIsThere /\ [Next]_vars => LegIsOfACall'
<1> SUFFICES ASSUME LegIsOfACall, AskerIsThere, [Next]_vars PROVE LegIsOfACall'
  OBVIOUS
<1>1. CASE leg' = "idle" \/ UNCHANGED <<asker, leg>>
  BY <1>1 DEF LegIsOfACall
<1>2. ASSUME NEW q \in Question, Asks(q) \/ Leg(q) PROVE LegIsOfACall'
  BY <1>2, NoQIsNone DEF Asks, Leg, LegWaits, LegReadsRow, LegReadsBuffer, Polls, LegIsOfACall
<1>3. ASSUME NEW q \in Question, AnswerToLeg(q) PROVE LegIsOfACall'
  BY <1>3 DEF AnswerToLeg, LegIsOfACall
<1>4. ASSUME NEW q \in Question, Paints(q) \/ AnswerAsMessage(q) \/ AnswerToBuffer(q)
      PROVE  LegIsOfACall'
  BY <1>1, <1>4 DEF Paints, AnswerAsMessage, AnswerToBuffer, askerVars
<1>5. ASSUME NEW byPerson \in BOOLEAN, StartTurn(byPerson) PROVE LegIsOfACall'
  BY <1>1, <1>5 DEF StartTurn
<1>6. CASE TurnEnds \/ SweepClosesAsk
  BY <1>6, EndsOnNoCall DEF TurnEnds, SweepClosesAsk, AskCancelled, LegIsOfACall
<1>7. CASE Resumes \/ CallFails \/ ReattachToResult \/ AskerDies \/ Stopped \/ RestartKills
         \/ LegDrops
  BY <1>1, <1>7 DEF Resumes, CallFails, ReattachToResult, ResultIsRead, ErrorIsRead, AskerDies,
                    Stopped, RestartKills, LegDrops
<1>8. CASE LegExpires \/ BufferExpires \/ Reattach
  BY <1>1, <1>8 DEF LegExpires, BufferExpires, Reattach, askerVars
<1>9. CASE RestartAround
  BY <1>9 DEF RestartAround, LegIsOfACall
<1>10. CASE UNCHANGED vars
  BY <1>1, <1>10 DEF vars, askerVars
<1> QED
  BY <1>2, <1>3, <1>4, <1>5, <1>6, <1>7, <1>8, <1>9, <1>10 DEF Next, Answer

\* A step that paints nothing leaves the painted questions and their order alone.
LEMMA OrderStays == Next /\ (\A q \in Question : ~Paints(q)) => order' = order
  BY DEF Next, Asks, Leg, LegWaits, LegReadsRow, LegReadsBuffer, Answer, AnswerAsMessage,
     AnswerToLeg, AnswerToBuffer, StartTurn, TurnEnds, Stopped, Resumes, CallFails,
     ReattachToResult, ResultIsRead, ErrorIsRead, AskerDies,
     LegExpires, LegDrops, BufferExpires, SweepClosesAsk, RestartAround, Reattach, RestartKills,
     rowVars

\* Only what waits is marked, and the row of a turn grows by painting alone.
LEMMA MarksAreOfWaiting ==
  ASSUME Next
  PROVE  /\ gone' \subseteq gone \cup Waiting
         /\ (\A q \in Question : ~Paints(q)) => onStream' \in {onStream, {}}
  BY DEF Next, Paints, Asks, Leg, LegWaits, LegReadsRow, LegReadsBuffer, Answer,
         AnswerAsMessage,
     AnswerToLeg, AnswerToBuffer, StartTurn, TurnEnds, Stopped, Resumes, CallFails,
     ReattachToResult, ResultIsRead, ErrorIsRead, AskerDies,
     LegExpires, LegDrops, BufferExpires, SweepClosesAsk, RestartAround, Reattach, RestartKills,
     rowVars, memoryVars

\* A question taken up again stays marked as such.
LEMMA ReopenedStay == [Next]_vars => reopened \subseteq reopened'
  BY DEF Next, Paints, Asks, Leg, LegWaits, LegReadsRow, LegReadsBuffer, Answer,
         AnswerAsMessage,
     AnswerToLeg, AnswerToBuffer, TakenUp, StartTurn, TurnEnds, Stopped, Resumes, CallFails,
     ReattachToResult, ResultIsRead, ErrorIsRead, AskerDies, LegExpires, LegDrops,
     BufferExpires,
     SweepClosesAsk, RestartAround, Reattach, RestartKills, vars

\* The buffer takes what was just answered, and an answered question stays closed
\* unless it is shown again.
LEMMA BufferIsClosedStep ==
  ASSUME TypeOK, RowsArePainted, Next, buffer' # NoQ
  PROVE  /\ status'[buffer'] # "unasked"
         /\ buffer' \notin reopened' => status'[buffer'] # "waiting"
<1>1. CASE buffer' = buffer
  <2>1. buffer \in Question /\ status[buffer] # "unasked"
    BY <1>1 DEF RowsArePainted, TypeOK
  <2>2. ~Paints(buffer)
    BY <2>1 DEF Paints
  <2>3. reopened \subseteq reopened'
    BY ReopenedStay
  <2>4. ASSUME status'[buffer] = "waiting", buffer \notin reopened' PROVE FALSE
    <3>1. status[buffer] # "waiting"
      BY <1>1, <2>3, <2>4 DEF RowsArePainted
    <3>2. Reattach /\ buffer = asker /\ buffer \in onStream
      BY <2>1, <2>2, <2>4, <3>1, OnlyPaintsShows
    <3> QED BY <2>4, <3>1, <3>2 DEF Reattach
  <2> QED BY <1>1, <2>1, <2>2, <2>4, OnlyPaintsShows
<1>2. ASSUME NEW q \in Question, AnswerToBuffer(q)
      PROVE  status'[buffer'] \notin {"unasked", "waiting"}
  BY <1>2 DEF AnswerToBuffer
<1>3. CASE \A q \in Question : ~AnswerToBuffer(q)
  <2>1. buffer' = buffer
    BY <1>3 DEF Next, Paints, Asks, Leg, LegWaits, LegReadsRow, LegReadsBuffer, Answer,
       AnswerAsMessage, AnswerToLeg, StartTurn, TurnEnds, Stopped, Resumes, CallFails,
       ReattachToResult, ResultIsRead, ErrorIsRead, AskerDies, LegExpires, LegDrops,
       BufferExpires, SweepClosesAsk, AskCancelled, RestartAround, Reattach, RestartKills,
       rowVars, memoryVars
  <2> QED BY <1>1, <2>1
<1> QED BY <1>2, <1>3

LEMMA RowsStep == TypeOK /\ RowsArePainted /\ [Next]_vars => RowsArePainted'
<1> SUFFICES ASSUME TypeOK, RowsArePainted, [Next]_vars PROVE RowsArePainted'
  OBVIOUS
<1>1. CASE UNCHANGED vars
  BY <1>1 DEF vars, rowVars, memoryVars, RowsArePainted
<1>2. CASE Next
  <2>1. buffer' # NoQ => /\ status'[buffer'] # "unasked"
                         /\ buffer' \notin reopened' => status'[buffer'] # "waiting"
    BY <1>2, BufferIsClosedStep
  <2>2. ASSUME NEW q \in Question, Paints(q) PROVE RowsArePainted'
    <3>1. /\ status[q] = "unasked" /\ status' = [status EXCEPT ![q] = "waiting"]
          /\ order' = Append(order, q) /\ onStream' = onStream \cup {q}
          /\ gone' = gone /\ stream' = "live"
      BY <2>2 DEF Paints
    <3>2. order \in Seq(Question) /\ Len(order') = Len(order) + 1
      BY <3>1 DEF TypeOK
    <3>3. \A i \in 1 .. Len(order) : order'[i] = order[i] /\ order[i] \in Question /\ order[i] # q
      BY <3>1, <3>2 DEF RowsArePainted
    <3>4. order'[Len(order')] = q
      BY <3>1, <3>2
    <3>5. \A i \in 1 .. Len(order') : i \in 1 .. Len(order) \/ i = Len(order')
      BY <3>2
    <3>6. \A i \in 1 .. Len(order') : status'[order'[i]] # "unasked"
      BY <3>1, <3>3, <3>4, <3>5 DEF RowsArePainted, TypeOK
    <3>7. \A i, j \in 1 .. Len(order') : order'[i] = order'[j] => i = j
      BY <3>3, <3>4, <3>5 DEF RowsArePainted
    <3>8. \A p \in (onStream \cup gone)' : status'[p] # "unasked"
      BY <3>1 DEF RowsArePainted, TypeOK
    <3>9. ASSUME NEW p \in Question, status'[p] # "unasked"
          PROVE  \E i \in 1 .. Len(order') : order'[i] = p
      <4>1. CASE p = q
        BY <3>2, <3>4, <4>1
      <4>2. CASE p # q
        <5>1. PICK i \in 1 .. Len(order) : order[i] = p
          BY <3>1, <3>9, <4>2 DEF RowsArePainted, TypeOK
        <5> QED BY <3>2, <3>3, <5>1
      <4> QED BY <4>1, <4>2
    <3> QED BY <2>1, <3>1, <3>6, <3>7, <3>8, <3>9 DEF RowsArePainted
  <2>3. CASE \A q \in Question : ~Paints(q)
    <3>1. order' = order
      BY <1>2, <2>3, OrderStays
    <3>2. gone' \subseteq gone \cup Waiting /\ onStream' \subseteq onStream
      BY <1>2, <2>3, MarksAreOfWaiting
    <3>3. \A p \in Question : status[p] # "unasked" => status'[p] # "unasked"
      BY <1>2, OnlyPaintsShows
    <3>4. \A p \in (onStream \cup gone)' : status'[p] # "unasked"
      BY <3>2, <3>3 DEF RowsArePainted, Waiting, TypeOK
    <3>5. \A i \in 1 .. Len(order) : order[i] \in Question
      BY DEF TypeOK
    <3>6. \A i \in 1 .. Len(order') : status'[order'[i]] # "unasked"
      BY <3>1, <3>3, <3>5 DEF RowsArePainted
    <3>7. stream' = "none" => onStream' = {}
      BY <1>2, <2>3, <3>2 DEF RowsArePainted, Next, Asks, Leg, LegWaits, LegReadsRow,
         LegReadsBuffer, Answer, AnswerAsMessage, AnswerToLeg, AnswerToBuffer, StartTurn,
         TurnEnds, Stopped, Resumes, CallFails, ReattachToResult, ResultIsRead, ErrorIsRead,
         AskerDies, LegExpires, LegDrops, BufferExpires,
         SweepClosesAsk, AskCancelled, RestartAround, Reattach, RestartKills, rowVars,
         memoryVars
    <3>8. \A i, j \in 1 .. Len(order') : order'[i] = order'[j] => i = j
      BY <3>1 DEF RowsArePainted
    <3>9. \A p \in Question : status'[p] # "unasked" => status[p] # "unasked"
      BY <1>2, <2>3, OnlyPaintsShows
    <3>10. \A p \in Question : status'[p] # "unasked" => \E i \in 1 .. Len(order') : order'[i] = p
      BY <3>1, <3>9 DEF RowsArePainted
    <3> QED BY <2>1, <3>4, <3>6, <3>7, <3>8, <3>10 DEF RowsArePainted
  <2> QED BY <2>2, <2>3
<1> QED BY <1>1, <1>2

\* With the child on no call, and a turn about to start, nothing is held.
LEMMA HeldIsOfAsker ==
  ASSUME RowsArePainted, AskerIsThere, HeldIsNewest,
         stream = "none" \/ (asker = NoQ /\ alive)
  PROVE  Held = {}
  BY NoQIsNone DEF HeldIsNewest, RowsArePainted, Held, Waiting

LEMMA NewestAskerStep ==
  TypeOK /\ ScreenInv /\ [Next]_vars => AskerIsNewest'
<1> SUFFICES ASSUME TypeOK, ScreenInv, [Next]_vars, asker' # NoQ
             PROVE  /\ asker' \notin gone'
                    /\ status'[asker'] # "unasked" =>
                         /\ asker' \in onStream'
                         /\ order' # <<>> /\ order'[Len(order')] = asker'
  BY DEF AskerIsNewest, Newest
<1> DEFINE Goal == /\ asker' \notin gone'
                   /\ status'[asker'] # "unasked" =>
                        /\ asker' \in onStream'
                        /\ order' # <<>> /\ order'[Len(order')] = asker'
<1> USE DEF ScreenInv
<1>1. CASE UNCHANGED <<asker, gone, onStream>> /\ Next /\ \A q \in Question : ~Paints(q)
  <2>1. asker \in Question
    BY <1>1 DEF TypeOK
  <2>2. status[asker] = "unasked" => status'[asker] = "unasked"
    BY <1>1, <2>1, OnlyPaintsShows
  <2>3. order' = order
    BY <1>1, OrderStays
  <2> QED BY <1>1, <2>2, <2>3 DEF AskerIsNewest, Newest
<1>2. ASSUME NEW q \in Question, Asks(q) PROVE Goal
  BY <1>2 DEF Asks, rowVars, RowsArePainted
<1>3. ASSUME NEW q \in Question, Paints(q) PROVE Goal
  <2>1. asker' = q /\ asker = q /\ gone' = gone /\ q \in onStream'
    BY <1>3 DEF Paints, askerVars
  <2>2. order' # <<>> /\ order'[Len(order')] = q
    BY <1>3 DEF Paints, TypeOK
  <2> QED BY <2>1, <2>2, NoQIsNone DEF AskerIsNewest
<1>4. ASSUME NEW q \in Question, Leg(q) \/ Answer(q)
      PROVE  UNCHANGED <<asker, gone, onStream>> /\ Next /\ \A p \in Question : ~Paints(p)
  <2>1. UNCHANGED <<asker, gone, onStream>> /\ Next
    BY <1>4 DEF Next, Leg, LegWaits, LegReadsRow, LegReadsBuffer, Answer, AnswerAsMessage,
                AnswerToLeg, AnswerToBuffer, rowVars, memoryVars, askerVars
  <2>2. order' = order
    BY <1>4 DEF Leg, LegWaits, LegReadsRow, LegReadsBuffer, Answer, AnswerAsMessage,
                AnswerToLeg, AnswerToBuffer, rowVars
  <2>3. \A p \in Question : Paints(p) => Len(order') = Len(order) + 1
    BY DEF Paints, TypeOK
  <2>4. Len(order) \in Nat
    BY DEF TypeOK
  <2> QED BY <2>1, <2>2, <2>3, <2>4
<1>5. ASSUME NEW byPerson \in BOOLEAN, StartTurn(byPerson) PROVE FALSE
  BY <1>5 DEF StartTurn, AskerIsThere
<1>6. CASE Resumes \/ CallFails \/ ReattachToResult \/ AskerDies \/ Stopped \/ RestartKills
  BY <1>6 DEF Resumes, CallFails, ReattachToResult, ResultIsRead, ErrorIsRead, AskerDies,
              Stopped, RestartKills
<1>7. CASE TurnEnds \/ SweepClosesAsk
  BY <1>7, EndsOnNoCall DEF TurnEnds, SweepClosesAsk
<1>8. CASE LegExpires \/ LegDrops \/ RestartAround
  BY <1>8 DEF LegExpires, LegDrops, RestartAround, rowVars, memoryVars, askerVars,
              AskerIsNewest, Newest
<1>11. CASE Reattach
  <2>1. asker' = asker /\ gone' = gone /\ onStream' = onStream /\ order' = order
    BY <1>11 DEF Reattach, askerVars
  <2>2. asker \in Question /\ (asker \in onStream => status[asker] # "unasked")
    BY <2>1 DEF RowsArePainted, TypeOK
  <2>3. status[asker] = "unasked" => status'[asker] = "unasked"
    BY <1>11, <2>2 DEF Reattach
  <2> QED BY <2>1, <2>3 DEF AskerIsNewest, Newest
<1>9. CASE BufferExpires
  <2>1. status[asker] = "unasked" => status'[asker] = "unasked"
    BY <1>9, NoQIsNone DEF BufferExpires, QueuedAsMessage, RowsArePainted, TypeOK
  <2> QED BY <1>9, <2>1 DEF BufferExpires, askerVars, AskerIsNewest, Newest
<1>10. CASE UNCHANGED vars
  BY <1>10 DEF vars, rowVars, memoryVars, askerVars, AskerIsNewest, Newest
<1> QED
  BY <1>1, <1>2, <1>3, <1>4, <1>5, <1>6, <1>7, <1>8, <1>9, <1>10, <1>11 DEF Next

\* A step that marks no less, paints nothing and is no adoption holds nothing new.
LEMMA HeldShrinks ==
  ASSUME TypeOK, ScreenInv, Next,
         gone \subseteq gone', ~Reattach, \A q \in Question : ~Paints(q)
  PROVE  Held' \subseteq Held
<1>1. \A q \in Question : status'[q] = "waiting" => status[q] = "waiting"
  BY OnlyPaintsShows DEF ScreenInv
<1> QED BY <1>1 DEF Held, Waiting

LEMMA HeldStep == TypeOK /\ TookFits /\ ScreenInv /\ [Next]_vars => HeldIsNewest'
<1> SUFFICES ASSUME TypeOK, TookFits, ScreenInv, [Next]_vars,
                    NEW h \in Held'
             PROVE  /\ h \in onStream' /\ order' # <<>> /\ order'[Len(order')] = h
                    /\ (asker' = h \/ (asker' = NoQ /\ ~alive'))
  BY DEF HeldIsNewest, Newest
<1> DEFINE Goal == /\ h \in onStream' /\ order' # <<>> /\ order'[Len(order')] = h
                   /\ (asker' = h \/ (asker' = NoQ /\ ~alive'))
<1> USE DEF ScreenInv
<1>0. h \in Question /\ status'[h] = "waiting" /\ h \notin gone'
  BY DEF Held, Waiting
<1>1. CASE UNCHANGED <<order, gone, onStream, asker, alive>> /\ h \in Held
  BY <1>1 DEF HeldIsNewest, Newest
<1>2. ASSUME NEW q \in Question, Paints(q) PROVE Goal
  <2>1. asker = q /\ asker' = q /\ alive' = alive /\ onStream' = onStream \cup {q}
    BY <1>2 DEF Paints, askerVars
  <2>2. order' # <<>> /\ order'[Len(order')] = q
    BY <1>2 DEF Paints, TypeOK
  <2>3. h = q
    <3>1. CASE h # q
      <4>1. h \in Held
        BY <1>0, <1>2, <3>1 DEF Paints, Held, Waiting, TypeOK
      <4> QED BY <2>1, <3>1, <4>1, NoQIsNone DEF HeldIsNewest
    <3> QED BY <3>1
  <2> QED BY <2>1, <2>2, <2>3
<1>3. CASE UNCHANGED vars
  BY <1>1, <1>3 DEF vars, rowVars, memoryVars, askerVars, Held, Waiting
<1>5. CASE Reattach
  <2>1. UNCHANGED <<order, gone, onStream, asker, alive>>
    BY <1>5 DEF Reattach, askerVars
  <2>2. CASE h \in Held
    BY <1>1, <2>1, <2>2
  <2>3. CASE h \notin Held
    <3>1. status[h] # "waiting"
      BY <1>0, <2>1, <2>3 DEF Held, Waiting
    <3>2. h = asker /\ h \in onStream /\ status[h] # "unasked"
      BY <1>0, <1>5, <3>1 DEF Reattach, RowsArePainted, TypeOK
    <3> QED BY <1>0, <2>1, <3>2, NoQIsNone DEF AskerIsNewest, Newest
  <2> QED BY <2>2, <2>3
<1>4. CASE Next /\ ~Reattach /\ \A q \in Question : ~Paints(q)
  <2>0. order' = order
    BY <1>4, OrderStays
  <2>1. gone \subseteq gone'
    BY <1>4 DEF Next, Asks, Leg, LegWaits, LegReadsRow, LegReadsBuffer, Answer,
       AnswerAsMessage, AnswerToLeg, AnswerToBuffer, StartTurn, TurnEnds, Stopped, Resumes,
       CallFails,
       ReattachToResult, ResultIsRead, ErrorIsRead, AskerDies, LegExpires, LegDrops,
       BufferExpires, SweepClosesAsk, RestartAround,
       Reattach, RestartKills, rowVars, memoryVars
  <2>2. h \in Held
    BY <1>4, <2>1, HeldShrinks
  <2>3. h \in onStream /\ order # <<>> /\ order[Len(order)] = h /\ (asker = h \/ (asker = NoQ /\ ~alive))
    BY <2>2 DEF HeldIsNewest, Newest
  <2>4. h \notin gone /\ status[h] = "waiting"
    BY <2>2 DEF Held, Waiting
  <2>5. ASSUME NEW q \in Question, Asks(q) PROVE FALSE
    BY <2>2, <2>5, HeldIsOfAsker DEF Asks
  <2>6. ASSUME NEW q \in Question, Leg(q) \/ Answer(q) PROVE Goal
    BY <2>0, <2>3, <2>6 DEF Leg, LegWaits, LegReadsRow, LegReadsBuffer, Answer,
       AnswerAsMessage, AnswerToLeg, AnswerToBuffer, rowVars, memoryVars, askerVars
  <2>7. ASSUME NEW byPerson \in BOOLEAN, StartTurn(byPerson) PROVE FALSE
    BY <2>2, <2>7, HeldIsOfAsker DEF StartTurn
  <2>8. CASE TurnEnds
    BY <1>0, <2>3, <2>4, <2>8 DEF TurnEnds, Waiting
  <2>9. CASE Stopped
    BY <1>0, <2>3, <2>4, <2>9 DEF Stopped
  <2>10. CASE RestartKills
    BY <1>0, <2>4, <2>10 DEF RestartKills, Waiting
  <2>11. CASE Resumes \/ CallFails \/ ReattachToResult
    <3>1. asker # h
      BY <1>0, <2>3, <2>11 DEF Resumes, CallFails, ReattachToResult, ResultIsRead, ErrorIsRead,
                               TypeOK
    <3> QED BY <2>0, <2>3, <2>11, <3>1 DEF Resumes, CallFails, ReattachToResult, ResultIsRead, ErrorIsRead
  <2>12. CASE AskerDies
    BY <2>0, <2>3, <2>12 DEF AskerDies, memoryVars
  <2>13. CASE LegExpires \/ LegDrops \/ BufferExpires \/ SweepClosesAsk \/ RestartAround
    BY <2>0, <2>3, <2>13 DEF LegExpires, LegDrops, BufferExpires, SweepClosesAsk, RestartAround,
       rowVars, memoryVars, askerVars
  <2> QED
    BY <1>4, <2>5, <2>6, <2>7, <2>8, <2>9, <2>10, <2>11, <2>12, <2>13 DEF Next
<1> QED BY <1>2, <1>3, <1>4, <1>5

LEMMA ScreenStep == TypeOK /\ TookFits /\ ScreenInv /\ [Next]_vars => ScreenInv'
<1> SUFFICES ASSUME TypeOK, TookFits, ScreenInv, [Next]_vars PROVE ScreenInv'
  OBVIOUS
<1> QED BY ThereStep, CallStep, RowsStep, NewestAskerStep, HeldStep DEF ScreenInv

-----------------------------------------------------------------------------
(* What the asker's polls find *)

\* While its leg is out, the asker's panel was not answered; between two legs, or
\* when its call failed, an answer that was given is there to be read on the row.
PollsInTime ==
  asker # NoQ =>
    /\ leg = "out" => status[asker] \in {"unasked", "waiting"}
    /\ leg \in {"idle", "cancelled"} =>
         \/ status[asker] \in {"unasked", "waiting"}
         \/ status[asker] = "running" /\ asker \in answered

\* An ask is opened only over a buffer that has nothing for it, and a click that
\* fills the buffer closes the ask.
BufferIsForLater == buffer # NoQ => open # Unsaid /\ open # text[buffer]

LEMMA LaterStep == TypeOK /\ BufferIsForLater /\ [Next]_vars => BufferIsForLater'
<1> SUFFICES ASSUME TypeOK, BufferIsForLater, [Next]_vars, buffer' # NoQ
             PROVE  open' # Unsaid /\ open' # text[buffer']
  BY DEF BufferIsForLater
<1>0. buffer = NoQ \/ (text[buffer] # NoAsk /\ text[buffer] # Unsaid)
  BY TextsOfQuestions, DistinctNames DEF TypeOK
<1>1. CASE buffer' = buffer /\ open' \in {open, NoAsk}
  BY <1>0, <1>1, DistinctNames DEF BufferIsForLater
<1>2. ASSUME NEW q \in Question, LegWaits(q) PROVE open' # Unsaid /\ open' # text[buffer']
  <2>1. open' = text[q] /\ open' \in Text
    BY <1>2, TextsOfQuestions DEF LegWaits
  <2> QED BY <1>2, <2>1, DistinctNames DEF LegWaits, Fits
<1>3. ASSUME NEW q \in Question, AnswerToBuffer(q)
      PROVE  open' # Unsaid /\ open' # text[buffer']
  BY <1>3, TextsOfQuestions, DistinctNames DEF AnswerToBuffer
<1>4. ASSUME NEW q \in Question, LegReadsRow(q) \/ LegReadsBuffer(q)
      PROVE  open' # Unsaid /\ open' # text[buffer']
  BY <1>1, <1>4 DEF LegReadsRow, LegReadsBuffer
<1>5. ASSUME NEW q \in Question, Asks(q) \/ Paints(q) \/ AnswerAsMessage(q) \/ AnswerToLeg(q)
      PROVE  open' # Unsaid /\ open' # text[buffer']
  BY <1>1, <1>5 DEF Asks, Paints, AnswerAsMessage, AnswerToLeg, memoryVars
<1>6. ASSUME NEW byPerson \in BOOLEAN, StartTurn(byPerson)
      PROVE  open' # Unsaid /\ open' # text[buffer']
  BY <1>1, <1>6 DEF StartTurn
<1>7. CASE Resumes \/ CallFails \/ ReattachToResult \/ AskerDies
  BY <1>1, <1>7 DEF Resumes, CallFails, ReattachToResult, ResultIsRead, ErrorIsRead, AskerDies,
     memoryVars
<1>8. CASE LegExpires \/ LegDrops \/ BufferExpires \/ Reattach
  BY <1>1, <1>8 DEF LegExpires, LegDrops, BufferExpires, Reattach, memoryVars
<1>9. CASE TurnEnds \/ Stopped \/ SweepClosesAsk \/ RestartAround \/ RestartKills
  BY <1>1, <1>9 DEF TurnEnds, Stopped, SweepClosesAsk, AskCancelled, RestartAround, RestartKills
<1>10. CASE UNCHANGED vars
  BY <1>1, <1>10 DEF vars, memoryVars
<1> QED
  BY <1>2, <1>3, <1>4, <1>5, <1>6, <1>7, <1>8, <1>9, <1>10 DEF Next, Leg, Answer

\* A leg that finds no answer on the row is about a panel that is still to be answered.
LEMMA NoAnswerYet ==
  ASSUME ScreenInv, PollsInTime, NEW q \in Question, Polls(q), ~RecordedFor(q)
  PROVE  status[q] \in {"unasked", "waiting"}
<1>1. asker = q /\ leg = "idle" /\ asker # NoQ
  BY NoQIsNone DEF Polls
<1>2. status[q] # "unasked" => order # <<>> /\ order[Len(order)] = q
  BY <1>1 DEF ScreenInv, AskerIsNewest, Newest
<1>3. ~(status[q] = "running" /\ q \in answered)
  BY <1>2 DEF RecordedFor, Last
<1> QED BY <1>1, <1>3 DEF PollsInTime

\* An answer is handed out of the buffer only when it is not the asker's own.
HandsOutOthers ==
  \A q \in Question : AnswerToBuffer(q) /\ buffer \notin {NoQ, q} => buffer # asker

LEMMA PollsStep ==
  ASSUME TypeOK, LegIsOfAsker, ScreenInv, BufferIsForLater, PollsInTime, HandsOutOthers,
         [Next]_vars
  PROVE  PollsInTime'
<1> SUFFICES ASSUME asker' # NoQ
             PROVE  /\ leg' = "out" => status'[asker'] \in {"unasked", "waiting"}
                    /\ leg' \in {"idle", "cancelled"} =>
                         \/ status'[asker'] \in {"unasked", "waiting"}
                         \/ status'[asker'] = "running" /\ asker' \in answered'
  BY DEF PollsInTime
<1> DEFINE Goal == /\ leg' = "out" => status'[asker'] \in {"unasked", "waiting"}
                   /\ leg' \in {"idle", "cancelled"} =>
                        \/ status'[asker'] \in {"unasked", "waiting"}
                        \/ status'[asker'] = "running" /\ asker' \in answered'
<1>1. CASE UNCHANGED <<status, answered, asker>> /\ leg' \in {leg, "answered"}
  BY <1>1 DEF PollsInTime
<1>2. ASSUME NEW q \in Question, Asks(q) PROVE Goal
  BY <1>2 DEF Asks, rowVars
<1>3. ASSUME NEW q \in Question, Paints(q) PROVE Goal
  BY <1>3 DEF Paints, TypeOK, askerVars
<1>4. ASSUME NEW q \in Question, LegWaits(q) PROVE Goal
  <2>1. status[q] \in {"unasked", "waiting"}
    BY <1>4, NoAnswerYet DEF LegWaits
  <2> QED BY <1>4, <2>1 DEF LegWaits, Polls, rowVars
<1>5. ASSUME NEW q \in Question, LegReadsRow(q) \/ LegReadsBuffer(q) PROVE Goal
  BY <1>5 DEF LegReadsRow, LegReadsBuffer
<1>6. ASSUME NEW q \in Question, AnswerAsMessage(q) PROVE Goal
  <2>1. asker # q /\ asker' = asker /\ leg' = leg
    BY <1>6 DEF AnswerAsMessage, GoesAsMessage, askerVars, ScreenInv, AskerIsNewest
  <2>2. status'[asker] = status[asker] /\ answered \subseteq answered'
    BY <1>6, <2>1 DEF AnswerAsMessage, QueuedAsMessage, TypeOK
  <2> QED BY <2>1, <2>2 DEF PollsInTime
<1>7. ASSUME NEW q \in Question, AnswerToLeg(q) PROVE Goal
  <2>1. asker' = asker /\ leg' \in {"answered", leg} /\ leg' # "out"
    BY <1>7 DEF AnswerToLeg
  <2>2. CASE asker = q
    BY <1>7, <2>1, <2>2 DEF AnswerToLeg, TypeOK
  <2>3. CASE asker # q
    <3>1. status'[asker] = status[asker] /\ answered \subseteq answered'
      BY <1>7, <2>3 DEF AnswerToLeg, TypeOK
    <3> QED BY <2>1, <3>1 DEF PollsInTime
  <2> QED BY <2>2, <2>3
<1>8. ASSUME NEW q \in Question, AnswerToBuffer(q) PROVE Goal
  <2>1. asker' = asker /\ leg' = leg /\ asker \in Question
    BY <1>8 DEF AnswerToBuffer, askerVars, TypeOK
  <2>2. leg # "out"
    BY <1>8, NoQIsNone DEF AnswerToBuffer, LegIsOfAsker
  <2>3. CASE asker = q
    BY <1>8, <2>1, <2>2, <2>3 DEF AnswerToBuffer
  <2>4. CASE asker # q
    <3>1. ~(buffer \notin {NoQ, q} /\ asker = buffer)
      BY <1>8 DEF HandsOutOthers
    <3>2. status'[asker] = status[asker] /\ answered \subseteq answered'
      BY <1>8, <2>1, <2>4, <3>1 DEF AnswerToBuffer
    <3> QED BY <2>1, <3>2 DEF PollsInTime
  <2> QED BY <2>3, <2>4
<1>9. CASE BufferExpires
  <2>1. asker' = asker /\ leg' = leg /\ asker \in Question /\ answered' = answered
    BY <1>9 DEF BufferExpires, askerVars, TypeOK
  <2>2. CASE asker = buffer
    <3>1. leg \notin {"idle", "cancelled"}
      BY <1>9, <2>1, <2>2 DEF BufferExpires, Fits
    <3>2. leg # "out"
      BY <1>9, <2>2 DEF BufferExpires, BufferIsForLater, LegIsOfAsker
    <3> QED BY <2>1, <3>1, <3>2
  <2>3. CASE asker # buffer
    <3>1. status'[asker] = status[asker]
      BY <1>9, <2>3 DEF BufferExpires, QueuedAsMessage, TypeOK
    <3> QED BY <2>1, <3>1 DEF PollsInTime
  <2> QED BY <2>2, <2>3
<1>10. ASSUME NEW byPerson \in BOOLEAN, StartTurn(byPerson) PROVE FALSE
  BY <1>10 DEF StartTurn, ScreenInv, AskerIsThere
<1>11. CASE Resumes \/ CallFails \/ ReattachToResult \/ AskerDies \/ Stopped \/ RestartKills
  BY <1>11 DEF Resumes, CallFails, ReattachToResult, ResultIsRead, ErrorIsRead, AskerDies,
               Stopped, RestartKills
<1>12. CASE TurnEnds \/ SweepClosesAsk
  BY <1>12, EndsOnNoCall DEF TurnEnds, SweepClosesAsk, ScreenInv
<1>13. CASE LegExpires \/ LegDrops
  BY <1>13 DEF LegExpires, LegDrops, rowVars, PollsInTime
<1>14. CASE RestartAround
  BY <1>14 DEF RestartAround, rowVars, PollsInTime
<1>15. CASE Reattach
  <2>1. /\ UNCHANGED <<asker, leg, answered>> /\ asker \in Question
        /\ status'[asker] \in {status[asker], "waiting"}
    BY <1>15 DEF Reattach, askerVars, TypeOK
  <2> QED BY <2>1 DEF PollsInTime
<1>16. CASE UNCHANGED vars
  BY <1>1, <1>16 DEF vars, rowVars, askerVars
<1> QED
  BY <1>2, <1>3, <1>4, <1>5, <1>6, <1>7, <1>8, <1>9, <1>10, <1>11, <1>12, <1>13, <1>14, <1>15,
     <1>16 DEF Next, Leg, Answer

-----------------------------------------------------------------------------
(* Every panel that waits can be answered *)

\* An ask that is open is about a question that is held, and says what it asks.
AskIsHeld == open # NoAsk => \E h \in Held : open \in Text => text[h] = open

\* The provider holds the panel its live child is blocked on.
PanelIsHeld == asker # NoQ /\ stream = "live" /\ asker \in Waiting => pending

\* The inductive invariant of a session whose panels come before their legs.
PanelInv == IInv /\ ScreenInv /\ BufferIsForLater /\ PollsInTime /\ AskIsHeld /\ PanelIsHeld

\* The newest panel, held, that asks what the open ask says is the leg's.
LEMMA HeldIsLegPanel ==
  ASSUME TypeOK, ScreenInv, NEW h \in Held, text[h] = open
  PROVE  /\ IsLegPanel(h, open)
         /\ \A q \in Question : IsLegPanel(q, open) => q = h
<1>1. order # <<>> /\ order[Len(order)] = h
  BY DEF ScreenInv, HeldIsNewest, Newest
<1>2. Len(order) \in 1 .. Len(order) /\ DOMAIN order = 1 .. Len(order)
  BY <1>1 DEF TypeOK
<1>3. \A i, j \in DOMAIN order : order[i] = h /\ j > i => FALSE
  BY <1>1, <1>2 DEF ScreenInv, RowsArePainted
<1>4. IsLegPanel(h, open)
  BY <1>3 DEF IsLegPanel, Held
<1>5. ASSUME NEW q \in Question, IsLegPanel(q, open) PROVE q = h
  <2>1. PICK i \in 1 .. Len(order) : order[i] = q
    BY <1>5 DEF IsLegPanel, Waiting, ScreenInv, RowsArePainted
  <2>2. ~(Len(order) > i)
    BY <1>1, <1>2, <1>5, <2>1 DEF IsLegPanel, Held
  <2> QED BY <1>1, <1>2, <2>1, <2>2
<1> QED BY <1>4, <1>5

LEMMA HeldHandsOutOthers ==
  TypeOK /\ ScreenInv /\ BufferIsForLater /\ AskIsHeld => HandsOutOthers
<1> SUFFICES ASSUME TypeOK, ScreenInv, BufferIsForLater, AskIsHeld,
                    NEW q \in Question, AnswerToBuffer(q), buffer \notin {NoQ, q}, buffer = asker
             PROVE  FALSE
  BY DEF HandsOutOthers
<1>1. asker \in Question /\ asker # NoQ /\ open # Unsaid
  BY NoQIsNone DEF TypeOK, BufferIsForLater
<1>2. \A h \in Held : h = asker
  BY <1>1 DEF ScreenInv, HeldIsNewest
<1>3. CASE open = NoAsk
  <2>1. q \in Held
    BY <1>3, DistinctNames DEF AnswerToBuffer, GoesToAsker, Held
  <2> QED BY <1>2, <2>1
<1>4. CASE open # NoAsk
  <2>1. open \in Text
    BY <1>1, <1>4 DEF TypeOK
  <2>2. PICK h \in Held : text[h] = open
    BY <1>4, <2>1 DEF AskIsHeld
  <2>3. IsLegPanel(h, open) /\ \A p \in Question : IsLegPanel(p, open) => p = h
    BY <2>2, HeldIsLegPanel
  <2>4. h \in Question
    BY DEF Held, Waiting
  <2>5. IsLegPanel(q, open)
    BY <1>1, <1>4, <2>3, <2>4 DEF AnswerToBuffer, GoesToAsker
  <2> QED BY <1>2, <2>3, <2>5
<1> QED BY <1>3, <1>4

\* A step that leaves the open ask alone and its question on screen.
LEMMA HeldAskStays ==
  ASSUME AskIsHeld, open' \in {NoAsk, open}, open' # NoAsk => Held \subseteq Held'
  PROVE  AskIsHeld'
  BY DEF AskIsHeld

LEMMA AskIsHeldStep ==
  ASSUME PanelFirst, PanelInv, [Next]_vars
  PROVE  AskIsHeld'
<1> USE DEF PanelInv, ScreenInv, IInv
<1>1. CASE open' \in {NoAsk, open} /\ (open' # NoAsk => Held \subseteq Held')
  BY <1>1, HeldAskStays
<1>2. CASE open' = NoAsk
  BY <1>2 DEF AskIsHeld
<1>3. ASSUME NEW q \in Question, Asks(q) PROVE AskIsHeld'
  BY <1>1, <1>3 DEF Asks, rowVars, memoryVars, Held, Waiting
<1>4. ASSUME NEW q \in Question, Paints(q) PROVE AskIsHeld'
  BY <1>1, <1>4 DEF Paints, Held, Waiting, TypeOK
<1>5. ASSUME NEW q \in Question, LegWaits(q) \/ LegReadsBuffer(q) PROVE AskIsHeld'
  <2>1. Polls(q) /\ ~RecordedFor(q) /\ UNCHANGED <<status, gone>>
    BY <1>5 DEF LegWaits, LegReadsBuffer, rowVars
  <2>2. status[q] = "waiting" /\ asker = q
    BY <2>1, NoAnswerYet DEF Polls
  <2>3. q \in Held' /\ Held \subseteq Held'
    BY <2>1, <2>2, NoQIsNone DEF Held, Waiting, AskerIsNewest
  <2>4. CASE LegWaits(q)
    BY <2>3, <2>4 DEF LegWaits, AskIsHeld
  <2>5. CASE LegReadsBuffer(q) /\ open = NoAsk
    <3>1. open' = Unsaid /\ Unsaid \notin Text
      BY <2>5, DistinctNames DEF LegReadsBuffer
    <3> QED BY <2>3, <3>1 DEF AskIsHeld
  <2>6. CASE LegReadsBuffer(q) /\ open # NoAsk
    BY <1>1, <2>3, <2>6 DEF LegReadsBuffer
  <2> QED BY <1>5, <2>4, <2>5, <2>6
<1>6. ASSUME NEW q \in Question, LegReadsRow(q) \/ AnswerToLeg(q) \/ AnswerToBuffer(q)
      PROVE  AskIsHeld'
  BY <1>2, <1>6 DEF LegReadsRow, AnswerToLeg, AnswerToBuffer
<1>7. ASSUME NEW q \in Question, AnswerAsMessage(q) PROVE AskIsHeld'
  BY <1>1, <1>7 DEF AnswerAsMessage, GoesAsMessage, QueuedAsMessage, memoryVars, Held, Waiting,
                    TypeOK
<1>8. ASSUME NEW byPerson \in BOOLEAN, StartTurn(byPerson) PROVE AskIsHeld'
  <2>1. Held = {}
    BY <1>8, HeldIsOfAsker DEF StartTurn
  <2> QED BY <1>2, <1>8, <2>1 DEF StartTurn, AskIsHeld
<1>15. CASE ReattachToResult
  <2>1. CASE asker \in onStream
    BY <1>2, <1>15, <2>1 DEF ReattachToResult, ResultIsRead, ErrorIsRead
  <2>2. CASE asker \notin onStream
    <3>1. open' = open /\ status' = status /\ gone' = gone
      BY <1>15, <2>2 DEF ReattachToResult, ResultIsRead, ErrorIsRead
    <3> QED BY <1>1, <3>1 DEF Held, Waiting
  <2> QED BY <2>1, <2>2
<1>9. CASE Resumes \/ CallFails
  <2>1. CASE open' = open /\ open # NoAsk
    <3>1. ~pending /\ stream # "unadopted"
      BY <1>9, <2>1 DEF Resumes, CallFails, ReattachToResult, ResultIsRead, ErrorIsRead
    <3>2. asker # NoQ => stream = "live"
      BY <3>1 DEF AskerIsThere, TypeOK
    <3>3. asker # NoQ => asker \notin Waiting
      BY <3>1, <3>2 DEF PanelIsHeld
    <3>4. Held \subseteq Held'
      BY <1>9, <3>3, NoQIsNone DEF Resumes, CallFails, ReattachToResult, ResultIsRead,
                                   ErrorIsRead, Held, Waiting, TypeOK
    <3> QED BY <1>1, <2>1, <3>4
  <2> QED BY <1>2, <1>9, <2>1 DEF Resumes, CallFails, ReattachToResult, ResultIsRead, ErrorIsRead
<1>10. CASE BufferExpires
  <2>1. /\ UNCHANGED <<open, gone>> /\ open # Unsaid /\ open # text[buffer]
        /\ \A h \in Question : h # buffer => status'[h] = status[h]
    BY <1>10 DEF BufferExpires, QueuedAsMessage, BufferIsForLater, TypeOK
  <2>2. CASE open # NoAsk
    <3>1. open \in Text
      BY <2>1, <2>2 DEF TypeOK
    <3>2. PICK h \in Held : text[h] = open
      BY <2>2, <3>1 DEF AskIsHeld
    <3>3. h \in Held'
      BY <2>1, <3>2 DEF Held, Waiting
    <3> QED BY <2>1, <3>2, <3>3 DEF AskIsHeld
  <2> QED BY <1>2, <2>1, <2>2
<1>11. CASE AskerDies \/ LegExpires \/ LegDrops
  BY <1>1, <1>11 DEF AskerDies, LegExpires, LegDrops, rowVars, memoryVars, Held, Waiting
<1>16. CASE Reattach
  <2>1. Held \subseteq Held'
    BY <1>16 DEF Reattach, Held, Waiting, TypeOK
  <2> QED BY <1>1, <1>16, <2>1 DEF Reattach
<1>12. CASE TurnEnds
  <2>1. CASE onStream \cap Waiting # {}
    BY <1>2, <1>12, <2>1 DEF TurnEnds, AskCancelled
  <2>2. CASE onStream \cap Waiting = {}
    <3>1. Held = {}
      BY <2>2 DEF HeldIsNewest, Held
    <3> QED BY <1>2, <1>12, <2>2, <3>1 DEF TurnEnds, AskIsHeld
  <2> QED BY <2>1, <2>2
<1>13. CASE Stopped \/ SweepClosesAsk \/ RestartAround \/ RestartKills
  BY <1>2, <1>13 DEF Stopped, SweepClosesAsk, AskCancelled, RestartAround, RestartKills
<1>14. CASE UNCHANGED vars
  BY <1>1, <1>14 DEF vars, rowVars, memoryVars, Held, Waiting
<1> QED
  BY <1>3, <1>4, <1>5, <1>6, <1>7, <1>8, <1>9, <1>10, <1>11, <1>12, <1>13, <1>14,
     <1>15, <1>16
  DEF Next, Leg, Answer

LEMMA PanelIsHeldStep ==
  ASSUME TypeOK, ScreenInv, PanelIsHeld, [Next]_vars
  PROVE  PanelIsHeld'
<1> SUFFICES ASSUME asker' # NoQ, stream' = "live", asker' \in Question,
                    status'[asker'] = "waiting"
             PROVE  pending'
  BY DEF PanelIsHeld, Waiting
<1> USE DEF ScreenInv
<1>1. CASE UNCHANGED <<asker, stream, pending>> /\ status[asker] = "waiting"
  BY <1>1 DEF PanelIsHeld, Waiting
<1>2. ASSUME NEW q \in Question, Asks(q) PROVE pending'
  BY <1>2 DEF Asks, rowVars
<1>3. ASSUME NEW q \in Question, Paints(q) PROVE pending'
  BY <1>3 DEF Paints
<1>4. ASSUME NEW q \in Question, Leg(q) PROVE pending'
  BY <1>1, <1>4 DEF Leg, LegWaits, LegReadsRow, LegReadsBuffer, rowVars
<1>5. ASSUME NEW q \in Question, AnswerAsMessage(q) PROVE pending'
  BY <1>1, <1>5 DEF AnswerAsMessage, QueuedAsMessage, memoryVars, askerVars, TypeOK
<1>6. ASSUME NEW q \in Question, AnswerToLeg(q) PROVE pending'
  <2>1. asker # q /\ status[asker] = "waiting"
    BY <1>6 DEF AnswerToLeg, TypeOK
  <2> QED BY <1>6, <2>1 DEF AnswerToLeg, PanelIsHeld, Waiting
<1>7. ASSUME NEW q \in Question, AnswerToBuffer(q) PROVE pending'
  <2>1. asker # q /\ status[asker] = "waiting"
    BY <1>7 DEF AnswerToBuffer, askerVars, TypeOK
  <2> QED BY <1>7, <2>1 DEF AnswerToBuffer, askerVars, PanelIsHeld, Waiting
<1>8. ASSUME NEW byPerson \in BOOLEAN, StartTurn(byPerson) PROVE FALSE
  BY <1>8 DEF StartTurn, AskerIsThere
<1>9. CASE Resumes \/ CallFails \/ ReattachToResult \/ AskerDies \/ Stopped \/ RestartKills
         \/ TurnEnds \/ RestartAround
  BY <1>9 DEF Resumes, CallFails, ReattachToResult, ResultIsRead, ErrorIsRead, AskerDies,
              Stopped, RestartKills, TurnEnds, RestartAround
<1>10. CASE LegExpires \/ LegDrops \/ SweepClosesAsk
  BY <1>1, <1>10 DEF LegExpires, LegDrops, SweepClosesAsk, rowVars, memoryVars
<1>11. CASE BufferExpires
  BY <1>1, <1>11 DEF BufferExpires, QueuedAsMessage, askerVars, TypeOK
<1>12. CASE Reattach
  <2>1. asker' = asker /\ (asker \notin onStream => status' = status)
    BY <1>12 DEF Reattach, askerVars
  <2>2. asker \in onStream
    BY <2>1 DEF AskerIsNewest
  <2> QED BY <1>12, <2>2 DEF Reattach
<1>13. CASE UNCHANGED vars
  BY <1>1, <1>13 DEF vars, rowVars, memoryVars, askerVars
<1> QED
  BY <1>2, <1>3, <1>4, <1>5, <1>6, <1>7, <1>8, <1>9, <1>10, <1>11, <1>12, <1>13
  DEF Next, Answer

\* A panel that waits finds its way: to the child that asked, or as a message.
LEMMA HeldIsAnswerable ==
  ASSUME PanelInv, NEW q \in Waiting
  PROVE  GoesToAsker(q) \/ GoesAsMessage(q)
<1> USE DEF PanelInv, ScreenInv, IInv
<1>1. CASE q \in gone
  BY <1>1 DEF GoesAsMessage
<1>2. CASE q \notin gone /\ open \in {NoAsk, Unsaid}
  BY <1>2 DEF GoesToAsker
<1>3. CASE q \notin gone /\ open \notin {NoAsk, Unsaid}
  <2>1. open \in Text /\ q \in Held
    BY <1>3 DEF TypeOK, Held
  <2>2. PICK h \in Held : text[h] = open
    BY <1>3, <2>1 DEF AskIsHeld
  <2>3. h = q
    BY <2>1, <2>2 DEF HeldIsNewest, Newest
  <2>6. IsLegPanel(q, open)
    BY <2>2, <2>3, HeldIsLegPanel
  <2> QED BY <1>3, <2>6 DEF GoesToAsker
<1> QED BY <1>1, <1>2, <1>3

LEMMA PanelStep == PanelFirst /\ PanelInv /\ [Next]_vars => PanelInv'
<1> SUFFICES ASSUME PanelFirst, PanelInv, [Next]_vars PROVE PanelInv'
  OBVIOUS
<1>1. IInv' /\ ScreenInv'
  BY Induction, ScreenStep DEF PanelInv, IInv
<1>2. PollsInTime'
  BY PollsStep, HeldHandsOutOthers DEF PanelInv, IInv
<1>3. AskIsHeld'
  BY AskIsHeldStep
<1>4. PanelIsHeld'
  BY PanelIsHeldStep DEF PanelInv, IInv
<1>5. BufferIsForLater'
  BY LaterStep DEF PanelInv, IInv
<1> QED BY <1>1, <1>2, <1>3, <1>4, <1>5 DEF PanelInv

-----------------------------------------------------------------------------
(* An answer goes one way *)

\* No two calls ask the same thing.
TextsTellApart == \A p, q \in Question : text[p] = text[q] => p = q

Undelivered(q) == heardAs[q] = {} /\ owed[q] = 0

\* Of the questions nobody took up again: what is not answered, and what was answered
\* and is running, went nowhere yet.
RunningIsUndelivered ==
  \A q \in Question \ reopened :
    status[q] \in {"unasked", "waiting", "running"} => Undelivered(q)

\* The answer in the buffer, and the one a leg brought back, went nowhere yet,
\* and they are two answers.
CarriedIsUndelivered ==
  /\ buffer # NoQ /\ buffer \notin reopened => Undelivered(buffer)
  /\ leg = "answered" /\ took \notin reopened =>
       took # buffer /\ Undelivered(took) /\ status[took] \notin {"unasked", "waiting"}

\* The open ask is about a question that is to be painted, or is held, and names it
\* until a panel was shown again; the call that is about to end is another one's.
OpenIsToAnswer ==
  /\ open = Unsaid => reopened # {}
  /\ \A q \in Question : text[q] = open => status[q] = "unasked" \/ q \in Held
  /\ asker # NoQ /\ leg \in {"answered", "cancelled"} => open # text[asker]

\* An answer was queued at most once, and then no call heard it.
OneWay == \A q \in Question \ reopened : owed[q] = 0 \/ (owed[q] = 1 /\ heardAs[q] = {})

\* The inductive invariant of a session whose questions differ.
OnceInv ==
  /\ IInv /\ ScreenInv /\ BufferIsForLater /\ PollsInTime
  /\ RunningIsUndelivered /\ CarriedIsUndelivered /\ OpenIsToAnswer /\ OneWay

\* A click that is routed to a process is on a panel that is held, when the open ask
\* says what it is about.
LEMMA ClickIsOnHeld ==
  ASSUME TypeOK, OpenIsToAnswer, open # Unsaid,
         NEW q \in Question, status[q] # "unasked", GoesToAsker(q)
  PROVE  q \in Held
<1>1. CASE open = NoAsk
  BY <1>1, DistinctNames DEF GoesToAsker, Held
<1>2. CASE open # NoAsk
  <2>1. text[q] = open
    BY <1>2 DEF GoesToAsker, OpenIsToAnswer, IsLegPanel
  <2> QED BY <2>1 DEF OpenIsToAnswer
<1> QED BY <1>1, <1>2

\* So a click is on a panel that waits, or its question counts as taken up again.
LEMMA ClickIsOnWaiting ==
  ASSUME TypeOK, OpenIsToAnswer, NEW q \in Question, status[q] # "unasked", GoesToAsker(q)
  PROVE  q \in Waiting \/ (q \in TakenUp(q) /\ reopened # {})
<1>1. CASE open = Unsaid
  BY <1>1 DEF TakenUp, OpenIsToAnswer
<1>2. CASE open # Unsaid
  BY <1>2, ClickIsOnHeld DEF Held
<1> QED BY <1>1, <1>2

LEMMA ToAnswerHandsOutOthers ==
  TypeOK /\ ScreenInv /\ BufferIsForLater /\ OpenIsToAnswer => HandsOutOthers
<1> SUFFICES ASSUME TypeOK, ScreenInv, BufferIsForLater, OpenIsToAnswer,
                    NEW q \in Question, AnswerToBuffer(q), buffer \notin {NoQ, q}, buffer = asker
             PROVE  FALSE
  BY DEF HandsOutOthers
<1>1. q \in Held
  BY ClickIsOnHeld DEF AnswerToBuffer, BufferIsForLater
<1> QED BY <1>1 DEF ScreenInv, HeldIsNewest

\* The row is written before the buffer: only of a panel that was shown again does a
\* leg have to read the buffer.
LEMMA BufferIsReadOnceShown ==
  ASSUME TextsTellApart, OnceInv, NEW q \in Question, LegReadsBuffer(q)
  PROVE  q \in reopened /\ buffer = q /\ asker = q /\ status[q] = "waiting"
<1>1. Polls(q) /\ ~RecordedFor(q) /\ buffer # NoQ /\ text[buffer] = text[q]
  BY DEF LegReadsBuffer, Fits
<1>2. buffer = q
  BY <1>1 DEF OnceInv, IInv, TypeOK, TextsTellApart
<1>3. status[q] \in {"unasked", "waiting"}
  BY <1>1, NoAnswerYet DEF OnceInv
<1> QED BY <1>1, <1>2, <1>3 DEF OnceInv, ScreenInv, RowsArePainted, Polls

\* Of a call's answer, the leg brought back the very one.
LEMMA TookIsAsker ==
  ASSUME TextsTellApart, TookFits, leg = "answered"
  PROVE  took = asker /\ asker \in Question
  BY DEF TookFits, TextsTellApart

\* A step that closes the open ask.
LEMMA ClosedAsk ==
  ASSUME TypeOK', open' = NoAsk
  PROVE  OpenIsToAnswer'
  BY TextsOfQuestions, DistinctNames DEF OpenIsToAnswer, TypeOK

\* A step that leaves the open ask, and what it is about, alone.
LEMMA SameAsk ==
  ASSUME OpenIsToAnswer, open' = open, reopened \subseteq reopened',
         \A q \in Question : status[q] = "unasked" => status'[q] = "unasked",
         \A q \in Held : text[q] = open => q \in Held',
         \/ asker' = NoQ
         \/ asker' = asker /\ leg' \in {leg, "idle", "out"}
  PROVE  OpenIsToAnswer'
  BY DEF OpenIsToAnswer

LEMMA OpenStep ==
  ASSUME TextsTellApart, OnceInv, TypeOK', [Next]_vars
  PROVE  OpenIsToAnswer'
<1> USE DEF OnceInv, IInv, ScreenInv
<1>0. reopened \subseteq reopened'
  BY ReopenedStay
<1>1. CASE open' = NoAsk
  BY <1>1, ClosedAsk
<1>2. CASE UNCHANGED <<open, status, gone, asker, leg>>
  BY <1>0, <1>2 DEF OpenIsToAnswer, Held, Waiting
<1>3. ASSUME NEW q \in Question, Asks(q) PROVE OpenIsToAnswer'
  <2>1. leg = "idle" /\ leg' = leg /\ asker' = q /\ UNCHANGED <<open, status, gone>>
    BY <1>3 DEF Asks, rowVars, memoryVars, LegIsOfACall
  <2> QED BY <1>0, <2>1 DEF OpenIsToAnswer, Held, Waiting
<1>4. ASSUME NEW q \in Question, Paints(q) PROVE OpenIsToAnswer'
  <2>1. q \in Held' /\ Held \subseteq Held'
    BY <1>4 DEF Paints, Held, Waiting, RowsArePainted, TypeOK
  <2>2. \A p \in Question : status[p] = "unasked" => status'[p] = "unasked" \/ p = q
    BY <1>4 DEF Paints, TypeOK
  <2>3. UNCHANGED <<open, asker, leg>>
    BY <1>4 DEF Paints, askerVars
  <2> QED BY <1>0, <2>1, <2>2, <2>3 DEF OpenIsToAnswer
<1>5. ASSUME NEW q \in Question, LegWaits(q) PROVE OpenIsToAnswer'
  <2>1. open' = text[q] /\ leg' = "out" /\ UNCHANGED <<status, gone>> /\ asker = q
    BY <1>5 DEF LegWaits, Polls, rowVars
  <2>2. status[q] \in {"unasked", "waiting"}
    BY <1>5, NoAnswerYet DEF LegWaits
  <2>3. status'[q] = "unasked" \/ q \in Held'
    BY <2>1, <2>2, NoQIsNone DEF Held, Waiting, AskerIsNewest
  <2>4. open' \in Text
    BY <2>1, TextsOfQuestions
  <2> QED BY <2>1, <2>3, <2>4, DistinctNames DEF OpenIsToAnswer, TextsTellApart
<1>6. ASSUME NEW q \in Question, LegReadsRow(q) \/ AnswerToLeg(q) \/ AnswerToBuffer(q)
      PROVE  OpenIsToAnswer'
  BY <1>1, <1>6 DEF LegReadsRow, AnswerToLeg, AnswerToBuffer
<1>7. ASSUME NEW q \in Question, LegReadsBuffer(q) PROVE OpenIsToAnswer'
  <2>1. q \in reopened /\ asker = q /\ q \in Held
    BY <1>7, BufferIsReadOnceShown, NoQIsNone DEF AskerIsNewest, Held, Waiting
  <2>2. /\ UNCHANGED <<status, gone, reopened, asker>>
        /\ open' = IF open = NoAsk THEN Unsaid ELSE open
    BY <1>7 DEF LegReadsBuffer, rowVars
  <2>3. open # text[q]
    BY <1>7, BufferIsReadOnceShown, NoQIsNone DEF BufferIsForLater
  <2> QED BY <2>1, <2>2, <2>3, TextsOfQuestions, DistinctNames DEF OpenIsToAnswer, Held, Waiting
<1>8. ASSUME NEW q \in Question, AnswerAsMessage(q) PROVE OpenIsToAnswer'
  <2>1. /\ q \in gone /\ q \in Waiting /\ UNCHANGED <<open, gone, asker, leg>>
        /\ status' = [status EXCEPT ![q] = "success"]
    BY <1>8 DEF AnswerAsMessage, GoesAsMessage, QueuedAsMessage, memoryVars, askerVars
  <2>2. \A p \in Question : status[p] = "unasked" => status'[p] = "unasked"
    BY <2>1 DEF Waiting, TypeOK
  <2>3. Held \subseteq Held'
    BY <2>1 DEF Held, Waiting, TypeOK
  <2> QED BY <2>1, <2>2, <2>3, <1>0, SameAsk
<1>9. ASSUME NEW byPerson \in BOOLEAN, StartTurn(byPerson) PROVE OpenIsToAnswer'
  <2>1. Held = {} /\ UNCHANGED <<open, asker, leg>>
    BY <1>9, HeldIsOfAsker DEF StartTurn
  <2>2. \A p \in Question : status[p] = "unasked" => status'[p] = "unasked"
    BY <1>9 DEF StartTurn, Waiting
  <2> QED BY <2>1, <2>2, <1>0, SameAsk
<1>10. ASSUME NEW held, ResultIsRead(held) \/ ErrorIsRead(held) PROVE OpenIsToAnswer'
  <2>1. CASE open' = open
    <3>1. /\ leg \in {"answered", "cancelled"} /\ asker' = NoQ /\ gone' = gone
          /\ \A p \in Question : p # asker => status'[p] = status[p]
      BY <1>10 DEF ResultIsRead, ErrorIsRead, TypeOK
    <3>2. asker \in Question /\ asker # NoQ /\ open # text[asker]
      BY <3>1 DEF LegIsOfACall, OpenIsToAnswer, TypeOK
    <3>3. status[asker] = "unasked" => status'[asker] = "unasked"
      BY <1>10 DEF ResultIsRead, ErrorIsRead, RowsArePainted
    <3>4. \A p \in Held : text[p] = open => p \in Held'
      BY <3>1, <3>2 DEF Held, Waiting
    <3> QED BY <1>0, <2>1, <3>1, <3>3, <3>4, SameAsk
  <2> QED BY <1>1, <1>10, <2>1 DEF ResultIsRead, ErrorIsRead
<1>16. CASE Resumes \/ CallFails \/ ReattachToResult
  BY <1>10, <1>16 DEF Resumes, CallFails, ReattachToResult
<1>17. CASE Reattach
  <2>1. /\ UNCHANGED <<open, gone, asker, leg>>
        /\ \A q \in Question :
             \/ status'[q] = status[q]
             \/ (q = asker /\ asker \in onStream /\ status'[q] = "waiting")
    BY <1>17 DEF Reattach, askerVars, TypeOK
  <2>2. \A q \in Question : status[q] = "unasked" => status'[q] = "unasked"
    BY <2>1 DEF RowsArePainted
  <2>3. Held \subseteq Held'
    BY <2>1 DEF Held, Waiting
  <2> QED BY <1>0, <2>1, <2>2, <2>3, SameAsk
<1>11. CASE BufferExpires
  <2>1. /\ buffer \in Question /\ status[buffer] # "unasked" /\ open # text[buffer]
        /\ status' = [status EXCEPT ![buffer] = "success"]
        /\ UNCHANGED <<open, gone, asker, leg>>
    BY <1>11 DEF BufferExpires, QueuedAsMessage, askerVars, RowsArePainted, BufferIsForLater,
                 TypeOK
  <2>2. /\ \A p \in Held : text[p] = open => p \in Held'
        /\ \A p \in Question : status[p] = "unasked" => status'[p] = "unasked"
    BY <2>1 DEF Held, Waiting, TypeOK
  <2> QED BY <2>1, <2>2, <1>0, SameAsk
<1>12. CASE AskerDies \/ LegExpires \/ LegDrops
  <2>1. /\ UNCHANGED <<open, status, gone>>
        /\ asker' = NoQ \/ (asker' = asker /\ leg' \in {leg, "idle", "out"})
    BY <1>12 DEF AskerDies, LegExpires, LegDrops, rowVars, memoryVars
  <2>2. Held' = Held /\ \A p \in Question : status[p] = "unasked" => status'[p] = "unasked"
    BY <2>1 DEF Held, Waiting
  <2> QED BY <2>1, <2>2, <1>0, SameAsk
<1>13. CASE TurnEnds
  <2>1. CASE onStream \cap Waiting # {}
    BY <1>1, <1>13, <2>1 DEF TurnEnds, AskCancelled
  <2>2. CASE onStream \cap Waiting = {}
    <3>1. Held = {} /\ UNCHANGED <<open, asker, leg>>
      BY <1>13, <2>2 DEF TurnEnds, HeldIsNewest, Held
    <3>2. \A p \in Question : status[p] = "unasked" => status'[p] = "unasked"
      BY <1>13 DEF TurnEnds
    <3> QED BY <3>1, <3>2, <1>0, SameAsk
  <2> QED BY <2>1, <2>2
<1>14. CASE Stopped \/ SweepClosesAsk \/ RestartAround \/ RestartKills
  BY <1>1, <1>14 DEF Stopped, SweepClosesAsk, AskCancelled, RestartAround, RestartKills
<1>15. CASE UNCHANGED vars
  BY <1>2, <1>15 DEF vars, rowVars, memoryVars, askerVars
<1> QED
  BY <1>3, <1>4, <1>5, <1>6, <1>7, <1>8, <1>9, <1>11, <1>12, <1>13, <1>14, <1>15,
     <1>16, <1>17
  DEF Next, Leg, Answer

\* A step that delivers nothing: what runs after it was not closed before it, the
\* buffer is kept or dropped, and a leg brings back nothing new.
LEMMA NothingDelivered ==
  ASSUME TypeOK, TookFits, RunningIsUndelivered, CarriedIsUndelivered, OneWay,
         owed' = owed, heardAs' = heardAs, buffer' \in {buffer, NoQ},
         reopened \subseteq reopened',
         \A q \in Question \ reopened' :
           status'[q] \in {"unasked", "waiting", "running"} =>
             status[q] \in {"unasked", "waiting", "running"},
         leg' = "answered" =>
           /\ leg = "answered" /\ took' = took
           /\ took \notin reopened' => status'[took] \notin {"unasked", "waiting"}
  PROVE  (RunningIsUndelivered /\ CarriedIsUndelivered /\ OneWay)'
<1>1. \A q : Undelivered(q)' <=> Undelivered(q)
  BY DEF Undelivered
<1>2. RunningIsUndelivered' /\ OneWay'
  BY <1>1 DEF RunningIsUndelivered, OneWay
<1>3. leg = "answered" => took # NoQ
  BY NoQIsNone DEF TookFits
<1>4. CarriedIsUndelivered'
  BY <1>1, <1>3 DEF CarriedIsUndelivered
<1> QED BY <1>2, <1>4

\* A step that queues the answer of one question, closes it and lets go of it.
LEMMA OneIsQueued ==
  ASSUME TypeOK, RunningIsUndelivered, CarriedIsUndelivered, OneWay,
         NEW b \in Question, b \notin reopened' => Undelivered(b),
         owed' = [owed EXCEPT ![b] = OneMore(@)], heardAs' = heardAs,
         status'[b] = "success",
         reopened \subseteq reopened',
         \A q \in Question \ reopened' :
           status'[q] \in {"unasked", "waiting", "running"} => Undelivered(q),
         buffer' # NoQ /\ buffer' \notin reopened' =>
           buffer' # b /\ Undelivered(buffer') /\ buffer' \in Question,
         leg' = "answered" /\ took' \notin reopened' =>
           /\ leg = "answered" /\ took' = took /\ took \in Question
           /\ took # b /\ took # buffer' /\ status'[took] \notin {"unasked", "waiting"}
  PROVE  (RunningIsUndelivered /\ CarriedIsUndelivered /\ OneWay)'
<1>1. /\ b \notin reopened' => owed'[b] = 1 /\ heardAs'[b] = {}
      /\ \A q \in Question : q # b => owed'[q] = owed[q]
  BY DEF Undelivered, OneMore, TypeOK
<1>2. \A q \in Question : q # b /\ Undelivered(q) => heardAs'[q] = {} /\ owed'[q] = 0
  BY <1>1 DEF Undelivered
<1>3. RunningIsUndelivered'
  BY <1>2 DEF RunningIsUndelivered, Undelivered
<1>4. CarriedIsUndelivered'
  BY <1>2 DEF CarriedIsUndelivered, Undelivered
<1>5. OneWay'
  BY <1>1 DEF OneWay
<1> QED BY <1>3, <1>4, <1>5

LEMMA OnceStep ==
  ASSUME TextsTellApart, OnceInv, TookFits', TypeOK', [Next]_vars
  PROVE  (RunningIsUndelivered /\ CarriedIsUndelivered /\ OneWay)'
<1> DEFINE Goal == (RunningIsUndelivered /\ CarriedIsUndelivered /\ OneWay)'
<1> USE DEF OnceInv, IInv, ScreenInv
<1>0. reopened \subseteq reopened'
  BY ReopenedStay
<1>1. CASE /\ UNCHANGED <<status, owed, heardAs, buffer, took>>
           /\ leg' \in {leg, "idle", "out", "cancelled"}
  BY <1>0, <1>1, NothingDelivered DEF CarriedIsUndelivered
<1>2. ASSUME NEW q \in Question, Asks(q) PROVE Goal
  BY <1>1, <1>2 DEF Asks, rowVars, memoryVars
<1>3. ASSUME NEW q \in Question, Paints(q) PROVE Goal
  <2>1. leg = "answered" => took = asker
    BY TookIsAsker
  <2>2. /\ UNCHANGED <<took, reopened>> /\ asker = q /\ status[q] = "unasked"
        /\ \A p \in Question : p # q => status'[p] = status[p]
    BY <1>3 DEF Paints, askerVars, TypeOK
  <2>4. leg = "answered" => took \in reopened
    BY <2>1, <2>2 DEF CarriedIsUndelivered
  <2>3. /\ UNCHANGED <<owed, heardAs, buffer, leg>>
        /\ \A p \in Question : status'[p] = status[p] \/ (p = q /\ status[p] = "unasked")
    BY <1>3 DEF Paints, askerVars, TypeOK
  <2> QED BY <1>0, <2>2, <2>3, <2>4, NothingDelivered
<1>4. ASSUME NEW q \in Question, LegWaits(q) PROVE Goal
  BY <1>1, <1>4 DEF LegWaits, rowVars
<1>5. ASSUME NEW q \in Question, LegReadsRow(q) PROVE Goal
  <2>1. /\ UNCHANGED <<status, owed, heardAs>> /\ RecordedFor(q)
        /\ leg' = "answered" /\ took' = Last(order)
        /\ buffer' = IF Fits(buffer, q) THEN NoQ ELSE buffer
    BY <1>5 DEF LegReadsRow, rowVars
  <2>2. /\ took' \in Question /\ status[took'] = "running" /\ text[took'] = text[q]
    BY <2>1 DEF RecordedFor, Last, TypeOK
  <2>3. (took' \notin reopened => Undelivered(took')) /\ buffer' # took'
    BY <2>1, <2>2, NoQIsNone DEF RunningIsUndelivered, Fits
  <2>4. buffer' # NoQ /\ buffer' \notin reopened => Undelivered(buffer')
    BY <2>1 DEF CarriedIsUndelivered
  <2> QED
    BY <1>0, <2>1, <2>2, <2>3, <2>4 DEF RunningIsUndelivered, CarriedIsUndelivered, OneWay,
       Undelivered
<1>6. ASSUME NEW q \in Question, LegReadsBuffer(q) PROVE Goal
  <2>1. q \in reopened /\ buffer = q
    BY <1>6, BufferIsReadOnceShown
  <2>2. UNCHANGED <<status, owed, heardAs, reopened>> /\ buffer' = NoQ /\ took' = q
    BY <1>6, <2>1 DEF LegReadsBuffer, rowVars
  <2> QED
    BY <2>1, <2>2 DEF RunningIsUndelivered, CarriedIsUndelivered, OneWay, Undelivered
<1>7. ASSUME NEW q \in Question, AnswerAsMessage(q) PROVE Goal
  <2>1. /\ status[q] = "waiting" /\ status' = [status EXCEPT ![q] = "success"]
        /\ owed' = [owed EXCEPT ![q] = OneMore(@)]
        /\ UNCHANGED <<heardAs, buffer, leg, took, reopened>>
    BY <1>7 DEF AnswerAsMessage, GoesAsMessage, Waiting, QueuedAsMessage, memoryVars, askerVars
  <2>2. q \notin reopened => Undelivered(q)
    BY <2>1 DEF RunningIsUndelivered
  <2>3. status'[q] = "success" /\ \A p \in Question : p # q => status'[p] = status[p]
    BY <2>1 DEF TypeOK
  <2>4. buffer # NoQ /\ buffer \notin reopened =>
          buffer # q /\ Undelivered(buffer) /\ buffer \in Question
    BY <2>1 DEF RowsArePainted, CarriedIsUndelivered, TypeOK
  <2>5. leg = "answered" /\ took \notin reopened =>
          took \in Question /\ took # q /\ took # buffer /\ status[took] \notin {"unasked", "waiting"}
    BY <2>1 DEF TookFits, CarriedIsUndelivered
  <2>6. \A p \in Question \ reopened :
          status'[p] \in {"unasked", "waiting", "running"} => Undelivered(p)
    BY <2>3 DEF RunningIsUndelivered
  <2> QED BY <1>0, <2>1, <2>2, <2>3, <2>4, <2>5, <2>6, OneIsQueued
<1>8. ASSUME NEW q \in Question, AnswerToLeg(q) PROVE Goal
  <2>1. q \in Waiting \/ q \in reopened'
    BY <1>8, ClickIsOnWaiting DEF AnswerToLeg
  <2>2. q \notin reopened' => status[q] = "waiting" /\ Undelivered(q) /\ buffer # q
    BY <1>0, <2>1, NoQIsNone DEF Waiting, RunningIsUndelivered, RowsArePainted
  <2>3. /\ status' = [status EXCEPT ![q] = "running"]
        /\ UNCHANGED <<owed, heardAs, buffer>>
        /\ (leg' = "answered" /\ took' = q) \/ UNCHANGED <<leg, took>>
    BY <1>8 DEF AnswerToLeg
  <2>4. \A p \in Question \ reopened' :
          status'[p] \in {"unasked", "waiting", "running"} => Undelivered(p)
    BY <1>0, <2>2, <2>3 DEF RunningIsUndelivered, TypeOK
  <2>5. leg' = "answered" /\ took' \notin reopened' =>
          took' # buffer /\ Undelivered(took') /\ status'[took'] \notin {"unasked", "waiting"}
    BY <1>0, <2>2, <2>3 DEF CarriedIsUndelivered, TookFits, TypeOK
  <2> QED
    BY <1>0, <2>3, <2>4, <2>5 DEF RunningIsUndelivered, CarriedIsUndelivered, OneWay,
                                  Undelivered
<1>9. ASSUME NEW q \in Question, AnswerToBuffer(q) PROVE Goal
  <2>1. q \in Waiting \/ q \in reopened'
    BY <1>9, ClickIsOnWaiting DEF AnswerToBuffer
  <2>2. q \notin reopened' => status[q] = "waiting" /\ Undelivered(q) /\ buffer # q
    BY <1>0, <2>1, NoQIsNone DEF Waiting, RunningIsUndelivered, RowsArePainted
  <2>3. buffer' = q /\ UNCHANGED <<heardAs, leg, took>>
    BY <1>9 DEF AnswerToBuffer, askerVars
  <2>4. leg = "answered" /\ took \notin reopened' =>
          /\ took \in Question /\ (q \notin reopened' => took # q) /\ took # buffer
          /\ Undelivered(took) /\ status[took] \notin {"unasked", "waiting"}
    BY <1>0, <2>2 DEF TookFits, CarriedIsUndelivered
  <2>5. CASE buffer \in {NoQ, q}
    <3>1. status' = [p \in Question |-> IF p = q THEN "running" ELSE status[p]] /\ owed' = owed
      BY <1>9, <2>5 DEF AnswerToBuffer, TypeOK
    <3>2. \A p \in Question \ reopened' :
            status'[p] \in {"unasked", "waiting", "running"} => Undelivered(p)
      BY <1>0, <2>2, <3>1 DEF RunningIsUndelivered
    <3>3. leg = "answered" /\ took \notin reopened' => status'[took] \notin {"unasked", "waiting"}
      BY <2>4, <3>1
    <3>4. leg = "answered" /\ took \notin reopened' => took # q
      BY <2>4
    <3> QED
      BY <1>0, <2>2, <2>3, <2>4, <3>1, <3>2, <3>3, <3>4
      DEF RunningIsUndelivered, CarriedIsUndelivered, OneWay, Undelivered
  <2>6. CASE buffer \notin {NoQ, q}
    <3>1. buffer \in Question /\ (buffer \notin reopened' => Undelivered(buffer))
      BY <1>0, <2>6 DEF CarriedIsUndelivered, TypeOK
    <3>2. /\ status' = [p \in Question |-> IF p = q THEN "running"
                                          ELSE IF p = buffer THEN "success" ELSE status[p]]
          /\ owed' = [owed EXCEPT ![buffer] = OneMore(@)]
      BY <1>9, <2>6, <3>1 DEF AnswerToBuffer, TypeOK
    <3>3. status'[buffer] = "success"
      BY <2>6, <3>1, <3>2
    <3>4. \A p \in Question \ reopened' :
            status'[p] \in {"unasked", "waiting", "running"} => Undelivered(p)
      BY <1>0, <2>2, <3>2 DEF RunningIsUndelivered
    <3>5. leg = "answered" /\ took \notin reopened' => status'[took] \notin {"unasked", "waiting"}
      BY <2>4, <3>2
    <3>6. buffer' # NoQ /\ buffer' \notin reopened' =>
            buffer' # buffer /\ Undelivered(buffer') /\ buffer' \in Question
      BY <2>2, <2>3, <2>6
    <3>7. leg' = "answered" /\ took' \notin reopened' =>
            /\ leg = "answered" /\ took' = took /\ took \in Question
            /\ took # buffer /\ took # buffer' /\ status'[took] \notin {"unasked", "waiting"}
      BY <2>3, <2>4, <3>5
    <3> QED BY <1>0, <2>3, <3>1, <3>2, <3>3, <3>4, <3>6, <3>7, OneIsQueued
  <2> QED BY <2>5, <2>6
<1>10. CASE BufferExpires
  <2>1. /\ buffer # NoQ /\ buffer' = NoQ /\ buffer \in Question
        /\ buffer \notin reopened => Undelivered(buffer)
        /\ status' = [status EXCEPT ![buffer] = "success"]
        /\ owed' = [owed EXCEPT ![buffer] = OneMore(@)]
        /\ UNCHANGED <<heardAs, leg, took, reopened>>
    BY <1>10 DEF BufferExpires, QueuedAsMessage, askerVars, CarriedIsUndelivered, TypeOK
  <2>2. status'[buffer] = "success" /\ \A p \in Question : p # buffer => status'[p] = status[p]
    BY <2>1 DEF TypeOK
  <2>3. leg = "answered" /\ took \notin reopened =>
          /\ took \in Question /\ took # buffer /\ took # NoQ
          /\ status[took] \notin {"unasked", "waiting"}
    BY NoQIsNone DEF TookFits, CarriedIsUndelivered
  <2>4. \A p \in Question \ reopened :
          status'[p] \in {"unasked", "waiting", "running"} => Undelivered(p)
    BY <2>2 DEF RunningIsUndelivered
  <2> QED BY <2>1, <2>2, <2>3, <2>4, OneIsQueued
<1>11. ASSUME NEW held, ResultIsRead(held) PROVE Goal
  <2>1. leg = "answered" /\ took = asker /\ asker \in Question
    BY <1>11, TookIsAsker DEF ResultIsRead
  <2>2. took \notin reopened =>
          /\ Undelivered(took) /\ took # buffer /\ status[took] \notin {"unasked", "waiting"}
          /\ took \in onStream
    BY <2>1, NoQIsNone DEF CarriedIsUndelivered, AskerIsNewest
  <2>3. /\ heardAs' = [heardAs EXCEPT ![took] = @ \cup {took}]
        /\ status' = IF took \in onStream THEN [status EXCEPT ![took] = "success"] ELSE status
        /\ UNCHANGED <<owed, buffer, reopened>> /\ leg' = "idle"
    BY <1>11, <2>1 DEF ResultIsRead
  <2>4. \A p \in Question : p # took => heardAs'[p] = heardAs[p] /\ status'[p] = status[p]
    BY <2>1, <2>3 DEF TypeOK
  <2>5. took \notin reopened => status'[took] = "success" /\ owed'[took] = 0
    BY <2>1, <2>2, <2>3 DEF TypeOK, Undelivered
  <2>6. buffer # NoQ => buffer \in Question
    BY DEF TypeOK
  <2>7. RunningIsUndelivered'
    BY <2>3, <2>4, <2>5 DEF RunningIsUndelivered, Undelivered
  <2>8. CarriedIsUndelivered'
    BY <2>1, <2>2, <2>3, <2>4, <2>6 DEF CarriedIsUndelivered, Undelivered
  <2>9. OneWay'
    BY <2>3, <2>4, <2>5 DEF OneWay
  <2> QED BY <2>7, <2>8, <2>9
<1>12. ASSUME NEW held, ErrorIsRead(held) PROVE Goal
  <2>1. /\ UNCHANGED <<owed, heardAs, buffer>> /\ leg' = "idle"
        /\ \A p \in Question : status'[p] \in {status[p], "error"}
    BY <1>12 DEF ErrorIsRead, TypeOK
  <2> QED BY <1>0, <2>1, NothingDelivered
<1>20. CASE Resumes \/ CallFails \/ ReattachToResult
  BY <1>11, <1>12, <1>20 DEF Resumes, CallFails, ReattachToResult
<1>21. CASE Reattach
  <2>1. /\ UNCHANGED <<owed, heardAs, buffer, leg, took>>
        /\ \A p \in Question \ reopened' :
             \/ status'[p] = status[p]
             \/ p = asker /\ status[p] = "waiting" /\ status'[p] = "waiting"
    BY <1>21 DEF Reattach, askerVars, TypeOK
  <2>2. leg = "answered" /\ took \notin reopened' => status'[took] \notin {"unasked", "waiting"}
    BY <1>0, <2>1 DEF CarriedIsUndelivered, TookFits
  <2> QED BY <1>0, <2>1, <2>2, NothingDelivered
<1>13. ASSUME NEW byPerson \in BOOLEAN, StartTurn(byPerson) PROVE Goal
  <2>1. /\ UNCHANGED <<owed, heardAs, buffer, leg, took>>
        /\ \A p \in Question : status'[p] \in {status[p], "error"}
    BY <1>13 DEF StartTurn
  <2> QED BY <1>0, <2>1, NothingDelivered DEF CarriedIsUndelivered, TookFits
<1>14. CASE TurnEnds
  <2>1. /\ UNCHANGED <<owed, heardAs, took>> /\ buffer' \in {buffer, NoQ}
        /\ leg' \in {leg, "cancelled"}
        /\ \A p \in Question : status'[p] \in {status[p], "error"}
    BY <1>14 DEF TurnEnds, AskCancelled
  <2> QED BY <1>0, <2>1, NothingDelivered DEF CarriedIsUndelivered, TookFits
<1>15. CASE Stopped
  <2>1. /\ UNCHANGED <<owed, heardAs>> /\ buffer' = NoQ /\ leg' = "idle"
        /\ \A p \in Question : status'[p] \in {status[p], "error"}
    BY <1>15 DEF Stopped
  <2> QED BY <1>0, <2>1, NothingDelivered
<1>16. CASE AskerDies \/ LegExpires \/ LegDrops
  <2>1. /\ UNCHANGED <<status, owed, heardAs, buffer>>
        /\ leg' = "answered" => leg = "answered" /\ took' = took
    BY <1>16 DEF AskerDies, LegExpires, LegDrops, rowVars, memoryVars
  <2> QED BY <1>0, <2>1, NothingDelivered DEF CarriedIsUndelivered
<1>17. CASE SweepClosesAsk \/ RestartAround
  <2>1. /\ UNCHANGED <<status, owed, heardAs>> /\ buffer' = NoQ
        /\ leg' = "answered" => leg = "answered" /\ took' = took
    BY <1>17 DEF SweepClosesAsk, AskCancelled, RestartAround, rowVars
  <2> QED BY <1>0, <2>1, NothingDelivered DEF CarriedIsUndelivered
<1>18. CASE RestartKills
  <2>1. /\ UNCHANGED <<heardAs, reopened>> /\ buffer' = NoQ /\ leg' = "idle"
        /\ \A p \in Question : \/ status'[p] = status[p] /\ status[p] # "running"
                               \/ status[p] = "running" /\ status'[p] \in {"success", "error"}
        /\ \A p \in Question : \/ owed'[p] = owed[p]
                               \/ status[p] = "running" /\ owed'[p] = OneMore(owed[p])
    BY <1>18 DEF RestartKills
  <2>2. \A p \in Question \ reopened : status[p] = "running" => heardAs[p] = {} /\ owed[p] = 0
    BY DEF RunningIsUndelivered, Undelivered
  <2>3. OneWay'
    BY <2>1, <2>2 DEF OneWay, OneMore
  <2>4. RunningIsUndelivered'
    BY <2>1 DEF RunningIsUndelivered, Undelivered
  <2>5. CarriedIsUndelivered'
    BY <2>1 DEF CarriedIsUndelivered
  <2> QED BY <2>3, <2>4, <2>5
<1>19. CASE UNCHANGED vars
  BY <1>1, <1>19 DEF vars, rowVars, memoryVars, askerVars
<1> QED
  BY <1>2, <1>3, <1>4, <1>5, <1>6, <1>7, <1>8, <1>9, <1>10, <1>13, <1>14, <1>15,
     <1>16, <1>17, <1>18, <1>19, <1>20, <1>21 DEF Next, Leg, Answer

LEMMA OnceInvStep == TextsTellApart /\ OnceInv /\ [Next]_vars => OnceInv'
<1> SUFFICES ASSUME TextsTellApart, OnceInv, [Next]_vars PROVE OnceInv'
  OBVIOUS
<1>1. IInv' /\ ScreenInv'
  BY Induction, ScreenStep DEF OnceInv, IInv
<1>2. PollsInTime'
  BY PollsStep, ToAnswerHandsOutOthers DEF OnceInv, IInv
<1>3. OpenIsToAnswer'
  BY <1>1, OpenStep DEF IInv
<1>4. (RunningIsUndelivered /\ CarriedIsUndelivered /\ OneWay)'
  BY <1>1, OnceStep DEF IInv
<1>5. BufferIsForLater'
  BY LaterStep DEF OnceInv, IInv
<1> QED BY <1>1, <1>2, <1>3, <1>4, <1>5 DEF OnceInv

\* The calls that heard an answer are its own, so one at most.
LEMMA HeardByOne ==
  ASSUME TextsTellApart, OnceInv, NEW p \in Question \ reopened
  PROVE  Cardinality(heardAs[p]) + owed[p] <= 1
<1>1. heardAs[p] \subseteq {p}
  BY DEF OnceInv, IInv, RightQuestion, TextsTellApart, TypeOK
<1>2. Cardinality({}) = 0 /\ Cardinality({p}) = 1
  BY FS_EmptySet, FS_Singleton
<1>3. heardAs[p] = {} \/ heardAs[p] = {p}
  BY <1>1
<1>4. owed[p] = 0 \/ (owed[p] = 1 /\ heardAs[p] = {})
  BY DEF OnceInv, OneWay
<1> QED BY <1>2, <1>3, <1>4

-----------------------------------------------------------------------------
(* A question lives once *)

\* The answer of a question is on its way: its row runs, it is in the buffer, or a leg
\* brought it back.
OnItsWay(q) == status[q] = "running" \/ buffer = q \/ (leg = "answered" /\ took = q)

Closed(q) == status[q] \notin {"unasked", "waiting"} /\ ~OnItsWay(q)

\* What a step does to a question nobody took up again: it is painted once, waits once,
\* and what is closed is left alone.
Ages(q) ==
  /\ status[q] = "unasked" => status'[q] \in {"unasked", "waiting"}
  /\ status[q] # "unasked" => status'[q] # "unasked"
  /\ status'[q] = "waiting" => status[q] \in {"unasked", "waiting"}
  /\ status[q] = "waiting" => heardAs'[q] = heardAs[q]
  /\ Closed(q) => Closed(q)' /\ owed'[q] = owed[q] /\ heardAs'[q] = heardAs[q]

LEMMA OnItsWayIsUndelivered ==
  ASSUME OnceInv, NEW q \in Question \ reopened, OnItsWay(q)
  PROVE  owed[q] = 0 /\ heardAs[q] = {} /\ status[q] \notin {"unasked", "waiting"}
  BY NoQIsNone DEF OnceInv, ScreenInv, RowsArePainted, RunningIsUndelivered,
                   CarriedIsUndelivered,
     Undelivered, OnItsWay

\* An answer is nowhere, with its own call, or in one message.
LEMMA AnswerIsSomewhere ==
  ASSUME TextsTellApart, OnceInv, NEW q \in Question \ reopened
  PROVE  \/ owed[q] = 0 /\ heardAs[q] \in {{}, {q}}
         \/ owed[q] = 1 /\ heardAs[q] = {}
<1>1. heardAs[q] \subseteq {q}
  BY DEF OnceInv, IInv, RightQuestion, TextsTellApart, TypeOK
<1>2. heardAs[q] \in {{}, {q}}
  BY <1>1
<1> QED BY <1>2 DEF OnceInv, OneWay

\* Where a question is, as its life sees it.
LEMMA FateIs ==
  ASSUME TextsTellApart, OnceInv, NEW q \in Question \ reopened
  PROVE  /\ status[q] = "unasked" => Fate(q) = "unasked"
         /\ status[q] = "waiting" => Fate(q) = "open"
         /\ OnItsWay(q) => Fate(q) = "answered"
         /\ Closed(q) => Fate(q) = IF owed[q] = 1 THEN "message"
                                   ELSE IF heardAs[q] = {q} THEN "result" ELSE "closed"
<1>1. {q} # {}
  OBVIOUS
<1>2. CASE status[q] \in {"unasked", "waiting"}
  BY <1>2, OnItsWayIsUndelivered DEF Fate, Closed
<1>3. CASE OnItsWay(q)
  <2>1. owed[q] = 0 /\ heardAs[q] = {} /\ status[q] \notin {"unasked", "waiting"}
    BY <1>3, OnItsWayIsUndelivered
  <2> QED BY <1>1, <1>3, <2>1 DEF Fate, OnItsWay, Closed
<1>4. CASE Closed(q)
  <2>1. status[q] \notin {"unasked", "waiting"} /\ ~OnItsWay(q)
    BY <1>4 DEF Closed
  <2>2. CASE owed[q] = 1 /\ heardAs[q] = {}
    BY <1>1, <2>1, <2>2 DEF Fate
  <2>3. CASE owed[q] = 0 /\ heardAs[q] = {q}
    BY <1>1, <2>1, <2>3 DEF Fate
  <2>4. CASE owed[q] = 0 /\ heardAs[q] = {}
    BY <1>1, <2>1, <2>4 DEF Fate, OnItsWay
  <2> QED BY <2>1, <2>2, <2>3, <2>4, AnswerIsSomewhere
<1> QED BY <1>2, <1>3, <1>4 DEF Closed

Fates ==
  \A q \in Question \ reopened :
    /\ status[q] = "unasked" => Fate(q) = "unasked"
    /\ status[q] = "waiting" => Fate(q) = "open"
    /\ OnItsWay(q) => Fate(q) = "answered"
    /\ Closed(q) => Fate(q) = IF owed[q] = 1 THEN "message"
                              ELSE IF heardAs[q] = {q} THEN "result" ELSE "closed"

LEMMA FatesAre == TextsTellApart /\ OnceInv => Fates
  BY FateIs DEF Fates

\* A step that ages a question moves its fate forward.
LEMMA FateMoves ==
  ASSUME TextsTellApart, OnceInv, OnceInv', NEW q \in Question, q \notin reopened,
         q \notin reopened', Ages(q)
  PROVE  /\ Fate(q)' \in {"unasked", "open", "answered", "result", "message", "closed"}
         /\ Fate(q)' \in {Fate(q)} \cup Life!After(Fate(q))
<1> DEFINE Out == {"result", "message", "closed"}
<1>1. /\ status'[q] = "unasked" => Fate(q)' = "unasked"
      /\ status'[q] = "waiting" => Fate(q)' = "open"
      /\ OnItsWay(q)' => Fate(q)' = "answered"
      /\ Closed(q)' => Fate(q)' = IF owed'[q] = 1 THEN "message"
                                  ELSE IF heardAs'[q] = {q} THEN "result" ELSE "closed"
  <2>1. TextsTellApart'
    BY DEF TextsTellApart
  <2>2. OnceInv'
    OBVIOUS
  <2>3. Fates'
    BY <2>1, <2>2, FatesAre, PTL
  <2> QED BY <2>3 DEF Fates
<1>2. status'[q] \in {"unasked", "waiting"} \/ OnItsWay(q)' \/ Closed(q)'
  BY DEF Closed
<1>3. CASE status[q] = "unasked"
  BY <1>1, <1>3, FateIs DEF Ages, Life!After, Life!Over
<1>4. CASE status[q] = "waiting"
  <2>1. Fate(q) = "open" /\ heardAs[q] = {} /\ heardAs'[q] = {}
    BY <1>4, FateIs DEF Ages, OnceInv, RunningIsUndelivered, Undelivered
  <2>2. Closed(q)' => Fate(q)' \in {"message", "closed"}
    BY <1>1, <2>1
  <2> QED BY <1>1, <1>2, <1>4, <2>1, <2>2 DEF Ages, Life!After, Life!Over
<1>5. CASE OnItsWay(q)
  <2>1. Fate(q) = "answered" /\ status[q] \notin {"unasked", "waiting"}
    BY <1>5, FateIs, OnItsWayIsUndelivered
  <2>2. Closed(q)' => Fate(q)' \in Out
    BY <1>1
  <2> QED BY <1>1, <1>2, <2>1, <2>2 DEF Ages, Life!After, Life!Over
<1>6. CASE Closed(q)
  <2>1. Fate(q)' = Fate(q) /\ Fate(q) \in Out
    BY <1>1, <1>6, FateIs DEF Ages
  <2> QED BY <2>1
<1> QED BY <1>3, <1>4, <1>5, <1>6 DEF Closed

\* A step that touches neither the rows nor what is on its way.
LEMMA AgesNot ==
  ASSUME NEW q \in Question, UNCHANGED <<status, owed, heardAs>>,
         OnItsWay(q)' => OnItsWay(q)
  PROVE  Ages(q)
  BY DEF Ages, Closed

\* Every step of the rendez-vous ages every question it does not take up again.
LEMMA LifeStep ==
  ASSUME TextsTellApart, OnceInv, [Next]_vars, NEW q \in Question, q \notin reopened'
  PROVE  Ages(q)
<1> USE DEF OnceInv, IInv
<1>r. q \notin reopened
  BY ReopenedStay
<1>0. TypeOK /\ (leg = "answered" => took = asker /\ asker \in Question)
  BY TookIsAsker
<1>1. CASE UNCHANGED <<status, owed, heardAs>> /\ buffer' \in {buffer, NoQ}
           /\ (leg' = "answered" => leg' = leg /\ took' = took)
  BY <1>1, AgesNot, NoQIsNone DEF OnItsWay
<1>2. ASSUME NEW p \in Question, Asks(p) PROVE Ages(q)
  BY <1>1, <1>2 DEF Asks, rowVars, memoryVars
<1>3. ASSUME NEW p \in Question, Paints(p) PROVE Ages(q)
  <2>1. /\ UNCHANGED <<owed, heardAs, buffer, leg, took>>
        /\ status[p] = "unasked" /\ status'[p] = "waiting"
        /\ p # q => status'[q] = status[q]
    BY <1>0, <1>3 DEF Paints, askerVars, TypeOK
  <2> QED BY <2>1 DEF Ages, Closed, OnItsWay
<1>4. ASSUME NEW p \in Question, LegWaits(p) PROVE Ages(q)
  BY <1>1, <1>4 DEF LegWaits, rowVars
<1>5. ASSUME NEW p \in Question, LegReadsRow(p) PROVE Ages(q)
  <2>1. /\ UNCHANGED <<status, owed, heardAs>> /\ buffer' \in {buffer, NoQ}
        /\ status[took'] = "running"
    BY <1>5 DEF LegReadsRow, RecordedFor, rowVars
  <2> QED BY <2>1, AgesNot, NoQIsNone DEF OnItsWay
<1>6. ASSUME NEW p \in Question, LegReadsBuffer(p) PROVE Ages(q)
  <2>1. buffer = p /\ p # q
    BY <1>r, <1>6, BufferIsReadOnceShown
  <2>2. UNCHANGED <<status, owed, heardAs>> /\ buffer' = NoQ /\ took' = p
    BY <1>6, <2>1 DEF LegReadsBuffer, rowVars
  <2> QED BY <2>1, <2>2, AgesNot, NoQIsNone DEF OnItsWay
<1>7. ASSUME NEW p \in Question, AnswerAsMessage(p) PROVE Ages(q)
  <2>1. /\ status[p] = "waiting" /\ status'[p] = "success"
        /\ p # q => status'[q] = status[q] /\ owed'[q] = owed[q]
        /\ UNCHANGED <<heardAs, buffer, leg, took>>
    BY <1>0, <1>7 DEF AnswerAsMessage, QueuedAsMessage, GoesAsMessage, Waiting, memoryVars,
                      askerVars, TypeOK
  <2> QED BY <2>1 DEF Ages, Closed, OnItsWay
<1>8. ASSUME NEW p \in Question, AnswerToLeg(p) PROVE Ages(q)
  <2>1. p = q => status[p] = "waiting"
    BY <1>0, <1>8, ClickIsOnWaiting DEF AnswerToLeg, Waiting
  <2>2. /\ status'[p] = "running" /\ (p # q => status'[q] = status[q])
        /\ UNCHANGED <<owed, heardAs, buffer>>
        /\ took' \in {took, p} /\ (leg' = "answered" => took' = p \/ (leg = "answered" /\ took' = took))
    BY <1>0, <1>8 DEF AnswerToLeg, TypeOK
  <2> QED BY <2>1, <2>2 DEF Ages, Closed, OnItsWay
<1>9. ASSUME NEW p \in Question, AnswerToBuffer(p) PROVE Ages(q)
  <2>1. p = q => status[p] = "waiting"
    BY <1>0, <1>9, ClickIsOnWaiting DEF AnswerToBuffer, Waiting
  <2>2. buffer' = p /\ UNCHANGED <<heardAs, leg, took>>
    BY <1>9 DEF AnswerToBuffer, askerVars
  <2>4. /\ \A r \in Question : status'[r] = IF r = p THEN "running"
                                            ELSE IF buffer \notin {NoQ, p} /\ r = buffer THEN "success"
                                            ELSE status[r]
        /\ \A r \in Question : r # buffer => owed'[r] = owed[r]
    BY <1>9 DEF AnswerToBuffer
  <2>3. buffer = q => status[q] \notin {"unasked", "waiting"}
    BY <1>r, NoQIsNone DEF ScreenInv, RowsArePainted
  <2>5. /\ status'[p] = "running"
        /\ p # q /\ buffer # q => status'[q] = status[q] /\ owed'[q] = owed[q]
        /\ p # q /\ buffer = q => status'[q] = "success"
    BY <2>4, NoQIsNone
  <2> QED BY <2>1, <2>2, <2>3, <2>5 DEF Ages, Closed, OnItsWay
<1>10. CASE BufferExpires
  <2>1. /\ status'[buffer] = "success" /\ buffer' = NoQ /\ UNCHANGED <<heardAs, leg, took>>
        /\ buffer # q => status'[q] = status[q] /\ owed'[q] = owed[q]
    BY <1>0, <1>10 DEF BufferExpires, QueuedAsMessage, askerVars, TypeOK
  <2>2. buffer = q => status[q] \notin {"unasked", "waiting"}
    BY <1>r, NoQIsNone DEF ScreenInv, RowsArePainted
  <2> QED BY <2>1, <2>2, NoQIsNone DEF Ages, Closed, OnItsWay
<1>11. ASSUME NEW held, ResultIsRead(held) PROVE Ages(q)
  <2>1. /\ leg = "answered" /\ took = asker /\ asker \in Question
        /\ leg' = "idle" /\ UNCHANGED <<owed, buffer>>
        /\ status' \in {status, [status EXCEPT ![asker] = "success"]}
        /\ took # q => heardAs'[q] = heardAs[q]
    BY <1>0, <1>11 DEF ResultIsRead, TypeOK
  <2>2. took = q => status[took] \notin {"unasked", "waiting"}
    BY <1>r, <2>1 DEF CarriedIsUndelivered
  <2> QED BY <1>0, <2>1, <2>2 DEF Ages, Closed, OnItsWay, TypeOK
<1>12. ASSUME NEW held, ErrorIsRead(held) PROVE Ages(q)
  <2>1. /\ leg = "cancelled" /\ leg' = "idle" /\ UNCHANGED <<owed, heardAs, buffer, took>>
        /\ status'[q] = status[q] \/ (status'[q] = "error" /\ q \in onStream)
    BY <1>0, <1>12 DEF ErrorIsRead, TypeOK
  <2>2. q \in onStream => status[q] # "unasked"
    BY DEF ScreenInv, RowsArePainted
  <2> QED BY <2>1, <2>2 DEF Ages, Closed, OnItsWay
<1>19. CASE Resumes \/ CallFails \/ ReattachToResult
  BY <1>11, <1>12, <1>19 DEF Resumes, CallFails, ReattachToResult
<1>20. CASE Reattach
  <2>1. UNCHANGED <<owed, heardAs, buffer, leg, took>> /\ status'[q] = status[q]
    BY <1>20 DEF Reattach, askerVars, TypeOK
  <2> QED BY <2>1 DEF Ages, Closed, OnItsWay
<1>13. CASE AskerDies \/ LegExpires \/ LegDrops \/ SweepClosesAsk \/ RestartAround
  BY <1>1, <1>13 DEF AskerDies, LegExpires, LegDrops, SweepClosesAsk, RestartAround,
                     AskCancelled,
                     rowVars, memoryVars, askerVars
<1>14. ASSUME status'[q] = status[q] \/ (status[q] \in {"waiting", "running"} /\ status'[q] = "error"),
              UNCHANGED <<owed, heardAs>>, buffer' \in {buffer, NoQ},
              leg' = "answered" => leg' = leg /\ took' = took
       PROVE  Ages(q)
  BY <1>14, NoQIsNone DEF Ages, Closed, OnItsWay
<1>15. ASSUME NEW byPerson \in BOOLEAN, StartTurn(byPerson) PROVE Ages(q)
  <2>1. /\ status'[q] = status[q] \/ (status[q] = "waiting" /\ status'[q] = "error")
        /\ UNCHANGED <<owed, heardAs, buffer, leg, took>>
    BY <1>15 DEF StartTurn, Waiting
  <2> QED BY <1>14, <2>1
<1>16. CASE TurnEnds \/ Stopped
  <2>1. /\ status'[q] = status[q] \/ (status[q] \in {"waiting", "running"} /\ status'[q] = "error")
        /\ UNCHANGED <<owed, heardAs>> /\ buffer' \in {buffer, NoQ}
        /\ leg' = "answered" => leg' = leg /\ took' = took
    BY <1>16 DEF TurnEnds, Stopped, AskCancelled
  <2> QED BY <1>14, <2>1
<1>17. CASE RestartKills
  <2>1. /\ status'[q] = status[q] \/ (status[q] = "running" /\ status'[q] \in {"success", "error"})
        /\ status[q] # "running" => owed'[q] = owed[q]
        /\ UNCHANGED heardAs /\ buffer' = NoQ /\ leg' = "idle"
    BY <1>17 DEF RestartKills
  <2> QED BY <2>1, NoQIsNone DEF Ages, Closed, OnItsWay
<1>18. CASE UNCHANGED vars
  BY <1>1, <1>18 DEF vars, rowVars, memoryVars, askerVars
<1> QED
  BY <1>2, <1>3, <1>4, <1>5, <1>6, <1>7, <1>8, <1>9, <1>10, <1>13, <1>15, <1>16, <1>17,
     <1>18, <1>19, <1>20
  DEF Next, Leg, Answer

\* A question is taken up again while its answer is on its way, or after another was.
LEMMA TakenUpFrom ==
  ASSUME TextsTellApart, OnceInv, [Next]_vars,
         NEW q \in Question, q \notin reopened, q \in reopened'
  PROVE  OnItsWay(q) \/ (status[q] \notin {"unasked", "waiting"} /\ reopened # {})
<1> USE DEF OnceInv, IInv
<1>1. ASSUME reopened' = TakenUp(q) PROVE status[q] # "waiting" /\ reopened # {}
  BY <1>1 DEF TakenUp, Waiting, OpenIsToAnswer
<1>2. ASSUME NEW p \in Question, AnswerToLeg(p) \/ AnswerToBuffer(p)
      PROVE  status[q] \notin {"unasked", "waiting"} /\ reopened # {}
  <2>1. p = q /\ status[q] # "unasked"
    BY <1>2 DEF AnswerToLeg, AnswerToBuffer, TakenUp
  <2> QED BY <1>1, <1>2, <2>1 DEF AnswerToLeg, AnswerToBuffer
<1>3. CASE Reattach
  <2>1. q = asker /\ asker \in onStream /\ status[q] # "waiting" /\ asker # NoQ
    BY <1>3, NoQIsNone DEF Reattach
  <2>2. status[q] # "unasked"
    BY <2>1 DEF ScreenInv, RowsArePainted
  <2>3. leg = "answered" => took = q
    BY <2>1, TookIsAsker
  <2>4. leg # "out" /\ (leg \in {"idle", "cancelled"} => status[q] = "running")
    BY <2>1, <2>2 DEF PollsInTime
  <2> QED BY <2>3, <2>4 DEF OnItsWay, TypeOK
<1>4. CASE reopened' = reopened
  BY <1>4
<1>5. ASSUME NEW p \in Question, Asks(p) \/ Paints(p) \/ AnswerAsMessage(p) \/ Leg(p)
      PROVE  reopened' = reopened
  BY <1>5 DEF Asks, Paints, AnswerAsMessage, Leg, LegWaits, LegReadsRow, LegReadsBuffer
<1>6. ASSUME NEW byPerson \in BOOLEAN, StartTurn(byPerson) PROVE reopened' = reopened
  BY <1>6 DEF StartTurn
<1>7. CASE TurnEnds \/ Stopped \/ SweepClosesAsk \/ RestartAround \/ RestartKills
  BY <1>4, <1>7 DEF TurnEnds, Stopped, SweepClosesAsk, RestartAround, RestartKills
<1>8. CASE Resumes \/ CallFails \/ ReattachToResult \/ AskerDies
  BY <1>4, <1>8 DEF Resumes, CallFails, ReattachToResult, ResultIsRead, ErrorIsRead, AskerDies
<1>9. CASE LegExpires \/ LegDrops \/ BufferExpires
  BY <1>4, <1>9 DEF LegExpires, LegDrops, BufferExpires
<1>10. CASE UNCHANGED vars
  BY <1>4, <1>10 DEF vars
<1> QED
  BY <1>2, <1>3, <1>4, <1>5, <1>6, <1>7, <1>8, <1>9, <1>10 DEF Next, Answer

-----------------------------------------------------------------------------
(* The theorems *)

LEMMA Invariance == Spec => []IInv
<1>1. Init => IInv
  BY InitIInv
<1>2. IInv /\ [Next]_vars => IInv'
  BY Induction
<1> QED BY <1>1, <1>2, PTL DEF Spec

(* The variables of the rendez-vous, of its rows and of its asker keep the      *)
(* shape the code gives them.                                                   *)
THEOREM ShapesAreKept == Spec => []TypeOK
<1>1. IInv => TypeOK
  BY DEF IInv
<1> QED BY <1>1, Invariance, PTL

(* The model never reads the answer to one question as the result of another:   *)
(* whatever way it took, an answer was given on a panel with the texts of the   *)
(* call it became the result of.                                                *)
THEOREM NoAnswerToAnother == Spec => []RightQuestion
<1>1. IInv => RightQuestion
  BY DEF IInv
<1> QED BY <1>1, Invariance, PTL

(* A question waits for its human: whatever turns, timers, restarts and dead    *)
(* children do, it stops waiting only because it is answered, because the       *)
(* person stops the turn or writes something else, or because its call fails.   *)
THEOREM OnlyAHumanEndsIt == Spec => QuestionWaitsForItsHuman
<1>1. IInv /\ [Next]_vars =>
        [\A q \in Waiting : status'[q] # "waiting" =>
           \/ q \in answered'
           \/ Stopped \/ StartTurn(TRUE)
           \/ (Resumes \/ CallFails \/ ReattachToResult) /\ asker = q]_vars
  BY WaitingStep DEF IInv
<1> QED BY <1>1, Invariance, PTL DEF Spec, QuestionWaitsForItsHuman

(* When panels are painted before the first leg of their call comes, a click on *)
(* a panel that waits is never turned down: it goes to the child blocked on it, *)
(* or, that child being gone, to the model as a message.                        *)
THEOREM EveryPanelIsAnswerable ==
  ASSUME PanelFirst
  PROVE  Spec => []WaitingIsAnswerable
<1>1. Init => PanelInv
  <2>1. Init => BufferIsForLater /\ PollsInTime /\ AskIsHeld /\ PanelIsHeld
    BY DEF Init, BufferIsForLater, PollsInTime, AskIsHeld, PanelIsHeld
  <2> QED BY <2>1, InitIInv, InitScreen DEF PanelInv
<1>2. PanelInv /\ [Next]_vars => PanelInv'
  BY PanelStep
<1>3. PanelInv => WaitingIsAnswerable
  BY HeldIsAnswerable DEF WaitingIsAnswerable
<1> QED BY <1>1, <1>2, <1>3, PTL DEF Spec

LEMMA SpecOnceInv ==
  ASSUME TextsTellApart
  PROVE  Spec => []OnceInv
<1>1. Init => OnceInv
  <2>1. Init => BufferIsForLater /\ PollsInTime /\ RunningIsUndelivered
                /\ CarriedIsUndelivered /\ OneWay
    BY DEF Init, BufferIsForLater, PollsInTime, RunningIsUndelivered, CarriedIsUndelivered,
           OneWay, Undelivered
  <2>2. Init => OpenIsToAnswer
    BY TextsOfQuestions, DistinctNames DEF Init, OpenIsToAnswer
  <2> QED BY <2>1, <2>2, InitIInv, InitScreen DEF OnceInv
<1>2. OnceInv /\ [Next]_vars => OnceInv'
  BY OnceInvStep
<1> QED BY <1>1, <1>2, PTL DEF Spec

(* Of questions that all ask something different, an answer goes one way: it    *)
(* becomes the result of the one call that asked, or one message, whatever      *)
(* comes first, the leg or the panel, and whatever dies in between.  Of a       *)
(* question that an adoption, or a click on its closed panel after one, takes   *)
(* up again (reopened) it says nothing: that one is answered again.             *)
THEOREM AnswersGoOneWay ==
  ASSUME TextsTellApart
  PROVE  Spec => []DeliveredOnce
<1>1. OnceInv => DeliveredOnce
  BY HeardByOne DEF DeliveredOnce
<1> QED BY <1>1, SpecOnceInv, PTL

(* Of questions that all ask something different, each lives the one life of    *)
(* QuestionLife: its answer comes to its own call or to a message, it is taken  *)
(* up again only by the adoption of a turn whose asker has not passed the       *)
(* answer on, and one that is over only after that happened to another.         *)
THEOREM QuestionsLiveOnce ==
  ASSUME TextsTellApart
  PROVE  Spec => LivesOnce
<1>1. Init => Life!Init
  BY DEF Init, Life!Init, Fate
<1>2. OnceInv /\ OnceInv' /\ [Next]_vars =>
        [Life!Next]_([q \in Question |-> Fate(q)])
  <2> SUFFICES ASSUME OnceInv, OnceInv', [Next]_vars PROVE Life!Next
    OBVIOUS
  <2>1. \A q \in Question :
          /\ q \in reopened => Fate(q) = "reopened"
          /\ q \in reopened' => Fate(q)' = "reopened"
    BY DEF Fate
  <2>2. ASSUME NEW q \in Question, q \notin reopened'
        PROVE  /\ Fate(q)' \in {"unasked", "open", "answered", "result", "message", "closed"}
               /\ Fate(q)' \in {Fate(q)} \cup Life!After(Fate(q))
    BY <2>2, LifeStep, FateMoves, ReopenedStay
  <2>3. ASSUME NEW q \in Question, q \in reopened', q \notin reopened
        PROVE  /\ "reopened" \in Life!After(Fate(q))
               /\ Fate(q) \in Life!Over => \E p \in Question : Fate(p) = "reopened"
    <3>1. OnItsWay(q) => Fate(q) = "answered"
      BY <2>3, FateIs
    <3>2. status[q] \notin {"unasked", "waiting"} /\ ~OnItsWay(q) => Fate(q) \in Life!Over
      BY <2>3, FateIs DEF Closed, Life!Over
    <3>3. reopened # {} => \E p \in Question : Fate(p) = "reopened"
      BY <2>1 DEF OnceInv, IInv, TypeOK
    <3>4. OnItsWay(q) \/ (status[q] \notin {"unasked", "waiting"} /\ reopened # {})
      BY <2>3, TakenUpFrom
    <3> QED BY <3>1, <3>2, <3>3, <3>4 DEF Life!After, Life!Over
  <2>4. \A q \in Question :
          /\ Fate(q)' \in {"unasked", "open", "answered", "reopened"} \cup Life!Over
          /\ Fate(q)' \in {Fate(q)} \cup Life!After(Fate(q))
    BY <2>1, <2>2, <2>3 DEF Life!Over
  <2>5. ASSUME NEW q \in Question, Fate(q) \in Life!Over, Fate(q)' = "reopened"
        PROVE  \E p \in Question : Fate(p) = "reopened"
    <3>1. q \in reopened' /\ q \notin reopened
      BY <2>1, <2>2, <2>5 DEF Life!Over
    <3> QED BY <2>3, <2>5, <3>1
  <2> QED BY <2>4, <2>5 DEF Life!Next
<1>3. OnceInv /\ [Next]_vars => OnceInv'
  BY OnceInvStep
<1> QED BY <1>1, <1>2, <1>3, SpecOnceInv, PTL DEF Spec, LivesOnce, Life!Spec
=============================================================================
