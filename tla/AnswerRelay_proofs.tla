------------------------- MODULE AnswerRelay_proofs -------------------------
(***************************************************************************)
(* What the relay of owed answers guarantees for any number of answers and *)
(* turns, any depth of shadowed streams and any number of restarts.        *)
(***************************************************************************)
EXTENDS AnswerRelay, QueueFacts

(* A turn that carries answers is one of the route's or of the streams', or one *)
(* that ended in silence, and the model has said nothing on it.                 *)
CarriesAreSilent ==
  \A t \in ToSet(carrying) :
    /\ turn[t].st \in {"accepted", "streaming", "closed"}
    /\ ~turn[t].heard
    /\ turn[t].text # <<>>

\* The model has heard what is being settled.
SettlingWasHeard == \A a \in ToSet(settling) : reached[a] > 0

\* The inductive invariant.
IInv ==
  /\ TypeOK
  /\ OwedIsSomewhere
  /\ OnePlace
  /\ SentWasHeard
  /\ CarriesAreSilent
  /\ SettlingWasHeard

-----------------------------------------------------------------------------
(* The initial states *)

LEMMA FreeTurnIsTurn == FreeTurn \in TurnRecord
  BY DEF FreeTurn, TurnRecord

\* A turn whose status changes is a turn.
LEMMA StatusKeepsTurn ==
  ASSUME NEW r \in TurnRecord,
         NEW st \in {"free", "accepted", "streaming", "closed", "orphan"}
  PROVE  /\ [r EXCEPT !.st = st] \in TurnRecord
         /\ [r EXCEPT !.st = st].text = r.text
         /\ [r EXCEPT !.st = st].heard = r.heard
         /\ [r EXCEPT !.st = st].st = st
  BY DEF TurnRecord

LEMMA InitIInv == Init => IInv
<1> SUFFICES ASSUME Init PROVE IInv
  OBVIOUS
<1>1. TypeOK
  <2>1. restarts \in 0 .. MaxRestarts /\ reached \in [Answer -> 0 .. 2]
    BY Bounds DEF Init
  <2>2. turn \in [Turn -> TurnRecord]
    BY FreeTurnIsTurn DEF Init
  <2>3. mark \in [Answer -> {"none", "queued", "sent"}]
    BY DEF Init
  <2> QED BY <2>1, <2>2, <2>3, EmptySeq DEF Init, TypeOK
<1>2. ToSet(owed) = {} /\ ToSet(carrying) = {} /\ ToSet(settling) = {} /\ loading = {}
      /\ IsInjective(owed) /\ IsInjective(carrying) /\ IsInjective(settling)
  BY EmptyQueue DEF Init
<1>3. OwedIsSomewhere /\ OnePlace /\ SentWasHeard /\ CarriesAreSilent /\ SettlingWasHeard
  BY <1>2 DEF Init, OwedIsSomewhere, InMemory, Carried, OnePlace, SentWasHeard,
              CarriesAreSilent, SettlingWasHeard
<1> QED BY <1>1, <1>3 DEF IInv

-----------------------------------------------------------------------------
(* Types *)

\* A turn that begins is a turn.
LEMMA NewTurnIsTurn ==
  ASSUME NEW st \in {"accepted", "streaming"},
         NEW by \in {"relay", "person", "machine", "woken", "resume"},
         NEW text \in Seq(Answer), NEW behind \in SUBSET Answer
  PROVE  NewTurn(st, by, text, behind) \in TurnRecord
  BY DEF NewTurn, TurnRecord

\* What pump does to its two variables.
LEMMA PumpType ==
  ASSUME TypeOK, NEW q \in Seq(Answer), NEW isHeld \in BOOLEAN, Pump(q, isHeld)
  PROVE  /\ posting' \in Answer \cup {NoPost}
         /\ retry' \in {"none", "waiting", "armed", "due"}
  BY TailQueue DEF TypeOK, Pump

\* A position of a member.
LEMMA PositionIsOne ==
  ASSUME NEW S, NEW s \in Seq(S), NEW e \in ToSet(s)
  PROVE  Position(s, e) \in 1 .. Len(s) /\ s[Position(s, e)] = e
  BY DEF Position, ToSet

\* Giving back what the queue does not hold puts all of it back.
LEMMA MissingIsAll ==
  ASSUME NEW s, NEW q, ToSet(s) \cap ToSet(q) = {}
  PROVE  Missing(s, q) = s
  BY DEF Missing

\* What a carry gives back is a queue of answers, that is all of the carry.
LEMMA GivenBackType ==
  ASSUME IInv, NEW t \in ToSet(carrying)
  PROVE  /\ t \in Turn
         /\ Missing(turn[t].text, owed) = turn[t].text
         /\ turn[t].text \in Seq(Answer)
         /\ Missing(turn[t].text, owed) \o owed \in Seq(Answer)
<1>1. t \in Turn /\ turn[t].text \in Seq(Answer)
  BY ToSetInSet DEF IInv, TypeOK, TurnRecord
<1>2. ToSet(turn[t].text) \cap ToSet(owed) = {}
  BY DEF IInv, OnePlace
<1>3. Missing(turn[t].text, owed) = turn[t].text
  BY <1>2, MissingIsAll
<1> QED BY <1>1, <1>3, ConcatQueue DEF IInv, TypeOK

LEMMA AfterEndIsTurn ==
  ASSUME TypeOK, NEW t \in Turn
  PROVE  AfterEnd(t) \in TurnRecord
  BY FreeTurnIsTurn DEF TypeOK, AfterEnd, TurnRecord

\* What a step of the relay, of the route, of the end of a turn and of a restart
\* does to the types.
LEMMA RelayType ==
  ASSUME IInv,
         \/ \E a \in Answer : Give(a)
         \/ TickFires \/ WaitElapses \/ TimerFires \/ SettleNext \/ ReleaseHold
         \/ PostRefused \/ CliOpens \/ CliCloses \/ ReleaseBootHold
  PROVE  TypeOK'
<1> USE DEF IInv
<1>1. ASSUME NEW a \in Answer, Give(a) PROVE TypeOK'
  <2>1. owed' \in Seq(Answer)
    BY <1>1 DEF TypeOK, Give, Enqueued
  <2>2. posting' \in Answer \cup {NoPost} /\ retry' \in {"none", "waiting", "armed", "due"}
    BY <1>1, <2>1, PumpType DEF TypeOK, Give
  <2> QED BY <1>1, <2>1, <2>2 DEF TypeOK, Give, loopVars, routeVars
<1>2. CASE TickFires
  <2>1. posting' \in Answer \cup {NoPost} /\ retry' \in {"none", "waiting", "armed", "due"}
    BY <1>2, PumpType DEF TypeOK, TickFires
  <2> QED BY <1>2, <2>1 DEF TypeOK, TickFires, loopVars, routeVars, diskVars
<1>3. CASE WaitElapses
  BY <1>3 DEF TypeOK, WaitElapses, loopVars, routeVars, diskVars
<1>4. CASE TimerFires
  BY <1>4, TailQueue DEF TypeOK, TimerFires, loopVars, routeVars, diskVars
<1>5. CASE SettleNext
  <2>1. Head(settling) \in Answer /\ settling' \in Seq(Answer)
    BY <1>5, TailQueue DEF TypeOK, SettleNext
  <2> QED BY <1>5, <2>1 DEF TypeOK, SettleNext, relayVars, routeVars
<1>6. CASE ReleaseHold
  <2>1. posting' \in Answer \cup {NoPost} /\ retry' \in {"none", "waiting", "armed", "due"}
    BY <1>6, PumpType DEF TypeOK, ReleaseHold
  <2> QED BY <1>6, <2>1 DEF TypeOK, ReleaseHold, loopVars, routeVars, diskVars
<1>7. CASE PostRefused
  BY <1>7 DEF TypeOK, PostRefused, loopVars, routeVars, diskVars
<1>8. CASE CliOpens
  BY <1>8 DEF TypeOK, CliOpens, relayVars, loopVars, diskVars
<1>9. CASE CliCloses
  BY <1>9 DEF TypeOK, CliCloses, relayVars, loopVars, diskVars
<1>10. CASE ReleaseBootHold
  BY <1>10 DEF TypeOK, ReleaseBootHold, relayVars, loopVars, diskVars
<1> QED BY <1>1, <1>2, <1>3, <1>4, <1>5, <1>6, <1>7, <1>8, <1>9, <1>10

LEMMA RouteType ==
  ASSUME IInv, NEW t \in Turn,
         \/ PostClaims(t) \/ PersonPosts(t) \/ MachinePosts(t) \/ ResumePosts(t)
         \/ StartTurn(t) \/ RefuseTurn(t) \/ WokenTurn(t)
  PROVE  TypeOK'
<1> USE DEF IInv
<1> DEFINE Older == {a \in Answer : mark[a] # "none" /\ reached[a] = 0}
<1>1. CASE PostClaims(t)
  <2>1. owed' \in Seq(Answer)
    BY <1>1, PositionIsOne, RemoveAtQueue DEF TypeOK, PostClaims
  <2>2. carrying' \in Seq(Turn)
    BY <1>1, AppendQueue DEF TypeOK, PostClaims
  <2>3. posting \in Answer
    BY <1>1 DEF TypeOK, PostClaims, PostAtGate
  <2>4. NewTurn("accepted", "relay", <<posting>>, {}) \in TurnRecord
    BY <2>3, SingleQueue, NewTurnIsTurn
  <2>5. turn' \in [Turn -> TurnRecord]
    BY <1>1, <2>4 DEF TypeOK, PostClaims
  <2> QED BY <1>1, <2>1, <2>2, <2>5 DEF TypeOK, PostClaims, loopVars
<1>2. CASE PersonPosts(t)
  <2>1. owed' \in Seq(Answer)
    BY <1>2 DEF PersonPosts
  <2>2. carrying' \in Seq(Turn)
    BY <1>2, AppendQueue DEF TypeOK, PersonPosts
  <2>3. NewTurn("accepted", "person", owed, Older) \in TurnRecord
    BY NewTurnIsTurn DEF TypeOK
  <2>4. turn' \in [Turn -> TurnRecord]
    BY <1>2, <2>3 DEF TypeOK, PersonPosts
  <2> QED BY <1>2, <2>1, <2>2, <2>4 DEF TypeOK, PersonPosts, loopVars
<1>3. CASE MachinePosts(t)
  <2>1. NewTurn("accepted", "machine", <<>>, {}) \in TurnRecord
    BY EmptySeq, NewTurnIsTurn
  <2>2. turn' \in [Turn -> TurnRecord]
    BY <1>3, <2>1 DEF TypeOK, MachinePosts
  <2> QED BY <1>3, <2>2 DEF TypeOK, MachinePosts, relayVars, loopVars
<1>4. CASE ResumePosts(t)
  <2>1. cut.text \in Seq(Answer) /\ cut.behind \in SUBSET Answer
    BY <1>4 DEF TypeOK, ResumePosts
  <2>2. NewTurn("accepted", "resume", cut.text, cut.behind) \in TurnRecord
    BY <2>1, NewTurnIsTurn
  <2>3. turn' \in [Turn -> TurnRecord]
    BY <1>4, <2>2 DEF TypeOK, ResumePosts
  <2> QED BY <1>4, <2>3 DEF TypeOK, ResumePosts, relayVars, loopVars
<1>5. CASE StartTurn(t)
  <2>1. turn' \in [Turn -> TurnRecord]
    BY <1>5, StatusKeepsTurn DEF TypeOK, StartTurn
  <2>2. streams' \in Seq(Turn)
    BY <1>5, SingleQueue, ConcatQueue DEF TypeOK, StartTurn
  <2> QED BY <1>5, <2>1, <2>2 DEF TypeOK, StartTurn, loopVars, diskVars
<1>6. CASE RefuseTurn(t)
  <2>1. turn' \in [Turn -> TurnRecord]
    BY <1>6, FreeTurnIsTurn DEF TypeOK, RefuseTurn
  <2>2. CASE t \in ToSet(carrying)
    <3>1. carrying' \in Seq(Turn)
      BY <1>6, <2>2, PositionIsOne, RemoveAtQueue DEF TypeOK, RefuseTurn
    <3>2. owed' \in Seq(Answer)
      BY <1>6, <2>2, GivenBackType DEF TypeOK, RefuseTurn
    <3> QED BY <1>6, <2>1, <2>2, <3>1, <3>2 DEF TypeOK, RefuseTurn, loopVars, diskVars
  <2>3. CASE t \notin ToSet(carrying)
    BY <1>6, <2>1, <2>3 DEF TypeOK, RefuseTurn, loopVars, diskVars
  <2> QED BY <2>2, <2>3
<1>7. CASE WokenTurn(t)
  <2>1. NewTurn("streaming", "woken", <<>>, {}) \in TurnRecord
    BY EmptySeq, NewTurnIsTurn
  <2>2. turn' \in [Turn -> TurnRecord]
    BY <1>7, <2>1 DEF TypeOK, WokenTurn
  <2>3. streams' \in Seq(Turn)
    BY <1>7, SingleQueue, ConcatQueue DEF TypeOK, WokenTurn
  <2> QED BY <1>7, <2>2, <2>3 DEF TypeOK, WokenTurn, relayVars, loopVars, diskVars
<1> QED BY <1>1, <1>2, <1>3, <1>4, <1>5, <1>6, <1>7

LEMMA EndType ==
  ASSUME IInv,
         \/ \E t \in Turn : Hears(t) \/ EndTurn(t) \/ EndShadowed(t) \/ Forget(t) \/ Reattach(t)
         \/ GiveBackNext \/ LoadNext \/ Restart
  PROVE  TypeOK'
<1> USE DEF IInv
<1>1. ASSUME NEW t \in Turn, Hears(t) PROVE TypeOK'
  <2>1. turn' \in [Turn -> TurnRecord]
    BY <1>1, FreeTurnIsTurn DEF TypeOK, Hears, TurnRecord
  <2>2. reached' \in [Answer -> 0 .. 2]
    BY <1>1 DEF TypeOK, Hears
  <2>3. CASE t \in ToSet(carrying)
    <3>1. carrying' \in Seq(Turn)
      BY <1>1, <2>3, PositionIsOne, RemoveAtQueue DEF TypeOK, Hears
    <3>2. settling' \in Seq(Answer)
      BY <1>1, <2>3 DEF TypeOK, Hears, TurnRecord
    <3> QED BY <1>1, <2>1, <2>2, <2>3, <3>1, <3>2 DEF TypeOK, Hears, diskVars
  <2>4. CASE t \notin ToSet(carrying)
    BY <1>1, <2>1, <2>2, <2>4 DEF TypeOK, Hears, diskVars
  <2> QED BY <2>3, <2>4
<1>2. ASSUME NEW t \in Turn, EndTurn(t) PROVE TypeOK'
  <2>1. turn' \in [Turn -> TurnRecord]
    BY <1>2, AfterEndIsTurn DEF TypeOK, EndTurn
  <2>2. streams' \in Seq(Turn)
    BY <1>2, TailQueue DEF TypeOK, EndTurn
  <2>3. returning' \subseteq Turn /\ tick' \in BOOLEAN
    BY <1>2, ToSetInSet DEF TypeOK, EndTurn
  <2> QED BY <1>2, <2>1, <2>2, <2>3 DEF TypeOK, EndTurn, diskVars
<1>3. ASSUME NEW t \in Turn, EndShadowed(t) PROVE TypeOK'
  <2>1. turn' \in [Turn -> TurnRecord]
    BY <1>3, AfterEndIsTurn DEF TypeOK, EndShadowed
  <2>2. streams' \in Seq(Turn)
    <3>1. streams # <<>>
      BY <1>3 DEF EndShadowed
    <3> QED BY <1>3, <3>1, TailQueue, SingleQueue DEF TypeOK, EndShadowed
  <2> QED BY <1>3, <2>1, <2>2 DEF TypeOK, EndShadowed, relayVars, loopVars, diskVars
<1>4. ASSUME NEW t \in Turn, Forget(t) PROVE TypeOK'
  BY <1>4, FreeTurnIsTurn DEF TypeOK, Forget, relayVars, loopVars, diskVars
<1>5. ASSUME NEW t \in Turn, Reattach(t) PROVE TypeOK'
  <2>1. turn' \in [Turn -> TurnRecord]
    BY <1>5, StatusKeepsTurn DEF TypeOK, Reattach
  <2>2. streams' \in Seq(Turn)
    BY <1>5, SingleQueue, ConcatQueue DEF TypeOK, Reattach
  <2> QED BY <1>5, <2>1, <2>2 DEF TypeOK, Reattach, relayVars, loopVars, diskVars
<1>6. CASE GiveBackNext
  <2>1. PICK i \in DOMAIN carrying :
          /\ carrying' = RemoveAt(carrying, i)
          /\ owed' = Missing(turn[carrying[i]].text, owed) \o owed
          /\ returning' = returning \ {carrying[i]}
    BY <1>6 DEF GiveBackNext
  <2>2. i \in 1 .. Len(carrying) /\ carrying[i] \in ToSet(carrying)
    BY ToSetInSet DEF TypeOK
  <2>3. carrying' \in Seq(Turn)
    BY <2>1, <2>2, RemoveAtQueue DEF TypeOK
  <2>4. owed' \in Seq(Answer)
    BY <2>1, <2>2, GivenBackType DEF TypeOK
  <2> QED BY <1>6, <2>1, <2>3, <2>4 DEF TypeOK, GiveBackNext, routeVars, diskVars
<1>7. CASE LoadNext
  <2>1. PICK i \in DOMAIN given : owed' = Enqueued(given[i]) /\ loading' = loading \ {given[i]}
    BY <1>7 DEF LoadNext
  <2>2. owed' \in Seq(Answer)
    BY <2>1, AppendQueue DEF TypeOK, Enqueued
  <2> QED BY <1>7, <2>1, <2>2 DEF TypeOK, LoadNext, routeVars, diskVars
<1>8. CASE Restart
  <2>0. \A t \in Turn : [turn[t] EXCEPT !.st = "orphan"] \in TurnRecord
    BY StatusKeepsTurn DEF TypeOK
  <2>1. turn' \in [Turn -> TurnRecord]
    BY <1>8, <2>0, FreeTurnIsTurn DEF Restart
  <2>2. \A t \in Turn : Resent(t) \in [text : Seq(Answer), behind : SUBSET Answer]
    BY EmptySeq DEF TypeOK, Resent, TurnRecord
  <2>3. cut' = NoCut \/ cut' \in [text : Seq(Answer), behind : SUBSET Answer]
    BY <1>8, <2>2 DEF Restart
  <2>4. restarts' \in 0 .. MaxRestarts
    BY <1>8, Bounds DEF TypeOK, Restart
  <2>5. /\ owed' = <<>> /\ carrying' = <<>> /\ posting' = NoPost /\ retry' = "none"
        /\ tick' = FALSE /\ held' = TRUE /\ returning' = {} /\ settling' = <<>>
        /\ loading' = index /\ streams' = <<>> /\ cli' = FALSE /\ bootHold' \in BOOLEAN
        /\ given' = given /\ mark' = mark /\ index' = index /\ reached' = reached
    BY <1>8 DEF Restart
  <2> QED BY <2>1, <2>3, <2>4, <2>5, EmptySeq DEF TypeOK
<1> QED BY <1>1, <1>2, <1>3, <1>4, <1>5, <1>6, <1>7, <1>8

\* Every variable keeps its shape.
LEMMA NextType ==
  ASSUME IInv, [Next]_vars
  PROVE  TypeOK'
<1>1. CASE Next
  BY <1>1, RelayType, RouteType, EndType DEF Next, TurnStep
<1>2. CASE UNCHANGED vars
  BY <1>2 DEF IInv, TypeOK, vars, relayVars, loopVars, routeVars, diskVars
<1> QED BY <1>1, <1>2

-----------------------------------------------------------------------------
(* The places of an answer *)

\* What the memory holds, and that it holds it once.
Places == OwedIsSomewhere /\ OnePlace /\ CarriesAreSilent

\* Nothing moves in a step that leaves the queue, the carries and what they
\* carry, the answers being settled or loaded, and the rows as they are.
NothingMoves ==
  /\ UNCHANGED <<owed, carrying, settling, loading, mark, index>>
  /\ \A t \in ToSet(carrying) :
       /\ turn'[t].text = turn[t].text
       /\ turn'[t].heard = turn[t].heard
       /\ turn'[t].st \in {"accepted", "streaming", "closed"}

LEMMA NothingMovesKeepsPlaces ==
  ASSUME IInv, NothingMoves
  PROVE  Places'
<1>1. Carried' = Carried
  BY DEF NothingMoves, Carried
<1>2. OwedIsSomewhere'
  BY <1>1 DEF IInv, NothingMoves, OwedIsSomewhere, InMemory
<1>3. OnePlace'
  BY DEF IInv, NothingMoves, OnePlace
<1>4. CarriesAreSilent'
  BY DEF IInv, NothingMoves, CarriesAreSilent
<1> QED BY <1>2, <1>3, <1>4 DEF Places

\* A turn that is free, or that begins, carries nothing.
LEMMA FreeCarriesNothing ==
  ASSUME IInv, NEW t \in Turn, turn[t].st \in {"free", "orphan"}
  PROVE  t \notin ToSet(carrying)
  BY DEF IInv, CarriesAreSilent

\* The steps of the timers, of the boot and of the CLI, and the posts that take
\* nothing: no answer moves.
LEMMA QuietSteps ==
  ASSUME IInv,
         \/ TickFires \/ WaitElapses \/ TimerFires \/ ReleaseHold \/ PostRefused
         \/ CliOpens \/ CliCloses \/ ReleaseBootHold \/ UNCHANGED vars
  PROVE  NothingMoves
<1> USE DEF IInv, NothingMoves, CarriesAreSilent
<1>1. CASE TickFires
  BY <1>1 DEF TickFires, loopVars, routeVars, diskVars
<1>2. CASE WaitElapses
  BY <1>2 DEF WaitElapses, loopVars, routeVars, diskVars
<1>3. CASE TimerFires
  BY <1>3 DEF TimerFires, loopVars, routeVars, diskVars
<1>4. CASE ReleaseHold
  BY <1>4 DEF ReleaseHold, loopVars, routeVars, diskVars
<1>5. CASE PostRefused
  BY <1>5 DEF PostRefused, loopVars, routeVars, diskVars
<1>6. CASE CliOpens
  BY <1>6 DEF CliOpens, relayVars, loopVars, diskVars
<1>7. CASE CliCloses
  BY <1>7 DEF CliCloses, relayVars, loopVars, diskVars
<1>8. CASE ReleaseBootHold
  BY <1>8 DEF ReleaseBootHold, relayVars, loopVars, diskVars
<1>9. CASE UNCHANGED vars
  BY <1>9 DEF vars, relayVars, loopVars, routeVars, diskVars
<1> QED BY <1>1, <1>2, <1>3, <1>4, <1>5, <1>6, <1>7, <1>8, <1>9

\* The steps of a turn that carries nothing, and those that do not settle or
\* give back what the turn carries.
LEMMA QuietTurnSteps ==
  ASSUME IInv, NEW t \in Turn,
         \/ PersonPosts(t) /\ owed = <<>>
         \/ MachinePosts(t) \/ ResumePosts(t) \/ WokenTurn(t) \/ StartTurn(t)
         \/ RefuseTurn(t) /\ t \notin ToSet(carrying)
         \/ Hears(t) /\ t \notin ToSet(carrying)
         \/ EndTurn(t) \/ EndShadowed(t) \/ Forget(t) \/ Reattach(t)
  PROVE  NothingMoves
<1>0. \A u \in ToSet(carrying) :
        u \in Turn /\ turn[u].st \in {"accepted", "streaming", "closed"} /\ turn[u].text # <<>>
        /\ ~turn[u].heard
  BY ToSetInSet DEF IInv, TypeOK, CarriesAreSilent
<1>1. turn \in [Turn -> TurnRecord]
  BY DEF IInv, TypeOK
<1>2. SUFFICES /\ UNCHANGED <<owed, carrying, settling, loading, mark, index>>
               /\ \A u \in Turn : u # t => turn'[u] = turn[u]
               /\ t \in ToSet(carrying) => /\ turn'[t].text = turn[t].text
                                           /\ turn'[t].heard = turn[t].heard
                                           /\ turn'[t].st \in {"accepted", "streaming", "closed"}
  BY <1>0 DEF NothingMoves
<1>3. CASE PersonPosts(t) /\ owed = <<>>
  BY <1>3, <1>1, FreeCarriesNothing DEF PersonPosts, loopVars
<1>4. CASE MachinePosts(t)
  BY <1>4, <1>1, FreeCarriesNothing DEF MachinePosts, relayVars, loopVars
<1>5. CASE ResumePosts(t)
  BY <1>5, <1>1, FreeCarriesNothing DEF ResumePosts, relayVars, loopVars
<1>6. CASE WokenTurn(t)
  BY <1>6, <1>1, FreeCarriesNothing DEF WokenTurn, relayVars, loopVars, diskVars
<1>7. CASE StartTurn(t)
  BY <1>7, <1>1 DEF StartTurn, loopVars, diskVars, TurnRecord
<1>8. CASE RefuseTurn(t) /\ t \notin ToSet(carrying)
  BY <1>8, <1>1 DEF RefuseTurn, loopVars, diskVars
<1>9. CASE Hears(t) /\ t \notin ToSet(carrying)
  BY <1>9, <1>1 DEF Hears, diskVars
<1>10. t \in ToSet(carrying) => /\ AfterEnd(t).text = turn[t].text
                                /\ AfterEnd(t).heard = turn[t].heard
                                /\ AfterEnd(t).st = "closed"
  BY <1>0, <1>1 DEF AfterEnd, TurnRecord
<1>11. CASE EndTurn(t)
  BY <1>11, <1>1, <1>10 DEF EndTurn, diskVars
<1>12. CASE EndShadowed(t)
  BY <1>12, <1>1, <1>10 DEF EndShadowed, relayVars, loopVars, diskVars
<1>13. CASE Forget(t)
  BY <1>13, <1>1 DEF Forget, relayVars, loopVars, diskVars
<1>14. CASE Reattach(t)
  BY <1>14, <1>1, FreeCarriesNothing DEF Reattach, relayVars, loopVars, diskVars
<1> QED BY <1>3, <1>4, <1>5, <1>6, <1>7, <1>8, <1>9, <1>11, <1>12, <1>13, <1>14

\* A carry that is released takes its answers, and only them, out of the carried ones.
LEMMA CarryLeaves ==
  ASSUME IInv, NEW i \in 1 .. Len(carrying), carrying' = RemoveAt(carrying, i),
         \A u \in ToSet(carrying) \ {carrying[i]} : turn'[u] = turn[u]
  PROVE  /\ carrying[i] \in ToSet(carrying)
         /\ ToSet(carrying') = ToSet(carrying) \ {carrying[i]}
         /\ IsInjective(carrying')
         /\ Carried = Carried' \cup ToSet(turn[carrying[i]].text)
         /\ Carried' \cap ToSet(turn[carrying[i]].text) = {}
<1>1. carrying \in Seq(Turn) /\ IsInjective(carrying)
  BY DEF IInv, TypeOK, OnePlace
<1>2. carrying[i] \in ToSet(carrying)
  BY <1>1, ToSetInSet
<1>3. ToSet(carrying') = ToSet(carrying) \ {carrying[i]} /\ IsInjective(carrying')
  BY <1>1, RemoveAtQueue
<1>4. Carried = Carried' \cup ToSet(turn[carrying[i]].text)
  BY <1>2, <1>3 DEF Carried
<1>5. Carried' \cap ToSet(turn[carrying[i]].text) = {}
  BY <1>2, <1>3 DEF Carried, IInv, OnePlace
<1> QED BY <1>2, <1>3, <1>4, <1>5

\* A new carry adds the answers it takes.
LEMMA CarryJoins ==
  ASSUME IInv, NEW t \in Turn, t \notin ToSet(carrying), carrying' = Append(carrying, t),
         \A u \in ToSet(carrying) : turn'[u] = turn[u]
  PROVE  /\ ToSet(carrying') = ToSet(carrying) \cup {t}
         /\ IsInjective(carrying')
         /\ Carried' = Carried \cup ToSet(turn'[t].text)
<1>1. carrying \in Seq(Turn) /\ IsInjective(carrying)
  BY DEF IInv, TypeOK, OnePlace
<1>2. ToSet(carrying') = ToSet(carrying) \cup {t} /\ IsInjective(carrying')
  BY <1>1, AppendQueue
<1>3. Carried' = Carried \cup ToSet(turn'[t].text)
  BY <1>2 DEF Carried
<1> QED BY <1>2, <1>3

\* An answer that is given, or that the boot loads, joins the queue.
LEMMA EnqueueMoves ==
  ASSUME IInv, NEW a \in Answer, owed' = Enqueued(a),
         a \notin ToSet(owed) \cup Carried
  PROVE  ToSet(owed') = ToSet(owed) \cup {a} /\ IsInjective(owed')
  BY AppendQueue DEF Enqueued, IInv, TypeOK, OnePlace

LEMMA GivePlaces ==
  ASSUME IInv, NEW a \in Answer, Give(a)
  PROVE  Places'
<1>1. a \notin index /\ a \notin InMemory
  BY DEF Give, IInv, OwedIsSomewhere
<1>2. ToSet(owed') = ToSet(owed) \cup {a} /\ IsInjective(owed')
  BY <1>1, EnqueueMoves DEF Give, InMemory
<1>3. UNCHANGED <<carrying, turn, settling, loading>> /\ Carried' = Carried
  BY DEF Give, loopVars, routeVars, Carried
<1>4. OwedIsSomewhere'
  <2>1. index' = {b \in Answer : mark'[b] = "queued"}
    BY DEF Give, IInv, TypeOK, OwedIsSomewhere
  <2>2. InMemory' = InMemory \cup {a}
    BY <1>2, <1>3 DEF InMemory
  <2>3. index' = index \cup {a} /\ InMemory = index
    BY DEF Give, IInv, OwedIsSomewhere
  <2> QED BY <2>1, <2>2, <2>3 DEF OwedIsSomewhere
<1>5. OnePlace'
  <2>1. \A t \in ToSet(carrying) : a \notin ToSet(turn[t].text)
    BY <1>1 DEF InMemory, Carried
  <2> QED BY <1>1, <1>2, <1>3, <2>1 DEF OnePlace, IInv, InMemory
<1>6. CarriesAreSilent'
  BY <1>3 DEF IInv, CarriesAreSilent
<1> QED BY <1>4, <1>5, <1>6 DEF Places

LEMMA LoadPlaces ==
  ASSUME IInv, LoadNext
  PROVE  Places'
<1>1. PICK a \in loading : a \in Answer /\ owed' = Enqueued(a) /\ loading' = loading \ {a}
  BY DEF LoadNext, IInv, TypeOK
<1>2. a \notin ToSet(owed) \cup Carried /\ a \notin ToSet(settling)
      /\ \A t \in ToSet(carrying) : a \notin ToSet(turn[t].text)
  BY <1>1 DEF IInv, OnePlace, Carried
<1>3. ToSet(owed') = ToSet(owed) \cup {a} /\ IsInjective(owed')
  BY <1>1, <1>2, EnqueueMoves
<1>4. UNCHANGED <<carrying, turn, settling, mark, index>> /\ Carried' = Carried
  BY DEF LoadNext, routeVars, diskVars, Carried
<1>5. OwedIsSomewhere'
  BY <1>1, <1>3, <1>4 DEF IInv, OwedIsSomewhere, InMemory
<1>6. OnePlace'
  BY <1>1, <1>2, <1>3, <1>4 DEF IInv, OnePlace
<1>7. CarriesAreSilent'
  BY <1>4 DEF IInv, CarriesAreSilent
<1> QED BY <1>5, <1>6, <1>7 DEF Places

LEMMA SettlePlaces ==
  ASSUME IInv, SettleNext
  PROVE  Places'
<1> DEFINE a == Head(settling)
<1>1. /\ a \in Answer
      /\ ToSet(settling) = {a} \cup ToSet(settling')
      /\ IsInjective(settling') /\ a \notin ToSet(settling')
  BY TailQueue DEF SettleNext, IInv, TypeOK, OnePlace
<1>2. UNCHANGED <<owed, carrying, turn, loading>> /\ Carried' = Carried
  BY DEF SettleNext, relayVars, routeVars, Carried
<1>3. mark' = [mark EXCEPT ![a] = "sent"] /\ index' = index \ {a}
  BY DEF SettleNext
<1> HIDE DEF a
<1>4. OwedIsSomewhere'
  <2>1. index' = {b \in Answer : mark'[b] = "queued"}
    BY <1>1, <1>3 DEF IInv, TypeOK, OwedIsSomewhere
  <2>2. a \notin ToSet(owed) \cup Carried \cup loading
    BY <1>1 DEF IInv, OnePlace, Carried
  <2>3. InMemory' = InMemory \ {a}
    BY <1>1, <1>2, <2>2 DEF InMemory
  <2> QED BY <1>3, <2>1, <2>3 DEF IInv, OwedIsSomewhere
<1>5. OnePlace'
  BY <1>1, <1>2 DEF IInv, OnePlace
<1>6. CarriesAreSilent'
  BY <1>2 DEF IInv, CarriesAreSilent
<1> QED BY <1>4, <1>5, <1>6 DEF Places

LEMMA RestartPlaces ==
  ASSUME IInv, Restart
  PROVE  Places'
<1>1. owed' = <<>> /\ carrying' = <<>> /\ settling' = <<>> /\ loading' = index
      /\ mark' = mark /\ index' = index
  BY DEF Restart
<1>2. ToSet(owed') = {} /\ ToSet(carrying') = {} /\ ToSet(settling') = {} /\ Carried' = {}
      /\ IsInjective(owed') /\ IsInjective(carrying') /\ IsInjective(settling')
  BY <1>1, EmptyQueue DEF Carried
<1> QED BY <1>1, <1>2 DEF Places, IInv, OwedIsSomewhere, InMemory, OnePlace, CarriesAreSilent

\* A message that takes answers out of the queue: the relay's own, or the person's.
LEMMA TakePlaces ==
  ASSUME IInv, NEW t \in Turn, PostClaims(t) \/ (PersonPosts(t) /\ owed # <<>>)
  PROVE  Places'
<1>1. t \notin ToSet(carrying) /\ carrying' = Append(carrying, t)
  BY FreeCarriesNothing DEF PostClaims, PersonPosts
<1>2. /\ UNCHANGED <<settling, loading, mark, index>>
      /\ \A u \in ToSet(carrying) : turn'[u] = turn[u]
  BY <1>1, ToSetInSet DEF PostClaims, PersonPosts, loopVars, IInv, TypeOK
<1>3. /\ turn'[t].st = "accepted" /\ ~turn'[t].heard /\ turn'[t].text # <<>>
      /\ IsInjective(turn'[t].text) /\ IsInjective(owed')
      /\ ToSet(owed) = ToSet(owed') \cup ToSet(turn'[t].text)
      /\ ToSet(owed') \cap ToSet(turn'[t].text) = {}
  <2>1. CASE PostClaims(t)
    <3>1. posting \in ToSet(owed) /\ posting \in Answer
      BY <2>1, ToSetInSet DEF PostClaims, IInv, TypeOK
    <3>2. Position(owed, posting) \in 1 .. Len(owed) /\ owed[Position(owed, posting)] = posting
      BY <3>1, PositionIsOne DEF IInv, TypeOK
    <3>3. IsInjective(owed') /\ ToSet(owed') = ToSet(owed) \ {posting}
      BY <2>1, <3>2, RemoveAtQueue DEF PostClaims, IInv, TypeOK, OnePlace
    <3>4. turn'[t] = NewTurn("accepted", "relay", <<posting>>, {})
      BY <2>1 DEF PostClaims, IInv, TypeOK
    <3>5. ToSet(<<posting>>) = {posting} /\ IsInjective(<<posting>>) /\ <<posting>> # <<>>
      BY <3>1, SingleQueue
    <3> QED BY <3>1, <3>3, <3>4, <3>5 DEF NewTurn
  <2>2. CASE PersonPosts(t) /\ owed # <<>>
    <3>1. turn'[t] = NewTurn("accepted", "person", owed,
                             {a \in Answer : mark[a] # "none" /\ reached[a] = 0})
      BY <2>2 DEF PersonPosts, IInv, TypeOK
    <3>2. turn'[t].st = "accepted" /\ turn'[t].text = owed /\ ~turn'[t].heard
      BY <3>1 DEF NewTurn
    <3>3. owed' = <<>> /\ IsInjective(owed)
      BY <2>2 DEF PersonPosts, IInv, OnePlace
    <3> QED BY <2>2, <3>2, <3>3, EmptyQueue
  <2> QED BY <2>1, <2>2
<1>4. /\ ToSet(carrying') = ToSet(carrying) \cup {t} /\ IsInjective(carrying')
      /\ Carried' = Carried \cup ToSet(turn'[t].text)
  BY <1>1, <1>2, CarryJoins
<1>5. OwedIsSomewhere'
  <2>1. InMemory' = InMemory
    BY <1>2, <1>3, <1>4 DEF InMemory
  <2> QED BY <1>2, <2>1 DEF IInv, OwedIsSomewhere
<1>6. OnePlace'
  <2>1. \A u \in ToSet(carrying) :
          /\ turn'[u] = turn[u] /\ u # t
          /\ ToSet(turn[u].text) \cap ToSet(owed) = {}
    BY <1>1, <1>2 DEF IInv, OnePlace
  <2>2. \A u \in ToSet(carrying) : ToSet(turn'[u].text) \cap ToSet(turn'[t].text) = {}
    BY <1>3, <2>1
  <2>3. \A u \in ToSet(carrying') :
          /\ IsInjective(turn'[u].text)
          /\ ToSet(turn'[u].text) \cap (ToSet(owed') \cup ToSet(settling') \cup loading') = {}
    BY <1>2, <1>3, <1>4, <2>1 DEF IInv, OnePlace
  <2>4. \A u \in ToSet(carrying') : \A v \in ToSet(carrying') \ {u} :
          ToSet(turn'[u].text) \cap ToSet(turn'[v].text) = {}
    BY <1>4, <2>1, <2>2 DEF IInv, OnePlace
  <2>5. /\ ToSet(owed') \cap (ToSet(settling') \cup loading') = {}
        /\ ToSet(settling') \cap loading' = {}
        /\ IsInjective(settling')
    BY <1>2, <1>3 DEF IInv, OnePlace
  <2> QED BY <1>3, <1>4, <2>3, <2>4, <2>5 DEF OnePlace
<1>7. CarriesAreSilent'
  BY <1>2, <1>3, <1>4 DEF IInv, CarriesAreSilent
<1> QED BY <1>5, <1>6, <1>7 DEF Places

\* A carry that goes back to the queue: from a request that leaves the route with
\* no turn started, or from a turn that ended in silence.
LEMMA GiveBackPlaces ==
  ASSUME IInv, GiveBackNext \/ \E t \in ToSet(carrying) : RefuseTurn(t)
  PROVE  Places'
<1>1. PICK i \in 1 .. Len(carrying) :
        /\ carrying' = RemoveAt(carrying, i)
        /\ owed' = Missing(turn[carrying[i]].text, owed) \o owed
        /\ \A u \in ToSet(carrying) \ {carrying[i]} : turn'[u] = turn[u]
  <2>1. CASE GiveBackNext
    BY <2>1, LenProperties DEF GiveBackNext, routeVars, IInv, TypeOK
  <2>2. ASSUME NEW t \in ToSet(carrying), RefuseTurn(t)
        PROVE  \E i \in 1 .. Len(carrying) :
                 /\ carrying' = RemoveAt(carrying, i)
                 /\ owed' = Missing(turn[carrying[i]].text, owed) \o owed
                 /\ \A u \in ToSet(carrying) \ {carrying[i]} : turn'[u] = turn[u]
    <3>1. Position(carrying, t) \in 1 .. Len(carrying) /\ carrying[Position(carrying, t)] = t
      BY PositionIsOne DEF IInv, TypeOK
    <3>2. \A u \in ToSet(carrying) \ {t} : turn'[u] = turn[u]
      BY <2>2, ToSetInSet DEF RefuseTurn, IInv, TypeOK
    <3>3. carrying' = RemoveAt(carrying, Position(carrying, t))
          /\ owed' = Missing(turn[t].text, owed) \o owed
      BY <2>2 DEF RefuseTurn
    <3> QED BY <3>1, <3>2, <3>3
  <2> QED BY <2>1, <2>2
<1> DEFINE t == carrying[i]
<1>2. UNCHANGED <<settling, loading, mark, index>>
  BY DEF GiveBackNext, RefuseTurn, loopVars, routeVars, diskVars
<1>3. /\ t \in ToSet(carrying)
      /\ ToSet(carrying') = ToSet(carrying) \ {t} /\ IsInjective(carrying')
      /\ Carried = Carried' \cup ToSet(turn[t].text)
      /\ Carried' \cap ToSet(turn[t].text) = {}
  BY <1>1, CarryLeaves
<1>4. owed' = turn[t].text \o owed /\ turn[t].text \in Seq(Answer)
  BY <1>1, <1>3, GivenBackType
<1> HIDE DEF t
<1>5. ToSet(turn[t].text) \cap ToSet(owed) = {} /\ IsInjective(turn[t].text) /\ IsInjective(owed)
  BY <1>3 DEF IInv, OnePlace
<1>6. ToSet(owed') = ToSet(turn[t].text) \cup ToSet(owed) /\ IsInjective(owed')
  BY <1>4, <1>5, ConcatQueue DEF IInv, TypeOK
<1>7. OwedIsSomewhere'
  <2>1. InMemory' = InMemory
    BY <1>2, <1>3, <1>6 DEF InMemory
  <2> QED BY <1>2, <2>1 DEF IInv, OwedIsSomewhere
<1>8. \A u \in ToSet(carrying') : u \in ToSet(carrying) /\ u # t /\ turn'[u] = turn[u]
  BY <1>1, <1>3 DEF t
<1>9. OnePlace'
  <2>1. \A u \in ToSet(carrying') :
          ToSet(turn'[u].text) \cap (ToSet(owed') \cup ToSet(settling') \cup loading') = {}
    BY <1>2, <1>3, <1>6, <1>8 DEF IInv, OnePlace
  <2>2. \A u \in ToSet(carrying') :
          /\ IsInjective(turn'[u].text)
          /\ \A v \in ToSet(carrying') \ {u} : ToSet(turn'[u].text) \cap ToSet(turn'[v].text) = {}
    BY <1>8 DEF IInv, OnePlace
  <2>3. /\ ToSet(owed') \cap (ToSet(settling') \cup loading') = {}
        /\ ToSet(settling') \cap loading' = {} /\ IsInjective(settling')
    BY <1>2, <1>3, <1>6 DEF IInv, OnePlace
  <2> QED BY <1>3, <1>6, <2>1, <2>2, <2>3 DEF OnePlace
<1>10. CarriesAreSilent'
  BY <1>8 DEF IInv, CarriesAreSilent
<1> QED BY <1>7, <1>9, <1>10 DEF Places

\* The model speaks on a turn that carries answers: they are to be settled.
LEMMA HearsPlaces ==
  ASSUME IInv, NEW t \in ToSet(carrying), Hears(t)
  PROVE  Places'
<1>1. /\ t \in Turn
      /\ Position(carrying, t) \in 1 .. Len(carrying) /\ carrying[Position(carrying, t)] = t
  BY PositionIsOne, ToSetInSet DEF IInv, TypeOK
<1>2. /\ carrying' = RemoveAt(carrying, Position(carrying, t))
      /\ settling' = turn[t].text /\ settling = <<>> /\ loading = {}
      /\ UNCHANGED <<owed, loading, mark, index>>
      /\ \A u \in ToSet(carrying) \ {t} : turn'[u] = turn[u]
  BY <1>1, ToSetInSet DEF Hears, RunToCompletion, diskVars, IInv, TypeOK
<1>3. /\ ToSet(carrying') = ToSet(carrying) \ {t} /\ IsInjective(carrying')
      /\ Carried = Carried' \cup ToSet(turn[t].text)
      /\ Carried' \cap ToSet(turn[t].text) = {}
  BY <1>1, <1>2, CarryLeaves
<1>4. ToSet(settling) = {}
  BY <1>2, EmptyQueue
<1>5. OwedIsSomewhere'
  <2>1. InMemory' = InMemory
    BY <1>2, <1>3, <1>4 DEF InMemory
  <2> QED BY <1>2, <2>1 DEF IInv, OwedIsSomewhere
<1>6. \A u \in ToSet(carrying') : u \in ToSet(carrying) /\ u # t /\ turn'[u] = turn[u]
  BY <1>2, <1>3
<1>7. OnePlace'
  BY <1>2, <1>3, <1>6 DEF IInv, OnePlace
<1>8. CarriesAreSilent'
  BY <1>6 DEF IInv, CarriesAreSilent
<1> QED BY <1>5, <1>7, <1>8 DEF Places

LEMMA NextPlaces ==
  ASSUME IInv, [Next]_vars
  PROVE  Places'
<1>1. ASSUME NEW a \in Answer, Give(a) PROVE Places'
  BY <1>1, GivePlaces
<1>2. ASSUME NEW t \in Turn, TurnStep(t) PROVE Places'
  <2>1. CASE PersonPosts(t)
    <3>1. CASE owed = <<>>
      BY <2>1, <3>1, QuietTurnSteps, NothingMovesKeepsPlaces
    <3>2. CASE owed # <<>>
      BY <2>1, <3>2, TakePlaces
    <3> QED BY <3>1, <3>2
  <2>2. CASE PostClaims(t)
    <3>1. PostClaims(t) \/ (PersonPosts(t) /\ owed # <<>>)
      BY <2>2
    <3> QED BY <3>1, TakePlaces, ZenonT(20)
  <2>3. CASE RefuseTurn(t)
    BY <2>3, GiveBackPlaces, QuietTurnSteps, NothingMovesKeepsPlaces
  <2>4. CASE Hears(t)
    BY <2>4, HearsPlaces, QuietTurnSteps, NothingMovesKeepsPlaces
  <2>5. CASE \/ MachinePosts(t) \/ ResumePosts(t) \/ StartTurn(t) \/ WokenTurn(t)
             \/ EndTurn(t) \/ EndShadowed(t) \/ Forget(t) \/ Reattach(t)
    BY <2>5, QuietTurnSteps, NothingMovesKeepsPlaces
  <2> QED BY <1>2, <2>1, <2>2, <2>3, <2>4, <2>5 DEF TurnStep
<1>3. CASE SettleNext \/ GiveBackNext \/ LoadNext \/ Restart
  BY <1>3, SettlePlaces, GiveBackPlaces, LoadPlaces, RestartPlaces
<1>4. CASE \/ TickFires \/ WaitElapses \/ TimerFires \/ ReleaseHold \/ PostRefused
           \/ CliOpens \/ CliCloses \/ ReleaseBootHold \/ UNCHANGED vars
  BY <1>4, QuietSteps, NothingMovesKeepsPlaces
<1> QED BY <1>1, <1>2, <1>3, <1>4 DEF Next

-----------------------------------------------------------------------------
(* What is settled was heard *)

LEMMA NextHeard ==
  ASSUME IInv, [Next]_vars
  PROVE  SentWasHeard' /\ SettlingWasHeard'
<1>0. /\ reached \in [Answer -> 0 .. 2] /\ mark \in [Answer -> {"none", "queued", "sent"}]
      /\ settling \in Seq(Answer) /\ SentWasHeard /\ SettlingWasHeard
  BY DEF IInv, TypeOK
<1>1. ASSUME UNCHANGED <<mark, settling, reached>> PROVE SentWasHeard' /\ SettlingWasHeard'
  BY <1>0, <1>1 DEF SentWasHeard, SettlingWasHeard
<1>2. ASSUME NEW a \in Answer, Give(a) PROVE SentWasHeard' /\ SettlingWasHeard'
  <2>1. mark' = [mark EXCEPT ![a] = "queued"] /\ settling' = settling /\ reached' = reached
    BY <1>2 DEF Give, loopVars
  <2> QED BY <1>0, <2>1 DEF SentWasHeard, SettlingWasHeard
<1>3. ASSUME NEW t \in Turn, Hears(t) PROVE SentWasHeard' /\ SettlingWasHeard'
  <2>1. mark' = mark
    BY <1>3 DEF Hears, diskVars
  <2>2. reached' = [a \in Answer |->
          IF a \in ToSet(turn[t].text) /\ reached[a] < 2 THEN reached[a] + 1 ELSE reached[a]]
    BY <1>3 DEF Hears
  <2>3. \A a \in Answer : /\ reached[a] > 0 => reached'[a] > 0
                          /\ a \in ToSet(turn[t].text) => reached'[a] > 0
    BY <1>0, <2>2
  <2>4. SentWasHeard'
    BY <1>0, <2>1, <2>3 DEF SentWasHeard
  <2>5. CASE t \in ToSet(carrying)
    <3>1. settling' = turn[t].text /\ turn[t].text \in Seq(Answer)
      BY <1>3, <2>5 DEF Hears, IInv, TypeOK, TurnRecord
    <3> QED BY <2>3, <2>4, <3>1, ToSetInSet DEF SettlingWasHeard
  <2>6. CASE t \notin ToSet(carrying)
    <3>1. settling' = settling
      BY <1>3, <2>6 DEF Hears
    <3> QED BY <1>0, <2>3, <2>4, <3>1, ToSetInSet DEF SettlingWasHeard
  <2> QED BY <2>5, <2>6
<1>4. CASE SettleNext
  <2>1. /\ mark' = [mark EXCEPT ![Head(settling)] = "sent"]
        /\ settling' = Tail(settling) /\ reached' = reached /\ settling # <<>>
    BY <1>4 DEF SettleNext
  <2>2. /\ Head(settling) \in Answer /\ Head(settling) \in ToSet(settling)
        /\ ToSet(settling') \subseteq ToSet(settling)
    BY <1>0, <2>1, TailQueue
  <2> QED BY <1>0, <2>1, <2>2 DEF SentWasHeard, SettlingWasHeard
<1>5. CASE Restart
  <2>1. settling' = <<>> /\ mark' = mark /\ reached' = reached
    BY <1>5 DEF Restart
  <2> QED BY <1>0, <2>1, EmptyQueue DEF SentWasHeard, SettlingWasHeard
<1>6. ASSUME NEW t \in Turn, TurnStep(t) PROVE SentWasHeard' /\ SettlingWasHeard'
  <2>1. CASE Hears(t)
    BY <1>3, <2>1
  <2>2. CASE ~Hears(t)
    <3>1. UNCHANGED <<mark, settling, reached>>
      BY <1>6, <2>2 DEF TurnStep, PostClaims, PersonPosts, MachinePosts, ResumePosts,
         StartTurn, RefuseTurn, WokenTurn, EndTurn, EndShadowed, Forget, Reattach,
         relayVars, loopVars, routeVars, diskVars
    <3> QED BY <1>1, <3>1
  <2> QED BY <2>1, <2>2
<1>7. CASE \/ TickFires \/ WaitElapses \/ TimerFires \/ ReleaseHold \/ PostRefused
           \/ CliOpens \/ CliCloses \/ ReleaseBootHold \/ GiveBackNext \/ LoadNext
           \/ UNCHANGED vars
  <2>1. UNCHANGED <<mark, settling, reached>>
    BY <1>7 DEF TickFires, WaitElapses, TimerFires, ReleaseHold, PostRefused, CliOpens,
        CliCloses, ReleaseBootHold, GiveBackNext, LoadNext, vars, relayVars, loopVars,
        routeVars, diskVars
  <2> QED BY <1>1, <2>1
<1> QED BY <1>2, <1>4, <1>5, <1>6, <1>7 DEF Next

-----------------------------------------------------------------------------
(* The theorems *)

\* The inductive invariant is preserved by every step.
LEMMA NextIInv ==
  ASSUME IInv, [Next]_vars
  PROVE  IInv'
  BY NextType, NextPlaces, NextHeard DEF IInv, Places

LEMMA SpecIInv == Spec => []IInv
<1>1. Init => IInv
  BY InitIInv
<1>2. IInv /\ [Next]_vars => IInv'
  BY NextIInv
<1> QED BY <1>1, <1>2, PTL DEF Spec

(* Every variable keeps the shape the code gives it. *)
THEOREM TypeCorrect == Spec => []TypeOK
<1>1. IInv => TypeOK
  BY DEF IInv
<1> QED BY <1>1, SpecIInv, PTL

(* No answer is ever lost: whatever refuses, fails, shadows or restarts, the     *)
(* rows that say queued, the index of owed answers and what the relay holds are  *)
(* the same answers (queue, carries, settle and boot of answer-relay.ts).  And   *)
(* none is in two places at once, so no two turns carry it.                      *)
THEOREM EveryAnswerIsOwedOnce == Spec => []OwedOnce
<1>1. IInv => OwedOnce
  BY DEF IInv, OwedOnce
<1> QED BY <1>1, SpecIInv, PTL

(* A row says sent only if the model has heard a turn that carries its answer.   *)
THEOREM SentMeansHeard == Spec => []SentWasHeard
<1>1. IInv => SentWasHeard
  BY DEF IInv
<1> QED BY <1>1, SpecIInv, PTL

-----------------------------------------------------------------------------
(* The order of the answers, when no checkpoint is taken                    *)
(*                                                                          *)
(* Between the gate and startStream the route then awaits nothing: at most  *)
(* one turn carries answers, and whatever a carry gives back was given      *)
(* before everything that waits.                                            *)

\* The answers in the order they were given.
Earlier == {p \in Answer \X Answer :
              \E i, j \in 1 .. Len(given) : i < j /\ p[1] = given[i] /\ p[2] = given[j]}

Heard == {a \in Answer : reached[a] > 0}

\* The answers given before one of S are in S, or the model has heard them.
Closed(S) ==
  /\ S \subseteq ToSet(given)
  /\ \A a \in S, b \in Answer : <<b, a>> \in Earlier => b \in S \cup Heard

\* If a is one of S, it is the oldest of S.
Leads(a, S) == a \in S => \A x \in S : x = a \/ <<a, x>> \in Earlier

\* An answer is given once, and it is given if its row says so.
GivenIsMarked ==
  /\ IsInjective(given)
  /\ ToSet(given) = {a \in Answer : mark[a] # "none"}

\* Answers are carried only while their turn is in the route, live, or returning them.
CarryIsBusy ==
  \A t \in ToSet(carrying) :
    turn[t].st = "accepted" \/ t \in returning \/ streams # <<>>

\* One turn at most carries answers, and none does while others are settled or loaded.
OneCarry ==
  /\ \A t, u \in ToSet(carrying) : t = u
  /\ carrying # <<>> => settling = <<>>
  /\ loading # {} => carrying = <<>> /\ settling = <<>> /\ posting = NoPost

\* Each of the places keeps the order, and so does the way from one to the next.
PlacesInOrder ==
  /\ OrderedBy(owed, Earlier) /\ OrderedBy(settling, Earlier)
  /\ \A t \in ToSet(carrying) : OrderedBy(turn[t].text, Earlier)
  /\ \A x \in Carried \cup ToSet(settling), y \in ToSet(owed) : <<x, y>> \in Earlier
  /\ \A x \in ToSet(owed), y \in loading : <<x, y>> \in Earlier

\* The answer being posted is the oldest one where it is.
PostingIsOldest ==
  /\ posting # NoPost => mark[posting] # "none"
  /\ posting \in ToSet(owed) => carrying = <<>>
  /\ Leads(posting, ToSet(owed))
  /\ \A t \in ToSet(carrying) : Leads(posting, ToSet(turn[t].text))

\* What a turn says of the answers leaves out none that the model still misses.
TextsAreClosed ==
  /\ Closed(Heard)
  /\ \A t \in Turn : Closed(ToSet(turn[t].text))
  /\ cut # NoCut => Closed(ToSet(cut.text))

\* A message carries what it must not overtake, unless the sweep sends it again.
BehindIsCarried ==
  \A t \in Turn : turn[t].by # "resume" =>
    turn[t].behind \subseteq ToSet(turn[t].text) \cup Heard

\* The inductive invariant of the order, next to IInv.
OInv ==
  /\ GivenIsMarked
  /\ CarryIsBusy /\ OneCarry
  /\ PlacesInOrder /\ PostingIsOldest
  /\ TextsAreClosed /\ BehindIsCarried

\* A pair is in the order when its two answers were given one after the other.
LEMMA EarlierMeans ==
  ASSUME TypeOK
  PROVE  \A a, b : <<a, b>> \in Earlier <=>
           \E i, j \in 1 .. Len(given) : i < j /\ a = given[i] /\ b = given[j]
<1>1. \A i \in 1 .. Len(given) : given[i] \in Answer
  BY ToSetInSet DEF TypeOK
<1> QED BY <1>1 DEF Earlier

\* The order is total on the answers given, and nothing comes before itself.
LEMMA EarlierIsOrder ==
  ASSUME TypeOK, GivenIsMarked
  PROVE  /\ \A a, b : <<a, b>> \in Earlier =>
              a # b /\ <<b, a>> \notin Earlier /\ {a, b} \subseteq ToSet(given)
         /\ \A a, b \in ToSet(given) : a = b \/ <<a, b>> \in Earlier \/ <<b, a>> \in Earlier
<1>1. \A i, j \in 1 .. Len(given) : given[i] = given[j] => i = j
  BY InjectiveOnPositions DEF TypeOK, GivenIsMarked
<1>2. Len(given) \in Nat
  BY LenProperties DEF TypeOK
<1>3. ASSUME NEW a, NEW b, <<a, b>> \in Earlier
      PROVE  a # b /\ <<b, a>> \notin Earlier /\ {a, b} \subseteq ToSet(given)
  <2>1. PICK i \in 1 .. Len(given), j \in 1 .. Len(given) : i < j /\ a = given[i] /\ b = given[j]
    BY <1>3, EarlierMeans
  <2>2. a # b /\ {a, b} \subseteq ToSet(given)
    BY <1>1, <1>2, <2>1, ToSetInSet DEF TypeOK
  <2>3. ASSUME <<b, a>> \in Earlier PROVE FALSE
    <3>1. PICK k \in 1 .. Len(given), l \in 1 .. Len(given) : k < l /\ b = given[k] /\ a = given[l]
      BY <2>3, EarlierMeans
    <3>2. k = j /\ l = i
      BY <1>1, <2>1, <3>1
    <3> QED BY <1>2, <2>1, <3>1, <3>2
  <2> QED BY <2>2, <2>3
<1>4. ASSUME NEW a \in ToSet(given), NEW b \in ToSet(given)
      PROVE  a = b \/ <<a, b>> \in Earlier \/ <<b, a>> \in Earlier
  <2>0. \A x \in ToSet(given) : \E i \in 1 .. Len(given) : given[i] = x
    BY ToSetInSet DEF TypeOK
  <2>1. PICK i \in 1 .. Len(given), j \in 1 .. Len(given) : a = given[i] /\ b = given[j]
    BY <2>0
  <2>2. i < j \/ j < i \/ i = j
    BY <1>2
  <2> QED BY <2>1, <2>2, EarlierMeans
<1> QED BY <1>3, <1>4

\* An answer that is given comes after all the others, and their order stays.
LEMMA EarlierGrows ==
  ASSUME TypeOK, NEW a \in Answer, given' = Append(given, a)
  PROVE  /\ ToSet(given') = ToSet(given) \cup {a}
         /\ \A x, y : <<x, y>> \in Earlier' <=>
              <<x, y>> \in Earlier \/ (x \in ToSet(given) /\ y = a)
<1>1. /\ given' \in Seq(Answer) /\ Len(given) \in Nat /\ Len(given') = Len(given) + 1
      /\ \A i \in 1 .. Len(given) : given'[i] = given[i]
      /\ given'[Len(given) + 1] = a
  BY AppendProperties DEF TypeOK
<1>2. \A i \in 1 .. Len(given') : given'[i] \in Answer
  BY <1>1, ToSetInSet
<1>3. \A x, y : <<x, y>> \in Earlier' <=>
        \E i, j \in 1 .. Len(given') : i < j /\ x = given'[i] /\ y = given'[j]
  BY <1>2 DEF Earlier
<1>4. ToSet(given') = ToSet(given) \cup {a}
  BY AppendQueue DEF TypeOK
<1>5. ASSUME NEW x, NEW y, <<x, y>> \in Earlier'
      PROVE  <<x, y>> \in Earlier \/ (x \in ToSet(given) /\ y = a)
  <2>1. PICK i \in 1 .. Len(given'), j \in 1 .. Len(given') : i < j /\ x = given'[i] /\ y = given'[j]
    BY <1>3, <1>5
  <2>2. i \in 1 .. Len(given) /\ x = given[i] /\ x \in ToSet(given)
    BY <1>1, <2>1, ToSetInSet DEF TypeOK
  <2>3. CASE j \in 1 .. Len(given)
    BY <1>1, <2>1, <2>2, <2>3, EarlierMeans
  <2>4. CASE j = Len(given) + 1
    BY <1>1, <2>1, <2>2, <2>4
  <2> QED BY <1>1, <2>3, <2>4
<1>6. ASSUME NEW x, NEW y, <<x, y>> \in Earlier PROVE <<x, y>> \in Earlier'
  <2>1. PICK i \in 1 .. Len(given), j \in 1 .. Len(given) : i < j /\ x = given[i] /\ y = given[j]
    BY <1>6, EarlierMeans
  <2> QED BY <1>1, <1>3, <2>1
<1>7. ASSUME NEW x \in ToSet(given) PROVE <<x, a>> \in Earlier'
  <2>1. PICK i \in 1 .. Len(given) : x = given[i]
    BY <1>7, ToSetInSet DEF TypeOK
  <2>2. i < Len(given) + 1 /\ i \in 1 .. Len(given') /\ Len(given) + 1 \in 1 .. Len(given')
    BY <1>1
  <2> QED BY <1>1, <1>3, <2>1, <2>2
<1> QED BY <1>4, <1>5, <1>6, <1>7

\* The order is the same after a step that gives no answer.
LEMMA EarlierStays ==
  ASSUME given' = given
  PROVE  Earlier' = Earlier
  BY DEF Earlier

-----------------------------------------------------------------------------
(* One carry at a time *)

\* In a free session the relay holds nothing but its queue.
LEMMA FreeSession ==
  ASSUME IInv, OInv, ~Checkpoints, RunToCompletion, streams = <<>>
  PROVE  /\ carrying = <<>> /\ ToSet(carrying) = {} /\ Carried = {}
         /\ settling = <<>> /\ ToSet(settling) = {} /\ loading = {}
         /\ ToSet(owed) = index
<1>1. settling = <<>> /\ loading = {} /\ ToSet(settling) = {}
  BY EmptyQueue DEF RunToCompletion
<1>2. ToSet(carrying) = {}
  <2>1. \A t \in ToSet(carrying) : t \in Turn
    BY ToSetInSet DEF IInv, TypeOK
  <2> QED BY <2>1 DEF OInv, CarryIsBusy, RunToCompletion
<1>3. carrying = <<>> /\ Carried = {}
  BY <1>2, NonEmptyQueue DEF IInv, TypeOK, Carried
<1>4. ToSet(owed) = index
  BY <1>1, <1>3 DEF IInv, OwedIsSomewhere, InMemory
<1> QED BY <1>1, <1>2, <1>3, <1>4

\* With one carry, the turn that leaves it leaves none.
LEMMA LastCarryLeaves ==
  ASSUME IInv, OInv, NEW i \in 1 .. Len(carrying), carrying' = RemoveAt(carrying, i),
         \A u \in ToSet(carrying) \ {carrying[i]} : turn'[u] = turn[u]
  PROVE  /\ carrying[i] \in ToSet(carrying)
         /\ carrying' = <<>> /\ ToSet(carrying') = {} /\ Carried' = {}
         /\ Carried = ToSet(turn[carrying[i]].text)
         /\ settling = <<>> /\ loading = {}
<1>1. carrying[i] \in ToSet(carrying) /\ ToSet(carrying') = ToSet(carrying) \ {carrying[i]}
      /\ Carried = Carried' \cup ToSet(turn[carrying[i]].text)
  BY CarryLeaves
<1>2. ToSet(carrying') = {}
  BY <1>1 DEF OInv, OneCarry
<1>3. carrying' \in Seq(Turn)
  BY RemoveAtQueue DEF IInv, TypeOK
<1>4. carrying' = <<>> /\ Carried' = {}
  BY <1>2, <1>3, NonEmptyQueue DEF Carried
<1>5. carrying # <<>>
  BY <1>1, EmptyQueue
<1>6. settling = <<>> /\ loading = {}
  BY <1>5 DEF OInv, OneCarry
<1> QED BY <1>1, <1>2, <1>4, <1>6

\* A turn that gives its carry back, or is heard on it, is the only one.
LEMMA CarryOut ==
  ASSUME IInv, OInv,
         \/ GiveBackNext
         \/ \E t \in ToSet(carrying) : RefuseTurn(t) \/ Hears(t)
  PROVE  \E t \in ToSet(carrying) :
           /\ t \in Turn
           /\ Carried = ToSet(turn[t].text) /\ settling = <<>> /\ loading = {}
           /\ carrying' = <<>> /\ ToSet(carrying') = {} /\ Carried' = {}
           /\ GiveBackNext \/ RefuseTurn(t) \/ Hears(t)
           /\ GiveBackNext \/ RefuseTurn(t) => owed' = turn[t].text \o owed
<1>1. CASE GiveBackNext
  <2>1. PICK i \in DOMAIN carrying :
          /\ carrying' = RemoveAt(carrying, i)
          /\ owed' = Missing(turn[carrying[i]].text, owed) \o owed
    BY <1>1 DEF GiveBackNext
  <2>2. i \in 1 .. Len(carrying)
    BY <2>1, LenProperties DEF IInv, TypeOK
  <2>3. \A u \in ToSet(carrying) \ {carrying[i]} : turn'[u] = turn[u]
    BY <1>1 DEF GiveBackNext, routeVars
  <2>4. /\ carrying[i] \in ToSet(carrying)
        /\ carrying' = <<>> /\ ToSet(carrying') = {} /\ Carried' = {}
        /\ Carried = ToSet(turn[carrying[i]].text)
        /\ settling = <<>> /\ loading = {}
    BY <2>1, <2>2, <2>3, LastCarryLeaves
  <2>5. carrying[i] \in Turn /\ Missing(turn[carrying[i]].text, owed) = turn[carrying[i]].text
    BY <2>4, GivenBackType
  <2> QED BY <1>1, <2>1, <2>4, <2>5
<1>2. ASSUME NEW t \in ToSet(carrying), RefuseTurn(t) \/ Hears(t)
      PROVE  /\ t \in Turn
             /\ Carried = ToSet(turn[t].text) /\ settling = <<>> /\ loading = {}
             /\ carrying' = <<>> /\ ToSet(carrying') = {} /\ Carried' = {}
             /\ RefuseTurn(t) => owed' = turn[t].text \o owed
  <2>1. Position(carrying, t) \in 1 .. Len(carrying) /\ carrying[Position(carrying, t)] = t
    BY PositionIsOne DEF IInv, TypeOK
  <2>2. t \in Turn /\ Missing(turn[t].text, owed) = turn[t].text
    BY GivenBackType
  <2>3. carrying' = RemoveAt(carrying, Position(carrying, t))
        /\ \A u \in ToSet(carrying) \ {t} : turn'[u] = turn[u]
    BY <1>2, <2>2, ToSetInSet DEF RefuseTurn, Hears, IInv, TypeOK
  <2>4. RefuseTurn(t) => owed' = turn[t].text \o owed
    BY <2>2 DEF RefuseTurn
  <2> QED BY <2>1, <2>2, <2>3, <2>4, LastCarryLeaves
<1>3. CASE ~GiveBackNext
  <2>1. PICK t \in ToSet(carrying) : RefuseTurn(t) \/ Hears(t)
    BY <1>3
  <2> QED BY <1>3, <1>2, <2>1
<1> QED BY <1>1, <1>3

\* A message that takes answers finds no other carry.
LEMMA CarryIn ==
  ASSUME IInv, OInv, ~Checkpoints, NEW t \in Turn,
         PostClaims(t) \/ (PersonPosts(t) /\ owed # <<>>)
  PROVE  /\ carrying = <<>> /\ ToSet(carrying) = {} /\ Carried = {}
         /\ settling = <<>> /\ ToSet(settling) = {} /\ loading = {} /\ ToSet(owed) = index
         /\ settling' = <<>> /\ loading' = {}
         /\ carrying' = <<t>> /\ ToSet(carrying') = {t}
         /\ Carried' = ToSet(turn'[t].text)
         /\ turn'[t].st = "accepted"
<1>1. /\ carrying = <<>> /\ ToSet(carrying) = {} /\ Carried = {}
      /\ settling = <<>> /\ ToSet(settling) = {} /\ loading = {} /\ ToSet(owed) = index
  BY FreeSession DEF PostClaims, PersonPosts, GateOpen
<1>2. carrying' = <<t>> /\ settling' = <<>> /\ loading' = {} /\ turn'[t].st = "accepted"
  BY <1>1 DEF PostClaims, PersonPosts, loopVars, IInv, TypeOK, NewTurn
<1>3. ToSet(carrying') = {t} /\ Carried' = ToSet(turn'[t].text)
  BY <1>2, SingleQueue DEF Carried
<1> QED BY <1>1, <1>2, <1>3

LEMMA NextCarry ==
  ASSUME IInv, OInv, ~Checkpoints, [Next]_vars
  PROVE  CarryIsBusy' /\ OneCarry'
<1> USE DEF CarryIsBusy, OneCarry
<1>0. /\ CarryIsBusy /\ OneCarry /\ turn \in [Turn -> TurnRecord] /\ streams \in Seq(Turn)
      /\ \A u \in ToSet(carrying) : u \in Turn
  BY ToSetInSet DEF OInv, IInv, TypeOK
<1>1. ASSUME UNCHANGED <<carrying, settling, loading, turn, streams, returning>>,
             loading # {} => posting' = posting
      PROVE  CarryIsBusy' /\ OneCarry'
  BY <1>0, <1>1
<1>2. CASE \/ \E a \in Answer : Give(a)
           \/ TickFires \/ WaitElapses \/ TimerFires \/ ReleaseHold \/ PostRefused
           \/ CliOpens \/ CliCloses \/ ReleaseBootHold \/ UNCHANGED vars
  <2>1. UNCHANGED <<carrying, settling, loading, turn, streams, returning>>
        /\ (loading # {} => posting' = posting)
    BY <1>2 DEF Give, TickFires, WaitElapses, TimerFires, ReleaseHold, PostRefused,
        CliOpens, CliCloses, ReleaseBootHold, vars, relayVars, loopVars, routeVars,
        diskVars, RunToCompletion
  <2> QED BY <1>1, <2>1
<1>3. ASSUME NEW t \in Turn, TurnStep(t) PROVE CarryIsBusy' /\ OneCarry'
  <2>1. CASE PostClaims(t) \/ (PersonPosts(t) /\ owed # <<>>)
    <3>1. /\ settling' = <<>> /\ loading' = {} /\ ToSet(carrying') = {t}
          /\ turn'[t].st = "accepted"
      BY <2>1, CarryIn, ZenonT(20)
    <3> QED BY <3>1
  <2>2. CASE t \in ToSet(carrying) /\ (RefuseTurn(t) \/ Hears(t))
    <3>1. ToSet(carrying') = {} /\ carrying' = <<>> /\ loading = {}
      BY <2>2, CarryOut
    <3>2. loading' = loading
      BY <2>2 DEF RefuseTurn, Hears, loopVars
    <3> QED BY <3>1, <3>2
  <2>3. CASE \/ (PersonPosts(t) /\ owed = <<>>) \/ MachinePosts(t) \/ ResumePosts(t)
             \/ WokenTurn(t) \/ Reattach(t)
    <3>1. t \notin ToSet(carrying)
      BY <2>3, FreeCarriesNothing
          DEF PersonPosts, MachinePosts, ResumePosts, WokenTurn, Reattach
    <3>2. /\ UNCHANGED <<carrying, settling, loading, returning, posting>>
          /\ \A u \in Turn : u # t => turn'[u] = turn[u]
          /\ streams' = streams \/ streams' = <<t>> \o streams
      BY <1>0, <2>3 DEF PersonPosts, MachinePosts, ResumePosts, WokenTurn, Reattach,
          relayVars, loopVars
    <3>3. streams' = <<>> => streams = <<>>
      BY <1>0, <3>2, SingleQueue, ConcatQueue
    <3> QED BY <1>0, <3>1, <3>2, <3>3
  <2>4. CASE StartTurn(t)
    <3>1. /\ UNCHANGED <<carrying, settling, loading, returning>>
          /\ streams' = <<t>> \o streams /\ loading = {}
      BY <2>4 DEF StartTurn, loopVars
    <3>2. streams' # <<>>
      BY <1>0, <3>1
    <3> QED BY <1>0, <3>1, <3>2
  <2>5. CASE t \notin ToSet(carrying) /\ (RefuseTurn(t) \/ Hears(t) \/ Forget(t))
    <3>1. /\ UNCHANGED <<carrying, settling, loading, returning, streams>> /\ loading = {}
          /\ \A u \in Turn : u # t => turn'[u] = turn[u]
      BY <1>0, <2>5 DEF RefuseTurn, Hears, Forget, relayVars, loopVars, RunToCompletion
    <3> QED BY <1>0, <2>5, <3>1
  <2>6. CASE EndTurn(t)
    <3>1. /\ UNCHANGED <<carrying, settling, loading>> /\ loading = {}
          /\ returning' = {c \in ToSet(carrying) : Started(c)}
      BY <2>6 DEF EndTurn, RunToCompletion
    <3>2. \A c \in ToSet(carrying) : Started(c)
      BY <1>0, <2>6 DEF EndTurn, RunToCompletion, Started
    <3> QED BY <1>0, <3>1, <3>2
  <2>7. CASE EndShadowed(t)
    <3>1. /\ UNCHANGED <<carrying, settling, loading, posting>>
          /\ streams' = <<Head(streams)>>
      BY <2>7 DEF EndShadowed, relayVars, loopVars
    <3>2. streams' # <<>>
      BY <3>1
    <3> QED BY <1>0, <3>1, <3>2
  <2>8. Forget(t) => t \notin ToSet(carrying)
    BY DEF Forget
  <2> QED BY <1>3, <2>1, <2>2, <2>3, <2>4, <2>5, <2>6, <2>7, <2>8 DEF TurnStep
<1>4. CASE SettleNext
  BY <1>0, <1>4, EmptyQueue DEF SettleNext, relayVars, routeVars
<1>5. CASE GiveBackNext
  <2>1. ToSet(carrying') = {} /\ carrying' = <<>> /\ loading = {}
    BY <1>5, CarryOut
  <2>2. loading' = loading
    BY <1>5 DEF GiveBackNext
  <2> QED BY <2>1, <2>2
<1>6. CASE LoadNext
  <2>1. carrying' = carrying /\ settling' = settling /\ posting' = posting /\ loading # {}
    BY <1>6 DEF LoadNext
  <2> QED BY <1>0, <2>1, EmptyQueue
<1>7. CASE Restart
  BY <1>7, EmptyQueue DEF Restart
<1> QED BY <1>2, <1>3, <1>4, <1>5, <1>6, <1>7 DEF Next

-----------------------------------------------------------------------------
(* The order of the places *)

\* What pump posts is the oldest answer of its queue.
LEMMA PumpPosts ==
  ASSUME NEW q \in Seq(Answer), NEW isHeld, Pump(q, isHeld)
  PROVE  \/ posting' = posting
         \/ q # <<>> /\ streams = <<>> /\ posting' = Head(q)
  BY DEF Pump

LEMMA HeadLeads ==
  ASSUME NEW q \in Seq(Answer), q # <<>>, OrderedBy(q, Earlier)
  PROVE  Leads(Head(q), ToSet(q))
  BY TailOrdered DEF Leads

\* No answer moves, and the relay posts the oldest one of its queue, or nothing new.
LEMMA QuietOrder ==
  ASSUME IInv, OInv, ~Checkpoints, NothingMoves, given' = given,
         \/ posting' \in {posting, NoPost}
         \/ /\ RunToCompletion /\ streams = <<>>
            /\ owed # <<>> /\ posting' = Head(owed)
  PROVE  PlacesInOrder' /\ PostingIsOldest'
<1>1. Earlier' = Earlier
  BY EarlierStays
<1>2. /\ UNCHANGED <<owed, carrying, settling, loading, mark>> /\ Carried' = Carried
      /\ \A t \in ToSet(carrying) : turn'[t].text = turn[t].text
  BY DEF NothingMoves, Carried
<1>3. PlacesInOrder'
  BY <1>1, <1>2 DEF OInv, PlacesInOrder
<1>4. NoPost \notin Answer /\ ToSet(owed) \subseteq Answer
      /\ \A t \in ToSet(carrying) : ToSet(turn[t].text) \subseteq Answer
  BY DistinctNames, ToSetInSet DEF IInv, TypeOK, TurnRecord
<1>5. CASE posting' \in {posting, NoPost}
  BY <1>1, <1>2, <1>3, <1>4, <1>5 DEF OInv, PostingIsOldest, Leads
<1>6. CASE RunToCompletion /\ streams = <<>> /\ owed # <<>> /\ posting' = Head(owed)
  <2>1. carrying = <<>> /\ ToSet(carrying) = {} /\ ToSet(owed) = index
    BY <1>6, FreeSession
  <2>2. Leads(posting', ToSet(owed))
    BY <1>6, HeadLeads DEF IInv, TypeOK, OInv, PlacesInOrder
  <2>3. mark[posting'] # "none"
    BY <1>6, <2>1, TailQueue DEF IInv, TypeOK, OwedIsSomewhere
  <2> QED BY <1>1, <1>2, <1>3, <2>1, <2>2, <2>3 DEF PostingIsOldest, Leads
<1> QED BY <1>5, <1>6

LEMMA GiveOrder ==
  ASSUME IInv, OInv, ~Checkpoints, NEW a \in Answer, Give(a)
  PROVE  PlacesInOrder' /\ PostingIsOldest'
<1>1. /\ given' = Append(given, a) /\ a \notin ToSet(given)
      /\ settling = <<>> /\ loading = {} /\ ToSet(settling) = {}
      /\ UNCHANGED <<carrying, settling, loading, turn>>
      /\ mark' = [mark EXCEPT ![a] = "queued"] /\ mark[a] = "none"
  BY EmptyQueue DEF Give, RunToCompletion, loopVars, routeVars, OInv, GivenIsMarked
<1>2. /\ ToSet(given') = ToSet(given) \cup {a}
      /\ \A x, y : <<x, y>> \in Earlier' <=>
           <<x, y>> \in Earlier \/ (x \in ToSet(given) /\ y = a)
  BY <1>1, EarlierGrows DEF IInv
<1>3. index \subseteq ToSet(given) /\ InMemory = index
  BY DEF IInv, OwedIsSomewhere, OInv, GivenIsMarked
<1>4. a \notin ToSet(owed) \cup Carried /\ owed' = Append(owed, a) /\ owed' \in Seq(Answer)
      /\ ToSet(owed') = ToSet(owed) \cup {a}
  <2>1. a \notin ToSet(owed) \cup Carried
    BY <1>1, <1>3 DEF InMemory
  <2> QED BY <2>1, AppendQueue DEF Give, Enqueued, IInv, TypeOK
<1>5. \A x, y : <<x, y>> \in Earlier => <<x, y>> \in Earlier'
  BY <1>2
<1>6. \A x \in Carried \cup ToSet(owed) : <<x, a>> \in Earlier'
  BY <1>2, <1>3 DEF InMemory
<1>7. Carried' = Carried
  BY <1>1 DEF Carried
<1>8. OrderedBy(owed', Earlier')
  <2>1. OrderedBy(owed, Earlier')
    BY <1>5, WiderOrder DEF IInv, TypeOK, OInv, PlacesInOrder
  <2> QED BY <1>4, <1>6, <2>1, AppendOrdered DEF IInv, TypeOK
<1>9. \A t \in ToSet(carrying) : OrderedBy(turn[t].text, Earlier')
  <2>1. \A t \in ToSet(carrying) : turn[t].text \in Seq(Answer)
    BY ToSetInSet DEF IInv, TypeOK, TurnRecord
  <2> QED BY <1>5, <2>1, WiderOrder DEF OInv, PlacesInOrder
<1>10. \A x \in Carried, y \in ToSet(owed') : <<x, y>> \in Earlier'
  BY <1>4, <1>5, <1>6 DEF OInv, PlacesInOrder
<1>11. PlacesInOrder'
  BY <1>1, <1>7, <1>8, <1>9, <1>10, ShortIsOrdered DEF PlacesInOrder
<1>12. \A t \in ToSet(carrying) : posting \in ToSet(turn[t].text) =>
         \A x \in ToSet(turn[t].text) : x = posting \/ <<posting, x>> \in Earlier'
  BY <1>1, <1>5 DEF OInv, PostingIsOldest, Leads
<1>13. CASE posting' = posting
  <2>1. posting # NoPost => posting # a
    BY <1>1 DEF OInv, PostingIsOldest
  <2>2. posting # NoPost => mark'[posting] # "none"
    BY <1>1, <2>1 DEF OInv, PostingIsOldest, IInv, TypeOK
  <2>3. posting \in ToSet(owed') => posting \in ToSet(owed)
    BY <1>4, <2>1, DistinctNames
  <2>4. posting \in ToSet(owed') =>
          \A x \in ToSet(owed') : x = posting \/ <<posting, x>> \in Earlier'
    BY <1>4, <1>5, <1>6, <2>3 DEF OInv, PostingIsOldest, Leads
  <2> QED BY <1>1, <1>11, <1>12, <1>13, <2>2, <2>3, <2>4 DEF OInv, PostingIsOldest, Leads
<1>14. CASE streams = <<>> /\ owed' # <<>> /\ posting' = Head(owed')
  <2>1. carrying = <<>> /\ ToSet(carrying) = {} /\ carrying' = carrying
    BY <1>1, <1>14, FreeSession DEF Give
  <2>2. posting' \in ToSet(owed')
    BY <1>4, <1>14, TailQueue
  <2>3. \A x \in ToSet(owed') : x = posting' \/ <<posting', x>> \in Earlier'
    BY <1>4, <1>8, <1>14, TailOrdered
  <2>4. mark'[posting'] # "none"
    BY <1>1, <1>3, <1>4, <2>2 DEF InMemory, IInv, TypeOK, OwedIsSomewhere
  <2> QED BY <1>11, <2>1, <2>3, <2>4 DEF PostingIsOldest, Leads
<1>15. posting' = posting \/ (owed' # <<>> /\ streams = <<>> /\ posting' = Head(owed'))
  BY <1>4 DEF Give, Pump
<1> QED BY <1>13, <1>14, <1>15

LEMMA TakeOrder ==
  ASSUME IInv, OInv, ~Checkpoints, NEW t \in Turn,
         PostClaims(t) \/ (PersonPosts(t) /\ owed # <<>>)
  PROVE  PlacesInOrder' /\ PostingIsOldest'
<1>1. /\ settling' = <<>> /\ loading' = {} /\ carrying = <<>>
      /\ ToSet(carrying') = {t} /\ Carried' = ToSet(turn'[t].text)
      /\ ToSet(settling') = {}
  BY CarryIn, EmptyQueue, ZenonT(30)
<1>2. Earlier' = Earlier /\ posting' = posting /\ mark' = mark
  BY EarlierStays DEF PostClaims, PersonPosts
<1>3. owed \in Seq(Answer) /\ OrderedBy(owed, Earlier) /\ Leads(posting, ToSet(owed))
      /\ IsInjective(owed) /\ (posting # NoPost => mark[posting] # "none")
  BY DEF IInv, TypeOK, OnePlace, OInv, PlacesInOrder, PostingIsOldest
<1>4. CASE PostClaims(t)
  <2>1. turn'[t].text = <<posting>> /\ posting \in ToSet(owed)
        /\ owed' = RemoveAt(owed, Position(owed, posting))
    BY <1>4 DEF PostClaims, NewTurn, IInv, TypeOK
  <2>2. Position(owed, posting) \in 1 .. Len(owed) /\ owed[Position(owed, posting)] = posting
    BY <1>3, <2>1, PositionIsOne
  <2>3. OrderedBy(owed', Earlier) /\ ToSet(owed') = ToSet(owed) \ {posting}
    BY <1>3, <2>1, <2>2, RemoveAtOrdered, RemoveAtQueue
  <2>4. ToSet(turn'[t].text) = {posting} /\ OrderedBy(turn'[t].text, Earlier)
    BY <2>1, SingleQueue, ShortIsOrdered
  <2>5. \A x \in ToSet(turn'[t].text), y \in ToSet(owed') : <<x, y>> \in Earlier
    BY <1>3, <2>1, <2>3, <2>4 DEF Leads
  <2>6. PlacesInOrder'
    BY <1>1, <1>2, <2>3, <2>4, <2>5, ShortIsOrdered DEF PlacesInOrder
  <2> QED BY <1>1, <1>2, <1>3, <2>3, <2>4, <2>6 DEF PostingIsOldest, Leads
<1>5. CASE PersonPosts(t) /\ owed # <<>>
  <2>1. turn'[t].text = owed /\ owed' = <<>> /\ ToSet(owed') = {}
    BY <1>5, EmptyQueue DEF PersonPosts, NewTurn, IInv, TypeOK
  <2>2. PlacesInOrder'
    BY <1>1, <1>2, <1>3, <2>1, ShortIsOrdered DEF PlacesInOrder
  <2> QED BY <1>1, <1>2, <1>3, <2>1, <2>2 DEF PostingIsOldest, Leads
<1> QED BY <1>4, <1>5

LEMMA GiveBackOrder ==
  ASSUME IInv, OInv, GiveBackNext \/ \E t \in ToSet(carrying) : RefuseTurn(t)
  PROVE  PlacesInOrder' /\ PostingIsOldest'
<1>1. PICK t \in ToSet(carrying) :
        /\ t \in Turn
        /\ Carried = ToSet(turn[t].text) /\ settling = <<>> /\ loading = {}
        /\ carrying' = <<>> /\ ToSet(carrying') = {} /\ Carried' = {}
        /\ owed' = turn[t].text \o owed
        /\ GiveBackNext \/ RefuseTurn(t)
  <2>1. CASE GiveBackNext
    BY <2>1, CarryOut
  <2>2. ASSUME NEW t \in ToSet(carrying), RefuseTurn(t), ~GiveBackNext
        PROVE  /\ t \in Turn
               /\ Carried = ToSet(turn[t].text) /\ settling = <<>> /\ loading = {}
               /\ carrying' = <<>> /\ ToSet(carrying') = {} /\ Carried' = {}
               /\ owed' = turn[t].text \o owed
    <3>1. /\ settling = <<>> /\ loading = {}
          /\ carrying' = <<>> /\ ToSet(carrying') = {} /\ Carried' = {}
      BY <2>2, CarryOut
    <3>2. t \in Turn /\ owed' = turn[t].text \o owed
      BY <2>2, GivenBackType DEF RefuseTurn
    <3>3. Carried = ToSet(turn[t].text)
      BY DEF Carried, OInv, OneCarry
    <3> QED BY <3>1, <3>2, <3>3
  <2> QED BY <2>1, <2>2
<1>2. /\ settling' = settling /\ loading' = loading /\ mark' = mark
      /\ posting' \in {posting, NoPost} /\ Earlier' = Earlier
  BY <1>1, EarlierStays DEF GiveBackNext, RefuseTurn, loopVars, diskVars
<1>3. turn[t].text \in Seq(Answer) /\ owed \in Seq(Answer)
  BY <1>1 DEF IInv, TypeOK, TurnRecord
<1>4. /\ OrderedBy(turn[t].text, Earlier) /\ OrderedBy(owed, Earlier)
      /\ \A x \in ToSet(turn[t].text), y \in ToSet(owed) : <<x, y>> \in Earlier
  BY <1>1 DEF OInv, PlacesInOrder
<1>5. OrderedBy(owed', Earlier) /\ ToSet(owed') = ToSet(turn[t].text) \cup ToSet(owed)
      /\ owed' \in Seq(Answer)
  BY <1>1, <1>3, <1>4, ConcatOrdered, ConcatQueue
<1>6. PlacesInOrder'
  BY <1>1, <1>2, <1>5, EmptyQueue, ShortIsOrdered DEF PlacesInOrder
<1>7. Leads(posting, ToSet(owed'))
  <2>1. posting \notin ToSet(owed)
    BY <1>1, EmptyQueue DEF OInv, PostingIsOldest
  <2>2. Leads(posting, ToSet(turn[t].text))
    BY <1>1 DEF OInv, PostingIsOldest
  <2> QED BY <1>4, <1>5, <2>1, <2>2 DEF Leads
<1>8. PostingIsOldest'
  <2>1. NoPost \notin ToSet(owed')
    BY <1>5, ToSetInSet, DistinctNames
  <2> QED BY <1>1, <1>2, <1>7, <2>1 DEF OInv, PostingIsOldest, Leads
<1> QED BY <1>6, <1>8

LEMMA HearsOrder ==
  ASSUME IInv, OInv, NEW t \in ToSet(carrying), Hears(t)
  PROVE  PlacesInOrder' /\ PostingIsOldest'
<1>1. loading = {} /\ carrying' = <<>> /\ ToSet(carrying') = {} /\ Carried' = {}
  BY CarryOut
<1>2. /\ settling' = turn[t].text /\ UNCHANGED <<owed, posting, loading, mark>>
      /\ Earlier' = Earlier
  BY EarlierStays DEF Hears, diskVars
<1>3. ToSet(turn[t].text) \subseteq Carried
  BY DEF Carried
<1>4. PlacesInOrder'
  BY <1>1, <1>2, <1>3 DEF OInv, PlacesInOrder
<1>5. PostingIsOldest'
  BY <1>1, <1>2 DEF OInv, PostingIsOldest, Leads
<1> QED BY <1>4, <1>5

LEMMA SettleOrder ==
  ASSUME IInv, OInv, SettleNext
  PROVE  PlacesInOrder' /\ PostingIsOldest'
<1>1. /\ settling # <<>> /\ settling' = Tail(settling)
      /\ UNCHANGED <<owed, carrying, posting, loading, turn>>
      /\ mark' = [mark EXCEPT ![Head(settling)] = "sent"]
      /\ Earlier' = Earlier /\ Carried' = Carried
  BY EarlierStays DEF SettleNext, relayVars, routeVars, Carried
<1>2. ToSet(settling') \subseteq ToSet(settling) /\ OrderedBy(settling', Earlier)
  BY <1>1, TailQueue, TailOrdered DEF IInv, TypeOK, OInv, PlacesInOrder
<1>3. PlacesInOrder'
  BY <1>1, <1>2 DEF OInv, PlacesInOrder
<1>4. posting # NoPost => mark'[posting] # "none"
  BY <1>1 DEF OInv, PostingIsOldest, IInv, TypeOK
<1>5. PostingIsOldest'
  BY <1>1, <1>4 DEF OInv, PostingIsOldest, Leads
<1> QED BY <1>3, <1>5

LEMMA LoadOrder ==
  ASSUME IInv, OInv, LoadNext
  PROVE  PlacesInOrder' /\ PostingIsOldest'
<1>1. PICK i \in DOMAIN given :
        /\ given[i] \in loading
        /\ \A j \in 1 .. i - 1 : given[j] \notin loading
        /\ owed' = Enqueued(given[i])
        /\ loading' = loading \ {given[i]}
  BY DEF LoadNext
<1> DEFINE a == given[i]
<1>2. /\ UNCHANGED <<carrying, settling, posting, turn, mark>>
      /\ Earlier' = Earlier /\ loading # {}
  BY EarlierStays DEF LoadNext, routeVars, diskVars
<1>3. carrying = <<>> /\ ToSet(carrying) = {} /\ settling = <<>> /\ ToSet(settling) = {}
      /\ Carried' = {} /\ posting = NoPost
  BY <1>2, EmptyQueue DEF OInv, OneCarry, Carried
<1>4. a \in Answer /\ a \in ToSet(given)
  BY <1>1, ToSetInSet DEF IInv, TypeOK
<1>5. a \notin ToSet(owed) \cup Carried
  BY <1>1 DEF IInv, OnePlace, Carried
<1>6. owed' = Append(owed, a)
  BY <1>1, <1>5 DEF Enqueued
<1>7. \A y \in loading : y = a \/ <<a, y>> \in Earlier
  <2> SUFFICES ASSUME NEW y \in loading, y # a PROVE <<a, y>> \in Earlier
    OBVIOUS
  <2>1. y \in ToSet(given)
    BY DEF IInv, OwedIsSomewhere, InMemory, OInv, GivenIsMarked
  <2>2. PICK j \in 1 .. Len(given) : given[j] = y
    BY <2>1, ToSetInSet DEF IInv, TypeOK
  <2>3. i \in 1 .. Len(given) /\ Len(given) \in Nat
    BY LenProperties DEF IInv, TypeOK
  <2>4. j # i /\ j \notin 1 .. i - 1
    BY <1>1, <2>2
  <2>5. i < j
    BY <2>3, <2>4
  <2> QED BY <2>2, <2>3, <2>5, EarlierMeans DEF IInv
<1>8. \A x \in ToSet(owed) : <<x, a>> \in Earlier
  BY <1>1 DEF OInv, PlacesInOrder
<1> HIDE DEF a
<1>9. OrderedBy(owed', Earlier) /\ ToSet(owed') = ToSet(owed) \cup {a} /\ owed' \in Seq(Answer)
  BY <1>4, <1>6, <1>8, AppendOrdered, AppendQueue DEF IInv, TypeOK, OInv, PlacesInOrder
<1>10. \A x \in ToSet(owed'), y \in loading' : <<x, y>> \in Earlier
  <2>1. loading' = loading \ {a}
    BY <1>1 DEF a
  <2> QED BY <1>7, <1>9, <2>1 DEF OInv, PlacesInOrder
<1>11. PlacesInOrder'
  BY <1>2, <1>3, <1>9, <1>10, ShortIsOrdered DEF PlacesInOrder
<1>12. PostingIsOldest'
  <2>1. NoPost \notin ToSet(owed')
    BY <1>9, ToSetInSet, DistinctNames
  <2> QED BY <1>2, <1>3, <2>1 DEF PostingIsOldest, Leads
<1> QED BY <1>11, <1>12

LEMMA NextOrder ==
  ASSUME IInv, OInv, ~Checkpoints, [Next]_vars
  PROVE  PlacesInOrder' /\ PostingIsOldest'
<1>1. ASSUME NEW a \in Answer, Give(a) PROVE PlacesInOrder' /\ PostingIsOldest'
  BY <1>1, GiveOrder
<1>2. CASE \/ TickFires \/ WaitElapses \/ TimerFires \/ ReleaseHold \/ PostRefused
           \/ CliOpens \/ CliCloses \/ ReleaseBootHold \/ UNCHANGED vars
  <2>1. NothingMoves
    BY <1>2, QuietSteps
  <2>2. given' = given
    BY <1>2 DEF TickFires, WaitElapses, TimerFires, ReleaseHold, PostRefused, CliOpens,
       CliCloses, ReleaseBootHold, vars, diskVars
  <2>3. \/ posting' \in {posting, NoPost}
        \/ RunToCompletion /\ streams = <<>> /\ owed # <<>> /\ posting' = Head(owed)
    BY <1>2 DEF TickFires, WaitElapses, TimerFires, ReleaseHold, PostRefused, CliOpens,
       CliCloses, ReleaseBootHold, vars, relayVars, Pump
  <2> QED BY <2>1, <2>2, <2>3, QuietOrder
<1>3. ASSUME NEW t \in Turn, TurnStep(t) PROVE PlacesInOrder' /\ PostingIsOldest'
  <2>1. CASE PostClaims(t) \/ (PersonPosts(t) /\ owed # <<>>)
    BY <2>1, TakeOrder
  <2>2. CASE RefuseTurn(t) /\ t \in ToSet(carrying)
    BY <2>2, GiveBackOrder
  <2>3. CASE Hears(t) /\ t \in ToSet(carrying)
    BY <2>3, HearsOrder
  <2>4. CASE \/ PersonPosts(t) /\ owed = <<>>
             \/ MachinePosts(t) \/ ResumePosts(t) \/ WokenTurn(t) \/ StartTurn(t)
             \/ RefuseTurn(t) /\ t \notin ToSet(carrying)
             \/ Hears(t) /\ t \notin ToSet(carrying)
             \/ EndTurn(t) \/ EndShadowed(t) \/ Forget(t) \/ Reattach(t)
    <3>1. NothingMoves
      BY <2>4, QuietTurnSteps
    <3>2. given' = given /\ posting' \in {posting, NoPost}
      BY <2>4 DEF PersonPosts, MachinePosts, ResumePosts, WokenTurn, StartTurn, RefuseTurn,
         Hears, EndTurn, EndShadowed, Forget, Reattach, relayVars, diskVars
    <3> QED BY <3>1, <3>2, QuietOrder
  <2> QED BY <1>3, <2>1, <2>2, <2>3, <2>4 DEF TurnStep
<1>4. CASE SettleNext \/ GiveBackNext \/ LoadNext
  BY <1>4, SettleOrder, GiveBackOrder, LoadOrder
<1>5. CASE Restart
  <2>1. /\ owed' = <<>> /\ carrying' = <<>> /\ settling' = <<>> /\ posting' = NoPost
        /\ ToSet(owed') = {} /\ ToSet(carrying') = {} /\ ToSet(settling') = {}
    BY <1>5, EmptyQueue DEF Restart
  <2> QED BY <2>1, ShortIsOrdered DEF PlacesInOrder, PostingIsOldest, Leads, Carried
<1> QED BY <1>1, <1>2, <1>3, <1>4, <1>5 DEF Next

-----------------------------------------------------------------------------
(* What is given, and what the turns say of it *)

LEMMA NextGiven ==
  ASSUME IInv, OInv, [Next]_vars
  PROVE  GivenIsMarked'
<1>0. /\ given \in Seq(Answer) /\ mark \in [Answer -> {"none", "queued", "sent"}]
      /\ settling \in Seq(Answer) /\ GivenIsMarked
  BY DEF IInv, TypeOK, OInv
<1>1. CASE given' = given /\ mark' = mark
  BY <1>0, <1>1 DEF GivenIsMarked
<1>2. ASSUME NEW a \in Answer, Give(a) PROVE GivenIsMarked'
  <2>1. /\ given' = Append(given, a) /\ mark' = [mark EXCEPT ![a] = "queued"]
        /\ mark[a] = "none"
    BY <1>2 DEF Give
  <2>2. ToSet(given') = ToSet(given) \cup {a} /\ IsInjective(given')
    BY <1>0, <2>1, AppendQueue DEF GivenIsMarked
  <2> QED BY <1>0, <2>1, <2>2 DEF GivenIsMarked
<1>3. CASE SettleNext
  <2>1. /\ given' = given /\ settling # <<>>
        /\ mark' = [mark EXCEPT ![Head(settling)] = "sent"]
    BY <1>3 DEF SettleNext
  <2>2. Head(settling) \in Answer /\ mark[Head(settling)] # "none"
    BY <1>0, <2>1, TailQueue DEF IInv, OwedIsSomewhere, InMemory
  <2> QED BY <1>0, <2>1, <2>2 DEF GivenIsMarked
<1>4. CASE ~SettleNext /\ \A a \in Answer : ~Give(a)
  <2>1. given' = given /\ mark' = mark
    BY <1>4 DEF Next, TurnStep, PostClaims, PersonPosts, MachinePosts, ResumePosts,
       StartTurn, RefuseTurn, WokenTurn, Hears, EndTurn, EndShadowed, Forget, Reattach,
       TickFires, WaitElapses, TimerFires, GiveBackNext, LoadNext, ReleaseHold,
       PostRefused, CliOpens, CliCloses, Restart, ReleaseBootHold, vars, diskVars
  <2> QED BY <1>1, <2>1
<1> QED BY <1>2, <1>3, <1>4

\* What the model has heard it has heard, and what a step lets it hear is the
\* text of a turn.
LEMMA HeardGrows ==
  ASSUME IInv, [Next]_vars
  PROVE  \/ Heard' = Heard
         \/ \E t \in Turn : Hears(t) /\ Heard' = Heard \cup ToSet(turn[t].text)
<1>1. CASE \E t \in Turn : Hears(t)
  <2>1. PICK t \in Turn : Hears(t)
    BY <1>1
  <2>2. /\ reached \in [Answer -> 0 .. 2] /\ ToSet(turn[t].text) \subseteq Answer
        /\ reached' = [a \in Answer |->
             IF a \in ToSet(turn[t].text) /\ reached[a] < 2 THEN reached[a] + 1 ELSE reached[a]]
    BY <2>1, ToSetInSet DEF Hears, IInv, TypeOK, TurnRecord
  <2>3. Heard' = Heard \cup ToSet(turn[t].text)
    BY <2>2 DEF Heard
  <2> QED BY <2>1, <2>3
<1>2. CASE \A t \in Turn : ~Hears(t)
  <2>1. reached' = reached
    BY <1>2 DEF Next, TurnStep, Give, PostClaims, PersonPosts, MachinePosts, ResumePosts,
       StartTurn, RefuseTurn, WokenTurn, EndTurn, EndShadowed, Forget, Reattach,
       TickFires, WaitElapses, TimerFires, SettleNext, GiveBackNext, LoadNext, ReleaseHold,
       PostRefused, CliOpens, CliCloses, Restart, ReleaseBootHold, vars
  <2> QED BY <2>1 DEF Heard
<1> QED BY <1>1, <1>2

\* A set of answers stays closed, whatever is heard or given.
LEMMA ClosedStays ==
  ASSUME IInv, OInv, [Next]_vars, NEW S, Closed(S)
  PROVE  /\ S \subseteq ToSet(given')
         /\ \A a \in S, b \in Answer : <<b, a>> \in Earlier' => b \in S \cup Heard'
<1>1. Heard \subseteq Heard'
  BY HeardGrows
<1>2. ASSUME NEW g \in Answer, Give(g)
      PROVE  /\ S \subseteq ToSet(given')
             /\ \A a \in S, b \in Answer : <<b, a>> \in Earlier' => b \in S \cup Heard'
  <2>1. given' = Append(given, g) /\ g \notin ToSet(given)
    BY <1>2 DEF Give, OInv, GivenIsMarked
  <2>2. /\ ToSet(given') = ToSet(given) \cup {g}
        /\ \A x, y : <<x, y>> \in Earlier' <=>
             <<x, y>> \in Earlier \/ (x \in ToSet(given) /\ y = g)
    BY <2>1, EarlierGrows DEF IInv
  <2> QED BY <1>1, <2>1, <2>2 DEF Closed
<1>3. CASE given' = given
  BY <1>1, <1>3, EarlierStays DEF Closed
<1>4. (\A g \in Answer : ~Give(g)) => given' = given
  BY DEF Next, TurnStep, PostClaims, PersonPosts, MachinePosts, ResumePosts,
     StartTurn, RefuseTurn, WokenTurn, Hears, EndTurn, EndShadowed, Forget, Reattach,
     TickFires, WaitElapses, TimerFires, SettleNext, GiveBackNext, LoadNext, ReleaseHold,
     PostRefused, CliOpens, CliCloses, Restart, ReleaseBootHold, vars, diskVars
<1> QED BY <1>2, <1>3, <1>4

\* In a free session the queue is closed, and so is its oldest answer.
LEMMA QueueIsClosed ==
  ASSUME IInv, OInv, ~Checkpoints, RunToCompletion, streams = <<>>
  PROVE  /\ Closed(ToSet(owed))
         /\ posting \in ToSet(owed) => Closed({posting})
         /\ {a \in Answer : mark[a] # "none" /\ reached[a] = 0} \subseteq ToSet(owed)
<1>1. ToSet(owed) = {a \in Answer : mark[a] = "queued"}
  BY FreeSession DEF IInv, OwedIsSomewhere
<1>2. \A a \in Answer : mark[a] # "none" => a \in ToSet(owed) \/ (a \in Heard /\ reached[a] # 0)
  BY <1>1 DEF IInv, TypeOK, SentWasHeard, Heard
<1>3. \A a, b : <<b, a>> \in Earlier => b # a /\ <<a, b>> \notin Earlier /\ b \in ToSet(given)
  BY EarlierIsOrder DEF IInv, OInv
<1>4. \A b \in ToSet(given) : b \in Answer /\ mark[b] # "none"
  BY DEF OInv, GivenIsMarked
<1>5. ToSet(owed) \subseteq ToSet(given)
  BY <1>1 DEF OInv, GivenIsMarked
<1>6. Closed(ToSet(owed))
  BY <1>2, <1>3, <1>4, <1>5 DEF Closed
<1>7. ASSUME posting \in ToSet(owed) PROVE Closed({posting})
  <2>1. \A b \in ToSet(owed) : b = posting \/ <<posting, b>> \in Earlier
    BY <1>7 DEF OInv, PostingIsOldest, Leads
  <2> QED BY <1>2, <1>3, <1>4, <1>5, <1>7, <2>1 DEF Closed
<1> QED BY <1>2, <1>6, <1>7

\* A turn keeps what it says, says nothing, or says what is closed.
LEMMA NextTexts ==
  ASSUME IInv, OInv, ~Checkpoints, [Next]_vars
  PROVE  TextsAreClosed' /\ BehindIsCarried'
<1>0. turn \in [Turn -> TurnRecord] /\ TextsAreClosed /\ BehindIsCarried
  BY DEF IInv, TypeOK, OInv
<1>1. ToSet(<<>>) = {} /\ Closed({})
  BY EmptyQueue DEF Closed
<1>2. Heard \subseteq Heard'
  BY HeardGrows
<1>3. Closed(Heard)'
  <2>1. CASE Heard' = Heard
    BY <1>0, <2>1, ClosedStays DEF TextsAreClosed, Closed
  <2>2. ASSUME NEW t \in Turn, Heard' = Heard \cup ToSet(turn[t].text) PROVE Closed(Heard)'
    <3>1. Closed(Heard) /\ Closed(ToSet(turn[t].text))
      BY <1>0 DEF TextsAreClosed
    <3>2. /\ Heard \subseteq ToSet(given')
          /\ \A a \in Heard, b \in Answer : <<b, a>> \in Earlier' => b \in Heard \cup Heard'
      BY <3>1, ClosedStays
    <3>3. /\ ToSet(turn[t].text) \subseteq ToSet(given')
          /\ \A a \in ToSet(turn[t].text), b \in Answer :
               <<b, a>> \in Earlier' => b \in ToSet(turn[t].text) \cup Heard'
      BY <3>1, ClosedStays
    <3> QED BY <2>2, <3>2, <3>3 DEF Closed
  <2> QED BY <2>1, <2>2, HeardGrows
<1>4. \A u \in Turn :
        \/ turn'[u].text = <<>> /\ turn'[u].behind = {}
        \/ turn'[u].text = turn[u].text /\ turn'[u].behind = turn[u].behind
           /\ turn'[u].by = turn[u].by
        \/ /\ Closed(ToSet(turn'[u].text))
           /\ turn'[u].by # "resume" => turn'[u].behind \subseteq ToSet(turn'[u].text)
  <2>1. ASSUME NEW t \in Turn, PostClaims(t)
        PROVE  /\ \A u \in Turn : u # t => turn'[u] = turn[u]
               /\ Closed(ToSet(turn'[t].text)) /\ turn'[t].behind = {}
    <3>1. turn'[t] = NewTurn("accepted", "relay", <<posting>>, {})
          /\ posting \in ToSet(owed) /\ posting \in Answer
          /\ RunToCompletion /\ streams = <<>>
          /\ \A u \in Turn : u # t => turn'[u] = turn[u]
      BY <1>0, <2>1, DistinctNames DEF PostClaims, GateOpen, PostAtGate, IInv, TypeOK
    <3>2. ToSet(turn'[t].text) = {posting} /\ turn'[t].behind = {}
      BY <3>1, SingleQueue DEF NewTurn
    <3> QED BY <3>1, <3>2, QueueIsClosed
  <2>2. ASSUME NEW t \in Turn, PersonPosts(t)
        PROVE  /\ \A u \in Turn : u # t => turn'[u] = turn[u]
               /\ Closed(ToSet(turn'[t].text))
               /\ turn'[t].behind \subseteq ToSet(turn'[t].text)
    <3>1. /\ turn'[t] = NewTurn("accepted", "person", owed,
                          {a \in Answer : mark[a] # "none" /\ reached[a] = 0})
          /\ RunToCompletion /\ streams = <<>>
          /\ \A u \in Turn : u # t => turn'[u] = turn[u]
      BY <1>0, <2>2 DEF PersonPosts, GateOpen
    <3>2. /\ turn'[t].text = owed
          /\ turn'[t].behind = {a \in Answer : mark[a] # "none" /\ reached[a] = 0}
      BY <3>1 DEF NewTurn
    <3> QED BY <3>1, <3>2, QueueIsClosed
  <2>3. ASSUME NEW t \in Turn, ResumePosts(t)
        PROVE  /\ \A u \in Turn : u # t => turn'[u] = turn[u]
               /\ Closed(ToSet(turn'[t].text)) /\ turn'[t].by = "resume"
    <3>1. /\ turn'[t] = NewTurn("accepted", "resume", cut.text, cut.behind) /\ cut # NoCut
          /\ \A u \in Turn : u # t => turn'[u] = turn[u]
      BY <1>0, <2>3 DEF ResumePosts
    <3> QED BY <1>0, <3>1 DEF NewTurn, TextsAreClosed
  <2>4. ASSUME NEW t \in Turn,
               \/ MachinePosts(t) \/ WokenTurn(t) \/ StartTurn(t) \/ RefuseTurn(t) \/ Hears(t)
               \/ EndTurn(t) \/ EndShadowed(t) \/ Forget(t) \/ Reattach(t)
        PROVE  /\ \A u \in Turn : u # t => turn'[u] = turn[u]
               /\ \/ turn'[t].text = <<>> /\ turn'[t].behind = {}
                  \/ /\ turn'[t].text = turn[t].text /\ turn'[t].behind = turn[t].behind
                     /\ turn'[t].by = turn[t].by
    <3>1. \/ AfterEnd(t).text = <<>> /\ AfterEnd(t).behind = {}
          \/ /\ AfterEnd(t).text = turn[t].text /\ AfterEnd(t).behind = turn[t].behind
             /\ AfterEnd(t).by = turn[t].by
      BY <1>0 DEF AfterEnd, FreeTurn, TurnRecord
    <3>2. CASE MachinePosts(t) \/ WokenTurn(t)
      BY <1>0, <3>2 DEF MachinePosts, WokenTurn, NewTurn
    <3>3. CASE StartTurn(t) \/ Reattach(t)
      BY <1>0, <3>3 DEF StartTurn, Reattach, TurnRecord
    <3>4. CASE RefuseTurn(t) \/ Forget(t)
      BY <1>0, <3>4 DEF RefuseTurn, Forget, FreeTurn
    <3>5. CASE Hears(t)
      BY <1>0, <3>5 DEF Hears, FreeTurn, TurnRecord
    <3>6. CASE EndTurn(t) \/ EndShadowed(t)
      BY <1>0, <3>1, <3>6 DEF EndTurn, EndShadowed
    <3> QED BY <2>4, <3>2, <3>3, <3>4, <3>5, <3>6
  <2>5. CASE Restart
    BY <1>0, <2>5 DEF Restart, FreeTurn, TurnRecord
  <2>6. CASE ~Restart /\ \A t \in Turn : ~TurnStep(t)
    <3>1. turn' = turn
      BY <2>6 DEF Next, Give, TickFires, WaitElapses, TimerFires, SettleNext, GiveBackNext,
         LoadNext, ReleaseHold, PostRefused, CliOpens, CliCloses, ReleaseBootHold, vars,
         routeVars
    <3> QED BY <3>1
  <2>7. ASSUME NEW t \in Turn, TurnStep(t)
        PROVE  \/ PostClaims(t) \/ PersonPosts(t) \/ ResumePosts(t)
               \/ \/ MachinePosts(t) \/ WokenTurn(t) \/ StartTurn(t) \/ RefuseTurn(t) \/ Hears(t)
                  \/ EndTurn(t) \/ EndShadowed(t) \/ Forget(t) \/ Reattach(t)
    BY <2>7 DEF TurnStep
  <2>8. ASSUME NEW t \in Turn, TurnStep(t), NEW u \in Turn
        PROVE  \/ turn'[u].text = <<>> /\ turn'[u].behind = {}
               \/ turn'[u].text = turn[u].text /\ turn'[u].behind = turn[u].behind
                  /\ turn'[u].by = turn[u].by
               \/ /\ Closed(ToSet(turn'[u].text))
                  /\ turn'[u].by # "resume" => turn'[u].behind \subseteq ToSet(turn'[u].text)
    BY <2>1, <2>2, <2>3, <2>4, <2>7, <2>8
  <2> QED BY <2>5, <2>6, <2>8
<1>5. \A u \in Turn : Closed(ToSet(turn[u].text))'
  <2> SUFFICES ASSUME NEW u \in Turn PROVE Closed(ToSet(turn[u].text))'
    OBVIOUS
  <2>1. Closed(ToSet(turn'[u].text))
    BY <1>0, <1>1, <1>4 DEF TextsAreClosed
  <2> QED BY <2>1, ClosedStays DEF Closed
<1>6. (cut # NoCut => Closed(ToSet(cut.text)))'
  <2>1. cut' # NoCut => Closed(ToSet(cut'.text))
    <3>1. CASE cut' = NoCut \/ cut' = cut
      BY <1>0, <3>1 DEF TextsAreClosed
    <3>2. CASE Restart
      <4>1. \/ cut' = NoCut
            \/ \E t \in Turn : cut'.text = <<>> \/ cut'.text = turn[t].text
        BY <3>2 DEF Restart, Resent
      <4> QED BY <1>0, <1>1, <4>1 DEF TextsAreClosed
    <3>3. CASE ~Restart
      <4>1. cut' = NoCut \/ cut' = cut
        BY <3>3 DEF Next, TurnStep, Give, PostClaims, PersonPosts, MachinePosts, ResumePosts,
           StartTurn, RefuseTurn, WokenTurn, Hears, EndTurn, EndShadowed, Forget, Reattach,
           TickFires, WaitElapses, TimerFires, SettleNext, GiveBackNext, LoadNext,
           ReleaseHold, PostRefused, CliOpens, CliCloses, ReleaseBootHold, vars, diskVars
      <4> QED BY <3>1, <4>1
    <3> QED BY <3>2, <3>3
  <2> QED BY <2>1, ClosedStays DEF Closed
<1>7. BehindIsCarried'
  BY <1>0, <1>2, <1>4 DEF BehindIsCarried
<1> QED BY <1>3, <1>5, <1>6, <1>7 DEF TextsAreClosed

-----------------------------------------------------------------------------
(* The theorems of the order *)

LEMMA InitOInv == Init => OInv
<1> SUFFICES ASSUME Init PROVE OInv
  OBVIOUS
<1>1. /\ ToSet(owed) = {} /\ ToSet(carrying) = {} /\ ToSet(settling) = {} /\ Carried = {}
      /\ ToSet(given) = {} /\ IsInjective(given)
  BY EmptyQueue DEF Init, Carried
<1>2. Heard = {} /\ \A t \in Turn : ToSet(turn[t].text) = {} /\ turn[t].behind = {}
  BY EmptyQueue DEF Init, Heard, FreeTurn
<1>3. GivenIsMarked /\ CarryIsBusy /\ OneCarry
  BY <1>1 DEF Init, GivenIsMarked, CarryIsBusy, OneCarry
<1>4. PlacesInOrder /\ PostingIsOldest
  BY <1>1, ShortIsOrdered DEF Init, PlacesInOrder, PostingIsOldest, Leads
<1>5. TextsAreClosed /\ BehindIsCarried
  BY <1>2 DEF Init, TextsAreClosed, BehindIsCarried, Closed
<1> QED BY <1>3, <1>4, <1>5 DEF OInv

\* Without checkpoints the order is kept by every step.
LEMMA SpecOInv ==
  ASSUME ~Checkpoints
  PROVE  Spec => [](IInv /\ OInv)
<1>1. Init => IInv /\ OInv
  BY InitIInv, InitOInv
<1>2. (IInv /\ OInv) /\ [Next]_vars => (IInv /\ OInv)'
  BY NextIInv, NextGiven, NextCarry, NextOrder, NextTexts DEF OInv
<1> QED BY <1>1, <1>2, PTL DEF Spec

(* The model hears a session's answers in the order the person gave them, when   *)
(* no turn checkpoint is taken between the gate and startStream (the queue and   *)
(* the carries of answer-relay.ts, and the gate of chat.ts).                     *)
THEOREM HeardInTheirOrder ==
  ASSUME ~Checkpoints
  PROVE  Spec => []HeardInOrder
<1>1. IInv /\ OInv => HeardInOrder
  <2> SUFFICES ASSUME IInv, OInv,
                      NEW i \in DOMAIN given, NEW j \in DOMAIN given,
                      i < j, reached[given[j]] > 0
               PROVE  reached[given[i]] > 0
    BY DEF HeardInOrder
  <2>1. i \in 1 .. Len(given) /\ j \in 1 .. Len(given)
        /\ given[i] \in Answer /\ given[j] \in Answer
    BY LenProperties, ToSetInSet DEF IInv, TypeOK
  <2>2. <<given[i], given[j]>> \in Earlier /\ given[j] \in Heard
    BY <2>1, EarlierMeans DEF IInv, Heard
  <2> QED BY <2>1, <2>2 DEF OInv, TextsAreClosed, Closed, Heard
<1> QED BY <1>1, SpecOInv, PTL

(* When the model hears a message, it has heard every answer the person gave     *)
(* before writing it: takeOwed leaves none behind (chat.ts), and the carry holds *)
(* them until the first event of the turn.                                       *)
THEOREM NoMessageOvertakes ==
  ASSUME ~Checkpoints
  PROVE  Spec => PersonNeverOvertakes
<1>1. (IInv /\ OInv) /\ [Next]_vars =>
        [\A t \in Turn : turn[t].by # "resume" /\ Hears(t) =>
           \A a \in turn[t].behind : reached'[a] > 0]_vars
  <2> SUFFICES ASSUME IInv, OInv, NEW t \in Turn, turn[t].by # "resume", Hears(t),
                      NEW a \in turn[t].behind
               PROVE  reached'[a] > 0
    OBVIOUS
  <2>1. /\ a \in Answer /\ reached \in [Answer -> 0 .. 2]
        /\ a \in ToSet(turn[t].text) \cup Heard
    BY DEF IInv, TypeOK, TurnRecord, OInv, BehindIsCarried
  <2>2. reached' = [b \in Answer |->
          IF b \in ToSet(turn[t].text) /\ reached[b] < 2 THEN reached[b] + 1 ELSE reached[b]]
    BY DEF Hears
  <2> QED BY <2>1, <2>2 DEF Heard
<1> QED BY <1>1, SpecOInv, PTL DEF Spec, PersonNeverOvertakes

\* The head of what is settled is the oldest answer that is not sent.
LEMMA SettlesTheOldest ==
  ASSUME IInv, OInv, SettleNext
  PROVE  Promise!Settle
<1> DEFINE a == Head(settling)
           Sent == {b \in Answer : mark[b] = "sent"}
<1>1. /\ settling # <<>> /\ settling \in Seq(Answer) /\ given' = given
      /\ mark' = [mark EXCEPT ![a] = "sent"]
  BY DEF SettleNext, IInv, TypeOK
<1>2. /\ a \in Answer /\ a \in ToSet(settling)
      /\ \A x \in ToSet(settling) : x = a \/ <<a, x>> \in Earlier
  BY <1>1, TailQueue, TailOrdered DEF OInv, PlacesInOrder
<1>3. carrying = <<>> /\ ToSet(carrying) = {} /\ Carried = {} /\ loading = {}
  BY <1>1, EmptyQueue DEF OInv, OneCarry, Carried
<1>4. {b \in Answer : mark[b] = "queued"} = ToSet(owed) \cup ToSet(settling)
  BY <1>3 DEF IInv, OwedIsSomewhere, InMemory
<1>5. \A x \in ToSet(owed) : <<a, x>> \in Earlier
  BY <1>2 DEF OInv, PlacesInOrder
<1>6. mark[a] = "queued" /\ a \in ToSet(given)
  BY <1>2, <1>4 DEF OInv, GivenIsMarked
<1> HIDE DEF a
<1>7. PICK i \in 1 .. Len(given) : given[i] = a
  BY <1>6, ToSetInSet DEF IInv, TypeOK
<1>8. ASSUME NEW j \in 1 .. i - 1 PROVE given[j] \in Sent
  <2>1. j \in 1 .. Len(given) /\ j < i
    BY <1>7, LenProperties DEF IInv, TypeOK
  <2>2. <<given[j], a>> \in Earlier /\ given[j] \in ToSet(given)
    BY <1>7, <2>1, EarlierMeans, ToSetInSet DEF IInv, TypeOK
  <2>3. given[j] # a /\ <<a, given[j]>> \notin Earlier
    BY <2>2, EarlierIsOrder DEF IInv, OInv
  <2>4. given[j] \in Answer /\ mark[given[j]] \in {"queued", "sent"}
    BY <2>2 DEF IInv, TypeOK, OInv, GivenIsMarked
  <2> QED BY <1>2, <1>4, <1>5, <2>3, <2>4
<1>9. Sent' = Sent \cup {a} /\ a \notin Sent
  BY <1>1, <1>2, <1>6 DEF IInv, TypeOK
<1> QED BY <1>1, <1>7, <1>8, <1>9 DEF Promise!Settle

(* The relay implements the promise of OwedDelivery, when no checkpoint is       *)
(* taken: giving an answer accepts it, marking one sent settles the oldest one   *)
(* that is owed, and everything else the code does, with its refusals, failed    *)
(* turns, shadowed streams and restarts, changes nothing of the promise.         *)
THEOREM RelayKeepsPromise ==
  ASSUME ~Checkpoints
  PROVE  Spec => KeepsPromise
<1>1. Init => Promise!Init
  BY DEF Init, Promise!Init
<1>2. (IInv /\ OInv) /\ [Next]_vars => [Promise!Next]_(Promise!vars)
  <2> SUFFICES ASSUME IInv, OInv, [Next]_vars
               PROVE  Promise!Next \/ UNCHANGED Promise!vars
    OBVIOUS
  <2>1. ASSUME NEW a \in Answer, Give(a) PROVE Promise!Next
    <3>1. /\ given' = Append(given, a) /\ mark[a] = "none"
          /\ mark' = [mark EXCEPT ![a] = "queued"]
      BY <2>1 DEF Give
    <3>2. \A i \in 1 .. Len(given) : given[i] # a
      BY <3>1, ToSetInSet DEF IInv, TypeOK, OInv, GivenIsMarked
    <3>3. {b \in Answer : mark'[b] = "sent"} = {b \in Answer : mark[b] = "sent"}
      BY <3>1 DEF IInv, TypeOK
    <3>4. Promise!Accept(a)
      BY <3>1, <3>2, <3>3 DEF Promise!Accept
    <3> QED BY <3>4 DEF Promise!Next
  <2>2. CASE SettleNext
    BY <2>2, SettlesTheOldest DEF Promise!Next
  <2>3. CASE ~SettleNext /\ \A a \in Answer : ~Give(a)
    <3>1. given' = given /\ mark' = mark
      BY <2>3 DEF Next, TurnStep, PostClaims, PersonPosts, MachinePosts, ResumePosts,
         StartTurn, RefuseTurn, WokenTurn, Hears, EndTurn, EndShadowed, Forget, Reattach,
         TickFires, WaitElapses, TimerFires, GiveBackNext, LoadNext, ReleaseHold,
         PostRefused, CliOpens, CliCloses, Restart, ReleaseBootHold, vars, diskVars
    <3> QED BY <3>1 DEF Promise!vars
  <2> QED BY <2>1, <2>2, <2>3
<1> QED BY <1>1, <1>2, SpecOInv, PTL DEF Spec, KeepsPromise, Promise!Spec
=============================================================================
