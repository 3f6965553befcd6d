------------------------- MODULE OutboundGate_proofs -------------------------
(***************************************************************************)
(* Proofs about OutboundGate, for any finite sets of sends, questions and  *)
(* sessions, any worlds and bounds: a message leaves once for each yes     *)
(* given to it, the send that holds the card has its question there, a     *)
(* generic question does not end the wait of a send, and a click on the    *)
(* card resumes the leg of the question that was read.                     *)
(***************************************************************************)
EXTENDS OutboundGate, FiniteSetTheorems, WellFoundedInduction, TLAPS

USE GateNames, GateCalls
USE DEF callVars, legVars, askVars, rowVars, countVars, SessionOf, carded

Word == Message \cup Ask \cup {None}
Leg == [at : {"none", "waiting", "parked", "woken", "sending"}, holds : BOOLEAN, ask : Nat,
        got : Word, yes : BOOLEAN]

\* What the steps below need of the shapes.
Shape ==
  /\ world \in Worlds
  /\ leg \in [Call -> Leg] /\ stray \in [Call -> Leg]
  /\ hold \in [Surface -> [by : Send \cup {None}, ask : Nat]]
  /\ card \in [id : Nat, of : Session \cup {None}, what : Word, stale : BOOLEAN]
  /\ buffer \in [Session -> [what : Word, yes : BOOLEAN, on : Call \cup {None}]]
  /\ painted \in [Call -> Word]
  /\ unspent \in [Message -> Int]

-----------------------------------------------------------------------------
(* The invariant *)

\* A leg that waits has nothing yet, and who holds waits or has just been woken.
LegsAreBlank ==
  \A c \in Call : \A l \in {leg[c], stray[c]} :
    /\ l.at = "waiting" => l.got = None
    /\ l.holds => l.at \in {"waiting", "woken"}

\* A session has one wait, of a leg or of one whose socket died.
OneWait ==
  \A c, d \in Call : SessionOf[c] = SessionOf[d] =>
    /\ leg[c].at = "waiting" /\ leg[d].at = "waiting" => c = d
    /\ stray[c].at = "waiting" /\ stray[d].at = "waiting" => c = d
    /\ ~(leg[c].at = "waiting" /\ stray[d].at = "waiting")

\* A leg that holds is a send's, which has the hold of its surface.
HoldsItsSurface ==
  \A c \in Call : \A l \in {leg[c], stray[c]} :
    l.holds => c \in Send /\ hold[Face(SessionOf[c])].by = c

\* The row a question wrote on the card is not the row of a hold.
AsksAreApart ==
  \A c \in Call : \A l \in {leg[c], stray[c]} :
    l.ask # 0 => \A k \in Surface : hold[k].ask # l.ask

\* A send that waits while it holds the card has its question there, and repeats it.
HolderAsks ==
  carded => \A c \in Send : \A l \in {leg[c], stray[c]} :
    WaitsHolding(c, l) => card.id # 0 /\ card.id = MineOf(c) /\ Asks(c) /\ ~card.stale

\* The yeses to a message that have been said and have sent nothing yet.
Yes(l, m) == l.at = "woken" /\ l.got = m /\ l.yes
LegYes(m) == {c \in Call : Yes(leg[c], m)}
StrayYes(m) == {c \in Call : Yes(stray[c], m)}
BufferYes(m) == {s \in Session : buffer[s].what = m /\ buffer[s].yes}
OnTheirWay(m) == Cardinality(LegYes(m)) + Cardinality(StrayYes(m)) + Cardinality(BufferYes(m))

\* Each of them was paid by a yes of its own.
Paid == \A m \in Message : OnTheirWay(m) <= unspent[m]

Holds == HoldsItsSurface /\ AsksAreApart /\ HolderAsks
IInv == Shape /\ LegsAreBlank /\ OneWait /\ Holds /\ Paid

-----------------------------------------------------------------------------
(* Sets that grow or shrink by one *)

LEMMA CallIsFinite == IsFiniteSet(Call)
  BY GateFinite, FS_Union DEF Call

LEMMA Fewer ==
  ASSUME NEW S, NEW T, IsFiniteSet(S), T \subseteq S
  PROVE  /\ IsFiniteSet(T)
         /\ Cardinality(T) \in Nat /\ Cardinality(S) \in Nat
         /\ Cardinality(T) <= Cardinality(S)
<1>1. IsFiniteSet(T) /\ Cardinality(T) <= Cardinality(S)
  BY FS_Subset, T \in SUBSET S
<1> QED BY <1>1, FS_CardinalityType

LEMMA OneMore ==
  ASSUME NEW S, NEW T, NEW x, IsFiniteSet(S), T \subseteq S \cup {x}
  PROVE  Cardinality(T) \in Nat /\ Cardinality(T) <= Cardinality(S) + 1
<1>0. Cardinality(S) \in Nat
  BY FS_CardinalityType
<1>1. /\ IsFiniteSet(S \cup {x})
      /\ Cardinality(S \cup {x}) <= Cardinality(S) + 1
  <2>1. IsFiniteSet(S \cup {x})
    BY FS_AddElement
  <2>2. CASE x \in S
    <3>1. S \cup {x} = S
      BY <2>2
    <3>2. Cardinality(S \cup {x}) = Cardinality(S)
      BY <3>1, Zenon
    <3> QED BY <1>0, <2>1, <3>2
  <2>3. CASE x \notin S
    <3>1. Cardinality(S \cup {x}) = Cardinality(S) + 1
      BY <2>3, FS_AddElement
    <3> QED BY <1>0, <2>1, <3>1
  <2> QED BY <2>2, <2>3
<1>2. /\ Cardinality(T) \in Nat /\ Cardinality(S \cup {x}) \in Nat
      /\ Cardinality(T) <= Cardinality(S \cup {x})
  BY <1>1, Fewer
<1> QED BY <1>1, <1>2, FS_CardinalityType

LEMMA OneLess ==
  ASSUME NEW S, NEW T, NEW x \in S, IsFiniteSet(S), T \subseteq S \ {x}
  PROVE  Cardinality(T) \in Nat /\ Cardinality(T) + 1 <= Cardinality(S)
<1>1. /\ IsFiniteSet(S \ {x})
      /\ Cardinality(S \ {x}) = Cardinality(S) - 1
  BY FS_RemoveElement
<1>2. /\ Cardinality(T) \in Nat /\ Cardinality(S \ {x}) \in Nat
      /\ Cardinality(T) <= Cardinality(S \ {x})
  BY <1>1, Fewer
<1> QED BY <1>1, <1>2, FS_CardinalityType

\* A name that is not used is found.
LEMMA FreshIsNew ==
  ASSUME NEW used, IsFiniteSet(used)
  PROVE  /\ Fresh(used) \in Nat \ {0} /\ Fresh(used) \notin used
         /\ Fresh(used) <= Cardinality(used) + 1
<1> DEFINE n == Cardinality(used)
<1>1. n \in Nat
  BY FS_CardinalityType
<1>2. \E i \in 1..(n + 1) : i \notin used
  <2> SUFFICES ASSUME 1..(n + 1) \subseteq used PROVE FALSE
    OBVIOUS
  <2>1. Cardinality(1..(n + 1)) = n + 1
    BY <1>1, FS_Interval
  <2>2. Cardinality(1..(n + 1)) <= n
    BY Fewer
  <2> QED BY <1>1, <2>1, <2>2
<1>3. Fresh(used) \in 1..(n + 1) /\ Fresh(used) \notin used
  BY <1>2 DEF Fresh
<1> QED BY <1>1, <1>3

LEMMA ImageIsFinite ==
  ASSUME NEW S, NEW f, IsFiniteSet(S)
  PROVE  IsFiniteSet({f[x] : x \in S})
<1> DEFINE g == [x \in S |-> f[x]]
           T == {f[x] : x \in S}
<1>1. g \in Surjection(S, T)
  BY DEF Surjection
<1> QED BY <1>1, FS_Surjection

LEMMA ImageIsSmall ==
  ASSUME NEW S, NEW f, IsFiniteSet(S)
  PROVE  Cardinality({f[x] : x \in S}) <= Cardinality(S)
<1> DEFINE g == [x \in S |-> f[x]]
           T == {f[x] : x \in S}
<1>1. g \in Surjection(S, T)
  BY DEF Surjection
<1> QED BY <1>1, FS_Surjection

-----------------------------------------------------------------------------
(* What a wait and an answer do to the legs *)

Rouse(l) == [l EXCEPT !.at = "woken"]
Serve(l, what, said) == [l EXCEPT !.at = "woken", !.got = what, !.yes = said]

LEMMA RouseType ==
  ASSUME NEW l \in Leg
  PROVE  /\ Rouse(l) \in Leg /\ Rouse(l).at = "woken" /\ Rouse(l).holds = l.holds
         /\ Rouse(l).ask = l.ask /\ Rouse(l).got = l.got /\ Rouse(l).yes = l.yes
  BY DEF Leg, Rouse

LEMMA ServeType ==
  ASSUME NEW l \in Leg, NEW what \in Word, NEW said \in BOOLEAN
  PROVE  /\ Serve(l, what, said) \in Leg /\ Serve(l, what, said).at = "woken"
         /\ Serve(l, what, said).holds = l.holds /\ Serve(l, what, said).ask = l.ask
         /\ Serve(l, what, said).got = what /\ Serve(l, what, said).yes = said
  BY DEF Leg, Serve

LEMMA WaitType ==
  ASSUME NEW l \in Leg
  PROVE  /\ [l EXCEPT !.at = "waiting"] \in Leg /\ [l EXCEPT !.at = "waiting"].at = "waiting"
         /\ [l EXCEPT !.at = "waiting"].holds = l.holds /\ [l EXCEPT !.at = "waiting"].ask = l.ask
         /\ [l EXCEPT !.at = "waiting"].got = l.got
  BY DEF Leg

LEMMA NoLegType ==
  /\ NoLeg \in Leg /\ [NoLeg EXCEPT !.at = "sending"] \in Leg
  /\ [NoLeg EXCEPT !.at = "parked"] \in Leg /\ [NoLeg EXCEPT !.holds = TRUE] \in Leg
  /\ \A n \in Nat : [NoLeg EXCEPT !.ask = n] \in Leg
  BY DEF Leg, NoLeg, Word

\* A wait of a leg of c begins, or is served at once; those it ends are roused.
LEMMA WaitBegins ==
  ASSUME Shape, NEW c \in Call, NEW p, NEW l \in Leg, NEW lost, Waits(c, p, l, lost)
  PROVE  /\ leg' \in [Call -> Leg] /\ stray' \in [Call -> Leg]
         /\ buffer' \in [Session -> [what : Word, yes : BOOLEAN, on : Call \cup {None}]]
         /\ leg'[c].holds = l.holds /\ leg'[c].ask = l.ask
         /\ \A d \in Call \ {c} :
              leg'[d] = leg[d] \/ (leg[d].at = "waiting" /\ leg'[d] = Rouse(leg[d]))
         /\ \A d \in Call :
              stray'[d] = stray[d] \/ (stray[d].at = "waiting" /\ stray'[d] = Rouse(stray[d]))
         /\ \A d \in Call : SessionOf[d] = lost =>
              (d # c => leg'[d].at # "waiting") /\ stray'[d].at # "waiting"
         /\ \A t \in Session : buffer'[t] = buffer[t] \/ buffer'[t] = NoAnswer
         /\ \/ /\ leg'[c].at = "waiting" /\ leg'[c].got = l.got
               /\ \A d \in Call : SessionOf[d] = SessionOf[c] =>
                    (d # c => leg'[d].at # "waiting") /\ stray'[d].at # "waiting"
            \/ /\ leg'[c].at = "woken" /\ leg'[c].got = buffer[SessionOf[c]].what
               /\ leg'[c].yes = buffer[SessionOf[c]].yes
               /\ buffer'[SessionOf[c]] = NoAnswer
<1> DEFINE s == SessionOf[c]
           served == Serve(l, buffer[s].what, buffer[s].yes)
           begun == [l EXCEPT !.at = "waiting"]
           taken == Fits(s, p)
           cut == {lost} \cup (IF taken THEN {} ELSE {s})
           over(d, m) == IF SessionOf[d] \in cut /\ m.at = "waiting" THEN Rouse(m) ELSE m
<1>1. /\ leg' = [d \in Call |-> IF d = c THEN IF taken THEN served ELSE begun ELSE over(d, leg[d])]
      /\ stray' = [d \in Call |-> over(d, stray[d])]
      /\ buffer' = [t \in Session |-> IF t = lost \/ (t = s /\ taken) THEN NoAnswer ELSE buffer[t]]
  BY DEF Waits, WaitsEnding, Rouse, Serve
<1>2. /\ s \in Session /\ buffer[s].what \in Word /\ buffer[s].yes \in BOOLEAN
      /\ \A d \in Call : leg[d] \in Leg /\ stray[d] \in Leg
  BY DEF Shape
<1>3. /\ served \in Leg /\ served.at = "woken" /\ served.holds = l.holds /\ served.ask = l.ask
      /\ served.got = buffer[s].what /\ served.yes = buffer[s].yes
  BY <1>2, ServeType
<1>4. /\ begun \in Leg /\ begun.at = "waiting" /\ begun.holds = l.holds /\ begun.ask = l.ask
      /\ begun.got = l.got
  BY WaitType
<1> HIDE DEF served, begun, taken, cut
<1>5. ASSUME NEW d \in Call, NEW m \in Leg
      PROVE  /\ over(d, m) \in Leg
             /\ over(d, m) = m \/ (m.at = "waiting" /\ over(d, m) = Rouse(m))
             /\ SessionOf[d] \in cut => over(d, m).at # "waiting"
  BY RouseType
<1> HIDE DEF over
<1>6. leg'[c] = IF taken THEN served ELSE begun
  BY <1>1
<1>7. \A d \in Call : (d # c => leg'[d] = over(d, leg[d])) /\ stray'[d] = over(d, stray[d])
  BY <1>1
<1>8. leg' \in [Call -> Leg] /\ stray' \in [Call -> Leg]
  BY <1>1, <1>2, <1>3, <1>4, <1>5
<1>9. buffer' \in [Session -> [what : Word, yes : BOOLEAN, on : Call \cup {None}]]
  BY <1>1 DEF Shape, NoAnswer, Word
<1>10. \A d \in Call : SessionOf[d] \in cut =>
         (d # c => leg'[d].at # "waiting") /\ stray'[d].at # "waiting"
  BY <1>2, <1>5, <1>7
<1>11. lost \in cut /\ (~taken => s \in cut)
  BY DEF cut
<1>12. \A d \in Call :
         /\ d # c => leg'[d] = leg[d] \/ (leg[d].at = "waiting" /\ leg'[d] = Rouse(leg[d]))
         /\ stray'[d] = stray[d] \/ (stray[d].at = "waiting" /\ stray'[d] = Rouse(stray[d]))
  BY <1>2, <1>5, <1>7
<1>13. \A t \in Session : buffer'[t] = buffer[t] \/ buffer'[t] = NoAnswer
  BY <1>1
<1>14. taken => buffer'[s] = NoAnswer
  BY <1>1, <1>2
<1>15. leg'[c].holds = l.holds /\ leg'[c].ask = l.ask
  BY <1>3, <1>4, <1>6
<1>16. CASE taken
  BY <1>3, <1>6, <1>8, <1>9, <1>10, <1>11, <1>12, <1>13, <1>14, <1>15, <1>16
<1>17. CASE ~taken
  BY <1>4, <1>6, <1>8, <1>9, <1>10, <1>11, <1>12, <1>13, <1>15, <1>17
<1> QED BY <1>16, <1>17

\* An answer rouses the legs of its session that wait, or stays in the buffer.
Answered(l, c, s, what, said) ==
  IF SessionOf[c] = s /\ l.at = "waiting"
  THEN Serve(l, what, said) ELSE l

LEMMA AnswerArrives ==
  ASSUME Shape, NEW s, NEW what \in Word, NEW said \in BOOLEAN,
         NEW on \in Call \cup {None}, Delivered(s, what, said, on)
  PROVE  /\ leg' = [c \in Call |-> Answered(leg[c], c, s, what, said)]
         /\ stray' = [c \in Call |-> Answered(stray[c], c, s, what, said)]
         /\ leg' \in [Call -> Leg] /\ stray' \in [Call -> Leg]
         /\ buffer' \in [Session -> [what : Word, yes : BOOLEAN, on : Call \cup {None}]]
         /\ unspent' \in [Message -> Int]
<1>1. /\ leg' = [c \in Call |-> Answered(leg[c], c, s, what, said)]
      /\ stray' = [c \in Call |-> Answered(stray[c], c, s, what, said)]
  BY DEF Delivered, Answered, Serve
<1>2. \A c \in Call : Answered(leg[c], c, s, what, said) \in Leg /\ Answered(stray[c], c, s, what, said) \in Leg
  BY ServeType DEF Shape, Answered
<1>3. buffer' \in [Session -> [what : Word, yes : BOOLEAN, on : Call \cup {None}]]
  BY DEF Shape, Delivered
<1>4. unspent' \in [Message -> Int]
  <2>1. unspent' = unspent \/ (what \in Message /\ unspent' = [unspent EXCEPT ![what] = @ + 1])
    BY DEF Delivered
  <2> QED BY <2>1 DEF Shape
<1> QED BY <1>1, <1>2, <1>3, <1>4

-----------------------------------------------------------------------------
(* Facts of a state *)

LEMMA Faces ==
  ASSUME Shape, NEW c \in Call
  PROVE  /\ SessionOf[c] \in Session /\ Face(SessionOf[c]) \in Surface
         /\ carded => Face(SessionOf[c]) = Card
         /\ leg[c] \in Leg /\ stray[c] \in Leg /\ c # None
  BY DEF Shape, Face, Surface

LEMMA WhatIsAWord ==
  ASSUME NEW c \in Call
  PROVE  What(c) \in Word
  BY DEF Call, What, Word

LEMMA UsedIsFinite ==
  Shape => IsFiniteSet(UsedIds)
<1> SUFFICES ASSUME Shape PROVE IsFiniteSet(UsedIds)
  OBVIOUS
<1> DEFINE asks == [k \in Surface |-> hold[k].ask]
           legAsks == [c \in Call |-> leg[c].ask]
           strayAsks == [c \in Call |-> stray[c].ask]
<1> HIDE DEF asks, legAsks, strayAsks
<1>1. IsFiniteSet(Surface)
  <2>1. IsFiniteSet({Card})
    BY FS_Singleton
  <2> QED BY <2>1, GateFinite, FS_Union DEF Surface
<1>2. IsFiniteSet({asks[k] : k \in Surface})
  BY <1>1, ImageIsFinite
<1>3. IsFiniteSet({legAsks[c] : c \in Call}) /\ IsFiniteSet({strayAsks[c] : c \in Call})
  BY CallIsFinite, ImageIsFinite
<1>4. IsFiniteSet({card.id, view.id})
  <2>1. IsFiniteSet({card.id}) /\ IsFiniteSet({view.id})
    BY FS_Singleton
  <2>2. IsFiniteSet({card.id} \cup {view.id})
    BY <2>1, FS_Union
  <2>3. {card.id} \cup {view.id} = {card.id, view.id}
    OBVIOUS
  <2> QED BY <2>2, <2>3
<1>5. IsFiniteSet({card.id, view.id} \cup {asks[k] : k \in Surface})
  BY <1>2, <1>4, FS_Union
<1>6. IsFiniteSet(({card.id, view.id} \cup {asks[k] : k \in Surface}) \cup {legAsks[c] : c \in Call})
  BY <1>3, <1>5, FS_Union
<1>7. IsFiniteSet((({card.id, view.id} \cup {asks[k] : k \in Surface}) \cup {legAsks[c] : c \in Call})
                  \cup {strayAsks[c] : c \in Call})
  BY <1>3, <1>6, FS_Union
<1>8. UsedIds = (({card.id, view.id} \cup {asks[k] : k \in Surface}) \cup {legAsks[c] : c \in Call})
                  \cup {strayAsks[c] : c \in Call}
  BY DEF UsedIds, asks, legAsks, strayAsks
<1> QED BY <1>7, <1>8

\* The row of a question is new to the card, to the holds and to the legs.
LEMMA NewRow ==
  ASSUME Shape
  PROVE  /\ Fresh(UsedIds) \in Nat \ {0}
         /\ \A k \in Surface : hold[k].ask # Fresh(UsedIds)
         /\ \A c \in Call : leg[c].ask # Fresh(UsedIds) /\ stray[c].ask # Fresh(UsedIds)
<1>1. Fresh(UsedIds) \in Nat \ {0} /\ Fresh(UsedIds) \notin UsedIds
  BY UsedIsFinite, FreshIsNew
<1> QED BY <1>1 DEF UsedIds

\* No yes is in a leg where every wait that was over has resumed.
LEMMA SettledOwesNothing ==
  ASSUME Settled, NEW m \in Message
  PROVE  LegYes(m) = {} /\ StrayYes(m) = {}
  BY DEF Settled, LegYes, StrayYes, Yes

LEMMA YesesAreFinite ==
  ASSUME NEW m \in Message
  PROVE  IsFiniteSet(LegYes(m)) /\ IsFiniteSet(StrayYes(m)) /\ IsFiniteSet(BufferYes(m))
<1>1. LegYes(m) \subseteq Call /\ StrayYes(m) \subseteq Call /\ BufferYes(m) \subseteq Session
  BY DEF LegYes, StrayYes, BufferYes
<1> QED BY <1>1, CallIsFinite, GateFinite, Fewer

LEMMA YesesAreCounted ==
  ASSUME NEW m \in Message
  PROVE  /\ Cardinality(LegYes(m)) \in Nat /\ Cardinality(StrayYes(m)) \in Nat
         /\ Cardinality(BufferYes(m)) \in Nat
  BY YesesAreFinite, FS_CardinalityType

\* Where no yes is added and none is spent, what was paid still is.
LEMMA PaidStays ==
  ASSUME Shape, Paid, unspent' = unspent,
         \A m \in Message : /\ LegYes(m)' \subseteq LegYes(m) /\ StrayYes(m)' \subseteq StrayYes(m)
                            /\ BufferYes(m)' \subseteq BufferYes(m)
  PROVE  Paid'
<1> SUFFICES ASSUME NEW m \in Message PROVE OnTheirWay(m)' <= unspent[m]'
  BY DEF Paid
<1>1. OnTheirWay(m) <= unspent[m] /\ unspent[m] \in Int /\ unspent[m]' = unspent[m]
  BY DEF Paid, Shape
<1>2. /\ Cardinality(LegYes(m)') \in Nat /\ Cardinality(LegYes(m)) \in Nat
      /\ Cardinality(LegYes(m)') <= Cardinality(LegYes(m))
  BY YesesAreFinite, Fewer
<1>3. /\ Cardinality(StrayYes(m)') \in Nat /\ Cardinality(StrayYes(m)) \in Nat
      /\ Cardinality(StrayYes(m)') <= Cardinality(StrayYes(m))
  BY YesesAreFinite, Fewer
<1>4. /\ Cardinality(BufferYes(m)') \in Nat /\ Cardinality(BufferYes(m)) \in Nat
      /\ Cardinality(BufferYes(m)') <= Cardinality(BufferYes(m))
  BY YesesAreFinite, Fewer
<1>5. OnTheirWay(m)' = Cardinality(LegYes(m)') + Cardinality(StrayYes(m)') + Cardinality(BufferYes(m)')
  BY DEF OnTheirWay
<1> QED BY <1>1, <1>2, <1>3, <1>4, <1>5 DEF OnTheirWay

-----------------------------------------------------------------------------
(* Steps that leave the card and the holds alone: a leg is as it was, or is gone, or *)
(* has lost its socket.                                                              *)

Fades(l, m) == m = l \/ (m.at \notin {"waiting", "woken"} /\ ~m.holds /\ m.ask = 0)

Quiet ==
  /\ Settled /\ UNCHANGED <<world, hold, card, unspent>>
  /\ painted' \in [Call -> Word]
  /\ leg' \in [Call -> Leg] /\ stray' \in [Call -> Leg]
  /\ buffer' \in [Session -> [what : Word, yes : BOOLEAN, on : Call \cup {None}]]
  /\ \A s \in Session : buffer'[s] \in {buffer[s], NoAnswer}
  /\ \/ \A c \in Call : Fades(leg[c], leg'[c]) /\ Fades(stray[c], stray'[c])
     \/ \E c \in Call : stray' = [stray EXCEPT ![c] = leg[c]] /\ leg' = [leg EXCEPT ![c] = NoLeg]

\* Each leg after a quiet step comes from one of the same call.
LEMMA QuietLegs ==
  ASSUME IInv, Quiet, NEW c \in Call
  PROVE  /\ Fades(leg[c], leg'[c])
         /\ Fades(stray[c], stray'[c]) \/ (stray'[c] = leg[c] /\ Fades(NoLeg, leg'[c]))
  BY DEF IInv, Shape, Quiet, Fades, NoLeg

LEMMA QuietKeeps ==
  ASSUME IInv, Quiet
  PROVE  IInv'
<1>1. Shape'
  BY DEF IInv, Shape, Quiet
<1>2. LegsAreBlank'
  BY QuietLegs DEF IInv, LegsAreBlank, Fades
<1>3. OneWait'
  BY QuietLegs DEF IInv, OneWait, Fades, Quiet, NoLeg
<1>4. HoldsItsSurface'
  BY QuietLegs DEF IInv, Holds, HoldsItsSurface, Fades, Quiet, Face
<1>5. AsksAreApart'
  BY QuietLegs DEF IInv, Holds, AsksAreApart, Fades, Quiet
<1>6. HolderAsks'
  <2> SUFFICES ASSUME carded', NEW c \in Send, NEW l \in {leg'[c], stray'[c]}, WaitsHolding(c, l)
               PROVE  (card.id # 0 /\ card.id = MineOf(c) /\ Asks(c) /\ ~card.stale)'
    BY DEF HolderAsks, WaitsHolding
  <2>1. carded /\ world' = world /\ card' = card /\ hold' = hold /\ c \in Call
    BY DEF Quiet, Call
  <2>2. l \in {leg[c], stray[c]}
    BY <2>1, QuietLegs DEF WaitsHolding, Fades
  <2>3. card.id # 0 /\ card.id = MineOf(c) /\ Asks(c) /\ ~card.stale
    BY <2>1, <2>2 DEF IInv, Holds, HolderAsks, WaitsHolding
  <2> QED BY <2>1, <2>3 DEF MineOf, Asks, Face
<1>7. Paid'
  <2>1. ASSUME NEW m \in Message
        PROVE  /\ LegYes(m)' = {} /\ StrayYes(m)' = {}
               /\ BufferYes(m)' \subseteq BufferYes(m)
    <3>1. \A c \in Call : leg'[c].at # "woken" /\ stray'[c].at # "woken"
      BY QuietLegs DEF Quiet, Settled, Fades
    <3>2. LegYes(m)' = {} /\ StrayYes(m)' = {}
      BY <3>1 DEF LegYes, StrayYes, Yes
    <3>3. BufferYes(m)' \subseteq BufferYes(m)
      BY DEF Quiet, BufferYes, NoAnswer
    <3> QED BY <3>2, <3>3
  <2> QED BY <2>1, PaidStays DEF IInv, Quiet
<1> QED BY <1>1, <1>2, <1>3, <1>4, <1>5, <1>6, <1>7 DEF IInv, Holds

\* A step that touches no leg is quiet.
LEMMA StillSteps ==
  ASSUME IInv, Settled, UNCHANGED <<world, hold, card, unspent, leg, stray>>,
         painted' = painted \/ \E c \in Ask : painted' = [painted EXCEPT ![c] = c],
         buffer' = buffer \/ \E s \in Session : buffer' = [buffer EXCEPT ![s] = NoAnswer]
  PROVE  Quiet
<1> DEFINE B == [what : Word, yes : BOOLEAN, on : Call \cup {None}]
<1>1. Shape /\ buffer \in [Session -> B] /\ NoAnswer \in B
  BY DEF IInv, Shape, NoAnswer, Word
<1>2. painted' \in [Call -> Word]
  BY <1>1 DEF Shape, Word, Call
<1> HIDE DEF B
<1>3. buffer' \in [Session -> B] /\ \A t \in Session : buffer'[t] \in {buffer[t], NoAnswer}
  BY <1>1
<1>4. \A d \in Call : Fades(leg[d], leg'[d]) /\ Fades(stray[d], stray'[d])
  BY DEF Fades
<1> QED BY <1>1, <1>2, <1>3, <1>4 DEF Quiet, Shape, B

\* So is a step where a leg of the call ends, parks or loses its socket.
LEMMA LegSteps ==
  ASSUME IInv, NEW c \in Call,
         \/ LegExpires(c) \/ StrayExpires(c) \/ SocketDies(c)
         \/ c \in Send /\ SendEnds(c)
         \/ c \in Ask /\ AskParks(c)
  PROVE  Quiet
<1>1. /\ Settled /\ UNCHANGED <<world, hold, card, unspent, painted, buffer>>
  BY DEF LegExpires, StrayExpires, SocketDies, SendEnds, AskParks, Fault, Posting
<1>2. Shape
  BY DEF IInv
<1>3. CASE SocketDies(c)
  <2>1. stray' = [stray EXCEPT ![c] = leg[c]] /\ leg' = [leg EXCEPT ![c] = NoLeg]
    BY <1>3 DEF SocketDies
  <2>2. leg' \in [Call -> Leg] /\ stray' \in [Call -> Leg]
    BY <1>2, <2>1, NoLegType DEF Shape
  <2> QED BY <1>1, <1>2, <2>1, <2>2 DEF Quiet, Shape
<1>4. CASE ~SocketDies(c)
  <2> DEFINE parked == [NoLeg EXCEPT !.at = "parked"]
  <2>1. \/ leg' = leg /\ stray' = stray
        \/ leg' = [leg EXCEPT ![c] = NoLeg] /\ stray' = stray
        \/ leg' = [leg EXCEPT ![c] = parked] /\ stray' = stray
        \/ stray' = [stray EXCEPT ![c] = NoLeg] /\ leg' = leg
    BY <1>4 DEF LegExpires, StrayExpires, SendEnds, AskParks
  <2>2. NoLeg \in Leg /\ parked \in Leg /\ leg \in [Call -> Leg] /\ stray \in [Call -> Leg]
    BY <1>2, NoLegType DEF Shape
  <2>3. \A l : Fades(l, l) /\ Fades(l, NoLeg) /\ Fades(l, parked)
    BY DEF Fades, NoLeg
  <2> HIDE DEF parked
  <2>4. leg' \in [Call -> Leg] /\ stray' \in [Call -> Leg]
    BY <2>1, <2>2
  <2>5. \A d \in Call : Fades(leg[d], leg'[d]) /\ Fades(stray[d], stray'[d])
    <3>1. \A d \in Call : leg'[d] \in {leg[d], NoLeg, parked} /\ stray'[d] \in {stray[d], NoLeg}
      BY <1>2, <2>1 DEF Shape
    <3> QED BY <2>3, <3>1
  <2> QED BY <1>1, <1>2, <2>4, <2>5 DEF Quiet, Shape
<1> QED BY <1>3, <1>4

-----------------------------------------------------------------------------
(* The card goes stale, and a hold lapses, only where no send waits *)

LEMMA HeartbeatKeeps ==
  ASSUME IInv, HeartbeatStops
  PROVE  IInv'
<1>1. /\ UNCHANGED <<world, leg, stray, hold, buffer, painted, unspent>>
      /\ card' = [card EXCEPT !.stale = TRUE]
  BY DEF HeartbeatStops
<1>2. Shape'
  BY <1>1 DEF IInv, Shape
<1>3. HolderAsks'
  <2> SUFFICES ASSUME carded, NEW c \in Send, NEW l \in {leg[c], stray[c]}, WaitsHolding(c, l)
               PROVE  FALSE
    BY <1>1 DEF HolderAsks, WaitsHolding
  <2>1. Asks(c) /\ c \in Call
    BY DEF IInv, Holds, HolderAsks, WaitsHolding, Call
  <2> QED BY <2>1 DEF HeartbeatStops, WaitsHolding
<1>4. LegsAreBlank' /\ OneWait'
  BY <1>1 DEF IInv, LegsAreBlank, OneWait
<1>5. HoldsItsSurface' /\ AsksAreApart'
  BY <1>1 DEF IInv, Holds, HoldsItsSurface, AsksAreApart, Face
<1>6. Paid'
  BY <1>1, PaidStays DEF IInv, LegYes, StrayYes, BufferYes
<1> QED BY <1>2, <1>3, <1>4, <1>5, <1>6 DEF IInv, Holds

\* A surface is let go that no leg holds: what is on the card is nobody's, or stays.
LEMMA LetGoKeeps ==
  ASSUME IInv, NEW k \in Surface, NEW c, LetGo(c, k),
         UNCHANGED <<world, leg, stray, buffer, painted, unspent>>,
         card' = card \/ card' = [card EXCEPT !.stale = FALSE],
         \A d \in Call : Face(SessionOf[d]) = k => ~leg[d].holds /\ ~stray[d].holds
  PROVE  IInv'
<1>1. hold' = [hold EXCEPT ![k] = NoHold]
  BY DEF LetGo
<1>2. /\ card'.id = card.id /\ card'.of = card.of /\ card'.what = card.what
      /\ card'.stale => card.stale
  BY DEF IInv, Shape
<1>3. Shape'
  BY <1>1 DEF IInv, Shape, NoHold
<1>4. LegsAreBlank' /\ OneWait'
  BY DEF IInv, LegsAreBlank, OneWait
<1>5. HoldsItsSurface'
  BY <1>1 DEF IInv, Holds, HoldsItsSurface, Face, Shape
<1>6. AsksAreApart'
  BY <1>1 DEF IInv, Holds, AsksAreApart, Shape, NoHold
<1>7. HolderAsks'
  <2> SUFFICES ASSUME carded', NEW d \in Send, NEW l \in {leg[d], stray[d]}, WaitsHolding(d, l)
               PROVE  (card.id # 0 /\ card.id = MineOf(d) /\ Asks(d) /\ ~card.stale)'
    BY DEF HolderAsks, WaitsHolding
  <2>1. d \in Call /\ Face(SessionOf[d]) # k
    BY DEF WaitsHolding, Call
  <2>2. card.id # 0 /\ card.id = MineOf(d) /\ Asks(d) /\ ~card.stale
    BY DEF IInv, Holds, HolderAsks, WaitsHolding
  <2>3. MineOf(d)' = MineOf(d)
    BY <1>1, <2>1 DEF MineOf, Face, IInv, Shape
  <2> QED BY <1>2, <2>2, <2>3 DEF Asks, IInv, Shape
<1>8. Paid'
  BY PaidStays DEF IInv, LegYes, StrayYes, BufferYes
<1> QED BY <1>3, <1>4, <1>5, <1>6, <1>7, <1>8 DEF IInv, Holds

LEMMA LapseKeeps ==
  ASSUME IInv, NEW k \in Surface, HoldLapses(k)
  PROVE  IInv'
<1>1. ASSUME NEW d \in Call, Face(SessionOf[d]) = k
      PROVE  ~leg[d].holds /\ ~stray[d].holds
  <2>1. \A l \in {leg[d], stray[d]} : l.holds => l.at = "waiting" /\ hold[k].by = d
    BY <1>1 DEF IInv, LegsAreBlank, Holds, HoldsItsSurface, HoldLapses, Settled
  <2> QED BY <2>1 DEF HoldLapses, Lapses
<1> QED BY <1>1, LetGoKeeps DEF HoldLapses

LEMMA CardTakenKeeps ==
  ASSUME IInv, NEW c \in Send, SendFindsCardTaken(c)
  PROVE  IInv'
<1> DEFINE k == Face(SessionOf[c])
<1>1. c \in Call /\ k \in Surface
  BY Faces DEF Call, IInv
<1>2. ASSUME NEW d \in Call, Face(SessionOf[d]) = k
      PROVE  ~leg[d].holds /\ ~stray[d].holds
  <2> SUFFICES ASSUME NEW l \in {leg[d], stray[d]}, l.holds PROVE FALSE
    OBVIOUS
  <2>1. l.at = "waiting" /\ d \in Send /\ hold[k].by = d
    BY <1>2 DEF IInv, LegsAreBlank, Holds, HoldsItsSurface, SendFindsCardTaken, Posting, Settled
  <2>2. d = c
    BY <1>1, <2>1, Faces DEF SendFindsCardTaken, MayHold, IInv
  <2>3. carded => card.id = MineOf(c) /\ Asks(c)
    BY <2>1, <2>2 DEF IInv, Holds, HolderAsks, WaitsHolding
  <2> QED BY <2>3 DEF SendFindsCardTaken, CardTaken
<1>3. card' = card \/ card' = [card EXCEPT !.stale = FALSE]
  BY DEF SendFindsCardTaken
<1> QED BY <1>1, <1>2, <1>3, LetGoKeeps DEF SendFindsCardTaken

-----------------------------------------------------------------------------
(* A wait that is over resumes *)

\* What waits or was woken was so before; who holds held; a row is the one it had, or none.
Dims(l, m) ==
  /\ m.at \in {"waiting", "woken"} => m.at = l.at /\ m.got = l.got /\ m.yes = l.yes
  /\ m.holds => l.holds /\ m.at = l.at
  /\ m.ask \in {0, l.ask}

LEMMA DimmedLegs ==
  ASSUME IInv, UNCHANGED world,
         \A d \in Call : Dims(leg[d], leg'[d]) /\ Dims(stray[d], stray'[d])
  PROVE  /\ LegsAreBlank' /\ OneWait'
         /\ \A m \in Message : LegYes(m)' \subseteq LegYes(m) /\ StrayYes(m)' \subseteq StrayYes(m)
<1>1. LegsAreBlank'
  BY DEF IInv, LegsAreBlank, Dims
<1>2. OneWait'
  BY DEF IInv, OneWait, Dims
<1>3. \A m \in Message : LegYes(m)' \subseteq LegYes(m) /\ StrayYes(m)' \subseteq StrayYes(m)
  BY DEF LegYes, StrayYes, Yes, Dims
<1> QED BY <1>1, <1>2, <1>3

\* The leg of a send that resumes lets go of what the legs of its call held, and of no
\* other.
LEMMA ResumeHolds ==
  ASSUME IInv, NEW c \in Send, NEW l \in {leg[c], stray[c]}, UNCHANGED world,
         EndsItsQuestion(c, l), Releases(c, l), l.at = "woken",
         \A d \in Call : Dims(leg[d], leg'[d]) /\ Dims(stray[d], stray'[d]),
         l.holds => ~leg'[c].holds /\ ~stray'[c].holds
  PROVE  /\ Holds'
         /\ hold' \in [Surface -> [by : Send \cup {None}, ask : Nat]]
         /\ card' \in [id : Nat, of : Session \cup {None}, what : Word, stale : BOOLEAN]
<1> DEFINE k == Face(SessionOf[c])
<1>1. c \in Call /\ k \in Surface /\ Shape
  BY Faces DEF Call, IInv
<1>2. CASE l.holds
  <2>1. /\ hold' = [hold EXCEPT ![k] = NoHold] /\ card' \in {card, NoBlock}
        /\ hold[k].by = c
    BY <1>1, <1>2 DEF Releases, LetGo, EndsItsQuestion, IInv, Holds, HoldsItsSurface
  <2>2. ASSUME NEW d \in Call, NEW m \in {leg'[d], stray'[d]}, m.holds
        PROVE  d \in Send /\ hold[Face(SessionOf[d])].by = d /\ Face(SessionOf[d]) # k
    <3>1. d \in Send /\ hold[Face(SessionOf[d])].by = d
      BY <2>2 DEF Dims, IInv, Holds, HoldsItsSurface
    <3>2. d # c
      BY <1>2, <2>2
    <3> QED BY <2>1, <3>1, <3>2
  <2>3. hold' \in [Surface -> [by : Send \cup {None}, ask : Nat]]
    BY <1>1, <2>1 DEF Shape, NoHold
  <2>4. card' \in [id : Nat, of : Session \cup {None}, what : Word, stale : BOOLEAN]
    <3>1. NoBlock \in [id : Nat, of : Session \cup {None}, what : Word, stale : BOOLEAN]
      BY DEF NoBlock, Word
    <3> QED BY <1>1, <2>1, <3>1 DEF Shape
  <2>5. HoldsItsSurface'
    <3> SUFFICES ASSUME NEW d \in Call, NEW m \in {leg'[d], stray'[d]}, m.holds
                 PROVE  d \in Send /\ hold'[Face(SessionOf[d])].by = d
      BY DEF HoldsItsSurface, Face
    <3> QED BY <1>1, <2>1, <2>2, Faces DEF Shape
  <2>6. AsksAreApart'
    <3> SUFFICES ASSUME NEW d \in Call, NEW m \in {leg'[d], stray'[d]}, m.ask # 0, NEW j \in Surface
                 PROVE  hold'[j].ask # m.ask
      BY DEF AsksAreApart
    <3>1. m.ask \in {leg[d].ask, stray[d].ask}
      BY DEF Dims
    <3>2. hold[j].ask # m.ask
      BY <3>1 DEF IInv, Holds, AsksAreApart
    <3> QED BY <1>1, <2>1, <3>2 DEF Shape, NoHold
  <2>7. HolderAsks'
    <3> SUFFICES ASSUME carded, NEW d \in Send, NEW m \in {leg'[d], stray'[d]}, WaitsHolding(d, m)
                 PROVE  FALSE
      BY DEF HolderAsks, WaitsHolding
    <3>1. d \in Call /\ Face(SessionOf[d]) # k
      BY <2>2 DEF WaitsHolding, Call
    <3> QED BY <1>1, <3>1, Faces
  <2> QED BY <2>3, <2>4, <2>5, <2>6, <2>7 DEF Holds
<1>3. CASE ~l.holds
  <2>1. hold' = hold /\ card' = card
    BY <1>3 DEF Releases, EndsItsQuestion
  <2>2. HoldsItsSurface'
    BY <2>1 DEF IInv, Holds, HoldsItsSurface, Dims, Face
  <2>3. AsksAreApart'
    BY <2>1 DEF IInv, Holds, AsksAreApart, Dims
  <2>4. HolderAsks'
    <3> SUFFICES ASSUME carded, NEW d \in Send, NEW m \in {leg'[d], stray'[d]}, WaitsHolding(d, m)
                 PROVE  (card.id # 0 /\ card.id = MineOf(d) /\ Asks(d) /\ ~card.stale)'
      BY DEF HolderAsks, WaitsHolding
    <3>1. d \in Call /\ \E n \in {leg[d], stray[d]} : WaitsHolding(d, n)
      BY DEF WaitsHolding, Call, Dims
    <3>2. card.id # 0 /\ card.id = MineOf(d) /\ Asks(d) /\ ~card.stale
      BY <3>1 DEF IInv, Holds, HolderAsks
    <3> QED BY <2>1, <3>2 DEF MineOf, Asks, Face
  <2> QED BY <1>1, <2>1, <2>2, <2>3, <2>4 DEF Holds, Shape
<1> QED BY <1>2, <1>3

\* A yes that sends is taken from those on their way, and from those paid.
LEMMA SpentIsPaid ==
  ASSUME Shape, Paid, NEW c \in Send, NEW l, l.at = "woken", Spent(c, l),
         \/ l = leg[c] /\ ~\E m \in Message : Yes(leg'[c], m)
         \/ l = stray[c] /\ ~\E m \in Message : Yes(stray'[c], m),
         \A m \in Message : /\ LegYes(m)' \subseteq LegYes(m) /\ StrayYes(m)' \subseteq StrayYes(m)
                            /\ BufferYes(m)' \subseteq BufferYes(m)
  PROVE  Paid' /\ unspent' \in [Message -> Int]
<1>1. CASE ~Grants(c, l)
  BY <1>1, PaidStays DEF Spent, Shape
<1>2. CASE Grants(c, l)
  <2> DEFINE mine == MessageOf[c]
  <2>1. mine \in Message /\ c \in Call /\ unspent' = [unspent EXCEPT ![mine] = @ - 1] /\ Yes(l, mine)
    BY <1>2 DEF Spent, Grants, Yes, Call
  <2>2. unspent' \in [Message -> Int]
    BY <2>1 DEF Shape
  <2>3. ASSUME NEW m \in Message PROVE OnTheirWay(m)' <= unspent'[m]
    <3>1. OnTheirWay(m) <= unspent[m] /\ unspent[m] \in Int
      BY DEF Paid, Shape
    <3>2. /\ Cardinality(LegYes(m)') \in Nat /\ Cardinality(LegYes(m)) \in Nat
          /\ Cardinality(LegYes(m)') <= Cardinality(LegYes(m))
      BY YesesAreFinite, Fewer
    <3>3. /\ Cardinality(StrayYes(m)') \in Nat /\ Cardinality(StrayYes(m)) \in Nat
          /\ Cardinality(StrayYes(m)') <= Cardinality(StrayYes(m))
      BY YesesAreFinite, Fewer
    <3>4. /\ Cardinality(BufferYes(m)') \in Nat /\ Cardinality(BufferYes(m)) \in Nat
          /\ Cardinality(BufferYes(m)') <= Cardinality(BufferYes(m))
      BY YesesAreFinite, Fewer
    <3>5. OnTheirWay(m)' = Cardinality(LegYes(m)') + Cardinality(StrayYes(m)') + Cardinality(BufferYes(m)')
      BY DEF OnTheirWay
    <3>6. CASE m # mine
      <4>1. unspent'[m] = unspent[m]
        BY <2>1, <3>6 DEF Shape
      <4> QED BY <3>1, <3>2, <3>3, <3>4, <3>5, <4>1 DEF OnTheirWay
    <3>7. CASE m = mine
      <4>1. unspent'[m] = unspent[m] - 1
        BY <2>1, <3>7 DEF Shape
      <4>2. CASE l = leg[c] /\ ~Yes(leg'[c], m)
        <5>1. c \in LegYes(m) /\ LegYes(m)' \subseteq LegYes(m) \ {c}
          BY <2>1, <3>7, <4>2 DEF LegYes
        <5>2. Cardinality(LegYes(m)') + 1 <= Cardinality(LegYes(m))
          BY <5>1, OneLess, YesesAreFinite
        <5> QED BY <3>1, <3>2, <3>3, <3>4, <3>5, <4>1, <5>2 DEF OnTheirWay
      <4>3. CASE l = stray[c] /\ ~Yes(stray'[c], m)
        <5>1. c \in StrayYes(m) /\ StrayYes(m)' \subseteq StrayYes(m) \ {c}
          BY <2>1, <3>7, <4>3 DEF StrayYes
        <5>2. Cardinality(StrayYes(m)') + 1 <= Cardinality(StrayYes(m))
          BY <5>1, OneLess, YesesAreFinite
        <5> QED BY <3>1, <3>2, <3>3, <3>4, <3>5, <4>1, <5>2 DEF OnTheirWay
      <4> QED BY <4>2, <4>3
    <3> QED BY <3>6, <3>7
  <2> QED BY <2>2, <2>3 DEF Paid
<1> QED BY <1>1, <1>2

LEMMA ResumedLeg ==
  ASSUME NEW c \in Send, NEW l \in Leg
  PROVE  /\ Resumed(c, l) \in Leg /\ Resumed(c, l).at \notin {"waiting", "woken"}
         /\ ~Resumed(c, l).holds /\ Resumed(c, l).ask = 0
<1>1. /\ NoLeg.at = "none" /\ ~NoLeg.holds /\ NoLeg.ask = 0
      /\ [NoLeg EXCEPT !.at = "sending"].at = "sending" /\ ~[NoLeg EXCEPT !.at = "sending"].holds
      /\ [NoLeg EXCEPT !.at = "sending"].ask = 0
  BY DEF NoLeg
<1> QED BY <1>1, NoLegType DEF Resumed

LEMMA ReleasedLeg ==
  ASSUME NEW l \in Leg
  PROVE  /\ [l EXCEPT !.holds = FALSE] \in Leg /\ ~[l EXCEPT !.holds = FALSE].holds
         /\ Dims(l, [l EXCEPT !.holds = FALSE])
  BY DEF Leg, Dims

LEMMA SendResumesKeeps ==
  ASSUME IInv, NEW c \in Send, SendResumes(c)
  PROVE  IInv'
<1> DEFINE l == leg[c]
           m == [stray[c] EXCEPT !.holds = FALSE]
<1>1. c \in Call /\ l \in Leg /\ stray[c] \in Leg /\ Shape /\ Paid
  BY Faces DEF Call, IInv
<1>2. /\ l.at = "woken" /\ EndsItsQuestion(c, l) /\ Releases(c, l) /\ Spent(c, l)
      /\ leg' = [leg EXCEPT ![c] = Resumed(c, l)]
      /\ stray' = IF l.holds THEN [stray EXCEPT ![c] = m] ELSE stray
      /\ UNCHANGED <<world, buffer, painted>>
  BY DEF SendResumes
<1>3. m \in Leg /\ ~m.holds /\ Dims(stray[c], m)
  BY <1>1, ReleasedLeg
<1>4. /\ Resumed(c, l) \in Leg /\ Resumed(c, l).at \notin {"waiting", "woken"}
      /\ ~Resumed(c, l).holds /\ Resumed(c, l).ask = 0
  BY <1>1, ResumedLeg
<1> HIDE DEF m
<1>5. leg \in [Call -> Leg] /\ stray \in [Call -> Leg]
  BY <1>1 DEF Shape
<1>6. leg' \in [Call -> Leg] /\ stray' \in [Call -> Leg]
  BY <1>2, <1>3, <1>4, <1>5
<1>7. /\ leg'[c] = Resumed(c, l)
      /\ l.holds => stray'[c] = m
      /\ \A d \in Call : d # c => leg'[d] = leg[d]
      /\ \A d \in Call : stray'[d] = stray[d] \/ (d = c /\ stray'[d] = m)
  BY <1>1, <1>2, <1>5
<1>8. \A d \in Call : Dims(leg[d], leg'[d]) /\ Dims(stray[d], stray'[d])
  <2>1. \A n : Dims(n, n)
    BY DEF Dims
  <2>2. Dims(l, leg'[c])
    BY <1>4, <1>7 DEF Dims
  <2> QED BY <1>3, <1>7, <2>1, <2>2
<1>9. l.holds => ~leg'[c].holds /\ ~stray'[c].holds
  BY <1>3, <1>4, <1>7
<1>10. /\ Holds' /\ hold' \in [Surface -> [by : Send \cup {None}, ask : Nat]]
       /\ card' \in [id : Nat, of : Session \cup {None}, what : Word, stale : BOOLEAN]
  BY <1>2, <1>8, <1>9, ResumeHolds
<1>11. /\ LegsAreBlank' /\ OneWait'
       /\ \A n \in Message : LegYes(n)' \subseteq LegYes(n) /\ StrayYes(n)' \subseteq StrayYes(n)
  BY <1>2, <1>8, DimmedLegs
<1>12. ~\E n \in Message : Yes(leg'[c], n)
  BY <1>4, <1>7 DEF Yes
<1>13. \A n \in Message : BufferYes(n)' \subseteq BufferYes(n)
  BY <1>2 DEF BufferYes
<1>14. Paid' /\ unspent' \in [Message -> Int]
  BY <1>1, <1>2, <1>11, <1>12, <1>13, SpentIsPaid
<1>15. Shape'
  BY <1>1, <1>2, <1>6, <1>10, <1>14 DEF Shape
<1> QED BY <1>10, <1>11, <1>14, <1>15 DEF IInv

LEMMA StrayResumesKeeps ==
  ASSUME IInv, NEW c \in Send, StrayResumes(c)
  PROVE  IInv'
<1> DEFINE l == stray[c]
           m == [leg[c] EXCEPT !.holds = FALSE]
<1>1. c \in Call /\ l \in Leg /\ leg[c] \in Leg /\ Shape /\ Paid
  BY Faces DEF Call, IInv
<1>2. /\ l.at = "woken" /\ EndsItsQuestion(c, l) /\ Releases(c, l) /\ Spent(c, l)
      /\ stray' = [stray EXCEPT ![c] = Resumed(c, l)]
      /\ leg' = IF l.holds THEN [leg EXCEPT ![c] = m] ELSE leg
      /\ UNCHANGED <<world, buffer, painted>>
  BY DEF StrayResumes
<1>3. m \in Leg /\ ~m.holds /\ Dims(leg[c], m)
  BY <1>1, ReleasedLeg
<1>4. /\ Resumed(c, l) \in Leg /\ Resumed(c, l).at \notin {"waiting", "woken"}
      /\ ~Resumed(c, l).holds /\ Resumed(c, l).ask = 0
  BY <1>1, ResumedLeg
<1> HIDE DEF m
<1>5. leg \in [Call -> Leg] /\ stray \in [Call -> Leg]
  BY <1>1 DEF Shape
<1>6. leg' \in [Call -> Leg] /\ stray' \in [Call -> Leg]
  BY <1>2, <1>3, <1>4, <1>5
<1>7. /\ stray'[c] = Resumed(c, l)
      /\ l.holds => leg'[c] = m
      /\ \A d \in Call : d # c => stray'[d] = stray[d]
      /\ \A d \in Call : leg'[d] = leg[d] \/ (d = c /\ leg'[d] = m)
  BY <1>1, <1>2, <1>5
<1>8. \A d \in Call : Dims(leg[d], leg'[d]) /\ Dims(stray[d], stray'[d])
  <2>1. \A n : Dims(n, n)
    BY DEF Dims
  <2>2. Dims(l, stray'[c])
    BY <1>4, <1>7 DEF Dims
  <2> QED BY <1>3, <1>7, <2>1, <2>2
<1>9. l.holds => ~leg'[c].holds /\ ~stray'[c].holds
  BY <1>3, <1>4, <1>7
<1>10. /\ Holds' /\ hold' \in [Surface -> [by : Send \cup {None}, ask : Nat]]
       /\ card' \in [id : Nat, of : Session \cup {None}, what : Word, stale : BOOLEAN]
  BY <1>2, <1>8, <1>9, ResumeHolds
<1>11. /\ LegsAreBlank' /\ OneWait'
       /\ \A n \in Message : LegYes(n)' \subseteq LegYes(n) /\ StrayYes(n)' \subseteq StrayYes(n)
  BY <1>2, <1>8, DimmedLegs
<1>12. ~\E n \in Message : Yes(stray'[c], n)
  BY <1>4, <1>7 DEF Yes
<1>13. \A n \in Message : BufferYes(n)' \subseteq BufferYes(n)
  BY <1>2 DEF BufferYes
<1>14. Paid' /\ unspent' \in [Message -> Int]
  BY <1>1, <1>2, <1>11, <1>12, <1>13, SpentIsPaid
<1>15. Shape'
  BY <1>1, <1>2, <1>6, <1>10, <1>14 DEF Shape
<1> QED BY <1>10, <1>11, <1>14, <1>15 DEF IInv

\* A question takes off the card the row its leg wrote, which is no row of a hold.
LEMMA AskOffHolds ==
  ASSUME IInv, NEW c \in Ask, NEW l \in {leg[c], stray[c]}, AskOff(l), UNCHANGED <<world, hold>>,
         \A d \in Call : Dims(leg[d], leg'[d]) /\ Dims(stray[d], stray'[d])
  PROVE  /\ Holds'
         /\ card' \in [id : Nat, of : Session \cup {None}, what : Word, stale : BOOLEAN]
<1>1. HoldsItsSurface'
  BY DEF IInv, Holds, HoldsItsSurface, Dims, Face
<1>2. AsksAreApart'
  BY DEF IInv, Holds, AsksAreApart, Dims
<1>3. card' \in [id : Nat, of : Session \cup {None}, what : Word, stale : BOOLEAN]
  <2>1. NoBlock \in [id : Nat, of : Session \cup {None}, what : Word, stale : BOOLEAN]
    BY DEF NoBlock, Word
  <2>2. card' = card \/ card' = NoBlock
    BY DEF AskOff
  <2> QED BY <2>1, <2>2 DEF IInv, Shape
<1>4. HolderAsks'
  <2> SUFFICES ASSUME carded, NEW d \in Send, NEW m \in {leg'[d], stray'[d]}, WaitsHolding(d, m)
               PROVE  (card.id # 0 /\ card.id = MineOf(d) /\ Asks(d) /\ ~card.stale)'
    BY DEF HolderAsks, WaitsHolding
  <2>1. d \in Call /\ \E n \in {leg[d], stray[d]} : WaitsHolding(d, n)
    BY DEF WaitsHolding, Call, Dims
  <2>2. card.id # 0 /\ card.id = MineOf(d) /\ Asks(d) /\ ~card.stale
    BY <2>1 DEF IInv, Holds, HolderAsks
  <2>3. card' = card
    <3>1. Face(SessionOf[d]) \in Surface /\ c \in Call
      BY <2>1, Faces DEF IInv, Call
    <3>2. l.ask # 0 => hold[Face(SessionOf[d])].ask # l.ask
      BY <3>1 DEF IInv, Holds, AsksAreApart
    <3> QED BY <2>2, <3>2 DEF AskOff, MineOf
  <2> QED BY <2>2, <2>3 DEF MineOf, Asks, Face
<1> QED BY <1>1, <1>2, <1>3, <1>4 DEF Holds

LEMMA AskResumesKeeps ==
  ASSUME IInv, NEW c \in Ask, AskResumes(c)
  PROVE  IInv'
<1>1. c \in Call /\ Shape /\ leg \in [Call -> Leg] /\ stray \in [Call -> Leg] /\ NoLeg \in Leg
  BY NoLegType DEF Call, IInv, Shape
<1>2. UNCHANGED <<world, hold, buffer, painted, unspent>>
  BY DEF AskResumes
<1>3. \/ leg' = [leg EXCEPT ![c] = NoLeg] /\ stray' = stray /\ AskOff(leg[c])
      \/ stray' = [stray EXCEPT ![c] = NoLeg] /\ leg' = leg /\ AskOff(stray[c])
  BY DEF AskResumes
<1>4. leg' \in [Call -> Leg] /\ stray' \in [Call -> Leg]
  BY <1>1, <1>3
<1>5. \A d \in Call : Dims(leg[d], leg'[d]) /\ Dims(stray[d], stray'[d])
  <2>1. \A n : Dims(n, n) /\ Dims(n, NoLeg)
    BY DEF Dims, NoLeg
  <2>2. \A d \in Call : leg'[d] \in {leg[d], NoLeg} /\ stray'[d] \in {stray[d], NoLeg}
    BY <1>1, <1>3
  <2> QED BY <2>1, <2>2
<1>6. /\ Holds'
      /\ card' \in [id : Nat, of : Session \cup {None}, what : Word, stale : BOOLEAN]
  BY <1>2, <1>3, <1>5, AskOffHolds
<1>7. /\ LegsAreBlank' /\ OneWait'
      /\ \A n \in Message : LegYes(n)' \subseteq LegYes(n) /\ StrayYes(n)' \subseteq StrayYes(n)
  BY <1>2, <1>5, DimmedLegs
<1>8. Paid'
  <2>1. \A n \in Message : BufferYes(n)' \subseteq BufferYes(n)
    BY <1>2 DEF BufferYes
  <2> QED BY <1>1, <1>2, <1>7, <2>1, PaidStays DEF IInv
<1>9. Shape'
  BY <1>1, <1>2, <1>4, <1>6 DEF Shape
<1> QED BY <1>6, <1>7, <1>8, <1>9 DEF IInv

-----------------------------------------------------------------------------
(* A wait begins *)

LEMMA WaitKeeps ==
  ASSUME IInv, Settled, NEW c \in Call, NEW p, NEW l \in Leg, l.got = None, NEW lost,
         Waits(c, p, l, lost), UNCHANGED <<world, unspent>>
  PROVE  LegsAreBlank' /\ OneWait' /\ Paid'
<1> DEFINE s == SessionOf[c]
<1>1. Shape /\ LegsAreBlank /\ OneWait /\ Paid /\ s \in Session
  BY Faces DEF IInv
<1>2. /\ \A d \in Call : leg[d] \in Leg /\ stray[d] \in Leg /\ leg'[d] \in Leg /\ stray'[d] \in Leg
      /\ \A d \in Call : leg[d].at # "woken" /\ stray[d].at # "woken"
  BY <1>1, WaitBegins DEF Shape, Settled
<1>3. \A d \in Call \ {c} : leg'[d] = leg[d] \/ (leg[d].at = "waiting" /\ leg'[d] = Rouse(leg[d]))
  BY <1>1, WaitBegins
<1>4. \A d \in Call : stray'[d] = stray[d] \/ (stray[d].at = "waiting" /\ stray'[d] = Rouse(stray[d]))
  BY <1>1, WaitBegins
<1>5. \A d \in Call \ {c} :
        /\ leg'[d].at = "waiting" => leg[d].at = "waiting"
        /\ leg'[d].at \in {"waiting", "woken"} => leg'[d].got = None
        /\ leg'[d].holds => leg'[d].at \in {"waiting", "woken"}
  BY <1>1, <1>2, <1>3, RouseType DEF LegsAreBlank
<1>6. \A d \in Call :
        /\ stray'[d].at = "waiting" => stray[d].at = "waiting"
        /\ stray'[d].at \in {"waiting", "woken"} => stray'[d].got = None
        /\ stray'[d].holds => stray'[d].at \in {"waiting", "woken"}
  BY <1>1, <1>2, <1>4, RouseType DEF LegsAreBlank
<1>7. \/ /\ leg'[c].at = "waiting" /\ leg'[c].got = None
         /\ \A d \in Call : SessionOf[d] = s =>
              (d # c => leg'[d].at # "waiting") /\ stray'[d].at # "waiting"
      \/ /\ leg'[c].at = "woken" /\ leg'[c].got = buffer[s].what
         /\ leg'[c].yes = buffer[s].yes
         /\ buffer'[s] = NoAnswer
  BY <1>1, WaitBegins
<1>8. LegsAreBlank'
  BY <1>5, <1>6, <1>7 DEF LegsAreBlank
<1>9. OneWait'
  BY <1>1, <1>5, <1>6, <1>7 DEF OneWait
<1>10. ASSUME NEW m \in Message PROVE OnTheirWay(m)' <= unspent'[m]
  <2>1. OnTheirWay(m) <= unspent[m] /\ unspent'[m] = unspent[m] /\ unspent[m] \in Int
    BY <1>1 DEF Paid, Shape
  <2>2. Cardinality(LegYes(m)) = 0 /\ Cardinality(StrayYes(m)) = 0
    BY SettledOwesNothing, FS_EmptySet
  <2>3. StrayYes(m)' = {} /\ LegYes(m)' \subseteq {c}
    BY <1>5, <1>6 DEF StrayYes, LegYes, Yes
  <2>4. \A t \in Session : buffer'[t] = buffer[t] \/ buffer'[t] = NoAnswer
    BY <1>1, WaitBegins
  <2>5. BufferYes(m)' \subseteq BufferYes(m)
    BY <2>4 DEF BufferYes, NoAnswer
  <2>6. /\ Cardinality(StrayYes(m)') = 0
        /\ OnTheirWay(m)' = Cardinality(LegYes(m)') + Cardinality(StrayYes(m)') + Cardinality(BufferYes(m)')
        /\ OnTheirWay(m) = Cardinality(LegYes(m)) + Cardinality(StrayYes(m)) + Cardinality(BufferYes(m))
    BY <2>3, FS_EmptySet DEF OnTheirWay
  <2>7. Cardinality(BufferYes(m)) \in Nat
    BY YesesAreCounted
  <2>8. CASE c \notin LegYes(m)'
    <3>1. LegYes(m)' = {}
      BY <2>3, <2>8
    <3>2. Cardinality(LegYes(m)') = 0
      BY <3>1, FS_EmptySet
    <3>3. Cardinality(BufferYes(m)') \in Nat /\ Cardinality(BufferYes(m)') <= Cardinality(BufferYes(m))
      BY <2>5, YesesAreFinite, Fewer
    <3> QED BY <2>1, <2>2, <2>6, <2>7, <3>2, <3>3
  <2>9. CASE c \in LegYes(m)'
    <3>1. leg'[c].at = "woken" /\ leg'[c].got = m /\ leg'[c].yes
      BY <2>9 DEF LegYes, Yes
    <3>2. s \in BufferYes(m) /\ s \notin BufferYes(m)'
      <4>1. /\ leg'[c].got = buffer[s].what /\ leg'[c].yes = buffer[s].yes
            /\ buffer'[s] = NoAnswer
        BY <1>7, <3>1
      <4>2. buffer[s].what = m /\ buffer[s].yes
        BY <3>1, <4>1, Zenon
      <4>3. buffer'[s].what # m
        BY <4>1 DEF NoAnswer
      <4> QED BY <1>1, <4>2, <4>3 DEF BufferYes
    <3>3. Cardinality(BufferYes(m)') \in Nat /\ Cardinality(BufferYes(m)') + 1 <= Cardinality(BufferYes(m))
      <4>1. BufferYes(m)' \subseteq BufferYes(m) \ {s}
        BY <2>5, <3>2
      <4> QED BY <3>2, <4>1, OneLess, YesesAreFinite
    <3>4. Cardinality(LegYes(m)') \in Nat /\ Cardinality(LegYes(m)') <= Cardinality({}) + 1
      <4>1. LegYes(m)' \subseteq {} \cup {c}
        BY <2>3
      <4> QED BY <4>1, OneMore, FS_EmptySet
    <3>5. Cardinality({}) = 0
      BY FS_EmptySet
    <3> QED BY <2>1, <2>2, <2>6, <2>7, <3>3, <3>4, <3>5
  <2> QED BY <2>8, <2>9
<1> QED BY <1>8, <1>9, <1>10 DEF Paid

\* What the wait of another call does to a leg that holds: nothing, or it is over.
LEMMA HoldersInWaits ==
  ASSUME IInv, Settled, NEW c \in Call, NEW p, NEW l \in Leg, NEW lost,
         Waits(c, p, l, lost), UNCHANGED world,
         NEW d \in Call, NEW n, (n = leg'[d] /\ d # c) \/ n = stray'[d]
  PROVE  /\ n.ask \in {leg[d].ask, stray[d].ask}
         /\ n.holds => d \in Send /\ hold[Face(SessionOf[d])].by = d
         /\ WaitsHolding(d, n) =>
              /\ \E o \in {leg[d], stray[d]} : WaitsHolding(d, o)
              /\ SessionOf[d] # lost
<1>1. Shape /\ leg[d] \in Leg /\ stray[d] \in Leg
  BY Faces DEF IInv
<1>2. \E o \in {leg[d], stray[d]} : n = o \/ (o.at = "waiting" /\ n = Rouse(o))
  BY <1>1, WaitBegins
<1>3. PICK o \in {leg[d], stray[d]} : n = o \/ (o.at = "waiting" /\ n = Rouse(o))
  BY <1>2
<1>4. n.ask = o.ask /\ (n.holds => o.holds) /\ (n.at = "waiting" => n = o)
  BY <1>1, <1>3, RouseType
<1>5. SessionOf[d] = lost => n.at # "waiting"
  BY <1>1, WaitBegins
<1>6. o.holds => d \in Send /\ hold[Face(SessionOf[d])].by = d
  BY <1>3 DEF IInv, Holds, HoldsItsSurface
<1> QED BY <1>3, <1>4, <1>5, <1>6 DEF WaitsHolding

LEMMA SendWaitsKeeps ==
  ASSUME IInv, NEW c \in Send, SendWaits(c)
  PROVE  IInv'
<1> DEFINE k == Face(SessionOf[c])
           new == carded /\ ~Asks(c)
           id == IF new THEN Fresh(UsedIds) ELSE MineOf(c)
           l == [NoLeg EXCEPT !.holds = TRUE]
           lost == IF new THEN Loser(c) ELSE None
           panel == PanelOf(SessionOf[c])
<1>1. /\ c \in Call /\ k \in Surface /\ SessionOf[c] \in Session /\ Shape /\ l \in Leg
      /\ l.got = None /\ l.holds /\ l.ask = 0
  BY Faces, NoLegType DEF Call, IInv, NoLeg
<1>2. /\ Settled /\ MayHold(c) /\ ~CardTaken(c)
      /\ hold' = [hold EXCEPT ![k] = [by |-> c, ask |-> id]]
      /\ card' = IF new THEN NewBlock(c, id) ELSE IF carded THEN [card EXCEPT !.stale = FALSE] ELSE card
      /\ painted' = painted \/ painted' = [painted EXCEPT ![panel] = MessageOf[c]]
      /\ Waits(c, panel, l, lost) /\ UNCHANGED <<world, unspent>>
  BY DEF SendWaits, Posting
<1> HIDE DEF l, lost, panel
<1>3. /\ id \in Nat /\ (new => id # 0)
      /\ \A d \in Call : (leg[d].ask = id \/ stray[d].ask = id) => id = MineOf(c)
  BY <1>1, NewRow DEF Shape, MineOf
<1>4. LegsAreBlank' /\ OneWait' /\ Paid'
  BY <1>1, <1>2, WaitKeeps
<1>5. leg'[c].holds /\ leg'[c].ask = 0
  BY <1>1, <1>2, WaitBegins
<1>6. \A j \in Surface : hold'[j] = IF j = k THEN [by |-> c, ask |-> id] ELSE hold[j]
  BY <1>1, <1>2 DEF Shape
<1>7. \A d \in Call : hold[k].by = d => d = c
  BY <1>1, <1>2, Faces DEF MayHold
<1>8. Shape'
  <2>1. /\ leg' \in [Call -> Leg] /\ stray' \in [Call -> Leg]
        /\ buffer' \in [Session -> [what : Word, yes : BOOLEAN, on : Call \cup {None}]]
    BY <1>1, <1>2, WaitBegins
  <2>2. hold' \in [Surface -> [by : Send \cup {None}, ask : Nat]]
    BY <1>1, <1>2, <1>3 DEF Shape
  <2>3. card' \in [id : Nat, of : Session \cup {None}, what : Word, stale : BOOLEAN]
    <3>1. NewBlock(c, id) \in [id : Nat, of : Session \cup {None}, what : Word, stale : BOOLEAN]
      BY <1>1, <1>3, WhatIsAWord DEF NewBlock
    <3> QED BY <1>1, <1>2, <3>1 DEF Shape
  <2>4. painted' \in [Call -> Word]
    BY <1>1, <1>2 DEF Shape, Word
  <2> QED BY <1>1, <1>2, <2>1, <2>2, <2>3, <2>4 DEF Shape
<1>9. HoldsItsSurface'
  <2> SUFFICES ASSUME NEW d \in Call, NEW n \in {leg'[d], stray'[d]}, n.holds
               PROVE  d \in Send /\ hold'[Face(SessionOf[d])].by = d
    BY <1>2 DEF HoldsItsSurface, Face
  <2>1. Face(SessionOf[d]) \in Surface
    BY <1>1, Faces
  <2>2. CASE n = leg'[d] /\ d = c
    BY <1>6, <2>1, <2>2
  <2>3. CASE (n = leg'[d] /\ d # c) \/ n = stray'[d]
    <3>1. d \in Send /\ hold[Face(SessionOf[d])].by = d
      BY <1>1, <1>2, <2>3, HoldersInWaits
    <3> QED BY <1>6, <1>7, <2>1, <3>1
  <2> QED BY <2>2, <2>3
<1>10. AsksAreApart'
  <2> SUFFICES ASSUME NEW d \in Call, NEW n \in {leg'[d], stray'[d]}, n.ask # 0, NEW j \in Surface
               PROVE  hold'[j].ask # n.ask
    BY DEF AsksAreApart
  <2>1. n.ask \in {leg[d].ask, stray[d].ask}
    <3>1. (n = leg'[d] /\ d # c) \/ n = stray'[d]
      BY <1>5
    <3> QED BY <1>1, <1>2, <3>1, HoldersInWaits
  <2>2. \A i \in Surface : hold[i].ask # n.ask
    BY <2>1 DEF IInv, Holds, AsksAreApart
  <2>3. id # n.ask
    BY <1>1, <1>3, <2>1, <2>2 DEF MineOf
  <2> QED BY <1>6, <2>2, <2>3
<1>11. HolderAsks'
  <2> SUFFICES ASSUME carded, NEW d \in Send, NEW n \in {leg'[d], stray'[d]}, WaitsHolding(d, n)
               PROVE  (card.id # 0 /\ card.id = MineOf(d) /\ Asks(d) /\ ~card.stale)'
    BY <1>2 DEF HolderAsks, WaitsHolding
  <2>1. d = c
    <3>1. CASE (n = leg'[d] /\ d # c) \/ n = stray'[d]
      <4>1. d \in Call /\ hold[Face(SessionOf[d])].by = d
        BY <1>1, <1>2, <3>1, HoldersInWaits DEF WaitsHolding, Call
      <4>2. Face(SessionOf[d]) = k
        BY <1>1, <4>1, Faces
      <4> QED BY <1>7, <4>1, <4>2
    <3> QED BY <3>1
  <2>2. MineOf(d)' = id
    BY <1>1, <1>2, <1>6, <2>1 DEF MineOf, Face
  <2>3. CASE new
    BY <1>2, <1>3, <2>1, <2>2, <2>3 DEF NewBlock, Asks, What
  <2>4. CASE ~new
    <3>1. Asks(c) /\ card.id = MineOf(c) /\ card' = [card EXCEPT !.stale = FALSE]
      BY <1>2, <2>4 DEF CardTaken
    <3> QED BY <1>1, <1>2, <2>1, <2>2, <2>4, <3>1 DEF Asks, Shape
  <2> QED BY <2>3, <2>4
<1> QED BY <1>4, <1>8, <1>9, <1>10, <1>11 DEF IInv, Holds

LEMMA AskWaitsKeeps ==
  ASSUME IInv, NEW c \in Ask, AskWaits(c)
  PROVE  IInv'
<1> DEFINE new == carded /\ TakesCard(c, open \cup {SessionOf[c]})
           id == IF new THEN Fresh(UsedIds) ELSE 0
           l == [NoLeg EXCEPT !.ask = id]
           lost == IF new THEN Loser(c) ELSE None
<1>1. /\ c \in Call /\ SessionOf[c] \in Session /\ Shape
  BY Faces DEF Call, IInv
<1>2. /\ Settled /\ UNCHANGED <<world, hold, painted, unspent>>
      /\ card' = IF new THEN NewBlock(c, id)
                 ELSE IF carded /\ Asks(c) THEN [card EXCEPT !.stale = FALSE] ELSE card
      /\ Waits(c, c, l, lost)
  BY DEF AskWaits, Posting
<1>3. /\ id \in Nat /\ (new => id # 0)
      /\ id # 0 => \A j \in Surface : hold[j].ask # id
  BY <1>1, NewRow
<1>4. l \in Leg /\ l.got = None /\ ~l.holds /\ l.ask = id
  BY <1>3, NoLegType DEF NoLeg
<1> HIDE DEF l, id
<1>5. LegsAreBlank' /\ OneWait' /\ Paid'
  BY <1>1, <1>2, <1>4, WaitKeeps
<1>6. ~leg'[c].holds /\ leg'[c].ask = id
  BY <1>1, <1>2, <1>4, WaitBegins
<1>7. Shape'
  <2>1. /\ leg' \in [Call -> Leg] /\ stray' \in [Call -> Leg]
        /\ buffer' \in [Session -> [what : Word, yes : BOOLEAN, on : Call \cup {None}]]
    BY <1>1, <1>2, <1>4, WaitBegins
  <2>2. card' \in [id : Nat, of : Session \cup {None}, what : Word, stale : BOOLEAN]
    <3>1. NewBlock(c, id) \in [id : Nat, of : Session \cup {None}, what : Word, stale : BOOLEAN]
      BY <1>1, <1>3, WhatIsAWord DEF NewBlock
    <3> QED BY <1>1, <1>2, <3>1 DEF Shape
  <2> QED BY <1>1, <1>2, <2>1, <2>2 DEF Shape
<1>8. HoldsItsSurface'
  <2> SUFFICES ASSUME NEW d \in Call, NEW n \in {leg'[d], stray'[d]}, n.holds
               PROVE  d \in Send /\ hold[Face(SessionOf[d])].by = d
    BY <1>2 DEF HoldsItsSurface, Face
  <2>1. (n = leg'[d] /\ d # c) \/ n = stray'[d]
    BY <1>6
  <2> QED BY <1>1, <1>2, <1>4, <2>1, HoldersInWaits
<1>9. AsksAreApart'
  <2> SUFFICES ASSUME NEW d \in Call, NEW n \in {leg'[d], stray'[d]}, n.ask # 0, NEW j \in Surface
               PROVE  hold[j].ask # n.ask
    BY <1>2 DEF AsksAreApart
  <2>1. CASE n = leg'[d] /\ d = c
    BY <1>3, <1>6, <2>1
  <2>2. CASE (n = leg'[d] /\ d # c) \/ n = stray'[d]
    <3>1. n.ask \in {leg[d].ask, stray[d].ask}
      BY <1>1, <1>2, <1>4, <2>2, HoldersInWaits
    <3> QED BY <3>1 DEF IInv, Holds, AsksAreApart
  <2> QED BY <2>1, <2>2
<1>10. HolderAsks'
  <2> SUFFICES ASSUME carded, NEW d \in Send, NEW n \in {leg'[d], stray'[d]}, WaitsHolding(d, n)
               PROVE  (card.id # 0 /\ card.id = MineOf(d) /\ Asks(d) /\ ~card.stale)'
    BY <1>2 DEF HolderAsks, WaitsHolding
  <2>1. (n = leg'[d] /\ d # c) \/ n = stray'[d]
    BY <1>6 DEF WaitsHolding
  <2>2. /\ d \in Call /\ \E o \in {leg[d], stray[d]} : WaitsHolding(d, o)
        /\ SessionOf[d] # lost
    BY <1>1, <1>2, <1>4, <2>1, HoldersInWaits DEF Call
  <2>3. card.id # 0 /\ card.id = MineOf(d) /\ Asks(d) /\ ~card.stale
    BY <2>2 DEF IInv, Holds, HolderAsks
  <2>4. ~new
    <3> SUFFICES ASSUME new PROVE FALSE
      OBVIOUS
    <3>1. card.of = SessionOf[d] /\ card.of # SessionOf[c]
      BY <2>3 DEF TakesCard, Owned, Asks
    <3>2. lost = SessionOf[d]
      BY <2>3, <3>1 DEF Loser
    <3> QED BY <2>2, <3>2
  <2>5. /\ card'.id = card.id /\ card'.of = card.of /\ card'.what = card.what
        /\ card'.stale => card.stale
    BY <1>1, <1>2, <2>4 DEF Shape
  <2> QED BY <1>1, <1>2, <2>3, <2>5 DEF MineOf, Asks, Face, Shape
<1> QED BY <1>5, <1>7, <1>8, <1>9, <1>10 DEF IInv, Holds

-----------------------------------------------------------------------------
(* A person answers *)

\* An answer adds one yes at most, to the message it is about: in the one leg that waited,
\* or in the buffer.
LEMMA AnswerKeeps ==
  ASSUME IInv, Settled, NEW s, NEW what \in Word, NEW said \in BOOLEAN,
         NEW on \in Call \cup {None}, Delivered(s, what, said, on), UNCHANGED world
  PROVE  LegsAreBlank' /\ OneWait' /\ Paid'
<1>1. Shape /\ LegsAreBlank /\ OneWait /\ Paid
  BY DEF IInv
<1>2. \A d \in Call : /\ leg'[d] = Answered(leg[d], d, s, what, said)
                      /\ stray'[d] = Answered(stray[d], d, s, what, said)
                      /\ leg[d] \in Leg /\ stray[d] \in Leg
                      /\ leg[d].at # "woken" /\ stray[d].at # "woken"
  <2>1. /\ leg' = [d \in Call |-> Answered(leg[d], d, s, what, said)]
        /\ stray' = [d \in Call |-> Answered(stray[d], d, s, what, said)]
    BY <1>1, AnswerArrives
  <2>2. \A d \in Call : leg[d] \in Leg /\ stray[d] \in Leg
    BY <1>1 DEF Shape
  <2> QED BY <2>1, <2>2 DEF Settled
<1>3. ASSUME NEW d \in Call, NEW n \in Leg, n.at # "woken"
      PROVE  LET a == Answered(n, d, s, what, said)
             IN /\ a.holds = n.holds
                /\ a.at = "waiting" => a = n
                /\ a.at = "woken" => n.at = "waiting" /\ SessionOf[d] = s
                /\ a.at = "woken" => a = Serve(n, what, said)
                /\ a # n => a.at = "woken" /\ n.at = "waiting"
  BY <1>3, ServeType DEF Answered
<1>4. \A d \in Call : /\ leg'[d].holds = leg[d].holds
                      /\ leg'[d].at = "waiting" => leg'[d] = leg[d]
                      /\ leg'[d].at = "woken" => leg[d].at = "waiting" /\ SessionOf[d] = s
                      /\ leg'[d] # leg[d] => leg'[d].at = "woken" /\ leg[d].at = "waiting"
  BY <1>2, <1>3
<1>5. \A d \in Call : /\ stray'[d].holds = stray[d].holds
                      /\ stray'[d].at = "waiting" => stray'[d] = stray[d]
                      /\ stray'[d].at = "woken" => stray[d].at = "waiting" /\ SessionOf[d] = s
                      /\ stray'[d] # stray[d] => stray'[d].at = "woken" /\ stray[d].at = "waiting"
  BY <1>2, <1>3
<1>6. LegsAreBlank'
  BY <1>1, <1>4, <1>5 DEF LegsAreBlank
<1>7. OneWait'
  BY <1>1, <1>4, <1>5 DEF OneWait
<1>8. buffer' = IF leg' = leg /\ stray' = stray
                THEN [buffer EXCEPT ![s] = [what |-> what, yes |-> said, on |-> on]] ELSE buffer
  BY DEF Delivered
<1>9. ASSUME NEW m \in Message PROVE OnTheirWay(m)' <= unspent'[m]
  <2>1. OnTheirWay(m) <= unspent[m] /\ unspent[m] \in Int
    BY <1>1 DEF Paid, Shape
  <2>2. OnTheirWay(m) = Cardinality(BufferYes(m)) /\ Cardinality(BufferYes(m)) \in Nat
    <3>1. LegYes(m) = {} /\ StrayYes(m) = {} /\ Cardinality(BufferYes(m)) \in Nat
      BY SettledOwesNothing, YesesAreCounted
    <3>2. Cardinality(LegYes(m)) = 0 /\ Cardinality(StrayYes(m)) = 0
      BY <3>1, FS_EmptySet
    <3> QED BY <3>1, <3>2 DEF OnTheirWay
  <2>3. OnTheirWay(m)' = Cardinality(LegYes(m)') + Cardinality(StrayYes(m)') + Cardinality(BufferYes(m)')
    BY DEF OnTheirWay
  <2>4. \A c \in LegYes(m)' : c \in Call /\ leg[c].at = "waiting" /\ SessionOf[c] = s
    BY <1>4 DEF LegYes, Yes
  <2>5. \A c \in StrayYes(m)' : c \in Call /\ stray[c].at = "waiting" /\ SessionOf[c] = s
    BY <1>5 DEF StrayYes, Yes
  <2>6. Cardinality({}) = 0 /\ IsFiniteSet({})
    BY FS_EmptySet
  <2>7. CASE m = what /\ said
    <3>1. unspent'[m] = unspent[m] + 1
      BY <1>1, <2>7 DEF Delivered, Shape
    <3>2. CASE LegYes(m)' # {}
      <4>1. PICK c \in LegYes(m)' : TRUE
        BY <3>2
      <4>2. leg'[c] # leg[c]
        BY <1>2, <2>4 DEF LegYes, Yes
      <4>3. BufferYes(m)' = BufferYes(m)
        BY <1>8, <4>2 DEF BufferYes
      <4>4. LegYes(m)' \subseteq {} \cup {c} /\ StrayYes(m)' = {}
        BY <1>1, <2>4, <2>5 DEF OneWait
      <4>5. Cardinality(LegYes(m)') \in Nat /\ Cardinality(LegYes(m)') <= 1
        <5>1. Cardinality(LegYes(m)') \in Nat /\ Cardinality(LegYes(m)') <= Cardinality({}) + 1
          BY <2>6, <4>4, OneMore
        <5> QED BY <2>6, <5>1
      <4>6. Cardinality(StrayYes(m)') = 0 /\ Cardinality(BufferYes(m)') = Cardinality(BufferYes(m))
        BY <2>6, <4>3, <4>4, Zenon
      <4> QED BY <2>1, <2>2, <2>3, <3>1, <4>5, <4>6
    <3>3. CASE StrayYes(m)' # {}
      <4>1. PICK c \in StrayYes(m)' : TRUE
        BY <3>3
      <4>2. stray'[c] # stray[c]
        BY <1>2, <2>5 DEF StrayYes, Yes
      <4>3. BufferYes(m)' = BufferYes(m)
        BY <1>8, <4>2 DEF BufferYes
      <4>4. StrayYes(m)' \subseteq {} \cup {c} /\ LegYes(m)' = {}
        BY <1>1, <2>4, <2>5 DEF OneWait
      <4>5. Cardinality(StrayYes(m)') \in Nat /\ Cardinality(StrayYes(m)') <= 1
        <5>1. Cardinality(StrayYes(m)') \in Nat /\ Cardinality(StrayYes(m)') <= Cardinality({}) + 1
          BY <2>6, <4>4, OneMore
        <5> QED BY <2>6, <5>1
      <4>6. Cardinality(LegYes(m)') = 0 /\ Cardinality(BufferYes(m)') = Cardinality(BufferYes(m))
        BY <2>6, <4>3, <4>4, Zenon
      <4> QED BY <2>1, <2>2, <2>3, <3>1, <4>5, <4>6
    <3>4. CASE LegYes(m)' = {} /\ StrayYes(m)' = {}
      <4>1. BufferYes(m)' \subseteq BufferYes(m) \cup {s}
        BY <1>1, <1>8 DEF BufferYes, Shape
      <4>2. Cardinality(BufferYes(m)') \in Nat /\ Cardinality(BufferYes(m)') <= Cardinality(BufferYes(m)) + 1
        BY <4>1, OneMore, YesesAreFinite
      <4>3. Cardinality(LegYes(m)') = 0 /\ Cardinality(StrayYes(m)') = 0
        BY <2>6, <3>4, Zenon
      <4> QED BY <2>1, <2>2, <2>3, <3>1, <4>2, <4>3
    <3> QED BY <3>2, <3>3, <3>4
  <2>8. CASE ~(m = what /\ said)
    <3>1. unspent'[m] = unspent[m]
      BY <1>1, <2>8 DEF Delivered, Shape
    <3>2. LegYes(m)' = {} /\ StrayYes(m)' = {}
      <4>1. ASSUME NEW d \in Call, NEW n \in Leg
            PROVE  ~Yes(Serve(n, what, said), m)
        BY <2>8, ServeType DEF Yes
      <4>2. \A d \in Call : ~Yes(leg'[d], m) /\ ~Yes(stray'[d], m)
        BY <1>2, <1>3, <4>1 DEF Yes
      <4> QED BY <4>2 DEF LegYes, StrayYes
    <3>3. BufferYes(m)' \subseteq BufferYes(m)
      BY <1>1, <1>8, <2>8 DEF BufferYes, Shape
    <3>4. Cardinality(BufferYes(m)') \in Nat /\ Cardinality(BufferYes(m)') <= Cardinality(BufferYes(m))
      BY <3>3, Fewer, YesesAreFinite
    <3>5. Cardinality(LegYes(m)') = 0 /\ Cardinality(StrayYes(m)') = 0
      BY <2>6, <3>2, Zenon
    <3> QED BY <2>1, <2>2, <2>3, <3>1, <3>4, <3>5
  <2> QED BY <2>7, <2>8
<1> QED BY <1>6, <1>7, <1>9 DEF Paid

\* The holds stand through an answer, and whoever still waits is of another session.
LEMMA HoldersInAnswers ==
  ASSUME IInv, NEW s, NEW what \in Word, NEW said \in BOOLEAN, NEW on \in Call \cup {None},
         Delivered(s, what, said, on), NEW d \in Call, NEW n \in {leg'[d], stray'[d]}
  PROVE  \E o \in {leg[d], stray[d]} :
           /\ n.holds = o.holds /\ n.ask = o.ask
           /\ n.at = "waiting" => n = o /\ SessionOf[d] # s
<1>1. Shape /\ leg[d] \in Leg /\ stray[d] \in Leg
  BY Faces DEF IInv
<1>2. \E o \in {leg[d], stray[d]} : n = Answered(o, d, s, what, said)
  <2>1. /\ leg' = [c \in Call |-> Answered(leg[c], c, s, what, said)]
        /\ stray' = [c \in Call |-> Answered(stray[c], c, s, what, said)]
    BY <1>1, AnswerArrives
  <2> QED BY <2>1
<1>3. PICK o \in {leg[d], stray[d]} : n = Answered(o, d, s, what, said)
  BY <1>2
<1>4. o \in Leg
  BY <1>1
<1> QED BY <1>3, <1>4, ServeType DEF Answered

LEMMA AnswerHolds ==
  ASSUME IInv, NEW s, NEW what \in Word, NEW said \in BOOLEAN, NEW on \in Call \cup {None},
         Delivered(s, what, said, on), UNCHANGED <<world, hold>>,
         card' = card \/ card.of = s
  PROVE  Holds'
<1>1. HoldsItsSurface'
  <2> SUFFICES ASSUME NEW d \in Call, NEW n \in {leg'[d], stray'[d]}, n.holds
               PROVE  d \in Send /\ hold[Face(SessionOf[d])].by = d
    BY DEF HoldsItsSurface, Face
  <2> QED BY HoldersInAnswers DEF IInv, Holds, HoldsItsSurface
<1>2. AsksAreApart'
  <2> SUFFICES ASSUME NEW d \in Call, NEW n \in {leg'[d], stray'[d]}, n.ask # 0, NEW j \in Surface
               PROVE  hold[j].ask # n.ask
    BY DEF AsksAreApart
  <2> QED BY HoldersInAnswers DEF IInv, Holds, AsksAreApart
<1>3. HolderAsks'
  <2> SUFFICES ASSUME carded, NEW d \in Send, NEW n \in {leg'[d], stray'[d]}, WaitsHolding(d, n)
               PROVE  (card.id # 0 /\ card.id = MineOf(d) /\ Asks(d) /\ ~card.stale)'
    BY DEF HolderAsks, WaitsHolding
  <2>1. /\ d \in Call /\ SessionOf[d] # s
        /\ \E o \in {leg[d], stray[d]} : WaitsHolding(d, o)
    BY HoldersInAnswers DEF WaitsHolding, Call
  <2>2. card.id # 0 /\ card.id = MineOf(d) /\ Asks(d) /\ ~card.stale
    BY <2>1 DEF IInv, Holds, HolderAsks
  <2>3. card' = card
    BY <2>1, <2>2 DEF Asks
  <2> QED BY <2>2, <2>3 DEF MineOf, Asks, Face
<1> QED BY <1>1, <1>2, <1>3 DEF Holds

LEMMA ClickKeeps ==
  ASSUME IInv, ClicksCard \/ \E p \in Call : ClicksPanel(p)
  PROVE  IInv'
<1>1. Shape /\ \A what : Sayings(what) \subseteq BOOLEAN
  BY DEF IInv, Sayings
<1>2. Settled /\ UNCHANGED <<world, hold, painted>>
  BY DEF ClicksCard, ClicksPanel, Clicked
<1>3. ASSUME NEW s, NEW what \in Word, NEW said \in BOOLEAN, NEW on \in Call \cup {None},
             Delivered(s, what, said, on), card' = card \/ (card.of = s /\ card' = NoBlock)
      PROVE  IInv'
  <2>1. LegsAreBlank' /\ OneWait' /\ Paid'
    BY <1>2, <1>3, AnswerKeeps
  <2>2. Holds'
    BY <1>2, <1>3, AnswerHolds
  <2>3. /\ leg' \in [Call -> Leg] /\ stray' \in [Call -> Leg]
        /\ buffer' \in [Session -> [what : Word, yes : BOOLEAN, on : Call \cup {None}]]
        /\ unspent' \in [Message -> Int]
    <3>1. Shape /\ Delivered(s, what, said, on)
      BY <1>1, <1>3
    <3> QED BY <3>1, AnswerArrives
  <2>4. NoBlock \in [id : Nat, of : Session \cup {None}, what : Word, stale : BOOLEAN]
    BY DEF NoBlock, Word
  <2>5. card' \in [id : Nat, of : Session \cup {None}, what : Word, stale : BOOLEAN]
    BY <1>1, <1>3, <2>4 DEF Shape
  <2>6. Shape'
    BY <1>1, <1>2, <2>3, <2>5 DEF Shape
  <2> QED BY <2>1, <2>2, <2>6 DEF IInv
<1>4. CASE ClicksCard
  <2>1. card.what \in Word /\ card' = NoBlock
    BY <1>1, <1>4 DEF Shape, ClicksCard
  <2>2. PICK said \in BOOLEAN : Delivered(card.of, card.what, said, None)
    BY <1>1, <1>4 DEF ClicksCard
  <2> QED BY <1>3, <2>1, <2>2
<1>5. ASSUME NEW p \in Call, ClicksPanel(p) PROVE IInv'
  <2>1. painted[p] \in Word /\ card' = card
    BY <1>1, <1>5 DEF Shape, ClicksPanel
  <2>2. PICK said \in BOOLEAN : Delivered(SessionOf[p], painted[p], said, p)
    BY <1>1, <1>5 DEF ClicksPanel
  <2> QED BY <1>3, <2>1, <2>2
<1> QED BY <1>4, <1>5

-----------------------------------------------------------------------------
(* What is on the card, and who waits for it *)

\* A leg that was woken at once takes the question off again as soon as it resumes.
Ending(d) ==
  /\ leg[d].at = "woken"
  /\ IF d \in Send THEN leg[d].holds /\ MineOf(d) = card.id ELSE leg[d].ask = card.id

\* Whoever waits in the session of the question on the card waits for that question.
CardIsAsked ==
  card.id # 0 =>
    /\ carded
    /\ (\E d \in Call : Ending(d))
       \/ \A c \in Call : /\ leg[c].at = "waiting" \/ stray[c].at = "waiting"
                          /\ SessionOf[c] = card.of
                          => Asks(c)

\* What a person read under the row of the card is what the card asks.
ViewIsTrue == card.id # 0 /\ view.id = card.id => view.what = card.what

\* A leg of the call waits, on this socket or on one that died.
IsWaiting(d) == leg[d].at = "waiting" \/ stray[d].at = "waiting"

LEMMA AskedStays ==
  ASSUME CardIsAsked, Settled, UNCHANGED world,
         card'.id = card.id, card'.of = card.of, card'.what = card.what,
         \A d \in Call : IsWaiting(d)' => IsWaiting(d)
  PROVE  CardIsAsked'
<1>1. ~\E d \in Call : Ending(d)
  BY DEF Ending, Settled
<1> QED BY <1>1 DEF CardIsAsked, IsWaiting, Asks

LEMMA AskedWhereQuiet ==
  ASSUME IInv, Quiet, CardIsAsked
  PROVE  CardIsAsked'
<1>1. \A d \in Call : IsWaiting(d)' => IsWaiting(d)
  BY QuietLegs DEF Fades, IsWaiting, NoLeg
<1> QED BY <1>1, AskedStays DEF Quiet

LEMMA AskedWhereLetGo ==
  ASSUME IInv, CardIsAsked,
         \/ HeartbeatStops \/ \E k \in Surface : HoldLapses(k)
         \/ \E c \in Send : SendFindsCardTaken(c)
  PROVE  CardIsAsked'
<1>1. /\ Settled /\ UNCHANGED <<world, leg, stray>>
      /\ \/ card' = card \/ card' = [card EXCEPT !.stale = TRUE] \/ card' = [card EXCEPT !.stale = FALSE]
  BY DEF HeartbeatStops, HoldLapses, SendFindsCardTaken, Posting
<1>2. card'.id = card.id /\ card'.of = card.of /\ card'.what = card.what
  BY <1>1 DEF IInv, Shape
<1> QED BY <1>1, <1>2, AskedStays DEF IsWaiting

LEMMA AskedAfterClick ==
  ASSUME IInv, CardIsAsked, ClicksCard \/ \E p \in Call : ClicksPanel(p)
  PROVE  CardIsAsked'
<1>1. CASE ClicksCard
  BY <1>1 DEF ClicksCard, NoBlock, CardIsAsked
<1>2. ASSUME NEW p \in Call, ClicksPanel(p) PROVE CardIsAsked'
  <2>1. Shape /\ painted[p] \in Word /\ \A what : Sayings(what) \subseteq BOOLEAN
    BY DEF IInv, Shape, Sayings
  <2>2. PICK said \in BOOLEAN : Delivered(SessionOf[p], painted[p], said, p)
    BY <1>2, <2>1 DEF ClicksPanel
  <2>3. \A d \in Call : IsWaiting(d)' => IsWaiting(d)
    BY <2>1, <2>2, HoldersInAnswers DEF IsWaiting
  <2> QED BY <1>2, <2>3, AskedStays DEF ClicksPanel, Clicked
<1> QED BY <1>1, <1>2

\* Beside the leg that begins, nobody begins to wait; where it waits, its session does not.
LEMMA WaitsNew ==
  ASSUME IInv, NEW c \in Call, NEW p, NEW l \in Leg, NEW lost, Waits(c, p, l, lost)
  PROVE  /\ \A d \in Call \ {c} : IsWaiting(d)' => IsWaiting(d)
         /\ stray'[c].at = "waiting" => IsWaiting(c)
         /\ \/ leg'[c].at = "woken" /\ leg'[c].holds = l.holds /\ leg'[c].ask = l.ask
            \/ \A d \in Call \ {c} : SessionOf[d] = SessionOf[c] => ~IsWaiting(d)'
<1>1. Shape
  BY DEF IInv
<1>2. \A d \in Call : leg[d] \in Leg /\ stray[d] \in Leg
  BY <1>1 DEF Shape
<1>3. \A d \in Call \ {c} : leg'[d] = leg[d] \/ (leg[d].at = "waiting" /\ leg'[d] = Rouse(leg[d]))
  BY <1>1, WaitBegins
<1>4. \A d \in Call : stray'[d] = stray[d] \/ (stray[d].at = "waiting" /\ stray'[d] = Rouse(stray[d]))
  BY <1>1, WaitBegins
<1>5. /\ \A d \in Call \ {c} : IsWaiting(d)' => IsWaiting(d)
      /\ stray'[c].at = "waiting" => IsWaiting(c)
  BY <1>2, <1>3, <1>4, RouseType DEF IsWaiting
<1>6. leg'[c].holds = l.holds /\ leg'[c].ask = l.ask
  BY <1>1, WaitBegins
<1>7. \/ leg'[c].at = "woken"
      \/ \A d \in Call : SessionOf[d] = SessionOf[c] =>
           (d # c => leg'[d].at # "waiting") /\ stray'[d].at # "waiting"
  BY <1>1, WaitBegins
<1> QED BY <1>5, <1>6, <1>7 DEF IsWaiting

LEMMA AskedWhereSendWaits ==
  ASSUME IInv, IInv', CardIsAsked, NEW c \in Send, SendWaits(c)
  PROVE  CardIsAsked'
<1> DEFINE new == carded /\ ~Asks(c)
           id == IF new THEN Fresh(UsedIds) ELSE MineOf(c)
           l == [NoLeg EXCEPT !.holds = TRUE]
           lost == IF new THEN Loser(c) ELSE None
           panel == PanelOf(SessionOf[c])
<1>1. c \in Call /\ l \in Leg /\ l.holds /\ Shape /\ Face(SessionOf[c]) \in Surface
  BY Faces, NoLegType DEF Call, NoLeg, IInv
<1>2. /\ Settled /\ ~CardTaken(c) /\ Waits(c, panel, l, lost) /\ UNCHANGED world
      /\ hold' = [hold EXCEPT ![Face(SessionOf[c])] = [by |-> c, ask |-> id]]
      /\ card' = IF new THEN NewBlock(c, id) ELSE IF carded THEN [card EXCEPT !.stale = FALSE] ELSE card
  BY DEF SendWaits, Posting
<1> HIDE DEF l, lost, panel
<1>3. /\ \A d \in Call \ {c} : IsWaiting(d)' => IsWaiting(d)
      /\ \/ leg'[c].at = "woken" /\ leg'[c].holds
         \/ \A d \in Call \ {c} : SessionOf[d] = SessionOf[c] => ~IsWaiting(d)'
  BY <1>1, <1>2, WaitsNew
<1>4. CASE new
  <2>1. card'.of = SessionOf[c] /\ card'.what = What(c) /\ card'.id = id
    BY <1>2, <1>4 DEF NewBlock
  <2>2. CASE leg'[c].at = "woken" /\ leg'[c].holds
    <3>1. MineOf(c)' = id
      BY <1>1, <1>2 DEF MineOf, Face, Shape
    <3>2. Ending(c)'
      BY <2>1, <2>2, <3>1 DEF Ending
    <3> QED BY <1>1, <1>2, <1>4, <3>2 DEF CardIsAsked
  <2>3. CASE \A d \in Call \ {c} : SessionOf[d] = SessionOf[c] => ~IsWaiting(d)'
    <3>1. Asks(c)' \/ card'.id = 0
      BY <1>2, <2>1 DEF Asks, What
    <3> QED BY <1>2, <1>4, <2>1, <2>3, <3>1 DEF CardIsAsked, IsWaiting
  <2> QED BY <1>3, <2>2, <2>3
<1>5. CASE ~new
  <2>1. card'.id = card.id /\ card'.of = card.of /\ card'.what = card.what
    BY <1>1, <1>2, <1>5 DEF Shape
  <2>2. ~\E d \in Call : Ending(d)
    BY <1>2 DEF Ending, Settled
  <2>3. card.id # 0 => Asks(c)
    BY <1>5 DEF CardIsAsked
  <2>4. \A d \in Call : Asks(d)' = Asks(d)
    BY <1>2, <2>1 DEF Asks, What
  <2> QED BY <1>2, <1>3, <2>1, <2>2, <2>3, <2>4 DEF CardIsAsked, IsWaiting
<1> QED BY <1>4, <1>5

LEMMA AskedWhereAskWaits ==
  ASSUME IInv, CardIsAsked, NEW c \in Ask, AskWaits(c)
  PROVE  CardIsAsked'
<1> DEFINE new == carded /\ TakesCard(c, open \cup {SessionOf[c]})
           id == IF new THEN Fresh(UsedIds) ELSE 0
           l == [NoLeg EXCEPT !.ask = id]
           lost == IF new THEN Loser(c) ELSE None
<1>1. c \in Call /\ c \notin Send /\ Shape /\ id \in Nat
  BY NewRow DEF Call, IInv
<1>2. /\ Settled /\ ~OwnBusy(c) /\ Waits(c, c, l, lost) /\ UNCHANGED world
      /\ card' = IF new THEN NewBlock(c, id)
                 ELSE IF carded /\ Asks(c) THEN [card EXCEPT !.stale = FALSE] ELSE card
  BY DEF AskWaits, Posting
<1>3. l \in Leg /\ l.ask = id
  BY <1>1, NoLegType DEF NoLeg
<1> HIDE DEF l, lost, id
<1>4. /\ \A d \in Call \ {c} : IsWaiting(d)' => IsWaiting(d)
      /\ \/ leg'[c].at = "woken" /\ leg'[c].ask = id
         \/ \A d \in Call \ {c} : SessionOf[d] = SessionOf[c] => ~IsWaiting(d)'
  BY <1>1, <1>2, <1>3, WaitsNew
<1>5. CASE new
  <2>1. card'.of = SessionOf[c] /\ card'.what = What(c) /\ card'.id = id
    BY <1>2, <1>5 DEF NewBlock
  <2>2. CASE leg'[c].at = "woken" /\ leg'[c].ask = id
    <3>1. Ending(c)'
      BY <1>1, <2>1, <2>2 DEF Ending
    <3> QED BY <1>1, <1>2, <1>5, <3>1 DEF CardIsAsked
  <2>3. CASE \A d \in Call \ {c} : SessionOf[d] = SessionOf[c] => ~IsWaiting(d)'
    <3>1. Asks(c)' \/ card'.id = 0
      BY <1>2, <2>1 DEF Asks, What
    <3> QED BY <1>2, <1>5, <2>1, <2>3, <3>1 DEF CardIsAsked, IsWaiting
  <2> QED BY <1>4, <2>2, <2>3
<1>6. CASE ~new
  <2>1. card'.id = card.id /\ card'.of = card.of /\ card'.what = card.what
    BY <1>1, <1>2, <1>6 DEF Shape
  <2>2. ~\E d \in Call : Ending(d)
    BY <1>2 DEF Ending, Settled
  <2>3. card.id # 0 /\ card.of = SessionOf[c] => Asks(c)
    BY <1>2, <1>6 DEF CardIsAsked, TakesCard, OwnBusy
  <2>4. \A d \in Call : Asks(d)' = Asks(d)
    BY <1>2, <2>1 DEF Asks, What
  <2> QED BY <1>2, <1>4, <2>1, <2>2, <2>3, <2>4 DEF CardIsAsked, IsWaiting
<1> QED BY <1>5, <1>6

LEMMA AskedWhereSendResumes ==
  ASSUME IInv, CardIsAsked, NEW c \in Send, SendResumes(c) \/ StrayResumes(c)
  PROVE  CardIsAsked'
<1>1. c \in Call /\ Shape
  BY DEF Call, IInv
<1>2. PICK l \in {leg[c], stray[c]} :
        /\ EndsItsQuestion(c, l) /\ Releases(c, l) /\ UNCHANGED world
        /\ l = leg[c] \/ (leg' = IF l.holds THEN [leg EXCEPT ![c].holds = FALSE] ELSE leg)
        /\ leg' = [leg EXCEPT ![c] = leg'[c]]
  <2>1. CASE SendResumes(c)
    <3>1. leg' = [leg EXCEPT ![c] = Resumed(c, leg[c])]
      BY <2>1 DEF SendResumes
    <3>2. leg' = [leg EXCEPT ![c] = leg'[c]]
      BY <1>1, <3>1 DEF Shape
    <3> QED BY <2>1, <3>2 DEF SendResumes
  <2>2. CASE StrayResumes(c)
    <3>1. leg' = IF stray[c].holds THEN [leg EXCEPT ![c].holds = FALSE] ELSE leg
      BY <2>2 DEF StrayResumes
    <3>2. leg' = [leg EXCEPT ![c] = leg'[c]]
      BY <1>1, <3>1 DEF Shape
    <3> QED BY <2>2, <3>1, <3>2 DEF StrayResumes
  <2> QED BY <2>1, <2>2
<1>3. \A d \in Call : IsWaiting(d)' => IsWaiting(d)
  <2>1. CASE SendResumes(c)
    <3>1. /\ leg' = [leg EXCEPT ![c] = Resumed(c, leg[c])]
          /\ stray' = stray \/ stray' = [stray EXCEPT ![c].holds = FALSE]
          /\ Resumed(c, leg[c]).at # "waiting" /\ leg[c] \in Leg /\ stray[c] \in Leg
      BY <1>1, <2>1, ResumedLeg, Faces DEF SendResumes
    <3> QED BY <1>1, <3>1 DEF Shape, IsWaiting, Leg
  <2>2. CASE StrayResumes(c)
    <3>1. /\ stray' = [stray EXCEPT ![c] = Resumed(c, stray[c])]
          /\ leg' = leg \/ leg' = [leg EXCEPT ![c].holds = FALSE]
          /\ Resumed(c, stray[c]).at # "waiting" /\ leg[c] \in Leg /\ stray[c] \in Leg
      BY <1>1, <2>2, ResumedLeg, Faces DEF StrayResumes
    <3> QED BY <1>1, <3>1 DEF Shape, IsWaiting, Leg
  <2> QED BY <2>1, <2>2
<1>4. CASE card' = NoBlock
  BY <1>4 DEF CardIsAsked, NoBlock
<1>5. CASE card' = card /\ ~\E d \in Call : Ending(d)
  BY <1>2, <1>3, <1>5 DEF CardIsAsked, IsWaiting, Asks
<1>6. ASSUME card' = card, card' # NoBlock, card.id # 0, NEW d \in Call, Ending(d)
      PROVE  CardIsAsked'
  <2>0. carded /\ Face(SessionOf[c]) = Card /\ Face(SessionOf[d]) = Card
    BY <1>1, <1>6, Faces DEF CardIsAsked
  <2>1. l.holds => hold[Card].by = c /\ c # d
    <3> SUFFICES ASSUME l.holds PROVE hold[Card].by = c /\ c # d
      OBVIOUS
    <3>1. hold[Card].by = c
      BY <1>1, <1>2, <2>0 DEF IInv, Holds, HoldsItsSurface
    <3>2. MineOf(c) # card.id
      BY <1>2, <1>6 DEF EndsItsQuestion
    <3> QED BY <3>1, <3>2, <1>6 DEF Ending
  <2>2. CASE l.holds
    <3>1. d \notin Send
      <4> SUFFICES ASSUME d \in Send PROVE FALSE
        OBVIOUS
      <4>1. hold[Card].by = d
        BY <1>6, <2>0 DEF Ending, IInv, Holds, HoldsItsSurface
      <4> QED BY <2>1, <2>2, <4>1
    <3>2. leg'[d] = leg[d]
      BY <1>1, <1>2, <2>1, <2>2 DEF Shape
    <3> QED BY <1>2, <1>6, <2>0, <3>1, <3>2 DEF Ending, CardIsAsked
  <2>3. CASE ~l.holds
    <3>1. hold' = hold /\ leg'[d] = leg[d]
      <4>1. l = leg[c] => d # c
        BY <1>1, <1>6, <2>3 DEF Ending
      <4> QED BY <1>1, <1>2, <2>3, <4>1 DEF Releases, Shape
    <3>2. Ending(d)'
      BY <1>2, <1>6, <3>1 DEF Ending, MineOf, Face
    <3> QED BY <1>2, <2>0, <3>2 DEF CardIsAsked
  <2> QED BY <2>2, <2>3
<1>7. card' = card \/ card' = NoBlock
  BY <1>2 DEF EndsItsQuestion
<1>8. CASE card' = card /\ card.id = 0
  BY <1>8 DEF CardIsAsked
<1> QED BY <1>4, <1>5, <1>6, <1>7, <1>8

LEMMA AskedWhereAskResumes ==
  ASSUME IInv, CardIsAsked, NEW c \in Ask, AskResumes(c)
  PROVE  CardIsAsked'
<1>1. c \in Call /\ c \notin Send /\ Shape /\ UNCHANGED <<world, hold>>
  BY DEF Call, IInv, AskResumes
<1>2. \/ leg' = [leg EXCEPT ![c] = NoLeg] /\ stray' = stray /\ AskOff(leg[c])
      \/ stray' = [stray EXCEPT ![c] = NoLeg] /\ leg' = leg /\ AskOff(stray[c])
  BY DEF AskResumes
<1>3. \A d \in Call : IsWaiting(d)' => IsWaiting(d)
  BY <1>1, <1>2 DEF IsWaiting, Shape, NoLeg
<1>4. CASE card' = NoBlock
  BY <1>4 DEF CardIsAsked, NoBlock
<1>5. CASE card' = card /\ ~\E d \in Call : Ending(d)
  BY <1>1, <1>3, <1>5 DEF CardIsAsked, IsWaiting, Asks
<1>6. ASSUME card' = card, card' # NoBlock, card.id # 0, NEW d \in Call, Ending(d)
      PROVE  CardIsAsked'
  <2>1. leg'[d] = leg[d]
    <3>1. leg' = [leg EXCEPT ![c] = NoLeg] /\ AskOff(leg[c]) => d # c
      BY <1>1, <1>6 DEF AskOff, Ending
    <3> QED BY <1>1, <1>2, <3>1 DEF Shape
  <2>2. Ending(d)'
    BY <1>1, <1>6, <2>1 DEF Ending, MineOf, Face
  <2> QED BY <1>1, <1>6, <2>2 DEF CardIsAsked
<1>7. card' = card \/ card' = NoBlock
  BY <1>2 DEF AskOff
<1>8. CASE card' = card /\ card.id = 0
  BY <1>8 DEF CardIsAsked
<1> QED BY <1>4, <1>5, <1>6, <1>7, <1>8

\* The card changes to another question only under a row that nobody has read.
LEMMA ViewStays ==
  ASSUME IInv, ViewIsTrue, Next
  PROVE  ViewIsTrue'
<1> DEFINE Same == card'.id = card.id /\ card'.what = card.what
           Other == card'.id = 0 \/ card'.id # view.id
<1>1. Shape /\ NoBlock.id = 0
  BY DEF IInv, NoBlock
<1>2. Fresh(UsedIds) # view.id
  <2>1. Fresh(UsedIds) \notin UsedIds
    BY <1>1, UsedIsFinite, FreshIsNew
  <2> QED BY <2>1 DEF UsedIds
<1>3. [card EXCEPT !.stale = FALSE].id = card.id /\ [card EXCEPT !.stale = FALSE].what = card.what
  BY <1>1 DEF Shape
<1>4. [card EXCEPT !.stale = TRUE].id = card.id /\ [card EXCEPT !.stale = TRUE].what = card.what
  BY <1>1 DEF Shape
<1>5. ASSUME view' = view, Same \/ Other PROVE ViewIsTrue'
  BY <1>5 DEF ViewIsTrue
<1>6. ASSUME NEW c \in Call,
             Starts(c) \/ LegEnds(c) \/ SocketDies(c) \/ CallerDies(c) \/ ClicksPanel(c)
      PROVE  ViewIsTrue'
  BY <1>5, <1>6 DEF Starts, LegEnds, LegExpires, StrayExpires, SocketDies, CallerDies, ClicksPanel
<1>7. ASSUME NEW c \in Send, SendStep(c) PROVE ViewIsTrue'
  <2>1. CASE SendWaits(c)
    <3>1. view' = view
      BY <2>1 DEF SendWaits
    <3>2. \/ card' = NewBlock(c, Fresh(UsedIds))
          \/ card' \in {card, [card EXCEPT !.stale = FALSE]}
      BY <2>1 DEF SendWaits
    <3>3. NewBlock(c, Fresh(UsedIds)).id = Fresh(UsedIds)
      BY DEF NewBlock
    <3> QED BY <1>2, <1>3, <1>5, <3>1, <3>2, <3>3
  <2>2. CASE SendFindsCardTaken(c)
    <3>1. view' = view /\ card' \in {card, [card EXCEPT !.stale = FALSE]}
      BY <2>2 DEF SendFindsCardTaken
    <3> QED BY <1>3, <1>5, <3>1
  <2>3. CASE SendResumes(c) \/ StrayResumes(c)
    <3>1. view' = view /\ card' \in {card, NoBlock}
      BY <2>3 DEF SendResumes, StrayResumes, EndsItsQuestion
    <3> QED BY <1>1, <1>5, <3>1
  <2>4. CASE SendTurnedAway(c) \/ SendEnds(c) \/ RunsOut(c)
    BY <1>5, <2>4 DEF SendTurnedAway, SendEnds, RunsOut
  <2> QED BY <1>7, <2>1, <2>2, <2>3, <2>4 DEF SendStep
<1>8. ASSUME NEW c \in Ask, AskStep(c) PROVE ViewIsTrue'
  <2>1. CASE AskWaits(c)
    <3>1. view' = view
      BY <2>1 DEF AskWaits
    <3>2. \/ card' = NewBlock(c, Fresh(UsedIds))
          \/ card' \in {card, [card EXCEPT !.stale = FALSE]}
      BY <2>1 DEF AskWaits
    <3>3. NewBlock(c, Fresh(UsedIds)).id = Fresh(UsedIds)
      BY DEF NewBlock
    <3> QED BY <1>2, <1>3, <1>5, <3>1, <3>2, <3>3
  <2>2. CASE AskResumes(c)
    <3>1. view' = view /\ card' \in {card, NoBlock}
      BY <2>2 DEF AskResumes, AskOff
    <3> QED BY <1>1, <1>5, <3>1
  <2>3. CASE AskReadsRow(c) \/ AskParks(c)
    BY <1>5, <2>3 DEF AskReadsRow, AskParks
  <2> QED BY <1>8, <2>1, <2>2, <2>3 DEF AskStep
<1>9. ASSUME \/ \E k \in Surface : HoldLapses(k)
             \/ \E s \in Session : BufferLapses(s)
      PROVE  ViewIsTrue'
  BY <1>5, <1>9 DEF HoldLapses, BufferLapses
<1>10. CASE HeartbeatStops
  BY <1>4, <1>5, <1>10 DEF HeartbeatStops
<1>11. CASE Looks
  BY <1>11 DEF Looks, ViewIsTrue
<1>12. CASE ClicksCard
  BY <1>1, <1>12 DEF ClicksCard, ViewIsTrue
<1> QED BY <1>6, <1>7, <1>8, <1>9, <1>10, <1>11, <1>12 DEF Next

-----------------------------------------------------------------------------
(* The theorems *)

LEMMA InitHolds == Init => IInv
<1> SUFFICES ASSUME Init PROVE IInv
  OBVIOUS
<1>1. Shape
  <2>1. /\ NoHold \in [by : Send \cup {None}, ask : Nat]
        /\ NoBlock \in [id : Nat, of : Session \cup {None}, what : Word, stale : BOOLEAN]
        /\ NoAnswer \in [what : Word, yes : BOOLEAN, on : Call \cup {None}]
    BY DEF NoHold, NoBlock, NoAnswer, Word
  <2>2. /\ leg \in [Call -> Leg] /\ stray \in [Call -> Leg]
    BY NoLegType DEF Init
  <2>3. /\ hold \in [Surface -> [by : Send \cup {None}, ask : Nat]]
        /\ buffer \in [Session -> [what : Word, yes : BOOLEAN, on : Call \cup {None}]]
    BY <2>1, Zenon DEF Init
  <2>4. painted \in [Call -> Word] /\ unspent \in [Message -> Int]
    BY DEF Init, Word
  <2> QED BY <2>1, <2>2, <2>3, <2>4 DEF Init, Shape
<1>2. \A c \in Call : leg[c] = NoLeg /\ stray[c] = NoLeg
  BY DEF Init
<1>3. LegsAreBlank /\ OneWait
  BY <1>2 DEF LegsAreBlank, OneWait, NoLeg
<1>4. Holds
  <2>1. HoldsItsSurface /\ AsksAreApart
    BY <1>2 DEF HoldsItsSurface, AsksAreApart, NoLeg
  <2>2. HolderAsks
    BY <1>2 DEF HolderAsks, WaitsHolding, NoLeg, Call
  <2> QED BY <2>1, <2>2 DEF Holds
<1>5. Paid
  <2> SUFFICES ASSUME NEW m \in Message PROVE OnTheirWay(m) <= unspent[m]
    BY DEF Paid
  <2>1. LegYes(m) = {} /\ StrayYes(m) = {}
    BY <1>2 DEF LegYes, StrayYes, Yes, NoLeg
  <2>2. BufferYes(m) = {}
    BY DEF Init, BufferYes, NoAnswer
  <2>3. Cardinality({}) = 0 /\ unspent[m] = 0
    BY FS_EmptySet DEF Init
  <2>4. Cardinality(LegYes(m)) = 0 /\ Cardinality(StrayYes(m)) = 0 /\ Cardinality(BufferYes(m)) = 0
    BY <2>1, <2>2, <2>3, Zenon
  <2> QED BY <2>3, <2>4 DEF OnTheirWay
<1> QED BY <1>1, <1>3, <1>4, <1>5 DEF IInv

\* The steps that are quiet.
QuietStep ==
  \/ \E c \in Call : Starts(c) \/ LegEnds(c) \/ SocketDies(c) \/ CallerDies(c)
  \/ \E c \in Send : SendTurnedAway(c) \/ RunsOut(c) \/ SendEnds(c)
  \/ \E c \in Ask : AskReadsRow(c) \/ AskParks(c)
  \/ Looks \/ \E s \in Session : BufferLapses(s)

LEMMA QuietSteps ==
  ASSUME IInv, QuietStep
  PROVE  Quiet
<1>1. ASSUME NEW c \in Call, Starts(c) \/ LegEnds(c) \/ SocketDies(c) \/ CallerDies(c)
      PROVE  Quiet
  <2>1. CASE Starts(c) \/ CallerDies(c)
    <3>1. /\ Settled /\ UNCHANGED <<world, hold, card, unspent, leg, stray, buffer>>
          /\ painted' = painted \/ (c \in Ask /\ painted' = [painted EXCEPT ![c] = c])
      BY <2>1 DEF Starts, CallerDies, Fault, Call
    <3> QED BY <3>1, StillSteps
  <2> QED BY <1>1, <2>1, LegSteps DEF LegEnds
<1>2. ASSUME NEW c \in Send, SendTurnedAway(c) \/ RunsOut(c) \/ SendEnds(c)
      PROVE  Quiet
  <2>1. CASE SendTurnedAway(c) \/ RunsOut(c)
    <3>1. Settled /\ UNCHANGED <<world, hold, card, unspent, leg, stray, buffer, painted>>
      BY <2>1 DEF SendTurnedAway, RunsOut, Posting
    <3> QED BY <3>1, StillSteps
  <2> QED BY <1>2, <2>1, LegSteps DEF Call
<1>3. ASSUME NEW c \in Ask, AskReadsRow(c) \/ AskParks(c)
      PROVE  Quiet
  <2>1. CASE AskReadsRow(c)
    <3>1. /\ Settled /\ UNCHANGED <<world, hold, card, unspent, leg, stray, painted>>
          /\ buffer' = buffer \/ buffer' = [buffer EXCEPT ![SessionOf[c]] = NoAnswer]
      BY <2>1 DEF AskReadsRow, Posting
    <3>2. SessionOf[c] \in Session
      BY Faces DEF IInv, Call
    <3> QED BY <3>1, <3>2, StillSteps
  <2> QED BY <1>3, <2>1, LegSteps DEF Call
<1>4. CASE Looks \/ \E s \in Session : BufferLapses(s)
  <2>1. /\ Settled /\ UNCHANGED <<world, hold, card, unspent, leg, stray, painted>>
        /\ buffer' = buffer \/ \E s \in Session : buffer' = [buffer EXCEPT ![s] = NoAnswer]
    BY <1>4 DEF Looks, BufferLapses
  <2> QED BY <2>1, StillSteps
<1> QED BY <1>1, <1>2, <1>3, <1>4 DEF QuietStep

\* The steps there are.
LEMMA Steps ==
  Next => \/ QuietStep \/ HeartbeatStops \/ \E k \in Surface : HoldLapses(k)
          \/ ClicksCard \/ \E p \in Call : ClicksPanel(p)
          \/ \E c \in Send : \/ SendFindsCardTaken(c) \/ SendWaits(c)
                             \/ SendResumes(c) \/ StrayResumes(c)
          \/ \E c \in Ask : AskWaits(c) \/ AskResumes(c)
  BY DEF Next, QuietStep, SendStep, AskStep

LEMMA IInvNext == IInv /\ [Next]_vars => IInv'
<1> SUFFICES ASSUME IInv, [Next]_vars PROVE IInv'
  OBVIOUS
<1>1. CASE UNCHANGED vars
  <2>1. UNCHANGED <<world, leg, stray, hold, card, buffer, painted, unspent>>
    BY <1>1 DEF vars
  <2>2. Shape' /\ LegsAreBlank' /\ OneWait'
    BY <2>1 DEF IInv, Shape, LegsAreBlank, OneWait
  <2>3. Holds'
    BY <2>1 DEF IInv, Holds, HoldsItsSurface, AsksAreApart, HolderAsks, Face, MineOf, Asks
  <2>4. Paid'
    BY <2>1, PaidStays DEF IInv, LegYes, StrayYes, BufferYes
  <2> QED BY <2>2, <2>3, <2>4 DEF IInv
<1>2. CASE QuietStep
  BY <1>2, QuietSteps, QuietKeeps
<1>3. CASE HeartbeatStops \/ \E k \in Surface : HoldLapses(k)
  BY <1>3, HeartbeatKeeps, LapseKeeps
<1>4. CASE ClicksCard \/ \E p \in Call : ClicksPanel(p)
  BY <1>4, ClickKeeps
<1>5. ASSUME NEW c \in Send,
             SendFindsCardTaken(c) \/ SendWaits(c) \/ SendResumes(c) \/ StrayResumes(c)
      PROVE  IInv'
  BY <1>5, CardTakenKeeps, SendWaitsKeeps, SendResumesKeeps, StrayResumesKeeps
<1>6. ASSUME NEW c \in Ask, AskWaits(c) \/ AskResumes(c)
      PROVE  IInv'
  BY <1>6, AskWaitsKeeps, AskResumesKeeps
<1> QED BY <1>1, <1>2, <1>3, <1>4, <1>5, <1>6, Steps

\* What is on the card, beside the rest.
CardInv == IInv /\ CardIsAsked /\ ViewIsTrue

LEMMA CardInvNext == CardInv /\ [Next]_vars => CardInv'
<1> SUFFICES ASSUME IInv, IInv', CardIsAsked, ViewIsTrue, [Next]_vars
             PROVE  CardIsAsked' /\ ViewIsTrue'
  BY IInvNext DEF CardInv
<1>1. CASE UNCHANGED vars
  <2>1. UNCHANGED <<world, leg, stray, hold, card, view>>
    BY <1>1 DEF vars
  <2>2. ViewIsTrue'
    BY <2>1 DEF ViewIsTrue
  <2>3. \A d \in Call : Ending(d)' = Ending(d) /\ Asks(d)' = Asks(d)
    BY <2>1 DEF Ending, MineOf, Face, Asks
  <2> QED BY <2>1, <2>2, <2>3 DEF CardIsAsked
<1>2. CASE Next
  <2>1. ASSUME QuietStep PROVE CardIsAsked'
    BY <2>1, QuietSteps, AskedWhereQuiet
  <2>2. ASSUME \/ HeartbeatStops \/ \E k \in Surface : HoldLapses(k)
               \/ \E c \in Send : SendFindsCardTaken(c)
        PROVE  CardIsAsked'
    BY <2>2, AskedWhereLetGo
  <2>3. ASSUME ClicksCard \/ \E p \in Call : ClicksPanel(p)
        PROVE  CardIsAsked'
    BY <2>3, AskedAfterClick
  <2>4. ASSUME NEW c \in Send, SendWaits(c) \/ SendResumes(c) \/ StrayResumes(c)
        PROVE  CardIsAsked'
    BY <2>4, AskedWhereSendWaits, AskedWhereSendResumes
  <2>5. ASSUME NEW c \in Ask, AskWaits(c) \/ AskResumes(c)
        PROVE  CardIsAsked'
    BY <2>5, AskedWhereAskWaits, AskedWhereAskResumes
  <2> QED BY <1>2, <2>1, <2>2, <2>3, <2>4, <2>5, Steps, ViewStays
<1> QED BY <1>1, <1>2


-----------------------------------------------------------------------------
(* The shapes of the rest *)

\* A set of places that is not empty has a last one.
LEMMA LastPlace ==
  ASSUME NEW n \in Nat, NEW T \in SUBSET (1 .. n), T # {}
  PROVE  \E i \in T : \A j \in T : j <= i
<1> DEFINE Above == {i .. n : i \in T}
<1>1. ASSUME NEW i \in T PROVE i .. n \in FiniteSubsetsOf(1 .. n)
  <2>1. i \in Int /\ i .. n \subseteq 1 .. n
    OBVIOUS
  <2>2. IsFiniteSet(i .. n)
    BY <2>1, FS_Interval
  <2> QED BY <2>1, <2>2 DEF FiniteSubsetsOf
<1>2. Above \subseteq FiniteSubsetsOf(1 .. n) /\ Above # {}
  <2>1. PICK i : i \in T
    OBVIOUS
  <2>2. i .. n \in Above
    BY <2>1
  <2>3. ASSUME NEW y \in Above PROVE y \in FiniteSubsetsOf(1 .. n)
    <3>1. PICK i2 \in T : y = i2 .. n
      OBVIOUS
    <3> QED BY <1>1, <3>1
  <2> QED BY <2>2, <2>3
<1>3. IsWellFoundedOn(StrictSubsetOrdering(1 .. n), FiniteSubsetsOf(1 .. n))
  BY FS_StrictSubsetOrderingWellFounded
<1>4. PICK x \in Above : \A y \in Above : <<y, x>> \notin StrictSubsetOrdering(1 .. n)
  <2> HIDE DEF Above
  <2> QED BY <1>2, <1>3, WFMin
<1>5. PICK i \in T : x = i .. n
  BY <1>4
<1>6. ASSUME NEW j \in T, j > i PROVE FALSE
  <2>1. j .. n \subseteq i .. n /\ i \in i .. n /\ i \notin j .. n
    BY <1>6
  <2>2. <<j .. n, i .. n>> \in StrictSubsetOrdering(1 .. n)
    BY <2>1 DEF StrictSubsetOrdering
  <2> QED BY <1>4, <1>5, <2>2
<1> QED BY <1>6

\* The calls, what they spend, and the bounds.
CallsOK ==
  /\ call \in [Call -> {"idle", "posting", "leg", "answered", "over"}]
  /\ token \subseteq Send /\ legs \in [Send -> 0 .. MaxLegs]
  /\ clicks \in 0 .. MaxClicks /\ faults \in 0 .. MaxFaults
  /\ open \subseteq Session

\* A send is in the transcript once, from its start, and its row is not over while it
\* still posts and waits.
RowsOK ==
  /\ row \in [Call -> {"none", "running", "waiting", "over"}] /\ recorded \subseteq Ask
  /\ rows \in Seq(Send)
  /\ \A i, j \in 1 .. Len(rows) : rows[i] = rows[j] => i = j
  /\ \A i \in 1 .. Len(rows) : call[rows[i]] # "idle"
  /\ \A c \in Send : call[c] \in {"posting", "leg"} =>
       row[c] \in {"running", "waiting"} /\ \E i \in 1 .. Len(rows) : rows[i] = c

PanelsOK == ident \in [Session -> Call \cup {None}]

\* The rows of the card are named from a few names, used again.
IdsOK ==
  /\ card.id \in Ids /\ view \in [id : Ids, what : Word]
  /\ \A k \in Surface : hold[k].ask \in Ids
  /\ \A c \in Call : leg[c].ask \in Ids /\ stray[c].ask \in Ids

\* The inductive invariant of the shapes.
ShapeInv == CardInv /\ CallsOK /\ RowsOK /\ PanelsOK /\ IdsOK

LEMMA CallsStep ==
  ASSUME Shape, HoldsItsSurface, CallsOK, [Next]_vars
  PROVE  CallsOK'
<1> USE GateBounds
<1>1. CASE UNCHANGED vars
  BY <1>1 DEF vars, CallsOK
<1>2. ASSUME NEW c \in Call,
             Starts(c) \/ StrayExpires(c) \/ SocketDies(c) \/ CallerDies(c)
      PROVE  CallsOK'
  BY <1>2 DEF Starts, StrayExpires, SocketDies, CallerDies, Fault, Told, CallsOK
<1>3. ASSUME NEW c \in Call, LegExpires(c) PROVE CallsOK'
  <2>1. leg[c].holds => c \in Send
    BY DEF HoldsItsSurface
  <2> QED BY <1>3, <2>1 DEF LegExpires, CallsOK
<1>5. ASSUME NEW p \in Call, ClicksPanel(p) PROVE CallsOK'
  <2>1. open' \subseteq open
    BY <1>5 DEF ClicksPanel, Delivered
  <2> QED BY <1>5, <2>1 DEF ClicksPanel, Clicked, CallsOK
<1>6. CASE ClicksCard
  <2>1. open' \subseteq open
    BY <1>6 DEF ClicksCard, Delivered
  <2> QED BY <1>6, <2>1 DEF ClicksCard, Clicked, CallsOK
<1>7. ASSUME NEW c \in Send, SendTurnedAway(c) \/ SendFindsCardTaken(c) \/ RunsOut(c)
      PROVE  CallsOK'
  BY <1>7 DEF SendTurnedAway, SendFindsCardTaken, RunsOut, Told, Legged, LetGo, CallsOK, Call
<1>8. ASSUME NEW c \in Call, NEW p, NEW l, NEW lost, Waits(c, p, l, lost)
      PROVE  open' \subseteq Session
  BY <1>8, Faces DEF Waits, WaitsEnding, CallsOK
<1>9. ASSUME NEW c \in Send, SendWaits(c) PROVE CallsOK'
  <2>1. open' \subseteq Session
    BY <1>8, <1>9 DEF SendWaits, Call
  <2> QED BY <1>9, <2>1 DEF SendWaits, Legged, Posted, CallsOK, Call
<1>10. ASSUME NEW c \in Send, SendResumes(c) \/ StrayResumes(c) \/ SendEnds(c) PROVE CallsOK'
  BY <1>10 DEF SendResumes, StrayResumes, SendEnds, Releases, LetGo, Told, CallsOK, Call
<1>11. ASSUME NEW c \in Ask, AskReadsRow(c) \/ AskParks(c) \/ AskResumes(c) PROVE CallsOK'
  BY <1>11, Faces DEF AskReadsRow, AskParks, AskResumes, Posted, Told, CallsOK, Call
<1>12. ASSUME NEW c \in Ask, AskWaits(c) PROVE CallsOK'
  <2>1. open' \subseteq Session
    BY <1>8, <1>12 DEF AskWaits, Call
  <2> QED BY <1>12, <2>1 DEF AskWaits, Posted, CallsOK, Call
<1>13. CASE \/ \E k \in Surface : HoldLapses(k)
            \/ \E s \in Session : BufferLapses(s)
            \/ HeartbeatStops \/ Looks
  BY <1>13 DEF HoldLapses, LetGo, BufferLapses, HeartbeatStops, Looks, CallsOK
<1> QED
  BY <1>1, <1>2, <1>3, <1>5, <1>6, <1>7, <1>9, <1>10, <1>11, <1>12, <1>13
  DEF Next, SendStep, AskStep, LegEnds

\* The row of the last send of the session that runs: the one that posts is such a send.
LEMMA PanelIsASend ==
  ASSUME Shape, RowsOK, NEW c \in Send, call[c] = "posting"
  PROVE  /\ PanelOf(SessionOf[c]) \in Send
         /\ row[PanelOf(SessionOf[c])] \in {"running", "waiting"}
<1> DEFINE s == SessionOf[c]
           live == {i \in DOMAIN rows :
                      SessionOf[rows[i]] = s /\ row[rows[i]] \in {"running", "waiting"}}
<1>1. DOMAIN rows = 1 .. Len(rows) /\ Len(rows) \in Nat
  BY DEF RowsOK
<1>2. live \in SUBSET (1 .. Len(rows)) /\ live # {}
  BY <1>1 DEF RowsOK
<1>3. \E i \in live : \A j \in live : j <= i
  <2> HIDE DEF live
  <2> QED BY <1>1, <1>2, LastPlace
<1>4. PICK i \in live : PanelOf(s) = rows[i]
  BY <1>3 DEF PanelOf
<1> QED BY <1>1, <1>4 DEF RowsOK

\* A step that adds no row, starts no call again and ends the rows of ended calls alone.
LEMMA RowsStay ==
  ASSUME RowsOK, CallsOK, rows' = rows, recorded' \subseteq Ask,
         row' \in [Call -> {"none", "running", "waiting", "over"}],
         \A c \in Call : call'[c] = "idle" => call[c] = "idle",
         \A c \in Send : call'[c] \in {"posting", "leg"} =>
           /\ call[c] \in {"posting", "leg"}
           /\ row'[c] = row[c] \/ row'[c] \in {"running", "waiting"}
  PROVE  RowsOK'
<1>1. \A i \in 1 .. Len(rows) : rows[i] \in Call
  BY DEF RowsOK, Call
<1> QED BY <1>1 DEF RowsOK

LEMMA RowsStep ==
  ASSUME Shape, CallsOK, RowsOK, [Next]_vars
  PROVE  RowsOK'
<1> DEFINE RowSet == [Call -> {"none", "running", "waiting", "over"}]
<1>0. row \in RowSet /\ recorded \subseteq Ask /\ call \in [Call -> {"idle", "posting", "leg", "answered", "over"}]
  BY DEF RowsOK, CallsOK
<1>1. CASE UNCHANGED <<call, rows, row, recorded>>
  BY <1>0, <1>1, RowsStay
<1>2. ASSUME NEW c \in Call, Starts(c) PROVE RowsOK'
  <2>1. CASE c \in Send
    <3>1. /\ call[c] = "idle" /\ call' = [call EXCEPT ![c] = "posting"] /\ recorded' = recorded
          /\ rows' = Append(rows, c) /\ row' = [row EXCEPT ![c] = "running"]
      BY <1>2, <2>1 DEF Starts
    <3>2. rows \in Seq(Send) /\ Len(rows') = Len(rows) + 1 /\ Len(rows) \in Nat
      BY <3>1 DEF RowsOK
    <3>3. /\ rows' \in Seq(Send) /\ rows'[Len(rows) + 1] = c
          /\ \A i \in 1 .. Len(rows) : rows'[i] = rows[i] /\ rows[i] \in Send /\ rows[i] # c
      BY <2>1, <3>1, <3>2 DEF RowsOK
    <3>4. \A i \in 1 .. Len(rows') : i \in 1 .. Len(rows) \/ i = Len(rows) + 1
      BY <3>2
    <3>5. \A i, j \in 1 .. Len(rows') : rows'[i] = rows'[j] => i = j
      BY <3>3, <3>4 DEF RowsOK
    <3>6. \A i \in 1 .. Len(rows') : call'[rows'[i]] # "idle"
      BY <1>0, <3>1, <3>3, <3>4 DEF RowsOK, Call
    <3>7. ASSUME NEW d \in Send, call'[d] \in {"posting", "leg"}
          PROVE  row'[d] \in {"running", "waiting"} /\ \E i \in 1 .. Len(rows') : rows'[i] = d
      <4>1. CASE d = c
        BY <1>0, <3>1, <3>2, <3>3, <4>1
      <4>2. CASE d # c
        <5>1. call[d] \in {"posting", "leg"} /\ row'[d] = row[d]
          BY <1>0, <3>1, <3>7, <4>2 DEF Call
        <5>2. PICK i \in 1 .. Len(rows) : rows[i] = d
          BY <5>1 DEF RowsOK
        <5>3. i \in 1 .. Len(rows') /\ rows'[i] = d
          BY <3>2, <3>3, <5>2
        <5> QED BY <5>1, <5>3 DEF RowsOK
      <4> QED BY <4>1, <4>2
    <3>8. row' \in RowSet
      BY <1>0, <3>1
    <3> QED BY <1>0, <3>1, <3>3, <3>5, <3>6, <3>7, <3>8 DEF RowsOK
  <2>2. CASE c \notin Send
    <3>1. /\ call' = [call EXCEPT ![c] = "posting"] /\ UNCHANGED <<rows, recorded>>
          /\ row' = [row EXCEPT ![c] = "waiting"]
      BY <1>2, <2>2 DEF Starts
    <3>2. \A d \in Send : call'[d] = call[d] /\ row'[d] = row[d]
      BY <1>0, <2>2, <3>1 DEF Call
    <3>3. row' \in RowSet /\ \A d \in Call : call'[d] = "idle" => call[d] = "idle"
      BY <1>0, <3>1
    <3> QED BY <1>0, <3>1, <3>2, <3>3, RowsStay
  <2> QED BY <2>1, <2>2
<1>3. ASSUME NEW c \in Call, NEW what \in {"over", "answered"}, Told(c, what), UNCHANGED <<rows, recorded>>
      PROVE  RowsOK'
  <2>1. row' \in RowSet /\ \A d \in Call : call'[d] = "idle" => call[d] = "idle"
    BY <1>0, <1>3 DEF Told
  <2>2. \A d \in Call : call'[d] \in {"posting", "leg"} => call[d] = call'[d] /\ row'[d] = row[d]
    BY <1>0, <1>3 DEF Told
  <2> QED BY <1>0, <1>3, <2>1, <2>2, RowsStay DEF Call
<1>4. ASSUME NEW c \in Call, call[c] \in {"posting", "leg"}, NEW what \in {"posting", "leg"},
             call' = [call EXCEPT ![c] = what], UNCHANGED <<rows, row, recorded>>
      PROVE  RowsOK'
  <2>1. \A d \in Call : /\ call'[d] = "idle" => call[d] = "idle"
                        /\ call'[d] \in {"posting", "leg"} => call[d] \in {"posting", "leg"}
    BY <1>0, <1>4
  <2> QED BY <1>0, <1>4, <2>1, RowsStay DEF Call
<1>5. ASSUME NEW c \in Call, LegExpires(c) \/ StrayExpires(c) \/ SocketDies(c) \/ CallerDies(c)
      PROVE  RowsOK'
  <2>1. CASE CallerDies(c)
    BY <1>3, <2>1 DEF CallerDies
  <2>2. CASE SocketDies(c)
    BY <1>4, <2>2 DEF SocketDies
  <2>3. CASE StrayExpires(c)
    BY <1>1, <2>3 DEF StrayExpires
  <2>4. CASE LegExpires(c)
    BY <1>1, <1>4, <2>4 DEF LegExpires
  <2> QED BY <1>5, <2>1, <2>2, <2>3, <2>4
<1>6. ASSUME NEW p \in Call, ClicksPanel(p) PROVE RowsOK'
  <2>1. /\ row' = [row EXCEPT ![p] = IF @ = "over" THEN @ ELSE "running"]
        /\ recorded' = IF p \in Ask THEN recorded \cup {p} ELSE recorded
        /\ UNCHANGED <<call, rows>>
    BY <1>6 DEF ClicksPanel
  <2>2. row' \in RowSet /\ \A d \in Call : row'[d] = row[d] \/ row'[d] = "running"
    BY <1>0, <2>1
  <2> QED BY <1>0, <2>1, <2>2, RowsStay DEF Call
<1>7. ASSUME NEW c \in Send, SendWaits(c) PROVE RowsOK'
  <2> DEFINE panel == PanelOf(SessionOf[c])
  <2>1. /\ call[c] = "posting" /\ call' = [call EXCEPT ![c] = "leg"]
        /\ row' = [row EXCEPT ![panel] = "waiting"] /\ UNCHANGED <<rows, recorded>>
    BY <1>7 DEF SendWaits, Posting, Posted
  <2>2. row' \in RowSet /\ \A d \in Call : row'[d] = row[d] \/ row'[d] = "waiting"
    <3> HIDE DEF panel
    <3> QED BY <1>0, <2>1
  <2>3. \A d \in Call : /\ call'[d] = "idle" => call[d] = "idle"
                        /\ call'[d] \in {"posting", "leg"} => call[d] \in {"posting", "leg"}
    BY <1>0, <2>1
  <2> QED BY <1>0, <2>1, <2>2, <2>3, RowsStay DEF Call
<1>8. ASSUME NEW c \in Send, SendTurnedAway(c) \/ SendFindsCardTaken(c) \/ RunsOut(c)
      PROVE  RowsOK'
  BY <1>3, <1>8 DEF SendTurnedAway, SendFindsCardTaken, RunsOut, Call
<1>9. ASSUME NEW c \in Send, SendResumes(c) \/ StrayResumes(c) \/ SendEnds(c) PROVE RowsOK'
  BY <1>1, <1>3, <1>9 DEF SendResumes, StrayResumes, SendEnds, Call
<1>10. ASSUME NEW c \in Ask, AskStep(c) PROVE RowsOK'
  BY <1>1, <1>3, <1>4, <1>10 DEF AskStep, AskReadsRow, AskParks, AskWaits, AskResumes, Posting,
     Posted, Call
<1>11. CASE \/ \E k \in Surface : HoldLapses(k)
            \/ \E s \in Session : BufferLapses(s)
            \/ HeartbeatStops \/ Looks \/ ClicksCard
  BY <1>1, <1>11 DEF HoldLapses, BufferLapses, HeartbeatStops, Looks, ClicksCard
<1>12. CASE UNCHANGED vars
  BY <1>1, <1>12 DEF vars
<1> QED
  BY <1>2, <1>5, <1>6, <1>7, <1>8, <1>9, <1>10, <1>11, <1>12 DEF Next, SendStep, LegEnds

\* A panel is named by a wait: the row of a send, or of the question itself.
LEMMA PanelsStep ==
  ASSUME Shape, RowsOK, PanelsOK, [Next]_vars
  PROVE  PanelsOK'
<1>1. ASSUME NEW c \in Call, NEW p \in Call, NEW l, NEW lost, Waits(c, p, l, lost)
      PROVE  PanelsOK'
  BY <1>1 DEF Waits, WaitsEnding, PanelsOK
<1>2. ASSUME NEW c \in Send, SendWaits(c) PROVE PanelsOK'
  <2>1. PanelOf(SessionOf[c]) \in Call
    BY <1>2, PanelIsASend DEF SendWaits, Posting, Call
  <2> QED BY <1>1, <1>2, <2>1 DEF SendWaits, Call
<1>3. ASSUME NEW c \in Ask, AskWaits(c) PROVE PanelsOK'
  BY <1>1, <1>3 DEF AskWaits, Call
<1>4. CASE ident' = ident \/ \E s : ident' = [ident EXCEPT ![s] = None]
  BY <1>4 DEF PanelsOK
<1>5. CASE ClicksCard \/ \E p \in Call : ClicksPanel(p)
  BY <1>4, <1>5 DEF ClicksCard, ClicksPanel, Delivered
<1>6. ASSUME NEW c \in Call, Starts(c) \/ LegEnds(c) \/ SocketDies(c) \/ CallerDies(c)
      PROVE  PanelsOK'
  BY <1>4, <1>6 DEF Starts, LegEnds, LegExpires, StrayExpires, SocketDies, CallerDies
<1>7. ASSUME NEW c \in Send, SendStep(c), ~SendWaits(c) PROVE PanelsOK'
  BY <1>4, <1>7 DEF SendStep, SendTurnedAway, SendFindsCardTaken, SendResumes, StrayResumes,
                    SendEnds, RunsOut
<1>8. ASSUME NEW c \in Ask, AskStep(c), ~AskWaits(c) PROVE PanelsOK'
  BY <1>4, <1>8 DEF AskStep, AskReadsRow, AskParks, AskResumes
<1>9. CASE \/ \E k \in Surface : HoldLapses(k)
           \/ \E s \in Session : BufferLapses(s)
           \/ HeartbeatStops \/ Looks
  BY <1>4, <1>9 DEF HoldLapses, BufferLapses, HeartbeatStops, Looks
<1>10. CASE UNCHANGED vars
  BY <1>4, <1>10 DEF vars
<1> QED
  BY <1>2, <1>3, <1>5, <1>6, <1>7, <1>8, <1>9, <1>10 DEF Next

LEMMA UnionCount ==
  ASSUME NEW S, NEW T, IsFiniteSet(S), IsFiniteSet(T), NEW m \in Nat, NEW n \in Nat,
         Cardinality(S) <= m, Cardinality(T) <= n
  PROVE  IsFiniteSet(S \cup T) /\ Cardinality(S \cup T) <= m + n
<1>1. /\ IsFiniteSet(S \cup T)
      /\ Cardinality(S \cup T) = Cardinality(S) + Cardinality(T) - Cardinality(S \cap T)
  BY FS_Union
<1>2. Cardinality(S \cap T) \in Nat
  BY FS_Intersection, FS_CardinalityType
<1>3. Cardinality(S) \in Nat /\ Cardinality(T) \in Nat
  BY FS_CardinalityType
<1> QED BY <1>1, <1>2, <1>3

\* The names in use are few, so the next one is small.
LEMMA FreshIsSmall ==
  ASSUME Shape
  PROVE  Fresh(UsedIds) \in Ids /\ 0 \in Ids
<1> DEFINE asks == [k \in Surface |-> hold[k].ask]
           legAsks == [c \in Call |-> leg[c].ask]
           strayAsks == [c \in Call |-> stray[c].ask]
           n == Cardinality(Call)
           k == Cardinality(Surface)
           A == {asks[x] : x \in Surface}
           B == {legAsks[c] : c \in Call}
           C == {strayAsks[c] : c \in Call}
           D == {card.id} \cup {view.id}
<1> HIDE DEF asks, legAsks, strayAsks
<1>1. IsFiniteSet(Surface)
  <2>1. IsFiniteSet({Card})
    BY FS_Singleton
  <2> QED BY <2>1, GateFinite, FS_Union DEF Surface
<1>2. n \in Nat /\ k \in Nat
  BY <1>1, CallIsFinite, FS_CardinalityType
<1>3. IsFiniteSet(A) /\ Cardinality(A) <= k
  BY <1>1, ImageIsFinite, ImageIsSmall
<1>4. IsFiniteSet(B) /\ Cardinality(B) <= n /\ IsFiniteSet(C) /\ Cardinality(C) <= n
  BY CallIsFinite, ImageIsFinite, ImageIsSmall
<1>5. IsFiniteSet(D) /\ Cardinality(D) <= 2
  <2>1. /\ IsFiniteSet({card.id}) /\ Cardinality({card.id}) = 1
        /\ IsFiniteSet({view.id}) /\ Cardinality({view.id}) = 1
    BY FS_Singleton
  <2> DEFINE D1 == {card.id}
             D2 == {view.id}
  <2>2. /\ IsFiniteSet(D1) /\ Cardinality(D1) <= 1
        /\ IsFiniteSet(D2) /\ Cardinality(D2) <= 1
    BY <2>1
  <2>3. D = D1 \cup D2
    OBVIOUS
  <2> HIDE DEF D, D1, D2
  <2>4. IsFiniteSet(D1 \cup D2) /\ Cardinality(D1 \cup D2) <= 1 + 1
    BY <2>2, UnionCount
  <2>5. IsFiniteSet(D) /\ Cardinality(D) <= 1 + 1
    BY <2>3, <2>4, Zenon
  <2> QED BY <2>5
<1>6. UsedIds = ((D \cup A) \cup B) \cup C
  BY DEF UsedIds, asks, legAsks, strayAsks
<1> HIDE DEF n, k, A, B, C, D
<1>7. IsFiniteSet(D \cup A) /\ Cardinality(D \cup A) <= 2 + k
  BY <1>2, <1>3, <1>5, UnionCount
<1>12. 2 + k \in Nat /\ (2 + k) + n \in Nat
  BY <1>2
<1>8. IsFiniteSet((D \cup A) \cup B) /\ Cardinality((D \cup A) \cup B) <= (2 + k) + n
  BY <1>2, <1>4, <1>7, <1>12, UnionCount
<1>9. IsFiniteSet(UsedIds) /\ Cardinality(UsedIds) <= ((2 + k) + n) + n
  BY <1>2, <1>4, <1>6, <1>8, <1>12, UnionCount
<1>10. Fresh(UsedIds) \in Nat /\ Fresh(UsedIds) <= Cardinality(UsedIds) + 1
  BY <1>9, FreshIsNew
<1>11. Cardinality(UsedIds) \in Nat
  BY <1>9, FS_CardinalityType
<1> QED BY <1>2, <1>9, <1>10, <1>11 DEF Ids, n, k

\* A step that names nothing new.
LEMMA NamesStay ==
  ASSUME IdsOK, 0 \in Ids,
         card'.id \in Ids, view' \in [id : Ids, what : Word],
         \A k \in Surface : hold'[k].ask \in Ids,
         \A c \in Call : leg'[c].ask \in {0, leg[c].ask}
                         /\ stray'[c].ask \in {0, stray[c].ask, leg[c].ask}
  PROVE  IdsOK'
  BY DEF IdsOK, Ids

LEMMA IdsStep ==
  ASSUME IInv, IdsOK, [Next]_vars
  PROVE  IdsOK'
<1>0. /\ Shape /\ Fresh(UsedIds) \in Ids /\ 0 \in Ids
      /\ NoBlock.id = 0 /\ NoHold.ask = 0 /\ NoLeg.ask = 0
      /\ NoView \in [id : Ids, what : Word]
  <2>1. Shape
    BY DEF IInv
  <2> QED BY <2>1, FreshIsSmall DEF NoBlock, NoHold, NoLeg, NoView, Word
<1>1. CASE UNCHANGED vars
  BY <1>1 DEF vars, IdsOK, Ids
<1>2. ASSUME \A c \in Call : leg'[c].ask = leg[c].ask /\ stray'[c].ask = stray[c].ask
      PROVE  \A c \in Call : leg'[c].ask \in {0, leg[c].ask}
                             /\ stray'[c].ask \in {0, stray[c].ask, leg[c].ask}
  BY <1>2
<1>3. CASE QuietStep
  <2>1. UNCHANGED <<hold, card>>
    BY <1>3, QuietSteps DEF Quiet
  <2>2. \A c \in Call : leg'[c].ask \in {0, leg[c].ask}
                        /\ stray'[c].ask \in {0, stray[c].ask, leg[c].ask}
    BY <1>0, <1>3, QuietSteps, QuietLegs DEF Fades
  <2>3. view' = view \/ view' = [id |-> card.id, what |-> card.what]
    BY <1>3 DEF QuietStep, Starts, LegEnds, LegExpires, StrayExpires, SocketDies, CallerDies,
       SendTurnedAway, RunsOut, SendEnds, AskReadsRow, AskParks, Looks, BufferLapses
  <2>4. view' \in [id : Ids, what : Word]
    BY <1>0, <2>3 DEF IdsOK, Shape
  <2>5. card'.id \in Ids /\ \A k \in Surface : hold'[k].ask \in Ids
    BY <2>1 DEF IdsOK
  <2> QED BY <1>0, <2>2, <2>4, <2>5, NamesStay
<1>4. [card EXCEPT !.stale = TRUE].id = card.id /\ [card EXCEPT !.stale = FALSE].id = card.id
  BY <1>0 DEF Shape
<1>5. ASSUME NEW c, NEW k \in Surface, LetGo(c, k) PROVE \A j \in Surface : hold'[j].ask \in Ids
  BY <1>0, <1>5 DEF LetGo, Shape, IdsOK
<1>6. CASE HeartbeatStops
  <2>1. card' = [card EXCEPT !.stale = TRUE] /\ UNCHANGED <<hold, view, leg, stray>>
    BY <1>6 DEF HeartbeatStops
  <2> QED BY <1>4, <2>1 DEF IdsOK, Ids
<1>7. ASSUME NEW k \in Surface, HoldLapses(k) PROVE IdsOK'
  <2>1. UNCHANGED <<card, view, leg, stray>> /\ \A j \in Surface : hold'[j].ask \in Ids
    BY <1>5, <1>7 DEF HoldLapses
  <2> QED BY <2>1 DEF IdsOK, Ids
<1>8. ASSUME NEW c \in Send, SendFindsCardTaken(c) PROVE IdsOK'
  <2>1. Face(SessionOf[c]) \in Surface
    BY <1>0, Faces DEF Call
  <2>2. UNCHANGED <<view, leg, stray>> /\ \A j \in Surface : hold'[j].ask \in Ids
    BY <1>5, <1>8, <2>1 DEF SendFindsCardTaken
  <2>3. card' \in {card, [card EXCEPT !.stale = FALSE]}
    BY <1>8 DEF SendFindsCardTaken
  <2> QED BY <1>4, <2>2, <2>3 DEF IdsOK, Ids
<1>9. ASSUME NEW c \in Send, NEW l, l.at = "woken", EndsItsQuestion(c, l), Releases(c, l),
             view' = view,
             \A d \in Call : leg'[d].ask \in {0, leg[d].ask} /\ stray'[d].ask \in {0, stray[d].ask}
      PROVE  IdsOK'
  <2>1. Face(SessionOf[c]) \in Surface
    BY <1>0, Faces DEF Call
  <2>2. \A j \in Surface : hold'[j].ask \in Ids
    BY <1>5, <1>9, <2>1 DEF Releases, IdsOK
  <2>3. card'.id \in Ids
    BY <1>0, <1>9 DEF EndsItsQuestion, IdsOK
  <2>4. view' \in [id : Ids, what : Word]
    BY <1>9 DEF IdsOK
  <2> QED BY <1>0, <1>9, <2>2, <2>3, <2>4, NamesStay
<1>10. ASSUME NEW c \in Send, SendResumes(c) \/ StrayResumes(c) PROVE IdsOK'
  <2>1. c \in Call /\ leg[c] \in Leg /\ stray[c] \in Leg
    BY <1>0, Faces DEF Call
  <2>2. /\ Resumed(c, leg[c]).ask = 0 /\ Resumed(c, stray[c]).ask = 0
        /\ [leg[c] EXCEPT !.holds = FALSE].ask = leg[c].ask
        /\ [stray[c] EXCEPT !.holds = FALSE].ask = stray[c].ask
    BY <2>1, ResumedLeg DEF Leg
  <2>3. CASE SendResumes(c)
    <3>1. /\ leg' = [leg EXCEPT ![c] = Resumed(c, leg[c])]
          /\ stray' = stray \/ stray' = [stray EXCEPT ![c] = [stray[c] EXCEPT !.holds = FALSE]]
          /\ leg[c].at = "woken" /\ EndsItsQuestion(c, leg[c]) /\ Releases(c, leg[c]) /\ view' = view
      BY <2>3 DEF SendResumes
    <3>2. \A d \in Call : leg'[d].ask \in {0, leg[d].ask} /\ stray'[d].ask \in {0, stray[d].ask}
      BY <1>0, <2>2, <3>1 DEF Shape
    <3> QED BY <1>9, <3>1, <3>2
  <2>4. CASE StrayResumes(c)
    <3>1. /\ stray' = [stray EXCEPT ![c] = Resumed(c, stray[c])]
          /\ leg' = leg \/ leg' = [leg EXCEPT ![c] = [leg[c] EXCEPT !.holds = FALSE]]
          /\ stray[c].at = "woken" /\ EndsItsQuestion(c, stray[c]) /\ Releases(c, stray[c])
          /\ view' = view
      BY <2>4 DEF StrayResumes
    <3>2. \A d \in Call : leg'[d].ask \in {0, leg[d].ask} /\ stray'[d].ask \in {0, stray[d].ask}
      BY <1>0, <2>2, <3>1 DEF Shape
    <3> QED BY <1>9, <3>1, <3>2
  <2> QED BY <1>10, <2>3, <2>4
<1>11. ASSUME NEW c \in Call, NEW p, NEW l \in Leg, NEW lost, Waits(c, p, l, lost), l.ask \in Ids
       PROVE  \A d \in Call : leg'[d].ask \in Ids /\ stray'[d].ask \in Ids
  <2>1. /\ leg'[c].ask = l.ask
        /\ \A d \in Call \ {c} : leg'[d] = leg[d] \/ leg'[d] = Rouse(leg[d])
        /\ \A d \in Call : stray'[d] = stray[d] \/ stray'[d] = Rouse(stray[d])
    BY <1>0, <1>11, WaitBegins
  <2>2. \A d \in Call : /\ leg[d] \in Leg /\ stray[d] \in Leg
                        /\ Rouse(leg[d]).ask = leg[d].ask /\ Rouse(stray[d]).ask = stray[d].ask
    BY <1>0, RouseType DEF Shape
  <2> QED BY <1>11, <2>1, <2>2 DEF IdsOK
<1>12. ASSUME NEW c \in Call PROVE NewBlock(c, Fresh(UsedIds)).id = Fresh(UsedIds)
  BY DEF NewBlock
<1>13. ASSUME NEW c \in Send, SendWaits(c) PROVE IdsOK'
  <2> DEFINE s == SessionOf[c]
             new == carded /\ ~Asks(c)
             id == IF new THEN Fresh(UsedIds) ELSE MineOf(c)
             l == [NoLeg EXCEPT !.holds = TRUE]
  <2>1. c \in Call /\ Face(s) \in Surface
    BY <1>0, Faces DEF Call
  <2>2. id \in Ids
    BY <1>0, <2>1 DEF IdsOK, MineOf
  <2>3. l \in Leg /\ l.ask = 0
    BY NoLegType DEF NoLeg
  <2>4. /\ hold' = [hold EXCEPT ![Face(s)] = [by |-> c, ask |-> id]] /\ view' = view
        /\ card' \in {NewBlock(c, Fresh(UsedIds)), card, [card EXCEPT !.stale = FALSE]}
        /\ Waits(c, PanelOf(s), l, IF new THEN Loser(c) ELSE None)
    BY <1>13 DEF SendWaits
  <2> HIDE DEF id, l, new
  <2>5. \A d \in Call : leg'[d].ask \in Ids /\ stray'[d].ask \in Ids
    BY <1>0, <1>11, <2>1, <2>3, <2>4
  <2>6. \A j \in Surface : hold'[j].ask \in Ids
    BY <1>0, <2>2, <2>4 DEF Shape, IdsOK
  <2>7. card'.id \in Ids
    BY <1>0, <1>4, <1>12, <2>1, <2>4 DEF IdsOK
  <2> QED BY <2>4, <2>5, <2>6, <2>7 DEF IdsOK, Ids
<1>14. ASSUME NEW c \in Ask, AskWaits(c) PROVE IdsOK'
  <2> DEFINE new == carded /\ TakesCard(c, open \cup {SessionOf[c]})
             id == IF new THEN Fresh(UsedIds) ELSE 0
             l == [NoLeg EXCEPT !.ask = id]
  <2>1. c \in Call
    BY DEF Call
  <2>2. id \in Ids /\ id \in Nat
    BY <1>0 DEF Ids
  <2>3. l \in Leg /\ l.ask \in Ids
    BY <2>2, NoLegType DEF NoLeg
  <2>4. /\ UNCHANGED <<hold, view>>
        /\ card' \in {NewBlock(c, Fresh(UsedIds)), card, [card EXCEPT !.stale = FALSE]}
        /\ Waits(c, c, l, IF new THEN Loser(c) ELSE None)
    BY <1>14 DEF AskWaits
  <2> HIDE DEF id, l, new
  <2>5. \A d \in Call : leg'[d].ask \in Ids /\ stray'[d].ask \in Ids
    BY <1>11, <2>1, <2>3, <2>4
  <2>6. card'.id \in Ids
    BY <1>0, <1>4, <1>12, <2>1, <2>4 DEF IdsOK
  <2> QED BY <2>4, <2>5, <2>6 DEF IdsOK, Ids
<1>15. ASSUME NEW c \in Ask, AskResumes(c) PROVE IdsOK'
  <2>1. /\ UNCHANGED <<hold, view>> /\ card' \in {card, NoBlock}
        /\ leg' = leg \/ leg' = [leg EXCEPT ![c] = NoLeg]
        /\ stray' = stray \/ stray' = [stray EXCEPT ![c] = NoLeg]
    BY <1>15 DEF AskResumes, AskOff
  <2>2. \A d \in Call : leg'[d].ask \in {0, leg[d].ask} /\ stray'[d].ask \in {0, stray[d].ask}
    BY <1>0, <2>1 DEF Shape
  <2> QED BY <1>0, <2>1, <2>2 DEF IdsOK, Ids
<1>16. ASSUME NEW s, NEW what \in Word, NEW said \in BOOLEAN, NEW on \in Call \cup {None},
              Delivered(s, what, said, on)
       PROVE  \A d \in Call : leg'[d].ask \in Ids /\ stray'[d].ask \in Ids
  <2>1. /\ leg' = [c \in Call |-> Answered(leg[c], c, s, what, said)]
        /\ stray' = [c \in Call |-> Answered(stray[c], c, s, what, said)]
    BY <1>16 DEF Delivered, Answered, Serve
  <2>2. ASSUME NEW d \in Call
        PROVE  /\ Answered(leg[d], d, s, what, said).ask = leg[d].ask
               /\ Answered(stray[d], d, s, what, said).ask = stray[d].ask
    <3>1. leg[d] \in Leg /\ stray[d] \in Leg
      BY <1>0 DEF Shape
    <3>2. /\ Serve(leg[d], what, said).ask = leg[d].ask
          /\ Serve(stray[d], what, said).ask = stray[d].ask
      BY <1>16, <3>1, ServeType
    <3> QED BY <3>2 DEF Answered
  <2> QED BY <2>1, <2>2 DEF IdsOK
<1>17. \A what : Sayings(what) \subseteq BOOLEAN
  BY DEF Sayings
<1>18. CASE ClicksCard
  <2>1. PICK said \in BOOLEAN : Delivered(card.of, card.what, said, None)
    BY <1>17, <1>18 DEF ClicksCard
  <2>2. card' = NoBlock /\ view' = NoView /\ hold' = hold
    BY <1>18 DEF ClicksCard
  <2>3. \A d \in Call : leg'[d].ask \in Ids /\ stray'[d].ask \in Ids
    BY <1>0, <1>16, <2>1 DEF Shape
  <2> QED BY <1>0, <2>2, <2>3 DEF IdsOK, Ids
<1>19. ASSUME NEW p \in Call, ClicksPanel(p) PROVE IdsOK'
  <2>1. PICK said \in BOOLEAN : Delivered(SessionOf[p], painted[p], said, p)
    BY <1>17, <1>19 DEF ClicksPanel
  <2>2. UNCHANGED <<hold, card, view>> /\ painted[p] \in Word
    BY <1>0, <1>19 DEF ClicksPanel, Shape
  <2>3. \A d \in Call : leg'[d].ask \in Ids /\ stray'[d].ask \in Ids
    BY <1>16, <2>1, <2>2
  <2> QED BY <2>2, <2>3 DEF IdsOK, Ids
<1> QED
  BY <1>1, <1>3, <1>6, <1>7, <1>8, <1>10, <1>13, <1>14, <1>15, <1>18, <1>19, Steps

LEMMA ShapeInvNext == ShapeInv /\ [Next]_vars => ShapeInv'
<1> SUFFICES ASSUME ShapeInv, [Next]_vars PROVE ShapeInv'
  OBVIOUS
<1>1. CardInv' /\ IInv /\ Shape /\ HoldsItsSurface
  BY CardInvNext DEF ShapeInv, CardInv, IInv, Holds
<1>2. CallsOK' /\ RowsOK' /\ PanelsOK' /\ IdsOK'
  BY <1>1, CallsStep, RowsStep, PanelsStep, IdsStep DEF ShapeInv
<1> QED BY <1>1, <1>2 DEF ShapeInv

LEMMA InitShapes == Init => CallsOK /\ RowsOK /\ PanelsOK /\ IdsOK
<1> SUFFICES ASSUME Init PROVE CallsOK /\ RowsOK /\ PanelsOK /\ IdsOK
  OBVIOUS
<1>1. CallsOK /\ PanelsOK
  BY GateBounds DEF Init, CallsOK, PanelsOK
<1>2. RowsOK
  BY DEF Init, RowsOK, Call
<1>3. IdsOK
  <2>1. Shape
    BY InitHolds DEF IInv
  <2> QED BY <2>1, FreshIsSmall DEF Init, IdsOK, NoBlock, NoHold, NoLeg, NoView, Word
<1> QED BY <1>1, <1>2, <1>3

\* The sends of the transcript are no more than the sends.
LEMMA RowsAreFew ==
  ASSUME RowsOK
  PROVE  Len(rows) <= Cardinality(Send)
<1>1. Len(rows) \in Nat /\ rows \in [1 .. Len(rows) -> Send]
  BY DEF RowsOK
<1>2. rows \in Injection(1 .. Len(rows), Send)
  BY <1>1 DEF RowsOK, Injection, IsInjective
<1>3. Cardinality(1 .. Len(rows)) <= Cardinality(Send)
  BY <1>2, GateFinite, FS_Injection
<1>4. Cardinality(1 .. Len(rows)) = Len(rows)
  BY <1>1, FS_Interval
<1> QED BY <1>3, <1>4

\* A session has one wait, if any.
LEMMA WaitsAreFew ==
  ASSUME OneWait, NEW s
  PROVE  Cardinality(Waiting(s)) <= 1
<1>1. \A x, y \in Waiting(s) : x = y
  BY DEF Waiting, OneWait
<1>2. CASE Waiting(s) = {}
  BY <1>2, FS_EmptySet
<1>3. CASE Waiting(s) # {}
  <2>1. PICK x : x \in Waiting(s)
    BY <1>3
  <2>2. Cardinality({x}) = 1
    BY FS_Singleton
  <2>3. Waiting(s) = {x}
    <3> HIDE DEF Waiting
    <3> QED BY <1>1, <2>1
  <2>4. Cardinality(Waiting(s)) = 1
    BY <2>2, <2>3, Zenon
  <2> QED BY <2>4
<1> QED BY <1>2, <1>3

-----------------------------------------------------------------------------

(* The strengthening the results below rest on: the shapes of the state, one wait of a
   session, the holds, the rows on the card and who waits for them, and the yeses on
   their way, paid. *)
THEOREM InvariantHolds == Spec => []CardInv
<1>1. Init => CardInv
  <2>1. Init => CardIsAsked /\ ViewIsTrue
    BY DEF Init, CardIsAsked, ViewIsTrue, NoBlock
  <2> QED BY <2>1, InitHolds DEF CardInv
<1> QED BY <1>1, CardInvNext, PTL DEF Spec

(* A message leaves once for each yes given to that message: the yeses delivered, less
   the sends started, never fall below zero (outbound.ts, ask-user-bridge.ts). *)
THEOREM YesesPayForSends == Spec => []OneYesOneSend
<1>1. IInv => OneYesOneSend
  <2> SUFFICES ASSUME IInv, NEW m \in Message PROVE unspent[m] >= 0
    BY DEF OneYesOneSend
  <2>1. OnTheirWay(m) <= unspent[m] /\ unspent[m] \in Int
    BY DEF IInv, Paid, Shape
  <2> QED BY <2>1, YesesAreCounted DEF OnTheirWay
<1>2. CardInv => IInv
  BY DEF CardInv
<1> QED BY <1>1, <1>2, InvariantHolds, PTL

(* A send that waits while it holds the card has its own question there, under the row
   it wrote, whatever the other legs of the card do (outbound-gate.ts). *)
THEOREM HoldersAreOnTheCard == Spec => []HolderIsOnTheCard
<1>1. IInv => HolderIsOnTheCard
  <2> SUFFICES ASSUME IInv, carded, NEW c \in Send, NEW l \in {leg[c], stray[c]}, WaitsHolding(c, l)
               PROVE  hold[Card].by = c /\ card.id # 0 /\ card.id = MineOf(c) /\ Asks(c)
    BY DEF HolderIsOnTheCard
  <2>1. c \in Call /\ Face(SessionOf[c]) = Card
    BY Faces DEF IInv, Call
  <2>2. hold[Face(SessionOf[c])].by = c
    BY <2>1 DEF IInv, Holds, HoldsItsSurface, WaitsHolding
  <2> QED BY <2>1, <2>2 DEF IInv, Holds, HolderAsks
<1>2. CardInv => IInv
  BY DEF CardInv
<1> QED BY <1>1, <1>2, InvariantHolds, PTL

(* A generic question never ends the wait of a send of its session that holds its
   surface: with the hold there, the leg of the question parks (routes/permission.ts). *)
THEOREM QuestionsLeaveSendsAlone == Spec => SendIsNotCut
<1> DEFINE Cut == \A q \in Ask : AskStep(q) =>
       \A c \in Send : WaitsHolding(c, leg[c]) /\ SessionOf[c] = SessionOf[q] => leg'[c] = leg[c]
<1>1. IInv => Cut
  <2> SUFFICES ASSUME IInv, NEW q \in Ask, AskStep(q), NEW c \in Send, WaitsHolding(c, leg[c]),
                      SessionOf[c] = SessionOf[q]
               PROVE  leg'[c] = leg[c]
    OBVIOUS
  <2>1. c \in Call /\ c # q /\ c # None /\ Face(SessionOf[c]) \in Surface /\ Shape
    BY Faces DEF IInv, Call
  <2>2. hold[Face(SessionOf[c])].by = c
    BY <2>1 DEF IInv, Holds, HoldsItsSurface, WaitsHolding
  <2>3. Held(SessionOf[q])
    BY <2>1, <2>2 DEF Held
  <2>4. leg' = leg \/ \E l : leg' = [leg EXCEPT ![q] = l]
    BY <2>3 DEF AskStep, AskReadsRow, AskParks, AskWaits, AskResumes
  <2> QED BY <2>1, <2>4 DEF Shape
<1>2. CardInv /\ [Next]_vars => [Cut]_vars
  BY <1>1 DEF CardInv
<1> QED BY <1>2, InvariantHolds, PTL DEF SendIsNotCut, Spec

(* A click on the card that resumes a leg resumes the leg of the question that was read:
   of a session nobody waits but for the question it has on the card, and a row that was
   read keeps its question (answerRoutedAsk). *)
THEOREM ClicksFindTheirQuestion == Spec => ClicksReachTheirQuestion
<1> DEFINE Found == \A c \in Call : ClicksCard /\ leg[c].at = "waiting" /\ leg'[c].at = "woken"
                      => What(c) = view.what
<1>1. CardInv => Found
  <2> SUFFICES ASSUME CardInv, NEW c \in Call, ClicksCard, leg[c].at = "waiting", leg'[c].at = "woken"
               PROVE  What(c) = view.what
    OBVIOUS
  <2>1. Shape /\ card.what \in Word /\ \A what : Sayings(what) \subseteq BOOLEAN
    BY DEF CardInv, IInv, Shape, Sayings
  <2>2. PICK said \in BOOLEAN : Delivered(card.of, card.what, said, None)
    BY <2>1 DEF ClicksCard
  <2>3. leg' = [d \in Call |-> IF SessionOf[d] = card.of /\ leg[d].at = "waiting"
                               THEN Serve(leg[d], card.what, said) ELSE leg[d]]
    BY <2>2 DEF Delivered, Serve
  <2>4. SessionOf[c] = card.of
    BY <2>3
  <2>5. card.id # 0 /\ view.id = card.id /\ ~\E d \in Call : Ending(d)
    BY DEF ClicksCard, Clicked, Settled, Answers, Ending
  <2>6. Asks(c) /\ view.what = card.what
    BY <2>4, <2>5 DEF CardInv, CardIsAsked, ViewIsTrue
  <2> QED BY <2>6 DEF Asks
<1>2. CardInv /\ [Next]_vars => [Found]_vars
  BY <1>1
<1> QED BY <1>2, InvariantHolds, PTL DEF ClicksReachTheirQuestion, Spec

(* Every variable of the gate keeps the shape the code gives it; a session has at most   *)
(* one wait, and the rows of the card are named from a few names (outbound-gate.ts).     *)
THEOREM GateShapesAreKept == Spec => []TypeOK
<1>1. Init => ShapeInv
  <2>1. Init => CardIsAsked /\ ViewIsTrue
    BY DEF Init, CardIsAsked, ViewIsTrue, NoBlock
  <2> QED BY <2>1, InitHolds, InitShapes DEF ShapeInv, CardInv
<1>2. ShapeInv => TypeOK
  <2> SUFFICES ASSUME ShapeInv PROVE TypeOK
    OBVIOUS
  <2>1. Shape /\ OneWait /\ CallsOK /\ RowsOK /\ PanelsOK /\ IdsOK
    BY DEF ShapeInv, CardInv, IInv
  <2>2. \A c \in Call : LegType(leg[c]) /\ LegType(stray[c])
    BY <2>1 DEF Shape, IdsOK, Leg, LegType, Word
  <2>3. hold \in [Surface -> [by : Send \cup {None}, ask : Ids]]
    <3>1. \A k \in Surface : hold[k] \in [by : Send \cup {None}, ask : Ids]
      BY <2>1 DEF Shape, IdsOK
    <3> QED BY <2>1, <3>1 DEF Shape
  <2>4. card \in [id : Ids, of : Session \cup {None}, what : Word, stale : BOOLEAN]
    BY <2>1 DEF Shape, IdsOK
  <2>5. Len(rows) <= Cardinality(Send) /\ \A s \in Session : Cardinality(Waiting(s)) <= 1
    BY <2>1, RowsAreFew, WaitsAreFew
  <2> QED
    BY <2>1, <2>2, <2>3, <2>4, <2>5 DEF TypeOK, Shape, CallsOK, RowsOK, PanelsOK, IdsOK, Word
<1> QED BY <1>1, <1>2, ShapeInvNext, PTL DEF Spec
=============================================================================
