---------------------------- MODULE OwedDelivery ----------------------------
(***************************************************************************)
(* What the delivery of owed answers promises to the person who gave them, *)
(* for one chat session: an answer is accepted once, it is settled once,   *)
(* and the answers of a session are settled in the order they were given.  *)
(* The promise says nothing of turns, posts or restarts: AnswerRelay       *)
(* implements it through all of them (header of server/lib/answer-relay.ts,*)
(* "One session's answers go in the order given").                         *)
(***************************************************************************)
EXTENDS Naturals, Sequences

CONSTANT Answer   \* the answers a person may give

VARIABLES
  accepted,   \* the answers the person gave, oldest first
  sent        \* the answers whose row says sent

vars == <<accepted, sent>>

Init == accepted = <<>> /\ sent = {}

\* The person answers a question nobody waits on any more.
Accept(a) ==
  /\ \A i \in 1 .. Len(accepted) : accepted[i] # a
  /\ accepted' = Append(accepted, a)
  /\ UNCHANGED sent

\* The oldest answer that is still owed is settled.
Settle ==
  /\ \E i \in 1 .. Len(accepted) :
       /\ accepted[i] \notin sent
       /\ \A j \in 1 .. i - 1 : accepted[j] \in sent
       /\ sent' = sent \cup {accepted[i]}
  /\ UNCHANGED accepted

Next == Settle \/ \E a \in Answer : Accept(a)

Spec == Init /\ [][Next]_vars
=============================================================================
