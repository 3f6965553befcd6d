--------------------------- MODULE MCOutboundGate ---------------------------
(* Two sends of the same message and a question: in one chat, in one session of *)
(* a card, and in two sessions of a card.                                       *)
EXTENDS OutboundGate, TLC

CONSTANTS a1, a2, q1, s1, s2, m1

Together == [c \in Call |-> s1]
Apart == (a1 :> s1) @@ (a2 :> s2) @@ (q1 :> s1)

SameMessage == [c \in Send |-> m1]
ThreeWorlds == {[card |-> FALSE, home |-> Together], [card |-> TRUE, home |-> Together],
                [card |-> TRUE, home |-> Apart]}
=============================================================================
