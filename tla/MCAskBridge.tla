---------------------------- MODULE MCAskBridge ----------------------------
(***************************************************************************)
(* Values for checking AskBridge: three questions, two of which ask the    *)
(* same thing, as a turn that was relaunched does, or no two of them.      *)
(***************************************************************************)
EXTENDS AskBridge

CONSTANTS q1, q2, q3, t1, t2, t3

ThreeTexts == [q \in {q1, q2, q3} |-> IF q = q2 THEN t2 ELSE t1]
DistinctTexts == [q \in {q1, q2, q3} |-> IF q = q1 THEN t1 ELSE IF q = q2 THEN t2 ELSE t3]
=============================================================================
