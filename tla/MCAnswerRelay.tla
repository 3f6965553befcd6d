--------------------------- MODULE MCAnswerRelay ---------------------------
(* The small instances of AnswerRelay for TLC: one or two answers, and two  *)
(* turns at once.                                                           *)
EXTENDS AnswerRelay
=============================================================================
