------------------------------ MODULE MCLanding ------------------------------
(* Values for checking Landing: two cards of one board, each with up to two *)
(* commits, and a queue that keeps one closed ticket.                       *)
EXTENDS Landing

CONSTANTS a, b
=============================================================================
