---------------------------- MODULE MCCommandWake ----------------------------
(* Values for checking CommandWake: two commands of one chat. *)
EXTENDS CommandWake

CONSTANTS a, b
=============================================================================
