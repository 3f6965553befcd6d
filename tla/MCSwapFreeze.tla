---------------------------- MODULE MCSwapFreeze ----------------------------
(* Values for checking SwapFreeze: one command, whose pids may be used again. *)
EXTENDS SwapFreeze

CONSTANT t1
=============================================================================
