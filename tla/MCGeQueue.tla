------------------------------ MODULE MCGeQueue ------------------------------
(* Threads for TLC.  Callbacks are in Enqueuer in no instance: they         *)
(* dequeue and continue.                                                   *)
EXTENDS GeRefinement
CONSTANTS t1, t2
=============================================================================
