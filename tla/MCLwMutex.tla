------------------------------- MODULE MCLwMutex -------------------------------
(* Threads on one mutex.                                                   *)
EXTENDS LwMutexRefinement

CONSTANTS t1, t2, t3
=============================================================================
