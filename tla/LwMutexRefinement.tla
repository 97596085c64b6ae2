--------------------------- MODULE LwMutexRefinement ---------------------------
(***************************************************************************)
(* LwMutex implements LwLock.  The lock changes hands at the sc or in the  *)
(* kernel, and is given back where sceKernelUnlockLwMutex lowers lockCount *)
(* to 0, before thid is cleared.                                           *)
(***************************************************************************)
EXTENDS LwMutex

Owner == IF thid # NULL /\ pc[thid] \notin Unlocking THEN thid ELSE NULL

\* Between the sc and the store of lockCount the count is still the argument.
Held ==
  IF Owner = NULL THEN 0
  ELSE IF pc[Owner] = "setCount" THEN arg[Owner] ELSE lockCount

Lock == INSTANCE LwLock WITH owner <- Owner, held <- Held, sleepers <- queue

\* The user path and the kernel path together are one lock: nobody takes it
\* from the owner or ahead of a thread that sleeps, and what is given back is
\* what was taken.
ImplementsLock == Lock!Spec
=============================================================================
