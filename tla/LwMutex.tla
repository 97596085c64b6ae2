-------------------------------- MODULE LwMutex --------------------------------
(***************************************************************************)
(* The lightweight mutex of the user library                               *)
(* (src/kd/usersystemlib/lwmutex.c): a word that user code takes and gives *)
(* back with ll / sc, and a kernel path for the contended case.            *)
(*                                                                         *)
(* A thread can lose the CPU between any two instructions, so each access  *)
(* that another thread can disturb is an action.  ll / sc is that of one   *)
(* MIPS core: sc succeeds iff no exception was taken since the ll, whatever *)
(* the two addresses are -- sceKernelUnlockLwMutex links one word and      *)
(* stores another.                                                         *)
(*                                                                         *)
(* The kernel's half (threadman, which has only stubs for it) is external: *)
(* it runs with interrupts suspended, queues a thread that finds the mutex *)
(* held, counts the queue in unk3, and hands the mutex to its first thread. *)
(***************************************************************************)
EXTENDS Integers, Sequences

CONSTANTS
  Thread,     \* threads that use the mutex; a thread's name is its id
  NULL,       \* thid 0: nobody holds the mutex
  Counts,     \* the counts callers pass
  MaxCount,   \* the largest s32
  ScInput     \* whether pspSc hands its value to the sc, see ScWrites

ASSUME ThreadAssumption == NULL \notin Thread
ASSUME CountAssumption == MaxCount \in Nat \ {0} /\ Counts \subseteq 1..MaxCount
ASSUME ScAssumption == ScInput \in BOOLEAN

VARIABLES
  flags,      \* mutex->flags, set at creation
  thid,       \* mutex->thid
  lockCount,  \* mutex->lockCount
  queue,      \* threads the kernel has put to sleep on the mutex; unk3 is its length
  link,       \* the thread whose ll is still linked
  pc,         \* where each thread stands
  arg,        \* its argument count
  blockers,   \* threads inside a sceKernelLockLwMutex rather than a TryLock
  prevCount,  \* its local prevCount
  depth       \* what it has been told it holds: counts locked less counts unlocked

mutex == <<flags, thid, lockCount, queue>>
locals == <<arg, blockers, prevCount>>
vars == <<flags, thid, lockCount, queue, link, pc, arg, blockers, prevCount, depth>>

Locking == {"ll", "sc", "setCount", "kernelLock", "waiting"}
Unlocking == {"unlockLl", "unlockSc", "kernelUnlock"}

TypeOK ==
  /\ flags \in SUBSET {"recursive"}
  /\ thid \in Thread \cup {NULL}
  /\ lockCount \in 0..MaxCount
  /\ queue \in Seq(Thread)
  /\ link \in Thread \cup {NULL}
  /\ pc \in [Thread -> {"idle"} \cup Locking \cup Unlocking]
  /\ arg \in [Thread -> 0..MaxCount]
  /\ blockers \in SUBSET Thread
  /\ prevCount \in [Thread -> 0..MaxCount]
  /\ depth \in [Thread -> 0..MaxCount]

Init ==
  /\ flags \in SUBSET {"recursive"}
  /\ thid = NULL
  /\ lockCount = 0
  /\ queue = <<>>
  /\ link = NULL
  /\ pc = [t \in Thread |-> "idle"]
  /\ arg = [t \in Thread |-> 0]
  /\ blockers = {}
  /\ prevCount = [t \in Thread |-> 0]
  /\ depth = [t \in Thread |-> 0]

-----------------------------------------------------------------------------
\* Thread t runs: a thread that was linked and is not t has been switched out.
Runs(t) == link' = IF link = t THEN t ELSE NULL

Goto(t, label) == pc' = [pc EXCEPT ![t] = label] /\ UNCHANGED locals

\* The calls of the threads in S return; their locals are gone.
Return(S) ==
  /\ pc' = [t \in Thread |-> IF t \in S THEN "idle" ELSE pc[t]]
  /\ arg' = [t \in Thread |-> IF t \in S THEN 0 ELSE arg[t]]
  /\ blockers' = blockers \ S
  /\ prevCount' = [t \in Thread |-> IF t \in S THEN 0 ELSE prevCount[t]]

\* count != 1 needs a recursive mutex.
LegalCount(c) == c = 1 \/ "recursive" \in flags

OverflowsNever(c) == FALSE
Overflows(c) == lockCount + c > MaxCount

\* TryLock found the mutex held: the blocking calls go on in the kernel.
Locked(t, blocking) == IF blocking THEN Goto(t, "kernelLock") ELSE Return({t})

-----------------------------------------------------------------------------
(* sceKernelTryLockLwMutex_600, and the blocking calls around it.          *)

\* The owner locks a recursive mutex again.  Every other case of thid ==
\* g_thread->id is an error that changes nothing.
LockAgain(t, c) ==
  /\ pc[t] = "idle"
  /\ thid = t
  /\ "recursive" \in flags
  /\ ~Overflows(c)
  /\ lockCount' = lockCount + c
  /\ depth' = [depth EXCEPT ![t] = @ + c]
  /\ Runs(t)
  /\ UNCHANGED <<flags, thid, queue, pc, locals>>

\* The plain reads of thid before the ll.  A TryLock that finds the mutex held
\* returns without having changed anything.
LockCheck(t, c, blocking) ==
  /\ pc[t] = "idle"
  /\ thid # t
  /\ \/ thid # NULL /\ blocking /\ pc' = [pc EXCEPT ![t] = "kernelLock"]
     \/ thid = NULL /\ LegalCount(c) /\ pc' = [pc EXCEPT ![t] = "ll"]
  /\ arg' = [arg EXCEPT ![t] = c]
  /\ blockers' = IF blocking THEN blockers \cup {t} ELSE blockers
  /\ Runs(t)
  /\ UNCHANGED <<mutex, prevCount, depth>>

LockLl(t) ==
  /\ pc[t] = "ll"
  /\ \/ thid # NULL /\ Locked(t, t \in blockers) /\ Runs(t)
     \/ thid = NULL /\ Goto(t, "sc") /\ link' = t
  /\ UNCHANGED <<mutex, depth>>

StoresAlways(t) == TRUE
Stores(t) == link = t

\* The asm of pspSc does not list the value among its inputs: the register the
\* sc stores from may still hold what the ll before it read, the zero.
ScWrites(value) == IF ScInput THEN {value} ELSE {value, NULL}

LockSc(t) ==
  /\ pc[t] = "sc"
  /\ IF Stores(t) THEN thid' \in ScWrites(t) /\ Goto(t, "setCount")
                  ELSE thid' = thid /\ Goto(t, "ll")
  /\ link' = NULL
  /\ UNCHANGED <<flags, lockCount, queue, depth>>

LockSetCount(t) ==
  /\ pc[t] = "setCount"
  /\ lockCount' = arg[t]
  /\ depth' = [depth EXCEPT ![t] = arg[t]]
  /\ Return({t})
  /\ Runs(t)
  /\ UNCHANGED <<flags, thid, queue>>

\* _sceKernelLockLwMutex (external).
KernelLock(t) ==
  /\ pc[t] = "kernelLock"
  /\ \/ /\ ~LegalCount(arg[t])
        /\ Return({t})
        /\ UNCHANGED <<mutex, depth>>
     \/ /\ LegalCount(arg[t]) /\ thid = NULL
        /\ thid' = t
        /\ lockCount' = arg[t]
        /\ depth' = [depth EXCEPT ![t] = arg[t]]
        /\ Return({t})
        /\ UNCHANGED <<flags, queue>>
     \/ /\ LegalCount(arg[t]) /\ thid # NULL
        /\ queue' = Append(queue, t)
        /\ Goto(t, "waiting")
        /\ UNCHANGED <<flags, thid, lockCount, depth>>
  /\ link' = NULL

-----------------------------------------------------------------------------
(* sceKernelUnlockLwMutex.                                                 *)

\* Part of a recursive lock is given back.
UnlockSome(t, c) ==
  /\ pc[t] = "idle"
  /\ thid = t
  /\ LegalCount(c)
  /\ lockCount - c > 0
  /\ lockCount' = lockCount - c
  /\ depth' = [depth EXCEPT ![t] = @ - c]
  /\ Runs(t)
  /\ UNCHANGED <<flags, thid, queue, pc, locals>>

\* The last of it is given back.  lockCount - count < 0 is an error.
UnlockLast(t, c) ==
  /\ pc[t] = "idle"
  /\ thid = t
  /\ LegalCount(c)
  /\ lockCount - c = 0
  /\ prevCount' = [prevCount EXCEPT ![t] = lockCount]
  /\ lockCount' = 0
  /\ arg' = [arg EXCEPT ![t] = c]
  /\ depth' = [depth EXCEPT ![t] = 0]
  /\ pc' = [pc EXCEPT ![t] = "unlockLl"]
  /\ Runs(t)
  /\ UNCHANGED <<flags, thid, queue, blockers>>

\* The kernel path starts from the count the caller found.
RestoredNever(t) == lockCount
Restored(t) == prevCount[t]

HasWaitersNever == FALSE
HasWaiters == queue # <<>>

UnlockLl(t) ==
  /\ pc[t] = "unlockLl"
  /\ \/ /\ HasWaiters
        /\ lockCount' = Restored(t)
        /\ Goto(t, "kernelUnlock")
        /\ Runs(t)
     \/ /\ ~HasWaiters
        /\ Goto(t, "unlockSc")
        /\ link' = t
        /\ UNCHANGED lockCount
  /\ UNCHANGED <<flags, thid, queue, depth>>

StoresZeroAlways(t) == TRUE
StoresZero(t) == link = t

UnlockSc(t) ==
  /\ pc[t] = "unlockSc"
  /\ \/ /\ StoresZero(t)
        /\ thid' \in ScWrites(NULL)
        /\ Return({t})
        /\ UNCHANGED lockCount
     \/ /\ ~StoresZero(t)
        /\ lockCount' = Restored(t)
        /\ Goto(t, "kernelUnlock")
        /\ UNCHANGED thid
  /\ link' = NULL
  /\ UNCHANGED <<flags, queue, depth>>

\* _sceKernelUnlockLwMutex (external): the mutex becomes free, or the first
\* waiter's with the count it asked for.
KernelUnlock(t) ==
  /\ pc[t] = "kernelUnlock"
  /\ \/ /\ lockCount # arg[t]
        /\ Return({t})
        /\ UNCHANGED <<mutex, depth>>
     \/ /\ lockCount = arg[t] /\ queue = <<>>
        /\ thid' = NULL
        /\ lockCount' = 0
        /\ Return({t})
        /\ UNCHANGED <<flags, queue, depth>>
     \/ /\ lockCount = arg[t] /\ queue # <<>>
        /\ LET w == Head(queue)
           IN  /\ thid' = w
               /\ lockCount' = arg[w]
               /\ depth' = [depth EXCEPT ![w] = arg[w]]
               /\ Return({t, w})
        /\ queue' = Tail(queue)
        /\ UNCHANGED flags
  /\ link' = NULL

-----------------------------------------------------------------------------
\* An interrupt is taken and returns to the same thread.
Interrupt ==
  /\ link # NULL
  /\ link' = NULL
  /\ UNCHANGED <<mutex, pc, locals, depth>>

Call(t, c) ==
  \/ LockAgain(t, c)
  \/ \E blocking \in BOOLEAN : LockCheck(t, c, blocking)
  \/ UnlockSome(t, c)
  \/ UnlockLast(t, c)

GoesOn(t) ==
  \/ LockLl(t)
  \/ LockSc(t)
  \/ LockSetCount(t)
  \/ KernelLock(t)
  \/ UnlockLl(t)
  \/ UnlockSc(t)
  \/ KernelUnlock(t)

Next ==
  \/ \E t \in Thread : GoesOn(t) \/ \E c \in Counts : Call(t, c)
  \/ Interrupt

Spec == Init /\ [][Next]_vars

(* A thread inside a call is scheduled, and not interrupted at its sc for  *)
(* ever; a thread that holds the mutex gives all of it back.               *)
GivesBack(t) == depth[t] \in Counts /\ UnlockLast(t, depth[t])

Fairness ==
  \A t \in Thread : /\ WF_vars(GoesOn(t))
                    /\ SF_vars(link = t /\ LockSc(t))
                    /\ SF_vars(GivesBack(t))

FairSpec == Spec /\ Fairness

-----------------------------------------------------------------------------
(* Properties.                                                             *)

\* Two threads never both hold the mutex, through the ll / sc path, the
\* kernel's queue and its hand-over alike.
MutualExclusion ==
  \A t, u \in Thread : depth[t] > 0 /\ depth[u] > 0 => t = u

\* lockCount is what its owner has locked and not unlocked, whenever the owner
\* is outside the library: a count set by another thread, or the zero written
\* before the unlock was certain, would end or prolong its critical section.
CountIsDepth ==
  \A t \in Thread :
    /\ depth[t] > 0 => thid = t
    /\ thid = t /\ pc[t] = "idle" => lockCount = depth[t] /\ depth[t] > 0

\* No wakeup is lost between the user path and the kernel path: a free mutex
\* has no thread asleep on it (only an unlock through the kernel wakes one).
NoStrandedWaiter == thid = NULL => queue = <<>>

\* Every blocking lock call returns, if whoever holds the mutex gives it back.
LockReturns ==
  \A t \in Thread : pc[t] \in Locking ~> pc[t] = "idle"
=============================================================================
