---------------------------- MODULE LwMutexTheorems ----------------------------
(***************************************************************************)
(* Safety of the lightweight mutex, and that it implements LwLock, for any *)
(* number of threads, any counts and any width of the counter, when pspSc  *)
(* stores the value it is given (ScInput).                                 *)
(***************************************************************************)
EXTENDS LwMutexRefinement, TLAPS

\* Who holds the mutex, and what its count stands for at each place.
HolderInv ==
  /\ \A t \in Thread : depth[t] > 0 => thid = t /\ pc[t] = "idle"
  /\ \A t \in Thread : pc[t] \in {"setCount"} \cup Unlocking => thid = t
  /\ \A t \in Thread : pc[t] \in {"ll", "sc", "kernelLock", "waiting"} => thid # t
  /\ \A t \in Thread : thid = t /\ pc[t] = "idle" => lockCount = depth[t] /\ depth[t] > 0
  /\ \A t \in Thread : pc[t] \in Locking => arg[t] > 0
  /\ \A t \in Thread : pc[t] \in Unlocking => prevCount[t] = arg[t]
  /\ \A t \in Thread : pc[t] = "kernelUnlock" => lockCount = arg[t]

\* What a thread saw at its ll still holds while it is linked.
LinkInv ==
  \A t \in Thread : link = t =>
    /\ pc[t] = "sc" => thid = NULL
    /\ pc[t] = "unlockSc" => queue = <<>>

\* The kernel's queue.
QueueInv ==
  /\ queue # <<>> => thid # NULL
  /\ \A i \in 1..Len(queue) : pc[queue[i]] = "waiting"
  /\ \A i, j \in 1..Len(queue) : queue[i] = queue[j] => i = j

IInv == TypeOK /\ HolderInv /\ LinkInv /\ QueueInv

LEMMA IInvInit == Init => IInv
  BY ThreadAssumption, CountAssumption
     DEF Init, IInv, TypeOK, HolderInv, LinkInv, QueueInv, Locking, Unlocking

\* A step that leaves the queue alone, and moves no thread out of "waiting",
\* keeps the queue in order.
LEMMA QueueKept ==
  ASSUME QueueInv, TypeOK, queue' = queue, thid' # NULL \/ queue = <<>>,
         \A t \in Thread : pc[t] = "waiting" => pc'[t] = "waiting"
  PROVE  QueueInv'
<1>1. \A i \in 1..Len(queue) : queue[i] \in Thread
  BY DEF TypeOK
<1>2. \A i \in 1..Len(queue) : pc'[queue[i]] = "waiting"
  BY <1>1 DEF QueueInv
<1> QED
  BY <1>2 DEF QueueInv

\* The locals keep their types when calls return.
LEMMA ReturnType ==
  ASSUME TypeOK, NEW S \in SUBSET Thread, Return(S)
  PROVE  /\ pc' \in [Thread -> {"idle"} \cup Locking \cup Unlocking]
         /\ arg' \in [Thread -> 0..MaxCount]
         /\ blockers' \in SUBSET Thread
         /\ prevCount' \in [Thread -> 0..MaxCount]
  BY CountAssumption DEF TypeOK, Return

\* So they do when a thread goes on inside its call.
LEMMA GotoType ==
  ASSUME TypeOK, NEW t \in Thread, NEW label \in Locking \cup Unlocking, Goto(t, label)
  PROVE  /\ pc' \in [Thread -> {"idle"} \cup Locking \cup Unlocking]
         /\ arg' \in [Thread -> 0..MaxCount]
         /\ blockers' \in SUBSET Thread
         /\ prevCount' \in [Thread -> 0..MaxCount]
  BY DEF TypeOK, Goto, locals

LEMMA IInvNext ==
  ASSUME ScInput, IInv, [Next]_vars
  PROVE  IInv'
<1> USE ThreadAssumption, CountAssumption
<1>1. ASSUME NEW t \in Thread, NEW c \in Counts, LockAgain(t, c) PROVE IInv'
  <2>1. c \in 1..MaxCount
    OBVIOUS
  <2>2. TypeOK'
    BY <1>1, <2>1 DEF IInv, TypeOK, HolderInv, LockAgain, Overflows, Runs, locals
  <2>3. HolderInv'
    BY <1>1, <2>1 DEF IInv, TypeOK, HolderInv, LockAgain, Runs, locals, Locking, Unlocking
  <2>4. LinkInv'
    BY <1>1 DEF IInv, TypeOK, HolderInv, LinkInv, LockAgain, Runs, locals
  <2>5. QueueInv'
    BY <1>1, QueueKept DEF IInv, TypeOK, QueueInv, LockAgain
  <2> QED
    BY <2>2, <2>3, <2>4, <2>5 DEF IInv
<1>2. ASSUME NEW t \in Thread, NEW c \in Counts, NEW b \in BOOLEAN, LockCheck(t, c, b)
      PROVE  IInv'
  <2>1. c \in 1..MaxCount
    OBVIOUS
  <2>2. TypeOK'
    <3>1. blockers' \in SUBSET Thread
      <4>1. blockers' = blockers \cup {t} \/ blockers' = blockers
        BY <1>2 DEF LockCheck
      <4> QED
        BY <4>1 DEF IInv, TypeOK
    <3>2. pc' \in [Thread -> {"idle"} \cup Locking \cup Unlocking]
      <4>1. PICK label \in Locking : pc' = [pc EXCEPT ![t] = label]
        BY <1>2 DEF LockCheck, Locking
      <4> QED
        BY <4>1 DEF IInv, TypeOK
    <3>3. arg' \in [Thread -> 0..MaxCount] /\ link' \in Thread \cup {NULL}
      BY <1>2, <2>1 DEF IInv, TypeOK, LockCheck, Runs
    <3> QED
      BY <1>2, <3>1, <3>2, <3>3 DEF IInv, TypeOK, LockCheck, mutex
  <2>3. HolderInv'
    BY <1>2, <2>1 DEF IInv, TypeOK, HolderInv, LockCheck, Runs, mutex, Locking, Unlocking
  <2>4. LinkInv'
    BY <1>2 DEF IInv, TypeOK, HolderInv, LinkInv, LockCheck, Runs, mutex
  <2>5. QueueInv'
    <3>1. queue' = queue /\ thid' = thid
      BY <1>2 DEF LockCheck, mutex
    <3>2. \A u \in Thread : pc[u] = "waiting" => pc'[u] = "waiting"
      BY <1>2 DEF IInv, TypeOK, LockCheck
    <3> QED
      BY <3>1, <3>2, QueueKept DEF IInv, QueueInv
  <2> QED
    BY <2>2, <2>3, <2>4, <2>5 DEF IInv
<1>3. ASSUME NEW t \in Thread, LockLl(t) PROVE IInv'
  <2>1. CASE thid # NULL /\ Return({t}) /\ Runs(t)
    <3>1. pc[t] = "ll" /\ UNCHANGED <<mutex, depth>>
      BY <1>3 DEF LockLl
    <3>2. TypeOK'
      BY <2>1, <3>1, ReturnType DEF IInv, TypeOK, Runs, mutex
    <3>3. HolderInv'
      BY <2>1, <3>1 DEF IInv, TypeOK, HolderInv, Return, mutex, Locking, Unlocking
    <3>4. LinkInv'
      BY <2>1, <3>1 DEF IInv, TypeOK, LinkInv, Return, Runs, mutex
    <3>5. QueueInv'
      BY <2>1, <3>1, QueueKept DEF IInv, TypeOK, QueueInv, Return, mutex
    <3> QED
      BY <3>2, <3>3, <3>4, <3>5 DEF IInv
  <2>2. CASE \E label \in {"kernelLock", "sc"} :
               Goto(t, label) /\ (link' # NULL => link' = t)
               /\ (thid # NULL <=> label = "kernelLock")
    <3>1. PICK label \in {"kernelLock", "sc"} :
            Goto(t, label) /\ (link' # NULL => link' = t)
            /\ (thid # NULL <=> label = "kernelLock")
      BY <2>2
    <3>2. pc[t] = "ll" /\ UNCHANGED <<mutex, depth>>
      BY <1>3 DEF LockLl
    <3>3. TypeOK'
      BY <3>1, <3>2, GotoType DEF IInv, TypeOK, mutex, Locking
    <3>4. HolderInv'
      BY <3>1, <3>2 DEF IInv, TypeOK, HolderInv, Goto, mutex, locals, Locking, Unlocking
    <3>5. LinkInv'
      BY <3>1, <3>2 DEF IInv, TypeOK, LinkInv, Goto, mutex
    <3>6. QueueInv'
      BY <3>1, <3>2, QueueKept DEF IInv, TypeOK, QueueInv, Goto, mutex
    <3> QED
      BY <3>3, <3>4, <3>5, <3>6 DEF IInv
  <2> QED
    BY <1>3, <2>1, <2>2 DEF LockLl, Locked, Runs
<1>4. ASSUME NEW t \in Thread, LockSc(t) PROVE IInv'
  <2>1. Stores(t) => thid' = t
    BY <1>4 DEF LockSc, ScWrites
  <2>2. TypeOK'
    BY <1>4, <2>1 DEF IInv, TypeOK, LockSc, Goto, locals, Locking
  <2>3. HolderInv'
    <3>1. CASE Stores(t)
      <4>1. thid = NULL
        BY <1>4, <3>1 DEF IInv, LinkInv, LockSc, Stores
      <4>2. thid' = t /\ pc' = [pc EXCEPT ![t] = "setCount"]
        BY <1>4, <2>1, <3>1 DEF LockSc, Goto
      <4>3. pc'[t] = "setCount" /\ \A u \in Thread \ {t} : pc'[u] = pc[u]
        BY <4>2 DEF IInv, TypeOK
      <4>4. pc[t] = "sc" /\ UNCHANGED <<lockCount, depth, locals>>
        BY <1>4, <3>1 DEF LockSc, Goto
      <4> QED
        BY <4>1, <4>2, <4>3, <4>4 DEF IInv, HolderInv, Locking, Unlocking, locals
    <3>2. CASE ~Stores(t)
      <4>1. thid' = thid /\ pc' = [pc EXCEPT ![t] = "ll"]
        BY <1>4, <3>2 DEF LockSc, Goto
      <4>2. pc'[t] = "ll" /\ \A u \in Thread \ {t} : pc'[u] = pc[u]
        BY <4>1 DEF IInv, TypeOK
      <4>3. pc[t] = "sc" /\ UNCHANGED <<lockCount, depth, locals>>
        BY <1>4, <3>2 DEF LockSc, Goto
      <4> QED
        BY <4>1, <4>2, <4>3 DEF IInv, HolderInv, Locking, Unlocking, locals
    <3> QED
      BY <3>1, <3>2
  <2>4. LinkInv'
    BY <1>4 DEF IInv, TypeOK, LinkInv, LockSc
  <2>5. QueueInv'
    <3>1. queue' = queue /\ (thid' # NULL \/ queue = <<>>)
      BY <1>4, <2>1 DEF IInv, QueueInv, LockSc
    <3>2. \A u \in Thread : pc[u] = "waiting" => pc'[u] = "waiting"
      BY <1>4 DEF IInv, TypeOK, LockSc, Goto
    <3> QED
      BY <3>1, <3>2, QueueKept DEF IInv
  <2> QED
    BY <2>2, <2>3, <2>4, <2>5 DEF IInv
<1>5. ASSUME NEW t \in Thread, LockSetCount(t) PROVE IInv'
  <2>2. TypeOK'
    BY <1>5, ReturnType DEF IInv, TypeOK, LockSetCount, Runs
  <2>3. HolderInv'
    BY <1>5 DEF IInv, TypeOK, HolderInv, LockSetCount, Return, Runs, Locking, Unlocking
  <2>4. LinkInv'
    BY <1>5 DEF IInv, TypeOK, LinkInv, LockSetCount, Return, Runs
  <2>5. QueueInv'
    BY <1>5, QueueKept DEF IInv, TypeOK, QueueInv, LockSetCount, Return
  <2> QED
    BY <2>2, <2>3, <2>4, <2>5 DEF IInv
<1>6. ASSUME NEW t \in Thread, KernelLock(t) PROVE IInv'
  <2> pc[t] = "kernelLock" /\ link' = NULL
    BY <1>6 DEF KernelLock
  <2>1. LinkInv'
    BY ThreadAssumption DEF IInv, TypeOK, LinkInv
  <2>2. CASE Return({t}) /\ UNCHANGED <<mutex, depth>>
    <3>1. TypeOK'
      BY <2>2, ReturnType DEF IInv, TypeOK, mutex
    <3>2. HolderInv'
      BY <2>2 DEF IInv, TypeOK, HolderInv, Return, mutex, Locking, Unlocking
    <3>3. QueueInv'
      BY <2>2, QueueKept DEF IInv, TypeOK, QueueInv, Return, mutex
    <3> QED
      BY <2>1, <3>1, <3>2, <3>3 DEF IInv
  <2>3. CASE /\ thid = NULL
             /\ thid' = t
             /\ lockCount' = arg[t]
             /\ depth' = [depth EXCEPT ![t] = arg[t]]
             /\ Return({t})
             /\ UNCHANGED <<flags, queue>>
    <3>1. TypeOK'
      BY <2>3, ReturnType DEF IInv, TypeOK
    <3>2. HolderInv'
      BY <2>3 DEF IInv, TypeOK, HolderInv, Return, Locking, Unlocking
    <3>3. QueueInv'
      <4>1. queue = <<>>
        BY <2>3 DEF IInv, QueueInv
      <4> QED
        BY <2>3, <4>1, QueueKept DEF IInv, TypeOK, QueueInv, Return
    <3> QED
      BY <2>1, <3>1, <3>2, <3>3 DEF IInv
  <2>4. CASE /\ thid # NULL
             /\ queue' = Append(queue, t)
             /\ Goto(t, "waiting")
             /\ UNCHANGED <<flags, thid, lockCount, depth>>
    <3>1. /\ Len(queue') = Len(queue) + 1
          /\ queue'[Len(queue) + 1] = t
          /\ \A i \in 1..Len(queue) : queue'[i] = queue[i] /\ queue[i] \in Thread
      BY <2>4 DEF IInv, TypeOK
    <3>2. TypeOK'
      <4>1. queue' \in Seq(Thread)
        BY <2>4 DEF IInv, TypeOK
      <4> QED
        BY <2>4, <4>1, GotoType DEF IInv, TypeOK, Locking
    <3>3. HolderInv'
      BY <2>4 DEF IInv, TypeOK, HolderInv, Goto, locals, Locking, Unlocking
    <3>4. QueueInv'
      <4>1. pc' = [pc EXCEPT ![t] = "waiting"] /\ pc'[t] = "waiting"
        BY <2>4 DEF Goto, IInv, TypeOK
      <4>2. \A i \in 1..Len(queue) : queue[i] # t
        BY <3>1 DEF IInv, QueueInv
      <4>3. \A i \in 1..Len(queue) : pc'[queue[i]] = "waiting"
        BY <3>1, <4>1 DEF IInv, TypeOK, QueueInv
      <4>4. Len(queue) \in Nat
        BY DEF IInv, TypeOK
      <4>5. \A i \in 1..Len(queue') : i \in 1..Len(queue) \/ i = Len(queue) + 1
        BY <3>1, <4>4
      <4>6. \A i \in 1..Len(queue') : pc'[queue'[i]] = "waiting"
        BY <3>1, <4>1, <4>3, <4>5
      <4>7. \A i, j \in 1..Len(queue') : queue'[i] = queue'[j] => i = j
        BY <3>1, <4>2, <4>5 DEF IInv, QueueInv
      <4> QED
        BY <2>4, <4>6, <4>7 DEF QueueInv
    <3> QED
      BY <2>1, <3>2, <3>3, <3>4 DEF IInv
  <2> QED
    BY <1>6, <2>2, <2>3, <2>4 DEF KernelLock
<1>7. ASSUME NEW t \in Thread, NEW c \in Counts, UnlockSome(t, c) PROVE IInv'
  <2>1. c \in 1..MaxCount
    OBVIOUS
  <2>2. TypeOK'
    BY <1>7, <2>1 DEF IInv, TypeOK, HolderInv, UnlockSome, Runs, locals
  <2>3. HolderInv'
    BY <1>7, <2>1 DEF IInv, TypeOK, HolderInv, UnlockSome, Runs, locals, Locking, Unlocking
  <2>4. LinkInv'
    BY <1>7 DEF IInv, TypeOK, LinkInv, UnlockSome, Runs, locals
  <2>5. QueueInv'
    BY <1>7, QueueKept DEF IInv, TypeOK, QueueInv, UnlockSome
  <2> QED
    BY <2>2, <2>3, <2>4, <2>5 DEF IInv
<1>8. ASSUME NEW t \in Thread, NEW c \in Counts, UnlockLast(t, c) PROVE IInv'
  <2>1. c \in 1..MaxCount
    OBVIOUS
  <2>2. /\ pc[t] = "idle" /\ thid = t /\ lockCount = c
        /\ pc' = [pc EXCEPT ![t] = "unlockLl"]
        /\ prevCount' = [prevCount EXCEPT ![t] = lockCount]
        /\ arg' = [arg EXCEPT ![t] = c]
        /\ depth' = [depth EXCEPT ![t] = 0]
        /\ lockCount' = 0
        /\ UNCHANGED <<flags, thid, queue, blockers>>
    BY <1>8, <2>1 DEF UnlockLast, IInv, TypeOK
  <2>3. /\ pc'[t] = "unlockLl" /\ arg'[t] = c /\ prevCount'[t] = c /\ depth'[t] = 0
        /\ \A u \in Thread \ {t} : /\ pc'[u] = pc[u]
                                   /\ arg'[u] = arg[u]
                                   /\ prevCount'[u] = prevCount[u]
                                   /\ depth'[u] = depth[u]
    BY <2>2 DEF IInv, TypeOK
  <2>4. TypeOK'
    <3>1. pc' \in [Thread -> {"idle"} \cup Locking \cup Unlocking]
      BY <2>2 DEF IInv, TypeOK, Unlocking
    <3>2. link' \in Thread \cup {NULL}
      BY <1>8 DEF UnlockLast, Runs
    <3> QED
      BY <2>1, <2>2, <3>1, <3>2 DEF IInv, TypeOK
  <2>5. HolderInv'
    BY <2>1, <2>2, <2>3 DEF IInv, HolderInv, Locking, Unlocking
  <2>6. LinkInv'
    BY <1>8, <2>3 DEF IInv, LinkInv, UnlockLast, Runs
  <2>7. QueueInv'
    <3>1. \A u \in Thread : pc[u] = "waiting" => pc'[u] = "waiting"
      BY <2>2, <2>3
    <3> QED
      BY <2>2, <3>1, QueueKept DEF IInv, QueueInv
  <2> QED
    BY <2>4, <2>5, <2>6, <2>7 DEF IInv
<1>9. ASSUME NEW t \in Thread, UnlockLl(t) PROVE IInv'
  <2>0. pc[t] = "unlockLl" /\ UNCHANGED <<flags, thid, queue, depth>>
    BY <1>9 DEF UnlockLl
  <2>1. CASE lockCount' = prevCount[t] /\ Goto(t, "kernelUnlock") /\ Runs(t)
    <3>1. TypeOK'
      BY <2>0, <2>1, GotoType DEF IInv, TypeOK, Unlocking, Runs
    <3>2. HolderInv'
      BY <2>0, <2>1 DEF IInv, TypeOK, HolderInv, Goto, locals, Locking, Unlocking
    <3>3. LinkInv'
      BY <2>0, <2>1 DEF IInv, TypeOK, LinkInv, Goto, Runs
    <3>4. \A u \in Thread : pc[u] = "waiting" => pc'[u] = "waiting"
      BY <2>0, <2>1 DEF IInv, TypeOK, Goto
    <3>5. QueueInv'
      BY <2>0, <3>4, QueueKept DEF IInv, QueueInv
    <3> QED
      BY <3>1, <3>2, <3>3, <3>5 DEF IInv
  <2>2. CASE queue = <<>> /\ Goto(t, "unlockSc") /\ link' = t /\ UNCHANGED lockCount
    <3>1. TypeOK'
      BY <2>0, <2>2, GotoType DEF IInv, TypeOK, Unlocking
    <3>2. HolderInv'
      BY <2>0, <2>2 DEF IInv, TypeOK, HolderInv, Goto, locals, Locking, Unlocking
    <3>3. LinkInv'
      BY <2>0, <2>2 DEF IInv, TypeOK, LinkInv, Goto
    <3>4. QueueInv'
      BY <2>0, <2>2 DEF QueueInv
    <3> QED
      BY <3>1, <3>2, <3>3, <3>4 DEF IInv
  <2> QED
    BY <1>9, <2>1, <2>2 DEF UnlockLl, HasWaiters, Restored
<1>10. ASSUME NEW t \in Thread, UnlockSc(t) PROVE IInv'
  <2>0. ScWrites(NULL) = {NULL}
    BY DEF ScWrites
  <2> pc[t] = "unlockSc" /\ link' = NULL /\ UNCHANGED <<flags, queue, depth>>
    BY <1>10 DEF UnlockSc
  <2>1. LinkInv'
    BY ThreadAssumption DEF IInv, TypeOK, LinkInv
  <2>2. CASE /\ link = t
             /\ thid' = NULL
             /\ Return({t})
             /\ UNCHANGED lockCount
    <3>1. TypeOK'
      BY <2>2, ReturnType DEF IInv, TypeOK
    <3>2. HolderInv'
      BY <2>2 DEF IInv, TypeOK, HolderInv, Return, Locking, Unlocking
    <3>3. QueueInv'
      <4>1. queue = <<>>
        BY <2>2 DEF IInv, LinkInv
      <4> QED
        BY <4>1 DEF QueueInv
    <3> QED
      BY <2>1, <3>1, <3>2, <3>3 DEF IInv
  <2>3. CASE /\ lockCount' = prevCount[t]
             /\ Goto(t, "kernelUnlock")
             /\ UNCHANGED thid
    <3>1. TypeOK'
      BY <2>3, GotoType DEF IInv, TypeOK, Unlocking
    <3>2. HolderInv'
      BY <2>3 DEF IInv, TypeOK, HolderInv, Goto, locals, Locking, Unlocking
    <3>3. \A u \in Thread : pc[u] = "waiting" => pc'[u] = "waiting"
      BY <2>3 DEF IInv, TypeOK, Goto
    <3>4. QueueInv'
      BY <2>3, <3>3, QueueKept DEF IInv, QueueInv
    <3> QED
      BY <2>1, <3>1, <3>2, <3>4 DEF IInv
  <2> QED
    BY <1>10, <2>0, <2>2, <2>3 DEF UnlockSc, StoresZero, Restored
<1>11. ASSUME NEW t \in Thread, KernelUnlock(t) PROVE IInv'
  <2>1. lockCount = arg[t] /\ thid = t /\ link' = NULL
    BY <1>11 DEF IInv, HolderInv, KernelUnlock, Unlocking
  <2>2. LinkInv'
    BY <2>1 DEF LinkInv
  <2>3. CASE queue = <<>>
    <3>1. thid' = NULL /\ lockCount' = 0 /\ Return({t})
          /\ UNCHANGED <<flags, queue, depth>>
      BY <1>11, <2>1, <2>3 DEF KernelUnlock
    <3>2. TypeOK'
      BY <2>1, <3>1, ReturnType DEF IInv, TypeOK
    <3>3. HolderInv'
      BY <1>11, <2>1, <3>1 DEF IInv, TypeOK, HolderInv, KernelUnlock, Return, Locking,
                               Unlocking
    <3>4. QueueInv'
      BY <2>3, <3>1 DEF QueueInv
    <3> QED
      BY <2>2, <3>2, <3>3, <3>4 DEF IInv
  <2>4. CASE queue # <<>>
    <3> DEFINE w == Head(queue)
    <3>1. /\ thid' = w
          /\ lockCount' = arg[w]
          /\ depth' = [depth EXCEPT ![w] = arg[w]]
          /\ Return({t, w})
          /\ queue' = Tail(queue)
          /\ flags' = flags
      BY <1>11, <2>1, <2>4 DEF KernelUnlock
    <3>2. /\ w \in Thread
          /\ w = queue[1]
          /\ 1 \in 1..Len(queue)
          /\ Len(Tail(queue)) = Len(queue) - 1
          /\ \A i \in 1..Len(queue) - 1 : Tail(queue)[i] = queue[i + 1]
          /\ Tail(queue) \in Seq(Thread)
      BY <2>4 DEF IInv, TypeOK
    <3>3. pc[w] = "waiting" /\ pc[t] = "kernelUnlock" /\ arg[w] > 0 /\ w # t
      BY <1>11, <3>2 DEF IInv, QueueInv, HolderInv, KernelUnlock, Locking
    <3> HIDE DEF w
    <3>4. TypeOK'
      BY <2>1, <3>1, <3>2, ReturnType DEF IInv, TypeOK
    <3>5. HolderInv'
      BY <2>1, <3>1, <3>2, <3>3 DEF IInv, TypeOK, HolderInv, Return, Locking, Unlocking
    <3>6. QueueInv'
      <4>1. \A i \in 1..Len(queue') : i + 1 \in 1..Len(queue) /\ queue'[i] = queue[i + 1]
        BY <3>1, <3>2 DEF IInv, TypeOK
      <4>2. \A i \in 1..Len(queue') : pc[queue'[i]] = "waiting" /\ queue'[i] # w
        <5> TAKE i \in 1..Len(queue')
        <5>1. i + 1 \in 1..Len(queue) /\ i + 1 # 1 /\ queue'[i] = queue[i + 1]
          BY <4>1
        <5> QED
          BY <3>2, <5>1 DEF IInv, QueueInv
      <4>3. \A i \in 1..Len(queue') : pc'[queue'[i]] = "waiting"
        BY <3>1, <3>2, <3>3, <4>1, <4>2 DEF IInv, TypeOK, Return
      <4>4. \A i, j \in 1..Len(queue') : queue'[i] = queue'[j] => i = j
        BY <4>1 DEF IInv, QueueInv
      <4> QED
        BY <3>1, <3>2, <4>3, <4>4 DEF QueueInv
    <3> QED
      BY <2>2, <3>4, <3>5, <3>6 DEF IInv
  <2> QED
    BY <2>3, <2>4
<1>12. CASE Interrupt
  BY <1>12 DEF IInv, TypeOK, HolderInv, LinkInv, QueueInv, Interrupt, mutex, locals
<1>13. CASE UNCHANGED vars
  BY <1>13 DEF IInv, TypeOK, HolderInv, LinkInv, QueueInv, vars
<1> QED
  BY <1>1, <1>2, <1>3, <1>4, <1>5, <1>6, <1>7, <1>8, <1>9, <1>10, <1>11, <1>12, <1>13
     DEF Next, GoesOn, Call

LEMMA Inductive == ASSUME ScInput PROVE Spec => []IInv
<1>1. IInv /\ [Next]_vars => IInv'
  BY IInvNext
<1> QED
  BY <1>1, IInvInit, PTL DEF Spec

\* Every variable keeps its type: lockCount never leaves the range of an s32.
THEOREM TypeCorrect == ASSUME ScInput PROVE Spec => []TypeOK
<1>1. IInv => TypeOK
  BY DEF IInv
<1> QED
  BY <1>1, Inductive, PTL

\* Two threads never both hold the mutex (sceKernelTryLockLwMutex_600 and the
\* kernel's hand-over).
THEOREM Exclusion == ASSUME ScInput PROVE Spec => []MutualExclusion
<1>1. IInv => MutualExclusion
  BY DEF IInv, HolderInv, MutualExclusion
<1> QED
  BY <1>1, Inductive, PTL

\* mutex->lockCount is what its owner holds (sceKernelUnlockLwMutex restores
\* it before it calls the kernel).
THEOREM CountCorrect == ASSUME ScInput PROVE Spec => []CountIsDepth
<1>1. IInv => CountIsDepth
  BY DEF IInv, HolderInv, CountIsDepth
<1> QED
  BY <1>1, Inductive, PTL

\* A free mutex has no thread asleep on it (the ll of unk3 and the sc of thid
\* in sceKernelUnlockLwMutex).
THEOREM NoLostWakeup == ASSUME ScInput PROVE Spec => []NoStrandedWaiter
<1>1. IInv => NoStrandedWaiter
  BY DEF IInv, QueueInv, NoStrandedWaiter
<1> QED
  BY <1>1, Inductive, PTL

-----------------------------------------------------------------------------
(* LwMutex implements LwLock.                                              *)

\* A call that got past its checks, or sleeps, has a count it may have.
ArgInv ==
  \A t \in Thread :
    /\ pc[t] # "idle" => arg[t] \in Counts
    /\ pc[t] \in {"ll", "sc", "setCount", "waiting"} => LegalCount(arg[t])

\* flags never change, so what was a legal count stays one.
LEMMA FlagsKept == ASSUME [Next]_vars PROVE flags' = flags
  BY DEF Next, GoesOn, Call, LockAgain, LockCheck, LockLl, LockSc, LockSetCount, KernelLock,
         UnlockSome, UnlockLast, UnlockLl, UnlockSc, KernelUnlock, Interrupt, vars, mutex

LEMMA ArgKept ==
  ASSUME IInv, ArgInv, [Next]_vars
  PROVE  ArgInv'
<1>1. \A c : LegalCount(c) <=> LegalCount(c)'
  BY FlagsKept DEF LegalCount
<1>2. ASSUME NEW t \in Thread, Return({t}) PROVE ArgInv'
  BY <1>1, <1>2 DEF IInv, TypeOK, ArgInv, Return
<1>3. ASSUME NEW t \in Thread, NEW label, Goto(t, label), pc[t] # "idle",
             label \in {"sc", "ll", "setCount"} => pc[t] \in {"ll", "sc"},
             label = "waiting" => LegalCount(arg[t])
      PROVE  ArgInv'
  BY <1>1, <1>3 DEF IInv, TypeOK, ArgInv, Goto, locals
<1>4. ASSUME UNCHANGED <<pc, arg>> PROVE ArgInv'
  BY <1>1, <1>4 DEF ArgInv
<1>5. ASSUME NEW t \in Thread, GoesOn(t) PROVE ArgInv'
  <2>1. CASE LockLl(t)
    BY <1>2, <1>3, <2>1 DEF LockLl, Locked
  <2>2. CASE LockSc(t)
    BY <1>3, <2>2 DEF LockSc
  <2>3. CASE LockSetCount(t)
    BY <1>2, <2>3 DEF LockSetCount
  <2>4. CASE KernelLock(t)
    BY <1>2, <1>3, <2>4 DEF KernelLock
  <2>5. CASE UnlockLl(t)
    BY <1>3, <2>5 DEF UnlockLl
  <2>6. CASE UnlockSc(t)
    BY <1>2, <1>3, <2>6 DEF UnlockSc
  <2>7. CASE KernelUnlock(t)
    <3>1. CASE queue = <<>> \/ lockCount # arg[t]
      BY <1>2, <2>7, <3>1 DEF KernelUnlock
    <3>2. CASE queue # <<>> /\ lockCount = arg[t]
      BY <1>1, <2>7, <3>2 DEF KernelUnlock, IInv, TypeOK, ArgInv, Return
    <3> QED
      BY <3>1, <3>2
  <2> QED
    BY <1>5, <2>1, <2>2, <2>3, <2>4, <2>5, <2>6, <2>7 DEF GoesOn
<1>6. ASSUME NEW t \in Thread, NEW c \in Counts, Call(t, c) PROVE ArgInv'
  <2>1. CASE LockAgain(t, c) \/ UnlockSome(t, c)
    BY <1>4, <2>1 DEF LockAgain, UnlockSome, locals
  <2>2. ASSUME NEW blocking \in BOOLEAN, LockCheck(t, c, blocking) PROVE ArgInv'
    BY <1>1, <2>2 DEF IInv, TypeOK, ArgInv, LockCheck
  <2>3. CASE UnlockLast(t, c)
    BY <1>1, <2>3 DEF IInv, TypeOK, ArgInv, UnlockLast
  <2> QED
    BY <1>6, <2>1, <2>2, <2>3 DEF Call
<1>7. CASE Interrupt \/ UNCHANGED vars
  BY <1>4, <1>7 DEF Interrupt, vars, locals
<1> QED
  BY <1>5, <1>6, <1>7 DEF Next

\* A thread that stands nowhere in an unlock and has thid is the owner.
LEMMA OwnerIs ==
  ASSUME TypeOK, NEW t \in Thread, thid = t, pc[t] \notin Unlocking
  PROVE  /\ Owner = t
         /\ Owner # NULL
         /\ Held = IF pc[t] = "setCount" THEN arg[t] ELSE lockCount
  BY ThreadAssumption DEF Owner, Held

\* A lock that is free or being given back has no owner.
LEMMA OwnerIsNull ==
  ASSUME thid = NULL \/ pc[thid] \in Unlocking
  PROVE  Owner = NULL /\ Held = 0
  BY DEF Owner, Held

\* Where thid, its thread's place and its count are kept, so is the lock.
LEMMA LockKept ==
  ASSUME TypeOK, thid' = thid, lockCount' = lockCount,
         thid # NULL => pc'[thid] = pc[thid] /\ arg'[thid] = arg[thid]
  PROVE  Owner' = Owner /\ Held' = Held
  BY DEF Owner, Held

\* The first lock is taken at the sc, or in the kernel.
LEMMA TakeServed ==
  ASSUME IInv, IInv', ArgInv, NEW t \in Thread, thid = NULL, thid' = t,
         \/ pc'[t] = "setCount" /\ arg'[t] = arg[t]
         \/ pc'[t] = "idle" /\ lockCount' = arg[t],
         pc[t] # "idle", LegalCount(arg[t]), UNCHANGED <<flags, queue>>
  PROVE  \E c \in Counts : Lock!Take(t, c)
<1>1. Owner = NULL /\ queue = <<>>
  BY OwnerIsNull DEF IInv, QueueInv
<1>2. Owner' = t /\ Held' = arg[t]
  BY ThreadAssumption DEF Owner, Held, Unlocking
<1>3. Lock!Take(t, arg[t])
  BY <1>1, <1>2 DEF Lock!Take, Lock!LegalCount, LegalCount
<1> QED
  BY <1>3 DEF ArgInv

LEMMA LockServed ==
  ASSUME ScInput, IInv, IInv', ArgInv, [Next]_vars
  PROVE  [Lock!Next]_(Lock!vars)
<1> USE ThreadAssumption, CountAssumption
<1>1. ASSUME UNCHANGED <<flags, queue>>, Owner' = Owner, Held' = Held
      PROVE  [Lock!Next]_(Lock!vars)
  BY <1>1 DEF Lock!vars
<1>2. ASSUME UNCHANGED mutex, NEW t \in Thread, thid # t,
             \A u \in Thread \ {t} : pc'[u] = pc[u] /\ arg'[u] = arg[u]
      PROVE  [Lock!Next]_(Lock!vars)
  BY <1>1, <1>2, LockKept DEF IInv, TypeOK, mutex
<1>3. ASSUME NEW t \in Thread, NEW c \in Counts, LockAgain(t, c)
      PROVE  Lock!TakeAgain(c)
  <2>1. pc[t] = "idle" /\ thid = t /\ "recursive" \in flags /\ lockCount' = lockCount + c
        /\ UNCHANGED <<flags, thid, queue, pc>>
    BY <1>3 DEF LockAgain
  <2>2. Owner # NULL /\ Owner' = Owner /\ Held = lockCount /\ Held' = lockCount'
    BY <2>1 DEF Owner, Held, Unlocking
  <2>3. lockCount' <= MaxCount
    BY DEF IInv, TypeOK
  <2> QED
    BY <2>1, <2>2, <2>3 DEF Lock!TakeAgain
<1>4. ASSUME NEW t \in Thread, NEW c \in Counts, UnlockSome(t, c) PROVE Lock!Give(c)
  <2>1. pc[t] = "idle" /\ thid = t /\ lockCount' = lockCount - c /\ lockCount' > 0
        /\ UNCHANGED <<flags, thid, queue, pc>>
    BY <1>4 DEF UnlockSome
  <2>2. Owner # NULL /\ Owner' = Owner /\ Held = lockCount /\ Held' = lockCount'
    BY <2>1 DEF Owner, Held, Unlocking
  <2>3. lockCount' \in Nat
    BY DEF IInv, TypeOK
  <2> QED
    BY <2>1, <2>2, <2>3 DEF Lock!Give
<1>5. ASSUME NEW t \in Thread, NEW c \in Counts, UnlockLast(t, c) PROVE Lock!Give(c)
  <2>1. pc[t] = "idle" /\ thid = t /\ lockCount - c = 0 /\ pc'[t] = "unlockLl"
        /\ UNCHANGED <<flags, thid, queue>>
    BY <1>5 DEF UnlockLast, IInv, TypeOK
  <2>2. Owner # NULL /\ Held = lockCount
    BY <2>1 DEF Owner, Held, Unlocking
  <2>3. Owner' = NULL /\ Held' = 0
    BY <2>1 DEF Owner, Held, Unlocking
  <2> QED
    BY <2>1, <2>2, <2>3 DEF Lock!Give
<1>6. ASSUME NEW t \in Thread, NEW c, NEW b \in BOOLEAN, LockCheck(t, c, b)
      PROVE  [Lock!Next]_(Lock!vars)
  BY <1>2, <1>6 DEF LockCheck, IInv, TypeOK
<1>7. ASSUME NEW t \in Thread, LockLl(t) PROVE [Lock!Next]_(Lock!vars)
  <2>1. UNCHANGED mutex /\ thid # t
    BY <1>7 DEF LockLl, IInv, HolderInv
  <2>2. \A u \in Thread \ {t} : pc'[u] = pc[u] /\ arg'[u] = arg[u]
    BY <1>7 DEF LockLl, Locked, Goto, Return, locals, IInv, TypeOK
  <2> QED
    BY <1>2, <2>1, <2>2
<1>8. ASSUME NEW t \in Thread, LockSc(t) PROVE [Lock!Next]_(Lock!vars)
  <2>1. pc[t] = "sc" /\ UNCHANGED <<flags, lockCount, queue, arg>>
    BY <1>8 DEF LockSc, Goto, locals
  <2>2. CASE Stores(t)
    <3>1. thid = NULL /\ thid' = t /\ pc'[t] = "setCount"
      BY <1>8, <2>2 DEF LockSc, ScWrites, Stores, Goto, IInv, TypeOK, LinkInv
    <3>2. \E c \in Counts : Lock!Take(t, c)
      BY <2>1, <3>1, TakeServed DEF ArgInv
    <3> QED
      BY <3>2 DEF Lock!Next
  <2>3. CASE ~Stores(t)
    <3>1. UNCHANGED mutex /\ thid # t
      BY <1>8, <2>1, <2>3 DEF LockSc, mutex, IInv, HolderInv
    <3>2. \A u \in Thread \ {t} : pc'[u] = pc[u] /\ arg'[u] = arg[u]
      BY <1>8, <2>1, <2>3 DEF LockSc, Goto, IInv, TypeOK
    <3> QED
      BY <1>2, <3>1, <3>2
  <2> QED
    BY <2>2, <2>3
<1>9. ASSUME NEW t \in Thread, LockSetCount(t) PROVE [Lock!Next]_(Lock!vars)
  <2>1. pc[t] = "setCount" /\ thid = t /\ lockCount' = arg[t] /\ pc'[t] = "idle"
        /\ UNCHANGED <<flags, thid, queue>>
    BY <1>9 DEF LockSetCount, Return, IInv, HolderInv
  <2>2. Owner' = Owner /\ Held' = Held
    BY <2>1 DEF Owner, Held, Unlocking
  <2> QED
    BY <1>1, <2>1, <2>2
<1>10. ASSUME NEW t \in Thread, KernelLock(t) PROVE [Lock!Next]_(Lock!vars)
  <2>1. pc[t] = "kernelLock" /\ thid # t
    BY <1>10 DEF KernelLock, IInv, HolderInv
  <2>2. CASE Return({t}) /\ UNCHANGED mutex
    BY <1>2, <2>1, <2>2 DEF Return, IInv, TypeOK
  <2>3. CASE /\ LegalCount(arg[t]) /\ thid = NULL /\ thid' = t /\ lockCount' = arg[t]
             /\ Return({t}) /\ UNCHANGED <<flags, queue>>
    <3>1. pc'[t] = "idle"
      BY <2>3 DEF Return
    <3>2. \E c \in Counts : Lock!Take(t, c)
      BY <2>1, <2>3, <3>1, TakeServed
    <3> QED
      BY <3>2 DEF Lock!Next
  <2>4. CASE queue' = Append(queue, t) /\ Goto(t, "waiting") /\ UNCHANGED <<flags, thid, lockCount>>
    <3>1. Owner' = Owner /\ Held' = Held
      BY <2>1, <2>4, LockKept DEF Goto, locals, IInv, TypeOK
    <3>2. t # Owner
      BY <2>1 DEF Owner
    <3>3. \A i \in DOMAIN queue : queue[i] # t
      <4>1. \A i \in 1..Len(queue) : queue[i] # t
        BY <2>1 DEF IInv, QueueInv
      <4> QED
        BY <4>1 DEF IInv, TypeOK
    <3>4. Lock!Sleep(t) /\ arg[t] \in Counts
      BY <2>1, <2>4, <3>1, <3>2, <3>3 DEF Lock!Sleep, ArgInv
    <3> QED
      BY <3>4 DEF Lock!Next
  <2> QED
    BY <1>10, <2>2, <2>3, <2>4 DEF KernelLock
<1>11. ASSUME NEW t \in Thread, UnlockLl(t) \/ UnlockSc(t) PROVE [Lock!Next]_(Lock!vars)
  <2>1. pc[t] \in Unlocking /\ thid = t /\ UNCHANGED <<flags, queue>>
    BY <1>11 DEF UnlockLl, UnlockSc, IInv, HolderInv, Unlocking
  <2>2. Owner = NULL /\ Held = 0
    BY <2>1, OwnerIsNull
  <2>3. \/ thid' = NULL
        \/ thid' = t /\ pc'[t] \in Unlocking
    BY <1>11, <2>1 DEF UnlockLl, UnlockSc, Goto, ScWrites, IInv, TypeOK, Unlocking
  <2>4. Owner' = NULL /\ Held' = 0
    BY <2>3 DEF Owner, Held
  <2> QED
    BY <1>1, <2>1, <2>2, <2>4
<1>12. ASSUME NEW t \in Thread, KernelUnlock(t) PROVE [Lock!Next]_(Lock!vars)
  <2>1. pc[t] = "kernelUnlock" /\ thid = t /\ lockCount = arg[t]
    BY <1>12 DEF KernelUnlock, IInv, HolderInv, Unlocking
  <2>2. Owner = NULL /\ Held = 0
    BY <2>1, OwnerIsNull DEF Unlocking
  <2>3. CASE queue = <<>>
    <3>1. thid' = NULL /\ UNCHANGED <<flags, queue>>
      BY <1>12, <2>1, <2>3 DEF KernelUnlock
    <3>2. Owner' = NULL /\ Held' = 0
      BY <3>1 DEF Owner, Held
    <3> QED
      BY <1>1, <2>2, <3>1, <3>2
  <2>4. CASE queue # <<>>
    <3> DEFINE w == Head(queue)
    <3>1. thid' = w /\ lockCount' = arg[w] /\ Return({t, w}) /\ queue' = Tail(queue)
          /\ flags' = flags
      BY <1>12, <2>1, <2>4 DEF KernelUnlock
    <3>2. w \in Thread /\ pc[w] = "waiting"
      <4>1. queue \in Seq(Thread)
        BY DEF IInv, TypeOK
      <4>2. w = queue[1] /\ 1 \in 1..Len(queue) /\ w \in Thread
        BY <2>4, <4>1
      <4> QED
        BY <4>2 DEF IInv, QueueInv
    <3> HIDE DEF w
    <3>3. Owner' = w /\ Held' = arg[w]
      <4>1. pc'[w] = "idle"
        BY <3>1, <3>2 DEF Return
      <4> QED
        BY <3>1, <3>2, <4>1 DEF Owner, Held, Unlocking
    <3>4. arg[w] \in Counts /\ LegalCount(arg[w])
      BY <3>2 DEF ArgInv
    <3>5. Lock!HandOver(arg[w])
      BY <2>2, <2>4, <3>1, <3>3, <3>4 DEF Lock!HandOver, Lock!LegalCount, LegalCount, w
    <3> QED
      BY <3>4, <3>5 DEF Lock!Next
  <2> QED
    BY <2>3, <2>4
<1>13. CASE Interrupt \/ UNCHANGED vars
  <2>1. UNCHANGED <<flags, thid, lockCount, queue, pc, arg>>
    BY <1>13 DEF Interrupt, vars, mutex, locals
  <2> QED
    BY <1>1, <2>1, LockKept DEF IInv
<1>14. ASSUME NEW t \in Thread, NEW c \in Counts, Call(t, c) PROVE [Lock!Next]_(Lock!vars)
  BY <1>3, <1>4, <1>5, <1>6, <1>14 DEF Call, Lock!Next
<1>15. ASSUME NEW t \in Thread, GoesOn(t) PROVE [Lock!Next]_(Lock!vars)
  BY <1>7, <1>8, <1>9, <1>10, <1>11, <1>12, <1>15 DEF GoesOn
<1> QED
  BY <1>13, <1>14, <1>15 DEF Next

\* The ll / sc path, the kernel's queue and the hand-over are together one lock
\* (lwmutex.c): nobody takes it from its owner or ahead of a sleeper, and what
\* is given back is what was taken.
THEOREM LockImplemented == ASSUME ScInput PROVE Spec => ImplementsLock
<1>1. Init => ArgInv /\ Lock!Init
  BY ThreadAssumption DEF Init, ArgInv, Lock!Init, Owner, Held
<1>2. IInv /\ ArgInv /\ [Next]_vars => ArgInv'
  BY ArgKept
<1>3. IInv /\ IInv' /\ ArgInv /\ [Next]_vars => [Lock!Next]_(Lock!vars)
  BY LockServed
<1> QED
  BY <1>1, <1>2, <1>3, Inductive, PTL DEF Spec, ImplementsLock, Lock!Spec
=============================================================================
