-------------------------------- MODULE GeLazy --------------------------------
(***************************************************************************)
(* Lazy stall updates (sceGe_lazy_31129B95, src/kd/usersystemlib/lazy.c):  *)
(* user code that stands in for sceGeListUpdateStallAddr and puts most     *)
(* updates off by leaving them in g_lazy, where _sceGeListLazyFlush        *)
(* (src/kd/ge/ge.c) finds them when a thread enqueues a list or waits.     *)
(*                                                                         *)
(* A thread can be switched out between any two accesses of g_lazy; the    *)
(* kernel's flush is atomic.  ll / sc is that of one core, as in LwMutex.  *)
(* A stall address is the number of commands written when it was passed.   *)
(***************************************************************************)
EXTENDS Integers

CONSTANTS
  Thread,     \* threads of the game; each feeds the lists that are its own
  List,       \* display lists in the queue
  Feeds,      \* the thread that feeds a list
  None,       \* the id -1
  NoThread,   \* no link is held
  Max,        \* the initial g_lazy.max, 100 in the code
  Commands    \* bounds the stall addresses

VARIABLES
  dlId,       \* g_lazy.dlId
  lazyStall,  \* g_lazy.stall
  count,      \* g_lazy.count
  max,        \* g_lazy.max
  stall,      \* dl->stall, where the GE stops
  wanted,     \* the last stall address a list's thread asked for
  link,       \* the thread whose ll is still linked
  pc,         \* where each thread stands in its call
  arg,        \* the list it is called for
  seen        \* what its last ll of the id returned

lazy == <<dlId, lazyStall, count, max>>
vars == <<lazy, stall, wanted, link, pc, arg, seen>>

Init ==
  /\ dlId = None
  /\ lazyStall = 0
  /\ count = 0
  /\ max = Max
  /\ stall = [d \in List |-> 0]
  /\ wanted = [d \in List |-> 0]
  /\ link = NoThread
  /\ pc = [t \in Thread |-> "idle"]
  /\ arg = [t \in Thread |-> CHOOSE d \in List : TRUE]
  /\ seen = [t \in Thread |-> None]

-----------------------------------------------------------------------------
\* sceGeListUpdateStallAddr: every list of the model is in the queue, so only the
\* id -1 is refused.
UpdateStallAddr(d, s) == stall' = IF d = None THEN stall ELSE [stall EXCEPT ![d] = s]

Goto(t, label) ==
  /\ pc' = [pc EXCEPT ![t] = label]
  /\ link' = IF link = t THEN t ELSE NoThread

\* The call begins: is it for the list of the updates put off?
Update(t, d) ==
  /\ pc[t] = "idle"
  /\ Feeds[d] = t
  /\ wanted[d] < Commands
  /\ wanted' = [wanted EXCEPT ![d] = @ + 1]
  /\ arg' = [arg EXCEPT ![t] = d]
  /\ Goto(t, IF d = dlId THEN "same" ELSE "other")
  /\ UNCHANGED <<lazy, stall, seen>>

PutOff(t) ==
  /\ pc[t] = "same"
  /\ lazyStall' = wanted[arg[t]]
  /\ Goto(t, "count")
  /\ UNCHANGED <<dlId, count, max, stall, wanted, arg, seen>>

Count(t) ==
  /\ pc[t] = "count"
  /\ count' = count + 1
  /\ Goto(t, IF count + 1 < max THEN "idle" ELSE "other")
  /\ UNCHANGED <<dlId, lazyStall, max, stall, wanted, arg, seen>>

\* The last address of a list, NULL, is not put off.
Final(t) ==
  /\ pc[t] = "count"
  /\ wanted[arg[t]] = Commands
  /\ Goto(t, "other")
  /\ UNCHANGED <<lazy, stall, wanted, arg, seen>>

\* The updates of a list were put off: take g_lazy.
Other(t) ==
  /\ pc[t] = "other"
  /\ Goto(t, IF dlId = None THEN "direct" ELSE "takeLl")
  /\ UNCHANGED <<lazy, stall, wanted, arg, seen>>

TakeLl(t) ==
  /\ pc[t] = "takeLl"
  /\ seen' = [seen EXCEPT ![t] = dlId]
  /\ pc' = [pc EXCEPT ![t] = "takeCompare"]
  /\ link' = t
  /\ UNCHANGED <<lazy, stall, wanted, arg>>

TakeCompare(t) ==
  /\ pc[t] = "takeCompare"
  /\ Goto(t, IF seen[t] = dlId THEN "takeSc" ELSE "direct")
  /\ UNCHANGED <<lazy, stall, wanted, arg, seen>>

\* If the sc fails, the ll comes again, whatever the id is by now.
TakeSc(t) ==
  /\ pc[t] = "takeSc"
  /\ dlId' = IF link = t THEN None ELSE dlId
  /\ pc' = [pc EXCEPT ![t] = IF link = t THEN "flush" ELSE "takeLl"]
  /\ link' = NoThread
  /\ UNCHANGED <<lazyStall, count, max, stall, wanted, arg, seen>>

\* The id passed is read again, after the sc has replaced it.
Flush(t) ==
  /\ pc[t] = "flush"
  /\ UpdateStallAddr(dlId, lazyStall)
  /\ Goto(t, "direct")
  /\ UNCHANGED <<lazy, wanted, arg, seen>>

Direct(t) ==
  /\ pc[t] = "direct"
  /\ UpdateStallAddr(arg[t], wanted[arg[t]])
  /\ Goto(t, "giveLl")
  /\ UNCHANGED <<lazy, wanted, arg, seen>>

GiveLl(t) ==
  /\ pc[t] = "giveLl"
  /\ pc' = [pc EXCEPT ![t] = IF dlId # None THEN "idle" ELSE "giveSc"]
  /\ link' = t
  /\ UNCHANGED <<lazy, stall, wanted, arg, seen>>

GiveSc(t) ==
  /\ pc[t] = "giveSc"
  /\ dlId' = IF link = t THEN arg[t] ELSE dlId
  /\ pc' = [pc EXCEPT ![t] = IF link = t THEN "setLazy" ELSE "giveLl"]
  /\ link' = NoThread
  /\ UNCHANGED <<lazyStall, count, max, stall, wanted, arg, seen>>

SetLazy(t) ==
  /\ pc[t] = "setLazy"
  /\ lazyStall' = wanted[arg[t]]
  /\ count' = 0
  /\ Goto(t, "idle")
  /\ UNCHANGED <<dlId, max, stall, wanted, arg, seen>>

-----------------------------------------------------------------------------
\* _sceGeListLazyFlush, of a thread that enqueues a list or begins to wait.
LazyFlush(t) ==
  /\ pc[t] = "idle"
  /\ dlId # None
  /\ max' = 0
  /\ UpdateStallAddr(dlId, lazyStall)
  /\ dlId' = None
  /\ link' = NoThread
  /\ UNCHANGED <<lazyStall, count, wanted, pc, arg, seen>>

Next ==
  \E t \in Thread :
    \/ \E d \in List : Update(t, d)
    \/ PutOff(t) \/ Count(t) \/ Final(t)
    \/ Other(t) \/ TakeLl(t) \/ TakeCompare(t) \/ TakeSc(t) \/ Flush(t)
    \/ Direct(t)
    \/ GiveLl(t) \/ GiveSc(t) \/ SetLazy(t)
    \/ LazyFlush(t)

Spec == Init /\ [][Next]_vars

-----------------------------------------------------------------------------
\* "Update the stall address of the last display list and reset g_lazy.dlId"
\* (src/kd/usersystemlib/lazy.c:39): once a call has returned, the GE has the
\* list's stall address, or g_lazy holds it for the next flush.
NothingLost ==
  \A d \in List :
    pc[Feeds[d]] = "idle" =>
       (stall[d] = wanted[d]) \/ (dlId = d /\ lazyStall = wanted[d])
=============================================================================
