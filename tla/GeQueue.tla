-------------------------------- MODULE GeQueue --------------------------------
(***************************************************************************)
(* The display list queue of the graphics engine (src/kd/ge/ge.c): the     *)
(* lists programs enqueue, the GE that executes the first one, the         *)
(* interrupts it raises and the threads that wait for drawing to end.      *)
(*                                                                         *)
(* The queue operations and the interrupt handlers run with interrupts     *)
(* suspended, so each is one action, split only where a handler calls the  *)
(* program's callback, which may call the operations itself.  The loop of  *)
(* sceGeDrawSync runs with interrupts enabled: each read and each write is *)
(* a step.  Left out: arguments that are refused, the commands of a list   *)
(* but for what interrupts, stall addresses, contexts, breakpoints, the    *)
(* log, and programs for SDK 2.00 and below.                               *)
(***************************************************************************)
EXTENDS Integers, SequencesExt

CONSTANTS
  MAX_COUNT_DL,            \* the display lists there are
  SizeofSceGeDisplayList,  \* sizeof(SceGeDisplayList)
  Thread,                  \* the program's threads
  Enqueuer,                \* who enqueues lists: threads, "callback" or both
  NULL,                    \* the null pointer
  g_cmdList                \* the FINISH/END that sceGeBreak executes

DisplayLists == 0 .. MAX_COUNT_DL - 1    \* g_displayLists, by index
DlPointer == DisplayLists \cup {NULL}

ASSUME CountAssumption == MAX_COUNT_DL \in Nat \ {0}
ASSUME SizeAssumption == SizeofSceGeDisplayList \in Nat \ {0}
ASSUME NullAssumption == NULL \notin DisplayLists /\ g_cmdList \notin DlPointer
ASSUME ActorAssumption == "callback" \notin Thread /\ Enqueuer \subseteq Thread \cup {"callback"}

VARIABLES
  active,       \* the queue from active_first to active_last along next
  free,         \* the queue from free_first to free_last
  state,        \* dl->state
  signal,       \* dl->signal
  isBusy,       \* dl->isBusy
  resumesAtFin, \* dl->list, as far as a FINISH/END comes next there
  curRunning, isBreak, drawingEvFlag,
  listEvFlags,  \* the bits set in the event flags of the lists
  exec,         \* HW_GE_EXEC & 1
  ladr,         \* HW_GE_LISTADDR: in a list, in g_cmdList or nowhere
  atFin,        \* whether a FINISH/END comes next there
  intr,         \* the interrupt raised and not yet handled
  clock,        \* whether the bus clock is enabled
  handler,      \* the callback an interrupt handler is in, and for which list
  pc,           \* what each thread is doing
  refused       \* the lists taken from free for a call that was then refused

lists == <<state, signal, isBusy, resumesAtFin>>
flags == <<drawingEvFlag, listEvFlags>>
ge == <<exec, ladr, atFin, intr, clock>>
vars == <<active, free, lists, curRunning, isBreak, flags, ge, handler, pc, refused>>

Signals == {"suspend", "continue", "sync", "pause"}
Idle == [op |-> "idle", dl |-> NULL]
NoHandler == [at |-> "none", dl |-> NULL]

TypeOK ==
  /\ active \in Seq(DisplayLists) /\ free \in Seq(DisplayLists)
  /\ state \in [DisplayLists -> {"none", "queued", "running", "completed", "paused"}]
  /\ signal \in [DisplayLists -> {"none", "break", "pause", "sync"}]
  /\ isBusy \in [DisplayLists -> BOOLEAN]
  /\ resumesAtFin \in [DisplayLists -> BOOLEAN]
  /\ curRunning \in DlPointer /\ isBreak \in BOOLEAN
  /\ drawingEvFlag \in BOOLEAN /\ listEvFlags \subseteq DisplayLists
  /\ exec \in BOOLEAN /\ ladr \in DlPointer \cup {g_cmdList} /\ atFin \in BOOLEAN
  /\ intr \in Signals \cup {"none", "finish"} /\ clock \in BOOLEAN
  /\ handler \in [at : {"none", "finish", "signal", "resume"}, dl : DlPointer]
  /\ pc \in [Thread -> [op : {"idle", "drawSync", "listSync", "test", "clear", "unbusy"},
                        dl : DlPointer]]
  /\ refused \subseteq DisplayLists

\* The bit of list dl: (dl - g_displayLists) / sizeof(SceGeDisplayList), where
\* the difference of the pointers is already a number of lists.
ListEvFlag(dl) == dl \div SizeofSceGeDisplayList

Init ==
  /\ active = <<>>
  /\ free = [i \in 1 .. MAX_COUNT_DL |-> i - 1]
  /\ state = [dl \in DisplayLists |-> "none"]
  /\ signal = [dl \in DisplayLists |-> "none"]
  /\ isBusy = [dl \in DisplayLists |-> FALSE]
  /\ resumesAtFin = [dl \in DisplayLists |-> FALSE]
  /\ curRunning = NULL /\ isBreak = FALSE
  /\ drawingEvFlag = TRUE /\ listEvFlags = DisplayLists
  /\ exec = FALSE /\ ladr = NULL /\ atFin = FALSE /\ intr = "none" /\ clock = FALSE
  /\ handler = NoHandler
  /\ pc = [t \in Thread |-> Idle]
  /\ refused = {}

-----------------------------------------------------------------------------
(* What the operations share.                                              *)

\* Threads run while no interrupt handler does; a callback only inside one.
Calls(a) == IF a = "callback" THEN handler.at # "none"
            ELSE handler.at = "none" /\ pc[a] = Idle

\* Mutant: only the first of the queue is looked at.
UnlinkedFirst(q, dl) == IF q # <<>> /\ Head(q) = dl THEN Tail(q) ELSE q

\* Queue q without dl, wherever in it dl is.
Unlinked(q, dl) ==
  IF dl \in Range(q) THEN RemoveAt(q, CHOOSE i \in DOMAIN q : q[i] = dl) ELSE q

\* The GE executes nothing any more, and what it raised is dropped.
GeStops == exec' = FALSE /\ intr' = "none" /\ ladr' = NULL /\ atFin' = FALSE

\* The GE is started on dl, where the list is to go on.
Programs(dl) ==
  /\ exec' = TRUE /\ ladr' = dl /\ atFin' = resumesAtFin'[dl]
  /\ curRunning' = dl

\* Thread p is past its wait when the event flags in draw and bits are set.
Released(p, draw, bits) ==
  IF p.op = "drawSync" /\ draw THEN [op |-> "test", dl |-> 0]
  ELSE IF p.op = "listSync" /\ ListEvFlag(p.dl) \in bits THEN Idle
  ELSE p
Wakes(draw, bits) == pc' = [t \in Thread |-> Released(pc[t], draw, bits)]

-----------------------------------------------------------------------------
(* sceGeListEnQueue, sceGeListEnQueueHead.                                 *)

Fresh(dl) ==
  /\ signal' = [signal EXCEPT ![dl] = "none"]
  /\ resumesAtFin' = [resumesAtFin EXCEPT ![dl] = FALSE]

ClearListEvFlag(dl) == listEvFlags' = listEvFlags \ {ListEvFlag(dl)}

\* No list is active: the GE is started on the new one.
EnQueueFirst(dl) ==
  /\ active = <<>>
  /\ active' = <<dl>>
  /\ Fresh(dl)
  /\ state' = [state EXCEPT ![dl] = "running"]
  /\ isBusy' = [isBusy EXCEPT ![dl] = TRUE]
  /\ Programs(dl) /\ clock' = TRUE
  /\ drawingEvFlag' = FALSE /\ ClearListEvFlag(dl)
  /\ UNCHANGED intr

EnQueueLast(dl) ==
  /\ active # <<>>
  /\ active' = Append(active, dl)
  /\ Fresh(dl)
  /\ state' = [state EXCEPT ![dl] = "queued"]
  /\ isBusy' = [isBusy EXCEPT ![dl] = FALSE]
  /\ ClearListEvFlag(dl)
  /\ UNCHANGED <<curRunning, drawingEvFlag, ge>>

EnQueue(a) ==
  /\ a \in Enqueuer /\ Calls(a) /\ free # <<>>
  /\ free' = Tail(free)
  /\ EnQueueFirst(Head(free)) \/ EnQueueLast(Head(free))
  /\ UNCHANGED <<isBreak, handler, pc, refused>>

\* At the head, paused; the list that was paused there is queued.
EnQueuedHead(dl) ==
  IF active = <<>> THEN [state EXCEPT ![dl] = "paused"]
  ELSE [state EXCEPT ![dl] = "paused", ![Head(active)] = "queued"]

\* A head that is not paused refuses the call, but the new list has left free.
EnQueueHeadRefused(dl) ==
  /\ active # <<>> /\ state[Head(active)] # "paused"
  /\ refused' = refused \cup {dl}
  /\ UNCHANGED <<active, state, listEvFlags>>

\* Mutant: whatever the head is doing.
EnQueueHeadTakenAnyway(dl) ==
  /\ active' = <<dl>> \o active
  /\ state' = EnQueuedHead(dl)
  /\ ClearListEvFlag(dl)
  /\ UNCHANGED refused

EnQueueHeadTaken(dl) ==
  /\ active # <<>> => state[Head(active)] = "paused"
  /\ active' = <<dl>> \o active
  /\ state' = EnQueuedHead(dl)
  /\ ClearListEvFlag(dl)
  /\ UNCHANGED refused

EnQueueHead(a) ==
  /\ a \in Enqueuer /\ Calls(a) /\ free # <<>>
  /\ free' = Tail(free)
  /\ Fresh(Head(free))
  /\ isBusy' = [isBusy EXCEPT ![Head(free)] = FALSE]
  /\ EnQueueHeadRefused(Head(free)) \/ EnQueueHeadTaken(Head(free))
  /\ UNCHANGED <<curRunning, isBreak, drawingEvFlag, ge, handler, pc>>

-----------------------------------------------------------------------------
(* sceGeListDeQueue.                                                       *)

\* Mutant: a list that runs or has run is not refused.
MayDeQueueBusy(dl) == state[dl] # "none"

\* A list that has run is refused until a sceGeDrawSync after its completion.
MayDeQueue(dl) == state[dl] # "none" /\ ~isBusy[dl]

DeQueue(a, dl) ==
  /\ Calls(a) /\ MayDeQueue(dl)
  /\ active' = Unlinked(active, dl)
  /\ free' = Append(free, dl)
  /\ state' = [state EXCEPT ![dl] = "none"]
  /\ listEvFlags' = listEvFlags \cup {ListEvFlag(dl)}
  /\ Wakes(FALSE, {ListEvFlag(dl)})
  /\ refused' = refused \ {dl}
  /\ UNCHANGED <<signal, isBusy, resumesAtFin, curRunning, isBreak, drawingEvFlag, ge, handler>>

-----------------------------------------------------------------------------
(* sceGeListSync(dlId, 0), sceGeDrawSync(0): wait for an event flag.  Of   *)
(* the threads, those that enqueue lists do.                               *)

ListSync(t, dl) ==
  /\ t \in Enqueuer /\ Calls(t) /\ ListEvFlag(dl) \notin listEvFlags
  /\ pc' = [pc EXCEPT ![t] = [op |-> "listSync", dl |-> dl]]
  /\ UNCHANGED <<active, free, lists, curRunning, isBreak, flags, ge, handler, refused>>

DrawSync(t) ==
  /\ t \in Enqueuer /\ Calls(t)
  /\ pc' = [pc EXCEPT ![t] = IF drawingEvFlag THEN [op |-> "test", dl |-> 0]
                                             ELSE [op |-> "drawSync", dl |-> NULL]]
  /\ UNCHANGED <<active, free, lists, curRunning, isBreak, flags, ge, handler, refused>>

\* After the wait: a loop over all lists that resets the completed ones.
\* Mutant: the loop goes one list too far.
NextTestOneMore(dl) == IF dl < MAX_COUNT_DL THEN [op |-> "test", dl |-> dl + 1] ELSE Idle

NextTest(dl) == IF dl + 1 < MAX_COUNT_DL THEN [op |-> "test", dl |-> dl + 1] ELSE Idle

\* Mutant: whatever the state of the list.
DrawSyncTestAny(t) ==
  /\ pc[t].op = "test" /\ handler.at = "none"
  /\ pc' = [pc EXCEPT ![t].op = "clear"]
  /\ UNCHANGED <<active, free, lists, curRunning, isBreak, flags, ge, handler, refused>>

DrawSyncTest(t) ==
  /\ pc[t].op = "test" /\ handler.at = "none"
  /\ pc' = [pc EXCEPT ![t] = IF state[@.dl] = "completed" THEN [@ EXCEPT !.op = "clear"]
                                                         ELSE NextTest(@.dl)]
  /\ UNCHANGED <<active, free, lists, curRunning, isBreak, flags, ge, handler, refused>>

DrawSyncClear(t) ==
  /\ pc[t].op = "clear" /\ handler.at = "none"
  /\ state' = [state EXCEPT ![pc[t].dl] = "none"]
  /\ pc' = [pc EXCEPT ![t].op = "unbusy"]
  /\ UNCHANGED <<active, free, signal, isBusy, resumesAtFin, curRunning, isBreak, flags, ge, handler, refused>>

DrawSyncUnbusy(t) ==
  /\ pc[t].op = "unbusy" /\ handler.at = "none"
  /\ isBusy' = [isBusy EXCEPT ![pc[t].dl] = FALSE]
  /\ pc' = [pc EXCEPT ![t] = NextTest(@.dl)]
  /\ UNCHANGED <<active, free, state, signal, resumesAtFin, curRunning, isBreak, flags, ge, handler, refused>>

-----------------------------------------------------------------------------
(* sceGeBreak, sceGeContinue.                                              *)

\* sceGeBreak(1): the GE and the queue are reset.
BreakReset(t) ==
  /\ Calls(t) /\ active # <<>>
  /\ active' = <<>>
  /\ free' = [i \in 1 .. MAX_COUNT_DL |-> i - 1]
  /\ state' = [dl \in DisplayLists |-> "none"]
  /\ signal' = [dl \in DisplayLists |-> "none"]
  /\ isBusy' = [dl \in DisplayLists |-> FALSE]
  /\ curRunning' = NULL
  /\ GeStops /\ clock' = FALSE
  /\ refused' = {}
  /\ UNCHANGED <<resumesAtFin, isBreak, flags, handler, pc>>

\* Where the stopped list goes on.  An interrupt not yet handled is given up and
\* its commands are executed again, except a FINISH/END after SIGNAL_SYNC, which
\* is skipped; stopped inside a FINISH/END, the GE may be before or behind FINISH.
StopsAtFin(dl) ==
  IF intr = "finish" THEN {signal[dl] # "sync"}
  ELSE IF atFin /\ intr = "none" THEN BOOLEAN
  ELSE {FALSE}

\* sceGeBreak(0) of a running list: the GE goes on with a FINISH/END of the
\* driver's own, whose interrupt tells that it has stopped.
BreakRunning(t) ==
  /\ Calls(t) /\ active # <<>>
  /\ LET dl == Head(active) IN
       /\ state[dl] = "running"
       /\ \E b \in StopsAtFin(dl) :
            resumesAtFin' = IF curRunning = NULL THEN resumesAtFin ELSE [resumesAtFin EXCEPT ![dl] = b]
       /\ state' = [state EXCEPT ![dl] = "paused"]
       /\ signal' = [signal EXCEPT ![dl] = "break"]
  /\ exec' = TRUE /\ ladr' = g_cmdList /\ atFin' = TRUE /\ intr' = "none"
  /\ isBreak' = TRUE /\ curRunning' = NULL
  /\ UNCHANGED <<active, free, isBusy, flags, clock, handler, pc, refused>>

BreakQueued(t) ==
  /\ Calls(t) /\ active # <<>>
  /\ state[Head(active)] = "queued"
  /\ state' = [state EXCEPT ![Head(active)] = "paused"]
  /\ UNCHANGED <<active, free, signal, isBusy, resumesAtFin, curRunning, isBreak, flags, ge, handler, pc, refused>>

\* Mutant: drawing begins again without a word to those who wait for its end.
ContinueStoppedDrawn(a) ==
  /\ Calls(a) /\ active # <<>>
  /\ LET dl == Head(active) IN
       /\ state[dl] = "paused" /\ ~isBreak /\ signal[dl] # "pause"
       /\ state' = [state EXCEPT ![dl] = "running"]
       /\ signal' = [signal EXCEPT ![dl] = "none"]
       /\ isBusy' = [isBusy EXCEPT ![dl] = TRUE]
       /\ UNCHANGED resumesAtFin
       /\ Programs(dl)
  /\ intr' = "none" /\ clock' = TRUE
  /\ UNCHANGED <<active, free, isBreak, flags, handler, pc, refused>>

\* The GE has stopped: the head is started.  What it still executes, the
\* FINISH/END of a SIGNAL_PAUSE, is waited for and its interrupt dropped.
ContinueStopped(a) ==
  /\ Calls(a) /\ active # <<>>
  /\ LET dl == Head(active) IN
       /\ state[dl] = "paused" /\ ~isBreak /\ signal[dl] # "pause"
       /\ state' = [state EXCEPT ![dl] = "running"]
       /\ signal' = [signal EXCEPT ![dl] = "none"]
       /\ isBusy' = [isBusy EXCEPT ![dl] = TRUE]
       /\ UNCHANGED resumesAtFin
       /\ Programs(dl)
  /\ intr' = "none" /\ clock' = TRUE
  /\ drawingEvFlag' = FALSE
  /\ UNCHANGED <<active, free, isBreak, listEvFlags, handler, pc, refused>>

\* Mutant: the head is said to run already.
ContinueBreakingRuns(a) ==
  /\ Calls(a) /\ active # <<>>
  /\ state[Head(active)] = "paused" /\ isBreak
  /\ state' = [state EXCEPT ![Head(active)] = "running"]
  /\ UNCHANGED <<active, free, signal, isBusy, resumesAtFin, curRunning, isBreak, flags, ge, handler, pc, refused>>

\* The GE has not stopped yet: the interrupt of its FINISH/END starts the head.
ContinueBreaking(a) ==
  /\ Calls(a) /\ active # <<>>
  /\ state[Head(active)] = "paused" /\ isBreak
  /\ state' = [state EXCEPT ![Head(active)] = "queued"]
  /\ UNCHANGED <<active, free, signal, isBusy, resumesAtFin, curRunning, isBreak, flags, ge, handler, pc, refused>>

-----------------------------------------------------------------------------
(* The GE executes the commands at HW_GE_LISTADDR until a SIGNAL/END or a  *)
(* FINISH/END stops it and raises an interrupt.                            *)

GeSignal(sig) ==
  /\ exec /\ ladr \in DisplayLists /\ ~atFin
  /\ exec' = FALSE /\ intr' = sig
  /\ atFin' = (sig \in {"sync", "pause"})    \* these come before a FINISH/END
  /\ UNCHANGED <<active, free, lists, curRunning, isBreak, flags, ladr, clock, handler, pc, refused>>

GeFinish ==
  /\ exec /\ ladr # NULL
  /\ exec' = FALSE /\ intr' = "finish" /\ atFin' = FALSE
  /\ UNCHANGED <<active, free, lists, curRunning, isBreak, flags, ladr, clock, handler, pc, refused>>

-----------------------------------------------------------------------------
(* _sceGeListInterrupt.                                                    *)

Interrupted(kind) == handler.at = "none" /\ intr = kind
Acknowledge == intr' = "none"

\* SCE_GE_SIGNAL_HANDLER_SUSPEND: the callback, then the GE goes on.
SignalSuspend ==
  /\ Interrupted("suspend") /\ Acknowledge /\ active # <<>>
  /\ handler' = [at |-> "resume", dl |-> Head(active)]
  /\ UNCHANGED <<active, free, lists, curRunning, isBreak, flags, exec, ladr, atFin, clock, pc, refused>>

\* SCE_GE_SIGNAL_HANDLER_CONTINUE: the GE goes on during the callback.
SignalContinue ==
  /\ Interrupted("continue") /\ Acknowledge /\ active # <<>>
  /\ exec' = TRUE
  /\ handler' = [at |-> "signal", dl |-> Head(active)]
  /\ UNCHANGED <<active, free, lists, curRunning, isBreak, flags, ladr, atFin, clock, pc, refused>>

\* SCE_GE_SIGNAL_HANDLER_PAUSE: dl->signal is what the END command says.
SignalPause(sig) ==
  /\ Interrupted("pause") /\ Acknowledge /\ active # <<>>
  /\ exec' = TRUE
  /\ state' = [state EXCEPT ![Head(active)] = "paused"]
  /\ signal' = [signal EXCEPT ![Head(active)] = sig]
  /\ UNCHANGED <<active, free, isBusy, resumesAtFin, curRunning, isBreak, flags, ladr, atFin, clock, handler, pc, refused>>

SignalSync ==
  /\ Interrupted("sync") /\ Acknowledge /\ active # <<>>
  /\ exec' = TRUE
  /\ signal' = [signal EXCEPT ![Head(active)] = "sync"]
  /\ UNCHANGED <<active, free, state, isBusy, resumesAtFin, curRunning, isBreak, flags, ladr, atFin, clock, handler, pc, refused>>

\* A callback returns that its handler does nothing after but resume the GE.
SignalReturn ==
  /\ handler.at \in {"signal", "resume"}
  /\ exec' = (exec \/ handler.at = "resume")
  /\ handler' = NoHandler
  /\ UNCHANGED <<active, free, lists, curRunning, isBreak, flags, ladr, atFin, intr, clock, pc, refused>>

-----------------------------------------------------------------------------
(* _sceGeFinishInterrupt, its last part: start the head of the queue act.  *)
(* dl is the list that was stopped (curRunningDl), or NULL.                *)

SetsListEvFlag(dl) == IF dl = NULL THEN {} ELSE {ListEvFlag(dl)}

\* No list is left.
StartsNone(act, dl) ==
  /\ act = <<>>
  /\ exec' = FALSE /\ clock' = FALSE
  /\ drawingEvFlag' = TRUE
  /\ listEvFlags' = listEvFlags \cup SetsListEvFlag(dl)
  /\ Wakes(TRUE, SetsListEvFlag(dl))
  /\ curRunning' = NULL /\ handler' = NoHandler
  /\ UNCHANGED <<state, signal, isBusy, ladr, atFin>>

\* The head was pausing when another list was enqueued before it: it stops
\* now, and the handler returns from its callback at once.
StartsPausing(act, dl) ==
  /\ act # <<>> /\ signal[Head(act)] = "pause"
  /\ state' = [state EXCEPT ![Head(act)] = "paused"]
  /\ signal' = [signal EXCEPT ![Head(act)] = "break"]
  /\ curRunning' = NULL /\ handler' = [at |-> "signal", dl |-> Head(act)]
  /\ UNCHANGED <<isBusy, flags, exec, ladr, atFin, clock, pc>>

\* The head is paused.
StartsPaused(act, dl) ==
  /\ act # <<>> /\ signal[Head(act)] # "pause" /\ state[Head(act)] = "paused"
  /\ clock' = FALSE
  /\ listEvFlags' = listEvFlags \cup SetsListEvFlag(dl)
  /\ Wakes(FALSE, SetsListEvFlag(dl))
  /\ curRunning' = NULL /\ handler' = NoHandler
  /\ UNCHANGED <<state, signal, isBusy, drawingEvFlag, exec, ladr, atFin>>

StartsHead(act, dl) ==
  /\ act # <<>> /\ signal[Head(act)] # "pause" /\ state[Head(act)] # "paused"
  /\ state' = [state EXCEPT ![Head(act)] = "running"]
  /\ isBusy' = [isBusy EXCEPT ![Head(act)] = TRUE]
  /\ exec' = TRUE /\ ladr' = Head(act) /\ atFin' = resumesAtFin[Head(act)]
  /\ curRunning' = Head(act)
  /\ listEvFlags' = listEvFlags \cup SetsListEvFlag(dl)
  /\ Wakes(FALSE, SetsListEvFlag(dl))
  /\ handler' = NoHandler
  /\ UNCHANGED <<signal, drawingEvFlag, clock>>

StartsNext(act, dl) ==
  \/ StartsNone(act, dl)
  \/ StartsPausing(act, dl)
  \/ StartsPaused(act, dl)
  \/ StartsHead(act, dl)

-----------------------------------------------------------------------------
(* _sceGeFinishInterrupt, its first part, by what dl = curRunning was at.  *)

\* Mutant: the GE is not told to go on.
FinishSyncStops ==
  /\ Interrupted("finish") /\ Acknowledge /\ isBreak' = FALSE
  /\ curRunning # NULL /\ signal[curRunning] = "sync"
  /\ signal' = [signal EXCEPT ![curRunning] = "none"]
  /\ UNCHANGED <<active, free, state, isBusy, resumesAtFin, curRunning, flags, exec, ladr, atFin, clock, handler, pc, refused>>

\* The FINISH/END of a SIGNAL_SYNC: the list goes on.
FinishSync ==
  /\ Interrupted("finish") /\ Acknowledge /\ isBreak' = FALSE
  /\ curRunning # NULL /\ signal[curRunning] = "sync"
  /\ signal' = [signal EXCEPT ![curRunning] = "none"]
  /\ exec' = TRUE
  /\ UNCHANGED <<active, free, state, isBusy, resumesAtFin, curRunning, flags, ladr, atFin, clock, handler, pc, refused>>

\* The FINISH/END of a SIGNAL_PAUSE: the list stops and its callback is called;
\* with another list before it by now, that one is started instead.
FinishPause ==
  /\ Interrupted("finish") /\ Acknowledge /\ isBreak' = FALSE
  /\ curRunning # NULL /\ signal[curRunning] = "pause"
  /\ resumesAtFin' = [resumesAtFin EXCEPT ![curRunning] = FALSE]
  /\ \/ /\ active # <<>> /\ Head(active) = curRunning
        /\ signal' = [signal EXCEPT ![curRunning] = "break"]
        /\ curRunning' = NULL
        /\ handler' = [at |-> "signal", dl |-> curRunning]
        /\ UNCHANGED <<state, isBusy, flags, exec, ladr, atFin, clock, pc>>
     \/ /\ active # <<>> => Head(active) # curRunning
        /\ StartsNext(active, NULL)
  /\ UNCHANGED <<active, free, refused>>

\* The end of the list: its callback is called before it leaves the queue.
FinishList ==
  /\ Interrupted("finish") /\ Acknowledge /\ isBreak' = FALSE
  /\ curRunning # NULL /\ signal[curRunning] \notin {"sync", "pause"}
  /\ state[curRunning] = "running"
  /\ state' = [state EXCEPT ![curRunning] = "completed"]
  /\ curRunning' = NULL
  /\ handler' = [at |-> "finish", dl |-> curRunning]
  /\ UNCHANGED <<active, free, signal, isBusy, resumesAtFin, flags, exec, ladr, atFin, clock, pc, refused>>

FinishReturn ==
  /\ handler.at = "finish"
  /\ active' = Unlinked(active, handler.dl)
  /\ free' = Append(free, handler.dl)
  /\ StartsNext(active', handler.dl)
  /\ UNCHANGED <<resumesAtFin, isBreak, intr, refused>>

\* The FINISH/END of sceGeBreak, or of a list that is not running.
FinishOther ==
  /\ Interrupted("finish") /\ Acknowledge /\ isBreak' = FALSE
  /\ curRunning # NULL => /\ signal[curRunning] \notin {"sync", "pause"}
                          /\ state[curRunning] # "running"
  /\ StartsNext(active, curRunning)
  /\ UNCHANGED <<active, free, resumesAtFin, refused>>

-----------------------------------------------------------------------------
Operation(a) ==
  \/ EnQueue(a)
  \/ EnQueueHead(a)
  \/ \E dl \in DisplayLists : DeQueue(a, dl)
  \/ ContinueStopped(a)
  \/ ContinueBreaking(a)

ThreadStep(t) ==
  \/ Operation(t)
  \/ \E dl \in DisplayLists : ListSync(t, dl)
  \/ DrawSync(t) \/ DrawSyncTest(t) \/ DrawSyncClear(t) \/ DrawSyncUnbusy(t)
  \/ BreakReset(t) \/ BreakRunning(t) \/ BreakQueued(t)

GeStep == GeFinish \/ \E sig \in Signals : GeSignal(sig)

InterruptStep ==
  \/ SignalSuspend \/ SignalContinue \/ SignalSync \/ SignalReturn
  \/ \E sig \in {"pause", "none"} : SignalPause(sig)
  \/ FinishSync \/ FinishPause \/ FinishList \/ FinishReturn \/ FinishOther

Next ==
  \/ \E t \in Thread : ThreadStep(t)
  \/ Operation("callback")
  \/ GeStep
  \/ InterruptStep

Spec == Init /\ [][Next]_vars

FairSpec ==
  /\ Spec
  /\ WF_vars(GeFinish)
  /\ SF_vars(GeFinish /\ ~atFin)
  /\ WF_vars(InterruptStep)

-----------------------------------------------------------------------------
(* Properties.                                                             *)

Active == Range(active)
Free == Range(free)

\* A list is in one of the queues, once, although it is unlinked and freed
\* without a look at the queue it is in; in neither, only if sceGeListEnQueueHead
\* took it from the free ones and then refused the call.
QueuesPartition ==
  /\ IsInjective(active) /\ IsInjective(free)
  /\ Active \cap Free = {}
  /\ DisplayLists \ (Active \cup Free) = refused

\* Only the head of the queue is running, isBusy keeps it from being dequeued, and
\* it is the one on the GE, which executes it unless an interrupt of its commands is
\* still to be handled or the handler is in a callback after which it resumes the GE:
\* no start of the GE is lost.
OneRunning ==
  \A dl \in DisplayLists : state[dl] = "running" =>
    /\ active # <<>> /\ Head(active) = dl /\ isBusy[dl]
    /\ curRunning = dl /\ ladr = dl
    /\ exec \/ intr # "none" \/ handler.at = "resume"

\* An interrupt is taken for the list whose commands raised it, whatever breaks
\* and continues came between: a SIGNAL for the head of the queue, a FINISH for
\* curRunning or, when sceGeBreak has stopped the GE, for none.
InterruptIsForItsList ==
  /\ intr \in Signals => active # <<>> /\ ladr = Head(active)
  /\ intr = "finish" => ladr = IF curRunning = NULL THEN g_cmdList ELSE curRunning

\* From the start of a list to the handling of its interrupt sceGeDrawSync(0) does
\* not return, and the bus clock of the GE is enabled.
DrawingIsAnnounced ==
  exec \/ intr # "none" \/ curRunning # NULL => ~drawingEvFlag /\ clock

\* What sceGeDrawSync is about to reset is not in the queue again: of one thread
\* that enqueues only.
ResetsCompleted ==
  \A t \in Thread : pc[t].op \in {"clear", "unbusy"} => pc[t].dl \notin Active

\* A list leaves the queue unless sceGeBreak or a SIGNAL_PAUSE stops the queue:
\* its head is then paused, or was queued behind a paused one that is dequeued.
Stopped ==
  /\ active # <<>>
  /\ \/ state[Head(active)] = "paused"
     \/ state[Head(active)] = "queued" /\ ~exec /\ intr = "none" /\ handler.at = "none"
ListsEnd == \A dl \in DisplayLists : dl \in Active ~> dl \notin Active \/ Stopped

\* "0 to wait for the display list to be completed" (include/ge_user.h:505, of
\* the mode of sceGeListSync): the list is not in the queue on return.
SyncMeansCompleted ==
  [][\A t \in Thread :
       pc[t].op = "listSync" /\ pc'[t] = Idle => pc[t].dl \notin Active']_vars
=============================================================================
