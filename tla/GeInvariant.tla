------------------------------ MODULE GeInvariant ------------------------------
(***************************************************************************)
(* The inductive invariant of GeQueue for programs in which one thread     *)
(* enqueues and waits for lists, and other threads and the callbacks       *)
(* break, continue and dequeue them.                                       *)
(***************************************************************************)
EXTENDS GeQueue

OneEnqueuer == \E t \in Thread : Enqueuer = {t}

\* What the type invariant does not say of a record's fields together.
RecordInv ==
  /\ \A t \in Thread : pc[t].op \in {"test", "clear", "unbusy", "listSync"} => pc[t].dl \in DisplayLists
  /\ \A t \in Thread \ Enqueuer : pc[t] = Idle
  /\ handler.at = "finish" => handler.dl \in DisplayLists

\* The state of a list tells the queue it is in: a completed one is still active
\* only during its finish callback, and is busy until a sceGeDrawSync.
StateInv ==
  /\ \A dl \in Active :
       \/ state[dl] \in {"queued", "running", "paused"}
       \/ state[dl] = "completed" /\ handler = [at |-> "finish", dl |-> dl]
  /\ \A dl \in Free : state[dl] # "none" => state[dl] = "completed" /\ isBusy[dl]

\* Only the head is running, which is on the GE and busy.
RunningInv ==
  \A dl \in DisplayLists : state[dl] = "running" =>
    curRunning = dl /\ active # <<>> /\ Head(active) = dl /\ isBusy[dl]

\* What sceGeDrawSync resets was completed, and cannot be enqueued meanwhile.
ResetInv ==
  \A t \in Thread :
    /\ pc[t].op = "clear" => state[pc[t].dl] \in {"completed", "none"} /\ pc[t].dl \notin Active
    /\ pc[t].op = "unbusy" => state[pc[t].dl] = "none" /\ pc[t].dl \notin Active

\* SIGNAL_PAUSE has stopped its list; the list of a SIGNAL_SYNC runs on.
SignalInv ==
  \A dl \in DisplayLists :
    /\ signal[dl] = "pause" => state[dl] # "running"
    /\ signal[dl] = "sync" => state[dl] = "running"

\* During a finish callback the GE is idle and the list still heads the queue.
HandlerInv ==
  /\ handler.at = "finish" =>
       /\ active # <<>> /\ Head(active) = handler.dl
       /\ state[handler.dl] = "completed" /\ isBusy[handler.dl]
       /\ curRunning = NULL
  /\ handler.at \in {"finish", "resume"} => ~exec /\ intr = "none"
  /\ intr # "none" => ~exec

\* The GE is working: executing, about to, or its interrupt not yet handled.
Working == exec \/ intr # "none" \/ handler.at = "resume"

\* While it works, drawing has not ended; and it works for curRunning, or for
\* the driver's own FINISH/END when there is none, with a list it has begun.
WorkInv ==
  /\ Working \/ handler.at = "finish" \/ curRunning # NULL => ~drawingEvFlag /\ clock
  /\ Working => /\ ladr = IF curRunning = NULL THEN g_cmdList ELSE curRunning
                /\ \E dl \in Active : isBusy[dl]
  /\ curRunning # NULL => curRunning \in Active /\ isBusy[curRunning]

\* What executes commands before a FINISH/END is the running head.
InList ==
  \/ intr \in Signals
  \/ handler.at = "resume"
  \/ exec /\ ladr # g_cmdList /\ ~atFin

HeadInv ==
  /\ InList => active # <<>> /\ ladr = Head(active) /\ state[ladr] = "running"
  /\ intr \in {"sync", "pause"} => atFin

\* A list is said to run only while the GE works (OneRunning, by RunningInv
\* and WorkInv).
RunInv == \A dl \in DisplayLists : state[dl] = "running" => Working

IInv ==
  /\ TypeOK /\ RecordInv /\ QueuesPartition /\ RunningInv
  /\ StateInv /\ ResetInv /\ SignalInv /\ HandlerInv /\ WorkInv /\ HeadInv
=============================================================================
