------------------------------- MODULE GeService -------------------------------
(***************************************************************************)
(* What the display list queue promises programs, without GE registers,    *)
(* interrupts, signals or event flags: lists are executed in order, one at *)
(* a time, and a list that has been begun leaves the queue only when it    *)
(* has run to its end, or with all the others.  GeQueue implements this    *)
(* specification (GeRefinement).                                           *)
(***************************************************************************)
EXTENDS Naturals, SequencesExt

CONSTANTS DisplayLists, NULL

VARIABLES
  queue,    \* the lists accepted and not yet gone, in order
  begun,    \* those whose execution has been begun
  running,  \* the one being executed, or NULL
  ended     \* the one whose end the program is being told of, or NULL

vars == <<queue, begun, running, ended>>

Init ==
  /\ queue = <<>>
  /\ begun = {}
  /\ running = NULL
  /\ ended = NULL

Accept(dl) ==
  /\ dl \notin Range(queue)
  /\ queue' = Append(queue, dl)
  /\ IF queue = <<>> THEN running' = dl /\ begun' = {dl}
                     ELSE UNCHANGED <<running, begun>>
  /\ ended' = ended

\* Another list goes first while nothing is executed.
AcceptFirst(dl) ==
  /\ dl \notin Range(queue)
  /\ running = NULL /\ ended = NULL
  /\ queue' = <<dl>> \o queue
  /\ UNCHANGED <<begun, running, ended>>

Withdraw(dl) ==
  /\ dl \notin begun
  /\ \E i \in DOMAIN queue : queue[i] = dl /\ queue' = RemoveAt(queue, i)
  /\ UNCHANGED <<begun, running, ended>>

\* The first list is begun or gone on with.
Execute ==
  /\ queue # <<>> /\ running = NULL /\ ended = NULL
  /\ running' = Head(queue)
  /\ begun' = begun \cup {Head(queue)}
  /\ UNCHANGED <<queue, ended>>

Stop ==
  /\ running # NULL
  /\ running' = NULL
  /\ UNCHANGED <<queue, begun, ended>>

End ==
  /\ running # NULL
  /\ ended' = running
  /\ running' = NULL
  /\ UNCHANGED <<queue, begun>>

\* The first list, which has ended, leaves, and the next may be begun.
Leave ==
  /\ queue # <<>> /\ ended = Head(queue)
  /\ queue' = Tail(queue)
  /\ ended' = NULL
  /\ \/ running' = NULL /\ begun' = begun \ {ended}
     \/ queue' # <<>> /\ running' = Head(queue') /\ begun' = (begun \ {ended}) \cup {running'}

\* Everything is given up.
Reset ==
  /\ ended = NULL
  /\ queue' = <<>> /\ begun' = {} /\ running' = NULL
  /\ ended' = NULL

Next ==
  \/ \E dl \in DisplayLists : Accept(dl) \/ AcceptFirst(dl) \/ Withdraw(dl)
  \/ Execute \/ Stop \/ End \/ Leave \/ Reset

Spec == Init /\ [][Next]_vars
=============================================================================
