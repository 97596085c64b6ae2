---------------------------- MODULE SysconService ----------------------------
(***************************************************************************)
(* What the syscon packet queue promises its clients, without pointers,    *)
(* status bits or interrupts: four queues of packets, and a bus that holds *)
(* at most one packet, always the first of its queue.  SysconQueue         *)
(* implements this specification (SysconRefinement).                       *)
(***************************************************************************)
EXTENDS Naturals, SequencesExt

CONSTANTS
  Packet, NULL, GetStatus2Cmd,
  ListOf,    \* the queue a packet belongs to
  Urgent     \* packets that overtake the waiting ones

Lists == 0..3

VARIABLES
  queue,   \* the packets accepted and not yet ended, in order
  bus      \* the packet being executed

vars == <<queue, bus>>

Init ==
  /\ queue = [l \in Lists |-> <<>>]
  /\ bus = NULL

Firsts(q) == {Head(q[l]) : l \in {m \in Lists : q[m] # <<>>}}

\* An idle bus may take the first packet of any queue; a busy one keeps its own.
BusNext ==
  IF bus = NULL THEN bus' \in Firsts(queue') \cup {NULL} ELSE bus' = bus

\* A packet joins the end of its queue; an urgent one goes before the packets
\* that wait, never before the first, which is on the bus or to be sent again.
Position(p, s) == IF p \in Urgent /\ s # <<>> THEN 2 ELSE Len(s) + 1

Submit(p) ==
  /\ p \notin Range(queue[ListOf[p]])
  /\ queue' = [queue EXCEPT ![ListOf[p]] = InsertAt(@, Position(p, @), p)]
  /\ BusNext

\* A packet that is not on the bus is withdrawn.
Cancel(p) ==
  /\ p # bus
  /\ \E i \in DOMAIN queue[ListOf[p]] :
       /\ queue[ListOf[p]][i] = p
       /\ queue' = [queue EXCEPT ![ListOf[p]] = RemoveAt(@, i)]
  /\ bus' = bus

\* The packet on the bus ends; to be sent again it keeps its place.
End ==
  /\ bus # NULL
  /\ bus' = NULL
  /\ queue' \in {queue, [queue EXCEPT ![ListOf[bus]] = Tail(@)]}

\* Its client wants an ended packet run once more, first or last.
Requeue(p) ==
  /\ bus = NULL
  /\ p \notin Range(queue[ListOf[p]])
  /\ \E i \in {1, Len(queue[ListOf[p]]) + 1} :
       queue' = [queue EXCEPT ![ListOf[p]] = InsertAt(@, i, p)]
  /\ bus' = NULL

\* The next packet goes on the bus, the driver's own GET_STATUS2 before all.
Select ==
  /\ bus = NULL
  /\ \/ queue' = queue
     \/ /\ GetStatus2Cmd \notin Range(queue[0])
        /\ queue' = [queue EXCEPT ![0] = <<GetStatus2Cmd>> \o @]
  /\ BusNext

Next ==
  \/ \E p \in Packet : Submit(p) \/ Cancel(p) \/ Requeue(p)
  \/ End
  \/ Select

Spec == Init /\ [][Next]_vars
=============================================================================
