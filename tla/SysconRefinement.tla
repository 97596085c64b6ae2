--------------------------- MODULE SysconRefinement ---------------------------
(***************************************************************************)
(* SysconQueue implements SysconService: the queue of list l is the        *)
(* sequence of packets that a walk from packetList[l] along next meets.    *)
(***************************************************************************)
EXTENDS SysconQueue

\* The walk from h along nx, as long as it meets packets for the first time.
WalkOf(h, nx) ==
  LET S == ReachFrom(h, nx)
  IN  CHOOSE s \in [1 .. Cardinality(S) -> S] :
        \A i \in DOMAIN s : s[i] = IF i = 1 THEN h ELSE nx[s[i - 1]]

Walk(l) == WalkOf(head[l], next)

Queue == [l \in Lists |-> Walk(l)]

Service == INSTANCE SysconService WITH queue <- Queue, bus <- curPacket

\* The pointer surgery of submissions, urgent submissions, cancels, retries,
\* re-queues and GET_STATUS2 keeps each list a FIFO queue whose first packet
\* is the one on the bus.
ImplementsService == Service!Spec
=============================================================================
