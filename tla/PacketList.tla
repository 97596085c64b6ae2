------------------------------ MODULE PacketList ------------------------------
(***************************************************************************)
(* Singly linked lists as the syscon driver keeps them: a head pointer, a  *)
(* tail pointer and a next field per packet.                               *)
(***************************************************************************)
CONSTANTS
  Packet,   \* every SceSysconPacket in the system
  NULL      \* the null pointer, and the semaphore ID -1

ASSUME NullAssumption == NULL \notin Packet

Link == Packet \cup {NULL}

\* S holds the head h and is closed under the next pointers nx.
ClosedFrom(S, h, nx) ==
  /\ h # NULL => h \in S
  /\ \A q \in S : nx[q] # NULL => nx[q] \in S

\* The packets a walk from h along nx meets.
ReachFrom(h, nx) ==
  {p \in Packet : \A S \in SUBSET Packet : ClosedFrom(S, h, nx) => p \in S}

\* The pointers agree: no two packets of the list have the same successor,
\* nothing points back at its head (so the list has no cycle), and its tail
\* pointer is its last packet.
IsList(h, t, nx) ==
  /\ \A p, q \in ReachFrom(h, nx) : nx[p] = nx[q] => p = q
  /\ \A p \in ReachFrom(h, nx) : nx[p] # h
  /\ h # NULL => t \in ReachFrom(h, nx) /\ nx[t] = NULL
=============================================================================
