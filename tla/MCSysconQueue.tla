---------------------------- MODULE MCSysconQueue ----------------------------
(* Instances of SysconQueue for TLC.                                       *)
EXTENDS SysconQueue

CONSTANTS g, u, a, b, c

\* g and the urgent u in list 0, a and b in list 1, c in list 2.
MCListOf == [p \in Packet |-> CASE p \in {g, u} -> 0
                                [] p \in {a, b} -> 1
                                [] p = c -> 2]
=============================================================================
