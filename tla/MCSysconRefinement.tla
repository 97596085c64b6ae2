-------------------------- MODULE MCSysconRefinement --------------------------
(* SysconRefinement on the instances of MCSysconQueue.                     *)
EXTENDS SysconRefinement, MCSysconQueue, TLC
\* a and b have the same list and flags.
MCSymmetry == Permutations({a, b})
=============================================================================
