------------------------------ MODULE MCSysEvent ------------------------------
(* Three handlers, h1 and h3 for both types of event and h2 for one.       *)
EXTENDS SysEvent, TLC

CONSTANTS h1, h2, h3, d1, d2, suspend, resume

MCTypeMask == h1 :> {suspend, resume} @@ h2 :> {suspend} @@ h3 :> {suspend, resume}
MCSymmetry == Permutations({h1, h3}) \cup Permutations({d1, d2})
=============================================================================
