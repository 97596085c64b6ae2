----------------------------- MODULE MCAudioOutput -----------------------------
(* Two threads that play on two channels, one with buffers of up to two    *)
(* pieces and one with buffers of one.                                     *)
EXTENDS AudioOutput, TLC

CONSTANTS t1, t2, c1, c2

MCMaxLen == (c1 :> 2) @@ (c2 :> 1)
=============================================================================
