---------------------------- MODULE AudioInvariant ----------------------------
(***************************************************************************)
(* The inductive invariant of AudioOutput.                                 *)
(***************************************************************************)
EXTENDS AudioOutput

OtherThan(h) == IF h = First THEN Second ELSE First

\* What the mixer has yet to signal, and that it idles with nothing to play.
MixerInv ==
  /\ mixer \in {"wait", "idle"} => flag = {}
  /\ mixer = "idle" => \A c \in Chan : ~buf[c]
  /\ mixer \in {"write", "chain", "start"} => dst \in Half

\* The source address tells the half that the DMA plays; the two halves are never
\* chained in a circle.
DmaInv ==
  /\ dma \in Half => (inFirst <=> dma = First)
  /\ ~(chained[First] /\ chained[Second])

\* As long as the DMA has not overtaken the mixer:
\* while the output is started the DMA plays, otherwise there is nothing to play;
OutputInv ==
  ~glitch =>
    /\ started => dma \in Half
    /\ ~started => mixer \in {"wait", "idle"} /\ \A c \in Chan : ~buf[c]
    /\ mixer # "wait" => Mix \notin event

\* the mixer fills the half that is not played, which has been heard, and chains
\* it before the other ends;
FillInv ==
  ~glitch /\ started =>
    /\ mixer \in {"write", "chain", "start"} => dst = OtherThan(dma)
    /\ mixer = "chain" => half[dst] = "fresh"
    /\ mixer \in {"start", "signal"} \/ ~Late => chained[dma]
    /\ mixer \in {"idle", "choose", "write"} \/ (mixer = "wait" /\ Late) => half[OtherThan(dma)] # "fresh"

\* and the DMA goes on to a half only if it has not been heard.
ChainInv ==
  ~glitch /\ dma \in Half => (chained[dma] => half[OtherThan(dma)] # "heard")

IInv ==
  /\ TypeOK /\ NoStall /\ WaiterKeepsChannel /\ NoLostWakeup /\ HeardOnce
  /\ MixerInv /\ DmaInv /\ OutputInv /\ FillInv /\ ChainInv
=============================================================================
