---------------------------- MODULE AudioTheorems ----------------------------
(***************************************************************************)
(* Proofs about the audio output: the invariant of AudioInvariant holds    *)
(* initially and is kept by every action, and the properties follow.       *)
(***************************************************************************)
EXTENDS AudioInvariant, TLAPS

\* The DMA goes on to the one half that is not the one it leaves.
LEMMA TheOtherHalf ==
  ASSUME NEW h \in Half
  PROVE  (CHOOSE k \in Half : k # h) = OtherThan(h)
<1>1. \E k \in Half : k # h
  BY DEF Half, First, Second
<1>2. (CHOOSE k \in Half : k # h) \in Half /\ (CHOOSE k \in Half : k # h) # h
  BY <1>1
<1> QED
  BY <1>2 DEF Half, First, Second, OtherThan

\* Whether or not the output starts, the hardware keeps its types.
LEMMA GiveType ==
  ASSUME TypeOK, NEW c, NEW b, NEW len, NEW e, Give(c, b, len, e)
  PROVE  /\ dma' \in Half \union {Off} /\ inFirst' \in BOOLEAN /\ chained' \in [Half -> BOOLEAN]
         /\ half' \in [Half -> {"silent", "fresh", "heard"}] /\ glitch' \in BOOLEAN
<1>1. CASE b /\ ~started
  <2>1. dma' = First /\ inFirst' = TRUE /\ chained' = chained /\ glitch' = FALSE
    BY <1>1 DEF Give, StartSilent, UpdateAudioBuf
  <2>2. half' = [h \in Half |-> "silent"]
    BY <1>1 DEF Give, StartSilent
  <2> QED
    BY <2>1, <2>2 DEF TypeOK, Half
<1>2. CASE ~(b /\ ~started)
  BY <1>2 DEF Give, hardware, TypeOK
<1> QED
  BY <1>1, <1>2

\* An output to an idle channel; nobody waits for it.
LEMMA OutputStep ==
  ASSUME IInv, NEW t \in Thread, NEW c \in Chan, NEW b \in BOOLEAN, Output(t, c, b)
  PROVE  IInv'
<1> USE IInv, Output(t, c, b)
<1>1. TypeOK'
  <2>1. /\ cur' \in [Chan -> Nat] /\ buf' \in [Chan -> BOOLEAN]
        /\ \A d \in Chan : buf'[d] => cur'[d] > 0
    BY DEF IInv, TypeOK, Output, audioOutput, Reserved, Give
  <2>2. /\ sampleCount' \in [Chan -> Nat] /\ unk10' \in [Chan -> BOOLEAN]
        /\ waits' \in [Thread -> Chan \union {NoChan}] /\ passes' \in [Thread -> BOOLEAN]
    BY DEF IInv, TypeOK, callers, Output
  <2>3. event' \in SUBSET (Chan \union {Mix}) /\ started' \in BOOLEAN
    BY DEF IInv, TypeOK, Output, audioOutput, Give, StartSilent, UpdateAudioBuf
  <2>4. /\ dma' \in Half \union {Off} /\ inFirst' \in BOOLEAN /\ chained' \in [Half -> BOOLEAN]
        /\ half' \in [Half -> {"silent", "fresh", "heard"}] /\ glitch' \in BOOLEAN
    BY GiveType DEF IInv, Output, audioOutput
  <2>5. mixer' = mixer /\ flag' = flag /\ dst' = dst
    BY DEF local, Output
  <2> QED
    BY <2>1, <2>2, <2>3, <2>4, <2>5 DEF IInv, TypeOK
<1>2. NoStall'
  BY DEF IInv, NoStall, hardware, local, Output, audioOutput, Give, StartSilent, UpdateAudioBuf
<1>3. WaiterKeepsChannel'
  BY DEF IInv, WaiterKeepsChannel, callers, Output
<1>4. NoLostWakeup'
  BY DEF IInv, NoLostWakeup, local, Output, audioOutput, Give, StartSilent, UpdateAudioBuf
<1>5. HeardOnce'
  BY DEF IInv, HeardOnce, hardware, Output, audioOutput, Give, StartSilent
<1>6. MixerInv'
  BY DEF IInv, MixerInv, local, Output, Calls
<1>7. DmaInv'
  BY DEF IInv, DmaInv, hardware, Output, audioOutput, Give, StartSilent, UpdateAudioBuf
<1>8. OutputInv'
  BY DEF IInv, OutputInv, hardware, local, Half, Output, Calls, audioOutput, Give,
       StartSilent, UpdateAudioBuf
<1>9. FillInv'
  BY DEF IInv, FillInv, Late, OtherThan, hardware, local, Half, Output, Calls, audioOutput,
       Give, StartSilent, UpdateAudioBuf
<1>10. ChainInv'
  BY DEF IInv, ChainInv, OtherThan, hardware, Half, Output, audioOutput, Give, StartSilent
<1> QED
  BY <1>1, <1>2, <1>3, <1>4, <1>5, <1>6, <1>7, <1>8, <1>9, <1>10 DEF IInv

\* The channel is reserved and busy, so its end is still to come.
LEMMA OutputWaitStep ==
  ASSUME IInv, NEW t \in Thread, NEW c \in Chan, NEW b \in BOOLEAN, OutputWait(t, c, b)
  PROVE  IInv'
<1> USE IInv, OutputWait(t, c, b)
<1>1. TypeOK'
  BY DEF IInv, TypeOK, hardware, local, OutputWait
<1>2. NoStall'
  BY DEF IInv, NoStall, hardware, local, OutputWait
<1>3. WaiterKeepsChannel'
  BY ConstantAssumption DEF IInv, TypeOK, WaiterKeepsChannel, OutputWait, MayWait,
       OutputBusy, Reserved
<1>4. NoLostWakeup'
  BY DEF IInv, NoLostWakeup, local, OutputWait, MayWait, OutputBusy
<1>5. HeardOnce'
  BY DEF IInv, HeardOnce, hardware, OutputWait
<1>6. MixerInv'
  BY DEF IInv, MixerInv, local, OutputWait
<1>7. DmaInv'
  BY DEF IInv, DmaInv, hardware, OutputWait
<1>8. OutputInv'
  BY DEF IInv, OutputInv, hardware, local, OutputWait
<1>9. FillInv'
  BY DEF IInv, FillInv, Late, hardware, local, OutputWait
<1>10. ChainInv'
  BY DEF IInv, ChainInv, hardware, OutputWait
<1> QED
  BY <1>1, <1>2, <1>3, <1>4, <1>5, <1>6, <1>7, <1>8, <1>9, <1>10 DEF IInv

\* A thread that was woken outputs, or waits again for a buffer that came between.
LEMMA OutputAgainStep ==
  ASSUME IInv, NEW t \in Thread, NEW c \in Chan, OutputAgain(t, c)
  PROVE  IInv'
<1> USE IInv, OutputAgain(t, c)
<1>1. TypeOK'
  <2>1. /\ cur' \in [Chan -> Nat] /\ buf' \in [Chan -> BOOLEAN]
        /\ \A d \in Chan : buf'[d] => cur'[d] > 0
    BY DEF IInv, TypeOK, channels, OutputAgain, audioOutput, Reserved, Give
  <2>2. /\ sampleCount' \in [Chan -> Nat] /\ unk10' \in [Chan -> BOOLEAN]
        /\ waits' \in [Thread -> Chan \union {NoChan}] /\ passes' \in [Thread -> BOOLEAN]
    BY DEF IInv, TypeOK, channels, callers, OutputAgain
  <2>3. event' \in SUBSET (Chan \union {Mix}) /\ started' \in BOOLEAN
    BY DEF IInv, TypeOK, OutputAgain, audioOutput, Give, StartSilent, UpdateAudioBuf, Cleared
  <2>4. /\ dma' \in Half \union {Off} /\ inFirst' \in BOOLEAN /\ chained' \in [Half -> BOOLEAN]
        /\ half' \in [Half -> {"silent", "fresh", "heard"}] /\ glitch' \in BOOLEAN
    BY GiveType DEF IInv, TypeOK, hardware, OutputAgain, audioOutput
  <2>5. mixer' = mixer /\ flag' = flag /\ dst' = dst
    BY DEF local, OutputAgain
  <2> QED
    BY <2>1, <2>2, <2>3, <2>4, <2>5 DEF IInv, TypeOK
<1>2. NoStall'
  BY DEF IInv, TypeOK, NoStall, channels, hardware, OutputAgain, Calls, audioOutput, Give,
       StartSilent, UpdateAudioBuf
<1>3. WaiterKeepsChannel'
  BY ConstantAssumption DEF IInv, TypeOK, WaiterKeepsChannel, channels, callers, OutputAgain
<1>4. NoLostWakeup'
  BY DEF IInv, TypeOK, NoLostWakeup, channels, local, OutputAgain, OutputBusy, audioOutput,
       Give, StartSilent, UpdateAudioBuf, Cleared
<1>5. HeardOnce'
  BY DEF IInv, HeardOnce, hardware, OutputAgain, audioOutput, Give, StartSilent
<1>6. MixerInv'
  BY DEF IInv, MixerInv, local, OutputAgain, Calls
<1>7. DmaInv'
  BY DEF IInv, DmaInv, hardware, OutputAgain, audioOutput, Give, StartSilent, UpdateAudioBuf
<1>8. OutputInv'
  BY DEF IInv, TypeOK, OutputInv, channels, hardware, local, Half, OutputAgain, Calls,
       audioOutput, Give, StartSilent, UpdateAudioBuf
<1>9. FillInv'
  BY DEF IInv, FillInv, Late, OtherThan, hardware, local, Half, OutputAgain, Calls,
       audioOutput, Give, StartSilent, UpdateAudioBuf, Cleared
<1>10. ChainInv'
  BY DEF IInv, ChainInv, OtherThan, hardware, Half, OutputAgain, audioOutput, Give, StartSilent
<1> QED
  BY <1>1, <1>2, <1>3, <1>4, <1>5, <1>6, <1>7, <1>8, <1>9, <1>10 DEF IInv

\* A channel that is not reserved has no thread waiting for it,
LEMMA ChReserveStep ==
  ASSUME IInv, NEW t \in Thread, NEW c \in Chan, NEW byNumber \in BOOLEAN, NEW len \in Nat \ {0}, ChReserve(t, c, byNumber, len)
  PROVE  IInv'
<1> USE IInv, ChReserve(t, c, byNumber, len)
<1>1. TypeOK'
  BY DEF IInv, TypeOK, hardware, local, callers, ChReserve
<1>2. NoStall'
  BY DEF IInv, NoStall, hardware, local, ChReserve
<1>3. WaiterKeepsChannel'
  BY DEF IInv, WaiterKeepsChannel, callers, ChReserve
<1>4. NoLostWakeup'
  BY DEF IInv, NoLostWakeup, local, ChReserve
<1>5. HeardOnce'
  BY DEF IInv, HeardOnce, hardware, ChReserve
<1>6. MixerInv'
  BY DEF IInv, MixerInv, local, ChReserve
<1>7. DmaInv'
  BY DEF IInv, DmaInv, hardware, ChReserve
<1>8. OutputInv'
  BY DEF IInv, OutputInv, hardware, local, ChReserve
<1>9. FillInv'
  BY DEF IInv, FillInv, Late, hardware, local, ChReserve
<1>10. ChainInv'
  BY DEF IInv, ChainInv, hardware, ChReserve
<1> QED
  BY <1>1, <1>2, <1>3, <1>4, <1>5, <1>6, <1>7, <1>8, <1>9, <1>10 DEF IInv

\* nor has one that a one-shot output takes.
LEMMA OneshotOutputStep ==
  ASSUME IInv, NEW t \in Thread, NEW c \in Chan, NEW byNumber \in BOOLEAN, NEW len \in Nat \ {0}, NEW b \in BOOLEAN, OneshotOutput(t, c, byNumber, len, b)
  PROVE  IInv'
<1> USE IInv, OneshotOutput(t, c, byNumber, len, b)
<1>1. TypeOK'
  <2>1. /\ cur' \in [Chan -> Nat] /\ buf' \in [Chan -> BOOLEAN]
        /\ \A d \in Chan : buf'[d] => cur'[d] > 0
    BY DEF IInv, TypeOK, OneshotOutput, Give
  <2>2. /\ sampleCount' \in [Chan -> Nat] /\ unk10' \in [Chan -> BOOLEAN]
        /\ waits' \in [Thread -> Chan \union {NoChan}] /\ passes' \in [Thread -> BOOLEAN]
    BY DEF IInv, TypeOK, callers, OneshotOutput
  <2>3. event' \in SUBSET (Chan \union {Mix}) /\ started' \in BOOLEAN
    BY DEF IInv, TypeOK, OneshotOutput, Give, StartSilent, UpdateAudioBuf
  <2>4. /\ dma' \in Half \union {Off} /\ inFirst' \in BOOLEAN /\ chained' \in [Half -> BOOLEAN]
        /\ half' \in [Half -> {"silent", "fresh", "heard"}] /\ glitch' \in BOOLEAN
    BY GiveType DEF IInv, OneshotOutput
  <2>5. mixer' = mixer /\ flag' = flag /\ dst' = dst
    BY DEF local, OneshotOutput
  <2> QED
    BY <2>1, <2>2, <2>3, <2>4, <2>5 DEF IInv, TypeOK
<1>2. NoStall'
  BY DEF IInv, NoStall, hardware, local, OneshotOutput, Give, StartSilent, UpdateAudioBuf
<1>3. WaiterKeepsChannel'
  BY DEF IInv, WaiterKeepsChannel, callers, OneshotOutput
<1>4. NoLostWakeup'
  BY DEF IInv, NoLostWakeup, WaiterKeepsChannel, local, OneshotOutput, Chosen, Give,
       StartSilent, UpdateAudioBuf
<1>5. HeardOnce'
  BY DEF IInv, HeardOnce, hardware, OneshotOutput, Give, StartSilent
<1>6. MixerInv'
  BY DEF IInv, MixerInv, local, OneshotOutput, Calls
<1>7. DmaInv'
  BY DEF IInv, DmaInv, hardware, OneshotOutput, Give, StartSilent, UpdateAudioBuf
<1>8. OutputInv'
  BY DEF IInv, OutputInv, hardware, local, Half, OneshotOutput, Calls, Give, StartSilent,
       UpdateAudioBuf
<1>9. FillInv'
  <2>1. CASE b /\ ~started
    <3>1. mixer' = "wait" /\ Mix \in event' /\ \A h \in Half : half'[h] = "silent"
      BY <2>1 DEF local, OneshotOutput, Calls, Give, StartSilent, UpdateAudioBuf
    <3> QED
      BY <3>1 DEF FillInv, Late, OtherThan, Half
  <2>2. CASE ~(b /\ ~started)
    BY <2>2 DEF IInv, FillInv, Late, hardware, local, OneshotOutput, Give
  <2> QED
    BY <2>1, <2>2
<1>10. ChainInv'
  BY DEF IInv, ChainInv, OtherThan, hardware, Half, OneshotOutput, Give, StartSilent
<1> QED
  BY <1>1, <1>2, <1>3, <1>4, <1>5, <1>6, <1>7, <1>8, <1>9, <1>10 DEF IInv

\* sceAudioChRelease and sceAudioSetChannelDataLen leave a channel with a waiter alone.
LEMMA ResizeStep ==
  ASSUME IInv, NEW t \in Thread, NEW c \in Chan, NEW len \in Nat, Resize(t, c, len)
  PROVE  IInv'
<1> USE IInv, Resize(t, c, len)
<1>1. TypeOK'
  BY DEF IInv, TypeOK, hardware, local, callers, Resize
<1>2. NoStall'
  BY DEF IInv, NoStall, hardware, local, Resize
<1>3. WaiterKeepsChannel'
  BY DEF IInv, WaiterKeepsChannel, callers, Resize, MayResize
<1>4. NoLostWakeup'
  BY DEF IInv, NoLostWakeup, local, Resize
<1>5. HeardOnce'
  BY DEF IInv, HeardOnce, hardware, Resize
<1>6. MixerInv'
  BY DEF IInv, MixerInv, local, Resize
<1>7. DmaInv'
  BY DEF IInv, DmaInv, hardware, Resize
<1>8. OutputInv'
  BY DEF IInv, OutputInv, hardware, local, Resize
<1>9. FillInv'
  BY DEF IInv, FillInv, Late, hardware, local, Resize
<1>10. ChainInv'
  BY DEF IInv, ChainInv, hardware, Resize
<1> QED
  BY <1>1, <1>2, <1>3, <1>4, <1>5, <1>6, <1>7, <1>8, <1>9, <1>10 DEF IInv

\* The buffers that end are in flag from here to the signal.
LEMMA MixerScanStep ==
  ASSUME IInv, MixerScan
  PROVE  IInv'
<1> USE IInv, MixerScan
<1>1. TypeOK'
  <2>1. /\ cur' \in [Chan -> Nat] /\ buf' \in [Chan -> BOOLEAN]
        /\ \A d \in Chan : buf'[d] => cur'[d] > 0
    <3>1. \A d \in Chan : buf[d] => cur[d] - 1 \in Nat /\ (cur[d] # 1 => cur[d] - 1 > 0)
      BY DEF IInv, TypeOK
    <3>2. \A d \in Chan : cur[d] \in Nat /\ buf[d] \in BOOLEAN
      BY DEF IInv, TypeOK
    <3>3. \A d \in Chan : buf'[d] => buf[d] /\ cur[d] # 1 /\ cur'[d] = cur[d] - 1
      BY DEF MixerScan, Ended
    <3>4. cur' \in [Chan -> Nat] /\ buf' \in [Chan -> BOOLEAN]
      BY <3>1, <3>2 DEF MixerScan
    <3> QED
      BY <3>1, <3>3, <3>4
  <2>2. mixer' \in {"idle", "choose"} /\ flag' \in SUBSET Chan /\ event' \in SUBSET (Chan \union {Mix})
    BY DEF IInv, TypeOK, MixerScan, Ended
  <2> QED
    BY <2>1 DEF IInv, TypeOK, hardware, callers, MixerScan, Ended
<1>2. NoStall'
  BY DEF NoStall, MixerScan
<1>3. WaiterKeepsChannel'
  BY DEF IInv, WaiterKeepsChannel, callers, MixerScan
<1>4. NoLostWakeup'
  BY ConstantAssumption DEF IInv, NoLostWakeup, MixerInv, MixerScan
<1>5. HeardOnce'
  BY DEF IInv, HeardOnce, hardware, MixerScan
<1>6. MixerInv'
  BY DEF MixerInv, MixerScan, Ended
<1>7. DmaInv'
  BY DEF IInv, DmaInv, hardware, MixerScan
<1>8. OutputInv'
  BY DEF IInv, TypeOK, OutputInv, hardware, MixerScan
<1>9. FillInv'
  BY DEF IInv, FillInv, Late, hardware, MixerScan
<1>10. ChainInv'
  BY DEF IInv, ChainInv, hardware, MixerScan
<1> QED
  BY <1>1, <1>2, <1>3, <1>4, <1>5, <1>6, <1>7, <1>8, <1>9, <1>10 DEF IInv

\* The output stops only if no channel has a buffer.
LEMMA MixerIdleStep ==
  ASSUME IInv, MixerIdle
  PROVE  IInv'
<1> USE IInv, MixerIdle
<1>1. TypeOK'
  BY DEF IInv, TypeOK, channels, hardware, callers, MixerIdle
<1>2. NoStall'
  BY DEF IInv, NoStall, MixerInv, channels, MixerIdle
<1>3. WaiterKeepsChannel'
  BY DEF IInv, WaiterKeepsChannel, channels, callers, MixerIdle
<1>4. NoLostWakeup'
  BY DEF IInv, NoLostWakeup, channels, MixerIdle
<1>5. HeardOnce'
  BY DEF IInv, HeardOnce, hardware, MixerIdle
<1>6. MixerInv'
  BY DEF IInv, MixerInv, MixerIdle
<1>7. DmaInv'
  BY DEF IInv, DmaInv, hardware, MixerIdle
<1>8. OutputInv'
  BY DEF IInv, OutputInv, MixerInv, channels, MixerIdle
<1>9. FillInv'
  BY DEF FillInv, MixerIdle
<1>10. ChainInv'
  BY DEF IInv, ChainInv, hardware, MixerIdle
<1> QED
  BY <1>1, <1>2, <1>3, <1>4, <1>5, <1>6, <1>7, <1>8, <1>9, <1>10 DEF IInv

\* The half chosen is not the one that plays.
LEMMA MixerChooseStep ==
  ASSUME IInv, MixerChoose
  PROVE  IInv'
<1> USE IInv, MixerChoose
<1>1. TypeOK'
  BY DEF IInv, TypeOK, Half, channels, hardware, callers, MixerChoose, OtherHalf
<1>2. NoStall'
  BY DEF NoStall, MixerChoose
<1>3. WaiterKeepsChannel'
  BY DEF IInv, WaiterKeepsChannel, channels, callers, MixerChoose
<1>4. NoLostWakeup'
  BY DEF IInv, NoLostWakeup, channels, MixerChoose
<1>5. HeardOnce'
  BY DEF IInv, HeardOnce, hardware, MixerChoose
<1>6. MixerInv'
  BY DEF MixerInv, Half, MixerChoose, OtherHalf
<1>7. DmaInv'
  BY DEF IInv, DmaInv, hardware, MixerChoose
<1>8. OutputInv'
  BY DEF IInv, OutputInv, hardware, MixerChoose
<1>9. FillInv'
  BY DEF IInv, FillInv, DmaInv, OutputInv, Late, OtherThan, hardware, MixerChoose, OtherHalf
<1>10. ChainInv'
  BY DEF IInv, ChainInv, hardware, MixerChoose
<1> QED
  BY <1>1, <1>2, <1>3, <1>4, <1>5, <1>6, <1>7, <1>8, <1>9, <1>10 DEF IInv

\* The half written was heard or silent.
LEMMA MixerWriteStep ==
  ASSUME IInv, MixerWrite
  PROVE  IInv'
<1> USE IInv, MixerWrite
<1>1. TypeOK'
  BY DEF IInv, TypeOK, channels, callers, MixerWrite
<1>2. NoStall'
  BY DEF NoStall, MixerWrite
<1>3. WaiterKeepsChannel'
  BY DEF IInv, WaiterKeepsChannel, channels, callers, MixerWrite
<1>4. NoLostWakeup'
  BY DEF IInv, NoLostWakeup, channels, MixerWrite
<1>5. HeardOnce'
  BY DEF IInv, HeardOnce, MixerWrite
<1>6. MixerInv'
  BY DEF IInv, MixerInv, MixerWrite
<1>7. DmaInv'
  BY DEF IInv, DmaInv, MixerWrite
<1>8. OutputInv'
  BY DEF IInv, OutputInv, MixerWrite
<1>9. FillInv'
  BY DEF IInv, TypeOK, FillInv, MixerInv, Late, MixerWrite
<1>10. ChainInv'
  BY DEF IInv, ChainInv, MixerWrite
<1> QED
  BY <1>1, <1>2, <1>3, <1>4, <1>5, <1>6, <1>7, <1>8, <1>9, <1>10 DEF IInv

\* The half that plays goes on to the one just written.
LEMMA MixerChainStep ==
  ASSUME IInv, MixerChain
  PROVE  IInv'
<1> USE IInv, MixerChain
<1>1. TypeOK'
  BY DEF IInv, TypeOK, channels, callers, MixerChain, Chained
<1>2. NoStall'
  BY DEF NoStall, MixerChain
<1>3. WaiterKeepsChannel'
  BY DEF IInv, WaiterKeepsChannel, channels, callers, MixerChain
<1>4. NoLostWakeup'
  BY DEF IInv, NoLostWakeup, channels, MixerChain
<1>5. HeardOnce'
  BY DEF IInv, HeardOnce, MixerChain
<1>6. MixerInv'
  BY DEF IInv, MixerInv, MixerChain
<1>0. dst \in Half /\ \A h \in Half : chained'[h] = (h # dst)
  BY DEF IInv, MixerInv, MixerChain, Chained
<1>7. DmaInv'
  BY <1>0 DEF IInv, TypeOK, DmaInv, Half, MixerChain
<1>8. OutputInv'
  BY DEF IInv, OutputInv, MixerChain
<1>9. FillInv'
  <2> SUFFICES ASSUME ~glitch, started
               PROVE  chained'[dma] /\ dst = OtherThan(dma)
    BY DEF FillInv, MixerChain
  <2>1. dst = OtherThan(dma) /\ dma \in Half
    BY DEF IInv, FillInv, OutputInv, MixerChain
  <2> QED
    BY <1>0, <2>1 DEF OtherThan, First, Second
<1>10. ChainInv'
  BY DEF IInv, ChainInv, OutputInv, FillInv, MixerChain
<1> QED
  BY <1>1, <1>2, <1>3, <1>4, <1>5, <1>6, <1>7, <1>8, <1>9, <1>10 DEF IInv

\* The output is started again only after a glitch.
LEMMA MixerStartStep ==
  ASSUME IInv, MixerStart
  PROVE  IInv'
<1> USE IInv, MixerStart
<1>1. TypeOK'
  BY DEF IInv, TypeOK, Half, channels, hardware, callers, MixerStart, UpdateAudioBuf
<1>2. NoStall'
  BY DEF NoStall, MixerStart, UpdateAudioBuf
<1>3. WaiterKeepsChannel'
  BY DEF IInv, WaiterKeepsChannel, channels, callers, MixerStart
<1>4. NoLostWakeup'
  BY DEF IInv, NoLostWakeup, channels, MixerStart, UpdateAudioBuf
<1>5. HeardOnce'
  BY DEF IInv, HeardOnce, OutputInv, hardware, MixerStart
<1>6. MixerInv'
  BY DEF MixerInv, MixerStart
<1>7. DmaInv'
  BY DEF IInv, DmaInv, hardware, Half, MixerStart, UpdateAudioBuf
<1>8. OutputInv'
  BY DEF IInv, OutputInv, hardware, MixerStart
<1>9. FillInv'
  BY DEF IInv, FillInv, OutputInv, hardware, MixerStart
<1>10. ChainInv'
  BY DEF IInv, ChainInv, hardware, MixerStart
<1> QED
  BY <1>1, <1>2, <1>3, <1>4, <1>5, <1>6, <1>7, <1>8, <1>9, <1>10 DEF IInv

\* The bits of flag move to the event flag.
LEMMA MixerSignalStep ==
  ASSUME IInv, MixerSignal
  PROVE  IInv'
<1> USE IInv, MixerSignal
<1>1. TypeOK'
  BY DEF IInv, TypeOK, channels, hardware, callers, MixerSignal
<1>2. NoStall'
  BY DEF IInv, NoStall, channels, hardware, MixerSignal
<1>3. WaiterKeepsChannel'
  BY DEF IInv, WaiterKeepsChannel, channels, callers, MixerSignal
<1>4. NoLostWakeup'
  BY DEF IInv, NoLostWakeup, channels, MixerSignal
<1>5. HeardOnce'
  BY DEF IInv, HeardOnce, hardware, MixerSignal
<1>6. MixerInv'
  BY DEF MixerInv, MixerSignal
<1>7. DmaInv'
  BY DEF IInv, DmaInv, hardware, MixerSignal
<1>8. OutputInv'
  BY DEF IInv, OutputInv, hardware, MixerSignal
<1>9. FillInv'
  BY ConstantAssumption DEF IInv, TypeOK, FillInv, OutputInv, Late, hardware, MixerSignal
<1>10. ChainInv'
  BY DEF IInv, ChainInv, hardware, MixerSignal
<1> QED
  BY <1>1, <1>2, <1>3, <1>4, <1>5, <1>6, <1>7, <1>8, <1>9, <1>10 DEF IInv

\* If the mixer was in time, the half that comes next has not been heard.
LEMMA HalfEndsStep ==
  ASSUME IInv, HalfEnds
  PROVE  IInv'
<1> USE IInv, HalfEnds
<1>0. /\ dma \in Half /\ dma' = IF chained[dma] THEN OtherThan(dma) ELSE Off
      /\ half' = [half EXCEPT ![dma] = IF @ = "silent" THEN @ ELSE "heard"]
  BY TheOtherHalf DEF HalfEnds
<1>a. ASSUME ~glitch'
      PROVE  /\ ~glitch /\ mixer = "wait" /\ Mix \notin event
             /\ started => chained[dma]
  BY <1>a DEF IInv, FillInv, HalfEnds, Late
<1>1. TypeOK'
  BY DEF IInv, TypeOK, channels, local, callers, HalfEnds
<1>2. NoStall'
  BY DEF NoStall, HalfEnds
<1>3. WaiterKeepsChannel'
  BY DEF IInv, WaiterKeepsChannel, channels, callers, HalfEnds
<1>4. NoLostWakeup'
  BY DEF IInv, NoLostWakeup, channels, local, HalfEnds
<1>5. HeardOnce'
  <2>1. CASE chained[dma] /\ ~glitch'
    <3>1. dma' = OtherThan(dma) /\ half[OtherThan(dma)] # "heard" /\ OtherThan(dma) # dma
      BY <1>0, <1>a, <2>1 DEF IInv, ChainInv, OtherThan, First, Second
    <3>2. OtherThan(dma) \in Half
      BY DEF OtherThan, Half
    <3> QED
      BY <1>0, <3>1 DEF HeardOnce
  <2>2. CASE ~chained[dma] \/ glitch'
    BY <1>0, <2>2 DEF HeardOnce, Half, First, Second, Off
  <2> QED
    BY <2>1, <2>2
<1>6. MixerInv'
  BY DEF IInv, MixerInv, channels, local, HalfEnds
<1>7. DmaInv'
  BY DEF IInv, DmaInv, Half, First, Off, HalfEnds
<1>8. OutputInv'
  <2> SUFFICES ASSUME ~glitch'
               PROVE  /\ started' => dma' \in Half
                      /\ ~started' => mixer' \in {"wait", "idle"} /\ \A c \in Chan : ~buf'[c]
                      /\ mixer' # "wait" => Mix \notin event'
    BY DEF OutputInv
  <2>1. started' = started /\ mixer' = mixer /\ buf' = buf
    BY DEF HalfEnds, channels, local
  <2> QED
    BY <1>0, <1>a, <2>1 DEF IInv, OutputInv, OtherThan, Half
<1>9. FillInv'
  BY DEF IInv, TypeOK, FillInv, DmaInv, Late, OtherThan, local, Half, First, Off, HalfEnds
<1>10. ChainInv'
  BY DEF IInv, ChainInv, DmaInv, Half, First, Second, Off, HalfEnds
<1> QED
  BY <1>1, <1>2, <1>3, <1>4, <1>5, <1>6, <1>7, <1>8, <1>9, <1>10 DEF IInv

\* An error stops the output and wakes the mixer,
LEMMA DmaErrorStep ==
  ASSUME IInv, DmaError
  PROVE  IInv'
<1> USE IInv, DmaError
<1>1. TypeOK'
  BY DEF IInv, TypeOK, channels, local, callers, DmaError
<1>2. NoStall'
  BY DEF NoStall, DmaError
<1>3. WaiterKeepsChannel'
  BY DEF IInv, WaiterKeepsChannel, channels, callers, DmaError
<1>4. NoLostWakeup'
  BY DEF IInv, NoLostWakeup, channels, local, DmaError
<1>5. HeardOnce'
  BY DEF HeardOnce, DmaError
<1>6. MixerInv'
  BY DEF IInv, MixerInv, channels, local, DmaError
<1>7. DmaInv'
  BY DEF IInv, DmaInv, Half, First, Second, Off, DmaError
<1>8. OutputInv'
  BY DEF OutputInv, DmaError
<1>9. FillInv'
  BY DEF FillInv, DmaError
<1>10. ChainInv'
  BY DEF ChainInv, DmaError
<1> QED
  BY <1>1, <1>2, <1>3, <1>4, <1>5, <1>6, <1>7, <1>8, <1>9, <1>10 DEF IInv

\* and so does the underrun interrupt.
LEMMA UnderrunStep ==
  ASSUME IInv, Underrun
  PROVE  IInv'
<1> USE IInv, Underrun
<1>1. TypeOK'
  BY DEF IInv, TypeOK, channels, local, callers, Underrun, HwAttrBits
<1>2. NoStall'
  BY DEF NoStall, Underrun, HwAttrBits
<1>3. WaiterKeepsChannel'
  BY DEF IInv, WaiterKeepsChannel, channels, callers, Underrun
<1>4. NoLostWakeup'
  BY DEF IInv, NoLostWakeup, channels, local, Underrun
<1>5. HeardOnce'
  BY DEF IInv, HeardOnce, Underrun
<1>6. MixerInv'
  BY DEF IInv, MixerInv, channels, local, Underrun
<1>7. DmaInv'
  BY DEF IInv, DmaInv, First, Off, Underrun
<1>8. OutputInv'
  BY DEF IInv, OutputInv, Half, First, Second, Off, Underrun
<1>9. FillInv'
  BY DEF FillInv, Underrun
<1>10. ChainInv'
  BY DEF IInv, ChainInv, Underrun
<1> QED
  BY <1>1, <1>2, <1>3, <1>4, <1>5, <1>6, <1>7, <1>8, <1>9, <1>10 DEF IInv

\* A step that changes nothing.
LEMMA StutterStep ==
  ASSUME IInv, UNCHANGED vars
  PROVE  IInv'
<1> USE IInv, UNCHANGED vars
<1>1. TypeOK'
  BY DEF IInv, TypeOK, channels, hardware, local, callers, vars
<1>2. NoStall'
  BY DEF IInv, NoStall, channels, hardware, local, vars
<1>3. WaiterKeepsChannel'
  BY DEF IInv, WaiterKeepsChannel, channels, callers, vars
<1>4. NoLostWakeup'
  BY DEF IInv, NoLostWakeup, channels, local, vars
<1>5. HeardOnce'
  BY DEF IInv, HeardOnce, hardware, vars
<1>6. MixerInv'
  BY DEF IInv, MixerInv, channels, local, vars
<1>7. DmaInv'
  BY DEF IInv, DmaInv, hardware, vars
<1>8. OutputInv'
  BY DEF IInv, OutputInv, channels, hardware, local, vars
<1>9. FillInv'
  BY DEF IInv, FillInv, Late, hardware, local, vars
<1>10. ChainInv'
  BY DEF IInv, ChainInv, hardware, vars
<1> QED
  BY <1>1, <1>2, <1>3, <1>4, <1>5, <1>6, <1>7, <1>8, <1>9, <1>10 DEF IInv

\* Nothing plays after sceAudioInit.
LEMMA InitInv ==
  ASSUME Init
  PROVE  IInv
<1>1. TypeOK
  BY DEF Init, TypeOK
<1>2. NoStall /\ WaiterKeepsChannel /\ NoLostWakeup /\ HeardOnce
  BY ConstantAssumption DEF Init, NoStall, WaiterKeepsChannel, NoLostWakeup, HeardOnce
<1>3. MixerInv /\ DmaInv /\ OutputInv /\ FillInv /\ ChainInv
  BY DEF Init, MixerInv, DmaInv, OutputInv, FillInv, ChainInv, Half, Second, Off
<1> QED
  BY <1>1, <1>2, <1>3 DEF IInv

\* Every step keeps the invariant.
LEMMA NextStep ==
  ASSUME IInv, [Next]_vars
  PROVE  IInv'
<1>1. CASE UNCHANGED vars
  BY <1>1, StutterStep
<1>2. ASSUME NEW t \in Thread, NEW c \in Chan, NEW b \in BOOLEAN, Output(t, c, b) \/ OutputWait(t, c, b)
      PROVE  IInv'
  BY <1>2, OutputStep, OutputWaitStep
<1>3. ASSUME NEW t \in Thread, NEW c \in Chan, OutputAgain(t, c)
      PROVE  IInv'
  BY <1>3, OutputAgainStep
<1>4. \A c \in Chan : \A len \in Length(c) : len \in Nat \ {0}
  BY DEF Length
<1>5. ASSUME NEW t \in Thread, NEW c \in Chan, NEW len \in Length(c), NEW byNumber \in BOOLEAN,
             ChReserve(t, c, byNumber, len)
      PROVE  IInv'
  BY <1>4, <1>5, ChReserveStep
<1>6. ASSUME NEW t \in Thread, NEW c \in Chan, NEW len \in Length(c), NEW byNumber \in BOOLEAN,
             NEW b \in BOOLEAN, OneshotOutput(t, c, byNumber, len, b)
      PROVE  IInv'
  BY <1>4, <1>6, OneshotOutputStep
<1>7. ASSUME NEW t \in Thread, NEW c \in Chan,
             ChRelease(t, c) \/ \E len \in Length(c) : SetChannelDataLen(t, c, len)
      PROVE  IInv'
  BY <1>4, <1>7, ResizeStep DEF ChRelease, SetChannelDataLen
<1>8. CASE Mixer
  BY <1>8, MixerScanStep, MixerIdleStep, MixerChooseStep, MixerWriteStep, MixerChainStep,
       MixerStartStep,
     MixerSignalStep
     DEF Mixer
<1>9. CASE HalfEnds \/ DmaError \/ Underrun
  BY <1>9, HalfEndsStep, DmaErrorStep, UnderrunStep
<1> QED
  BY <1>1, <1>2, <1>3, <1>5, <1>6, <1>7, <1>8, <1>9 DEF Next

\* The invariant is inductive.
THEOREM Inductive == Spec => []IInv
<1> QED
  BY InitInv, NextStep, PTL DEF Spec

-----------------------------------------------------------------------------
(* Theorems of the specification.                                          *)

\* The state is well-typed, and the mixer (line 234) takes pieces only of buffers
\* that have some left.
THEOREM TypeCorrect == Spec => []TypeOK
<1>1. IInv => TypeOK
  BY DEF IInv
<1> QED
  BY <1>1, Inductive, PTL

\* A buffer that audioOutput or sceAudioOneshotOutput accepted is never left without
\* an event that makes the mixer thread go on with it.
THEOREM NothingStalls == Spec => []NoStall
<1>1. IInv => NoStall
  BY DEF IInv
<1> QED
  BY <1>1, Inductive, PTL

\* chan->unk10 keeps the channel of a blocked thread from being released, resized
\* or waited for by another.
THEOREM WaiterIsSafe == Spec => []WaiterKeepsChannel
<1>1. IInv => WaiterKeepsChannel
  BY DEF IInv
<1> QED
  BY <1>1, Inductive, PTL

\* The bit a blocked thread waits for is set, or about to be, once the buffer before
\* its own has been mixed.
THEOREM WakeupKept == Spec => []NoLostWakeup
<1>1. IInv => NoLostWakeup
  BY DEF IInv
<1> QED
  BY <1>1, Inductive, PTL

\* The DMA plays no half a second time unless it has failed or overtaken the mixer.
THEOREM NothingTwice == Spec => []HeardOnce
<1>1. IInv => HeardOnce
  BY DEF IInv
<1> QED
  BY <1>1, Inductive, PTL

\* Nor does the mixer overwrite or erase what has not been played.
THEOREM NothingErased == Spec => MixedIsHeard
<1> DEFINE Kept(h) == half[h] = "fresh" =>
             \/ half'[h] # "silent" /\ ~(mixer = "write" /\ mixer' = "chain" /\ dst = h)
             \/ ~started
             \/ glitch
<1>1. ASSUME IInv, Next PROVE \A h \in Half : Kept(h)
  <2> SUFFICES ASSUME NEW h \in Half, half[h] = "fresh", started, ~glitch
               PROVE  half'[h] # "silent" /\ ~(mixer = "write" /\ mixer' = "chain" /\ dst = h)
    OBVIOUS
  <2>1. ASSUME NEW c \in Chan, NEW b \in BOOLEAN, NEW len, NEW e, Give(c, b, len, e), mixer' = mixer
        PROVE  half'[h] # "silent" /\ ~(mixer = "write" /\ mixer' = "chain" /\ dst = h)
    BY <2>1 DEF Give, hardware
  <2>2. ASSUME half' = half, mixer # "write" PROVE half'[h] # "silent" /\ ~(mixer = "write" /\ mixer' = "chain" /\ dst = h)
    BY <2>2
  <2>3. ASSUME NEW t \in Thread, NEW c \in Chan, NEW b \in BOOLEAN, Output(t, c, b) \/ OutputWait(t, c, b)
        PROVE  half'[h] # "silent" /\ ~(mixer = "write" /\ mixer' = "chain" /\ dst = h)
    BY <2>1, <2>3 DEF Output, OutputWait, audioOutput, local, hardware
  <2>4. ASSUME NEW t \in Thread, NEW c \in Chan, OutputAgain(t, c)
        PROVE  half'[h] # "silent" /\ ~(mixer = "write" /\ mixer' = "chain" /\ dst = h)
    <3>1. passes[t] \in BOOLEAN /\ mixer = "wait" /\ mixer' = mixer
      BY <1>1, <2>4 DEF IInv, TypeOK, OutputAgain, Calls, local
    <3> QED
      BY <2>1, <2>4, <3>1 DEF OutputAgain, audioOutput, hardware
  <2>5. ASSUME NEW t \in Thread, NEW c \in Chan, NEW len, NEW byNumber \in BOOLEAN, NEW b \in BOOLEAN,
               OneshotOutput(t, c, byNumber, len, b)
        PROVE  half'[h] # "silent" /\ ~(mixer = "write" /\ mixer' = "chain" /\ dst = h)
    BY <2>1, <2>5 DEF OneshotOutput, local
  <2>6. ASSUME NEW t \in Thread, NEW c \in Chan, NEW len, NEW byNumber \in BOOLEAN,
               ChReserve(t, c, byNumber, len) \/ Resize(t, c, len)
        PROVE  half'[h] # "silent" /\ ~(mixer = "write" /\ mixer' = "chain" /\ dst = h)
    BY <2>6 DEF ChReserve, Resize, Calls, hardware
  <2>7. CASE MixerWrite
    BY <1>1, <2>7 DEF IInv, FillInv, MixerWrite
  <2>8. CASE HalfEnds
    BY <2>8 DEF HalfEnds, local
  <2>9. CASE MixerScan \/ MixerIdle \/ MixerChoose \/ MixerChain \/ MixerStart \/ MixerSignal \/ DmaError \/ Underrun
    BY <2>9 DEF MixerScan, MixerIdle, MixerChoose, MixerChain, MixerStart, MixerSignal,
         DmaError, Underrun, hardware, local
  <2> QED
    BY <1>1, <2>3, <2>4, <2>5, <2>6, <2>7, <2>8, <2>9 DEF Next, Mixer, ChRelease, SetChannelDataLen
<1>2. IInv /\ [Next]_vars => [\A h \in Half : Kept(h)]_vars
  BY <1>1
<1> QED
  BY <1>2, Inductive, PTL DEF Spec, MixedIsHeard
=============================================================================
