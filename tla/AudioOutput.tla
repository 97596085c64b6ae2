------------------------------ MODULE AudioOutput ------------------------------
(***************************************************************************)
(* The output channels of the audio driver (src/kd/audio/audio.c): threads *)
(* give buffers to channels, the mixer thread mixes a piece (64 samples)   *)
(* of every channel into the half of the output buffer that the DMA does   *)
(* not play, and chains it to the other half.                              *)
(*                                                                         *)
(* What threads call is atomic (interrupts are suspended) and runs while   *)
(* the mixer, of priority 5, sleeps; the interrupts of the DMA and of the  *)
(* audio hardware come between any two steps of the mixer.  Lengths count  *)
(* pieces; samples, volumes and formats are left out.                      *)
(***************************************************************************)
EXTENDS Integers, FiniteSets

CONSTANTS
  Thread,     \* threads that play
  Chan,       \* the channels
  NoChan,     \* "waits for no channel"
  Mix,        \* the bit 0x20000000 of the event flag
  MaxLen      \* bounds the pieces of a buffer, channel by channel

ASSUME ConstantAssumption ==
  /\ MaxLen \in [Chan -> Nat \ {0}]
  /\ NoChan \notin Chan
  /\ Mix \notin Chan

First == "first"
Second == "second"
Half == {First, Second}
Off == "off"

VARIABLES
  sampleCount,  \* chan->sampleCount, 0 for a channel that is not reserved
  cur,          \* chan->curSampleCnt
  buf,          \* chan->buf is not NULL
  unk10,        \* chan->unk10: somebody waits to output
  started,      \* g_audio.flags & 1
  event,        \* bits of the event flag: Mix, and one for each channel
  mixer,        \* where the mixer thread stands
  flag,         \* its variable flag: the channels whose buffer has ended
  dst,          \* the half it writes, or Off
  dma,          \* the half the DMA plays
  inFirst,      \* dmaPtr[0]->uiSrcAddr lies in the first half
  chained,      \* hwBuf[6] and hwBuf[14]: the DMA goes on to the other half
  half,         \* what each half holds: silence, or samples heard or not yet
  glitch,       \* history: the DMA failed, or was faster than the mixer
  waits,        \* the channel each thread waits for in a blocking output
  passes        \* and whether the buffer it passed is not NULL

channels == <<sampleCount, cur, buf, unk10>>
hardware == <<dma, inFirst, chained, half, glitch>>
local == <<mixer, flag, dst>>
callers == <<waits, passes>>
vars == <<channels, started, event, local, hardware, callers>>

Init ==
  /\ sampleCount = [c \in Chan |-> 0]
  /\ cur = [c \in Chan |-> 0]
  /\ buf = [c \in Chan |-> FALSE]
  /\ unk10 = [c \in Chan |-> FALSE]
  /\ started = FALSE
  /\ event = {}
  /\ mixer = "wait"
  /\ flag = {}
  /\ dst = Off
  /\ dma = Off
  /\ inFirst = TRUE
  /\ chained = [h \in Half |-> FALSE]
  /\ half = [h \in Half |-> "silent"]
  /\ glitch = FALSE
  /\ waits = [t \in Thread |-> NoChan]
  /\ passes = [t \in Thread |-> FALSE]

-----------------------------------------------------------------------------
\* updateAudioBuf(0) with the bits e set before: the DMA starts over with the
\* first half and the mixer is to fill the second.
UpdateAudioBuf(e) ==
  /\ started' = TRUE
  /\ event' = e \union {Mix}
  /\ dma' = First
  /\ inFirst' = TRUE

\* A channel gets a buffer; if nothing plays, the output starts with silence.
StartSilent(e) ==
  /\ UpdateAudioBuf(e)
  /\ half' = [h \in Half |-> "silent"]
  /\ glitch' = FALSE
  /\ UNCHANGED chained

Give(c, b, len, e) ==
  /\ cur' = [cur EXCEPT ![c] = len]
  /\ buf' = [buf EXCEPT ![c] = b]
  /\ IF b /\ ~started
     THEN StartSilent(e)
     ELSE event' = e /\ UNCHANGED <<started, hardware>>

\* A thread runs: the mixer waits and has no reason to wake.
Calls == mixer = "wait" /\ Mix \notin event

\* audioOutput, with its two refusals.
Reserved(c) == sampleCount[c] # 0
OutputBusy(c) == Reserved(c) /\ buf[c]
audioOutput(c, b, e) == Reserved(c) /\ ~buf[c] /\ Give(c, b, sampleCount[c], e)

\* sceAudioOutput.  Threads do not take turns from one that waits.
Output(t, c, b) ==
  /\ Calls
  /\ waits[t] = NoChan
  /\ ~unk10[c]
  /\ audioOutput(c, b, event)
  /\ UNCHANGED <<sampleCount, unk10, local, callers>>

\* sceAudioOutputBlocking on a busy channel: one thread may wait for its end.
MayWait(c) == OutputBusy(c) /\ ~unk10[c]

OutputWait(t, c, b) ==
  /\ Calls
  /\ waits[t] = NoChan
  /\ MayWait(c)
  /\ unk10' = [unk10 EXCEPT ![c] = TRUE]
  /\ waits' = [waits EXCEPT ![t] = c]
  /\ passes' = [passes EXCEPT ![t] = b]
  /\ UNCHANGED <<sampleCount, cur, buf, started, event, local, hardware>>

\* Mutant: the wait clears all bits (0x10) and not those of its pattern (0x20).
ClearedAll(c) == {}
Cleared(c) == event \ {c}

\* The wait ends, with the bit cleared; the output is tried again.
OutputAgain(t, c) ==
  /\ Calls
  /\ waits[t] = c
  /\ c \in event
  /\ IF OutputBusy(c)
     THEN /\ event' = Cleared(c)
          /\ UNCHANGED <<channels, started, hardware, callers>>
     ELSE /\ audioOutput(c, passes[t], Cleared(c))
          /\ unk10' = [unk10 EXCEPT ![c] = FALSE]
          /\ waits' = [waits EXCEPT ![t] = NoChan]
          /\ passes' = [passes EXCEPT ![t] = FALSE]
          /\ UNCHANGED sampleCount
  /\ UNCHANGED local

-----------------------------------------------------------------------------
\* A channel is chosen by its number, or by the driver (number -1).
Chosen(c, byNumber) == sampleCount[c] = 0 /\ (byNumber \/ ~buf[c])

ChReserve(t, c, byNumber, len) ==
  /\ Calls
  /\ waits[t] = NoChan
  /\ Chosen(c, byNumber)
  /\ sampleCount' = [sampleCount EXCEPT ![c] = len]
  /\ UNCHANGED <<cur, buf, unk10, started, event, local, hardware, callers>>

OneshotOutput(t, c, byNumber, len, b) ==
  /\ Calls
  /\ waits[t] = NoChan
  /\ Chosen(c, byNumber)
  /\ Give(c, b, len, event)
  /\ UNCHANGED <<sampleCount, unk10, local, callers>>

\* sceAudioChRelease and sceAudioSetChannelDataLen refuse a channel that
\* somebody waits for, but not one that plays.
MayResizeAlways(c) == Reserved(c)
MayResize(c) == Reserved(c) /\ ~unk10[c]

Resize(t, c, len) ==
  /\ Calls
  /\ waits[t] = NoChan
  /\ MayResize(c)
  /\ sampleCount' = [sampleCount EXCEPT ![c] = len]
  /\ UNCHANGED <<cur, buf, unk10, started, event, local, hardware, callers>>

ChRelease(t, c) == Resize(t, c, 0)
SetChannelDataLen(t, c, len) == Resize(t, c, len)

-----------------------------------------------------------------------------
\* audioMixerThread: wake, take a piece of every channel that plays.
EndedLate == {c \in Chan : buf[c] /\ cur[c] = 0}
Ended == {c \in Chan : buf[c] /\ cur[c] = 1}

MixerScan ==
  /\ mixer = "wait"
  /\ Mix \in event
  /\ event' = event \ {Mix}
  /\ cur' = [c \in Chan |-> IF buf[c] THEN cur[c] - 1 ELSE cur[c]]
  /\ buf' = [c \in Chan |-> buf[c] /\ c \notin Ended]
  /\ flag' = Ended
  /\ mixer' = IF \E c \in Chan : buf[c] THEN "choose" ELSE "idle"
  /\ UNCHANGED <<sampleCount, unk10, started, dst, hardware, callers>>

\* Nothing to play: the next output starts the hardware again.
MixerIdle ==
  /\ mixer = "idle"
  /\ mixer' = "wait"
  /\ started' = FALSE
  /\ UNCHANGED <<channels, event, flag, dst, hardware, callers>>

OtherHalfSwapped == IF inFirst THEN First ELSE Second
OtherHalf == IF inFirst THEN Second ELSE First

MixerChoose ==
  /\ mixer = "choose"
  /\ mixer' = "write"
  /\ dst' = OtherHalf
  /\ UNCHANGED <<channels, started, event, flag, hardware, callers>>

MixerWrite ==
  /\ mixer = "write"
  /\ mixer' = "chain"
  /\ half' = [half EXCEPT ![dst] = "fresh"]
  /\ UNCHANGED <<channels, started, event, flag, dst, dma, inFirst, chained, glitch, callers>>

\* The half just written ends the chain, and follows the other one.
ChainedSwapped == [h \in Half |-> h = dst]
Chained == [h \in Half |-> h # dst]

MixerChain ==
  /\ mixer = "chain"
  /\ mixer' = "start"
  /\ chained' = Chained
  /\ UNCHANGED <<channels, started, event, flag, dst, dma, inFirst, half, glitch, callers>>

\* The hardware has stopped: start it with the half just written.
MixerStart ==
  /\ mixer = "start"
  /\ mixer' = "signal"
  /\ dst' = Off
  /\ IF started
     THEN UNCHANGED <<started, event, hardware>>
     ELSE /\ UpdateAudioBuf(event)
          /\ chained' = [h \in Half |-> FALSE]
          /\ UNCHANGED <<half, glitch>>
  /\ UNCHANGED <<channels, flag, callers>>

MixerSignal ==
  /\ mixer = "signal"
  /\ mixer' = "wait"
  /\ event' = event \union flag
  /\ flag' = {}
  /\ UNCHANGED <<channels, started, dst, hardware, callers>>

Mixer ==
  \/ MixerScan \/ MixerIdle \/ MixerChoose \/ MixerWrite
  \/ MixerChain \/ MixerStart \/ MixerSignal

-----------------------------------------------------------------------------
\* The DMA reaches the end of a half and calls audioOutputDmaCb; the chain goes
\* on, or ends.
Late == mixer # "wait" \/ Mix \in event

HalfEnds ==
  /\ dma \in Half
  /\ event' = event \union {Mix}
  /\ dma' = IF chained[dma] THEN CHOOSE h \in Half : h # dma ELSE Off
  /\ inFirst' = (chained[dma] /\ dma = Second)
  /\ half' = [half EXCEPT ![dma] = IF @ = "silent" THEN @ ELSE "heard"]
  /\ glitch' = (glitch \/ Late)
  /\ UNCHANGED <<channels, started, local, chained, callers>>

\* It reports an error instead: audioOutputDmaCb stops the output.
DmaError ==
  /\ dma \in Half
  /\ event' = event \union {Mix}
  /\ started' = FALSE
  /\ dma' = Off
  /\ glitch' = TRUE
  /\ UNCHANGED <<channels, local, inFirst, chained, half, callers>>

\* audioIntrHandler: the hardware has run out of samples; hwAttr << 29.
\* Mutant: shifted by 28.
HwAttrBitsShifted == {}
HwAttrBits == {Mix}

Underrun ==
  /\ dma = Off
  /\ started
  /\ started' = FALSE
  /\ event' = event \union HwAttrBits
  /\ inFirst' = FALSE
  /\ UNCHANGED <<channels, local, dma, chained, half, glitch, callers>>

-----------------------------------------------------------------------------
Length(c) == 1..MaxLen[c]

Next ==
  \/ \E t \in Thread, c \in Chan :
       \/ \E b \in BOOLEAN : Output(t, c, b) \/ OutputWait(t, c, b)
       \/ OutputAgain(t, c)
       \/ \E len \in Length(c), byNumber \in BOOLEAN :
            \/ ChReserve(t, c, byNumber, len)
            \/ \E b \in BOOLEAN : OneshotOutput(t, c, byNumber, len, b)
       \/ ChRelease(t, c)
       \/ \E len \in Length(c) : SetChannelDataLen(t, c, len)
  \/ Mixer
  \/ HalfEnds \/ DmaError \/ Underrun

Spec == Init /\ [][Next]_vars

\* The mixer and the hardware go on, and a thread that can run again and again,
\* between two rounds of the mixer, does.
Fairness ==
  /\ WF_vars(Mixer)
  /\ WF_vars(HalfEnds)
  /\ WF_vars(Underrun)
  /\ \A t \in Thread : SF_vars(\E c \in Chan : OutputAgain(t, c))

FairSpec == Spec /\ Fairness

-----------------------------------------------------------------------------
\* Every variable keeps its type, and a buffer in a channel has pieces left: the
\* mixer (line 221) never counts below zero.
TypeOK ==
  /\ sampleCount \in [Chan -> Nat]
  /\ cur \in [Chan -> Nat]
  /\ buf \in [Chan -> BOOLEAN]
  /\ unk10 \in [Chan -> BOOLEAN]
  /\ started \in BOOLEAN
  /\ event \in SUBSET (Chan \union {Mix})
  /\ mixer \in {"wait", "idle", "choose", "write", "chain", "start", "signal"}
  /\ flag \in SUBSET Chan
  /\ dst \in Half \union {Off}
  /\ dma \in Half \union {Off}
  /\ inFirst \in BOOLEAN
  /\ chained \in [Half -> BOOLEAN]
  /\ half \in [Half -> {"silent", "fresh", "heard"}]
  /\ glitch \in BOOLEAN
  /\ waits \in [Thread -> Chan \union {NoChan}]
  /\ passes \in [Thread -> BOOLEAN]
  /\ \A c \in Chan : buf[c] => cur[c] > 0

\* A buffer given to a channel is never left in it with nothing to come: the mixer
\* is awake or has been woken, the DMA will wake it, or the hardware will report
\* that it has run out.
NoStall ==
  (\E c \in Chan : buf[c]) =>
     \/ Mix \in event
     \/ mixer \in {"choose", "write", "chain", "start"}
     \/ dma \in Half
     \/ started

\* chan->unk10 is set while one thread, and no other, waits for the channel, and
\* meanwhile the channel stays reserved: the output it repeats is not refused.
WaiterKeepsChannel ==
  \A c \in Chan :
    LET waiters == {t \in Thread : waits[t] = c}
    IN  /\ unk10[c] => \E t \in waiters : waiters = {t}
        /\ ~unk10[c] => waiters = {}
        /\ unk10[c] => sampleCount[c] # 0

\* When the buffer that a thread waits for has been mixed, the bit of its channel
\* is set, or the mixer is about to set it.
NoLostWakeup ==
  \A c \in Chan : unk10[c] /\ ~buf[c] => c \in event \union flag

\* The DMA never plays again what has been heard, unless it failed or was faster
\* than the mixer since the output started.
HeardOnce == dma \in Half /\ half[dma] = "heard" => glitch

\* What has been mixed is neither erased nor overwritten before it is heard, but
\* for such a glitch, and for an output that starts the hardware again (line 819)
\* while it still plays the end of the one before.
MixedIsHeard ==
  [][\A h \in Half :
       half[h] = "fresh" =>
          \/ half'[h] # "silent" /\ ~(mixer = "write" /\ mixer' = "chain" /\ dst = h)
          \/ ~started
          \/ glitch]_vars

\* A thread in a blocking output returns from it.
BlockingReturns == \A t \in Thread : waits[t] # NoChan ~> waits[t] = NoChan
=============================================================================
