----------------------------- MODULE SysconQueue -----------------------------
(***************************************************************************)
(* The packet queue of the syscon driver (src/syscon/syscon.c): four       *)
(* singly linked lists of packets threaded through packet->next, one       *)
(* packet on the serial bus at a time, the GPIO interrupt that ends it and *)
(* starts the next, the clients that submit, synchronise on and cancel     *)
(* packets, the semaphores they sleep on, suspend / resume (polling mode)  *)
(* and reboot.                                                             *)
(*                                                                         *)
(* The lists are modelled with their pointers: the code is correct only if *)
(* packetList[off], packetList[off + 4] and the next fields agree.         *)
(*                                                                         *)
(* The CPU is a single core.  A section run with interrupts suspended is   *)
(* one action.  The interrupt handler runs a client callback in its        *)
(* middle; it is modelled in up to three steps (GpioIntr, Callback...,     *)
(* SelectNext) during which no other action is enabled.                    *)
(***************************************************************************)
EXTENDS Integers, FiniteSets, PacketList

CONSTANTS
  GetStatus2Cmd,    \* g_GetStatus2Cmd, the driver's own static packet
  ListOf,           \* the list a packet's command selects, 0..3
  Retryable,        \* packets with command >= 32 and without flag 0x10
  Urgent,           \* packets their client submits with flag 1
  NoStart,          \* packets their client submits with flag 2
  Async,            \* packets submitted by sceSysconCmdExecAsync, with a callback
  CallbackResults,  \* what client callbacks may return
  RetryModes,       \* what sceSysconSetAffirmativeRertyMode is called with
  NewModel,         \* g_Syscon.newModel
  Suspends,         \* whether the machine is suspended in this instance
  Reboots,          \* whether the machine is rebooted in this instance
  SharedSema        \* "SceSysconSync0", created by sceSysconInit

Client == Packet \ {GetStatus2Cmd}
Lists == 0..3

ASSUME PacketAssumption ==
  /\ GetStatus2Cmd \in Packet
  /\ NULL # SharedSema
  /\ SharedSema \notin Packet
ASSUME CommandAssumption ==
  /\ ListOf \in [Packet -> Lists]
  /\ ListOf[GetStatus2Cmd] = 0
  /\ Retryable \subseteq Client
  /\ Urgent \subseteq Client
  /\ NoStart \subseteq Client
  /\ Async \subseteq Client
ASSUME ModeAssumption ==
  /\ CallbackResults \subseteq 0..2
  /\ RetryModes \subseteq BOOLEAN
  /\ NewModel \in BOOLEAN
  /\ Suspends \in BOOLEAN
  /\ Reboots \in BOOLEAN

VARIABLES
  head,        \* g_Syscon.packetList[0..3]
  tail,        \* g_Syscon.packetList[4..7]
  next,        \* packet->next
  status,      \* packet->status: "started" 0x20000, "retry" 0x40000, "done" 0x80000
  sema,        \* packet->semaId
  curPacket,   \* g_Syscon.curPacket
  packetOff,   \* g_Syscon.packetOff
  retryMode,   \* g_Syscon.retryMode
  pollingMode, \* g_Syscon.pollingMode
  rebooted,    \* g_Syscon.rebooted
  sharedFree,  \* g_Syscon.semaId # 0
  count,       \* semaphore counts; a client's own semaphore has its packet's name
  intr,        \* where _sceSysconGpioIntr stands: "none", "callback", "select"
  local,       \* its locals packet, unkEnable, unk0 and semaId
  pc,          \* where the client of each packet stands
  power,       \* the system event phase reached by the power manager (external)
  reboot,      \* where _sceSysconModuleRebootBefore stands
  late         \* history: clients past the rebooted check when the reboot began

queueVars == <<head, tail, next>>
modeVars == <<retryMode, pollingMode, rebooted>>
semaVars == <<sema, sharedFree, count>>
sysVars == <<power, reboot, late>>
vars == <<head, tail, next, status, sema, curPacket, packetOff, retryMode,
          pollingMode, rebooted, sharedFree, count, intr, local, pc, power,
          reboot, late>>

SemaId == Client \cup {SharedSema}

\* A client is between submitting its packet and learning that it is done.
Outstanding == {"accepted", "waiting", "woken", "polling"}

NoLocal == [packet |-> NULL, enable |-> FALSE, unk0 |-> 0, semaId |-> NULL]

TypeOK ==
  /\ head \in [Lists -> Link]
  /\ tail \in [Lists -> Link]
  /\ next \in [Packet -> Link]
  /\ status \in [Packet -> SUBSET {"started", "retry", "done"}]
  /\ sema \in [Packet -> SemaId \cup {NULL}]
  /\ curPacket \in Link
  /\ packetOff \in 0..2
  /\ retryMode \in BOOLEAN
  /\ pollingMode \in BOOLEAN
  /\ rebooted \in BOOLEAN
  /\ sharedFree \in BOOLEAN
  /\ count \in [SemaId -> 0..1]
  /\ intr \in {"none", "callback", "select"}
  /\ local \in [packet : Link, enable : BOOLEAN, unk0 : 0..2,
                semaId : SemaId \cup {NULL}]
  /\ pc \in [Client -> {"idle", "checked"} \cup Outstanding]
  /\ power \in {"on", "subIntrOff", "polling", "resumed"}
  /\ reboot \in {"none", "draining", "ending", "ended"}
  /\ late \in SUBSET Client

\* The state sceSysconInit leaves behind, all of its own packets ended.
Init ==
  /\ head = [l \in Lists |-> NULL]
  /\ tail = [l \in Lists |-> NULL]
  /\ next = [p \in Packet |-> NULL]
  /\ status = [p \in Packet |-> {}]
  /\ sema = [p \in Packet |-> NULL]
  /\ curPacket = NULL
  /\ packetOff = 0
  /\ retryMode = TRUE
  /\ pollingMode = FALSE
  /\ rebooted = FALSE
  /\ sharedFree = TRUE
  /\ count = [s \in SemaId |-> 0]
  /\ intr = "none"
  /\ local = NoLocal
  /\ pc = [p \in Client |-> "idle"]
  /\ power = "on"
  /\ reboot = "none"
  /\ late = {}

-----------------------------------------------------------------------------
(* The linked lists.                                                       *)

\* The packets a walk from packetList[l] meets.
Reach(l) == ReachFrom(head[l], next)

QueueEmpty == \A l \in Lists : head[l] = NULL

\* The guard of the "insert second" branch: ((cur->status >> 17) & 3) != 0.
HeadBusy(l) == status[head[l]] \cap {"started", "retry"} # {}

InsertSecond(p) ==
  head[ListOf[p]] # NULL /\ p \in Urgent /\ HeadBusy(ListOf[p])
InsertLast(p) == head[ListOf[p]] # NULL /\ p \notin Urgent

\* The lists after sceSysconCmdExecAsync has linked p.
EnqueuedHead(p) ==
  IF head[ListOf[p]] = NULL THEN [head EXCEPT ![ListOf[p]] = p] ELSE head

EnqueuedTail(p) ==
  IF \/ head[ListOf[p]] = NULL
     \/ InsertLast(p)
     \/ InsertSecond(p) /\ next[head[ListOf[p]]] = NULL
  THEN [tail EXCEPT ![ListOf[p]] = p]
  ELSE tail

EnqueuedNext(p) ==
  LET h == head[ListOf[p]]
  IN  CASE h = NULL        -> [next EXCEPT ![p] = NULL]
        [] InsertLast(p)   -> [next EXCEPT ![p] = NULL, ![tail[ListOf[p]]] = p]
        [] InsertSecond(p) -> [next EXCEPT ![p] = next[h], ![h] = p]
        [] OTHER           -> [next EXCEPT ![p] = h]

\* The packet _sceSysconPacketStart is called with becomes current.
StartPacket(p, st) ==
  /\ curPacket' = IF p = NULL THEN curPacket ELSE p
  /\ status' = IF p = NULL THEN st ELSE [st EXCEPT ![p] = @ \cup {"started"}]

\* Flag 2 keeps a submission from starting its own packet.
UnlessNoStart(q, p) == IF q = p /\ p \in NoStart THEN NULL ELSE q

\* A running handler will start the next packet itself.
BusBusyButHandler == curPacket # NULL
BusBusy == curPacket # NULL \/ intr # "none"

\* The packet a submission of p puts on an idle bus, from the updated heads h.
SubmitStarts(p, h) ==
  LET new == UnlessNoStart(h[0], p)
  IN  IF ListOf[p] # 0 /\ (new = NULL \/ p \in Urgent)
      THEN UnlessNoStart(h[ListOf[p]], p)
      ELSE new

\* A new submission forgets the semaphore of the last one.
ForgottenSemaNever(p) == sema
ForgottenSema(p) == [sema EXCEPT ![p] = NULL]

\* The critical section of sceSysconCmdExecAsync.
Enqueue(p) ==
  /\ head' = EnqueuedHead(p)
  /\ tail' = EnqueuedTail(p)
  /\ next' = EnqueuedNext(p)
  /\ sema' = ForgottenSema(p)
  /\ LET new == IF pollingMode THEN p
                ELSE IF BusBusy THEN NULL
                ELSE SubmitStarts(p, EnqueuedHead(p))
     IN  StartPacket(new, [status EXCEPT ![p] = {}])

-----------------------------------------------------------------------------
(* Clients.  A client action needs the CPU with interrupts enabled: no     *)
(* handler running and the machine not in the middle of a suspend.         *)

Schedulable == intr = "none" /\ power = "on"

RefusesNever == FALSE
Refuses == rebooted

\* sceSysconCmdExec / sceSysconCmdExecAsync up to the rebooted check, before
\* interrupts are suspended.  A client submits a packet only when it is not
\* outstanding.
CheckRebooted(p) ==
  /\ Schedulable
  /\ pc[p] = "idle"
  /\ ~Refuses
  /\ pc' = [pc EXCEPT ![p] = "checked"]
  /\ UNCHANGED <<queueVars, status, semaVars, curPacket, packetOff, modeVars,
                 intr, local, sysVars>>

\* The rest of sceSysconCmdExecAsync.
CmdExecAsync(p) ==
  /\ Schedulable
  /\ pc[p] = "checked"
  /\ Enqueue(p)
  /\ pc' = [pc EXCEPT ![p] = "accepted"]
  /\ UNCHANGED <<sharedFree, count, packetOff, modeVars, intr, local, sysVars>>

\* sceSysconCmdSync(p, 0): return at once, or go to sleep on a semaphore.
CmdSyncWait(p) ==
  /\ Schedulable
  /\ pc[p] = "accepted"
  /\ IF "done" \in status[p]
     THEN /\ pc' = [pc EXCEPT ![p] = "idle"]
          /\ UNCHANGED semaVars
     ELSE /\ pc' = [pc EXCEPT ![p] = "waiting"]
          /\ sema' = [sema EXCEPT ![p] = IF sharedFree THEN SharedSema ELSE p]
          /\ sharedFree' = FALSE
          /\ UNCHANGED count
  /\ UNCHANGED <<queueVars, status, curPacket, packetOff, modeVars, intr,
                 local, sysVars>>

\* sceKernelWaitSema returns.
CmdSyncWake(p) ==
  /\ Schedulable
  /\ pc[p] = "waiting"
  /\ count[sema[p]] = 1
  /\ count' = [count EXCEPT ![sema[p]] = 0]
  /\ pc' = [pc EXCEPT ![p] = "woken"]
  /\ UNCHANGED <<queueVars, status, sema, sharedFree, curPacket, packetOff,
                 modeVars, intr, local, sysVars>>

\* The woken client gives the shared semaphore back or deletes its own.
CmdSyncRelease(p) ==
  /\ Schedulable
  /\ pc[p] = "woken"
  /\ sharedFree' = (sharedFree \/ sema[p] = SharedSema)
  /\ pc' = [pc EXCEPT ![p] = "idle"]
  /\ UNCHANGED <<queueVars, status, sema, count, curPacket, packetOff,
                 modeVars, intr, local, sysVars>>

\* An asynchronous client learns that its packet is done: from its callback's
\* side effects or from sceSysconCmdSync(p, 1) = 0.
CmdSyncPoll(p) ==
  /\ Schedulable
  /\ pc[p] = "accepted"
  /\ p \in Async
  /\ "done" \in status[p]
  /\ pc' = [pc EXCEPT ![p] = "idle"]
  /\ UNCHANGED <<queueVars, status, semaVars, curPacket, packetOff, modeVars,
                 intr, local, sysVars>>

\* The packet whose next field points to p in p's list.
Previous(p) == CHOOSE q \in Reach(ListOf[p]) : next[q] = p

\* The lists once p is unlinked; prev is NULL when p heads its list.
CancelledHead(p, prev) ==
  IF prev = NULL THEN [head EXCEPT ![ListOf[p]] = next[p]] ELSE head

CancelledNextHeadOnly(p, prev) == next
CancelledNext(p, prev) ==
  IF prev = NULL THEN next ELSE [next EXCEPT ![prev] = next[p]]

CancelledTailStale(p, prev) == tail
CancelledTail(p, prev) ==
  IF next[p] = NULL THEN [tail EXCEPT ![ListOf[p]] = prev] ELSE tail

MayCancel(p) == "started" \notin status[p]

\* sceSysconCmdCancel, the case that returns 0.  NOT_FOUND and BUSY change
\* nothing.  Only an asynchronous client that is not waiting cancels.
CmdCancel(p) ==
  /\ Schedulable
  /\ p \in Async
  /\ pc[p] = "accepted"
  /\ p \in Reach(ListOf[p])
  /\ MayCancel(p)
  /\ LET prev == IF head[ListOf[p]] = p THEN NULL ELSE Previous(p)
     IN  /\ head' = CancelledHead(p, prev)
         /\ next' = CancelledNext(p, prev)
         /\ tail' = CancelledTail(p, prev)
  /\ pc' = [pc EXCEPT ![p] = "idle"]
  /\ UNCHANGED <<status, semaVars, curPacket, packetOff, modeVars, intr, local,
                 sysVars>>

\* sceSysconSetAffirmativeRertyMode.
SetRetryMode(m) ==
  /\ Schedulable
  /\ retryMode' = m
  /\ UNCHANGED <<queueVars, status, semaVars, curPacket, packetOff, pollingMode,
                 rebooted, intr, local, pc, sysVars>>

-----------------------------------------------------------------------------
(* _sceSysconGpioIntr.                                                     *)

\* The response asks for the command to be sent again.
Retries(p, again) == again /\ p \in Retryable

\* An ended packet that is not retried leaves its list: packetList[off] =
\* packet->next, and the tail is cleared with the last packet.
DequeuedHeadCleared(p) == [head EXCEPT ![ListOf[p]] = NULL]
DequeuedHead(p) == [head EXCEPT ![ListOf[p]] = next[p]]

DequeuedStatusRetry(p) == [status EXCEPT ![p] = (@ \ {"started"}) \cup {"done"}]
DequeuedStatus(p) ==
  [status EXCEPT ![p] = (@ \ {"started", "retry"}) \cup {"done"}]

Dequeue(p) ==
  /\ head' = DequeuedHead(p)
  /\ tail' = IF next[p] = NULL THEN [tail EXCEPT ![ListOf[p]] = NULL] ELSE tail
  /\ next' = [next EXCEPT ![p] = NULL]
  /\ status' = DequeuedStatus(p)

\* The current packet has ended: take it off the bus, then keep it at its
\* list's head to be retried, or dequeue it and run its callback.  enable is
\* unkEnable: the power status asks for a GET_STATUS2 command.
EndCurrent(again, enable) ==
  LET p == curPacket
  IN  /\ curPacket' = NULL
      /\ IF Retries(p, again)
         THEN /\ status' = [status EXCEPT ![p] = (@ \ {"started"}) \cup {"retry"}]
              /\ intr' = "select"
              /\ local' = [packet |-> p, enable |-> enable, unk0 |-> 2,
                           semaId |-> NULL]
              /\ UNCHANGED queueVars
         ELSE /\ Dequeue(p)
              /\ intr' = IF p \in Async THEN "callback" ELSE "select"
              /\ local' = [packet |-> p, enable |-> enable, unk0 |-> 0,
                           semaId |-> sema[p]]
      /\ UNCHANGED <<semaVars, packetOff, modeVars, pc, sysVars>>

\* When the driver may want the extra GET_STATUS2 command.
WantsStatus2 == NewModel /\ ~pollingMode /\ curPacket # GetStatus2Cmd

\* The sub-interrupt, or the loop of a polling sceSysconCmdSync, enters the
\* handler; the hardware answers only a packet that was started.
GpioIntr(again, enable) ==
  /\ intr = "none"
  /\ curPacket # NULL
  /\ \/ power = "on" /\ reboot # "ended"
     \/ \E p \in Client : pc[p] = "polling" /\ "done" \notin status[p]
  /\ enable => WantsStatus2
  /\ EndCurrent(again, enable)

\* The callback submits another asynchronous packet (as ctrl's does); the
\* handler holds inGpioIntr, so nothing is started.
CallbackSubmit(q) ==
  /\ intr = "callback"
  /\ q \in Async \ {local.packet}
  /\ pc[q] = "idle"
  /\ ~Refuses
  /\ Enqueue(q)
  /\ pc' = [pc EXCEPT ![q] = "accepted"]
  /\ UNCHANGED <<sharedFree, count, packetOff, modeVars, intr, local, sysVars>>

\* The callback returns 1: its packet goes back to the head of its list.
RequeueFirst(p) ==
  /\ head' = [head EXCEPT ![ListOf[p]] = p]
  /\ tail' = IF head[ListOf[p]] = NULL THEN [tail EXCEPT ![ListOf[p]] = p] ELSE tail
  /\ next' = [next EXCEPT ![p] = head[ListOf[p]]]

\* The callback returns 2: its packet goes behind the tail.  The head is not
\* set when the list is empty.
RequeueLast(p) ==
  LET t == tail[ListOf[p]]
  IN  /\ tail' = [tail EXCEPT ![ListOf[p]] = p]
      /\ next' = [q \in Packet |-> CASE q = p -> NULL
                                     [] q = t /\ q # p -> p
                                     [] OTHER -> next[q]]
      /\ UNCHANGED head

\* A re-queued packet is no longer done.
RequeuedStatusDone(p) == status
RequeuedStatus(p) == [status EXCEPT ![p] = @ \ {"done"}]

CallbackReturn(r) ==
  /\ intr = "callback"
  /\ LET p == local.packet
     IN  /\ \/ r = 0 /\ UNCHANGED queueVars
            \/ r = 1 /\ RequeueFirst(p)
            \/ r = 2 /\ RequeueLast(p)
         /\ status' = IF r = 0 THEN status ELSE RequeuedStatus(p)
  /\ local' = [local EXCEPT !.unk0 = r,
                            !.semaId = IF r = 0 THEN @ ELSE NULL]
  /\ intr' = "select"
  /\ UNCHANGED <<semaVars, curPacket, packetOff, modeVars, pc, sysVars>>

RotationListFixed(i) == i + 1

\* The list examined in iteration i of the round-robin over lists 1..3.
RotationList(i) ==
  LET n == packetOff + i IN IF n + 1 >= 4 THEN n - 2 ELSE n + 1

HeldBackAlways(p, early) == "retry" \in status[p] /\ early /\ ~pollingMode
HeldBackPolled(p, early) == "retry" \in status[p] /\ early /\ ~retryMode

\* A packet to retry whose delay has not elapsed is left waiting, unless
\* retries are affirmative or the bus is polled.
HeldBack(p, early) ==
  /\ "retry" \in status[p]
  /\ early
  /\ ~retryMode
  /\ ~pollingMode

\* The packet to run next, from the heads h: list 0 first, then the first
\* non-empty list of the round-robin.
NextPacket(h, early) ==
  IF h[0] # NULL THEN h[0]
  ELSE IF \A i \in 0..2 : h[RotationList(i)] = NULL THEN NULL
  ELSE LET i == CHOOSE j \in 0..2 :
                  /\ h[RotationList(j)] # NULL
                  /\ \A k \in 0..2 : k < j => h[RotationList(k)] = NULL
           cur == h[RotationList(i)]
       IN  IF HeldBack(cur, early) THEN NULL ELSE cur

AdvancedOffNoWrap(h) == IF h[0] # NULL THEN packetOff ELSE packetOff + 1

\* packetOff moves on whenever the round-robin was consulted.
AdvancedOff(h) ==
  IF h[0] # NULL THEN packetOff ELSE IF packetOff = 2 THEN 0 ELSE packetOff + 1

\* GET_STATUS2 is put in front of list 0, unless a callback returned 1.
AddsStatus2 == local.enable /\ local.unk0 # 1

SelectHead ==
  IF AddsStatus2 THEN [head EXCEPT ![0] = GetStatus2Cmd] ELSE head

\* sceKernelSignalSema on the semaphore of a client that waits.
Signalled == IF local.unk0 = 0 THEN local.semaId ELSE NULL

\* The end of the handler: queue GET_STATUS2 if wanted, start the next packet,
\* signal the ended packet's semaphore.
SelectNext(early) ==
  /\ intr = "select"
  /\ head' = SelectHead
  /\ next' = IF AddsStatus2 THEN [next EXCEPT ![GetStatus2Cmd] = head[0]] ELSE next
  /\ tail' = IF AddsStatus2 /\ head[0] = NULL
             THEN [tail EXCEPT ![0] = GetStatus2Cmd] ELSE tail
  /\ StartPacket(NextPacket(SelectHead, early), status)
  /\ packetOff' = AdvancedOff(SelectHead)
  /\ count' = IF Signalled = NULL THEN count ELSE [count EXCEPT ![Signalled] = 1]
  /\ intr' = "none"
  /\ local' = NoLocal
  /\ UNCHANGED <<sema, sharedFree, modeVars, pc, sysVars>>

-----------------------------------------------------------------------------
(* Suspend, resume and reboot.                                             *)

\* Event 0x4008 (suspend): the sub-interrupt is disabled.  The power manager
\* (external) gets here, with interrupts off, only when the answer to event
\* 0x402 still is that no packet is queued.
EventSuspend ==
  /\ Suspends
  /\ Schedulable
  /\ reboot = "none"
  /\ QueueEmpty /\ curPacket = NULL
  /\ power' = "subIntrOff"
  /\ UNCHANGED <<queueVars, status, semaVars, curPacket, packetOff, modeVars,
                 intr, local, pc, reboot, late>>

\* Event 0x400F: polling mode on.
EventPollingOn ==
  /\ power = "subIntrOff"
  /\ power' = "polling"
  /\ pollingMode' = TRUE
  /\ UNCHANGED <<queueVars, status, semaVars, curPacket, packetOff, retryMode,
                 rebooted, intr, local, pc, reboot, late>>

\* sceSysconCmdExec in polling mode, called by the code that suspends or
\* resumes the machine: submit, then poll the bus until done.
CmdExecPolled(p) ==
  /\ pollingMode
  /\ intr = "none"
  /\ p \notin Async
  /\ \A q \in Client : pc[q] # "polling"
  /\ pc[p] = "idle"
  /\ ~Refuses
  /\ Enqueue(p)
  /\ pc' = [pc EXCEPT ![p] = "polling"]
  /\ UNCHANGED <<sharedFree, count, packetOff, modeVars, intr, local, sysVars>>

CmdSyncPolled(p) ==
  /\ intr = "none"
  /\ pc[p] = "polling"
  /\ "done" \in status[p]
  /\ pc' = [pc EXCEPT ![p] = "idle"]
  /\ UNCHANGED <<queueVars, status, semaVars, curPacket, packetOff, modeVars,
                 intr, local, sysVars>>

\* Event 0x10008: sceSysconResume enables the sub-interrupt again.
EventResume ==
  /\ power = "polling"
  /\ intr = "none"
  /\ \A q \in Client : pc[q] # "polling"
  /\ power' = "resumed"
  /\ UNCHANGED <<queueVars, status, semaVars, curPacket, packetOff, modeVars,
                 intr, local, pc, reboot, late>>

\* Event 0x1000F: polling mode off, interrupts come back.
EventPollingOff ==
  /\ power = "resumed"
  /\ intr = "none"
  /\ \A q \in Client : pc[q] # "polling"
  /\ power' = "on"
  /\ pollingMode' = FALSE
  /\ UNCHANGED <<queueVars, status, semaVars, curPacket, packetOff, retryMode,
                 rebooted, intr, local, pc, reboot, late>>

\* _sceSysconModuleRebootBefore refuses new packets from here on ...
RebootBegin ==
  /\ Reboots
  /\ Schedulable
  /\ reboot = "none"
  /\ rebooted' = TRUE
  /\ reboot' = "draining"
  /\ late' = {p \in Client : pc[p] = "checked"}
  /\ UNCHANGED <<queueVars, status, semaVars, curPacket, packetOff, retryMode,
                 pollingMode, intr, local, pc, power>>

\* ... waits until sceSysconCmdSync(NULL, 1) = 0 ...
RebootDrained ==
  /\ Schedulable
  /\ reboot = "draining"
  /\ QueueEmpty
  /\ reboot' = "ending"
  /\ UNCHANGED <<queueVars, status, semaVars, curPacket, packetOff, modeVars,
                 intr, local, pc, power, late>>

\* ... and sceSysconEnd waits for the bus, then removes the sub-interrupt.
RebootEnd ==
  /\ Schedulable
  /\ reboot = "ending"
  /\ curPacket = NULL
  /\ reboot' = "ended"
  /\ UNCHANGED <<queueVars, status, semaVars, curPacket, packetOff, modeVars,
                 intr, local, pc, power, late>>

-----------------------------------------------------------------------------
ClientStep(p) ==
  \/ CheckRebooted(p)
  \/ CmdExecAsync(p)
  \/ CmdSyncWait(p)
  \/ CmdSyncWake(p)
  \/ CmdSyncRelease(p)
  \/ CmdSyncPoll(p)
  \/ CmdCancel(p)
  \/ CmdExecPolled(p)
  \/ CmdSyncPolled(p)
  \/ CallbackSubmit(p)

HandlerStep ==
  \/ \E again, enable \in BOOLEAN : GpioIntr(again, enable)
  \/ \E r \in CallbackResults : CallbackReturn(r)
  \/ \E early \in BOOLEAN : SelectNext(early)

SystemStep ==
  \/ \E m \in RetryModes : SetRetryMode(m)
  \/ EventSuspend
  \/ EventPollingOn
  \/ EventResume
  \/ EventPollingOff
  \/ RebootBegin
  \/ RebootDrained
  \/ RebootEnd

Next == (\E p \in Client : ClientStep(p)) \/ HandlerStep \/ SystemStep

Spec == Init /\ [][Next]_vars

(* What the environment and the kernel guarantee: a packet on the bus ends, *)
(* and does not ask to be sent again for ever; a callback returns, and does *)
(* not re-queue its packet for ever; the handler runs on; a thread that is  *)
(* runnable between interrupts is eventually scheduled.                     *)
EndsWell(p) == curPacket = p /\ \E enable \in BOOLEAN : GpioIntr(FALSE, enable)

CallbackReleases(p) == local.packet = p /\ CallbackReturn(0)

ThreadRuns(p) ==
  CmdExecAsync(p) \/ CmdSyncWait(p) \/ CmdSyncWake(p) \/ CmdSyncRelease(p)

Fairness ==
  /\ \A p \in Packet : SF_vars(EndsWell(p))
  /\ \A p \in Async : SF_vars(CallbackReleases(p))
  /\ WF_vars(\E early \in BOOLEAN : SelectNext(early))
  /\ \A p \in Client : SF_vars(ThreadRuns(p))
  /\ SF_vars(RebootDrained \/ RebootEnd)

FairSpec == Spec /\ Fairness

-----------------------------------------------------------------------------
(* Properties.                                                             *)

\* One packet is on the bus at a time: a packet is marked started exactly when
\* it is curPacket, and then it heads its own list, which is what lets the
\* interrupt handler dequeue it by writing packetList[off] = packet->next.
OneInFlight ==
  /\ \A p \in Packet : "started" \in status[p] <=> p = curPacket
  /\ curPacket # NULL => head[ListOf[curPacket]] = curPacket

\* The pointers agree: packetList[off], packetList[off + 4] and next form a
\* list without cycles, of packets whose command selects it.
WellLinked ==
  \A l \in Lists :
    /\ IsList(head[l], tail[l], next)
    /\ \A p \in Reach(l) : ListOf[p] = l

\* No list keeps a packet whose client has been told that it is done or
\* cancelled: such a packet is reused, or was on a stack frame that is gone
\* (_sceSysconCommonRead).
LinkedIsOutstanding ==
  \A l \in Lists : \A p \in Reach(l) \ {GetStatus2Cmd} :
    pc[p] \in {"accepted", "waiting", "polling"} /\ "done" \notin status[p]

\* A packet accepted for execution and not yet done is in its list: it can
\* still be started, found by a cancel, and seen by sceSysconCmdSync(NULL, 1).
AcceptedIsLinked ==
  \A p \in Client :
    pc[p] \in Outstanding /\ "done" \notin status[p] => p \in Reach(ListOf[p])

\* A packet to be retried still heads its list (GET_STATUS2 may come first):
\* only the short resend form of its command is transmitted, so no other
\* command of that list may run before it.
RetryKeepsHead ==
  \A l \in Lists : \A p \in Reach(l) :
    "retry" \in status[p] =>
      \/ head[l] = p
      \/ head[l] = GetStatus2Cmd /\ next[GetStatus2Cmd] = p

\* sceSysconCmdSync sleeps until its own packet is done: a semaphore token
\* exists only for the one client that waits on that semaphore, and that
\* client's packet is done when the token appears and when it wakes.
TokenForDoneWaiter ==
  /\ \A s \in SemaId : count[s] = 1 =>
       \E p \in Client :
         pc[p] = "waiting" /\ sema[p] = s /\ "done" \in status[p]
  /\ \A p \in Client : pc[p] = "woken" => "done" \in status[p]
  /\ \A p, q \in Client :
       /\ {pc[p], pc[q]} \subseteq {"waiting", "woken"}
       /\ sema[p] = sema[q]
       => p = q

\* With affirmative retries and no flag 2, the bus is never left idle while a
\* packet is queued: with nothing in flight, no interrupt will come to start
\* it.
NoIdleWork == intr = "none" /\ curPacket = NULL => QueueEmpty

\* Once the reboot handler has finished, the only packets still outstanding
\* are those of clients that had passed the rebooted check before the flag
\* was set.
EndedIsQuiet ==
  reboot = "ended" =>
    \A p \in Client :
      pc[p] \in Outstanding /\ "done" \notin status[p] => p \in late

\* Going to sleep never meets packets in flight, and leaving polling mode
\* leaves none behind: the queue is empty whenever no polling client drives it.
\* And where one does, its packet, or the retry of it, is on the bus until it is
\* done: the handler that sceSysconCmdSync calls dereferences curPacket.
PolledIsDrained ==
  intr = "none" =>
    /\ power # "on" => QueueEmpty \/ \E p \in Client : pc[p] = "polling" /\ p = curPacket
    /\ \A p \in Client : pc[p] = "polling" /\ "done" \notin status[p] => curPacket = p

\* Every client that passed the rebooted check gets its packet done and
\* returns, unless the reboot handler has removed the interrupt: the
\* round-robin over lists 1..3 starves none of them and no wakeup is lost.
Completion ==
  \A p \in Client : pc[p] = "checked" ~> pc[p] = "idle" \/ reboot = "ended"

\* The reboot handler does not wait for ever on a queue that never empties.
RebootCompletes == rebooted ~> reboot = "ended"

\* "0 if you want the function to return only when the packet queue is empty"
\* (include/syscon.h:239, of the noWait parameter of sceSysconCmdSync): when
\* a client returns from its wait, the queue is empty.
SyncReturnsWhenEmpty ==
  [][\A p \in Client :
       pc[p] = "woken" /\ pc'[p] = "idle" => QueueEmpty]_vars
=============================================================================
