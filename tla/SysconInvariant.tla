---------------------------- MODULE SysconInvariant ----------------------------
(***************************************************************************)
(* The inductive invariant of SysconQueue.  It assumes that callbacks do   *)
(* not re-queue their packet last (result 2), which loses the packet when  *)
(* its list is empty.                                                      *)
(***************************************************************************)
EXTENDS SysconQueue

\* While the handler runs, nothing is on the bus; the packet whose callback
\* runs is in no list.  GET_STATUS2 is only ever queued to be sent at once.
HandlerInv ==
  /\ intr # "none" => curPacket = NULL /\ local.packet \in Packet
  /\ intr = "callback" =>
       /\ local.packet \in Async
       /\ pc[local.packet] \in {"accepted", "waiting"}
       /\ \A l \in Lists : local.packet \notin Reach(l)
  /\ intr # "none" /\ local.enable => ~pollingMode
  /\ \A l \in Lists : GetStatus2Cmd \in Reach(l) => curPacket = GetStatus2Cmd

\* Outside "on" the queue holds at most the packet of the one polling client,
\* and that packet is on the bus unless the handler is about to put it there.
PolledInv ==
  /\ pollingMode <=> power \in {"polling", "resumed"}
  /\ power # "on" => intr # "callback"
  /\ power = "subIntrOff" => intr = "none"
  /\ \A p \in Client : pc[p] = "polling" =>
       /\ pollingMode
       /\ p \notin Async
       /\ "done" \notin status[p] => head[ListOf[p]] = p
  /\ \A p, q \in Client : pc[p] = "polling" /\ pc[q] = "polling" => p = q
  /\ power # "on" =>
       \/ QueueEmpty /\ curPacket = NULL
       \/ \E p \in Client :
            /\ pc[p] = "polling"
            /\ \A l \in Lists : head[l] = IF l = ListOf[p] THEN p ELSE NULL
            /\ next[p] = NULL
            /\ curPacket = p \/ intr = "select"

\* A client's semaphore, from the sceSysconCmdSync that chose it to its end.
SemaInv ==
  /\ \A p \in Packet : sema[p] \in {NULL, p, SharedSema}
  /\ sema[GetStatus2Cmd] = NULL
  /\ \A p \in Client :
       /\ pc[p] \in {"waiting", "woken"} => sema[p] # NULL
       /\ pc[p] \in {"waiting", "woken"} /\ sema[p] = SharedSema => ~sharedFree
       /\ pc[p] \in {"accepted", "polling"} => sema[p] = NULL
  /\ \A p, q \in Client :
       /\ pc[p] \in {"waiting", "woken"} /\ pc[q] \in {"waiting", "woken"}
       /\ sema[p] = sema[q]
       => p = q

\* A token is there, or about to be, only for a waiting client whose packet is
\* done and cannot be re-queued.
TokenInv ==
  /\ \A s \in SemaId : count[s] = 1 =>
       \E p \in Client :
         /\ pc[p] = "waiting" /\ sema[p] = s /\ "done" \in status[p]
         /\ intr = "callback" => p # local.packet
  /\ \A p \in Client : pc[p] = "woken" => "done" \in status[p]
  /\ intr # "none" /\ local.semaId # NULL =>
       /\ local.packet \in Client
       /\ pc[local.packet] = "waiting"
       /\ sema[local.packet] = local.semaId
       /\ "done" \in status[local.packet]

IInv ==
  /\ TypeOK
  /\ WellLinked
  /\ OneInFlight
  /\ LinkedIsOutstanding
  /\ HandlerInv
  /\ PolledInv
  /\ SemaInv
  /\ TokenInv

(* What the properties below also need.                                    *)

\* No other client's packet shares the list of an urgent one.  Without it, an
\* urgent packet finds an idle head and is linked in front of it in vain.
LoneUrgent ==
  \A p \in Urgent, q \in Client : ListOf[q] = ListOf[p] => q = p

\* No other packet that may be retried shares list 0 with an urgent one.
\* Without it, an urgent packet is put between GET_STATUS2 and the retry.
UrgentApart ==
  \A p \in Urgent, q \in Retryable : ListOf[p] = 0 /\ ListOf[q] = 0 => p = q

\* The bus is started by whoever finds work, retries included.
Eager == NoStart = {} /\ RetryModes \subseteq {TRUE}

IdleInv ==
  /\ TypeOK
  /\ retryMode
  /\ NoIdleWork

\* A list to whose head a callback may return its packet has no retry.
RetryInv ==
  /\ RetryKeepsHead
  /\ \A p \in Packet : "retry" \in status[p] => p \in Retryable
  /\ intr = "callback" =>
       \A p \in Reach(ListOf[local.packet]) : "retry" \notin status[p]

\* Once the reboot handler found the queue empty, only late clients are
\* outstanding or can be so again.
RebootInv ==
  /\ rebooted <=> reboot # "none"
  /\ reboot # "none" => \A p \in Client : pc[p] = "checked" => p \in late
  /\ reboot \in {"ending", "ended"} =>
       /\ \A p \in Client :
            pc[p] \in Outstanding /\ "done" \notin status[p] => p \in late
       /\ intr = "callback" => local.packet \in late
=============================================================================
