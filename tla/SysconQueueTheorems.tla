-------------------------- MODULE SysconQueueTheorems --------------------------
(***************************************************************************)
(* Theorems about SysconQueue, for any set of packets, any assignment of   *)
(* commands to lists and any flags.                                        *)
(***************************************************************************)
EXTENDS SysconInvariant, PacketListTheorems

\* Writing a value of its type at any one place keeps a function's type.
LEMMA ExceptType ==
  ASSUME NEW S, NEW T, NEW f \in [S -> T], NEW x, NEW v \in T
  PROVE  [f EXCEPT ![x] = v] \in [S -> T]
  OBVIOUS

\* What a submission does to the variables it writes is of their types.
LEMMA EnqueueType ==
  ASSUME TypeOK, NEW p \in Client, Enqueue(p)
  PROVE  /\ head' \in [Lists -> Link]
         /\ tail' \in [Lists -> Link]
         /\ next' \in [Packet -> Link]
         /\ sema' \in [Packet -> SemaId \cup {NULL}]
         /\ curPacket' \in Link
         /\ status' \in [Packet -> SUBSET {"started", "retry", "done"}]
<1>1. p \in Packet /\ ListOf[p] \in Lists /\ 0 \in Lists
  BY CommandAssumption DEF Client, Lists
<1>2. head' \in [Lists -> Link] /\ tail' \in [Lists -> Link]
  BY <1>1 DEF TypeOK, Enqueue, EnqueuedHead, EnqueuedTail, Link
<1>3. next' \in [Packet -> Link]
  <2>1. CASE head[ListOf[p]] = NULL
    BY <1>1, <2>1 DEF TypeOK, Enqueue, EnqueuedNext, InsertLast, InsertSecond, Link
  <2>2. CASE InsertLast(p)
    BY <1>1, <2>2 DEF TypeOK, Enqueue, EnqueuedNext, InsertLast, InsertSecond, Link
  <2>3. CASE InsertSecond(p)
    BY <1>1, <2>3 DEF TypeOK, Enqueue, EnqueuedNext, InsertLast, InsertSecond, Link
  <2>4. CASE head[ListOf[p]] # NULL /\ ~InsertLast(p) /\ ~InsertSecond(p)
    BY <1>1, <2>4 DEF TypeOK, Enqueue, EnqueuedNext, Link
  <2> QED
    BY <2>1, <2>2, <2>3, <2>4
<1>4. sema' \in [Packet -> SemaId \cup {NULL}]
  BY <1>1 DEF TypeOK, Enqueue, ForgottenSema
<1>5. PICK new \in Link : StartPacket(new, [status EXCEPT ![p] = {}])
  <2>1. EnqueuedHead(p) \in [Lists -> Link]
    BY <1>1 DEF TypeOK, EnqueuedHead, Link
  <2>2. SubmitStarts(p, EnqueuedHead(p)) \in Link
    BY <1>1, <2>1 DEF SubmitStarts, UnlessNoStart, Link
  <2> QED
    BY <1>1, <2>2 DEF Enqueue, Link
<1>6. curPacket' \in Link
  BY <1>5 DEF TypeOK, StartPacket
<1>7. status' \in [Packet -> SUBSET {"started", "retry", "done"}]
  <2> DEFINE st == [status EXCEPT ![p] = {}]
             Statuses == [Packet -> SUBSET {"started", "retry", "done"}]
  <2>1. st \in Statuses
    BY <1>1 DEF TypeOK
  <2>2. status' = IF new = NULL THEN st ELSE [st EXCEPT ![new] = @ \cup {"started"}]
    BY <1>5 DEF StartPacket
  <2> HIDE DEF st
  <2>3. new \in Packet => [st EXCEPT ![new] = @ \cup {"started"}] \in Statuses
    BY <2>1
  <2> QED
    BY <2>1, <2>2, <2>3 DEF Link
<1> QED
  BY <1>2, <1>3, <1>4, <1>6, <1>7

LEMMA TypeInit == Init => TypeOK
<1> USE PacketAssumption, NullAssumption, CommandAssumption, ModeAssumption
<1> SUFFICES ASSUME Init PROVE TypeOK
  OBVIOUS
<1>1. count \in [SemaId -> 0..1] /\ pc \in [Client -> {"idle", "checked"} \cup Outstanding]
  BY DEF Init
<1>2. local \in [packet : Link, enable : BOOLEAN, unk0 : 0..2, semaId : SemaId \cup {NULL}]
  BY DEF Init, NoLocal, Link
<1>3. /\ head \in [Lists -> Link]
      /\ tail \in [Lists -> Link]
      /\ next \in [Packet -> Link]
      /\ sema \in [Packet -> SemaId \cup {NULL}]
      /\ status \in [Packet -> SUBSET {"started", "retry", "done"}]
  BY DEF Init, Link
<1>4. /\ curPacket \in Link
      /\ packetOff \in 0..2
      /\ intr \in {"none", "callback", "select"}
      /\ power \in {"on", "subIntrOff", "polling", "resumed"}
      /\ reboot \in {"none", "draining", "ending", "ended"}
      /\ late \in SUBSET Client
  BY DEF Init, Link
<1>5. /\ retryMode \in BOOLEAN
      /\ pollingMode \in BOOLEAN
      /\ rebooted \in BOOLEAN
      /\ sharedFree \in BOOLEAN
  BY DEF Init
<1> QED
  BY <1>1, <1>2, <1>3, <1>4, <1>5 DEF TypeOK

LEMMA TypeNext == TypeOK /\ [Next]_vars => TypeOK'
<1> USE PacketAssumption, NullAssumption, CommandAssumption, ModeAssumption
<1> SUFFICES ASSUME TypeOK, [Next]_vars
             PROVE  TypeOK'
  OBVIOUS
<1>1. ASSUME NEW p \in Client, CheckRebooted(p) PROVE TypeOK'
  BY <1>1 DEF TypeOK, CheckRebooted, queueVars, semaVars, modeVars, sysVars
<1>2. ASSUME NEW p \in Client, CmdExecAsync(p) PROVE TypeOK'
  BY <1>2, EnqueueType DEF TypeOK, CmdExecAsync, modeVars, sysVars, Outstanding
<1>3. ASSUME NEW p \in Client, CmdSyncWait(p) PROVE TypeOK'
  <2>1. p \in Packet /\ p \in SemaId /\ SharedSema \in SemaId
    BY DEF Client, SemaId
  <2>2. pc' \in [Client -> {"idle", "checked"} \cup Outstanding]
    BY <1>3 DEF TypeOK, CmdSyncWait, Outstanding
  <2>3. sema' \in [Packet -> SemaId \cup {NULL}] /\ sharedFree' \in BOOLEAN /\ count' = count
    <3>1. CASE "done" \in status[p]
      BY <3>1, <1>3 DEF TypeOK, CmdSyncWait, semaVars
    <3>2. CASE "done" \notin status[p]
      <4>1. PICK s \in SemaId : sema' = [sema EXCEPT ![p] = s]
        <5>1. (IF sharedFree THEN SharedSema ELSE p) \in SemaId
          BY <2>1
        <5> QED
          BY <5>1, <3>2, <1>3 DEF CmdSyncWait
      <4>2. sema' \in [Packet -> SemaId \cup {NULL}]
        BY <4>1, <2>1 DEF TypeOK
      <4>3. sharedFree' \in BOOLEAN /\ count' = count
        BY <3>2, <1>3 DEF CmdSyncWait
      <4> QED
        BY <4>2, <4>3
    <3> QED
      BY <3>1, <3>2
  <2> QED
    BY <2>2, <2>3, <1>3 DEF TypeOK, CmdSyncWait, queueVars, modeVars, sysVars
<1>4. ASSUME NEW p \in Client, CmdSyncWake(p) PROVE TypeOK'
  <2>1. pc' \in [Client -> {"idle", "checked"} \cup Outstanding]
    BY <1>4 DEF TypeOK, CmdSyncWake, Outstanding
  <2>2. count' \in [SemaId -> 0..1]
    <3>1. count' = [count EXCEPT ![sema[p]] = 0] /\ count \in [SemaId -> 0..1]
      BY <1>4 DEF TypeOK, CmdSyncWake
    <3>2. 0 \in 0..1
      OBVIOUS
    <3> QED
      BY <3>1, <3>2, ExceptType
  <2> QED
    BY <2>1, <2>2, <1>4 DEF TypeOK, CmdSyncWake, queueVars, modeVars, sysVars
<1>5. ASSUME NEW p \in Client, CmdSyncRelease(p) PROVE TypeOK'
  BY <1>5 DEF TypeOK, CmdSyncRelease, queueVars, modeVars, sysVars
<1>6. ASSUME NEW p \in Client, CmdSyncPoll(p) PROVE TypeOK'
  BY <1>6 DEF TypeOK, CmdSyncPoll, queueVars, semaVars, modeVars, sysVars
<1>7. ASSUME NEW p \in Client, CmdCancel(p) PROVE TypeOK'
  <2>1. p \in Packet /\ ListOf[p] \in Lists
    BY DEF Client
  <2>2. PICK prev \in Link : /\ head' = CancelledHead(p, prev)
                             /\ next' = CancelledNext(p, prev)
                             /\ tail' = CancelledTail(p, prev)
    <3>1. CASE head[ListOf[p]] = p
      BY <3>1, <1>7 DEF CmdCancel, Link
    <3>2. CASE head[ListOf[p]] # p
      <4>1. \E q \in Reach(ListOf[p]) : next[q] = p
        BY <2>1, <3>2, <1>7, HasPredecessor DEF TypeOK, CmdCancel, Reach
      <4>2. Previous(p) \in Link
        BY <4>1 DEF Previous, Reach, ReachFrom, Link
      <4> QED
        BY <4>2, <3>2, <1>7 DEF CmdCancel
    <3> QED
      BY <3>1, <3>2
  <2>3. /\ head' \in [Lists -> Link]
        /\ tail' \in [Lists -> Link]
        /\ next' \in [Packet -> Link]
    BY <2>1, <2>2 DEF TypeOK, CancelledHead, CancelledNext, CancelledTail
  <2> QED
    BY <1>7, <2>3 DEF TypeOK, CmdCancel, semaVars, modeVars, sysVars
<1>8. ASSUME NEW p \in Client, CmdExecPolled(p) PROVE TypeOK'
  BY <1>8, EnqueueType DEF TypeOK, CmdExecPolled, modeVars, sysVars, Outstanding
<1>9. ASSUME NEW p \in Client, CmdSyncPolled(p) PROVE TypeOK'
  BY <1>9 DEF TypeOK, CmdSyncPolled, queueVars, semaVars, modeVars, sysVars
<1>10. ASSUME NEW p \in Client, CallbackSubmit(p) PROVE TypeOK'
  BY <1>10, EnqueueType DEF TypeOK, CallbackSubmit, modeVars, sysVars, Outstanding
<1>11. ASSUME NEW again \in BOOLEAN, NEW enable \in BOOLEAN, GpioIntr(again, enable)
       PROVE  TypeOK'
  <2>1. curPacket \in Packet /\ ListOf[curPacket] \in Lists
    BY <1>11 DEF TypeOK, GpioIntr, Link
  <2>2. CASE Retries(curPacket, again)
    BY <1>11, <2>1, <2>2 DEF TypeOK, GpioIntr, EndCurrent, queueVars, semaVars,
                             modeVars, sysVars, Link
  <2>3. CASE ~Retries(curPacket, again)
    <3>1. /\ head' \in [Lists -> Link]
          /\ tail' \in [Lists -> Link]
          /\ next' \in [Packet -> Link]
          /\ status' \in [Packet -> SUBSET {"started", "retry", "done"}]
      BY <1>11, <2>1, <2>3 DEF TypeOK, GpioIntr, EndCurrent, Dequeue, DequeuedHead,
                               DequeuedStatus, Link
    <3> QED
      BY <3>1, <1>11, <2>1, <2>3 DEF TypeOK, GpioIntr, EndCurrent, semaVars,
                                     modeVars, sysVars, Link
  <2> QED
    BY <2>2, <2>3
<1>12. ASSUME NEW r \in CallbackResults, CallbackReturn(r) PROVE TypeOK'
  <2>1. r \in {0, 1, 2}
    OBVIOUS
  <2>2. /\ head' \in [Lists -> Link]
        /\ tail' \in [Lists -> Link]
        /\ next' \in [Packet -> Link]
    <3>1. PICK p \in Link : \/ r = 0 /\ UNCHANGED queueVars
                            \/ r = 1 /\ RequeueFirst(p)
                            \/ r = 2 /\ RequeueLast(p)
      BY <1>12 DEF TypeOK, CallbackReturn
    <3>2. CASE UNCHANGED queueVars
      BY <3>2 DEF TypeOK, queueVars
    <3>3. CASE RequeueFirst(p)
      <4>1. PICK l : /\ head' = [head EXCEPT ![l] = p]
                     /\ tail' = IF head[l] = NULL THEN [tail EXCEPT ![l] = p] ELSE tail
                     /\ next' = [next EXCEPT ![p] = head[l]]
        BY <3>3 DEF RequeueFirst
      <4>2. CASE p \in Packet
        BY <4>1, <4>2, <3>3, ExceptType DEF TypeOK, RequeueFirst, Link
      <4>3. CASE p = NULL
        <5>1. next' = next
          BY <4>1, <4>3 DEF TypeOK
        <5>2. p \in Link
          OBVIOUS
        <5> QED
          BY <4>1, <5>1, <5>2, ExceptType DEF TypeOK
      <4> QED
        BY <4>2, <4>3 DEF Link
    <3>4. CASE RequeueLast(p)
      BY <3>4 DEF TypeOK, RequeueLast, Link
    <3> QED
      BY <3>1, <3>2, <3>3, <3>4
  <2>4. status' \in [Packet -> SUBSET {"started", "retry", "done"}]
    BY <1>12 DEF TypeOK, CallbackReturn, RequeuedStatus
  <2>3. /\ local' \in [packet : Link, enable : BOOLEAN, unk0 : 0..2,
                       semaId : SemaId \cup {NULL}]
        /\ intr' = "select"
    BY <1>12, <2>1 DEF TypeOK, CallbackReturn
  <2> QED
    BY <1>12, <2>2, <2>3, <2>4 DEF TypeOK, CallbackReturn, semaVars, modeVars, sysVars
<1>13. ASSUME NEW early \in BOOLEAN, SelectNext(early) PROVE TypeOK'
  <2>1. SelectHead \in [Lists -> Link]
    BY DEF TypeOK, SelectHead, Link
  <2>2. 0 \in Lists /\ \A i \in 0..2 : RotationList(i) \in Lists
    BY DEF TypeOK, RotationList, Lists
  <2>3. NextPacket(SelectHead, early) \in Link
    <3>1. CASE SelectHead[0] # NULL \/ \A i \in 0..2 : SelectHead[RotationList(i)] = NULL
      BY <2>1, <2>2, <3>1 DEF NextPacket, Link
    <3>2. CASE SelectHead[0] = NULL /\ ~(\A i \in 0..2 : SelectHead[RotationList(i)] = NULL)
      <4> DEFINE First(j) == /\ SelectHead[RotationList(j)] # NULL
                             /\ \A k \in 0..2 : k < j => SelectHead[RotationList(k)] = NULL
                 i == CHOOSE j \in 0..2 : First(j)
      <4>1. \E j \in 0..2 : First(j)
        <5>1. CASE SelectHead[RotationList(0)] # NULL
          BY <5>1
        <5>2. CASE SelectHead[RotationList(0)] = NULL /\ SelectHead[RotationList(1)] # NULL
          BY <5>2
        <5>3. CASE /\ SelectHead[RotationList(0)] = NULL
                   /\ SelectHead[RotationList(1)] = NULL
                   /\ SelectHead[RotationList(2)] # NULL
          BY <5>3
        <5> QED
          BY <3>2, <5>1, <5>2, <5>3
      <4>2. i \in 0..2
        BY <4>1
      <4>3. SelectHead[RotationList(i)] \in Link
        BY <2>1, <2>2, <4>2
      <4> QED
        BY <3>2, <4>3 DEF NextPacket, Link
    <3> QED
      BY <3>1, <3>2
  <2>4. /\ curPacket' \in Link
        /\ status' \in [Packet -> SUBSET {"started", "retry", "done"}]
    BY <2>3, <1>13 DEF TypeOK, SelectNext, StartPacket, Link
  <2>5. /\ head' \in [Lists -> Link]
        /\ tail' \in [Lists -> Link]
        /\ next' \in [Packet -> Link]
    BY <2>1, <2>2, <1>13 DEF TypeOK, SelectNext, Link
  <2>6. packetOff' \in 0..2
    BY <1>13 DEF TypeOK, SelectNext, AdvancedOff
  <2>7. count' \in [SemaId -> 0..1]
    BY <1>13 DEF TypeOK, SelectNext, Signalled
  <2>8. local' \in [packet : Link, enable : BOOLEAN, unk0 : 0..2,
                    semaId : SemaId \cup {NULL}]
    BY <1>13 DEF SelectNext, NoLocal, Link
  <2> QED
    BY <1>13, <2>4, <2>5, <2>6, <2>7, <2>8 DEF TypeOK, SelectNext, modeVars, sysVars
<1>14. ASSUME NEW m \in RetryModes, SetRetryMode(m) PROVE TypeOK'
  BY <1>14 DEF TypeOK, SetRetryMode, queueVars, semaVars, sysVars
<1>15. CASE EventSuspend \/ EventPollingOn \/ EventResume \/ EventPollingOff
  <2>1. CASE EventSuspend
    BY <2>1 DEF TypeOK, EventSuspend, queueVars, semaVars, modeVars
  <2>2. CASE EventPollingOn
    BY <2>2 DEF TypeOK, EventPollingOn, queueVars, semaVars
  <2>3. CASE EventResume
    BY <2>3 DEF TypeOK, EventResume, queueVars, semaVars, modeVars
  <2>4. CASE EventPollingOff
    BY <2>4 DEF TypeOK, EventPollingOff, queueVars, semaVars
  <2> QED
    BY <1>15, <2>1, <2>2, <2>3, <2>4
<1>16. CASE RebootBegin \/ RebootDrained \/ RebootEnd
  <2>1. CASE RebootBegin
    BY <2>1 DEF TypeOK, RebootBegin, queueVars, semaVars, modeVars
  <2>2. CASE RebootDrained
    BY <2>2 DEF TypeOK, RebootDrained, queueVars, semaVars, modeVars
  <2>3. CASE RebootEnd
    BY <2>3 DEF TypeOK, RebootEnd, queueVars, semaVars, modeVars
  <2> QED
    BY <1>16, <2>1, <2>2, <2>3
<1>17. CASE UNCHANGED vars
  BY <1>17 DEF TypeOK, vars
<1> QED
  BY <1>1, <1>2, <1>3, <1>4, <1>5, <1>6, <1>7, <1>8, <1>9, <1>10, <1>11, <1>12,
     <1>13, <1>14, <1>15, <1>16, <1>17 DEF Next, ClientStep, HandlerStep, SystemStep

\* Every variable keeps its type: in particular packetOff stays below 3 and
\* a semaphore's count at most 1.
THEOREM TypeCorrect == Spec => []TypeOK
  BY TypeInit, TypeNext, PTL DEF Spec

-----------------------------------------------------------------------------
(* What each operation does to the four lists: which packets they hold     *)
(* afterwards, and that their pointers still agree.                        *)

\* The parts of TypeOK and of the assumptions that the lemmas below rest on.
LEMMA ListTypes ==
  ASSUME TypeOK
  PROVE  /\ \A l \in Lists : head[l] \in Link /\ tail[l] \in Link
         /\ next \in [Packet -> Link]
         /\ \A l \in Lists : Reach(l) \subseteq Packet
         /\ \A l \in Lists : head[l] # NULL => head[l] \in Reach(l)
         /\ \A l \in Lists : head[l] = NULL => Reach(l) = {}
         /\ \A p \in Packet : ListOf[p] \in Lists
<1>1. /\ \A l \in Lists : head[l] \in Link /\ tail[l] \in Link
      /\ next \in [Packet -> Link]
      /\ \A p \in Packet : ListOf[p] \in Lists
  BY CommandAssumption DEF TypeOK
<1>2. ASSUME NEW l \in Lists
      PROVE  /\ Reach(l) \subseteq Packet
             /\ head[l] # NULL => head[l] \in Reach(l)
             /\ head[l] = NULL => Reach(l) = {}
  BY <1>1, ReachLeast, ReachNull DEF Reach, ClosedFrom
<1> QED
  BY <1>1, <1>2

\* A step that leaves the pointers alone leaves the lists alone.
LEMMA ListsKept ==
  ASSUME UNCHANGED queueVars
  PROVE  /\ \A l \in Lists : Reach(l)' = Reach(l)
         /\ WellLinked => WellLinked'
         /\ QueueEmpty' = QueueEmpty
  BY DEF queueVars, Reach, WellLinked, QueueEmpty

\* A step that changes one list only, and no pointer of the packets in the
\* others.
LEMMA OneListChanged ==
  ASSUME TypeOK, WellLinked, NEW k \in Lists, NEW S,
         head' \in [Lists -> Link], tail' \in [Lists -> Link], next' \in [Packet -> Link],
         \A l \in Lists \ {k} : head'[l] = head[l] /\ tail'[l] = tail[l],
         \A l \in Lists \ {k} : \A q \in Reach(l) : next'[q] = next[q],
         Reach(k)' = S,
         IsList(head'[k], tail'[k], next'),
         \A q \in S : ListOf[q] = k
  PROVE  WellLinked' /\ \A l \in Lists : Reach(l)' = IF l = k THEN S ELSE Reach(l)
<1>1. ASSUME NEW l \in Lists \ {k}
      PROVE  Reach(l)' = Reach(l) /\ IsList(head'[l], tail'[l], next')
  <2>1. head[l] \in Link /\ tail[l] \in Link /\ next \in [Packet -> Link]
    BY ListTypes
  <2>2. IsList(head[l], tail[l], next)
    BY DEF WellLinked
  <2>3. \A q \in ReachFrom(head[l], next) : next'[q] = next[q]
    BY DEF Reach
  <2>4. /\ ReachFrom(head[l], next') = ReachFrom(head[l], next)
        /\ IsList(head[l], tail[l], next')
    BY <2>1, <2>2, <2>3, ListFrame
  <2> QED
    BY <2>4 DEF Reach
<1>2. \A l \in Lists : Reach(l)' = IF l = k THEN S ELSE Reach(l)
  BY <1>1
<1>3. WellLinked'
  BY <1>1, <1>2 DEF WellLinked
<1> QED
  BY <1>2, <1>3

\* Lists have no packet in common.
LEMMA OwnListOnly ==
  ASSUME TypeOK, WellLinked, NEW l \in Lists, NEW q \in Reach(l)
  PROVE  ListOf[q] = l
  BY DEF WellLinked

\* Whether a submission of p reaches one of the branches that link it.
EnqueueLinks(p) == head[ListOf[p]] = NULL \/ InsertLast(p) \/ InsertSecond(p)

\* A submission keeps the heads it finds, and adds its packet to its own list
\* or -- urgent, behind a head that is not busy -- to none.
LEMMA EnqueueLists ==
  ASSUME TypeOK, WellLinked, NEW p \in Client, \A l \in Lists : p \notin Reach(l),
         Enqueue(p)
  PROVE  /\ WellLinked'
         /\ \A l \in Lists \ {ListOf[p]} :
              /\ Reach(l)' = Reach(l) /\ head'[l] = head[l]
              /\ \A x \in Reach(l) : next'[x] = next[x]
         /\ Reach(ListOf[p])' = IF EnqueueLinks(p) THEN Reach(ListOf[p]) \cup {p}
                                ELSE Reach(ListOf[p])
         /\ head[ListOf[p]] # NULL => head'[ListOf[p]] = head[ListOf[p]]
         /\ head[ListOf[p]] = NULL =>
              head'[ListOf[p]] = p /\ next'[p] = NULL /\ Reach(ListOf[p])' = {p}
<1> DEFINE k == ListOf[p]
           h == head[k]
           q == tail[k]
<1>1. /\ p \in Packet /\ k \in Lists /\ h \in Link /\ q \in Link
      /\ next \in [Packet -> Link]
  BY ListTypes DEF Client
<1>2. head' \in [Lists -> Link] /\ tail' \in [Lists -> Link] /\ next' \in [Packet -> Link]
  BY EnqueueType
<1>3. /\ head' = EnqueuedHead(p)
      /\ tail' = EnqueuedTail(p)
      /\ next' = EnqueuedNext(p)
  BY DEF Enqueue
<1>4. \A l \in Lists \ {k} : head'[l] = head[l] /\ tail'[l] = tail[l]
  BY <1>1, <1>3 DEF TypeOK, EnqueuedHead, EnqueuedTail
<1>5. \A l \in Lists \ {k} : k # l /\ p \notin Reach(l) /\ \A x \in Reach(l) : ListOf[x] = l
  BY OwnListOnly
<1>6. IsList(h, q, next) /\ \A x \in Reach(k) : ListOf[x] = k
  BY <1>1 DEF WellLinked
<1>7. CASE h = NULL
  <2>1. next' = [next EXCEPT ![p] = NULL] /\ head'[k] = p /\ tail'[k] = p
    <3>1. next' = [next EXCEPT ![p] = NULL]
      BY <1>3, <1>7 DEF EnqueuedNext, InsertLast, InsertSecond
    <3>2. head'[k] = p /\ tail'[k] = p
      BY <1>1, <1>3, <1>7 DEF TypeOK, EnqueuedHead, EnqueuedTail
    <3> QED
      BY <3>1, <3>2
  <2>2. next'[p] = NULL /\ \A x \in Packet \ {p} : next'[x] = next[x]
    BY <1>1, <2>1
  <2>3. ReachFrom(p, next') = {p} /\ IsList(p, p, next')
    BY <1>1, <1>2, <2>2, ListSingle
  <2>4. \A l \in Lists \ {k} : \A x \in Reach(l) : next'[x] = next[x]
    BY <1>5, <2>2, ListTypes
  <2>5. Reach(k)' = {p}
    BY <2>1, <2>3 DEF Reach
  <2>6. IsList(head'[k], tail'[k], next')
    BY <2>1, <2>3
  <2>7. WellLinked' /\ \A l \in Lists : Reach(l)' = IF l = k THEN {p} ELSE Reach(l)
    BY <1>1, <1>2, <1>4, <2>4, <2>5, <2>6, OneListChanged
  <2>8. Reach(k) = {}
    BY <1>1, <1>7, ListTypes
  <2> QED
    BY <1>1, <1>4, <1>7, <2>1, <2>2, <2>4, <2>7, <2>8 DEF EnqueueLinks
<1>8. CASE h # NULL /\ (InsertLast(p) \/ InsertSecond(p))
  <2>1. h \in Reach(k) /\ q \in Reach(k) /\ next[q] = NULL /\ q \in Packet /\ h \in Packet
    BY <1>1, <1>6, <1>8, ListTypes DEF IsList, Reach
  <2>2. PICK r \in Reach(k) : /\ next' = [next EXCEPT ![p] = next[r], ![r] = p]
                              /\ tail'[k] = IF next[r] = NULL THEN p ELSE q
    <3>1. CASE InsertLast(p)
      <4>1. next' = [next EXCEPT ![p] = next[q], ![q] = p] /\ tail'[k] = p
        <5>1. next' = [next EXCEPT ![p] = NULL, ![q] = p]
          BY <1>3, <1>8, <3>1 DEF EnqueuedNext, InsertLast, InsertSecond
        <5>2. tail'[k] = p
          BY <1>1, <1>3, <1>8, <3>1 DEF TypeOK, EnqueuedTail
        <5> QED
          BY <2>1, <5>1, <5>2
      <4> QED
        BY <2>1, <4>1
    <3>2. CASE ~InsertLast(p) /\ InsertSecond(p)
      <4>1. next' = [next EXCEPT ![p] = next[h], ![h] = p]
        BY <1>3, <1>8, <3>2 DEF EnqueuedNext
      <4>2. tail'[k] = IF next[h] = NULL THEN p ELSE q
        BY <1>1, <1>3, <1>8, <3>2 DEF TypeOK, EnqueuedTail
      <4> QED
        BY <2>1, <4>1, <4>2
    <3> QED
      BY <1>8, <3>1, <3>2
  <2>3. r \in Packet /\ r # p /\ p \notin Reach(k)
    BY <1>1, <2>2, ListTypes
  <2>4. head'[k] = h
    BY <1>1, <1>3, <1>8 DEF EnqueuedHead
  <2>5. /\ ReachFrom(h, next') = ReachFrom(h, next) \cup {p}
        /\ IsList(h, IF next[r] = NULL THEN p ELSE q, next')
    <3>1. r \in ReachFrom(h, next) /\ p \in Packet \ ReachFrom(h, next)
      BY <1>1, <2>2, <2>3 DEF Reach
    <3>2. h # NULL /\ IsList(h, q, next)
      BY <1>6, <1>8
    <3>3. next'[p] = next[r] /\ next'[r] = p /\ \A x \in Packet \ {p, r} : next'[x] = next[x]
      BY <1>1, <2>2, <2>3
    <3> HIDE DEF h, q, k
    <3> QED
      BY <1>1, <1>2, <3>1, <3>2, <3>3, InsertAfter
  <2>6. \A x \in Packet \ {p, r} : next'[x] = next[x]
    BY <1>1, <2>2, <2>3
  <2>7. \A l \in Lists \ {k} : \A x \in Reach(l) : next'[x] = next[x]
    BY <1>5, <1>6, <2>2, <2>6, ListTypes
  <2>8. Reach(k)' = Reach(k) \cup {p}
    BY <2>4, <2>5 DEF Reach
  <2>9. IsList(head'[k], tail'[k], next')
    BY <2>2, <2>4, <2>5
  <2>10. \A x \in Reach(k) \cup {p} : ListOf[x] = k
    BY <1>6
  <2>11. /\ WellLinked'
         /\ \A l \in Lists : Reach(l)' = IF l = k THEN Reach(k) \cup {p} ELSE Reach(l)
    <3> DEFINE S == Reach(k) \cup {p}
    <3>1. Reach(k)' = S /\ \A x \in S : ListOf[x] = k
      BY <2>8, <2>10
    <3> HIDE DEF S, k
    <3>2. WellLinked' /\ \A l \in Lists : Reach(l)' = IF l = k THEN S ELSE Reach(l)
      BY <1>1, <1>2, <1>4, <2>7, <2>9, <3>1, OneListChanged
    <3> QED
      BY <3>2 DEF S
  <2> QED
    BY <1>1, <1>4, <1>8, <2>4, <2>7, <2>11 DEF EnqueueLinks
<1>9. CASE h # NULL /\ ~InsertLast(p) /\ ~InsertSecond(p)
  <2>1. next' = [next EXCEPT ![p] = h] /\ head'[k] = h /\ tail'[k] = q
    BY <1>1, <1>3, <1>9 DEF TypeOK, EnqueuedHead, EnqueuedTail, EnqueuedNext
  <2>2. \A l \in Lists : \A x \in Reach(l) : next'[x] = next[x]
    BY <1>1, <2>1, ListTypes
  <2>3. ReachFrom(h, next') = ReachFrom(h, next) /\ IsList(h, q, next')
    <3>1. \A x \in ReachFrom(h, next) : next'[x] = next[x]
      BY <1>1, <2>2 DEF Reach
    <3> HIDE DEF h, q
    <3> QED
      BY <1>1, <1>2, <1>6, <3>1, ListFrame
  <2>4. Reach(k)' = Reach(k) /\ IsList(head'[k], tail'[k], next')
    BY <2>1, <2>3 DEF Reach
  <2>5. WellLinked' /\ \A l \in Lists : Reach(l)' = IF l = k THEN Reach(k) ELSE Reach(l)
    <3> HIDE DEF k
    <3> QED
      BY <1>1, <1>2, <1>4, <1>6, <2>2, <2>4, OneListChanged
  <2> QED
    BY <1>1, <1>4, <1>9, <2>1, <2>2, <2>5 DEF EnqueueLinks
<1> QED
  BY <1>7, <1>8, <1>9

\* The end of a packet takes it off the head of its list.
LEMMA DequeueLists ==
  ASSUME TypeOK, WellLinked, NEW p \in Packet, head[ListOf[p]] = p, Dequeue(p)
  PROVE  /\ WellLinked'
         /\ \A l \in Lists \ {ListOf[p]} : Reach(l)' = Reach(l) /\ head'[l] = head[l]
         /\ Reach(ListOf[p])' = Reach(ListOf[p]) \ {p}
         /\ head'[ListOf[p]] = next[p]
<1> DEFINE k == ListOf[p]
           t == tail[k]
           S == Reach(k) \ {p}
<1>1. k \in Lists /\ t \in Link /\ next \in [Packet -> Link] /\ next[p] \in Link /\ p # NULL
  BY ListTypes, NullAssumption
<1>2. /\ head' = [head EXCEPT ![k] = next[p]]
      /\ tail' = IF next[p] = NULL THEN [tail EXCEPT ![k] = NULL] ELSE tail
      /\ next' = [next EXCEPT ![p] = NULL]
  BY DEF Dequeue, DequeuedHead
<1>3. head' \in [Lists -> Link] /\ tail' \in [Lists -> Link] /\ next' \in [Packet -> Link]
  BY <1>1, <1>2 DEF TypeOK, Link
<1>4. /\ \A l \in Lists \ {k} : head'[l] = head[l] /\ tail'[l] = tail[l]
      /\ head'[k] = next[p]
      /\ next[p] # NULL => tail'[k] = t
      /\ \A x \in Packet \ {p} : next'[x] = next[x]
  BY <1>1, <1>2 DEF TypeOK
<1>5. \A l \in Lists \ {k} : \A x \in Reach(l) : next'[x] = next[x]
  BY <1>4, OwnListOnly, ListTypes
<1>6. IsList(p, t, next) /\ \A x \in Reach(k) : ListOf[x] = k
  BY <1>1 DEF WellLinked
<1>7. /\ ReachFrom(next[p], next') = ReachFrom(p, next) \ {p}
      /\ next[p] # NULL => IsList(next[p], t, next')
  <2>1. \A x \in ReachFrom(p, next) \ {p} : next'[x] = next[x]
    BY <1>1, <1>4, ReachLeast DEF Link
  <2>2. p \in Link
    BY DEF Link
  <2> HIDE DEF t, k
  <2> QED
    BY <1>1, <1>3, <1>6, <2>1, <2>2, PopFront
<1>8. Reach(k)' = S
  BY <1>4, <1>7 DEF Reach
<1>9. IsList(head'[k], tail'[k], next')
  <2>1. CASE next[p] = NULL
    <3>1. ReachFrom(NULL, next') = {}
      BY <1>3, ReachNull
    <3> QED
      BY <1>4, <2>1, <3>1 DEF IsList
  <2>2. CASE next[p] # NULL
    BY <1>4, <1>7, <2>2
  <2> QED
    BY <2>1, <2>2
<1>10. WellLinked' /\ \A l \in Lists : Reach(l)' = IF l = k THEN S ELSE Reach(l)
  <2>1. \A x \in S : ListOf[x] = k
    BY <1>6
  <2> HIDE DEF S, k
  <2> QED
    BY <1>1, <1>3, <1>4, <1>5, <1>8, <1>9, <2>1, OneListChanged
<1> QED
  BY <1>1, <1>4, <1>10

\* sceSysconCmdCancel takes its packet, and no other, out of its list.
LEMMA CancelLists ==
  ASSUME TypeOK, WellLinked, NEW p \in Client, CmdCancel(p)
  PROVE  /\ WellLinked'
         /\ \A l \in Lists : Reach(l)' = Reach(l) \ {p}
         /\ \A l \in Lists : head[l] # p => head'[l] = head[l]
<1> DEFINE k == ListOf[p]
           h == head[k]
           t == tail[k]
           S == Reach(k) \ {p}
<1>1. /\ p \in Packet /\ p # NULL /\ k \in Lists /\ h \in Link /\ t \in Link
      /\ next \in [Packet -> Link] /\ next[p] \in Link
  BY ListTypes, NullAssumption DEF Client
<1>2. p \in Reach(k) /\ h # NULL
  BY <1>1, ListTypes DEF CmdCancel
<1>3. IsList(h, t, next) /\ \A x \in Reach(k) : ListOf[x] = k
  BY <1>1 DEF WellLinked
<1>4. /\ head' \in [Lists -> Link] /\ tail' \in [Lists -> Link] /\ next' \in [Packet -> Link]
      /\ \A l \in Lists \ {k} : head'[l] = head[l] /\ tail'[l] = tail[l]
      /\ \A l \in Lists \ {k} : \A x \in Reach(l) : next'[x] = next[x]
      /\ Reach(k)' = S
      /\ IsList(head'[k], tail'[k], next')
      /\ h # p => head'[k] = h
  <2>1. CASE h = p
    <3>1. /\ head' = [head EXCEPT ![k] = next[p]]
          /\ next' = next
          /\ tail' = IF next[p] = NULL THEN [tail EXCEPT ![k] = NULL] ELSE tail
      BY <2>1 DEF CmdCancel, CancelledHead, CancelledNext, CancelledTail
    <3>2. head' \in [Lists -> Link] /\ tail' \in [Lists -> Link] /\ next' \in [Packet -> Link]
      BY <1>1, <3>1 DEF TypeOK, Link
    <3>3. /\ \A l \in Lists \ {k} : head'[l] = head[l] /\ tail'[l] = tail[l]
          /\ head'[k] = next[p]
          /\ next[p] # NULL => tail'[k] = t
      BY <1>1, <3>1 DEF TypeOK
    <3>4. /\ ReachFrom(next[p], next') = ReachFrom(h, next) \ {p}
          /\ next[p] # NULL => IsList(next[p], t, next')
      <4> HIDE DEF t, k, h
      <4> QED
        BY <1>1, <1>2, <1>3, <2>1, <3>1, PopFront
    <3>5. IsList(head'[k], tail'[k], next')
      <4>1. CASE next[p] = NULL
        <5>1. ReachFrom(NULL, next') = {}
          BY <3>2, ReachNull
        <5> QED
          BY <3>3, <4>1, <5>1 DEF IsList
      <4>2. CASE next[p] # NULL
        BY <3>3, <3>4, <4>2
      <4> QED
        BY <4>1, <4>2
    <3>6. Reach(k)' = S
      BY <3>3, <3>4 DEF Reach
    <3> QED
      BY <2>1, <3>1, <3>2, <3>3, <3>5, <3>6
  <2>2. CASE h # p
    <3> DEFINE q == Previous(p)
    <3>1. q \in Reach(k) /\ next[q] = p
      <4>1. p \in ReachFrom(h, next)
        BY <1>2 DEF Reach
      <4>2. \E x \in ReachFrom(h, next) : next[x] = p
        <5> HIDE DEF h
        <5> QED
          BY <1>1, <2>2, <4>1, HasPredecessor
      <4> QED
        BY <4>2 DEF Previous, Reach
    <3>2. q \in Packet /\ q # NULL
      BY <1>1, <3>1, ListTypes, NullAssumption
    <3>3. /\ head' = head
          /\ next' = [next EXCEPT ![q] = next[p]]
          /\ tail' = IF next[p] = NULL THEN [tail EXCEPT ![k] = q] ELSE tail
      BY <2>2, <3>2 DEF CmdCancel, CancelledHead, CancelledNext, CancelledTail
    <3> HIDE DEF q
    <3>4. head' \in [Lists -> Link] /\ tail' \in [Lists -> Link] /\ next' \in [Packet -> Link]
      BY <1>1, <3>2, <3>3 DEF TypeOK, Link
    <3>5. /\ \A l \in Lists \ {k} : head'[l] = head[l] /\ tail'[l] = tail[l]
          /\ head'[k] = h
          /\ tail'[k] = IF next[p] = NULL THEN q ELSE t
          /\ next'[q] = next[p]
          /\ \A x \in Packet \ {q} : next'[x] = next[x]
      BY <1>1, <3>2, <3>3 DEF TypeOK
    <3>6. /\ ReachFrom(h, next') = ReachFrom(h, next) \ {p}
          /\ IsList(h, IF next[p] = NULL THEN q ELSE t, next')
      <4>1. q \in ReachFrom(h, next) /\ p \in ReachFrom(h, next)
        BY <1>2, <3>1 DEF Reach
      <4> HIDE DEF h, t, k
      <4> QED
        BY <1>1, <1>3, <3>1, <3>4, <3>5, <4>1, UnlinkAfter
    <3>7. \A l \in Lists \ {k} : \A x \in Reach(l) : next'[x] = next[x]
      BY <1>3, <3>1, <3>5, OwnListOnly, ListTypes
    <3>8. Reach(k)' = S
      BY <3>5, <3>6 DEF Reach
    <3> QED
      BY <2>2, <3>4, <3>5, <3>6, <3>7, <3>8
  <2> QED
    BY <2>1, <2>2
<1>5. WellLinked' /\ \A l \in Lists : Reach(l)' = IF l = k THEN S ELSE Reach(l)
  <2>1. \A x \in S : ListOf[x] = k
    BY <1>3
  <2> HIDE DEF S, k, h, t
  <2> QED
    BY <1>1, <1>4, <2>1, OneListChanged
<1>6. \A l \in Lists \ {k} : p \notin Reach(l)
  BY OwnListOnly
<1>7. \A l \in Lists : head[l] # p => head'[l] = head[l]
  BY <1>4
<1> QED
  BY <1>5, <1>6, <1>7

\* A packet of no list becomes the head of its own: a re-queued packet, and
\* GET_STATUS2.
LEMMA PushLists ==
  ASSUME TypeOK, WellLinked, NEW p \in Packet, \A l \in Lists : p \notin Reach(l),
         RequeueFirst(p)
  PROVE  /\ WellLinked'
         /\ \A l \in Lists \ {ListOf[p]} : Reach(l)' = Reach(l) /\ head'[l] = head[l]
         /\ Reach(ListOf[p])' = Reach(ListOf[p]) \cup {p}
         /\ head'[ListOf[p]] = p
<1> DEFINE k == ListOf[p]
           h == head[k]
           t == tail[k]
           S == Reach(k) \cup {p}
<1>1. /\ k \in Lists /\ h \in Link /\ t \in Link /\ p \in Link
      /\ next \in [Packet -> Link]
  BY ListTypes DEF Link
<1>2. /\ head' = [head EXCEPT ![k] = p]
      /\ tail' = IF h = NULL THEN [tail EXCEPT ![k] = p] ELSE tail
      /\ next' = [next EXCEPT ![p] = h]
  BY DEF RequeueFirst
<1>3. head' \in [Lists -> Link] /\ tail' \in [Lists -> Link] /\ next' \in [Packet -> Link]
  BY <1>1, <1>2 DEF TypeOK
<1>4. /\ \A l \in Lists \ {k} : head'[l] = head[l] /\ tail'[l] = tail[l]
      /\ head'[k] = p
      /\ tail'[k] = IF h = NULL THEN p ELSE t
      /\ next'[p] = h
      /\ \A x \in Packet \ {p} : next'[x] = next[x]
  BY <1>1, <1>2 DEF TypeOK
<1>5. \A l \in Lists \ {k} : \A x \in Reach(l) : next'[x] = next[x]
  BY <1>4, ListTypes
<1>6. IsList(h, t, next) /\ \A x \in Reach(k) : ListOf[x] = k
  BY <1>1 DEF WellLinked
<1>7. /\ ReachFrom(p, next') = ReachFrom(h, next) \cup {p}
      /\ IsList(p, IF h = NULL THEN p ELSE t, next')
  <2>1. p \in Packet \ ReachFrom(h, next)
    BY <1>1 DEF Reach
  <2> HIDE DEF h, t, k
  <2> QED
    BY <1>1, <1>3, <1>4, <1>6, <2>1, PushFront
<1>8. Reach(k)' = S /\ IsList(head'[k], tail'[k], next')
  BY <1>4, <1>7 DEF Reach
<1>9. WellLinked' /\ \A l \in Lists : Reach(l)' = IF l = k THEN S ELSE Reach(l)
  <2>1. \A x \in S : ListOf[x] = k
    BY <1>6
  <2> HIDE DEF S, k, h, t
  <2> QED
    BY <1>1, <1>3, <1>4, <1>5, <1>8, <2>1, OneListChanged
<1> QED
  BY <1>1, <1>4, <1>9
=============================================================================
