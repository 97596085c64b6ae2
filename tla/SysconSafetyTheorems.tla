-------------------------- MODULE SysconSafetyTheorems --------------------------
(***************************************************************************)
(* IInv of SysconInvariant is inductive when callbacks never return 2, and *)
(* the safety properties of SysconQueue follow, some with a little more.   *)
(***************************************************************************)
EXTENDS SysconQueueTheorems

LEMMA IInvInit == Init => IInv
<1> SUFFICES ASSUME Init PROVE IInv
  OBVIOUS
<1>1. TypeOK
  BY TypeInit
<1>2. \A l \in Lists : head[l] = NULL /\ Reach(l) = {}
  BY <1>1, ListTypes DEF Init
<1>3. WellLinked /\ OneInFlight /\ LinkedIsOutstanding
  BY <1>2, NullAssumption DEF Init, WellLinked, IsList, Reach, OneInFlight, LinkedIsOutstanding
<1>4. HandlerInv /\ SemaInv /\ TokenInv
  BY <1>2, PacketAssumption DEF Init, HandlerInv, SemaInv, TokenInv
<1>5. PolledInv
  BY <1>2 DEF Init, PolledInv, QueueEmpty
<1> QED
  BY <1>1, <1>3, <1>4, <1>5 DEF IInv

\* A step that changes none of the variables the invariant is about.
LEMMA QuietStep ==
  ASSUME IInv, TypeOK',
         UNCHANGED <<queueVars, status, semaVars, curPacket, pollingMode, intr,
                     local, pc, power>>
  PROVE  IInv'
<1>1. /\ \A l \in Lists : Reach(l)' = Reach(l)
      /\ WellLinked'
      /\ QueueEmpty' = QueueEmpty
  BY ListsKept DEF IInv
<1>2. OneInFlight' /\ LinkedIsOutstanding'
  BY <1>1 DEF IInv, OneInFlight, LinkedIsOutstanding, queueVars
<1>3. HandlerInv' /\ PolledInv'
  BY <1>1 DEF IInv, HandlerInv, PolledInv, queueVars
<1>4. SemaInv' /\ TokenInv'
  BY DEF IInv, SemaInv, TokenInv, semaVars
<1> QED
  BY <1>1, <1>2, <1>3, <1>4 DEF IInv

\* A client moves on to x and touches neither the lists nor the bus.
LEMMA ClientMoves ==
  ASSUME IInv, TypeOK', NEW p \in Client, NEW x \in {"idle", "checked", "waiting", "woken"},
         pc' = [pc EXCEPT ![p] = x],
         UNCHANGED <<queueVars, status, curPacket, pollingMode, intr, local, power>>,
         intr = "none",
         x = "waiting" \/ \A l \in Lists : p \notin Reach(l),
         power = "on" \/ (pc[p] = "polling" /\ "done" \in status[p])
  PROVE  WellLinked' /\ OneInFlight' /\ LinkedIsOutstanding' /\ HandlerInv' /\ PolledInv'
<1>1. /\ \A l \in Lists : Reach(l)' = Reach(l)
      /\ WellLinked'
      /\ QueueEmpty' = QueueEmpty
  BY ListsKept DEF IInv
<1>2. pc'[p] = x /\ \A q \in Client \ {p} : pc'[q] = pc[q]
  BY DEF IInv, TypeOK
<1>3. OneInFlight'
  BY DEF IInv, OneInFlight, queueVars
<1>4. LinkedIsOutstanding'
  BY <1>1, <1>2, ListTypes DEF IInv, LinkedIsOutstanding, Client
<1>5. HandlerInv'
  BY <1>1 DEF IInv, HandlerInv
<1>6. PolledInv'
  <2>1. /\ (pollingMode <=> power \in {"polling", "resumed"})'
        /\ (power # "on" => intr # "callback")'
        /\ (power = "subIntrOff" => intr = "none")'
    BY DEF IInv, PolledInv
  <2>2. ASSUME NEW q \in Client, pc'[q] = "polling"
        PROVE  q # p /\ pc[q] = "polling"
    BY <1>2, <2>2
  <2>3. /\ \A q \in Client : pc'[q] = "polling" =>
             /\ pollingMode'
             /\ q \notin Async
             /\ "done" \notin status'[q] => head'[ListOf[q]] = q
        /\ \A q, r \in Client : pc'[q] = "polling" /\ pc'[r] = "polling" => q = r
    BY <2>2 DEF IInv, PolledInv, queueVars
  <2>4. ASSUME power' # "on"
        PROVE  \/ QueueEmpty' /\ curPacket' = NULL
               \/ \E q \in Client :
                    /\ pc'[q] = "polling"
                    /\ \A l \in Lists : head'[l] = IF l = ListOf[q] THEN q ELSE NULL
                    /\ next'[q] = NULL
                    /\ curPacket' = q \/ intr' = "select"
    <3>1. CASE QueueEmpty /\ curPacket = NULL
      BY <1>1, <3>1
    <3>2. ASSUME NEW q \in Client,
                 /\ pc[q] = "polling"
                 /\ \A l \in Lists : head[l] = IF l = ListOf[q] THEN q ELSE NULL
                 /\ next[q] = NULL
                 /\ curPacket = q \/ intr = "select"
          PROVE  /\ pc'[q] = "polling"
                 /\ \A l \in Lists : head'[l] = IF l = ListOf[q] THEN q ELSE NULL
                 /\ next'[q] = NULL
                 /\ curPacket' = q \/ intr' = "select"
      <4>1. q \in Packet /\ q # NULL /\ ListOf[q] \in Lists /\ q # GetStatus2Cmd
        BY NullAssumption, ListTypes DEF IInv, Client
      <4>2. head[ListOf[q]] = q
        BY <3>2, <4>1
      <4>3. q \in Reach(ListOf[q])
        BY <4>1, <4>2, ListTypes DEF IInv
      <4>4. "done" \notin status[q]
        BY <4>1, <4>3 DEF IInv, LinkedIsOutstanding
      <4>5. q # p
        BY <2>4, <4>4
      <4> QED
        BY <1>2, <3>2, <4>5 DEF queueVars
    <3> QED
      BY <2>4, <3>1, <3>2 DEF IInv, PolledInv
  <2> QED
    BY <2>1, <2>3, <2>4 DEF PolledInv
<1> QED
  BY <1>1, <1>3, <1>4, <1>5, <1>6

\* A submission, wherever it comes from.
LEMMA EnqueueEffect ==
  ASSUME IInv, TypeOK', NEW p \in Client, pc[p] \in {"idle", "checked"}, Enqueue(p),
         pollingMode => QueueEmpty /\ curPacket = NULL
  PROVE  /\ WellLinked' /\ OneInFlight'
         /\ \A l \in Lists : p \notin Reach(l) /\ Reach(l)' \subseteq Reach(l) \cup {p}
         /\ curPacket # NULL => curPacket' = curPacket
         /\ BusBusy /\ ~pollingMode => curPacket' = curPacket
         /\ \A q \in Packet \ {p} : "done" \in status'[q] <=> "done" \in status[q]
         /\ "done" \notin status'[p]
         /\ sema' = [sema EXCEPT ![p] = NULL]
<1>1. p \in Packet /\ p # GetStatus2Cmd /\ p # NULL /\ ListOf[p] \in Lists
  BY NullAssumption, ListTypes DEF IInv, Client
<1>2. \A l \in Lists : p \notin Reach(l)
  BY <1>1 DEF IInv, LinkedIsOutstanding
<1>3. /\ WellLinked'
      /\ \A l \in Lists \ {ListOf[p]} : Reach(l)' = Reach(l) /\ head'[l] = head[l]
      /\ Reach(ListOf[p])' \in {Reach(ListOf[p]), Reach(ListOf[p]) \cup {p}}
      /\ head[ListOf[p]] # NULL => head'[ListOf[p]] = head[ListOf[p]]
      /\ head[ListOf[p]] = NULL => head'[ListOf[p]] = p
  BY <1>2, EnqueueLists DEF IInv
<1>4. \A l \in Lists : Reach(l)' \subseteq Reach(l) \cup {p}
  BY <1>3
<1>5. curPacket # NULL => /\ curPacket \in Packet
                          /\ ListOf[curPacket] \in Lists
                          /\ head[ListOf[curPacket]] = curPacket
                          /\ curPacket # p
  <2>1. curPacket # NULL => /\ curPacket \in Packet
                            /\ ListOf[curPacket] \in Lists
                            /\ head[ListOf[curPacket]] = curPacket
    BY ListTypes DEF IInv, TypeOK, Link, OneInFlight
  <2> QED
    BY <1>2, <2>1, ListTypes DEF IInv
<1> DEFINE st == [status EXCEPT ![p] = {}]
           new == IF pollingMode THEN p
                  ELSE IF BusBusy THEN NULL
                  ELSE SubmitStarts(p, EnqueuedHead(p))
<1>6. /\ sema' = [sema EXCEPT ![p] = NULL]
      /\ head' = EnqueuedHead(p)
      /\ StartPacket(new, st)
  BY DEF Enqueue, ForgottenSema
<1>7. new # NULL => curPacket = NULL /\ new \in Packet /\ head'[ListOf[new]] = new
  <2>1. CASE pollingMode
    BY <1>1, <1>3, <2>1 DEF QueueEmpty
  <2>2. CASE ~pollingMode /\ BusBusy
    BY <2>2
  <2>3. CASE ~pollingMode /\ ~BusBusy
    <3>1. curPacket = NULL
      BY <2>3 DEF BusBusy
    <3>2. new \in {NULL, head'[0], head'[ListOf[p]]}
      BY <1>6, <2>3 DEF SubmitStarts, UnlessNoStart
    <3>3. ASSUME NEW l \in Lists, head'[l] # NULL
          PROVE  head'[l] \in Packet /\ ListOf[head'[l]] = l
      <4>1. head'[l] \in Link /\ next' \in [Packet -> Link]
        BY DEF TypeOK
      <4>2. head'[l] \in ReachFrom(head'[l], next')
        BY <3>3, <4>1, ReachLeast DEF ClosedFrom
      <4> QED
        BY <4>1, <4>2, <1>3, <3>3 DEF WellLinked, Reach, Link
    <3>4. 0 \in Lists
      BY DEF Lists
    <3> QED
      BY <1>1, <3>1, <3>2, <3>3, <3>4
  <2> QED
    BY <2>1, <2>2, <2>3
<1> HIDE DEF new
<1>8. /\ curPacket' = IF new = NULL THEN curPacket ELSE new
      /\ \A q \in Packet : status'[q] = (IF q = p THEN {} ELSE status[q])
                                        \cup (IF q = new THEN {"started"} ELSE {})
  <2>1. curPacket' = IF new = NULL THEN curPacket ELSE new
    BY <1>6 DEF StartPacket
  <2>2. \A q \in Packet : st[q] = IF q = p THEN {} ELSE status[q]
    BY DEF IInv, TypeOK
  <2>3. st \in [Packet -> SUBSET {"started", "retry", "done"}]
    BY <1>1 DEF IInv, TypeOK
  <2>4. CASE new = NULL
    <3>1. status' = st /\ \A q \in Packet : q # new
      BY <1>6, <2>4, NullAssumption DEF StartPacket
    <3> HIDE DEF st
    <3> QED
      BY <2>1, <2>2, <3>1
  <2>5. CASE new # NULL
    <3>1. status' = [st EXCEPT ![new] = st[new] \cup {"started"}] /\ new \in Packet
      BY <1>6, <1>7, <2>5 DEF StartPacket
    <3> HIDE DEF st
    <3>2. \A q \in Packet : status'[q] = st[q] \cup (IF q = new THEN {"started"} ELSE {})
      BY <2>3, <3>1
    <3> QED
      BY <2>1, <2>2, <3>2
  <2> QED
    BY <2>4, <2>5
<1>9. OneInFlight'
  <2>1. \A q \in Packet : "started" \in status[q] <=> q = curPacket
    BY DEF IInv, OneInFlight
  <2>2. \A q \in Packet : "started" \in status'[q] <=> q = curPacket'
    <3>1. CASE new = NULL
      BY <1>1, <1>5, <1>8, <2>1, <3>1, NullAssumption
    <3>2. CASE new # NULL
      BY <1>7, <1>8, <2>1, <3>2, NullAssumption
    <3> QED
      BY <3>1, <3>2
  <2>3. curPacket' # NULL => head'[ListOf[curPacket']] = curPacket'
    BY <1>3, <1>5, <1>7, <1>8
  <2> QED
    BY <2>2, <2>3 DEF OneInFlight
<1>10. /\ \A q \in Packet \ {p} : "done" \in status'[q] <=> "done" \in status[q]
       /\ "done" \notin status'[p]
  BY <1>1, <1>8
<1>11. BusBusy /\ ~pollingMode => curPacket' = curPacket
  BY <1>8 DEF new
<1>12. curPacket # NULL => curPacket' = curPacket
  BY <1>7, <1>8
<1> QED
  BY <1>2, <1>3, <1>4, <1>6, <1>9, <1>10, <1>11, <1>12

\* A packet of a client that is not waiting for it, or that is done, is in no
\* list.
LEMMA NotLinked ==
  ASSUME IInv, NEW p \in Client,
         \/ pc[p] \notin {"accepted", "waiting", "polling"}
         \/ "done" \in status[p]
  PROVE  \A l \in Lists : p \notin Reach(l)
  BY DEF IInv, LinkedIsOutstanding, Client

\* The steps of a client that touch neither the lists nor the bus.
LEMMA CheckKeeps ==
  ASSUME IInv, TypeOK', NEW p \in Client, CheckRebooted(p)
  PROVE  IInv'
<1>1. \A l \in Lists : p \notin Reach(l)
  BY NotLinked DEF CheckRebooted
<1>2. /\ pc' = [pc EXCEPT ![p] = "checked"] /\ pc[p] = "idle"
      /\ intr = "none" /\ power = "on"
      /\ UNCHANGED <<queueVars, status, semaVars, curPacket, pollingMode, intr, local, power>>
  BY DEF CheckRebooted, Schedulable, modeVars, sysVars
<1>3. WellLinked' /\ OneInFlight' /\ LinkedIsOutstanding' /\ HandlerInv' /\ PolledInv'
  BY <1>1, <1>2, ClientMoves
<1>4. pc'[p] = "checked" /\ \A q \in Client \ {p} : pc'[q] = pc[q]
  BY <1>2 DEF IInv, TypeOK
<1>5. SemaInv' /\ TokenInv'
  BY <1>2, <1>4 DEF IInv, SemaInv, TokenInv, semaVars
<1> QED
  BY <1>3, <1>5 DEF IInv

LEMMA WaitKeeps ==
  ASSUME IInv, TypeOK', NEW p \in Client, CmdSyncWait(p)
  PROVE  IInv'
<1>1. /\ pc[p] = "accepted" /\ intr = "none" /\ power = "on"
      /\ UNCHANGED <<queueVars, status, curPacket, pollingMode, intr, local, power, count>>
  BY DEF CmdSyncWait, Schedulable, modeVars, sysVars, semaVars
<1>2. CASE "done" \in status[p]
  <2>1. \A l \in Lists : p \notin Reach(l)
    BY <1>2, NotLinked
  <2>2. pc' = [pc EXCEPT ![p] = "idle"] /\ UNCHANGED semaVars
    BY <1>2 DEF CmdSyncWait
  <2>3. WellLinked' /\ OneInFlight' /\ LinkedIsOutstanding' /\ HandlerInv' /\ PolledInv'
    BY <1>1, <2>1, <2>2, ClientMoves
  <2>4. pc'[p] = "idle" /\ \A q \in Client \ {p} : pc'[q] = pc[q]
    BY <2>2 DEF IInv, TypeOK
  <2>5. SemaInv' /\ TokenInv'
    BY <1>1, <2>2, <2>4 DEF IInv, SemaInv, TokenInv, semaVars
  <2> QED
    BY <2>3, <2>5 DEF IInv
<1>3. CASE "done" \notin status[p]
  <2>1. /\ pc' = [pc EXCEPT ![p] = "waiting"]
        /\ sema' = [sema EXCEPT ![p] = IF sharedFree THEN SharedSema ELSE p]
        /\ sharedFree' = FALSE
    BY <1>3 DEF CmdSyncWait
  <2>2. WellLinked' /\ OneInFlight' /\ LinkedIsOutstanding' /\ HandlerInv' /\ PolledInv'
    BY <1>1, <2>1, ClientMoves
  <2>3. /\ pc'[p] = "waiting" /\ \A q \in Client \ {p} : pc'[q] = pc[q]
        /\ sema'[p] = IF sharedFree THEN SharedSema ELSE p
        /\ \A q \in Packet \ {p} : sema'[q] = sema[q]
        /\ p \in Packet /\ p # NULL /\ p # SharedSema /\ p # GetStatus2Cmd
        /\ SharedSema # NULL
    BY <2>1, PacketAssumption, NullAssumption DEF IInv, TypeOK, Client
  <2>4. SemaInv'
    <3>1. /\ \A q \in Packet : sema'[q] \in {NULL, q, SharedSema}
          /\ sema'[GetStatus2Cmd] = NULL
      BY <2>3, PacketAssumption DEF IInv, SemaInv
    <3>2. ASSUME NEW q \in Client
          PROVE  /\ pc'[q] \in {"waiting", "woken"} => sema'[q] # NULL
                 /\ pc'[q] \in {"waiting", "woken"} /\ sema'[q] = SharedSema => ~sharedFree'
                 /\ pc'[q] \in {"accepted", "polling"} => sema'[q] = NULL
      BY <2>1, <2>3 DEF IInv, SemaInv, Client
    <3>3. ASSUME NEW q \in Client \ {p}, pc[q] \in {"waiting", "woken"}
          PROVE  sema'[q] # sema'[p]
      <4>1. /\ sema'[q] \in {q, SharedSema} /\ q # p
            /\ sema'[q] = SharedSema => ~sharedFree
            /\ q # SharedSema
        BY <2>3, <3>3, PacketAssumption DEF IInv, SemaInv, Client
      <4> QED
        BY <2>3, <4>1
    <3>4. ASSUME NEW q \in Client, NEW r \in Client,
                 pc'[q] \in {"waiting", "woken"}, pc'[r] \in {"waiting", "woken"},
                 sema'[q] = sema'[r]
          PROVE  q = r
      <4>1. CASE q = p \/ r = p
        BY <2>3, <3>3, <3>4, <4>1
      <4>2. CASE q # p /\ r # p
        BY <2>3, <3>4, <4>2 DEF IInv, SemaInv, Client
      <4> QED
        BY <4>1, <4>2
    <3> QED
      BY <3>1, <3>2, <3>4 DEF SemaInv
  <2>5. TokenInv'
    BY <1>1, <2>3 DEF IInv, TokenInv, Client
  <2> QED
    BY <2>2, <2>4, <2>5 DEF IInv
<1> QED
  BY <1>2, <1>3

LEMMA WakeKeeps ==
  ASSUME IInv, TypeOK', NEW p \in Client, CmdSyncWake(p)
  PROVE  IInv'
<1>1. /\ pc[p] = "waiting" /\ intr = "none" /\ power = "on"
      /\ pc' = [pc EXCEPT ![p] = "woken"]
      /\ count[sema[p]] = 1 /\ count' = [count EXCEPT ![sema[p]] = 0]
      /\ UNCHANGED <<queueVars, status, curPacket, pollingMode, intr, local, power,
                     sema, sharedFree>>
  BY DEF CmdSyncWake, Schedulable, modeVars, sysVars
<1>2. sema[p] \in SemaId /\ p \in Packet
  BY <1>1 DEF IInv, SemaInv, SemaId, Client
<1>3. "done" \in status[p]
  BY <1>1, <1>2 DEF IInv, TokenInv, SemaInv
<1>4. WellLinked' /\ OneInFlight' /\ LinkedIsOutstanding' /\ HandlerInv' /\ PolledInv'
  BY <1>1, <1>3, NotLinked, ClientMoves
<1>5. /\ pc'[p] = "woken" /\ \A q \in Client \ {p} : pc'[q] = pc[q]
      /\ count'[sema[p]] = 0 /\ \A s \in SemaId \ {sema[p]} : count'[s] = count[s]
  BY <1>1, <1>2 DEF IInv, TypeOK
<1>6. SemaInv'
  BY <1>1, <1>5 DEF IInv, SemaInv
<1>7. TokenInv'
  BY <1>1, <1>3, <1>5 DEF IInv, TokenInv
<1> QED
  BY <1>4, <1>6, <1>7 DEF IInv

LEMMA ReleaseKeeps ==
  ASSUME IInv, TypeOK', NEW p \in Client, CmdSyncRelease(p)
  PROVE  IInv'
<1>1. /\ pc[p] = "woken" /\ intr = "none" /\ power = "on"
      /\ pc' = [pc EXCEPT ![p] = "idle"]
      /\ sharedFree' = (sharedFree \/ sema[p] = SharedSema)
      /\ UNCHANGED <<queueVars, status, curPacket, pollingMode, intr, local, power,
                     sema, count>>
  BY DEF CmdSyncRelease, Schedulable, modeVars, sysVars
<1>2. "done" \in status[p]
  BY <1>1 DEF IInv, TokenInv
<1>3. WellLinked' /\ OneInFlight' /\ LinkedIsOutstanding' /\ HandlerInv' /\ PolledInv'
  BY <1>1, <1>2, NotLinked, ClientMoves
<1>4. pc'[p] = "idle" /\ \A q \in Client \ {p} : pc'[q] = pc[q]
  BY <1>1 DEF IInv, TypeOK
<1>5. SemaInv'
  <2>1. ASSUME NEW q \in Client, pc'[q] \in {"waiting", "woken"}, sema[q] = SharedSema
        PROVE  ~sharedFree'
    BY <1>1, <1>4, <2>1 DEF IInv, SemaInv
  <2> QED
    BY <1>1, <1>4, <2>1 DEF IInv, SemaInv
<1>6. TokenInv'
  BY <1>1, <1>4 DEF IInv, TokenInv
<1> QED
  BY <1>3, <1>5, <1>6 DEF IInv

LEMMA PollKeeps ==
  ASSUME IInv, TypeOK', NEW p \in Client, CmdSyncPoll(p) \/ CmdSyncPolled(p)
  PROVE  IInv'
<1>1. /\ pc[p] \in {"accepted", "polling"} /\ intr = "none" /\ "done" \in status[p]
      /\ power = "on" \/ pc[p] = "polling"
      /\ pc' = [pc EXCEPT ![p] = "idle"]
      /\ UNCHANGED <<queueVars, status, curPacket, pollingMode, intr, local, power, semaVars>>
  BY DEF CmdSyncPoll, CmdSyncPolled, Schedulable, modeVars, sysVars
<1>2. WellLinked' /\ OneInFlight' /\ LinkedIsOutstanding' /\ HandlerInv' /\ PolledInv'
  BY <1>1, NotLinked, ClientMoves
<1>3. pc'[p] = "idle" /\ \A q \in Client \ {p} : pc'[q] = pc[q]
  BY <1>1 DEF IInv, TypeOK
<1>4. SemaInv' /\ TokenInv'
  BY <1>1, <1>3 DEF IInv, SemaInv, TokenInv, semaVars
<1> QED
  BY <1>2, <1>4 DEF IInv

\* What every submission keeps; x is where it leaves its client.
LEMMA SubmitKeeps ==
  ASSUME IInv, TypeOK', NEW p \in Client, NEW x \in {"accepted", "polling"},
         pc[p] \in {"idle", "checked"}, pc' = [pc EXCEPT ![p] = x], Enqueue(p),
         UNCHANGED <<sharedFree, count, pollingMode, intr, local, power>>,
         pollingMode => QueueEmpty /\ curPacket = NULL,
         intr = "none" \/ (~pollingMode /\ p # local.packet)
  PROVE  /\ WellLinked' /\ OneInFlight' /\ LinkedIsOutstanding' /\ HandlerInv'
         /\ SemaInv' /\ TokenInv'
<1>1. /\ WellLinked' /\ OneInFlight'
      /\ \A l \in Lists : p \notin Reach(l) /\ Reach(l)' \subseteq Reach(l) \cup {p}
      /\ curPacket # NULL => curPacket' = curPacket
      /\ BusBusy /\ ~pollingMode => curPacket' = curPacket
      /\ \A q \in Packet \ {p} : "done" \in status'[q] <=> "done" \in status[q]
      /\ "done" \notin status'[p]
      /\ sema' = [sema EXCEPT ![p] = NULL]
  BY EnqueueEffect
<1>2. /\ p \in Packet /\ p # GetStatus2Cmd
      /\ pc'[p] = x /\ \A q \in Client \ {p} : pc'[q] = pc[q]
      /\ sema'[p] = NULL /\ \A q \in Packet \ {p} : sema'[q] = sema[q]
  BY <1>1 DEF IInv, TypeOK, Client
<1>3. LinkedIsOutstanding'
  <2>1. ASSUME NEW l \in Lists, NEW q \in Reach(l)' \ {GetStatus2Cmd}
        PROVE  pc'[q] \in {"accepted", "waiting", "polling"} /\ "done" \notin status'[q]
    <3>1. CASE q = p
      BY <1>1, <1>2, <3>1
    <3>2. CASE q # p
      <4>1. q \in Reach(l) /\ q \in Client
        BY <1>1, <2>1, <3>2, ListTypes DEF IInv, Client
      <4> QED
        BY <1>1, <1>2, <3>2, <4>1 DEF IInv, LinkedIsOutstanding, Client
    <3> QED
      BY <3>1, <3>2
  <2> QED
    BY <2>1 DEF LinkedIsOutstanding
<1>4. HandlerInv'
  <2>1. intr # "none" => curPacket' = NULL
    BY <1>1 DEF IInv, HandlerInv, BusBusy
  <2>2. ASSUME intr = "callback"
        PROVE  /\ local.packet \in Async
               /\ pc'[local.packet] \in {"accepted", "waiting"}
               /\ \A l \in Lists : local.packet \notin Reach(l)'
    BY <1>1, <1>2, <2>2, CommandAssumption DEF IInv, HandlerInv
  <2>3. \A l \in Lists : GetStatus2Cmd \in Reach(l)' => curPacket' = GetStatus2Cmd
    BY <1>1, <1>2, PacketAssumption, NullAssumption DEF IInv, HandlerInv
  <2> QED
    BY <2>1, <2>2, <2>3 DEF IInv, HandlerInv
<1>5. SemaInv'
  BY <1>2, PacketAssumption DEF IInv, SemaInv, Client
<1>6. TokenInv'
  <2>1. \A q \in Client : pc[q] \in {"waiting", "woken"} =>
          /\ q # p /\ pc'[q] = pc[q] /\ sema'[q] = sema[q]
          /\ "done" \in status'[q] <=> "done" \in status[q]
    BY <1>1, <1>2 DEF Client
  <2>2. \A q \in Client : pc'[q] \in {"waiting", "woken"} => pc[q] = pc'[q]
    BY <1>2
  <2> QED
    BY <2>1, <2>2 DEF IInv, TokenInv
<1> QED
  BY <1>1, <1>3, <1>4, <1>5, <1>6

LEMMA ExecAsyncKeeps ==
  ASSUME IInv, TypeOK', NEW p \in Client, CmdExecAsync(p)
  PROVE  IInv'
<1>1. /\ pc[p] = "checked" /\ pc' = [pc EXCEPT ![p] = "accepted"] /\ Enqueue(p)
      /\ intr = "none" /\ power = "on"
      /\ UNCHANGED <<sharedFree, count, pollingMode, intr, local, power>>
  BY DEF CmdExecAsync, Schedulable, modeVars, sysVars
<1>2. ~pollingMode
  BY <1>1 DEF IInv, PolledInv
<1>3. /\ WellLinked' /\ OneInFlight' /\ LinkedIsOutstanding' /\ HandlerInv'
      /\ SemaInv' /\ TokenInv'
  BY <1>1, <1>2, SubmitKeeps
<1>4. pc'[p] = "accepted" /\ \A q \in Client \ {p} : pc'[q] = pc[q]
  BY <1>1 DEF IInv, TypeOK
<1>5. PolledInv'
  BY <1>1, <1>2, <1>4 DEF IInv, PolledInv
<1> QED
  BY <1>3, <1>5 DEF IInv

LEMMA CallbackSubmitKeeps ==
  ASSUME IInv, TypeOK', NEW p \in Client, CallbackSubmit(p)
  PROVE  IInv'
<1>1. /\ pc[p] = "idle" /\ pc' = [pc EXCEPT ![p] = "accepted"] /\ Enqueue(p)
      /\ intr = "callback" /\ p # local.packet
      /\ UNCHANGED <<sharedFree, count, pollingMode, intr, local, power>>
  BY DEF CallbackSubmit, modeVars, sysVars
<1>2. ~pollingMode /\ power = "on"
  BY <1>1 DEF IInv, PolledInv
<1>3. /\ WellLinked' /\ OneInFlight' /\ LinkedIsOutstanding' /\ HandlerInv'
      /\ SemaInv' /\ TokenInv'
  BY <1>1, <1>2, SubmitKeeps
<1>4. pc'[p] = "accepted" /\ \A q \in Client \ {p} : pc'[q] = pc[q]
  BY <1>1 DEF IInv, TypeOK
<1>5. PolledInv'
  BY <1>1, <1>2, <1>4 DEF IInv, PolledInv
<1> QED
  BY <1>3, <1>5 DEF IInv

\* The polled packet is alone in the queue and on the bus.
LEMMA ExecPolledKeeps ==
  ASSUME IInv, TypeOK', NEW p \in Client, CmdExecPolled(p)
  PROVE  IInv'
<1>1. /\ pc[p] = "idle" /\ pc' = [pc EXCEPT ![p] = "polling"] /\ Enqueue(p)
      /\ pollingMode /\ intr = "none" /\ p \notin Async
      /\ \A q \in Client : pc[q] # "polling"
      /\ UNCHANGED <<sharedFree, count, pollingMode, intr, local, power>>
  BY DEF CmdExecPolled, modeVars, sysVars
<1>2. QueueEmpty /\ curPacket = NULL /\ power \in {"polling", "resumed"}
  BY <1>1 DEF IInv, PolledInv
<1>3. /\ WellLinked' /\ OneInFlight' /\ LinkedIsOutstanding' /\ HandlerInv'
      /\ SemaInv' /\ TokenInv'
  BY <1>1, <1>2, SubmitKeeps
<1>4. pc'[p] = "polling" /\ \A q \in Client \ {p} : pc'[q] = pc[q]
  BY <1>1 DEF IInv, TypeOK
<1>5. /\ p \in Packet /\ p # NULL /\ ListOf[p] \in Lists
      /\ \A l \in Lists : p \notin Reach(l)
  BY <1>1, NotLinked, NullAssumption, ListTypes DEF IInv, Client
<1>6. /\ \A l \in Lists \ {ListOf[p]} : head'[l] = head[l]
      /\ head[ListOf[p]] = NULL => head'[ListOf[p]] = p /\ next'[p] = NULL
  BY <1>1, <1>5, EnqueueLists DEF IInv
<1>7. /\ \A l \in Lists : head'[l] = IF l = ListOf[p] THEN p ELSE NULL
      /\ next'[p] = NULL
  BY <1>2, <1>5, <1>6 DEF QueueEmpty
<1>8. curPacket' = p
  BY <1>1, <1>5 DEF Enqueue, StartPacket
<1>9. PolledInv'
  <2>1. \A q \in Client : pc'[q] = "polling" => q = p
    BY <1>1, <1>4
  <2>2. ASSUME NEW q \in Client, pc'[q] = "polling"
        PROVE  pollingMode' /\ q \notin Async /\ head'[ListOf[q]] = q
    BY <1>1, <1>5, <1>7, <2>1, <2>2
  <2>3. \E q \in Client :
          /\ pc'[q] = "polling"
          /\ \A l \in Lists : head'[l] = IF l = ListOf[q] THEN q ELSE NULL
          /\ next'[q] = NULL
          /\ curPacket' = q \/ intr' = "select"
    BY <1>4, <1>7, <1>8
  <2> QED
    BY <1>1, <1>2, <2>1, <2>2, <2>3 DEF PolledInv
<1> QED
  BY <1>3, <1>9 DEF IInv

\* A cancelled packet is not on the bus.
LEMMA CancelKeeps ==
  ASSUME IInv, TypeOK', NEW p \in Client, CmdCancel(p)
  PROVE  IInv'
<1>1. /\ pc[p] = "accepted" /\ pc' = [pc EXCEPT ![p] = "idle"]
      /\ intr = "none" /\ power = "on" /\ "started" \notin status[p]
      /\ UNCHANGED <<status, semaVars, curPacket, pollingMode, intr, local, power>>
  BY DEF CmdCancel, Schedulable, modeVars, sysVars, MayCancel
<1>2. /\ WellLinked'
      /\ \A l \in Lists : Reach(l)' = Reach(l) \ {p}
      /\ \A l \in Lists : head[l] # p => head'[l] = head[l]
  BY CancelLists DEF IInv
<1>3. /\ pc'[p] = "idle" /\ \A q \in Client \ {p} : pc'[q] = pc[q]
      /\ p \in Packet /\ p # GetStatus2Cmd /\ p # curPacket
  BY <1>1 DEF IInv, TypeOK, Client, OneInFlight
<1>4. OneInFlight'
  <2>1. curPacket # NULL => curPacket \in Packet /\ ListOf[curPacket] \in Lists
    BY ListTypes DEF IInv, TypeOK, Link
  <2> QED
    BY <1>1, <1>2, <1>3, <2>1 DEF IInv, OneInFlight
<1>5. LinkedIsOutstanding'
  BY <1>1, <1>2, <1>3, ListTypes DEF IInv, LinkedIsOutstanding, Client
<1>6. HandlerInv'
  BY <1>1, <1>2 DEF IInv, HandlerInv
<1>7. PolledInv'
  BY <1>1, <1>3 DEF IInv, PolledInv
<1>8. SemaInv' /\ TokenInv'
  BY <1>1, <1>3 DEF IInv, SemaInv, TokenInv, semaVars
<1> QED
  BY <1>2, <1>4, <1>5, <1>6, <1>7, <1>8 DEF IInv

\* Suspend and resume.
LEMMA PowerKeeps ==
  ASSUME IInv, TypeOK', EventSuspend \/ EventPollingOn \/ EventResume \/ EventPollingOff
  PROVE  IInv'
<1>1. /\ intr = "none"
      /\ UNCHANGED <<queueVars, status, semaVars, curPacket, intr, local, pc>>
  BY DEF EventSuspend, EventPollingOn, EventResume, EventPollingOff, Schedulable, IInv, PolledInv
<1>2. /\ \A l \in Lists : Reach(l)' = Reach(l)
      /\ WellLinked'
      /\ QueueEmpty' = QueueEmpty
  BY <1>1, ListsKept DEF IInv
<1>3. OneInFlight' /\ LinkedIsOutstanding'
  BY <1>1, <1>2 DEF IInv, OneInFlight, LinkedIsOutstanding, queueVars
<1>4. HandlerInv'
  BY <1>1, <1>2 DEF IInv, HandlerInv
<1>5. SemaInv' /\ TokenInv'
  BY <1>1 DEF IInv, SemaInv, TokenInv, semaVars
<1>6. PolledInv'
  <2>1. CASE EventSuspend
    BY <1>1, <1>2, <2>1 DEF IInv, PolledInv, EventSuspend, Schedulable, modeVars, queueVars
  <2>2. CASE EventPollingOn
    BY <1>1, <1>2, <2>2 DEF IInv, PolledInv, EventPollingOn, queueVars
  <2>3. CASE EventResume
    BY <1>1, <1>2, <2>3 DEF IInv, PolledInv, EventResume, modeVars, queueVars
  <2>4. CASE EventPollingOff
    BY <1>1, <1>2, <2>4 DEF IInv, PolledInv, EventPollingOff, queueVars
  <2> QED
    BY <2>1, <2>2, <2>3, <2>4
<1> QED
  BY <1>2, <1>3, <1>4, <1>5, <1>6 DEF IInv

\* The packet on the bus, and who may have put it there.
LEMMA OnTheBus ==
  ASSUME IInv, curPacket # NULL
  PROVE  /\ curPacket \in Packet /\ ListOf[curPacket] \in Lists
         /\ head[ListOf[curPacket]] = curPacket
         /\ curPacket \in Reach(ListOf[curPacket])
         /\ curPacket # GetStatus2Cmd =>
              /\ curPacket \in Client
              /\ pc[curPacket] \in {"accepted", "waiting", "polling"}
              /\ "done" \notin status[curPacket]
<1>1. curPacket \in Packet /\ ListOf[curPacket] \in Lists
  BY ListTypes DEF IInv, TypeOK, Link
<1>2. head[ListOf[curPacket]] = curPacket
  BY DEF IInv, OneInFlight
<1>3. curPacket \in Reach(ListOf[curPacket])
  BY <1>1, <1>2, ListTypes DEF IInv
<1> QED
  BY <1>1, <1>2, <1>3 DEF IInv, LinkedIsOutstanding, Client

LEMMA GpioIntrKeeps ==
  ASSUME IInv, TypeOK', NEW again \in BOOLEAN, NEW enable \in BOOLEAN,
         GpioIntr(again, enable)
  PROVE  IInv'
<1>0. PICK p \in Packet : p = curPacket
  BY OnTheBus DEF GpioIntr
<1>1. /\ p # NULL /\ p = curPacket /\ intr = "none"
      /\ power = "on" \/ \E q \in Client : pc[q] = "polling"
      /\ enable => ~pollingMode
      /\ curPacket' = NULL
      /\ UNCHANGED <<semaVars, pollingMode, pc, power>>
  BY <1>0 DEF GpioIntr, EndCurrent, WantsStatus2, modeVars, sysVars
<1>2. /\ p \in Packet /\ ListOf[p] \in Lists
      /\ head[ListOf[p]] = p /\ p \in Reach(ListOf[p])
      /\ p # GetStatus2Cmd =>
           /\ p \in Client
           /\ pc[p] \in {"accepted", "waiting", "polling"}
           /\ "done" \notin status[p]
  BY <1>1, OnTheBus
<1>3. power # "subIntrOff"
  BY <1>1 DEF IInv, PolledInv
<1>4. power # "on" =>
        /\ p \in Client /\ pc[p] = "polling" /\ p \notin Async
        /\ \A l \in Lists : head[l] = IF l = ListOf[p] THEN p ELSE NULL
        /\ next[p] = NULL
        /\ \A q \in Client : pc[q] = "polling" => q = p
  BY <1>1 DEF IInv, PolledInv
<1>5. \A q \in Client : pc[q] = "polling" => q = p
  BY <1>4 DEF IInv, PolledInv
<1>6. SemaInv'
  BY <1>1 DEF IInv, SemaInv, semaVars
<1>7. CASE Retries(p, again)
  <2>1. /\ p \in Client
        /\ status' = [status EXCEPT ![p] = (status[p] \ {"started"}) \cup {"retry"}]
        /\ intr' = "select"
        /\ local' = [packet |-> p, enable |-> enable, unk0 |-> 2, semaId |-> NULL]
        /\ UNCHANGED queueVars
    BY <1>0, <1>7, CommandAssumption DEF GpioIntr, EndCurrent, Retries
  <2>2. /\ \A l \in Lists : Reach(l)' = Reach(l)
        /\ WellLinked'
        /\ QueueEmpty' = QueueEmpty
    BY <2>1, ListsKept DEF IInv
  <2>3. /\ \A q \in Packet : "done" \in status'[q] <=> "done" \in status[q]
        /\ \A q \in Packet \ {p} : status'[q] = status[q]
        /\ "started" \notin status'[p]
    BY <1>2, <2>1 DEF IInv, TypeOK
  <2>4. OneInFlight'
    BY <1>1, <2>3, NullAssumption DEF IInv, OneInFlight
  <2>5. LinkedIsOutstanding'
    BY <1>1, <2>2, <2>3, ListTypes DEF IInv, LinkedIsOutstanding
  <2>6. HandlerInv'
    <3>1. local'.packet = p /\ local'.enable = enable
      BY <2>1
    <3>2. \A l \in Lists : GetStatus2Cmd \notin Reach(l)
      BY <1>1, <2>1 DEF IInv, HandlerInv, Client
    <3> QED
      BY <1>1, <1>2, <2>1, <2>2, <3>1, <3>2 DEF HandlerInv
  <2>7. PolledInv'
    BY <1>1, <1>2, <1>3, <1>4, <2>1, <2>3 DEF IInv, PolledInv, queueVars, Client
  <2>8. TokenInv'
    BY <1>1, <2>1, <2>3 DEF IInv, TokenInv, semaVars, Client
  <2> QED
    BY <1>6, <2>2, <2>4, <2>5, <2>6, <2>7, <2>8 DEF IInv
<1>8. CASE ~Retries(p, again)
  <2>1. /\ Dequeue(p)
        /\ intr' = IF p \in Async THEN "callback" ELSE "select"
        /\ local' = [packet |-> p, enable |-> enable, unk0 |-> 0, semaId |-> sema[p]]
    BY <1>0, <1>8 DEF GpioIntr, EndCurrent
  <2>2. /\ WellLinked'
        /\ \A l \in Lists \ {ListOf[p]} : Reach(l)' = Reach(l) /\ head'[l] = head[l]
        /\ Reach(ListOf[p])' = Reach(ListOf[p]) \ {p}
        /\ head'[ListOf[p]] = next[p]
    BY <1>2, <2>1, DequeueLists DEF IInv
  <2>3. \A l \in Lists : Reach(l)' = Reach(l) \ {p} /\ Reach(l) \subseteq Packet
    BY <2>2, OwnListOnly, ListTypes DEF IInv
  <2>4. /\ \A q \in Packet \ {p} : status'[q] = status[q]
        /\ "started" \notin status'[p] /\ "done" \in status'[p]
    BY <1>2, <2>1 DEF Dequeue, DequeuedStatus, IInv, TypeOK
  <2>5. local'.packet = p /\ local'.enable = enable /\ local'.semaId = sema[p]
    BY <2>1
  <2>6. OneInFlight'
    BY <1>1, <2>4, NullAssumption DEF IInv, OneInFlight
  <2>7. LinkedIsOutstanding'
    BY <1>1, <2>3, <2>4 DEF IInv, LinkedIsOutstanding
  <2>8. HandlerInv'
    <3>1. ASSUME intr' = "callback"
          PROVE  p \in Async /\ pc[p] \in {"accepted", "waiting"}
      <4>1. p \in Async /\ p # GetStatus2Cmd
        BY <2>1, <3>1, CommandAssumption DEF Client
      <4>2. pc[p] # "polling"
        BY <1>2, <4>1 DEF IInv, PolledInv
      <4> QED
        BY <1>2, <4>1, <4>2
    <3>2. \A l \in Lists : GetStatus2Cmd \notin Reach(l)'
      BY <1>1, <2>3 DEF IInv, HandlerInv
    <3> QED
      BY <1>1, <1>2, <2>1, <2>3, <2>5, <3>1, <3>2 DEF HandlerInv
  <2>9. PolledInv'
    <3>1. power # "on" => QueueEmpty' /\ intr' = "select"
      BY <1>2, <1>4, <2>1, <2>2 DEF QueueEmpty
    <3>2. ASSUME NEW q \in Client, pc[q] = "polling"
          PROVE  pollingMode /\ q \notin Async /\ "done" \in status'[q]
      BY <1>5, <2>4, <3>2 DEF IInv, PolledInv
    <3> QED
      BY <1>1, <1>3, <1>5, <3>1, <3>2 DEF IInv, PolledInv
  <2>10. TokenInv'
    <3>1. ASSUME NEW q \in Client, "done" \in status[q]
          PROVE  q # p /\ "done" \in status'[q]
      BY <1>2, <2>4, <3>1 DEF Client
    <3>2. ASSUME sema[p] # NULL
          PROVE  p \in Client /\ pc[p] = "waiting"
      BY <1>2, <3>2 DEF IInv, SemaInv
    <3>3. \A s \in SemaId : count'[s] = 1 =>
            \E q \in Client :
              pc'[q] = "waiting" /\ sema'[q] = s /\ "done" \in status'[q] /\ q # local'.packet
      BY <1>1, <2>5, <3>1 DEF IInv, TokenInv, semaVars
    <3>4. \A q \in Client : pc'[q] = "woken" => "done" \in status'[q]
      BY <1>1, <3>1 DEF IInv, TokenInv
    <3>5. local'.semaId # NULL =>
            /\ local'.packet \in Client
            /\ pc'[local'.packet] = "waiting"
            /\ sema'[local'.packet] = local'.semaId
            /\ "done" \in status'[local'.packet]
      BY <1>1, <2>4, <2>5, <3>2 DEF semaVars
    <3> QED
      BY <3>3, <3>4, <3>5 DEF TokenInv
  <2> QED
    BY <1>6, <2>2, <2>6, <2>7, <2>8, <2>9, <2>10 DEF IInv
<1> QED
  BY <1>7, <1>8

LEMMA CallbackReturnKeeps ==
  ASSUME IInv, TypeOK', NEW r \in {0, 1}, CallbackReturn(r)
  PROVE  IInv'
<1>0. PICK p \in Packet : p = local.packet
  BY DEF CallbackReturn, IInv, HandlerInv
<1>1. /\ intr = "callback" /\ intr' = "select"
      /\ UNCHANGED <<semaVars, curPacket, pollingMode, pc, power>>
  BY DEF CallbackReturn, modeVars, sysVars
<1>2. /\ p = local.packet
      /\ curPacket = NULL /\ power = "on" /\ ~pollingMode
      /\ p \in Packet /\ p \in Client /\ pc[p] \in {"accepted", "waiting"}
      /\ \A l \in Lists : p \notin Reach(l)
  BY <1>0, <1>1, CommandAssumption DEF IInv, HandlerInv, PolledInv, Client
<1>3. /\ local'.packet = p /\ local'.enable = local.enable
      /\ local'.semaId = IF r = 0 THEN local.semaId ELSE NULL
  BY <1>0 DEF CallbackReturn, IInv, TypeOK
<1>4. SemaInv'
  BY <1>1 DEF IInv, SemaInv, semaVars
<1>5. PolledInv'
  BY <1>1, <1>2 DEF IInv, PolledInv
<1>6. CASE r = 0
  <2>1. UNCHANGED <<queueVars, status>>
    BY <1>6 DEF CallbackReturn
  <2>2. \A l \in Lists : Reach(l)' = Reach(l)
    BY <2>1, ListsKept
  <2>3. WellLinked' /\ OneInFlight' /\ LinkedIsOutstanding'
    <3>1. WellLinked'
      BY <2>1, ListsKept DEF IInv
    <3>2. OneInFlight'
      BY <1>1, <2>1 DEF IInv, OneInFlight, queueVars
    <3>3. LinkedIsOutstanding'
      BY <1>1, <2>1, <2>2 DEF IInv, LinkedIsOutstanding
    <3> QED
      BY <3>1, <3>2, <3>3
  <2>4. HandlerInv'
    BY <1>1, <1>2, <1>3, <2>2 DEF IInv, HandlerInv
  <2>5. TokenInv'
    BY <1>1, <1>2, <1>3, <1>6, <2>1 DEF IInv, TokenInv, semaVars
  <2> QED
    BY <1>4, <1>5, <2>3, <2>4, <2>5 DEF IInv
<1>7. CASE r = 1
  <2>1. RequeueFirst(p) /\ status' = [status EXCEPT ![p] = status[p] \ {"done"}]
    BY <1>0, <1>7 DEF CallbackReturn, RequeuedStatus
  <2>2. /\ WellLinked'
        /\ \A l \in Lists \ {ListOf[p]} : Reach(l)' = Reach(l) /\ head'[l] = head[l]
        /\ Reach(ListOf[p])' = Reach(ListOf[p]) \cup {p}
    BY <1>2, <2>1, PushLists DEF IInv
  <2>3. \A l \in Lists : Reach(l)' \subseteq Reach(l) \cup {p} /\ Reach(l) \subseteq Packet
    BY <2>2, ListTypes DEF IInv
  <2>4. /\ \A q \in Packet \ {p} : status'[q] = status[q]
        /\ "done" \notin status'[p]
        /\ "started" \in status'[p] <=> "started" \in status[p]
    BY <1>2, <2>1 DEF IInv, TypeOK
  <2>5. OneInFlight'
    BY <1>1, <1>2, <2>4 DEF IInv, OneInFlight
  <2>6. LinkedIsOutstanding'
    <3>1. ASSUME NEW l \in Lists, NEW q \in Reach(l)' \ {GetStatus2Cmd}
          PROVE  pc'[q] \in {"accepted", "waiting", "polling"} /\ "done" \notin status'[q]
      <4>1. CASE q = p
        BY <1>1, <1>2, <2>4, <4>1
      <4>2. CASE q # p
        BY <1>1, <2>3, <2>4, <3>1, <4>2 DEF IInv, LinkedIsOutstanding
      <4> QED
        BY <4>1, <4>2
    <3> QED
      BY <3>1 DEF LinkedIsOutstanding
  <2>7. HandlerInv'
    <3>1. \A l \in Lists : GetStatus2Cmd \notin Reach(l)'
      BY <1>2, <2>3, PacketAssumption, NullAssumption DEF IInv, HandlerInv, Client
    <3> QED
      BY <1>1, <1>2, <1>3, <3>1 DEF IInv, HandlerInv
  <2>8. TokenInv'
    <3>1. ASSUME NEW q \in Client, q # p, "done" \in status[q]
          PROVE  "done" \in status'[q]
      BY <2>4, <3>1 DEF Client
    <3> QED
      BY <1>1, <1>2, <1>3, <1>7, <3>1 DEF IInv, TokenInv, semaVars
  <2> QED
    BY <1>4, <1>5, <2>2, <2>5, <2>6, <2>7, <2>8 DEF IInv
<1> QED
  BY <1>6, <1>7

\* The packet chosen to run next heads one of the lists.
LEMMA NextHeadsList ==
  ASSUME TypeOK, NEW h \in [Lists -> Link], NEW early \in BOOLEAN
  PROVE  NextPacket(h, early) = NULL \/ \E l \in Lists : NextPacket(h, early) = h[l]
<1>1. \A i \in 0..2 : RotationList(i) \in Lists
  BY DEF TypeOK, RotationList, Lists
<1>2. CASE h[0] # NULL
  BY <1>2 DEF NextPacket, Lists
<1>3. CASE h[0] = NULL /\ ~\A i \in 0..2 : h[RotationList(i)] = NULL
  <2> DEFINE First(j) == /\ h[RotationList(j)] # NULL
                         /\ \A k \in 0..2 : k < j => h[RotationList(k)] = NULL
             i == CHOOSE j \in 0..2 : First(j)
  <2>1. First(0) \/ First(1) \/ First(2)
    BY <1>3
  <2>2. i \in 0..2
    BY <2>1
  <2>3. NextPacket(h, early) \in {NULL, h[RotationList(i)]}
    BY <1>3 DEF NextPacket
  <2> QED
    BY <1>1, <2>2, <2>3
<1>4. CASE h[0] = NULL /\ \A i \in 0..2 : h[RotationList(i)] = NULL
  BY <1>4 DEF NextPacket
<1> QED
  BY <1>2, <1>3, <1>4

\* In polling mode the only packet queued is found, whatever its list.
LEMMA NextPolled ==
  ASSUME TypeOK, pollingMode, NEW p \in Packet, NEW early \in BOOLEAN,
         \A l \in Lists : head[l] = IF l = ListOf[p] THEN p ELSE NULL
  PROVE  NextPacket(head, early) = p
<1>1. p # NULL /\ ListOf[p] \in 0..3
  BY NullAssumption, CommandAssumption DEF Lists
<1>2. CASE ListOf[p] = 0
  BY <1>1, <1>2 DEF NextPacket, Lists
<1>3. CASE ListOf[p] # 0
  <2>1. head[0] = NULL
    BY <1>3 DEF Lists
  <2>2. \E i \in 0..2 : RotationList(i) = ListOf[p]
    BY <1>1, <1>3 DEF TypeOK, RotationList
  <2>3. \A i \in 0..2 : RotationList(i) \in Lists
    BY DEF TypeOK, RotationList, Lists
  <2> DEFINE First(j) == /\ head[RotationList(j)] # NULL
                         /\ \A k \in 0..2 : k < j => head[RotationList(k)] = NULL
             i == CHOOSE j \in 0..2 : First(j)
  <2>4. ~\A j \in 0..2 : head[RotationList(j)] = NULL
    BY <1>1, <2>2, <2>3
  <2>5. First(0) \/ First(1) \/ First(2)
    BY <2>4
  <2>6. i \in 0..2 /\ head[RotationList(i)] # NULL
    BY <2>5
  <2>7. head[RotationList(i)] = p
    BY <2>3, <2>6
  <2>8. NextPacket(head, early) = head[RotationList(i)]
    BY <2>1, <2>4 DEF NextPacket, HeldBack
  <2> QED
    BY <2>7, <2>8
<1> QED
  BY <1>2, <1>3

LEMMA SelectNextKeeps ==
  ASSUME IInv, TypeOK', NEW early \in BOOLEAN, SelectNext(early)
  PROVE  IInv'
<1>1. /\ intr = "select" /\ intr' = "none" /\ curPacket = NULL
      /\ local' = NoLocal
      /\ UNCHANGED <<sema, sharedFree, pollingMode, pc, power>>
  BY DEF SelectNext, modeVars, sysVars, IInv, HandlerInv
<1>2. /\ \A l \in Lists : GetStatus2Cmd \notin Reach(l)
      /\ \A l \in Lists : Reach(l) \subseteq Packet
      /\ GetStatus2Cmd \in Packet /\ GetStatus2Cmd # NULL /\ ListOf[GetStatus2Cmd] = 0
      /\ power # "subIntrOff"
  BY <1>1, PacketAssumption, NullAssumption, CommandAssumption, ListTypes
     DEF IInv, HandlerInv, PolledInv
<1>3. /\ WellLinked'
      /\ \A l \in Lists : Reach(l)' \subseteq Reach(l) \cup {GetStatus2Cmd}
      /\ AddsStatus2 => head'[0] = GetStatus2Cmd
      /\ ~AddsStatus2 => UNCHANGED queueVars /\ \A l \in Lists : Reach(l)' = Reach(l)
  <2>1. CASE AddsStatus2
    <3>1. RequeueFirst(GetStatus2Cmd)
      BY <1>2, <2>1 DEF SelectNext, SelectHead, RequeueFirst
    <3> QED
      BY <1>2, <2>1, <3>1, PushLists DEF IInv
  <2>2. CASE ~AddsStatus2
    <3>1. UNCHANGED queueVars
      BY <2>2 DEF SelectNext, SelectHead, queueVars
    <3> QED
      BY <2>2, <3>1, ListsKept DEF IInv
  <2> QED
    BY <2>1, <2>2
<1>4. PICK n \in Link : n = NextPacket(head', early) /\ StartPacket(n, status)
  <2>1. head' = SelectHead /\ head' \in [Lists -> Link]
    BY DEF SelectNext, TypeOK
  <2>2. NextPacket(head', early) \in Link
    BY <2>1, NextHeadsList DEF IInv, Link
  <2> QED
    BY <2>1, <2>2 DEF SelectNext
<1>5. n # NULL => n \in Packet /\ head'[ListOf[n]] = n
  <2>1. head' \in [Lists -> Link] /\ next' \in [Packet -> Link]
    BY DEF TypeOK
  <2>2. ASSUME n # NULL
        PROVE  \E l \in Lists : n = head'[l]
    BY <1>4, <2>1, <2>2, NextHeadsList DEF IInv
  <2>3. ASSUME NEW l \in Lists, head'[l] # NULL
        PROVE  head'[l] \in Packet /\ ListOf[head'[l]] = l
    <3>1. head'[l] \in ReachFrom(head'[l], next')
      BY <2>1, <2>3, ReachLeast DEF ClosedFrom
    <3> QED
      BY <1>3, <2>1, <2>3, <3>1 DEF WellLinked, Reach, Link
  <2> QED
    BY <2>2, <2>3
<1>6. /\ curPacket' = n
      /\ \A q \in Packet : status'[q] = status[q] \cup (IF q = n THEN {"started"} ELSE {})
  <2>1. CASE n = NULL
    BY <1>1, <1>4, <2>1, NullAssumption DEF StartPacket
  <2>2. CASE n # NULL
    <3>1. status' = [status EXCEPT ![n] = status[n] \cup {"started"}] /\ n \in Packet
      BY <1>4, <1>5, <2>2 DEF StartPacket
    <3> QED
      BY <1>4, <2>2, <3>1 DEF StartPacket, IInv, TypeOK
  <2> QED
    BY <2>1, <2>2
<1>7. OneInFlight'
  BY <1>1, <1>5, <1>6, NullAssumption DEF IInv, OneInFlight
<1>8. LinkedIsOutstanding'
  BY <1>1, <1>2, <1>3, <1>6 DEF IInv, LinkedIsOutstanding
<1>9. HandlerInv'
  <2>1. AddsStatus2 => n = GetStatus2Cmd
    BY <1>2, <1>3, <1>4 DEF NextPacket
  <2> QED
    BY <1>1, <1>2, <1>3, <1>6, <2>1 DEF HandlerInv
<1>10. PolledInv'
  <2>1. power # "on" => pollingMode /\ UNCHANGED queueVars
    BY <1>1, <1>2, <1>3 DEF IInv, PolledInv, HandlerInv, AddsStatus2, TypeOK
  <2>2. ASSUME NEW q \in Client, pc'[q] = "polling"
        PROVE  /\ pollingMode'
               /\ q \notin Async
               /\ "done" \notin status'[q] => head'[ListOf[q]] = q
    BY <1>1, <1>6, <2>1, <2>2 DEF IInv, PolledInv, queueVars, Client
  <2>3. ASSUME power' # "on"
        PROVE  \/ QueueEmpty' /\ curPacket' = NULL
               \/ \E q \in Client :
                    /\ pc'[q] = "polling"
                    /\ \A l \in Lists : head'[l] = IF l = ListOf[q] THEN q ELSE NULL
                    /\ next'[q] = NULL
                    /\ curPacket' = q \/ intr' = "select"
    <3>1. CASE QueueEmpty
      <4>1. QueueEmpty'
        BY <1>1, <2>1, <2>3, <3>1 DEF QueueEmpty, queueVars
      <4>2. n = NULL
        BY <1>5, <4>1, CommandAssumption DEF QueueEmpty
      <4> QED
        BY <1>6, <4>1, <4>2
    <3>2. ASSUME NEW q \in Client,
                 /\ pc[q] = "polling"
                 /\ \A l \in Lists : head[l] = IF l = ListOf[q] THEN q ELSE NULL
                 /\ next[q] = NULL
          PROVE  /\ pc'[q] = "polling"
                 /\ \A l \in Lists : head'[l] = IF l = ListOf[q] THEN q ELSE NULL
                 /\ next'[q] = NULL
                 /\ curPacket' = q
      <4>1. q \in Packet /\ pollingMode /\ head' = head /\ next' = next
        BY <1>1, <2>1, <2>3 DEF queueVars, Client
      <4>2. n = q
        BY <1>4, <3>2, <4>1, NextPolled DEF IInv
      <4> QED
        BY <1>1, <1>6, <3>2, <4>1, <4>2
    <3> QED
      BY <1>1, <2>3, <3>1, <3>2 DEF IInv, PolledInv
  <2> QED
    BY <1>1, <1>2, <2>2, <2>3 DEF IInv, PolledInv
<1>11. SemaInv'
  BY <1>1 DEF IInv, SemaInv
<1>12. TokenInv'
  <2>1. \A q \in Client : "done" \in status[q] => "done" \in status'[q]
    BY <1>6 DEF Client
  <2>2. count' = IF Signalled = NULL THEN count ELSE [count EXCEPT ![Signalled] = 1]
    BY DEF SelectNext
  <2>3. Signalled # NULL =>
          /\ local.packet \in Client
          /\ pc[local.packet] = "waiting"
          /\ sema[local.packet] = Signalled
          /\ "done" \in status[local.packet]
    BY <1>1 DEF Signalled, IInv, TokenInv
  <2>4. ASSUME NEW s \in SemaId, count'[s] = 1
        PROVE  \E q \in Client : pc'[q] = "waiting" /\ sema'[q] = s /\ "done" \in status'[q]
    <3>1. CASE Signalled # NULL /\ s = Signalled
      BY <1>1, <2>1, <2>3, <3>1
    <3>2. CASE Signalled = NULL \/ s # Signalled
      <4>1. count[s] = 1
        BY <2>2, <2>4, <3>2 DEF IInv, TypeOK
      <4> QED
        BY <1>1, <2>1, <4>1 DEF IInv, TokenInv
    <3> QED
      BY <3>1, <3>2
  <2>5. \A q \in Client : pc'[q] = "woken" => "done" \in status'[q]
    BY <1>1, <2>1 DEF IInv, TokenInv
  <2> QED
    BY <1>1, <2>4, <2>5 DEF TokenInv
<1> QED
  BY <1>3, <1>7, <1>8, <1>9, <1>10, <1>11, <1>12 DEF IInv

LEMMA IInvNext ==
  ASSUME 2 \notin CallbackResults, IInv, [Next]_vars
  PROVE  IInv'
<1>1. TypeOK'
  BY TypeNext DEF IInv
<1>2. CASE UNCHANGED vars
  <2>1. UNCHANGED <<queueVars, status, semaVars, curPacket, pollingMode, intr, local, pc, power>>
    BY <1>2 DEF vars, queueVars, semaVars
  <2> QED
    BY <1>1, <2>1, QuietStep
<1>3. ASSUME NEW p \in Client, ClientStep(p)
      PROVE  IInv'
  BY <1>1, <1>3, CheckKeeps, ExecAsyncKeeps, WaitKeeps, WakeKeeps, ReleaseKeeps, PollKeeps,
     CancelKeeps, ExecPolledKeeps, CallbackSubmitKeeps DEF ClientStep
<1>4. CASE HandlerStep
  <2>1. \A r \in CallbackResults : r \in {0, 1}
    BY ModeAssumption
  <2> QED
    BY <1>1, <1>4, <2>1, GpioIntrKeeps, CallbackReturnKeeps, SelectNextKeeps DEF HandlerStep
<1>5. CASE SystemStep
  <2>1. CASE \E m \in RetryModes : SetRetryMode(m)
    <3>1. UNCHANGED <<queueVars, status, semaVars, curPacket, pollingMode, intr, local, pc, power>>
      BY <2>1 DEF SetRetryMode, sysVars
    <3> QED
      BY <1>1, <3>1, QuietStep
  <2>2. CASE EventSuspend \/ EventPollingOn \/ EventResume \/ EventPollingOff
    BY <1>1, <2>2, PowerKeeps
  <2>3. CASE RebootBegin \/ RebootDrained \/ RebootEnd
    <3>1. UNCHANGED <<queueVars, status, semaVars, curPacket, pollingMode, intr, local, pc, power>>
      BY <2>3 DEF RebootBegin, RebootDrained, RebootEnd, modeVars, sysVars
    <3> QED
      BY <1>1, <3>1, QuietStep
  <2> QED
    BY <1>5, <2>1, <2>2, <2>3 DEF SystemStep
<1> QED
  BY <1>2, <1>3, <1>4, <1>5 DEF Next

\* Every reachable state satisfies the inductive invariant.
LEMMA Inductive ==
  ASSUME 2 \notin CallbackResults
  PROVE  Spec => []IInv
<1>1. Init => IInv
  BY IInvInit
<1>2. IInv /\ [Next]_vars => IInv'
  BY IInvNext
<1> QED
  BY <1>1, <1>2, PTL DEF Spec

\* Whatever the packets, their lists and the interleaving, as long as no
\* callback re-queues its packet last: one packet is on the bus at a time, it
\* is the one marked started and it heads its own list.
THEOREM OneAtATime ==
  ASSUME 2 \notin CallbackResults
  PROVE  Spec => []OneInFlight
<1>1. IInv => OneInFlight
  BY DEF IInv
<1> QED
  BY <1>1, Inductive, PTL

\* head, tail and next of the four lists always agree, through insertions in
\* the middle, cancellations, retries and re-queueing by callbacks.
THEOREM PointersAgree ==
  ASSUME 2 \notin CallbackResults
  PROVE  Spec => []WellLinked
<1>1. IInv => WellLinked
  BY DEF IInv
<1> QED
  BY <1>1, Inductive, PTL

\* The driver never keeps a pointer to a packet its client has back.
THEOREM NoDanglingPacket ==
  ASSUME 2 \notin CallbackResults
  PROVE  Spec => []LinkedIsOutstanding
<1>1. IInv => LinkedIsOutstanding
  BY DEF IInv
<1> QED
  BY <1>1, Inductive, PTL

\* A semaphore is signalled only for the client that waits on it, and only
\* once that client's packet is done; no two clients share a semaphore.
THEOREM WakeupsAreOwned ==
  ASSUME 2 \notin CallbackResults
  PROVE  Spec => []TokenForDoneWaiter
<1>1. IInv => TokenForDoneWaiter
  <2>1. ASSUME IInv, NEW p \in Client, NEW q \in Client,
               {pc[p], pc[q]} \subseteq {"waiting", "woken"}, sema[p] = sema[q]
        PROVE  p = q
    BY <2>1 DEF IInv, SemaInv
  <2>2. ASSUME IInv
        PROVE  /\ \A s \in SemaId : count[s] = 1 =>
                    \E p \in Client :
                      pc[p] = "waiting" /\ sema[p] = s /\ "done" \in status[p]
               /\ \A p \in Client : pc[p] = "woken" => "done" \in status[p]
    BY <2>2 DEF IInv, TokenInv
  <2> QED
    BY <2>1, <2>2 DEF TokenForDoneWaiter
<1> QED
  BY <1>1, Inductive, PTL

\* No packet crosses the boundary of polling mode, in either direction, and the
\* handler called by a polling client finds its packet current.
THEOREM SleepIsDrained ==
  ASSUME 2 \notin CallbackResults
  PROVE  Spec => []PolledIsDrained
<1>1. ASSUME IInv, intr = "none", NEW p \in Client, pc[p] = "polling", "done" \notin status[p]
      PROVE  curPacket = p
  <2>1. power # "on"
    BY <1>1 DEF IInv, PolledInv
  <2>2. head[ListOf[p]] = p /\ p # NULL /\ ListOf[p] \in Lists
    BY <1>1, NullAssumption, ListTypes DEF IInv, PolledInv, Client
  <2>3. ~QueueEmpty
    BY <2>2 DEF QueueEmpty
  <2> QED
    BY <1>1, <2>1, <2>3 DEF IInv, PolledInv
<1>2. ASSUME IInv, intr = "none", power # "on"
      PROVE  QueueEmpty \/ \E p \in Client : pc[p] = "polling" /\ p = curPacket
  BY <1>2 DEF IInv, PolledInv
<1>3. IInv => PolledIsDrained
  BY <1>1, <1>2 DEF PolledIsDrained
<1> QED
  BY <1>3, Inductive, PTL

-----------------------------------------------------------------------------
(* Accepted packets stay in their lists.                                   *)

\* A submission is linked: the one packet that may share the list of an urgent
\* packet is GET_STATUS2, which is in it only while it is on the bus.
LEMMA EnqueueIsLinked ==
  ASSUME IInv, LoneUrgent, NEW p \in Client, \A l \in Lists : p \notin Reach(l),
         Enqueue(p)
  PROVE  \A l \in Lists : Reach(l)' = IF l = ListOf[p] THEN Reach(l) \cup {p} ELSE Reach(l)
<1> DEFINE h == head[ListOf[p]]
<1>1. p \in Packet /\ ListOf[p] \in Lists
  BY ListTypes DEF IInv, Client
<1>2. EnqueueLinks(p)
  <2> SUFFICES ASSUME h # NULL, p \in Urgent
               PROVE  "started" \in status[h]
    BY DEF EnqueueLinks, InsertLast, InsertSecond, HeadBusy
  <2>1. h \in Reach(ListOf[p]) /\ h \in Packet /\ ListOf[h] = ListOf[p]
    BY <1>1, ListTypes, OwnListOnly DEF IInv
  <2>2. h = GetStatus2Cmd
    BY <1>1, <2>1 DEF LoneUrgent, Client
  <2> QED
    BY <1>1, <2>1, <2>2 DEF IInv, HandlerInv, OneInFlight
<1> QED
  BY <1>1, <1>2, EnqueueLists DEF IInv

\* What a submission, by whichever of the three actions, does.
LEMMA SubmissionIsLinked ==
  ASSUME IInv, TypeOK', LoneUrgent, AcceptedIsLinked, NEW p \in Client,
         CmdExecAsync(p) \/ CmdExecPolled(p) \/ CallbackSubmit(p)
  PROVE  AcceptedIsLinked'
<1>1. /\ Enqueue(p) /\ pc[p] \in {"idle", "checked"}
      /\ \E x \in Outstanding : pc' = [pc EXCEPT ![p] = x]
  BY DEF CmdExecAsync, CmdExecPolled, CallbackSubmit, Outstanding
<1>2. pollingMode => QueueEmpty /\ curPacket = NULL
  BY DEF CmdExecAsync, CmdExecPolled, CallbackSubmit, Schedulable, IInv, PolledInv
<1>3. \A q \in Packet \ {p} : "done" \in status'[q] <=> "done" \in status[q]
  BY <1>1, <1>2, EnqueueEffect
<1>4. \A l \in Lists : p \notin Reach(l)
  BY <1>1, NotLinked
<1>5. \A l \in Lists : Reach(l)' = IF l = ListOf[p] THEN Reach(l) \cup {p} ELSE Reach(l)
  BY <1>1, <1>4, EnqueueIsLinked
<1>6. \A q \in Client : q \in Packet /\ ListOf[q] \in Lists
  BY ListTypes DEF IInv, Client
<1>7. \A q \in Client \ {p} : pc'[q] = pc[q]
  BY <1>1 DEF IInv, TypeOK
<1> QED
  BY <1>3, <1>5, <1>6, <1>7 DEF AcceptedIsLinked

\* A step that takes no packet out of a list, marks none undone, and after
\* which nobody is newly outstanding.
LEMMA NoneUnlinked ==
  ASSUME IInv, AcceptedIsLinked,
         \A l \in Lists : Reach(l) \subseteq Reach(l)',
         \A p \in Client : "done" \in status[p] => "done" \in status'[p],
         \A p \in Client : pc'[p] \in Outstanding => pc[p] \in Outstanding
  PROVE  AcceptedIsLinked'
<1>1. \A p \in Client : ListOf[p] \in Lists
  BY ListTypes DEF IInv, Client
<1> QED
  BY <1>1 DEF AcceptedIsLinked

LEMMA AcceptedNext ==
  ASSUME 2 \notin CallbackResults, LoneUrgent, IInv, TypeOK', AcceptedIsLinked, [Next]_vars
  PROVE  AcceptedIsLinked'
<1>1. \A p \in Client : p \in Packet /\ ListOf[p] \in Lists
  BY ListTypes DEF IInv, Client
<1>2. ASSUME UNCHANGED <<queueVars, status>>,
             \A p \in Client : pc'[p] \in Outstanding => pc[p] \in Outstanding
      PROVE  AcceptedIsLinked'
  BY <1>2, ListsKept, NoneUnlinked
<1>3. ASSUME NEW p \in Client,
             \/ CheckRebooted(p) \/ CmdSyncWait(p) \/ CmdSyncWake(p) \/ CmdSyncRelease(p)
             \/ CmdSyncPoll(p) \/ CmdSyncPolled(p)
      PROVE  AcceptedIsLinked'
  <2>1. UNCHANGED <<queueVars, status>>
    BY <1>3 DEF CheckRebooted, CmdSyncWait, CmdSyncWake, CmdSyncRelease, CmdSyncPoll,
                CmdSyncPolled
  <2>2. \A q \in Client : pc'[q] \in Outstanding => pc[q] \in Outstanding
    BY <1>3 DEF CheckRebooted, CmdSyncWait, CmdSyncWake, CmdSyncRelease, CmdSyncPoll,
                CmdSyncPolled, Outstanding, IInv, TypeOK
  <2> QED
    BY <1>2, <2>1, <2>2
<1>4. ASSUME NEW p \in Client, CmdExecAsync(p) \/ CmdExecPolled(p) \/ CallbackSubmit(p)
      PROVE  AcceptedIsLinked'
  BY <1>4, SubmissionIsLinked
<1>5. ASSUME NEW p \in Client, CmdCancel(p)
      PROVE  AcceptedIsLinked'
  <2>1. \A l \in Lists : Reach(l)' = Reach(l) \ {p}
    BY <1>5, CancelLists DEF IInv
  <2>2. pc'[p] = "idle" /\ (\A q \in Client \ {p} : pc'[q] = pc[q]) /\ status' = status
    BY <1>5 DEF CmdCancel, IInv, TypeOK
  <2> QED
    BY <1>1, <2>1, <2>2 DEF AcceptedIsLinked, Outstanding
<1>6. ASSUME NEW again \in BOOLEAN, NEW enable \in BOOLEAN, GpioIntr(again, enable)
      PROVE  AcceptedIsLinked'
  <2>0. PICK p \in Packet : p = curPacket
    BY <1>6, OnTheBus DEF GpioIntr
  <2>1. p # NULL /\ head[ListOf[p]] = p /\ ListOf[p] \in Lists /\ pc' = pc
    BY <1>6, <2>0, OnTheBus DEF GpioIntr, EndCurrent
  <2>2. CASE Retries(p, again)
    <3>1. /\ UNCHANGED queueVars
          /\ status' = [status EXCEPT ![p] = (status[p] \ {"started"}) \cup {"retry"}]
      BY <1>6, <2>0, <2>2 DEF GpioIntr, EndCurrent
    <3>2. \A q \in Client : "done" \in status[q] => "done" \in status'[q]
      BY <1>1, <3>1 DEF IInv, TypeOK
    <3> QED
      BY <2>1, <3>1, <3>2, ListsKept, NoneUnlinked
  <2>3. CASE ~Retries(p, again)
    <3>1. Dequeue(p)
      BY <1>6, <2>0, <2>3 DEF GpioIntr, EndCurrent
    <3>2. \A l \in Lists : Reach(l) \ {p} \subseteq Reach(l)'
      BY <2>1, <3>1, DequeueLists DEF IInv
    <3>3. "done" \in status'[p] /\ \A q \in Packet \ {p} : status'[q] = status[q]
      BY <3>1 DEF Dequeue, DequeuedStatus, IInv, TypeOK
    <3> QED
      BY <1>1, <2>1, <3>2, <3>3 DEF AcceptedIsLinked
  <2> QED
    BY <2>2, <2>3
<1>7. ASSUME NEW r \in CallbackResults, CallbackReturn(r)
      PROVE  AcceptedIsLinked'
  <2>0. PICK p \in Client : p = local.packet
    BY <1>7, CommandAssumption DEF CallbackReturn, IInv, HandlerInv
  <2>1. pc' = pc /\ r \in {0, 1}
    BY <1>7, ModeAssumption DEF CallbackReturn
  <2>2. CASE r = 0
    BY <1>2, <1>7, <2>1, <2>2 DEF CallbackReturn
  <2>3. CASE r = 1
    <3>1. RequeueFirst(p) /\ status' = [status EXCEPT ![p] = status[p] \ {"done"}]
      BY <1>7, <2>0, <2>3 DEF CallbackReturn, RequeuedStatus
    <3>2. \A l \in Lists : p \notin Reach(l)
      BY <1>7, <2>0 DEF CallbackReturn, IInv, HandlerInv
    <3>3. /\ \A l \in Lists : Reach(l) \subseteq Reach(l)'
          /\ p \in Reach(ListOf[p])'
      BY <1>1, <3>1, <3>2, PushLists DEF IInv
    <3>4. \A q \in Client \ {p} : status'[q] = status[q]
      BY <1>1, <3>1 DEF IInv, TypeOK
    <3> QED
      BY <1>1, <2>1, <3>3, <3>4 DEF AcceptedIsLinked
  <2> QED
    BY <2>1, <2>2, <2>3
<1>8. ASSUME NEW early \in BOOLEAN, SelectNext(early)
      PROVE  AcceptedIsLinked'
  <2>1. \A l \in Lists : GetStatus2Cmd \notin Reach(l)
    BY <1>8, PacketAssumption, NullAssumption DEF SelectNext, IInv, HandlerInv
  <2>2. \A l \in Lists : Reach(l) \subseteq Reach(l)'
    <3>1. CASE AddsStatus2
      <4>1. RequeueFirst(GetStatus2Cmd)
        BY <1>8, <3>1, CommandAssumption DEF SelectNext, SelectHead, RequeueFirst
      <4> QED
        BY <2>1, <4>1, PacketAssumption, PushLists DEF IInv
    <3>2. CASE ~AddsStatus2
      BY <1>8, <3>2, ListsKept DEF SelectNext, SelectHead, queueVars
    <3> QED
      BY <3>1, <3>2
  <2>3. \A q \in Client : "done" \in status[q] => "done" \in status'[q]
    BY <1>1, <1>8 DEF SelectNext, StartPacket, IInv, TypeOK
  <2>4. pc' = pc
    BY <1>8 DEF SelectNext
  <2> QED
    BY <2>2, <2>3, <2>4, NoneUnlinked
<1>9. CASE SystemStep \/ UNCHANGED vars
  <2>1. UNCHANGED <<queueVars, status, pc>>
    BY <1>9 DEF SystemStep, SetRetryMode, EventSuspend, EventPollingOn, EventResume,
                EventPollingOff, RebootBegin, RebootDrained, RebootEnd, vars, queueVars
  <2> QED
    BY <1>2, <2>1
<1> QED
  BY <1>3, <1>4, <1>5, <1>6, <1>7, <1>8, <1>9 DEF Next, ClientStep, HandlerStep

\* No packet is lost: what sceSysconCmdExecAsync has accepted is in its list
\* until it is done or cancelled, if urgent packets have a list of their own.
\* The run syscon_urgent shows what happens to one that has not.
THEOREM NothingLost ==
  ASSUME 2 \notin CallbackResults, LoneUrgent
  PROVE  Spec => []AcceptedIsLinked
<1>1. Init => AcceptedIsLinked
  BY DEF Init, AcceptedIsLinked, Outstanding
<1>2. IInv /\ IInv' /\ AcceptedIsLinked /\ [Next]_vars => AcceptedIsLinked'
  BY AcceptedNext DEF IInv
<1> QED
  BY <1>1, <1>2, Inductive, PTL DEF Spec

-----------------------------------------------------------------------------
(* The end of a reboot.                                                    *)

LEMMA RebootInvInit == Init => RebootInv
  BY DEF Init, RebootInv, Outstanding

\* A step after which no client is newly checked or outstanding, and which is
\* none of the reboot handler's.
LEMMA RebootUntouched ==
  ASSUME RebootInv, UNCHANGED <<rebooted, reboot, late>>,
         \A p \in Client : pc'[p] = "checked" => pc[p] = "checked",
         \A p \in Client :
           pc'[p] \in Outstanding /\ "done" \notin status'[p] =>
             \/ pc[p] \in Outstanding /\ "done" \notin status[p]
             \/ reboot \in {"ending", "ended"} => p \in late,
         intr' = "callback" /\ reboot \in {"ending", "ended"} => local'.packet \in late
  PROVE  RebootInv'
  BY DEF RebootInv

LEMMA RebootInvNext ==
  ASSUME 2 \notin CallbackResults, IInv, IInv', AcceptedIsLinked, RebootInv, [Next]_vars
  PROVE  RebootInv'
<1>1. \A p \in Client : p \in Packet /\ ListOf[p] \in Lists
  BY ListTypes DEF IInv, Client
<1>2. ASSUME NEW p \in Client, CheckRebooted(p)
      PROVE  RebootInv'
  BY <1>2 DEF CheckRebooted, Refuses, Schedulable, modeVars, sysVars, RebootInv, IInv,
              TypeOK, Outstanding
<1>3. ASSUME NEW p \in Client,
             CmdSyncWait(p) \/ CmdSyncWake(p) \/ CmdSyncRelease(p) \/ CmdSyncPoll(p)
             \/ CmdSyncPolled(p) \/ CmdCancel(p)
      PROVE  RebootInv'
  <2>1. /\ UNCHANGED <<rebooted, reboot, late, status, intr, local>>
        /\ pc[p] \in Outstanding
        /\ \E x \in Outstanding \cup {"idle"} : pc' = [pc EXCEPT ![p] = x]
    BY <1>3 DEF CmdSyncWait, CmdSyncWake, CmdSyncRelease, CmdSyncPoll, CmdSyncPolled,
                CmdCancel, modeVars, sysVars, Outstanding
  <2>2. \A q \in Client :
          /\ pc'[q] = "checked" => pc[q] = "checked"
          /\ pc'[q] \in Outstanding => pc[q] \in Outstanding
    BY <2>1 DEF IInv, TypeOK, Outstanding
  <2>3. intr' = "callback" /\ reboot \in {"ending", "ended"} => local'.packet \in late
    BY <2>1 DEF RebootInv
  <2> QED
    BY <2>1, <2>2, <2>3, RebootUntouched
<1>4. ASSUME NEW p \in Client, CmdExecAsync(p) \/ CmdExecPolled(p) \/ CallbackSubmit(p)
      PROVE  RebootInv'
  <2>1. /\ UNCHANGED <<rebooted, reboot, late, intr, local>>
        /\ Enqueue(p) /\ pc[p] \in {"idle", "checked"}
        /\ pc[p] = "checked" \/ ~rebooted
        /\ \E x \in Outstanding : pc' = [pc EXCEPT ![p] = x]
    BY <1>4 DEF CmdExecAsync, CmdExecPolled, CallbackSubmit, Refuses, modeVars, sysVars,
                Outstanding
  <2>2. pollingMode => QueueEmpty /\ curPacket = NULL
    BY <1>4 DEF CmdExecAsync, CmdExecPolled, CallbackSubmit, Schedulable, IInv, PolledInv
  <2>3. \A q \in Packet \ {p} : "done" \in status'[q] <=> "done" \in status[q]
    BY <2>1, <2>2, EnqueueEffect DEF IInv
  <2>4. /\ \A q \in Client \ {p} : pc'[q] = pc[q]
        /\ pc'[p] \in Outstanding
    BY <2>1 DEF IInv, TypeOK
  <2>5. reboot # "none" => p \in late
    BY <2>1 DEF RebootInv
  <2>6. \A q \in Client : pc'[q] = "checked" => pc[q] = "checked"
    BY <2>4 DEF Outstanding
  <2>7. \A q \in Client :
          pc'[q] \in Outstanding /\ "done" \notin status'[q] =>
            \/ pc[q] \in Outstanding /\ "done" \notin status[q]
            \/ reboot \in {"ending", "ended"} => q \in late
    BY <1>1, <2>3, <2>4, <2>5
  <2>8. intr' = "callback" /\ reboot \in {"ending", "ended"} => local'.packet \in late
    BY <2>1 DEF RebootInv
  <2> QED
    BY <2>1, <2>6, <2>7, <2>8, RebootUntouched
<1>5. ASSUME NEW again \in BOOLEAN, NEW enable \in BOOLEAN, GpioIntr(again, enable)
      PROVE  RebootInv'
  <2>0. PICK p \in Packet : p = curPacket
    BY <1>5, OnTheBus DEF GpioIntr
  <2>1. /\ p # NULL /\ UNCHANGED <<rebooted, reboot, late, pc>>
        /\ local'.packet = p
    BY <1>5, <2>0 DEF GpioIntr, EndCurrent, modeVars, sysVars
  <2>2. \A q \in Client : "done" \in status[q] => "done" \in status'[q]
    <3>1. status' \in {[status EXCEPT ![p] = (status[p] \ {"started"}) \cup {"retry"}],
                       [status EXCEPT ![p] = (status[p] \ {"started", "retry"}) \cup {"done"}]}
      BY <1>5, <2>0 DEF GpioIntr, EndCurrent, Dequeue, DequeuedStatus
    <3> QED
      BY <1>1, <3>1 DEF IInv, TypeOK
  <2>3. intr' = "callback" /\ reboot \in {"ending", "ended"} => p \in late
    <3>1. intr' = "callback" => p \in Async
      BY <1>5, <2>0 DEF GpioIntr, EndCurrent
    <3>2. p \in Async => p \in Client /\ pc[p] \in Outstanding /\ "done" \notin status[p]
      BY <2>0, <2>1, OnTheBus, CommandAssumption DEF Client, Outstanding
    <3> QED
      BY <3>1, <3>2 DEF RebootInv
  <2> QED
    BY <2>1, <2>2, <2>3, RebootUntouched
<1>6. ASSUME NEW r \in CallbackResults, CallbackReturn(r)
      PROVE  RebootInv'
  <2>0. PICK p \in Packet : p = local.packet
    BY <1>6 DEF CallbackReturn, IInv, HandlerInv
  <2>1. intr = "callback" /\ intr' = "select" /\ UNCHANGED <<rebooted, reboot, late, pc>>
    BY <1>6 DEF CallbackReturn, modeVars, sysVars
  <2>2. \A q \in Client \ {p} : status'[q] = status[q]
    BY <1>1, <1>6, <2>0 DEF CallbackReturn, RequeuedStatus, IInv, TypeOK
  <2>3. reboot \in {"ending", "ended"} => p \in late
    BY <2>0, <2>1 DEF RebootInv
  <2> QED
    BY <2>1, <2>2, <2>3, RebootUntouched
<1>7. ASSUME NEW early \in BOOLEAN, SelectNext(early)
      PROVE  RebootInv'
  <2>1. intr' = "none" /\ UNCHANGED <<rebooted, reboot, late, pc>>
    BY <1>7 DEF SelectNext, modeVars, sysVars
  <2>2. \A q \in Client : "done" \in status[q] => "done" \in status'[q]
    BY <1>1, <1>7 DEF SelectNext, StartPacket, IInv, TypeOK
  <2> QED
    BY <2>1, <2>2, RebootUntouched
<1>8. CASE RebootBegin
  BY <1>8 DEF RebootBegin, Schedulable, RebootInv
<1>9. CASE RebootDrained
  <2>1. \A p \in Client : ~(pc[p] \in Outstanding /\ "done" \notin status[p])
    BY <1>1, <1>9, ListTypes DEF RebootDrained, QueueEmpty, AcceptedIsLinked, IInv
  <2> QED
    BY <1>9, <2>1 DEF RebootDrained, Schedulable, RebootInv, modeVars
<1>10. CASE RebootEnd
  BY <1>10 DEF RebootEnd, Schedulable, RebootInv, modeVars
<1>11. CASE \/ \E m \in RetryModes : SetRetryMode(m)
            \/ EventSuspend \/ EventPollingOn \/ EventResume \/ EventPollingOff
            \/ UNCHANGED vars
  <2>1. UNCHANGED <<rebooted, reboot, late, pc, status, intr, local>>
    BY <1>11 DEF SetRetryMode, EventSuspend, EventPollingOn, EventResume, EventPollingOff,
                 modeVars, sysVars, vars
  <2> QED
    BY <2>1 DEF RebootInv
<1> QED
  BY <1>2, <1>3, <1>4, <1>5, <1>6, <1>7, <1>8, <1>9, <1>10, <1>11
     DEF Next, ClientStep, HandlerStep, SystemStep

\* sceSysconEnd removes the interrupt with nothing pending but the packets of
\* clients that had passed the rebooted check before the flag was set.
THEOREM RebootIsQuiet ==
  ASSUME 2 \notin CallbackResults, LoneUrgent
  PROVE  Spec => []EndedIsQuiet
<1>1. Init => RebootInv
  BY RebootInvInit
<1>2. IInv /\ IInv' /\ AcceptedIsLinked /\ RebootInv /\ [Next]_vars => RebootInv'
  BY RebootInvNext
<1>3. RebootInv => EndedIsQuiet
  BY DEF RebootInv, EndedIsQuiet
<1> QED
  BY <1>1, <1>2, <1>3, Inductive, NothingLost, PTL DEF Spec

-----------------------------------------------------------------------------
(* Work and retries.                                                       *)

\* A submission to an idle bus puts a packet on it.
LEMMA SubmissionStarts ==
  ASSUME TypeOK, NEW p \in Client, NoStart = {}, Enqueue(p), intr = "none"
  PROVE  curPacket' # NULL
<1> DEFINE h == EnqueuedHead(p)
<1>1. p \in Packet /\ p # NULL /\ ListOf[p] \in Lists
  BY NullAssumption, CommandAssumption DEF Client
<1>2. h[ListOf[p]] # NULL
  BY <1>1 DEF EnqueuedHead, TypeOK
<1>3. SubmitStarts(p, h) # NULL
  BY <1>2 DEF SubmitStarts, UnlessNoStart
<1> QED
  BY <1>1, <1>3 DEF Enqueue, StartPacket, BusBusy

\* The round-robin finds every list.
LEMMA SelectionIsComplete ==
  ASSUME TypeOK, retryMode, NEW h \in [Lists -> Link], NEW early \in BOOLEAN,
         NextPacket(h, early) = NULL
  PROVE  \A l \in Lists : h[l] = NULL
<1>1. h[0] = NULL
  BY DEF NextPacket
<1>2. \A i \in 0..2 : h[RotationList(i)] = NULL
  <2> SUFFICES ASSUME ~\A i \in 0..2 : h[RotationList(i)] = NULL
               PROVE  FALSE
    OBVIOUS
  <2> DEFINE First(j) == /\ h[RotationList(j)] # NULL
                         /\ \A k \in 0..2 : k < j => h[RotationList(k)] = NULL
             i == CHOOSE j \in 0..2 : First(j)
  <2>1. First(0) \/ First(1) \/ First(2)
    OBVIOUS
  <2>2. i \in 0..2 /\ h[RotationList(i)] # NULL
    BY <2>1
  <2>3. NextPacket(h, early) = h[RotationList(i)]
    BY <1>1 DEF NextPacket, HeldBack
  <2> QED
    BY <2>2, <2>3
<1>3. \A l \in 1..3 : \E i \in 0..2 : RotationList(i) = l
  BY DEF TypeOK, RotationList
<1> QED
  BY <1>1, <1>2, <1>3 DEF Lists

LEMMA IdleInvNext == Eager /\ IdleInv /\ [Next]_vars => IdleInv'
<1> SUFFICES ASSUME Eager, IdleInv, [Next]_vars
             PROVE  IdleInv'
  OBVIOUS
<1>1. TypeOK'
  BY TypeNext DEF IdleInv
<1>2. retryMode'
  <2>1. CASE (\E p \in Client : ClientStep(p)) \/ UNCHANGED vars
    BY <2>1 DEF IdleInv, ClientStep, CheckRebooted, CmdExecAsync, CmdSyncWait, CmdSyncWake,
                CmdSyncRelease, CmdSyncPoll, CmdCancel, CmdExecPolled, CmdSyncPolled,
                CallbackSubmit, modeVars, vars
  <2>2. CASE HandlerStep
    BY <2>2 DEF IdleInv, HandlerStep, GpioIntr, EndCurrent, CallbackReturn, SelectNext, modeVars
  <2>3. CASE SystemStep
    <3>1. ASSUME NEW m \in RetryModes, SetRetryMode(m) PROVE retryMode'
      <4>1. m = TRUE /\ retryMode' = m
        BY <3>1, Zenon DEF Eager, SetRetryMode
      <4> QED
        BY <4>1
    <3>2. CASE ~\E m \in RetryModes : SetRetryMode(m)
      BY <2>3, <3>2 DEF IdleInv, SystemStep, EventSuspend, EventPollingOn, EventResume,
                        EventPollingOff, RebootBegin, RebootDrained, RebootEnd, modeVars
    <3> QED
      BY <3>1, <3>2
  <2> QED
    BY <2>1, <2>2, <2>3 DEF Next
<1>3. ASSUME UNCHANGED <<queueVars, curPacket, intr>>
      PROVE  NoIdleWork'
  BY <1>3 DEF IdleInv, NoIdleWork, QueueEmpty, queueVars
<1>4. ASSUME NEW p \in Client, CmdExecAsync(p) \/ CmdExecPolled(p)
      PROVE  NoIdleWork'
  <2>1. Enqueue(p) /\ intr = "none"
    BY <1>4 DEF CmdExecAsync, CmdExecPolled, Schedulable
  <2> QED
    BY <2>1, SubmissionStarts DEF Eager, IdleInv, NoIdleWork
<1>5. ASSUME NEW p \in Client, CmdCancel(p)
      PROVE  NoIdleWork'
  <2>1. intr = "none" /\ curPacket' = curPacket /\ p \in Reach(ListOf[p])
        /\ ListOf[p] \in Lists
    BY <1>5, CommandAssumption DEF CmdCancel, Schedulable, Client
  <2>2. head[ListOf[p]] # NULL
    BY <2>1, ListTypes DEF IdleInv
  <2> QED
    BY <2>1, <2>2 DEF IdleInv, NoIdleWork, QueueEmpty
<1>6. ASSUME NEW p \in Client, CallbackSubmit(p)
      PROVE  NoIdleWork'
  BY <1>6 DEF CallbackSubmit, NoIdleWork
<1>7. ASSUME \/ \E again, enable \in BOOLEAN : GpioIntr(again, enable)
             \/ \E r \in CallbackResults : CallbackReturn(r)
      PROVE  NoIdleWork'
  <2>1. intr' # "none"
    BY <1>7 DEF GpioIntr, EndCurrent, CallbackReturn
  <2> QED
    BY <2>1 DEF NoIdleWork
<1>8. ASSUME NEW early \in BOOLEAN, SelectNext(early)
      PROVE  NoIdleWork'
  <2>1. head' = SelectHead /\ head' \in [Lists -> Link]
    BY <1>1, <1>8 DEF SelectNext, TypeOK
  <2>2. curPacket' = NULL => NextPacket(head', early) = NULL
    BY <1>8, <2>1 DEF SelectNext, StartPacket
  <2>3. NextPacket(head', early) = NULL => \A l \in Lists : head'[l] = NULL
    BY <2>1, SelectionIsComplete DEF IdleInv
  <2> QED
    BY <2>2, <2>3 DEF NoIdleWork, QueueEmpty
<1>9. ASSUME NEW p \in Client,
             \/ CheckRebooted(p) \/ CmdSyncWait(p) \/ CmdSyncWake(p) \/ CmdSyncRelease(p)
             \/ CmdSyncPoll(p) \/ CmdSyncPolled(p)
      PROVE  NoIdleWork'
  <2>1. UNCHANGED <<queueVars, curPacket, intr>>
    BY <1>9 DEF CheckRebooted, CmdSyncWait, CmdSyncWake, CmdSyncRelease, CmdSyncPoll,
                CmdSyncPolled
  <2> QED
    BY <1>3, <2>1
<1>10. ASSUME SystemStep \/ UNCHANGED vars
       PROVE  NoIdleWork'
  <2>1. UNCHANGED <<queueVars, curPacket, intr>>
    BY <1>10 DEF SystemStep, SetRetryMode, EventSuspend, EventPollingOn, EventResume,
                 EventPollingOff, RebootBegin, RebootDrained, RebootEnd, vars, queueVars
  <2> QED
    BY <1>3, <2>1
<1> QED
  BY <1>1, <1>2, <1>4, <1>5, <1>6, <1>7, <1>8, <1>9, <1>10
     DEF IdleInv, Next, ClientStep, HandlerStep

\* The bus is never idle while a packet is queued and no interrupt will come,
\* if retries are affirmative and nobody submits with flag 2: each submission
\* and each end of the handler starts a packet if there is one.
THEOREM WorkIsStarted ==
  ASSUME Eager
  PROVE  Spec => []NoIdleWork
<1>1. Init => IdleInv
  BY TypeInit DEF Init, IdleInv, NoIdleWork, QueueEmpty
<1>2. IdleInv /\ [Next]_vars => IdleInv'
  BY IdleInvNext
<1>3. IdleInv => NoIdleWork
  BY DEF IdleInv
<1> QED
  BY <1>1, <1>2, <1>3, PTL DEF Spec

\* A submission: at the head of an empty list, or behind the first packet, and
\* between GET_STATUS2 and a retry only if it is urgent.
LEMMA SubmissionAfterRetry ==
  ASSUME IInv, TypeOK', UrgentApart, RetryInv, NEW p \in Client,
         CmdExecAsync(p) \/ CmdExecPolled(p) \/ CallbackSubmit(p)
  PROVE  RetryInv'
<1>1. Enqueue(p) /\ pc[p] \in {"idle", "checked"} /\ UNCHANGED <<intr, local>>
  BY DEF CmdExecAsync, CmdExecPolled, CallbackSubmit
<1>2. /\ p \in Packet /\ ListOf[p] \in Lists /\ p # GetStatus2Cmd
      /\ \A l \in Lists : p \notin Reach(l)
  BY <1>1, NotLinked, ListTypes DEF IInv, Client
<1> DEFINE k == ListOf[p]
           h == head[k]
<1>3. /\ \A l \in Lists \ {k} :
           /\ Reach(l)' = Reach(l) /\ head'[l] = head[l]
           /\ \A x \in Reach(l) : next'[x] = next[x]
      /\ Reach(k)' \subseteq Reach(k) \cup {p}
      /\ h # NULL => head'[k] = h
      /\ h = NULL => Reach(k)' = {p}
  BY <1>1, <1>2, EnqueueLists DEF IInv
<1>4. \A q \in Packet : "retry" \in status'[q] => q # p /\ "retry" \in status[q]
  BY <1>1, <1>2 DEF Enqueue, StartPacket, IInv, TypeOK
<1>5. ASSUME NEW q \in Reach(k), h = GetStatus2Cmd, next[GetStatus2Cmd] = q,
             "retry" \in status[q]
      PROVE  next'[GetStatus2Cmd] = q
  <2>1. /\ k = 0 /\ q \in Retryable /\ q # p /\ q \in Packet /\ ListOf[q] = 0
        /\ GetStatus2Cmd \in Packet /\ GetStatus2Cmd # NULL /\ q # NULL
    BY <1>2, <1>5, PacketAssumption, NullAssumption, CommandAssumption, ListTypes,
       OwnListOnly DEF IInv, RetryInv
  <2>2. ~InsertSecond(p)
    BY <2>1 DEF InsertSecond, UrgentApart
  <2>3. tail[k] # GetStatus2Cmd
    BY <1>2, <1>5, <2>1 DEF IInv, WellLinked, IsList
  <2>4. \E t \in Packet \ {GetStatus2Cmd} :
          next' = [next EXCEPT ![p] = NULL, ![t] = p] \/ next' = [next EXCEPT ![p] = h]
    <3>1. CASE InsertLast(p)
      <4>1. tail[k] \in Packet
        BY <1>2, <1>5, <2>1, ListTypes DEF IInv, WellLinked, IsList, Reach
      <4>2. next' = [next EXCEPT ![p] = NULL, ![tail[k]] = p]
        BY <1>1, <1>5, <2>1, <3>1 DEF Enqueue, EnqueuedNext, InsertLast, InsertSecond
      <4> QED
        BY <2>3, <4>1, <4>2
    <3>2. CASE ~InsertLast(p)
      BY <1>1, <1>2, <1>5, <2>1, <2>2, <3>2 DEF Enqueue, EnqueuedNext
    <3> QED
      BY <3>1, <3>2
  <2> QED
    BY <1>2, <1>5, <2>1, <2>4 DEF IInv, TypeOK
<1>6. RetryKeepsHead'
  <2> SUFFICES ASSUME NEW l \in Lists, NEW q \in Reach(l)', "retry" \in status'[q]
               PROVE  \/ head'[l] = q
                      \/ head'[l] = GetStatus2Cmd /\ next'[GetStatus2Cmd] = q
    BY DEF RetryKeepsHead
  <2>1. q \in Packet /\ q # p /\ "retry" \in status[q] /\ q \in Reach(l) /\ head'[l] = head[l]
    BY <1>2, <1>3, <1>4, ListTypes DEF IInv
  <2>2. head[l] = q \/ (head[l] = GetStatus2Cmd /\ next[GetStatus2Cmd] = q)
    BY <2>1 DEF RetryInv, RetryKeepsHead
  <2>3. CASE head[l] = GetStatus2Cmd /\ next[GetStatus2Cmd] = q
    <3>1. CASE l = k
      BY <1>5, <2>1, <2>3, <3>1
    <3>2. CASE l # k
      <4>1. GetStatus2Cmd \in Reach(l) /\ l = 0
        BY <2>3, PacketAssumption, NullAssumption, CommandAssumption, ListTypes, OwnListOnly
           DEF IInv
      <4>2. \A x \in Reach(l) : next'[x] = next[x]
        BY <1>3, <3>2
      <4> QED
        BY <2>1, <2>3, <4>1, <4>2
    <3> QED
      BY <3>1, <3>2
  <2> QED
    BY <2>1, <2>2, <2>3
<1>7. ASSUME intr = "callback", NEW q \in Reach(ListOf[local.packet])', "retry" \in status'[q]
      PROVE  FALSE
  <2>1. ListOf[local.packet] \in Lists
    BY <1>7, ListTypes DEF IInv, HandlerInv
  <2>2. q \in Reach(ListOf[local.packet])' /\ local' = local
    BY <1>1, <1>7
  <2>3. q \in Packet /\ q \in Reach(ListOf[local.packet]) \cup {p}
    BY <1>2, <1>3, <2>1, <2>2, ListTypes DEF IInv
  <2>4. q \in Reach(ListOf[local.packet]) /\ "retry" \in status[q]
    BY <1>4, <1>7, <2>3
  <2> QED
    BY <1>7, <2>4 DEF RetryInv
<1> QED
  BY <1>1, <1>4, <1>6, <1>7 DEF RetryInv

\* A step of a client that takes no packet out of a list.
LEMMA RetryUntouched ==
  ASSUME RetryInv, UNCHANGED <<queueVars, status>>,
         intr' = "callback" => intr = "callback" /\ local' = local
  PROVE  RetryInv'
<1>1. \A l \in Lists : Reach(l)' = Reach(l)
  BY ListsKept
<1>2. RetryKeepsHead'
  BY <1>1 DEF RetryInv, RetryKeepsHead, queueVars
<1>3. Reach(ListOf[local.packet])' = ReachFrom(head'[ListOf[local'.packet]], next')
  BY DEF Reach
<1>4. intr' = "callback" => Reach(ListOf[local.packet])' = Reach(ListOf[local.packet])
  BY <1>3 DEF Reach, queueVars
<1> QED
  BY <1>2, <1>4 DEF RetryInv

LEMMA CancelKeepsRetry ==
  ASSUME IInv, RetryInv, NEW p \in Client, CmdCancel(p)
  PROVE  RetryInv'
<1> DEFINE k == ListOf[p]
           g == GetStatus2Cmd
<1>1. /\ p \in Packet /\ k \in Lists /\ p \in Reach(k) /\ p # g /\ p # NULL
      /\ status' = status /\ intr' = intr /\ intr = "none"
  BY NullAssumption, ListTypes DEF IInv, CmdCancel, Client, Schedulable
<1>2. /\ \A l \in Lists : Reach(l)' = Reach(l) \ {p}
      /\ \A l \in Lists : head[l] # p => head'[l] = head[l]
  BY CancelLists DEF IInv
<1>3. ASSUME NEW l \in Lists, NEW q \in Reach(l) \ {p}, "retry" \in status[q]
      PROVE  \/ head'[l] = q
             \/ head'[l] = g /\ next'[g] = q
  <2>1. head[l] = q \/ (head[l] = g /\ next[g] = q)
    BY <1>3 DEF RetryInv, RetryKeepsHead
  <2>2. CASE head[l] = q
    BY <1>2, <1>3, <2>2
  <2>3. CASE head[l] = g /\ next[g] = q
    <3>1. head'[l] = g
      BY <1>1, <1>2, <2>3
    <3>2. next'[g] = next[g]
      <4>1. head[k] = p \/ \E x \in Reach(k) : next[x] = p
        <5>1. head[k] \in Link /\ next \in [Packet -> Link] /\ p \in ReachFrom(head[k], next)
          BY <1>1, ListTypes DEF IInv, Reach
        <5> QED
          BY <5>1, HasPredecessor DEF Reach
      <4>2. CASE head[k] = p
        BY <4>2 DEF CmdCancel, CancelledNext
      <4>3. CASE head[k] # p
        <5> DEFINE x == Previous(p)
        <5>1. x \in Reach(k) /\ next[x] = p
          BY <4>1, <4>3 DEF Previous
        <5>2. x # g /\ x # NULL
          BY <1>1, <1>3, <2>3, <5>1, NullAssumption, ListTypes DEF IInv
        <5>3. next' = [next EXCEPT ![x] = next[p]]
          BY <4>3, <5>2 DEF CmdCancel, CancelledNext
        <5> HIDE DEF x
        <5> QED
          BY <5>2, <5>3 DEF IInv, TypeOK
      <4> QED
        BY <4>2, <4>3
    <3> QED
      BY <2>3, <3>1, <3>2
  <2> QED
    BY <2>1, <2>2, <2>3
<1>4. RetryKeepsHead'
  BY <1>1, <1>2, <1>3 DEF RetryKeepsHead
<1> QED
  BY <1>1, <1>4 DEF RetryInv

\* The packet on the bus is a retry, or GET_STATUS2 in front of one, or none
\* of its list is.
LEMMA EndKeepsRetry ==
  ASSUME IInv, TypeOK', RetryInv, NEW again \in BOOLEAN, NEW enable \in BOOLEAN,
         GpioIntr(again, enable)
  PROVE  RetryInv'
<1> DEFINE g == GetStatus2Cmd
<1>0. PICK p \in Packet : p = curPacket
  BY OnTheBus DEF GpioIntr
<1>1. p # NULL /\ head[ListOf[p]] = p /\ ListOf[p] \in Lists /\ local'.packet = p
  BY <1>0, OnTheBus DEF GpioIntr, EndCurrent
<1>2. CASE Retries(p, again)
  <2>1. /\ UNCHANGED queueVars /\ p \in Retryable /\ intr' = "select"
        /\ status' = [status EXCEPT ![p] = (status[p] \ {"started"}) \cup {"retry"}]
    BY <1>0, <1>2 DEF GpioIntr, EndCurrent, Retries
  <2>2. \A q \in Packet \ {p} : status'[q] = status[q]
    BY <2>1 DEF IInv, TypeOK
  <2>3. RetryKeepsHead'
    <3> SUFFICES ASSUME NEW l \in Lists, NEW q \in Reach(l)', "retry" \in status'[q]
                 PROVE  \/ head'[l] = q
                        \/ head'[l] = g /\ next'[g] = q
      BY DEF RetryKeepsHead
    <3>1. q \in Reach(l) /\ q \in Packet /\ head' = head /\ next' = next
      BY <2>1, ListsKept, ListTypes DEF IInv, queueVars
    <3>2. CASE q = p
      BY <1>1, <3>1, <3>2, OwnListOnly DEF IInv
    <3>3. CASE q # p
      BY <2>2, <3>1, <3>3 DEF RetryInv, RetryKeepsHead
    <3> QED
      BY <3>2, <3>3
  <2>4. \A q \in Packet : "retry" \in status'[q] => q \in Retryable
    BY <2>1, <2>2 DEF RetryInv
  <2> QED
    BY <2>1, <2>3, <2>4 DEF RetryInv
<1>3. CASE ~Retries(p, again)
  <2>1. Dequeue(p) /\ (intr' = "callback" => p \in Async)
    BY <1>0, <1>3 DEF GpioIntr, EndCurrent
  <2>2. /\ \A l \in Lists \ {ListOf[p]} : Reach(l)' = Reach(l) /\ head'[l] = head[l]
        /\ Reach(ListOf[p])' = Reach(ListOf[p]) \ {p}
        /\ head'[ListOf[p]] = next[p]
    BY <1>1, <2>1, DequeueLists DEF IInv
  <2>3. /\ next' = [next EXCEPT ![p] = NULL]
        /\ "retry" \notin status'[p] /\ \A q \in Packet \ {p} : status'[q] = status[q]
    BY <2>1 DEF Dequeue, DequeuedStatus, IInv, TypeOK
  <2>4. ASSUME NEW l \in Lists, NEW q \in Reach(l)', "retry" \in status'[q]
        PROVE  /\ \/ head'[l] = q
                  \/ head'[l] = g /\ next'[g] = q
               /\ l = ListOf[p] => p = g
    <3>1. q \in Reach(l) /\ q \in Packet
      BY <2>2, <2>4, ListTypes DEF IInv
    <3>2. q # p /\ "retry" \in status[q]
      BY <2>3, <2>4, <3>1
    <3>3. head[l] = q \/ (head[l] = g /\ next[g] = q)
      BY <3>1, <3>2 DEF RetryInv, RetryKeepsHead
    <3>4. CASE l = ListOf[p]
      BY <1>1, <2>2, <3>2, <3>3, <3>4
    <3>5. CASE l # ListOf[p]
      <4>1. head[l] = g => g # p
        BY <1>1, <3>5, PacketAssumption, NullAssumption, ListTypes, OwnListOnly DEF IInv
      <4>2. head[l] = g => next'[g] = next[g]
        BY <2>3, <4>1, PacketAssumption DEF IInv, TypeOK
      <4> QED
        BY <2>2, <3>3, <3>5, <4>2
    <3> QED
      BY <3>4, <3>5
  <2>5. \A q \in Packet : "retry" \in status'[q] => q \in Retryable
    BY <2>3 DEF RetryInv
  <2>6. RetryKeepsHead'
    BY <2>4 DEF RetryKeepsHead
  <2>7. intr' = "callback" => p # g
    BY <2>1, CommandAssumption DEF Client
  <2>8. Reach(ListOf[local.packet])' = Reach(ListOf[p])'
    BY <1>1 DEF Reach
  <2> QED
    BY <1>1, <2>4, <2>5, <2>6, <2>7, <2>8 DEF RetryInv
<1> QED
  BY <1>2, <1>3

\* A packet put in front of its list: one whose callback has just run, in
\* front of no retry, or GET_STATUS2.
LEMMA PushKeepsRetry ==
  ASSUME IInv, TypeOK', RetryInv, NEW p \in Packet, \A l \in Lists : p \notin Reach(l),
         \A l \in Lists : GetStatus2Cmd \notin Reach(l),
         RequeueFirst(p), intr' # "callback",
         p = GetStatus2Cmd \/ \A q \in Reach(ListOf[p]) : "retry" \notin status[q],
         \A q \in Packet : "retry" \in status'[q] => "retry" \in status[q]
  PROVE  RetryInv'
<1>1. /\ \A l \in Lists \ {ListOf[p]} : Reach(l)' = Reach(l) /\ head'[l] = head[l]
      /\ Reach(ListOf[p])' = Reach(ListOf[p]) \cup {p}
      /\ head'[ListOf[p]] = p
  BY PushLists DEF IInv
<1>2. next'[p] = head[ListOf[p]] /\ ListOf[p] \in Lists
  BY ListTypes DEF IInv, TypeOK, RequeueFirst
<1>3. ASSUME NEW l \in Lists, NEW q \in Reach(l)', "retry" \in status'[q]
      PROVE  \/ head'[l] = q
             \/ head'[l] = GetStatus2Cmd /\ next'[GetStatus2Cmd] = q
  <2>1. CASE q \in Reach(l)
    <3>1. q \in Packet /\ "retry" \in status[q]
      BY <1>3, <2>1, ListTypes DEF IInv
    <3>2. head[l] # GetStatus2Cmd
      BY <2>1, PacketAssumption, NullAssumption, ListTypes DEF IInv
    <3>3. head[l] = q
      BY <2>1, <3>1, <3>2 DEF RetryInv, RetryKeepsHead
    <3>4. CASE l = ListOf[p]
      BY <1>1, <1>2, <2>1, <3>1, <3>3, <3>4
    <3>5. CASE l # ListOf[p]
      BY <1>1, <3>3, <3>5
    <3> QED
      BY <3>4, <3>5
  <2>2. CASE q \notin Reach(l)
    BY <1>1, <1>3, <2>2
  <2> QED
    BY <2>1, <2>2
<1>4. RetryKeepsHead'
  BY <1>3 DEF RetryKeepsHead
<1> QED
  BY <1>4 DEF RetryInv

LEMMA RetryInvNext ==
  ASSUME 2 \notin CallbackResults, UrgentApart, IInv, TypeOK', RetryInv, [Next]_vars
  PROVE  RetryInv'
<1>1. ASSUME NEW p \in Client,
             \/ CheckRebooted(p) \/ CmdSyncWait(p) \/ CmdSyncWake(p) \/ CmdSyncRelease(p)
             \/ CmdSyncPoll(p) \/ CmdSyncPolled(p)
      PROVE  RetryInv'
  <2>1. UNCHANGED <<queueVars, status, intr, local>>
    BY <1>1 DEF CheckRebooted, CmdSyncWait, CmdSyncWake, CmdSyncRelease, CmdSyncPoll,
                CmdSyncPolled
  <2> QED
    BY <2>1, RetryUntouched
<1>2. ASSUME NEW p \in Client, CmdExecAsync(p) \/ CmdExecPolled(p) \/ CallbackSubmit(p)
      PROVE  RetryInv'
  BY <1>2, SubmissionAfterRetry
<1>3. ASSUME NEW p \in Client, CmdCancel(p)
      PROVE  RetryInv'
  BY <1>3, CancelKeepsRetry
<1>4. ASSUME NEW again \in BOOLEAN, NEW enable \in BOOLEAN, GpioIntr(again, enable)
      PROVE  RetryInv'
  BY <1>4, EndKeepsRetry
<1>5. \A l \in Lists : intr # "none" => GetStatus2Cmd \notin Reach(l)
  BY PacketAssumption, NullAssumption DEF IInv, HandlerInv
<1>6. ASSUME NEW r \in CallbackResults, CallbackReturn(r)
      PROVE  RetryInv'
  <2>1. r \in {0, 1} /\ intr = "callback" /\ intr' = "select"
    BY <1>6, ModeAssumption DEF CallbackReturn
  <2>2. CASE r = 0
    BY <1>6, <2>1, <2>2, RetryUntouched DEF CallbackReturn
  <2>3. CASE r = 1
    <3>0. PICK p \in Packet : p = local.packet
      BY <2>1 DEF IInv, HandlerInv
    <3>1. RequeueFirst(p) /\ status' = [status EXCEPT ![p] = status[p] \ {"done"}]
      BY <1>6, <2>3, <3>0 DEF CallbackReturn, RequeuedStatus
    <3>2. \A l \in Lists : p \notin Reach(l)
      BY <2>1, <3>0 DEF IInv, HandlerInv
    <3>3. \A q \in Reach(ListOf[p]) : "retry" \notin status[q]
      BY <2>1, <3>0 DEF RetryInv
    <3>4. \A q \in Packet : "retry" \in status'[q] => "retry" \in status[q]
      BY <3>1 DEF IInv, TypeOK
    <3> QED
      BY <1>5, <2>1, <3>1, <3>2, <3>3, <3>4, PushKeepsRetry
  <2> QED
    BY <2>1, <2>2, <2>3
<1>7. ASSUME NEW early \in BOOLEAN, SelectNext(early)
      PROVE  RetryInv'
  <2>1. intr = "select" /\ intr' = "none" /\ GetStatus2Cmd \in Packet
    BY <1>7, PacketAssumption DEF SelectNext
  <2>2. \A q \in Packet : "retry" \in status'[q] <=> "retry" \in status[q]
    BY <1>7 DEF SelectNext, StartPacket, IInv, TypeOK
  <2>3. CASE AddsStatus2
    <3>1. RequeueFirst(GetStatus2Cmd)
      BY <1>7, <2>3, CommandAssumption DEF SelectNext, SelectHead, RequeueFirst
    <3> QED
      BY <1>5, <2>1, <2>2, <3>1, PushKeepsRetry
  <2>4. CASE ~AddsStatus2
    <3>1. UNCHANGED queueVars
      BY <1>7, <2>4 DEF SelectNext, SelectHead, queueVars
    <3>2. \A l \in Lists : Reach(l)' = Reach(l) /\ Reach(l) \subseteq Packet
      BY <3>1, ListsKept, ListTypes DEF IInv
    <3>3. RetryKeepsHead'
      BY <2>2, <3>1, <3>2 DEF RetryInv, RetryKeepsHead, queueVars
    <3> QED
      BY <2>1, <2>2, <3>3 DEF RetryInv
  <2> QED
    BY <2>3, <2>4
<1>8. CASE SystemStep \/ UNCHANGED vars
  <2>1. UNCHANGED <<queueVars, status, intr, local>>
    BY <1>8 DEF SystemStep, SetRetryMode, EventSuspend, EventPollingOn, EventResume,
                EventPollingOff, RebootBegin, RebootDrained, RebootEnd, vars, queueVars
  <2> QED
    BY <2>1, RetryUntouched
<1> QED
  BY <1>1, <1>2, <1>3, <1>4, <1>6, <1>7, <1>8 DEF Next, ClientStep, HandlerStep

\* Between the answer that asks for a retry and the retry, no other packet of
\* its list is sent but GET_STATUS2.
THEOREM RetriesComeFirst ==
  ASSUME 2 \notin CallbackResults, UrgentApart
  PROVE  Spec => []RetryKeepsHead
<1>1. Init => RetryInv
  <2> SUFFICES ASSUME Init PROVE RetryInv
    OBVIOUS
  <2>1. \A p \in Packet : "retry" \notin status[p]
    BY DEF Init
  <2>2. \A l \in Lists : Reach(l) \subseteq Packet
    BY TypeInit, ListTypes
  <2>3. RetryKeepsHead
    BY <2>1, <2>2 DEF RetryKeepsHead
  <2> QED
    BY <2>1, <2>3 DEF Init, RetryInv
<1>2. IInv /\ IInv' /\ RetryInv /\ [Next]_vars => RetryInv'
  BY RetryInvNext DEF IInv
<1>3. RetryInv => RetryKeepsHead
  BY DEF RetryInv
<1> QED
  BY <1>1, <1>2, <1>3, Inductive, PTL DEF Spec
=============================================================================
