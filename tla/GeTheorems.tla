----------------------------- MODULE GeTheorems -----------------------------
(***************************************************************************)
(* Proofs about the display list queue: the invariant of GeInvariant holds *)
(* initially and is kept by every action, and the properties follow; and   *)
(* GeQueue implements GeService.                                           *)
(***************************************************************************)
EXTENDS GeInvariant, GeRefinement, SequenceTheorems, TLAPS

\* The elements of a sequence, and its head.
LEMMA QueueRange ==
  ASSUME NEW S, NEW q \in Seq(S)
  PROVE  /\ Range(q) \subseteq S
         /\ \A i \in 1 .. Len(q) : q[i] \in Range(q)
         /\ \A x \in Range(q) : \E i \in 1 .. Len(q) : q[i] = x
         /\ q # <<>> => Len(q) >= 1 /\ Head(q) = q[1] /\ Head(q) \in Range(q)
         /\ q = <<>> => Range(q) = {}
<1>1. Range(q) = {q[i] : i \in 1 .. Len(q)}
  BY DEF Range
<1>2. q # <<>> => Len(q) >= 1 /\ Head(q) = q[1]
  OBVIOUS
<1>3. q = <<>> => Len(q) = 0
  OBVIOUS
<1>4. /\ Len(q) \in Nat
      /\ \A i \in 1 .. Len(q) : q[i] \in S
  OBVIOUS
<1>5. Range(q) \subseteq S
  BY <1>1, <1>4
<1>6. q # <<>> => Head(q) \in Range(q)
  BY <1>1, <1>2, <1>4
<1>7. q = <<>> => Range(q) = {}
  BY <1>1, <1>3
<1>8. \A i \in 1 .. Len(q) : q[i] \in Range(q)
  BY <1>1
<1>9. \A x \in Range(q) : \E i \in 1 .. Len(q) : q[i] = x
  BY <1>1
<1> QED
  BY <1>2, <1>5, <1>6, <1>7, <1>8, <1>9

\* What is left when the head of a queue without repetition is taken.
LEMMA TailOfQueue ==
  ASSUME NEW S, NEW q \in Seq(S), q # <<>>, IsInjective(q)
  PROVE  /\ Tail(q) \in Seq(S)
         /\ IsInjective(Tail(q))
         /\ Range(Tail(q)) = Range(q) \ {Head(q)}
<1>1. /\ Tail(q) \in Seq(S) /\ Len(Tail(q)) = Len(q) - 1 /\ Len(q) \in Nat \ {0}
      /\ \A i \in 1 .. Len(q) - 1 : Tail(q)[i] = q[i + 1]
  BY HeadTailProperties
<1>2. IsInjective(Tail(q))
  BY <1>1 DEF IsInjective
<1>3. ASSUME NEW x \in Range(Tail(q)) PROVE x \in Range(q) /\ x # Head(q)
  <2>1. PICK i \in 1 .. Len(q) - 1 : x = Tail(q)[i]
    BY <1>1, QueueRange DEF Range
  <2>2. x = q[i + 1] /\ i + 1 \in 1 .. Len(q) /\ i + 1 # 1 /\ 1 \in 1 .. Len(q)
    BY <2>1, <1>1
  <2>3. x \in Range(q) /\ Head(q) = q[1]
    BY <2>2, QueueRange
  <2>4. x # q[1]
    BY <2>2 DEF IsInjective
  <2> QED
    BY <2>3, <2>4
<1>4. ASSUME NEW x \in Range(q), x # Head(q) PROVE x \in Range(Tail(q))
  <2>1. PICK i \in 1 .. Len(q) : q[i] = x
    BY QueueRange
  <2>2. i # 1
    BY <2>1, <1>4, QueueRange
  <2>3. i - 1 \in 1 .. Len(q) - 1 /\ Tail(q)[i - 1] = q[(i - 1) + 1] /\ (i - 1) + 1 = i
    BY <2>2, <1>1
  <2>4. DOMAIN Tail(q) = 1 .. Len(q) - 1
    BY <1>1
  <2> QED
    BY <2>1, <2>3, <2>4 DEF Range
<1> QED
  BY <1>1, <1>2, <1>3, <1>4

\* What sceGeListDeQueue, sceGeBreak and the end of a list do to the free lists, and
\* sceGeListEnQueue to the active ones.
LEMMA AppendToQueue ==
  ASSUME NEW S, NEW q \in Seq(S), NEW x \in S
  PROVE  /\ Append(q, x) \in Seq(S)
         /\ Range(Append(q, x)) = Range(q) \cup {x}
         /\ x \notin Range(q) /\ IsInjective(q) => IsInjective(Append(q, x))
         /\ Append(q, x) # <<>>
         /\ Head(Append(q, x)) = IF q = <<>> THEN x ELSE Head(q)
<1>1. /\ Append(q, x) \in Seq(S) /\ Len(Append(q, x)) = Len(q) + 1 /\ Len(q) \in Nat
      /\ \A i \in 1 .. Len(q) : Append(q, x)[i] = q[i]
      /\ Append(q, x)[Len(q) + 1] = x /\ Append(q, x) # <<>>
  BY AppendProperties
<1>2. /\ \A i \in 1 .. Len(q) : q[i] \in Range(q)
      /\ \A y \in Range(q) : \E i \in 1 .. Len(q) : q[i] = y
      /\ \A i \in 1 .. Len(q) + 1 : Append(q, x)[i] \in Range(Append(q, x))
      /\ \A y \in Range(Append(q, x)) : \E i \in 1 .. Len(q) + 1 : Append(q, x)[i] = y
  BY <1>1, QueueRange
<1>3. Range(Append(q, x)) = Range(q) \cup {x}
  <2>1. ASSUME NEW y \in Range(Append(q, x)) PROVE y \in Range(q) \cup {x}
    BY <1>1, <1>2
  <2>2. ASSUME NEW y \in Range(q) \cup {x} PROVE y \in Range(Append(q, x))
    <3>1. CASE y = x
      BY <3>1, <1>1, <1>2
    <3>2. CASE y \in Range(q)
      <4>1. PICK i \in 1 .. Len(q) : q[i] = y
        BY <3>2, <1>2
      <4> QED
        BY <4>1, <1>1, <1>2
    <3> QED
      BY <2>2, <3>1, <3>2
  <2> QED
    BY <2>1, <2>2
<1>4. x \notin Range(q) /\ IsInjective(q) => IsInjective(Append(q, x))
  BY <1>1, <1>2 DEF IsInjective
<1>5. Head(Append(q, x)) = IF q = <<>> THEN x ELSE Head(q)
  BY HeadTailAppend
<1> QED
  BY <1>1, <1>3, <1>4, <1>5

\* sceGeListEnQueueHead puts a list in front.
LEMMA PrependToQueue ==
  ASSUME NEW S, NEW q \in Seq(S), NEW x \in S
  PROVE  /\ <<x>> \o q \in Seq(S)
         /\ Range(<<x>> \o q) = Range(q) \cup {x}
         /\ x \notin Range(q) /\ IsInjective(q) => IsInjective(<<x>> \o q)
         /\ <<x>> \o q # <<>>
         /\ Head(<<x>> \o q) = x
<1> DEFINE r == <<x>> \o q
<1>1. /\ r \in Seq(S) /\ Len(r) = Len(q) + 1 /\ Len(q) \in Nat
      /\ \A i \in 2 .. Len(q) + 1 : r[i] = q[i - 1]
      /\ r[1] = x
  OBVIOUS
<1>2. /\ \A i \in 1 .. Len(q) : q[i] \in Range(q) /\ r[i + 1] = q[i]
      /\ \A y \in Range(q) : \E i \in 1 .. Len(q) : q[i] = y
      /\ \A i \in 1 .. Len(q) + 1 : r[i] \in Range(r)
      /\ \A y \in Range(r) : \E i \in 1 .. Len(q) + 1 : r[i] = y
      /\ r # <<>> /\ Head(r) = r[1]
  <2>1. \A i \in 1 .. Len(q) : i + 1 \in 2 .. Len(q) + 1 /\ (i + 1) - 1 = i
    BY <1>1
  <2>2. r # <<>>
    BY <1>1
  <2> HIDE DEF r
  <2>3. /\ \A i \in 1 .. Len(q) : q[i] \in Range(q)
        /\ \A y \in Range(q) : \E i \in 1 .. Len(q) : q[i] = y
    BY QueueRange
  <2>4. /\ \A i \in 1 .. Len(r) : r[i] \in Range(r)
        /\ \A y \in Range(r) : \E i \in 1 .. Len(r) : r[i] = y
        /\ Head(r) = r[1]
    BY <1>1, <2>2, QueueRange
  <2>5. \A i \in 1 .. Len(q) : r[i + 1] = q[i]
    BY <1>1, <2>1
  <2> QED
    BY <1>1, <2>2, <2>3, <2>4, <2>5
<1> HIDE DEF r
<1>3. Range(r) = Range(q) \cup {x}
  <2>1. ASSUME NEW y \in Range(r) PROVE y \in Range(q) \cup {x}
    <3>1. PICK i \in 1 .. Len(q) + 1 : r[i] = y
      BY <1>2
    <3>2. CASE i = 1
      BY <3>1, <3>2, <1>1
    <3>3. CASE i # 1
      <4>1. i - 1 \in 1 .. Len(q) /\ r[i] = q[i - 1]
        BY <3>3, <1>1
      <4> QED
        BY <4>1, <3>1, <1>2
    <3> QED
      BY <3>2, <3>3
  <2>2. ASSUME NEW y \in Range(q) PROVE y \in Range(r)
    <3>1. PICK i \in 1 .. Len(q) : q[i] = y
      BY <2>2, <1>2
    <3> QED
      BY <3>1, <1>1, <1>2
  <2>3. x \in Range(r)
    BY <1>1, <1>2
  <2> QED
    BY <2>1, <2>2, <2>3
<1>4. x \notin Range(q) /\ IsInjective(q) => IsInjective(r)
  <2> SUFFICES ASSUME x \notin Range(q), IsInjective(q),
                      NEW i \in 1 .. Len(q) + 1, NEW j \in 1 .. Len(q) + 1, r[i] = r[j]
               PROVE  i = j
    BY <1>1 DEF IsInjective
  <2>1. CASE i = 1 /\ j = 1
    BY <2>1
  <2>2. CASE i = 1 /\ j # 1
    BY <2>2, <1>1, <1>2
  <2>3. CASE i # 1 /\ j = 1
    BY <2>3, <1>1, <1>2
  <2>4. CASE i # 1 /\ j # 1
    <3>1. i - 1 \in 1 .. Len(q) /\ j - 1 \in 1 .. Len(q) /\ q[i - 1] = q[j - 1]
      BY <2>4, <1>1
    <3> QED
      BY <3>1, <2>4 DEF IsInjective
  <2> QED
    BY <2>1, <2>2, <2>3, <2>4
<1> QED
  BY <1>1, <1>2, <1>3, <1>4 DEF r

\* A list is unlinked from wherever it stands (ge.c:2294-2303), and no other.
LEMMA UnlinkFromQueue ==
  ASSUME NEW S, NEW q \in Seq(S), IsInjective(q), NEW x
  PROVE  /\ Unlinked(q, x) \in Seq(S)
         /\ IsInjective(Unlinked(q, x))
         /\ Range(Unlinked(q, x)) = Range(q) \ {x}
         /\ q # <<>> /\ Head(q) # x => Unlinked(q, x) # <<>> /\ Head(Unlinked(q, x)) = Head(q)
<1>1. CASE x \notin Range(q)
  BY <1>1 DEF Unlinked
<1>2. CASE x \in Range(q)
  <2> DEFINE k == CHOOSE i \in DOMAIN q : q[i] = x
             r == Unlinked(q, x)
  <2>1. k \in 1 .. Len(q) /\ q[k] = x /\ Len(q) \in Nat
    BY <1>2, QueueRange
  <2>2. \A i \in 1 .. Len(q) : q[i] = x => i = k
    BY <2>1 DEF IsInjective
  <2> DEFINE u == SubSeq(q, 1, k - 1)
             v == SubSeq(q, k + 1, Len(q))
  <2>3. r = u \o v
    BY <1>2 DEF Unlinked, RemoveAt
  <2> HIDE DEF k
  <2>4. u \in Seq(S) /\ Len(u) = k - 1 /\ \A i \in 1 .. k - 1 : u[i] = q[i]
    BY <2>1
  <2>5. v \in Seq(S) /\ Len(v) = Len(q) - k /\ \A i \in 1 .. Len(q) - k : v[i] = q[i + k]
    BY <2>1
  <2> HIDE DEF r, u, v
  <2>6. r \in Seq(S) /\ Len(r) = Len(q) - 1
    <3>1. r \in Seq(S) /\ Len(r) = Len(u) + Len(v)
      BY <2>3, <2>4, <2>5, ConcatProperties
    <3> QED
      BY <3>1, <2>1, <2>4, <2>5
  <2>7. \A i \in 1 .. Len(q) - 1 : r[i] = IF i < k THEN q[i] ELSE q[i + 1]
    <3> TAKE i \in 1 .. Len(q) - 1
    <3>1. r[i] = IF i <= k - 1 THEN u[i] ELSE v[i - (k - 1)]
      BY <2>1, <2>3, <2>4, <2>5, ConcatProperties
    <3>2. CASE i < k
      BY <3>1, <3>2, <2>1, <2>4
    <3>3. CASE ~(i < k)
      <4>1. i - (k - 1) \in 1 .. Len(q) - k /\ (i - (k - 1)) + k = i + 1
        BY <3>3, <2>1
      <4> QED
        BY <3>1, <3>3, <4>1, <2>1, <2>5
    <3> QED
      BY <3>2, <3>3
  <2>8. IsInjective(r)
    <3> SUFFICES ASSUME NEW i \in 1 .. Len(q) - 1, NEW j \in 1 .. Len(q) - 1, r[i] = r[j]
                 PROVE  i = j
      BY <2>6 DEF IsInjective
    <3> DEFINE at(n) == IF n < k THEN n ELSE n + 1
    <3>1. r[i] = q[at(i)] /\ r[j] = q[at(j)]
      BY <2>7
    <3>2. at(i) \in 1 .. Len(q) /\ at(j) \in 1 .. Len(q)
      BY <2>1
    <3>3. at(i) = at(j)
      <4> HIDE DEF at
      <4> QED
        BY <3>1, <3>2, DOMAIN q = 1 .. Len(q) DEF IsInjective
    <3> QED
      BY <3>3, <2>1
  <2>9. Range(r) = Range(q) \ {x}
    <3>1. ASSUME NEW y \in Range(r) PROVE y \in Range(q) \ {x}
      <4>1. PICK i \in 1 .. Len(q) - 1 : r[i] = y
        BY <2>6, QueueRange
      <4>2. CASE i < k
        <5>1. i \in 1 .. Len(q) /\ y = q[i] /\ i # k
          BY <4>1, <4>2, <2>1, <2>7
        <5> QED
          BY <5>1, <2>2, QueueRange
      <4>3. CASE ~(i < k)
        <5>1. i + 1 \in 1 .. Len(q) /\ y = q[i + 1] /\ i + 1 # k
          BY <4>1, <4>3, <2>1, <2>7
        <5> QED
          BY <5>1, <2>2, QueueRange
      <4> QED
        BY <4>2, <4>3
    <3>2. ASSUME NEW y \in Range(q), y # x PROVE y \in Range(r)
      <4>1. PICK i \in 1 .. Len(q) : q[i] = y
        BY QueueRange
      <4>2. i # k
        BY <4>1, <3>2, <2>1
      <4>3. CASE i < k
        <5>1. i \in 1 .. Len(q) - 1 /\ r[i] = y
          BY <4>1, <4>3, <2>1, <2>7
        <5> QED
          BY <5>1, <2>6, QueueRange
      <4>4. CASE i > k
        <5>1. i - 1 \in 1 .. Len(q) - 1 /\ r[i - 1] = y
          BY <4>1, <4>4, <2>1, <2>7
        <5> QED
          BY <5>1, <2>6, QueueRange
      <4> QED
        BY <4>1, <4>2, <4>3, <4>4, <2>1
    <3> QED
      BY <3>1, <3>2
  <2>10. ASSUME Head(q) # x PROVE r # <<>> /\ Head(r) = Head(q)
    <3>1. q # <<>> /\ Head(q) = q[1] /\ k # 1
      BY <2>10, <2>1, QueueRange
    <3>2. Len(r) >= 1 /\ r[1] = q[1]
      BY <3>1, <2>1, <2>6, <2>7
    <3>3. r # <<>>
      BY <3>2
    <3> QED
      BY <3>1, <3>2, <3>3, <2>6, QueueRange
  <2> QED
    BY <2>6, <2>8, <2>9, <2>10 DEF r
<1> QED
  BY <1>1, <1>2

\* sceGeInit and sceGeBreak(1) free every list.
LEMMA AllFree ==
  LET q == [i \in 1 .. MAX_COUNT_DL |-> i - 1]
  IN  q \in Seq(DisplayLists) /\ IsInjective(q) /\ Range(q) = DisplayLists
<1> DEFINE q == [i \in 1 .. MAX_COUNT_DL |-> i - 1]
<1>1. q \in Seq(DisplayLists)
  BY CountAssumption DEF DisplayLists
<1>2. IsInjective(q)
  BY CountAssumption DEF IsInjective
<1>3. Range(q) \subseteq DisplayLists
  BY <1>1, QueueRange
<1>4. ASSUME NEW dl \in DisplayLists PROVE dl \in Range(q)
  <2>1. dl + 1 \in 1 .. MAX_COUNT_DL /\ q[dl + 1] = dl
    BY CountAssumption DEF DisplayLists
  <2> HIDE DEF q
  <2>2. DOMAIN q = 1 .. MAX_COUNT_DL
    BY DEF q
  <2> QED
    BY <2>1, <2>2 DEF Range
<1> QED
  BY <1>1, <1>2, <1>3, <1>4

\* The event flag of a list is one of as many as there are lists.
LEMMA EvFlagIsList ==
  ASSUME NEW dl \in DisplayLists
  PROVE  ListEvFlag(dl) \in DisplayLists
BY CountAssumption, SizeAssumption DEF ListEvFlag, DisplayLists

\* A pointer is NULL or a list; the commands of the driver are neither.
LEMMA Pointers ==
  /\ NULL \in DlPointer /\ \A dl \in DisplayLists : dl \in DlPointer /\ dl # NULL /\ dl # g_cmdList
  /\ g_cmdList \notin DlPointer
BY NullAssumption DEF DlPointer

\* A wake-up leaves a thread where the event flags let it go.
LEMMA WakesType ==
  ASSUME TypeOK, NEW draw, NEW bits, Wakes(draw, bits)
  PROVE  /\ pc' \in [Thread -> [op : {"idle", "drawSync", "listSync", "test", "clear", "unbusy"}, dl : DlPointer]]
         /\ \A t \in Thread : pc'[t] \in {pc[t], Idle} \/ pc'[t] = [op |-> "test", dl |-> 0]
         /\ \A t \in Thread : pc[t] = Idle => pc'[t] = Idle
<1>1. 0 \in DlPointer /\ NULL \in DlPointer
  BY CountAssumption DEF DlPointer, DisplayLists
<1>2. \A t \in Thread : pc'[t] = Released(pc[t], draw, bits) /\ pc[t] \in [op : {"idle", "drawSync", "listSync", "test", "clear", "unbusy"}, dl : DlPointer]
  BY DEF Wakes, TypeOK
<1>3. \A t \in Thread : pc'[t] \in {pc[t], Idle} \/ pc'[t] = [op |-> "test", dl |-> 0]
  BY <1>2 DEF Released
<1>4. \A t \in Thread : pc'[t] \in [op : {"idle", "drawSync", "listSync", "test", "clear", "unbusy"}, dl : DlPointer]
  BY <1>1, <1>2, <1>3 DEF Idle
<1>5. pc' = [t \in Thread |-> pc'[t]]
  BY DEF Wakes
<1>6. \A t \in Thread : pc[t] = Idle => pc'[t] = Idle
  BY <1>2 DEF Released, Idle
<1> QED
  BY <1>3, <1>4, <1>5, <1>6

\* sceGeListEnQueue takes the first free list to the end of the queue, and starts it
\* if it is the only one.
LEMMA EnQueueStep ==
  ASSUME IInv, OneEnqueuer, NEW a \in Thread \cup {"callback"}, EnQueue(a)
  PROVE  IInv'
<1> USE IInv, OneEnqueuer, EnQueue(a)
<1>a. active \in Seq(DisplayLists) /\ free \in Seq(DisplayLists)
  BY DEF IInv, TypeOK
<1>h. /\ Active \subseteq DisplayLists /\ Free \subseteq DisplayLists
      /\ active # <<>> => Head(active) \in Active
      /\ active = <<>> => Active = {}
  BY <1>a, QueueRange DEF Active, Free
<1>f. /\ Head(free) \in Free /\ Head(free) \in DisplayLists
      /\ free' \in Seq(DisplayLists) /\ IsInjective(free')
      /\ Free' = Free \ {Head(free)}
  BY <1>a, QueueRange, TailOfQueue DEF IInv, QueuesPartition, Free, EnQueue
<1>g. /\ active' \in Seq(DisplayLists) /\ IsInjective(active') /\ active' # <<>>
      /\ Active' = Active \cup {Head(free)}
      /\ Head(active') = IF active = <<>> THEN Head(free) ELSE Head(active)
  <2>1. CASE active = <<>>
    <3>1. active' = <<Head(free)>>
      BY <2>1 DEF EnQueue, EnQueueFirst, EnQueueLast
    <3> QED
      BY <3>1, <2>1, <1>f DEF Active, Range, IsInjective
  <2>2. CASE active # <<>>
    <3>1. active' = Append(active, Head(free))
      BY <2>2 DEF EnQueue, EnQueueFirst, EnQueueLast
    <3> QED
      BY <3>1, <1>a, <1>f, AppendToQueue DEF IInv, QueuesPartition, Active
  <2> QED
    BY <2>1, <2>2
<1>c. a \in Thread /\ handler.at = "none"
  BY ActorAssumption DEF OneEnqueuer, EnQueue, Calls
<1>s. /\ state' \in [DisplayLists -> {"none", "queued", "running", "completed", "paused"}]
      /\ signal' \in [DisplayLists -> {"none", "break", "pause", "sync"}]
  <2>1. CASE EnQueueFirst(Head(free))
    BY <2>1 DEF IInv, TypeOK, EnQueueFirst, Fresh
  <2>2. CASE EnQueueLast(Head(free))
    BY <2>2 DEF IInv, TypeOK, EnQueueLast, Fresh
  <2> QED
    BY <2>1, <2>2 DEF EnQueue
<1>1. TypeOK'
  <2>1. CASE EnQueueFirst(Head(free))
    <3>1. resumesAtFin' \in [DisplayLists -> BOOLEAN] /\ isBusy' \in [DisplayLists -> BOOLEAN]
      BY <2>1 DEF IInv, TypeOK, EnQueueFirst, Fresh
    <3>2. exec' \in BOOLEAN /\ atFin' \in BOOLEAN /\ clock' \in BOOLEAN /\ drawingEvFlag' \in BOOLEAN
      BY <2>1, <3>1, <1>f DEF EnQueueFirst, Programs
    <3> QED
      BY <2>1, <3>1, <1>f, <1>g, <1>s, Pointers DEF IInv, TypeOK, EnQueue, EnQueueFirst,
           Programs, ClearListEvFlag
  <2>2. CASE EnQueueLast(Head(free))
    <3>1. resumesAtFin' \in [DisplayLists -> BOOLEAN] /\ isBusy' \in [DisplayLists -> BOOLEAN]
      BY <2>2 DEF IInv, TypeOK, EnQueueLast, Fresh
    <3> QED
      BY <2>2, <3>1, <1>s DEF IInv, TypeOK, EnQueue, EnQueueLast, ClearListEvFlag, ge
  <2> QED
    BY <2>1, <2>2 DEF EnQueue
<1>2. RecordInv'
  BY DEF IInv, RecordInv, EnQueue
<1>3. QueuesPartition'
  BY <1>f, <1>g DEF IInv, TypeOK, RecordInv, QueuesPartition, RunningInv, StateInv,
       ResetInv, EnQueue
<1>4. RunningInv'
  BY <1>g DEF IInv, TypeOK, RecordInv, QueuesPartition, RunningInv, EnQueue, EnQueueFirst,
       EnQueueLast, Programs
<1>5. StateInv'
  BY <1>h, <1>f, <1>g, <1>c, NullAssumption, ActorAssumption, EvFlagIsList, Pointers DEF
       IInv, TypeOK, RecordInv, QueuesPartition, RunningInv, StateInv, ResetInv, EnQueue,
       EnQueueFirst, EnQueueLast
<1>6. ResetInv'
  BY ActorAssumption DEF IInv, TypeOK, RecordInv, ResetInv, Idle, OneEnqueuer, EnQueue, Calls
<1>7. SignalInv'
  BY DEF IInv, TypeOK, SignalInv, EnQueue, EnQueueFirst, EnQueueLast, Fresh
<1>8. HandlerInv'
  BY <1>h, ActorAssumption, EvFlagIsList, Pointers DEF IInv, TypeOK, RecordInv,
       QueuesPartition, RunningInv, StateInv, ResetInv, HandlerInv, WorkInv, Working, ge,
       OneEnqueuer, EnQueue, EnQueueFirst, EnQueueLast, Calls
<1>9. WorkInv'
  <2>1. CASE active = <<>>
    <3>1. ~Working /\ curRunning = NULL
      BY <2>1, <1>h DEF IInv, WorkInv
    <3> QED
      BY <2>1, <1>g, Pointers DEF IInv, TypeOK, WorkInv, EnQueue, EnQueueFirst, EnQueueLast,
           Programs
  <2>2. CASE active # <<>>
    <3>1. /\ isBusy' = [isBusy EXCEPT ![Head(free)] = FALSE] /\ Head(free) \notin Active
          /\ UNCHANGED <<curRunning, drawingEvFlag, exec, ladr, atFin, intr, clock, handler>>
      BY <2>2, <1>f DEF IInv, QueuesPartition, EnQueue, EnQueueFirst, EnQueueLast, ge
    <3>2. \A l \in Active : isBusy[l] => l \in Active' /\ isBusy'[l]
      BY <3>1, <1>g
    <3> QED
      BY <3>1, <3>2 DEF IInv, WorkInv, Working
  <2> QED
    BY <2>1, <2>2
<1>10. HeadInv'
  BY <1>f, <1>g DEF IInv, TypeOK, RecordInv, QueuesPartition, RunningInv, StateInv,
       ResetInv, HeadInv, InList, ge, EnQueue, EnQueueFirst, EnQueueLast, Programs
<1> QED
  BY <1>1, <1>2, <1>3, <1>4, <1>5, <1>6, <1>7, <1>8, <1>9, <1>10 DEF IInv

\* sceGeListEnQueueHead takes one to the front of a paused queue, or loses it.
LEMMA EnQueueHeadStep ==
  ASSUME IInv, OneEnqueuer, NEW a \in Thread \cup {"callback"}, EnQueueHead(a)
  PROVE  IInv'
<1> USE IInv, OneEnqueuer, EnQueueHead(a)
<1>a. active \in Seq(DisplayLists) /\ free \in Seq(DisplayLists)
  BY DEF IInv, TypeOK
<1>h. /\ Active \subseteq DisplayLists /\ Free \subseteq DisplayLists
      /\ active # <<>> => Head(active) \in Active
      /\ active = <<>> => Active = {}
  BY <1>a, QueueRange DEF Active, Free
<1>f. /\ Head(free) \in Free /\ Head(free) \in DisplayLists
      /\ free' \in Seq(DisplayLists) /\ IsInjective(free')
      /\ Free' = Free \ {Head(free)}
  BY <1>a, QueueRange, TailOfQueue DEF IInv, QueuesPartition, Free, EnQueueHead
<1>c. a \in Thread /\ handler.at = "none"
  BY ActorAssumption DEF OneEnqueuer, EnQueueHead, Calls
<1>g. EnQueueHeadTaken(Head(free)) =>
        /\ active' \in Seq(DisplayLists) /\ IsInjective(active') /\ active' # <<>>
        /\ Active' = Active \cup {Head(free)}
        /\ Head(active') = Head(free)
  BY <1>a, <1>f, PrependToQueue DEF IInv, QueuesPartition, Active, EnQueueHeadTaken
<1>k. /\ UNCHANGED <<curRunning, isBreak, drawingEvFlag, exec, ladr, atFin, intr, clock, handler>>
      /\ signal' = [signal EXCEPT ![Head(free)] = "none"]
      /\ isBusy' = [isBusy EXCEPT ![Head(free)] = FALSE]
      /\ EnQueueHeadTaken(Head(free)) =>
           IF active = <<>> THEN state' = [state EXCEPT ![Head(free)] = "paused"]
           ELSE state' = [state EXCEPT ![Head(free)] = "paused", ![Head(active)] = "queued"]
  BY DEF EnQueueHead, EnQueueHeadTaken, EnQueuedHead, Fresh, ge
<1>s. state' \in [DisplayLists -> {"none", "queued", "running", "completed", "paused"}]
  <2>1. CASE EnQueueHeadTaken(Head(free))
    BY <2>1 DEF IInv, TypeOK, EnQueueHeadTaken, EnQueuedHead
  <2>2. CASE EnQueueHeadRefused(Head(free))
    BY <2>2 DEF IInv, TypeOK, EnQueueHeadRefused
  <2> QED
    BY <2>1, <2>2 DEF EnQueueHead
<1>1. TypeOK'
  <2>1. isBusy' \in [DisplayLists -> BOOLEAN]
    BY DEF IInv, TypeOK, EnQueueHead
  <2>2. /\ state' \in [DisplayLists -> {"none", "queued", "running", "completed", "paused"}]
        /\ signal' \in [DisplayLists -> {"none", "break", "pause", "sync"}]
    BY DEF IInv, TypeOK, EnQueueHead, EnQueueHeadRefused, EnQueueHeadTaken, EnQueuedHead, Fresh
  <2> QED
    BY <2>2, <1>g DEF IInv, TypeOK, ge, EnQueueHead, EnQueueHeadRefused, EnQueueHeadTaken,
         Fresh, ClearListEvFlag
<1>2. RecordInv'
  BY DEF IInv, RecordInv, EnQueueHead
<1>3. QueuesPartition'
  <2>1. CASE EnQueueHeadTaken(Head(free))
    BY <2>1, <1>f, <1>g DEF IInv, QueuesPartition, EnQueueHeadTaken
  <2>2. CASE EnQueueHeadRefused(Head(free))
    BY <2>2, <1>f DEF IInv, QueuesPartition, EnQueueHeadRefused, Active
  <2> QED
    BY <2>1, <2>2 DEF EnQueueHead
<1>4. RunningInv'
  <2>1. CASE EnQueueHeadTaken(Head(free))
    BY <2>1, <1>k, <1>s DEF IInv, RunningInv
  <2>2. CASE EnQueueHeadRefused(Head(free))
    BY <2>2, <1>k, <1>f DEF IInv, RunningInv, StateInv, EnQueueHeadRefused
  <2> QED
    BY <2>1, <2>2 DEF EnQueueHead
<1>l. \A d \in Active : state[d] \in {"queued", "running", "paused"}
  BY <1>c DEF IInv, StateInv
<1>5. StateInv'
  <2>1. CASE EnQueueHeadTaken(Head(free))
    <3>1. \A d \in Active' : state'[d] \in {"queued", "running", "paused"}
      <4>1. CASE active = <<>>
        BY <2>1, <4>1, <1>k, <1>g, <1>h DEF IInv, TypeOK
      <4>2. CASE active # <<>>
        <5>1. state' = [state EXCEPT ![Head(free)] = "paused", ![Head(active)] = "queued"]
          BY <2>1, <4>2, <1>k
        <5> QED
          BY <2>1, <5>1, <1>g, <1>h, <1>l DEF IInv, TypeOK
      <4> QED
        BY <4>1, <4>2
    <3>2. \A d \in Free' : state'[d] = state[d] /\ isBusy'[d] = isBusy[d]
      BY <2>1, <1>k, <1>f, <1>h DEF IInv, TypeOK, QueuesPartition
    <3> QED
      BY <3>1, <3>2, <1>f DEF IInv, StateInv
  <2>2. CASE EnQueueHeadRefused(Head(free))
    BY <2>2, <1>k, <1>f DEF IInv, StateInv, EnQueueHeadRefused, Active
  <2> QED
    BY <2>1, <2>2 DEF EnQueueHead
<1>6. ResetInv'
  BY ActorAssumption DEF IInv, TypeOK, RecordInv, StateInv, ResetInv, Idle, OneEnqueuer,
       EnQueueHead, Calls
<1>7. SignalInv'
  <2>1. CASE EnQueueHeadTaken(Head(free))
    BY <2>1, <1>k, Pointers DEF IInv, SignalInv, TypeOK, EnQueueHeadTaken
  <2>2. CASE EnQueueHeadRefused(Head(free))
    BY <2>2, <1>k DEF IInv, SignalInv, EnQueueHeadRefused
  <2> QED
    BY <2>1, <2>2 DEF EnQueueHead
<1>8. HandlerInv'
  BY ActorAssumption DEF IInv, TypeOK, RecordInv, QueuesPartition, RunningInv, HandlerInv,
       ge, OneEnqueuer, EnQueueHead, Calls
<1>9. WorkInv'
  <2>1. CASE EnQueueHeadTaken(Head(free))
    BY <2>1, <1>k, <1>f, <1>g DEF IInv, WorkInv, QueuesPartition, Working
  <2>2. CASE EnQueueHeadRefused(Head(free))
    BY <2>2, <1>k, <1>f DEF IInv, WorkInv, QueuesPartition, Working, EnQueueHeadRefused, Active
  <2> QED
    BY <2>1, <2>2 DEF EnQueueHead
<1>10. HeadInv'
  <2>1. CASE EnQueueHeadTaken(Head(free))
    BY <2>1, <1>k DEF IInv, HeadInv, InList, EnQueueHeadTaken
  <2>2. CASE EnQueueHeadRefused(Head(free))
    BY <2>2, <1>k DEF IInv, HeadInv, InList, EnQueueHeadRefused
  <2> QED
    BY <2>1, <2>2 DEF EnQueueHead
<1> QED
  BY <1>1, <1>2, <1>3, <1>4, <1>5, <1>6, <1>7, <1>8, <1>9, <1>10 DEF IInv

\* sceGeListDeQueue of a queued or paused list.
LEMMA DeQueueStep ==
  ASSUME IInv, OneEnqueuer, NEW a \in Thread \cup {"callback"}, NEW d \in DisplayLists, DeQueue(a, d)
  PROVE  IInv'
<1> USE IInv, OneEnqueuer, DeQueue(a, d)
<1>a. active \in Seq(DisplayLists) /\ free \in Seq(DisplayLists)
  BY DEF IInv, TypeOK
<1>h. /\ Active \subseteq DisplayLists /\ Free \subseteq DisplayLists
      /\ active # <<>> => Head(active) \in Active
      /\ active = <<>> => Active = {}
  BY <1>a, QueueRange DEF Active, Free
<1>c. pc' \in [Thread -> [op : {"idle", "drawSync", "listSync", "test", "clear", "unbusy"}, dl : DlPointer]]
  BY WakesType DEF IInv, DeQueue
<1>f. /\ free' \in Seq(DisplayLists) /\ IsInjective(free') /\ Free' = Free \cup {d}
      /\ d \notin Free
  BY <1>a, AppendToQueue DEF IInv, QueuesPartition, StateInv, Free, DeQueue, MayDeQueue
<1>g. /\ active' \in Seq(DisplayLists) /\ IsInjective(active')
      /\ Active' = Active \ {d}
      /\ active # <<>> /\ Head(active) # d => active' # <<>> /\ Head(active') = Head(active)
  BY <1>a, UnlinkFromQueue DEF IInv, QueuesPartition, Active, DeQueue
<1>1. TypeOK'
  <2>1. /\ state' \in [DisplayLists -> {"none", "queued", "running", "completed", "paused"}]
        /\ signal' \in [DisplayLists -> {"none", "break", "pause", "sync"}]
    BY DEF IInv, TypeOK, DeQueue
  <2> QED
    BY <1>c, <1>g, EvFlagIsList DEF IInv, TypeOK, ge, DeQueue, Released
<1>2. RecordInv'
  BY DEF IInv, RecordInv, Idle, DeQueue, Wakes, Released
<1>3. QueuesPartition'
  BY <1>f, <1>g, NullAssumption, ActorAssumption, EvFlagIsList, Pointers DEF IInv, TypeOK,
       RecordInv, QueuesPartition, RunningInv, DeQueue
<1>4. RunningInv'
  BY <1>g DEF IInv, TypeOK, RunningInv, DeQueue
<1>5. StateInv'
  BY <1>f, <1>g, NullAssumption, ActorAssumption, EvFlagIsList, Pointers DEF IInv, TypeOK,
       RecordInv, QueuesPartition, RunningInv, StateInv, DeQueue
<1>6. ResetInv'
  BY <1>g DEF IInv, ResetInv, Idle, DeQueue, Wakes, Released
<1>7. SignalInv'
  BY DEF IInv, RunningInv, SignalInv, DeQueue, MayDeQueue
<1>8. HandlerInv'
  BY <1>g DEF IInv, TypeOK, RecordInv, HandlerInv, ge, DeQueue, MayDeQueue
<1>9. WorkInv'
  BY <1>g DEF IInv, TypeOK, RecordInv, WorkInv, Working, ge, DeQueue, MayDeQueue
<1>10. HeadInv'
  BY <1>g DEF IInv, TypeOK, RecordInv, RunningInv, HeadInv, InList, ge, DeQueue, MayDeQueue
<1> QED
  BY <1>1, <1>2, <1>3, <1>4, <1>5, <1>6, <1>7, <1>8, <1>9, <1>10 DEF IInv

\* sceGeListSync only makes its thread wait.
LEMMA ListSyncStep ==
  ASSUME IInv, OneEnqueuer, NEW t \in Thread, NEW d \in DisplayLists, ListSync(t, d)
  PROVE  IInv'
<1> USE IInv, OneEnqueuer, ListSync(t, d)
<1>a. active \in Seq(DisplayLists) /\ free \in Seq(DisplayLists)
  BY DEF IInv, TypeOK
<1>h. /\ Active \subseteq DisplayLists /\ Free \subseteq DisplayLists
      /\ active # <<>> => Head(active) \in Active
      /\ active = <<>> => Active = {}
  BY <1>a, QueueRange DEF Active, Free
<1>1. TypeOK'
  BY Pointers DEF IInv, TypeOK, lists, flags, ge, ListSync
<1>2. RecordInv'
  BY DEF IInv, RecordInv, ListSync
<1>3. QueuesPartition'
  BY DEF IInv, QueuesPartition, Active, Free, ListSync
<1>4. RunningInv'
  BY DEF IInv, RunningInv, lists, ListSync
<1>5. StateInv'
  BY DEF IInv, StateInv, lists, Active, Free, ListSync
<1>6. ResetInv'
  BY DEF IInv, TypeOK, RecordInv, ResetInv, Idle, OneEnqueuer, ListSync
<1>7. SignalInv'
  BY DEF IInv, SignalInv, lists, ListSync
<1>8. HandlerInv'
  BY DEF IInv, HandlerInv, lists, ge, ListSync
<1>9. WorkInv'
  BY DEF IInv, WorkInv, Working, lists, flags, ge, Active, ListSync
<1>10. HeadInv'
  BY DEF IInv, HeadInv, InList, lists, ge, ListSync
<1> QED
  BY <1>1, <1>2, <1>3, <1>4, <1>5, <1>6, <1>7, <1>8, <1>9, <1>10 DEF IInv

\* sceGeDrawSync waits for drawing to end, or begins its loop.
LEMMA DrawSyncStep ==
  ASSUME IInv, OneEnqueuer, NEW t \in Thread, DrawSync(t)
  PROVE  IInv'
<1> USE IInv, OneEnqueuer, DrawSync(t)
<1>a. active \in Seq(DisplayLists) /\ free \in Seq(DisplayLists)
  BY DEF IInv, TypeOK
<1>h. /\ Active \subseteq DisplayLists /\ Free \subseteq DisplayLists
      /\ active # <<>> => Head(active) \in Active
      /\ active = <<>> => Active = {}
  BY <1>a, QueueRange DEF Active, Free
<1>1. TypeOK'
  BY CountAssumption DEF IInv, TypeOK, lists, flags, ge, DlPointer, DisplayLists, DrawSync
<1>2. RecordInv'
  BY CountAssumption DEF IInv, RecordInv, DisplayLists, DrawSync
<1>3. QueuesPartition'
  BY DEF IInv, QueuesPartition, Active, Free, DrawSync
<1>4. RunningInv'
  BY DEF IInv, RunningInv, lists, DrawSync
<1>5. StateInv'
  BY DEF IInv, StateInv, lists, Active, Free, DrawSync
<1>6. ResetInv'
  BY DEF IInv, TypeOK, RecordInv, ResetInv, Idle, OneEnqueuer, DrawSync
<1>7. SignalInv'
  BY DEF IInv, SignalInv, lists, DrawSync
<1>8. HandlerInv'
  BY DEF IInv, HandlerInv, lists, ge, DrawSync
<1>9. WorkInv'
  BY DEF IInv, WorkInv, Working, lists, flags, ge, Active, DrawSync
<1>10. HeadInv'
  BY DEF IInv, HeadInv, InList, lists, ge, DrawSync
<1> QED
  BY <1>1, <1>2, <1>3, <1>4, <1>5, <1>6, <1>7, <1>8, <1>9, <1>10 DEF IInv

\* The loop of sceGeDrawSync finds a list completed, or goes on.
LEMMA DrawSyncTestStep ==
  ASSUME IInv, OneEnqueuer, NEW t \in Thread, DrawSyncTest(t)
  PROVE  IInv'
<1> USE IInv, OneEnqueuer, DrawSyncTest(t)
<1>a. active \in Seq(DisplayLists) /\ free \in Seq(DisplayLists)
  BY DEF IInv, TypeOK
<1>h. /\ Active \subseteq DisplayLists /\ Free \subseteq DisplayLists
      /\ active # <<>> => Head(active) \in Active
      /\ active = <<>> => Active = {}
  BY <1>a, QueueRange DEF Active, Free
<1>1. TypeOK'
  <2>1. pc[t].dl \in DisplayLists /\ pc[t] \in [op : {"idle", "drawSync", "listSync", "test", "clear", "unbusy"}, dl : DlPointer]
    BY DEF IInv, TypeOK, RecordInv, DrawSyncTest
  <2>2. NextTest(pc[t].dl) \in [op : {"idle", "drawSync", "listSync", "test", "clear", "unbusy"}, dl : DlPointer]
    BY <2>1, CountAssumption DEF NextTest, Idle, DlPointer, DisplayLists
  <2>3. pc' \in [Thread -> [op : {"idle", "drawSync", "listSync", "test", "clear", "unbusy"}, dl : DlPointer]]
    <3>1. PICK p \in [op : {"idle", "drawSync", "listSync", "test", "clear", "unbusy"}, dl : DlPointer] : pc' = [pc EXCEPT ![t] = p]
      <4>1. [pc[t] EXCEPT !.op = "clear"] \in [op : {"idle", "drawSync", "listSync", "test", "clear", "unbusy"}, dl : DlPointer]
        BY <2>1
      <4> QED
        BY <4>1, <2>2 DEF DrawSyncTest
    <3> QED
      BY <3>1 DEF IInv, TypeOK
  <2> QED
    BY <2>3 DEF IInv, TypeOK, DrawSyncTest, lists, flags, ge
<1>2. RecordInv'
  BY CountAssumption DEF IInv, RecordInv, Idle, DisplayLists, DrawSyncTest, NextTest
<1>3. QueuesPartition'
  BY DEF IInv, QueuesPartition, Active, Free, DrawSyncTest
<1>4. RunningInv'
  BY DEF IInv, RunningInv, lists, DrawSyncTest
<1>5. StateInv'
  BY DEF IInv, StateInv, lists, Active, Free, DrawSyncTest
<1>6. ResetInv'
  BY Pointers DEF IInv, TypeOK, RecordInv, RunningInv, StateInv, ResetInv, lists, flags,
       Idle, DlPointer, Active, DrawSyncTest, NextTest
<1>7. SignalInv'
  BY DEF IInv, SignalInv, lists, DrawSyncTest
<1>8. HandlerInv'
  BY DEF IInv, HandlerInv, ge, DrawSyncTest
<1>9. WorkInv'
  BY DEF IInv, WorkInv, Working, lists, flags, ge, Active, DrawSyncTest
<1>10. HeadInv'
  BY DEF IInv, HeadInv, InList, lists, ge, DrawSyncTest
<1> QED
  BY <1>1, <1>2, <1>3, <1>4, <1>5, <1>6, <1>7, <1>8, <1>9, <1>10 DEF IInv

\* It resets the state of a list that is out of the queue,
LEMMA DrawSyncClearStep ==
  ASSUME IInv, OneEnqueuer, NEW t \in Thread, DrawSyncClear(t)
  PROVE  IInv'
<1> USE IInv, OneEnqueuer, DrawSyncClear(t)
<1>a. active \in Seq(DisplayLists) /\ free \in Seq(DisplayLists)
  BY DEF IInv, TypeOK
<1>h. /\ Active \subseteq DisplayLists /\ Free \subseteq DisplayLists
      /\ active # <<>> => Head(active) \in Active
      /\ active = <<>> => Active = {}
  BY <1>a, QueueRange DEF Active, Free
<1>1. TypeOK'
  <2>1. state' \in [DisplayLists -> {"none", "queued", "running", "completed", "paused"}]
    BY DEF IInv, TypeOK, DrawSyncClear
  <2>2. pc' \in [Thread -> [op : {"idle", "drawSync", "listSync", "test", "clear", "unbusy"}, dl : DlPointer]]
    BY DEF IInv, TypeOK, DrawSyncClear
  <2> QED
    BY <2>2 DEF IInv, TypeOK, DrawSyncClear, flags, ge
<1>2. RecordInv'
  BY DEF IInv, RecordInv, Idle, DrawSyncClear
<1>3. QueuesPartition'
  BY DEF IInv, QueuesPartition, Active, Free, DrawSyncClear
<1>4. RunningInv'
  BY DEF IInv, RunningInv, DrawSyncClear
<1>5. StateInv'
  BY DEF IInv, StateInv, ResetInv, Active, Free, DrawSyncClear
<1>6. ResetInv'
  BY DEF IInv, TypeOK, RecordInv, ResetInv, Active, DrawSyncClear
<1>7. SignalInv'
  BY DEF IInv, ResetInv, SignalInv, DrawSyncClear
<1>8. HandlerInv'
  BY DEF IInv, HandlerInv, ge, DrawSyncClear
<1>9. WorkInv'
  BY DEF IInv, WorkInv, Working, flags, ge, Active, DrawSyncClear
<1>10. HeadInv'
  BY DEF IInv, ResetInv, HeadInv, InList, ge, DrawSyncClear
<1> QED
  BY <1>1, <1>2, <1>3, <1>4, <1>5, <1>6, <1>7, <1>8, <1>9, <1>10 DEF IInv

\* and makes the list ready to be enqueued.
LEMMA DrawSyncUnbusyStep ==
  ASSUME IInv, OneEnqueuer, NEW t \in Thread, DrawSyncUnbusy(t)
  PROVE  IInv'
<1> USE IInv, OneEnqueuer, DrawSyncUnbusy(t)
<1>a. active \in Seq(DisplayLists) /\ free \in Seq(DisplayLists)
  BY DEF IInv, TypeOK
<1>h. /\ Active \subseteq DisplayLists /\ Free \subseteq DisplayLists
      /\ active # <<>> => Head(active) \in Active
      /\ active = <<>> => Active = {}
  BY <1>a, QueueRange DEF Active, Free
<1>1. TypeOK'
  BY CountAssumption DEF IInv, TypeOK, RecordInv, flags, ge, Idle, DlPointer, DisplayLists,
       DrawSyncUnbusy, NextTest
<1>2. RecordInv'
  BY CountAssumption DEF IInv, RecordInv, Idle, DisplayLists, DrawSyncUnbusy, NextTest
<1>3. QueuesPartition'
  BY DEF IInv, QueuesPartition, Active, Free, DrawSyncUnbusy
<1>4. RunningInv'
  BY DEF IInv, RunningInv, ResetInv, DrawSyncUnbusy
<1>5. StateInv'
  BY DEF IInv, StateInv, ResetInv, Active, Free, DrawSyncUnbusy
<1>6. ResetInv'
  BY DEF IInv, TypeOK, RecordInv, ResetInv, Idle, OneEnqueuer, DrawSyncUnbusy, NextTest
<1>7. SignalInv'
  BY DEF IInv, SignalInv, DrawSyncUnbusy
<1>8. HandlerInv'
  BY DEF IInv, HandlerInv, DrawSyncUnbusy, ge
<1>9. WorkInv'
  <2>1. pc[t].dl \notin Active /\ Active' = Active
    BY DEF IInv, ResetInv, DrawSyncUnbusy, Active
  <2>2. \A d \in Active : isBusy'[d] = isBusy[d]
    BY <2>1, <1>h DEF IInv, TypeOK, DrawSyncUnbusy
  <2> QED
    BY <2>1 DEF IInv, WorkInv, Working, DrawSyncUnbusy, flags, ge
<1>10. HeadInv'
  BY DEF IInv, HeadInv, InList, ge, DrawSyncUnbusy
<1> QED
  BY <1>1, <1>2, <1>3, <1>4, <1>5, <1>6, <1>7, <1>8, <1>9, <1>10 DEF IInv

\* sceGeBreak(1) resets the GE and empties the queue.
LEMMA BreakResetStep ==
  ASSUME IInv, OneEnqueuer, NEW t \in Thread, BreakReset(t)
  PROVE  IInv'
<1> USE IInv, OneEnqueuer, BreakReset(t)
<1>a. active \in Seq(DisplayLists) /\ free \in Seq(DisplayLists)
  BY DEF IInv, TypeOK
<1>h. /\ Active \subseteq DisplayLists /\ Free \subseteq DisplayLists
      /\ active # <<>> => Head(active) \in Active
      /\ active = <<>> => Active = {}
  BY <1>a, QueueRange DEF Active, Free
<1>f. /\ free' \in Seq(DisplayLists) /\ IsInjective(free') /\ Free' = DisplayLists
      /\ active' \in Seq(DisplayLists) /\ IsInjective(active') /\ Active' = {} /\ active' = <<>>
  BY AllFree DEF BreakReset, Free, Active, IsInjective, Range
<1>1. TypeOK'
  <2>1. /\ state' \in [DisplayLists -> {"none", "queued", "running", "completed", "paused"}]
        /\ signal' \in [DisplayLists -> {"none", "break", "pause", "sync"}]
        /\ isBusy' \in [DisplayLists -> BOOLEAN]
    BY DEF BreakReset
  <2>2. /\ exec' \in BOOLEAN /\ ladr' \in DlPointer \cup {g_cmdList} /\ atFin' \in BOOLEAN
        /\ intr' \in Signals \cup {"none", "finish"} /\ clock' \in BOOLEAN
        /\ curRunning' \in DlPointer /\ refused' \subseteq DisplayLists
    BY DEF BreakReset, GeStops, DlPointer
  <2>3. UNCHANGED <<resumesAtFin, isBreak, drawingEvFlag, listEvFlags, handler, pc>>
    BY DEF BreakReset, flags
  <2> QED
    BY <2>1, <2>2, <2>3, <1>f DEF IInv, TypeOK
<1>2. RecordInv'
  BY DEF IInv, RecordInv, BreakReset
<1>3. QueuesPartition'
  BY <1>f DEF IInv, QueuesPartition, BreakReset
<1>4. RunningInv'
  BY DEF RunningInv, BreakReset
<1>5. StateInv'
  BY <1>f DEF IInv, StateInv, BreakReset
<1>6. ResetInv'
  BY <1>f DEF IInv, RecordInv, ResetInv, BreakReset
<1>7. SignalInv'
  BY DEF SignalInv, BreakReset
<1>8. HandlerInv'
  BY ActorAssumption DEF HandlerInv, BreakReset, GeStops, Calls
<1>9. WorkInv'
  BY ActorAssumption DEF WorkInv, Working, BreakReset, GeStops, Calls
<1>10. HeadInv'
  BY ActorAssumption DEF IInv, HeadInv, InList, Signals, BreakReset, GeStops, Calls
<1> QED
  BY <1>1, <1>2, <1>3, <1>4, <1>5, <1>6, <1>7, <1>8, <1>9, <1>10 DEF IInv

\* sceGeBreak(0) stops the running list and remembers where it goes on.
LEMMA BreakRunningStep ==
  ASSUME IInv, OneEnqueuer, NEW t \in Thread, BreakRunning(t)
  PROVE  IInv'
<1> USE IInv, OneEnqueuer, BreakRunning(t)
<1>a. active \in Seq(DisplayLists) /\ free \in Seq(DisplayLists)
  BY DEF IInv, TypeOK
<1>h. /\ Active \subseteq DisplayLists /\ Free \subseteq DisplayLists
      /\ active # <<>> => Head(active) \in Active
      /\ active = <<>> => Active = {}
  BY <1>a, QueueRange DEF Active, Free
<1>1. TypeOK'
  <2>1. exec' \in BOOLEAN /\ atFin' \in BOOLEAN
    BY DEF BreakRunning
  <2>2. /\ state' \in [DisplayLists -> {"none", "queued", "running", "completed", "paused"}]
        /\ signal' \in [DisplayLists -> {"none", "break", "pause", "sync"}]
    BY DEF IInv, TypeOK, BreakRunning
  <2>3. resumesAtFin' \in [DisplayLists -> BOOLEAN]
    BY DEF IInv, TypeOK, BreakRunning, StopsAtFin
  <2> QED
    BY <2>3, Pointers DEF IInv, TypeOK, flags, BreakRunning
<1>2. RecordInv'
  BY DEF IInv, RecordInv, BreakRunning
<1>3. QueuesPartition'
  BY DEF IInv, QueuesPartition, Active, Free, BreakRunning
<1>4. RunningInv'
  BY DEF IInv, TypeOK, RunningInv, BreakRunning
<1>5. StateInv'
  BY DEF IInv, StateInv, Active, Free, BreakRunning
<1>6. ResetInv'
  BY DEF IInv, ResetInv, Active, BreakRunning
<1>7. SignalInv'
  BY DEF IInv, TypeOK, SignalInv, BreakRunning
<1>8. HandlerInv'
  BY ActorAssumption DEF HandlerInv, BreakRunning, Calls
<1>9. WorkInv'
  BY Pointers DEF IInv, TypeOK, RecordInv, RunningInv, WorkInv, flags, Active, BreakRunning
<1>10. HeadInv'
  BY ActorAssumption DEF HeadInv, InList, Signals, BreakRunning, Calls
<1> QED
  BY <1>1, <1>2, <1>3, <1>4, <1>5, <1>6, <1>7, <1>8, <1>9, <1>10 DEF IInv

\* sceGeBreak(0) of a head that is queued only marks it paused.
LEMMA BreakQueuedStep ==
  ASSUME IInv, OneEnqueuer, NEW t \in Thread, BreakQueued(t)
  PROVE  IInv'
<1> USE IInv, OneEnqueuer, BreakQueued(t)
<1>a. active \in Seq(DisplayLists) /\ free \in Seq(DisplayLists)
  BY DEF IInv, TypeOK
<1>h. /\ Active \subseteq DisplayLists /\ Free \subseteq DisplayLists
      /\ active # <<>> => Head(active) \in Active
      /\ active = <<>> => Active = {}
  BY <1>a, QueueRange DEF Active, Free
<1>1. TypeOK'
  BY DEF IInv, TypeOK, flags, ge, BreakQueued
<1>2. RecordInv'
  BY DEF IInv, RecordInv, BreakQueued
<1>3. QueuesPartition'
  BY DEF IInv, QueuesPartition, Active, Free, BreakQueued
<1>4. RunningInv'
  BY DEF IInv, RunningInv, BreakQueued
<1>5. StateInv'
  BY DEF IInv, StateInv, Active, Free, BreakQueued
<1>6. ResetInv'
  BY DEF IInv, ResetInv, Active, BreakQueued
<1>7. SignalInv'
  BY DEF IInv, SignalInv, BreakQueued
<1>8. HandlerInv'
  BY DEF IInv, HandlerInv, ge, BreakQueued
<1>9. WorkInv'
  BY DEF IInv, WorkInv, Working, flags, ge, Active, BreakQueued
<1>10. HeadInv'
  BY DEF IInv, HeadInv, InList, ge, BreakQueued
<1> QED
  BY <1>1, <1>2, <1>3, <1>4, <1>5, <1>6, <1>7, <1>8, <1>9, <1>10 DEF IInv

\* sceGeContinue puts the head back on the GE,
LEMMA ContinueStoppedStep ==
  ASSUME IInv, OneEnqueuer, NEW a \in Thread \cup {"callback"}, ContinueStopped(a)
  PROVE  IInv'
<1> USE IInv, OneEnqueuer, ContinueStopped(a)
<1>a. active \in Seq(DisplayLists) /\ free \in Seq(DisplayLists)
  BY DEF IInv, TypeOK
<1>h. /\ Active \subseteq DisplayLists /\ Free \subseteq DisplayLists
      /\ active # <<>> => Head(active) \in Active
      /\ active = <<>> => Active = {}
  BY <1>a, QueueRange DEF Active, Free
<1>1. TypeOK'
  <2>1. /\ clock' \in BOOLEAN /\ drawingEvFlag' \in BOOLEAN /\ isBreak' \in BOOLEAN
    BY DEF IInv, TypeOK, ContinueStopped
  <2>2. isBusy' \in [DisplayLists -> BOOLEAN]
    BY DEF IInv, TypeOK, ContinueStopped
  <2>3. /\ state' \in [DisplayLists -> {"none", "queued", "running", "completed", "paused"}]
        /\ signal' \in [DisplayLists -> {"none", "break", "pause", "sync"}]
    BY DEF IInv, TypeOK, ContinueStopped
  <2> QED
    BY <2>1, Pointers DEF IInv, TypeOK, ContinueStopped, Programs
<1>2. RecordInv'
  BY DEF IInv, RecordInv, ContinueStopped
<1>3. QueuesPartition'
  BY DEF IInv, QueuesPartition, Active, Free, ContinueStopped
<1>4. RunningInv'
  BY DEF IInv, TypeOK, RunningInv, ContinueStopped, Programs
<1>5. StateInv'
  BY DEF IInv, StateInv, Active, Free, ContinueStopped
<1>6. ResetInv'
  BY DEF IInv, ResetInv, Active, ContinueStopped
<1>7. SignalInv'
  BY DEF IInv, SignalInv, ContinueStopped
<1>8. HandlerInv'
  BY DEF IInv, HandlerInv, HeadInv, InList, ContinueStopped
<1>9. WorkInv'
  BY <1>h, EvFlagIsList, Pointers DEF IInv, TypeOK, RecordInv, QueuesPartition, RunningInv,
       WorkInv, Active, ContinueStopped, Programs
<1>10. HeadInv'
  BY DEF IInv, TypeOK, HeadInv, ContinueStopped, Programs
<1> QED
  BY <1>1, <1>2, <1>3, <1>4, <1>5, <1>6, <1>7, <1>8, <1>9, <1>10 DEF IInv

\* or only marks it, when the interrupt of the break is still to come.
LEMMA ContinueBreakingStep ==
  ASSUME IInv, OneEnqueuer, NEW a \in Thread \cup {"callback"}, ContinueBreaking(a)
  PROVE  IInv'
<1> USE IInv, OneEnqueuer, ContinueBreaking(a)
<1>a. active \in Seq(DisplayLists) /\ free \in Seq(DisplayLists)
  BY DEF IInv, TypeOK
<1>h. /\ Active \subseteq DisplayLists /\ Free \subseteq DisplayLists
      /\ active # <<>> => Head(active) \in Active
      /\ active = <<>> => Active = {}
  BY <1>a, QueueRange DEF Active, Free
<1>1. TypeOK'
  BY DEF IInv, TypeOK, flags, ge, ContinueBreaking
<1>2. RecordInv'
  BY DEF IInv, RecordInv, ContinueBreaking
<1>3. QueuesPartition'
  BY DEF IInv, QueuesPartition, Active, Free, ContinueBreaking
<1>4. RunningInv'
  BY DEF IInv, RunningInv, ContinueBreaking
<1>5. StateInv'
  BY DEF IInv, StateInv, Active, Free, ContinueBreaking
<1>6. ResetInv'
  BY DEF IInv, ResetInv, Active, ContinueBreaking
<1>7. SignalInv'
  BY DEF IInv, SignalInv, ContinueBreaking
<1>8. HandlerInv'
  BY DEF IInv, HandlerInv, ge, ContinueBreaking
<1>9. WorkInv'
  BY DEF IInv, WorkInv, Working, flags, ge, Active, ContinueBreaking
<1>10. HeadInv'
  BY DEF IInv, HeadInv, InList, ge, ContinueBreaking
<1> QED
  BY <1>1, <1>2, <1>3, <1>4, <1>5, <1>6, <1>7, <1>8, <1>9, <1>10 DEF IInv

\* The GE stops at a SIGNAL/END,
LEMMA GeSignalStep ==
  ASSUME IInv, OneEnqueuer, NEW sig \in Signals, GeSignal(sig)
  PROVE  IInv'
<1> USE IInv, OneEnqueuer, GeSignal(sig)
<1>a. active \in Seq(DisplayLists) /\ free \in Seq(DisplayLists)
  BY DEF IInv, TypeOK
<1>h. /\ Active \subseteq DisplayLists /\ Free \subseteq DisplayLists
      /\ active # <<>> => Head(active) \in Active
      /\ active = <<>> => Active = {}
  BY <1>a, QueueRange DEF Active, Free
<1>1. TypeOK'
  <2>1. exec' \in BOOLEAN
    BY DEF GeSignal
  <2>2. atFin' \in BOOLEAN
    BY DEF GeSignal
  <2>3. /\ clock' \in BOOLEAN /\ drawingEvFlag' \in BOOLEAN /\ isBreak' \in BOOLEAN
    BY DEF IInv, TypeOK, flags, GeSignal
  <2> QED
    BY <2>2 DEF IInv, TypeOK, lists, flags, GeSignal
<1>2. RecordInv'
  BY DEF IInv, RecordInv, GeSignal
<1>3. QueuesPartition'
  BY DEF IInv, QueuesPartition, Active, Free, GeSignal
<1>4. RunningInv'
  BY DEF IInv, RunningInv, lists, GeSignal
<1>5. StateInv'
  BY DEF IInv, StateInv, lists, Active, Free, GeSignal
<1>6. ResetInv'
  BY DEF IInv, ResetInv, lists, Active, GeSignal
<1>7. SignalInv'
  BY DEF IInv, SignalInv, lists, GeSignal
<1>8. HandlerInv'
  BY DEF IInv, HandlerInv, GeSignal
<1>9. WorkInv'
  BY DEF IInv, WorkInv, Working, lists, flags, Active, GeSignal
<1>10. HeadInv'
  BY Pointers DEF IInv, HeadInv, InList, lists, GeSignal
<1> QED
  BY <1>1, <1>2, <1>3, <1>4, <1>5, <1>6, <1>7, <1>8, <1>9, <1>10 DEF IInv

\* or at a FINISH/END, and raises an interrupt.
LEMMA GeFinishStep ==
  ASSUME IInv, OneEnqueuer, GeFinish
  PROVE  IInv'
<1> USE IInv, OneEnqueuer, GeFinish
<1>a. active \in Seq(DisplayLists) /\ free \in Seq(DisplayLists)
  BY DEF IInv, TypeOK
<1>h. /\ Active \subseteq DisplayLists /\ Free \subseteq DisplayLists
      /\ active # <<>> => Head(active) \in Active
      /\ active = <<>> => Active = {}
  BY <1>a, QueueRange DEF Active, Free
<1>1. TypeOK'
  BY DEF IInv, TypeOK, lists, flags, GeFinish
<1>2. RecordInv'
  BY DEF IInv, RecordInv, GeFinish
<1>3. QueuesPartition'
  BY DEF IInv, QueuesPartition, Active, Free, GeFinish
<1>4. RunningInv'
  BY DEF IInv, RunningInv, lists, GeFinish
<1>5. StateInv'
  BY DEF IInv, StateInv, lists, Active, Free, GeFinish
<1>6. ResetInv'
  BY DEF IInv, ResetInv, lists, Active, GeFinish
<1>7. SignalInv'
  BY DEF IInv, SignalInv, lists, GeFinish
<1>8. HandlerInv'
  BY DEF IInv, HandlerInv, GeFinish
<1>9. WorkInv'
  BY DEF IInv, WorkInv, Working, lists, flags, Active, GeFinish
<1>10. HeadInv'
  BY DEF IInv, HandlerInv, HeadInv, InList, Signals, GeFinish
<1> QED
  BY <1>1, <1>2, <1>3, <1>4, <1>5, <1>6, <1>7, <1>8, <1>9, <1>10 DEF IInv

\* SIGNAL_SUSPEND calls the program back while the GE stands still.
LEMMA SignalSuspendStep ==
  ASSUME IInv, OneEnqueuer, SignalSuspend
  PROVE  IInv'
<1> USE IInv, OneEnqueuer, SignalSuspend
<1>a. active \in Seq(DisplayLists) /\ free \in Seq(DisplayLists)
  BY DEF IInv, TypeOK
<1>h. /\ Active \subseteq DisplayLists /\ Free \subseteq DisplayLists
      /\ active # <<>> => Head(active) \in Active
      /\ active = <<>> => Active = {}
  BY <1>a, QueueRange DEF Active, Free
<1>1. TypeOK'
  BY Pointers DEF IInv, TypeOK, lists, flags, SignalSuspend, Acknowledge
<1>2. RecordInv'
  BY DEF IInv, RecordInv, SignalSuspend
<1>3. QueuesPartition'
  BY DEF IInv, QueuesPartition, Active, Free, SignalSuspend
<1>4. RunningInv'
  BY DEF IInv, RunningInv, lists, SignalSuspend
<1>5. StateInv'
  BY DEF IInv, StateInv, lists, Active, Free, SignalSuspend, Interrupted
<1>6. ResetInv'
  BY DEF IInv, ResetInv, lists, Active, SignalSuspend
<1>7. SignalInv'
  BY DEF IInv, SignalInv, lists, SignalSuspend
<1>8. HandlerInv'
  BY DEF IInv, HandlerInv, SignalSuspend, Interrupted, Acknowledge
<1>9. WorkInv'
  BY DEF IInv, WorkInv, Working, lists, flags, Active, SignalSuspend, Interrupted
<1>10. HeadInv'
  BY DEF IInv, TypeOK, HeadInv, InList, lists, SignalSuspend, Interrupted, Acknowledge
<1> QED
  BY <1>1, <1>2, <1>3, <1>4, <1>5, <1>6, <1>7, <1>8, <1>9, <1>10 DEF IInv

\* SIGNAL_CONTINUE restarts the GE before it calls back.
LEMMA SignalContinueStep ==
  ASSUME IInv, OneEnqueuer, SignalContinue
  PROVE  IInv'
<1> USE IInv, OneEnqueuer, SignalContinue
<1>a. active \in Seq(DisplayLists) /\ free \in Seq(DisplayLists)
  BY DEF IInv, TypeOK
<1>h. /\ Active \subseteq DisplayLists /\ Free \subseteq DisplayLists
      /\ active # <<>> => Head(active) \in Active
      /\ active = <<>> => Active = {}
  BY <1>a, QueueRange DEF Active, Free
<1>1. TypeOK'
  BY Pointers DEF IInv, TypeOK, lists, flags, SignalContinue, Acknowledge
<1>2. RecordInv'
  BY DEF IInv, RecordInv, SignalContinue
<1>3. QueuesPartition'
  BY DEF IInv, QueuesPartition, Active, Free, SignalContinue
<1>4. RunningInv'
  BY DEF IInv, RunningInv, lists, SignalContinue
<1>5. StateInv'
  BY DEF IInv, StateInv, lists, Active, Free, SignalContinue, Interrupted
<1>6. ResetInv'
  BY DEF IInv, ResetInv, lists, Active, SignalContinue
<1>7. SignalInv'
  BY DEF IInv, SignalInv, lists, SignalContinue
<1>8. HandlerInv'
  BY DEF HandlerInv, SignalContinue, Acknowledge
<1>9. WorkInv'
  BY DEF IInv, WorkInv, Working, lists, flags, Active, SignalContinue, Interrupted
<1>10. HeadInv'
  BY DEF IInv, TypeOK, HeadInv, InList, lists, SignalContinue, Interrupted, Acknowledge
<1> QED
  BY <1>1, <1>2, <1>3, <1>4, <1>5, <1>6, <1>7, <1>8, <1>9, <1>10 DEF IInv

\* SIGNAL_PAUSE stops its list.
LEMMA SignalPauseStep ==
  ASSUME IInv, OneEnqueuer, NEW sig \in {"pause", "none"}, SignalPause(sig)
  PROVE  IInv'
<1> USE IInv, OneEnqueuer, SignalPause(sig)
<1>a. active \in Seq(DisplayLists) /\ free \in Seq(DisplayLists)
  BY DEF IInv, TypeOK
<1>h. /\ Active \subseteq DisplayLists /\ Free \subseteq DisplayLists
      /\ active # <<>> => Head(active) \in Active
      /\ active = <<>> => Active = {}
  BY <1>a, QueueRange DEF Active, Free
<1>1. TypeOK'
  BY DEF IInv, TypeOK, flags, SignalPause, Acknowledge
<1>2. RecordInv'
  BY DEF IInv, RecordInv, SignalPause
<1>3. QueuesPartition'
  BY DEF IInv, QueuesPartition, Active, Free, SignalPause
<1>4. RunningInv'
  BY DEF IInv, RunningInv, SignalPause
<1>5. StateInv'
  BY DEF IInv, TypeOK, StateInv, HeadInv, InList, Active, Free, SignalPause, Interrupted
<1>6. ResetInv'
  BY DEF IInv, TypeOK, ResetInv, HeadInv, InList, Active, SignalPause, Interrupted
<1>7. SignalInv'
  BY DEF IInv, TypeOK, SignalInv, SignalPause
<1>8. HandlerInv'
  BY DEF HandlerInv, SignalPause, Interrupted, Acknowledge
<1>9. WorkInv'
  BY DEF IInv, WorkInv, Working, flags, Active, SignalPause, Interrupted
<1>10. HeadInv'
  BY DEF IInv, HeadInv, InList, Signals, SignalPause, Interrupted, Acknowledge
<1> QED
  BY <1>1, <1>2, <1>3, <1>4, <1>5, <1>6, <1>7, <1>8, <1>9, <1>10 DEF IInv

\* SIGNAL_SYNC leaves its list running up to the FINISH/END.
LEMMA SignalSyncStep ==
  ASSUME IInv, OneEnqueuer, SignalSync
  PROVE  IInv'
<1> USE IInv, OneEnqueuer, SignalSync
<1>a. active \in Seq(DisplayLists) /\ free \in Seq(DisplayLists)
  BY DEF IInv, TypeOK
<1>h. /\ Active \subseteq DisplayLists /\ Free \subseteq DisplayLists
      /\ active # <<>> => Head(active) \in Active
      /\ active = <<>> => Active = {}
  BY <1>a, QueueRange DEF Active, Free
<1>1. TypeOK'
  BY DEF IInv, TypeOK, flags, SignalSync, Acknowledge
<1>2. RecordInv'
  BY DEF IInv, RecordInv, SignalSync
<1>3. QueuesPartition'
  BY DEF IInv, QueuesPartition, Active, Free, SignalSync
<1>4. RunningInv'
  BY DEF IInv, RunningInv, SignalSync
<1>5. StateInv'
  BY DEF IInv, StateInv, Active, Free, SignalSync
<1>6. ResetInv'
  BY DEF IInv, ResetInv, Active, SignalSync
<1>7. SignalInv'
  BY DEF IInv, TypeOK, SignalInv, HeadInv, InList, SignalSync, Interrupted
<1>8. HandlerInv'
  BY DEF HandlerInv, SignalSync, Interrupted, Acknowledge
<1>9. WorkInv'
  BY DEF IInv, WorkInv, Working, flags, Active, SignalSync, Interrupted
<1>10. HeadInv'
  BY DEF IInv, TypeOK, HeadInv, InList, SignalSync, Interrupted
<1> QED
  BY <1>1, <1>2, <1>3, <1>4, <1>5, <1>6, <1>7, <1>8, <1>9, <1>10 DEF IInv

\* The callback of a SIGNAL_SUSPEND returns, and the GE goes on.
LEMMA SignalReturnStep ==
  ASSUME IInv, OneEnqueuer, SignalReturn
  PROVE  IInv'
<1> USE IInv, OneEnqueuer, SignalReturn
<1>a. active \in Seq(DisplayLists) /\ free \in Seq(DisplayLists)
  BY DEF IInv, TypeOK
<1>h. /\ Active \subseteq DisplayLists /\ Free \subseteq DisplayLists
      /\ active # <<>> => Head(active) \in Active
      /\ active = <<>> => Active = {}
  BY <1>a, QueueRange DEF Active, Free
<1>1. TypeOK'
  <2>1. exec' \in BOOLEAN
    BY DEF SignalReturn
  <2>2. handler' \in [at : {"none", "finish", "signal", "resume"}, dl : DlPointer]
    BY Pointers DEF NoHandler, SignalReturn
  <2> QED
    BY Pointers DEF IInv, TypeOK, NoHandler, lists, flags, SignalReturn
<1>2. RecordInv'
  BY DEF IInv, RecordInv, NoHandler, SignalReturn
<1>3. QueuesPartition'
  BY DEF IInv, QueuesPartition, Active, Free, SignalReturn
<1>4. RunningInv'
  BY DEF IInv, RunningInv, lists, SignalReturn
<1>5. StateInv'
  BY DEF IInv, StateInv, lists, Active, Free, SignalReturn
<1>6. ResetInv'
  BY DEF IInv, ResetInv, lists, Active, SignalReturn
<1>7. SignalInv'
  BY DEF IInv, SignalInv, lists, SignalReturn
<1>8. HandlerInv'
  BY DEF IInv, TypeOK, HandlerInv, NoHandler, SignalReturn
<1>9. WorkInv'
  BY DEF IInv, TypeOK, WorkInv, Working, lists, flags, NoHandler, Active, SignalReturn
<1>10. HeadInv'
  BY DEF IInv, TypeOK, HeadInv, InList, lists, NoHandler, SignalReturn
<1> QED
  BY <1>1, <1>2, <1>3, <1>4, <1>5, <1>6, <1>7, <1>8, <1>9, <1>10 DEF IInv

\* The FINISH/END of a SIGNAL_SYNC: the GE goes on.
LEMMA FinishSyncStep ==
  ASSUME IInv, OneEnqueuer, FinishSync
  PROVE  IInv'
<1> USE IInv, OneEnqueuer, FinishSync
<1>a. active \in Seq(DisplayLists) /\ free \in Seq(DisplayLists)
  BY DEF IInv, TypeOK
<1>h. /\ Active \subseteq DisplayLists /\ Free \subseteq DisplayLists
      /\ active # <<>> => Head(active) \in Active
      /\ active = <<>> => Active = {}
  BY <1>a, QueueRange DEF Active, Free
<1>1. TypeOK'
  <2>1. signal' \in [DisplayLists -> {"none", "break", "pause", "sync"}]
    BY DEF IInv, TypeOK, FinishSync
  <2> QED
    BY DEF IInv, TypeOK, flags, FinishSync, Acknowledge
<1>2. RecordInv'
  BY DEF IInv, RecordInv, FinishSync
<1>3. QueuesPartition'
  BY DEF IInv, QueuesPartition, Active, Free, FinishSync
<1>4. RunningInv'
  BY DEF IInv, RunningInv, FinishSync
<1>5. StateInv'
  BY DEF IInv, StateInv, Active, Free, FinishSync
<1>6. ResetInv'
  BY DEF IInv, ResetInv, Active, FinishSync
<1>7. SignalInv'
  BY DEF IInv, SignalInv, FinishSync
<1>8. HandlerInv'
  BY DEF HandlerInv, FinishSync, Interrupted, Acknowledge
<1>9. WorkInv'
  BY DEF IInv, WorkInv, Working, flags, Active, FinishSync, Interrupted
<1>10. HeadInv'
  BY DEF IInv, TypeOK, RunningInv, SignalInv, WorkInv, HeadInv, Working, DlPointer,
       FinishSync, Interrupted, Acknowledge
<1> QED
  BY <1>1, <1>2, <1>3, <1>4, <1>5, <1>6, <1>7, <1>8, <1>9, <1>10 DEF IInv

\* A list completes, and its callback begins.
LEMMA FinishListStep ==
  ASSUME IInv, OneEnqueuer, FinishList
  PROVE  IInv'
<1> USE IInv, OneEnqueuer, FinishList
<1>a. active \in Seq(DisplayLists) /\ free \in Seq(DisplayLists)
  BY DEF IInv, TypeOK
<1>h. /\ Active \subseteq DisplayLists /\ Free \subseteq DisplayLists
      /\ active # <<>> => Head(active) \in Active
      /\ active = <<>> => Active = {}
  BY <1>a, QueueRange DEF Active, Free
<1>1. TypeOK'
  <2>1. state' \in [DisplayLists -> {"none", "queued", "running", "completed", "paused"}]
    BY DEF IInv, TypeOK, FinishList
  <2>2. handler' \in [at : {"none", "finish", "signal", "resume"}, dl : DlPointer]
    BY DEF IInv, TypeOK, FinishList
  <2> QED
    BY <2>2 DEF IInv, TypeOK, flags, FinishList, Acknowledge, DlPointer
<1>2. RecordInv'
  BY DEF IInv, TypeOK, RecordInv, DlPointer, FinishList
<1>3. QueuesPartition'
  BY DEF IInv, QueuesPartition, Active, Free, FinishList
<1>4. RunningInv'
  BY DEF IInv, TypeOK, RunningInv, FinishList
<1>5. StateInv'
  BY DEF IInv, StateInv, HandlerInv, Active, Free, FinishList
<1>6. ResetInv'
  BY DEF IInv, ResetInv, Active, FinishList
<1>7. SignalInv'
  BY DEF IInv, SignalInv, FinishList
<1>8. HandlerInv'
  BY DEF IInv, TypeOK, RunningInv, HandlerInv, DlPointer, FinishList, Interrupted, Acknowledge
<1>9. WorkInv'
  BY DEF IInv, HandlerInv, WorkInv, Working, flags, FinishList, Interrupted, Acknowledge
<1>10. HeadInv'
  BY DEF IInv, HandlerInv, HeadInv, InList, Signals, FinishList, Interrupted, Acknowledge
<1> QED
  BY <1>1, <1>2, <1>3, <1>4, <1>5, <1>6, <1>7, <1>8, <1>9, <1>10 DEF IInv

\* Whoever starts the next list has found the GE idle and no list running.
LEMMA StartsNextStep ==
  ASSUME IInv, OneEnqueuer, NEW dl \in DlPointer, StartsNext(active', dl),
         QueuesPartition', active' \in Seq(DisplayLists), free' \in Seq(DisplayLists),
         refused' \subseteq DisplayLists, resumesAtFin' \in [DisplayLists -> BOOLEAN], isBreak' \in BOOLEAN,
         \A d \in DisplayLists : state[d] # "running",
         \A d \in Active' : d \in Active /\ state[d] \in {"queued", "paused"},
         \A d \in Free' : state[d] # "none" => state[d] = "completed" /\ isBusy[d],
         ~exec, intr' = "none", clock, ~drawingEvFlag
  PROVE  IInv'
<1>a. /\ Active' \subseteq DisplayLists /\ Free' \subseteq DisplayLists
      /\ active' # <<>> => Head(active') \in Active' /\ Head(active') \in DisplayLists
      /\ active' = <<>> => Active' = {}
  BY QueueRange DEF Active, Free
<1>b. SetsListEvFlag(dl) \subseteq DisplayLists
  BY EvFlagIsList DEF SetsListEvFlag, DlPointer
<1>p. /\ pc' \in [Thread -> [op : {"idle", "drawSync", "listSync", "test", "clear", "unbusy"}, dl : DlPointer]]
      /\ \A t \in Thread : pc'[t] \in {pc[t], Idle} \/ pc'[t] = [op |-> "test", dl |-> 0]
      /\ \A t \in Thread : pc[t] = Idle => pc'[t] = Idle
  BY WakesType DEF IInv, TypeOK, StartsNext, StartsNone, StartsPausing, StartsPaused, StartsHead
<1>q. \A t \in Thread \ Enqueuer : pc'[t] = Idle
  BY <1>p DEF IInv, RecordInv
<1>t. \A t \in Thread : pc'[t].op \in {"clear", "unbusy"} => pc'[t] = pc[t]
  BY <1>p DEF Idle
<1>r. \A t \in Thread : pc'[t].op \in {"test", "clear", "unbusy", "listSync"} => pc'[t].dl \in DisplayLists
  <2> SUFFICES ASSUME NEW t \in Thread, pc'[t].op \in {"test", "clear", "unbusy", "listSync"}
               PROVE  pc'[t].dl \in DisplayLists
    OBVIOUS
  <2>1. CASE pc'[t] = pc[t]
    BY <2>1 DEF IInv, RecordInv
  <2>2. CASE pc'[t] = Idle
    BY <2>2 DEF Idle
  <2>3. CASE pc'[t] = [op |-> "test", dl |-> 0]
    BY <2>3, CountAssumption DEF DisplayLists
  <2> QED
    BY <1>p, <2>1, <2>2, <2>3
<1>n. CASE StartsNone(active', dl)
  <2>1. /\ active' = <<>> /\ handler' = NoHandler /\ curRunning' = NULL /\ ~exec' /\ exec' \in BOOLEAN
        /\ state' = state /\ signal' = signal /\ isBusy' = isBusy /\ ladr' = ladr /\ atFin' = atFin
        /\ clock' = FALSE /\ drawingEvFlag' = TRUE /\ listEvFlags' = listEvFlags \cup SetsListEvFlag(dl)
    BY <1>n DEF StartsNone
  <2>2. TypeOK'
    BY <2>1, <1>b, <1>p, Pointers DEF IInv, TypeOK, NoHandler
  <2>3. RecordInv'
    BY <2>1, <1>q, <1>r DEF RecordInv, NoHandler
  <2>4. RunningInv'
    BY <2>1 DEF RunningInv
  <2>5. StateInv'
    BY <2>1 DEF StateInv
  <2>6. ResetInv'
    BY <2>1, <1>t DEF IInv, ResetInv
  <2>7. SignalInv'
    BY <2>1 DEF IInv, SignalInv
  <2>8. HandlerInv'
    BY <2>1 DEF HandlerInv, NoHandler
  <2>9. WorkInv'
    BY <2>1 DEF WorkInv, NoHandler, Working
  <2>10. HeadInv'
    BY <2>1 DEF HeadInv, NoHandler, InList, Signals
  <2> QED
    BY <2>2, <2>3, <2>4, <2>5, <2>6, <2>7, <2>8, <2>9, <2>10 DEF IInv
<1>g. CASE StartsPausing(active', dl)
  <2>1. /\ active' # <<>> /\ handler' = [at |-> "signal", dl |-> Head(active')] /\ curRunning' = NULL /\ ~exec' /\ exec' \in BOOLEAN
        /\ state' = [state EXCEPT ![Head(active')] = "paused"] /\ signal' = [signal EXCEPT ![Head(active')] = "break"]
        /\ isBusy' = isBusy /\ ladr' = ladr /\ atFin' = atFin
        /\ clock' = clock /\ drawingEvFlag' = drawingEvFlag /\ listEvFlags' = listEvFlags
    BY <1>g DEF IInv, TypeOK, StartsPausing, flags
  <2>2. TypeOK'
    BY <2>1, <1>p, Pointers DEF IInv, TypeOK
  <2>3. RecordInv'
    BY <2>1, <1>q, <1>r DEF RecordInv
  <2>4. RunningInv'
    BY <2>1 DEF RunningInv
  <2>5. StateInv'
    BY <2>1, <1>a DEF StateInv
  <2>6. ResetInv'
    BY <2>1, <1>a, <1>t DEF IInv, ResetInv
  <2>7. SignalInv'
    BY <2>1 DEF IInv, SignalInv
  <2>8. HandlerInv'
    BY <2>1 DEF HandlerInv
  <2>9. WorkInv'
    BY <2>1 DEF WorkInv, Working
  <2>10. HeadInv'
    BY <2>1 DEF HeadInv, InList, Signals
  <2> QED
    BY <2>2, <2>3, <2>4, <2>5, <2>6, <2>7, <2>8, <2>9, <2>10 DEF IInv
<1>s. CASE StartsPaused(active', dl)
  <2>1. /\ active' # <<>> /\ handler' = NoHandler /\ curRunning' = NULL /\ ~exec' /\ exec' \in BOOLEAN
        /\ state' = state /\ signal' = signal
        /\ isBusy' = isBusy /\ ladr' = ladr /\ atFin' = atFin
        /\ clock' = FALSE /\ drawingEvFlag' = drawingEvFlag /\ listEvFlags' = listEvFlags \cup SetsListEvFlag(dl)
    BY <1>s DEF IInv, TypeOK, StartsPaused
  <2>2. TypeOK'
    BY <2>1, <1>b, <1>p, Pointers DEF IInv, TypeOK, NoHandler
  <2>3. RecordInv'
    BY <2>1, <1>q, <1>r DEF RecordInv, NoHandler
  <2>4. RunningInv'
    BY <2>1 DEF RunningInv
  <2>5. StateInv'
    BY <2>1 DEF StateInv
  <2>6. ResetInv'
    BY <2>1, <1>t DEF IInv, ResetInv
  <2>7. SignalInv'
    BY <2>1 DEF IInv, SignalInv
  <2>8. HandlerInv'
    BY <2>1 DEF HandlerInv, NoHandler
  <2>9. WorkInv'
    BY <2>1 DEF WorkInv, NoHandler, Working
  <2>10. HeadInv'
    BY <2>1 DEF HeadInv, NoHandler, InList, Signals
  <2> QED
    BY <2>2, <2>3, <2>4, <2>5, <2>6, <2>7, <2>8, <2>9, <2>10 DEF IInv
<1>h. CASE StartsHead(active', dl)
  <2>1. /\ active' # <<>> /\ handler' = NoHandler /\ curRunning' = Head(active') /\ exec' = TRUE
        /\ state' = [state EXCEPT ![Head(active')] = "running"] /\ signal' = signal
        /\ signal[Head(active')] # "pause"
        /\ isBusy' = [isBusy EXCEPT ![Head(active')] = TRUE] /\ ladr' = Head(active') /\ atFin' = resumesAtFin[Head(active')]
        /\ clock' = clock /\ drawingEvFlag' = drawingEvFlag /\ listEvFlags' = listEvFlags \cup SetsListEvFlag(dl)
    BY <1>h DEF StartsHead
  <2>2. TypeOK'
    BY <2>1, <1>b, <1>p, Pointers DEF IInv, TypeOK, NoHandler
  <2>3. RecordInv'
    BY <2>1, <1>q, <1>r DEF RecordInv, NoHandler
  <2>4. RunningInv'
    BY <2>1 DEF IInv, RunningInv, TypeOK
  <2>5. StateInv'
    BY <2>1, <1>a DEF StateInv
  <2>6. ResetInv'
    BY <2>1, <1>a, <1>t DEF IInv, ResetInv
  <2>7. SignalInv'
    BY <2>1 DEF IInv, SignalInv
  <2>8. HandlerInv'
    BY <2>1 DEF HandlerInv, NoHandler
  <2>9. WorkInv'
    BY <2>1, <1>a, Pointers DEF IInv, WorkInv, TypeOK
  <2>10. HeadInv'
    BY <2>1 DEF IInv, HeadInv, TypeOK
  <2> QED
    BY <2>2, <2>3, <2>4, <2>5, <2>6, <2>7, <2>8, <2>9, <2>10 DEF IInv
<1> QED
  BY <1>n, <1>g, <1>s, <1>h DEF StartsNext

\* No list runs when the FINISH of a list that is not running is handled.
LEMMA NoneRunning ==
  ASSUME IInv, curRunning # NULL => state[curRunning] # "running"
  PROVE  \A d \in DisplayLists : state[d] # "running"
BY Pointers DEF IInv, RunningInv

\* The FINISH/END of a SIGNAL_PAUSE: a callback, or another list that was put in front.
LEMMA FinishPauseStep ==
  ASSUME IInv, OneEnqueuer, FinishPause
  PROVE  IInv'
<1>1. /\ handler.at = "none" /\ intr = "finish" /\ intr' = "none" /\ isBreak' = FALSE
      /\ curRunning # NULL /\ signal[curRunning] = "pause"
      /\ resumesAtFin' = [resumesAtFin EXCEPT ![curRunning] = FALSE]
      /\ active' = active /\ free' = free /\ refused' = refused
  BY DEF FinishPause, Interrupted, Acknowledge
<1>2. \A d \in DisplayLists : state[d] # "running"
  <2>1. curRunning \in DisplayLists
    BY <1>1 DEF IInv, TypeOK, DlPointer
  <2> QED
    BY <1>1, <2>1, NoneRunning DEF IInv, SignalInv
<1>3. CASE active # <<>> /\ Head(active) = curRunning
  <2>1. /\ signal' = [signal EXCEPT ![curRunning] = "break"]
        /\ curRunning' = NULL
        /\ handler' = [at |-> "signal", dl |-> curRunning]
        /\ UNCHANGED <<state, isBusy, drawingEvFlag, listEvFlags, exec, ladr, atFin, clock, pc>>
    BY <1>3 DEF FinishPause, flags
  <2>2. TypeOK'
    BY <1>1, <2>1 DEF IInv, TypeOK, DlPointer
  <2>3. RecordInv'
    BY <2>1 DEF IInv, RecordInv
  <2>4. QueuesPartition'
    BY <1>1 DEF IInv, QueuesPartition, Active, Free
  <2>5. RunningInv'
    BY <1>2, <2>1 DEF RunningInv
  <2>6. StateInv'
    BY <1>1, <2>1 DEF IInv, StateInv, Active, Free
  <2>7. ResetInv'
    BY <1>1, <2>1 DEF IInv, ResetInv, Active
  <2>8. SignalInv'
    BY <2>1 DEF IInv, SignalInv
  <2>9. HandlerInv'
    BY <1>1, <2>1 DEF HandlerInv
  <2>10. WorkInv'
    BY <1>1, <2>1 DEF IInv, WorkInv, HandlerInv, Working
  <2>11. HeadInv'
    BY <1>1, <2>1 DEF IInv, HeadInv, InList, Signals
  <2> QED
    BY <2>2, <2>3, <2>4, <2>5, <2>6, <2>7, <2>8, <2>9, <2>10, <2>11 DEF IInv
<1>4. CASE ~(active # <<>> /\ Head(active) = curRunning)
  <2>1. StartsNext(active', NULL)
    BY <1>4 DEF FinishPause
  <2>2. active \in Seq(DisplayLists) /\ free \in Seq(DisplayLists)
    BY DEF IInv, TypeOK
  <2>3. QueuesPartition'
    BY <1>1 DEF IInv, QueuesPartition, Active, Free
  <2>4. /\ Active' = Active /\ Free' = Free
        /\ \A d \in Active : state[d] \in {"queued", "paused"}
    BY <1>1, <1>2, <2>2, QueueRange DEF IInv, StateInv, Active, Free
  <2>5. ~exec /\ clock /\ ~drawingEvFlag
    BY <1>1 DEF IInv, HandlerInv, WorkInv
  <2>6. resumesAtFin' \in [DisplayLists -> BOOLEAN] /\ isBreak' \in BOOLEAN /\ refused' \subseteq DisplayLists
    BY <1>1 DEF IInv, TypeOK
  <2>7. \A d \in Free' : state[d] # "none" => state[d] = "completed" /\ isBusy[d]
    BY <2>4 DEF IInv, StateInv
  <2> QED
    BY <1>1, <1>2, <2>1, <2>2, <2>3, <2>4, <2>5, <2>6, <2>7, Pointers, StartsNextStep
<1> QED
  BY <1>3, <1>4

\* A FINISH/END of a list that was paused or broken, or of the driver.
LEMMA FinishOtherStep ==
  ASSUME IInv, OneEnqueuer, FinishOther
  PROVE  IInv'
<1>1. /\ handler.at = "none" /\ intr = "finish" /\ intr' = "none" /\ isBreak' = FALSE
      /\ active' = active /\ free' = free /\ refused' = refused /\ resumesAtFin' = resumesAtFin
      /\ curRunning # NULL => state[curRunning] # "running"
      /\ StartsNext(active', curRunning)
  BY DEF FinishOther, Interrupted, Acknowledge
<1>2. \A d \in DisplayLists : state[d] # "running"
  BY <1>1, NoneRunning
<1>3. active \in Seq(DisplayLists) /\ free \in Seq(DisplayLists) /\ curRunning \in DlPointer
  BY DEF IInv, TypeOK
<1>4. QueuesPartition'
  BY <1>1 DEF IInv, QueuesPartition, Active, Free
<1>5. /\ Active' = Active /\ Free' = Free
      /\ \A d \in Active : state[d] \in {"queued", "paused"}
  BY <1>1, <1>2, <1>3, QueueRange DEF IInv, StateInv, Active, Free
<1>6. ~exec /\ clock /\ ~drawingEvFlag
  BY <1>1 DEF IInv, HandlerInv, WorkInv, Working
<1>7. resumesAtFin' \in [DisplayLists -> BOOLEAN] /\ isBreak' \in BOOLEAN /\ refused' \subseteq DisplayLists
  BY <1>1 DEF IInv, TypeOK
<1>8. \A d \in Free' : state[d] # "none" => state[d] = "completed" /\ isBusy[d]
  BY <1>5 DEF IInv, StateInv
<1> QED
  BY <1>1, <1>2, <1>3, <1>4, <1>5, <1>6, <1>7, <1>8, StartsNextStep

\* The finish callback returns: the list leaves the queue, and the next is chosen.
LEMMA FinishReturnStep ==
  ASSUME IInv, OneEnqueuer, FinishReturn
  PROVE  IInv'
<1> DEFINE dl == handler.dl
<1>1. /\ handler.at = "finish" /\ dl \in DisplayLists
      /\ active' = Unlinked(active, dl) /\ free' = Append(free, dl)
      /\ refused' = refused /\ resumesAtFin' = resumesAtFin /\ isBreak' = isBreak /\ intr' = intr
      /\ StartsNext(active', dl)
  BY DEF FinishReturn, IInv, RecordInv
<1>2. /\ ~exec /\ intr = "none" /\ clock /\ ~drawingEvFlag /\ curRunning = NULL
      /\ active # <<>> /\ Head(active) = dl /\ state[dl] = "completed" /\ isBusy[dl]
  BY <1>1 DEF IInv, HandlerInv, WorkInv
<1>3. \A d \in DisplayLists : state[d] # "running"
  BY <1>2, NoneRunning
<1>4. active \in Seq(DisplayLists) /\ free \in Seq(DisplayLists)
  BY DEF IInv, TypeOK
<1>5. dl \in Active
  BY <1>2, <1>4, QueueRange DEF Active
<1>6. /\ active' \in Seq(DisplayLists) /\ IsInjective(active') /\ Active' = Active \ {dl}
  BY <1>1, <1>4, UnlinkFromQueue DEF IInv, QueuesPartition, Active
<1>7. /\ free' \in Seq(DisplayLists) /\ IsInjective(free') /\ Free' = Free \cup {dl}
  BY <1>1, <1>4, <1>5, AppendToQueue DEF IInv, QueuesPartition, Free
<1>8. QueuesPartition'
  BY <1>1, <1>5, <1>6, <1>7 DEF IInv, QueuesPartition
<1>9. \A d \in Active' : d \in Active /\ state[d] \in {"queued", "paused"}
  <2> SUFFICES ASSUME NEW d \in Active'
               PROVE  d \in Active /\ state[d] \in {"queued", "paused"}
    OBVIOUS
  <2>1. d \in Active /\ d # dl /\ d \in DisplayLists
    BY <1>6, QueueRange DEF Active
  <2>2. handler # [at |-> "finish", dl |-> d]
    BY <2>1
  <2> QED
    BY <2>1, <1>3 DEF IInv, StateInv
<1>10. \A d \in Free' : state[d] # "none" => state[d] = "completed" /\ isBusy[d]
  BY <1>2, <1>7 DEF IInv, StateInv
<1>11. resumesAtFin' \in [DisplayLists -> BOOLEAN] /\ isBreak' \in BOOLEAN /\ refused' \subseteq DisplayLists
  BY <1>1 DEF IInv, TypeOK
<1>12. dl \in DlPointer
  BY <1>1, Pointers
<1> QED
  BY <1>1, <1>2, <1>3, <1>6, <1>7, <1>8, <1>9, <1>10, <1>11, <1>12, StartsNextStep

\* The queue is empty and the GE idle after _sceGeQueueInit.
LEMMA InitInv ==
  ASSUME Init
  PROVE  IInv
<1>1. /\ free \in Seq(DisplayLists) /\ IsInjective(free) /\ Free = DisplayLists
      /\ active = <<>> /\ active \in Seq(DisplayLists) /\ IsInjective(active) /\ Active = {}
  BY AllFree DEF Init, Free, Active, IsInjective, Range
<1>2. TypeOK
  BY <1>1, Pointers DEF Init, TypeOK, Idle, NoHandler
<1>3. RecordInv
  BY DEF Init, RecordInv, Idle, NoHandler
<1>4. QueuesPartition
  BY <1>1 DEF Init, QueuesPartition
<1>5. RunningInv
  BY DEF Init, RunningInv
<1>6. StateInv
  BY <1>1 DEF Init, StateInv
<1>7. ResetInv
  BY DEF Init, ResetInv, Idle
<1>8. SignalInv
  BY DEF Init, SignalInv
<1>9. HandlerInv /\ WorkInv /\ HeadInv
  BY DEF Init, HandlerInv, WorkInv, Working, HeadInv, InList, NoHandler, Signals
<1> QED
  BY <1>2, <1>3, <1>4, <1>5, <1>6, <1>7, <1>8, <1>9 DEF IInv

\* A step that changes nothing.
LEMMA StutterStep ==
  ASSUME IInv, UNCHANGED vars
  PROVE  IInv'
BY DEF vars, lists, flags, ge, IInv, TypeOK, RecordInv, QueuesPartition, RunningInv,
     StateInv, ResetInv,
       SignalInv, HandlerInv, WorkInv, Working, HeadInv, InList, Active, Free

\* The invariant is inductive.
THEOREM Inductive ==
  ASSUME OneEnqueuer
  PROVE  Spec => []IInv
<1>1. Init => IInv
  BY InitInv
<1>2. ASSUME IInv, [Next]_vars PROVE IInv'
  <2>1. CASE UNCHANGED vars
    BY <1>2, <2>1, StutterStep
  <2>2. ASSUME NEW a \in Thread \cup {"callback"}, Operation(a) PROVE IInv'
    BY <1>2, <2>2, EnQueueStep, EnQueueHeadStep, DeQueueStep, ContinueStoppedStep,
         ContinueBreakingStep
       DEF Operation
  <2>3. ASSUME NEW t \in Thread, ThreadStep(t) PROVE IInv'
    BY <1>2, <2>2, <2>3, ListSyncStep, DrawSyncStep, DrawSyncTestStep, DrawSyncClearStep,
         DrawSyncUnbusyStep,
       BreakResetStep, BreakRunningStep, BreakQueuedStep
       DEF ThreadStep
  <2>4. CASE GeStep
    BY <1>2, <2>4, GeSignalStep, GeFinishStep DEF GeStep
  <2>5. CASE InterruptStep
    BY <1>2, <2>5, SignalSuspendStep, SignalContinueStep, SignalPauseStep, SignalSyncStep,
         SignalReturnStep,
       FinishSyncStep, FinishPauseStep, FinishListStep, FinishReturnStep, FinishOtherStep
       DEF InterruptStep
  <2> QED
    BY <1>2, <2>1, <2>2, <2>3, <2>4, <2>5 DEF Next
<1> QED
  BY <1>1, <1>2, PTL DEF Spec

-----------------------------------------------------------------------------
(* No start of the GE is lost.                                             *)

\* The operations start the GE with the list they say is running, and leave a
\* GE that works for another alone.
LEMMA OperationRuns ==
  ASSUME IInv, RunInv, NEW a \in Thread \cup {"callback"}, Operation(a)
  PROVE  RunInv'
<1>1. CASE EnQueue(a)
  <2>1. CASE EnQueueFirst(Head(free))
    BY <2>1 DEF RunInv, Working, EnQueueFirst, Programs
  <2>2. CASE EnQueueLast(Head(free))
    <3>1. \A dl \in DisplayLists : state'[dl] = "running" => state[dl] = "running"
      BY <2>2 DEF IInv, TypeOK, EnQueueLast
    <3> QED
      BY <1>1, <2>2, <3>1 DEF RunInv, Working, EnQueueLast, EnQueue, ge
  <2> QED
    BY <1>1, <2>1, <2>2 DEF EnQueue
<1>2. CASE EnQueueHead(a)
  <2>1. \A dl \in DisplayLists : state'[dl] = "running" => state[dl] = "running"
    BY <1>2 DEF IInv, TypeOK, EnQueueHead, EnQueueHeadRefused, EnQueueHeadTaken, EnQueuedHead
  <2> QED
    BY <1>2, <2>1 DEF RunInv, Working, EnQueueHead, ge
<1>3. ASSUME NEW d \in DisplayLists, DeQueue(a, d) PROVE RunInv'
  BY <1>3 DEF IInv, TypeOK, RunInv, Working, DeQueue, ge
<1>4. CASE ContinueStopped(a)
  BY <1>4 DEF RunInv, Working, ContinueStopped, Programs
<1>5. CASE ContinueBreaking(a)
  BY <1>5 DEF IInv, TypeOK, RunInv, Working, ContinueBreaking, ge
<1> QED
  BY <1>1, <1>2, <1>3, <1>4, <1>5 DEF Operation

\* A thread that waits, resets completed lists or breaks a list starts none.
LEMMA ThreadRuns ==
  ASSUME IInv, RunInv, NEW t \in Thread, ThreadStep(t)
  PROVE  RunInv'
<1>1. CASE Operation(t)
  BY <1>1, OperationRuns
<1>2. CASE (\E dl \in DisplayLists : ListSync(t, dl)) \/ DrawSync(t) \/ DrawSyncTest(t)
           \/ DrawSyncUnbusy(t)
  BY <1>2 DEF RunInv, Working, ListSync, DrawSync, DrawSyncTest, DrawSyncUnbusy, ge, lists
<1>3. CASE DrawSyncClear(t)
  BY <1>3 DEF IInv, TypeOK, RunInv, Working, DrawSyncClear, ge
<1>4. CASE BreakReset(t)
  BY <1>4 DEF RunInv, BreakReset
<1>5. CASE BreakRunning(t)
  BY <1>5 DEF RunInv, Working, BreakRunning
<1>6. CASE BreakQueued(t)
  BY <1>6 DEF IInv, TypeOK, RunInv, Working, BreakQueued, ge
<1> QED
  BY <1>1, <1>2, <1>3, <1>4, <1>5, <1>6 DEF ThreadStep

\* Whoever starts the next list starts the GE.
LEMMA StartsNextRuns ==
  ASSUME TypeOK, \A d \in DisplayLists : state[d] # "running",
         NEW act, NEW dl, StartsNext(act, dl)
  PROVE  RunInv'
<1>1. CASE StartsNone(act, dl) \/ StartsPaused(act, dl)
  BY <1>1 DEF RunInv, StartsNone, StartsPaused
<1>2. CASE StartsPausing(act, dl)
  BY <1>2 DEF TypeOK, RunInv, StartsPausing
<1>3. CASE StartsHead(act, dl)
  BY <1>3 DEF RunInv, Working, StartsHead
<1> QED
  BY <1>1, <1>2, <1>3 DEF StartsNext

\* A handler lets the GE go on, now or after the callback, unless no list runs
\* any more.
LEMMA InterruptRuns ==
  ASSUME IInv, RunInv, InterruptStep
  PROVE  RunInv'
<1>1. CASE SignalSuspend
  BY <1>1 DEF RunInv, Working, SignalSuspend
<1>2. CASE \/ SignalContinue \/ SignalSync \/ FinishSync
           \/ \E s \in {"pause", "none"} : SignalPause(s)
  BY <1>2 DEF RunInv, Working, SignalContinue, SignalSync, FinishSync, SignalPause
<1>3. CASE SignalReturn
  BY <1>3 DEF RunInv, Working, SignalReturn, lists
<1>4. CASE FinishPause
  <2>1. \A d \in DisplayLists : state[d] # "running"
    BY <1>4, NoneRunning, Pointers DEF FinishPause, IInv, SignalInv, TypeOK, DlPointer
  <2>2. CASE UNCHANGED state
    BY <2>1, <2>2 DEF RunInv
  <2>3. CASE StartsNext(active, NULL)
    BY <2>1, <2>3, StartsNextRuns DEF IInv
  <2> QED
    BY <1>4, <2>2, <2>3 DEF FinishPause
<1>5. CASE FinishList
  <2>1. /\ curRunning \in DisplayLists
        /\ \A d \in DisplayLists : state[d] = "running" => d = curRunning
    BY <1>5 DEF FinishList, IInv, TypeOK, RunningInv, DlPointer
  <2> QED
    BY <1>5, <2>1 DEF FinishList, IInv, TypeOK, RunInv
<1>6. CASE FinishReturn
  <2>1. \A d \in DisplayLists : state[d] # "running"
    BY <1>6, NoneRunning DEF FinishReturn, IInv, HandlerInv
  <2> QED
    BY <1>6, <2>1, StartsNextRuns DEF FinishReturn, IInv
<1>7. CASE FinishOther
  <2>1. \A d \in DisplayLists : state[d] # "running"
    BY <1>7, NoneRunning DEF FinishOther
  <2> QED
    BY <1>7, <2>1, StartsNextRuns DEF FinishOther, IInv
<1> QED
  BY <1>1, <1>2, <1>3, <1>4, <1>5, <1>6, <1>7 DEF InterruptStep

-----------------------------------------------------------------------------
(* Theorems of the specification.                                          *)

\* The state is well-typed, the event flags of sceGeDrawSync and sceGeListSync
\* included.
THEOREM TypeCorrect ==
  ASSUME OneEnqueuer
  PROVE  Spec => []TypeOK
<1>1. IInv => TypeOK
  BY DEF IInv
<1> QED
  BY <1>1, Inductive, PTL

\* sceGeListEnQueue, sceGeListDeQueue, sceGeBreak and the end of a list keep each
\* list in one queue, once, but for those sceGeListEnQueueHead loses.
THEOREM Partition ==
  ASSUME OneEnqueuer
  PROVE  Spec => []QueuesPartition
<1>1. IInv => QueuesPartition
  BY DEF IInv
<1> QED
  BY <1>1, Inductive, PTL

\* The interrupt handlers take an interrupt for the list that raised it.
THEOREM InterruptsMatch ==
  ASSUME OneEnqueuer
  PROVE  Spec => []InterruptIsForItsList
<1>1. IInv => InterruptIsForItsList
  BY DEF IInv, InterruptIsForItsList, HeadInv, InList, WorkInv, Working
<1> QED
  BY <1>1, Inductive, PTL

\* While the GE works or has an interrupt to be handled, its clock is enabled and
\* sceGeDrawSync(0) waits.
THEOREM DrawingAnnounced ==
  ASSUME OneEnqueuer
  PROVE  Spec => []DrawingIsAnnounced
<1>1. IInv => DrawingIsAnnounced
  BY DEF IInv, DrawingIsAnnounced, WorkInv, Working
<1> QED
  BY <1>1, Inductive, PTL

\* The loop of sceGeDrawSync never resets a list that is in the queue.
THEOREM ResetsOnlyCompleted ==
  ASSUME OneEnqueuer
  PROVE  Spec => []ResetsCompleted
<1>1. IInv => ResetsCompleted
  BY DEF IInv, ResetsCompleted, ResetInv
<1> QED
  BY <1>1, Inductive, PTL

\* A running list is the head of the queue, busy, and the one on the GE, which
\* executes it or will once its interrupt or callback has been handled: no break,
\* continue, callback or interrupt loses its start.
THEOREM RunningIsHead ==
  ASSUME OneEnqueuer
  PROVE  Spec => []OneRunning
<1>1. Init => RunInv
  BY DEF Init, RunInv
<1>2. IInv /\ RunInv /\ [Next]_vars => RunInv'
  <2> SUFFICES ASSUME IInv, RunInv, [Next]_vars PROVE RunInv'
    OBVIOUS
  <2>1. CASE GeStep
    BY <2>1 DEF RunInv, Working, GeStep, GeSignal, GeFinish, Signals, lists
  <2>2. CASE UNCHANGED vars
    BY <2>2 DEF RunInv, Working, vars, lists, ge
  <2> QED
    BY <2>1, <2>2, OperationRuns, ThreadRuns, InterruptRuns DEF Next
<1>3. IInv /\ RunInv => OneRunning
  BY Pointers DEF IInv, RunningInv, WorkInv, RunInv, Working, OneRunning
<1> QED
  BY <1>1, <1>2, <1>3, Inductive, PTL DEF Spec

-----------------------------------------------------------------------------
(* GeQueue implements GeService.                                           *)

\* Unlinking the head of a queue without repetition leaves its tail.
LEMMA UnlinkHead ==
  ASSUME NEW S, NEW q \in Seq(S), q # <<>>, IsInjective(q)
  PROVE  Unlinked(q, Head(q)) = Tail(q)
<1>1. /\ Len(q) \in Nat \ {0} /\ 1 \in DOMAIN q /\ q[1] = Head(q) /\ DOMAIN q = 1 .. Len(q)
      /\ Head(q) \in Range(q)
  BY QueueRange
<1>2. \A i \in DOMAIN q : q[i] = Head(q) => i = 1
  BY <1>1 DEF IsInjective
<1>3. (CHOOSE i \in DOMAIN q : q[i] = Head(q)) = 1
  BY <1>1, <1>2
<1>4. Unlinked(q, Head(q)) = RemoveAt(q, 1)
  BY <1>1, <1>3 DEF Unlinked
<1>5. RemoveAt(q, 1) = SubSeq(q, 1, 0) \o SubSeq(q, 2, Len(q))
  BY DEF RemoveAt
<1>6. SubSeq(q, 1, 0) = <<>> /\ SubSeq(q, 2, Len(q)) = Tail(q)
  OBVIOUS
<1>7. Tail(q) \in Seq(S)
  BY HeadTailProperties
<1> QED
  BY <1>4, <1>5, <1>6, <1>7, ConcatEmptySeq

\* What GeService sees of a state: the list said to run, and the one whose
\* callback is called, which heads the queue.
Seen ==
  /\ Service!Range(active) = Active /\ Active \subseteq DisplayLists
  /\ active # <<>> => Head(active) \in Active
  /\ active = <<>> => Active = {}
  /\ Running \in DisplayLists \cup {NULL}
  /\ \A d \in DisplayLists : Running = d <=> state[d] = "running"
  /\ Running # NULL => active # <<>> /\ Running = Head(active) /\ isBusy[Running]
  /\ Ended # NULL => active # <<>> /\ Ended = Head(active) /\ isBusy[Ended] /\ Running = NULL
  /\ Ended # NULL <=> handler.at = "finish"
  /\ NULL \notin DisplayLists

\* That is what the invariant tells.
LEMMA IsSeen == IInv => Seen
<1> SUFFICES ASSUME IInv PROVE Seen
  OBVIOUS
<1>1. active \in Seq(DisplayLists)
  BY DEF IInv, TypeOK
<1>2. /\ Service!Range(active) = Active /\ Active \subseteq DisplayLists
      /\ active # <<>> => Head(active) \in Active
      /\ active = <<>> => Active = {}
  BY <1>1, QueueRange DEF Service!Range, Active, Range
<1>3. /\ Running \in DisplayLists \cup {NULL}
      /\ \A d \in DisplayLists : Running = d <=> state[d] = "running"
  BY NullAssumption DEF IInv, TypeOK, RunningInv, Running, DlPointer
<1>4. Running # NULL => active # <<>> /\ Running = Head(active) /\ isBusy[Running]
  BY <1>3 DEF IInv, RunningInv
<1>5. Ended # NULL <=> handler.at = "finish"
  BY NullAssumption DEF Ended, IInv, RecordInv
<1>6. Ended # NULL => active # <<>> /\ Ended = Head(active) /\ isBusy[Ended] /\ Running = NULL
  BY <1>5 DEF Ended, Running, IInv, HandlerInv
<1> QED
  BY <1>2, <1>3, <1>4, <1>5, <1>6, NullAssumption DEF Seen

\* A step after which the same lists are in the queue, busy and running.
LEMMA SeenKept ==
  ASSUME Seen, Seen', active' = active, \A d \in Active : isBusy'[d] = isBusy[d],
         \A d \in DisplayLists : state'[d] = "running" <=> state[d] = "running",
         handler'.at = "finish" <=> handler.at = "finish"
  PROVE  UNCHANGED Service!vars
<1>1. Begun' = Begun
  BY DEF Begun, Active
<1>2. Running' = Running
  BY DEF Seen
<1>3. Ended' = Ended
  BY DEF Seen
<1> QED
  BY <1>1, <1>2, <1>3 DEF Service!vars

\* A list enqueued at the end is accepted, and begun if it is alone.
LEMMA EnQueueServed ==
  ASSUME IInv, Seen, Seen', NEW a, EnQueue(a)
  PROVE  \E d \in DisplayLists : Service!Accept(d)
<1> DEFINE d == Head(free)
<1>1. d \in DisplayLists /\ d \notin Active /\ state[d] # "running" /\ handler' = handler
  <2>1. d \in Free /\ Free \subseteq DisplayLists
    BY QueueRange DEF EnQueue, IInv, TypeOK, Free
  <2>2. d \in DisplayLists /\ d \notin Active
    BY <2>1 DEF IInv, QueuesPartition
  <2>3. state[d] # "running"
    BY <2>1 DEF IInv, StateInv
  <2>4. handler' = handler
    BY DEF EnQueue
  <2> QED
    BY <2>2, <2>3, <2>4
<1>2. active \in Seq(DisplayLists) /\ Ended' = Ended
  BY <1>1 DEF IInv, TypeOK, Ended
<1>3. CASE EnQueueFirst(d)
  <2>1. active = <<>> /\ active' = <<d>> /\ state'[d] = "running" /\ isBusy'[d]
    BY <1>1, <1>3 DEF EnQueueFirst, IInv, TypeOK
  <2>2. active' = Append(active, d) /\ Active' = {d}
    BY <2>1 DEF Active, Range
  <2>3. Running' = d /\ Begun' = {d}
    BY <1>1, <2>1, <2>2 DEF Seen, Begun
  <2> QED
    BY <1>1, <1>2, <2>1, <2>2, <2>3 DEF Service!Accept, Seen
<1>4. CASE EnQueueLast(d)
  <2>1. /\ active # <<>> /\ active' = Append(active, d) /\ ~isBusy'[d]
        /\ \A e \in DisplayLists \ {d} : isBusy'[e] = isBusy[e]
        /\ \A e \in DisplayLists : state'[e] = "running" <=> state[e] = "running"
    BY <1>1, <1>4 DEF EnQueueLast, IInv, TypeOK
  <2>2. Active' = Active \cup {d}
    BY <1>1, <1>2, <2>1, AppendToQueue DEF IInv, QueuesPartition, Active
  <2>3. Running' = Running /\ Begun' = Begun
    BY <1>1, <2>1, <2>2 DEF Seen, Begun
  <2> QED
    BY <1>1, <1>2, <2>1, <2>3 DEF Service!Accept, Seen
<1> QED
  BY <1>3, <1>4 DEF EnQueue

\* A list enqueued at the head is accepted first, or the call is refused.
LEMMA EnQueueHeadServed ==
  ASSUME IInv, Seen, Seen', NEW a, EnQueueHead(a)
  PROVE  (\E d \in DisplayLists : Service!AcceptFirst(d)) \/ UNCHANGED Service!vars
<1> DEFINE d == Head(free)
<1>1. d \in DisplayLists /\ d \notin Active /\ state[d] # "running" /\ handler' = handler
  <2>1. d \in Free /\ Free \subseteq DisplayLists
    BY QueueRange DEF EnQueueHead, IInv, TypeOK, Free
  <2>2. d \in DisplayLists /\ d \notin Active
    BY <2>1 DEF IInv, QueuesPartition
  <2>3. state[d] # "running"
    BY <2>1 DEF IInv, StateInv
  <2>4. handler' = handler
    BY DEF EnQueueHead
  <2> QED
    BY <2>2, <2>3, <2>4
<1>2. /\ active \in Seq(DisplayLists) /\ Ended' = Ended
      /\ ~isBusy'[d] /\ \A e \in DisplayLists \ {d} : isBusy'[e] = isBusy[e]
  BY <1>1 DEF EnQueueHead, IInv, TypeOK, Ended
<1>3. CASE EnQueueHeadRefused(d)
  BY <1>1, <1>2, <1>3, SeenKept DEF EnQueueHeadRefused, Seen
<1>4. CASE EnQueueHeadTaken(d)
  <2>1. /\ active # <<>> => state[Head(active)] = "paused"
        /\ active' = <<d>> \o active
    BY <1>4 DEF EnQueueHeadTaken
  <2>2. Running = NULL /\ Ended = NULL
    BY <2>1 DEF Seen, IInv, HandlerInv, Ended
  <2>3. \A e \in DisplayLists : state'[e] # "running"
    BY <1>1, <1>4, <2>2 DEF EnQueueHeadTaken, EnQueuedHead, Seen, IInv, TypeOK
  <2>4. Running' = NULL
    BY <2>3 DEF Seen
  <2>5. Active' = Active \cup {d}
    BY <1>1, <1>2, <2>1, PrependToQueue DEF IInv, QueuesPartition, Active
  <2>6. Begun' = Begun
    BY <1>1, <1>2, <2>5 DEF Begun, Seen
  <2> QED
    BY <1>1, <1>2, <2>1, <2>2, <2>4, <2>6 DEF Service!AcceptFirst, Seen
<1> QED
  BY <1>3, <1>4 DEF EnQueueHead

\* A list dequeued is withdrawn, if it was in the queue.
LEMMA DeQueueServed ==
  ASSUME IInv, Seen, Seen', NEW a, NEW d \in DisplayLists, DeQueue(a, d)
  PROVE  Service!Withdraw(d) \/ UNCHANGED Service!vars
<1>1. /\ ~isBusy[d] /\ isBusy' = isBusy /\ handler' = handler
      /\ active' = Unlinked(active, d)
      /\ \A e \in DisplayLists : state'[e] = "running" <=> state[e] = "running" /\ e # d
  BY DEF DeQueue, MayDeQueue, IInv, TypeOK
<1>2. \A e \in DisplayLists : state'[e] = "running" <=> state[e] = "running"
  BY <1>1 DEF IInv, RunningInv
<1>3. CASE d \notin Active
  <2>1. active' = active
    BY <1>1, <1>3 DEF Unlinked, Active
  <2> QED
    BY <1>1, <1>2, <2>1, SeenKept
<1>4. CASE d \in Active
  <2> DEFINE i == CHOOSE j \in DOMAIN active : active[j] = d
  <2>1. i \in DOMAIN active /\ active[i] = d
    BY <1>4 DEF Active, Range
  <2>2. active' = RemoveAt(active, i)
    BY <1>1, <1>4 DEF Unlinked, Active
  <2>3. active' = Service!RemoveAt(active, i)
    BY <2>2 DEF RemoveAt, Service!RemoveAt
  <2> HIDE DEF i
  <2>4. Active' = Active \ {d}
    BY <1>1, UnlinkFromQueue DEF IInv, TypeOK, QueuesPartition, Active
  <2>5. Begun' = Begun /\ d \notin Begun
    BY <1>1, <2>4 DEF Begun
  <2>6. Running' = Running /\ Ended' = Ended
    BY <1>1, <1>2 DEF Seen, Ended
  <2> QED
    BY <2>1, <2>3, <2>5, <2>6 DEF Service!Withdraw
<1> QED
  BY <1>3, <1>4

\* The head is begun, or gone on with.
LEMMA ExecuteServed ==
  ASSUME Seen, Seen', active' = active, active # <<>>, Running = NULL, Ended = NULL,
         Ended' = NULL, state'[Head(active)] = "running",
         isBusy' = [isBusy EXCEPT ![Head(active)] = TRUE],
         isBusy \in [DisplayLists -> BOOLEAN]
  PROVE  Service!Execute
<1>1. Running' = Head(active)
  BY DEF Seen
<1>2. Begun' = Begun \cup {Head(active)}
  BY DEF Seen, Begun, Active
<1> QED
  BY <1>1, <1>2 DEF Service!Execute

\* The running list is stopped.
LEMMA StopServed ==
  ASSUME Seen, Seen', active' = active, active # <<>>, isBusy' = isBusy,
         state[Head(active)] = "running", state' = [state EXCEPT ![Head(active)] = "paused"],
         state \in [DisplayLists -> {"none", "queued", "running", "completed", "paused"}],
         handler' = handler
  PROVE  Service!Stop
<1>1. Head(active) \in DisplayLists /\ Running = Head(active)
  BY DEF Seen
<1>2. \A d \in DisplayLists : state'[d] # "running"
  BY <1>1 DEF Seen
<1>3. Running # NULL /\ Running' = NULL
  BY <1>1, <1>2 DEF Seen
<1>4. Begun' = Begun /\ Ended' = Ended
  BY DEF Begun, Active, Ended
<1> QED
  BY <1>3, <1>4 DEF Service!Stop

\* The operations that callbacks call too.
LEMMA OperationServed ==
  ASSUME IInv, Seen, Seen', NEW a, Operation(a)
  PROVE  [Service!Next]_(Service!vars)
<1>1. CASE EnQueue(a)
  BY <1>1, EnQueueServed DEF Service!Next
<1>2. CASE EnQueueHead(a)
  BY <1>2, EnQueueHeadServed DEF Service!Next
<1>3. ASSUME NEW d \in DisplayLists, DeQueue(a, d) PROVE [Service!Next]_(Service!vars)
  BY <1>3, DeQueueServed DEF Service!Next
<1>4. CASE ContinueStopped(a)
  <2>1. /\ active # <<>> /\ active' = active /\ state[Head(active)] = "paused"
        /\ state' = [state EXCEPT ![Head(active)] = "running"]
        /\ isBusy' = [isBusy EXCEPT ![Head(active)] = TRUE]
        /\ handler' = handler
    BY <1>4 DEF ContinueStopped
  <2>2. state'[Head(active)] = "running" /\ isBusy \in [DisplayLists -> BOOLEAN]
    BY <2>1 DEF Seen, IInv, TypeOK
  <2>3. Running = NULL /\ Ended = NULL /\ Ended' = NULL
    BY <2>1 DEF Seen, IInv, HandlerInv, Ended
  <2> QED
    BY <2>1, <2>2, <2>3, ExecuteServed DEF Service!Next
<1>5. CASE ContinueBreaking(a)
  BY <1>5, SeenKept DEF ContinueBreaking, Seen, IInv, TypeOK
<1> QED
  BY <1>1, <1>2, <1>3, <1>4, <1>5 DEF Operation

\* The steps of a thread; but for breaks, those outside operations are stutters.
LEMMA ThreadServed ==
  ASSUME IInv, Seen, Seen', NEW t \in Thread, ThreadStep(t)
  PROVE  [Service!Next]_(Service!vars)
<1>1. CASE Operation(t)
  BY <1>1, OperationServed
<1>2. CASE (\E d \in DisplayLists : ListSync(t, d)) \/ DrawSync(t) \/ DrawSyncTest(t)
  BY <1>2, SeenKept DEF ListSync, DrawSync, DrawSyncTest, lists
<1>3. CASE DrawSyncClear(t)
  <2>1. state[pc[t].dl] # "running" /\ state' = [state EXCEPT ![pc[t].dl] = "none"]
    BY <1>3 DEF DrawSyncClear, IInv, ResetInv
  <2>2. \A d \in DisplayLists : state'[d] = "running" <=> state[d] = "running"
    BY <2>1 DEF IInv, TypeOK
  <2> QED
    BY <1>3, <2>2, SeenKept DEF DrawSyncClear
<1>4. CASE DrawSyncUnbusy(t)
  <2>1. pc[t].dl \notin Active /\ isBusy' = [isBusy EXCEPT ![pc[t].dl] = FALSE]
    BY <1>4 DEF DrawSyncUnbusy, IInv, ResetInv
  <2>2. isBusy \in [DisplayLists -> BOOLEAN] /\ Active \subseteq DisplayLists
    BY DEF IInv, TypeOK, Seen
  <2>3. \A d \in Active : isBusy'[d] = isBusy[d]
    BY <2>1, <2>2
  <2>4. state' = state /\ active' = active /\ handler' = handler
    BY <1>4 DEF DrawSyncUnbusy
  <2> QED
    BY <2>3, <2>4, SeenKept
<1>5. CASE BreakReset(t)
  <2>1. handler.at # "finish" /\ handler' = handler /\ active' = <<>>
        /\ \A d \in DisplayLists : state'[d] # "running"
    BY <1>5, ActorAssumption DEF BreakReset, Calls
  <2>2. Ended = NULL /\ Ended' = NULL /\ Running' = NULL /\ Begun' = {}
    BY <2>1 DEF Seen, Ended, Begun
  <2> QED
    BY <2>1, <2>2 DEF Service!Reset, Service!Next
<1>6. CASE BreakRunning(t)
  BY <1>6, StopServed DEF BreakRunning, IInv, TypeOK, Service!Next
<1>7. CASE BreakQueued(t)
  BY <1>7, SeenKept DEF BreakQueued, Seen, IInv, TypeOK
<1> QED
  BY <1>1, <1>2, <1>3, <1>4, <1>5, <1>6, <1>7 DEF ThreadStep

\* The end of _sceGeFinishInterrupt begins the head of the queue, or nothing.
LEMMA StartsServed ==
  ASSUME IInv, Seen', \A d \in DisplayLists : state[d] # "running", NEW dl,
         StartsNext(active', dl)
  PROVE  /\ Ended' = NULL
         /\ \/ isBusy' = isBusy /\ Running' = NULL
            \/ /\ active' # <<>>
               /\ isBusy' = [isBusy EXCEPT ![Head(active')] = TRUE]
               /\ state'[Head(active')] = "running"
<1>1. handler'.at # "finish"
  <2>1. \/ handler' = [at |-> "none", dl |-> NULL]
        \/ handler' = [at |-> "signal", dl |-> Head(active')]
    BY DEF StartsNext, StartsNone, StartsPausing, StartsPaused, StartsHead, NoHandler
  <2> QED
    BY <2>1
<1>2. Ended' = NULL
  BY <1>1 DEF Ended
<1>3. CASE StartsNone(active', dl) \/ StartsPaused(active', dl)
  <2>1. isBusy' = isBusy /\ \A d \in DisplayLists : state'[d] # "running"
    BY <1>3 DEF StartsNone, StartsPaused
  <2> QED
    BY <1>2, <2>1 DEF Seen
<1>4. CASE StartsPausing(active', dl)
  <2>1. isBusy' = isBusy /\ \A d \in DisplayLists : state'[d] # "running"
    BY <1>4 DEF StartsPausing, IInv, TypeOK
  <2> QED
    BY <1>2, <2>1 DEF Seen
<1>5. CASE StartsHead(active', dl)
  <2>1. active' # <<>> /\ Head(active') \in DisplayLists
    BY <1>5 DEF StartsHead, Seen
  <2> QED
    BY <1>2, <1>5, <2>1 DEF StartsHead, IInv, TypeOK
<1> QED
  BY <1>3, <1>4, <1>5 DEF StartsNext

\* With the queue as it was, that is a step of the service.
LEMMA NextServed ==
  ASSUME IInv, Seen, Seen', \A d \in DisplayLists : state[d] # "running", NEW dl,
         StartsNext(active, dl), active' = active, Ended = NULL
  PROVE  [Service!Next]_(Service!vars)
<1>1. Running = NULL
  BY DEF Seen
<1>2. CASE isBusy' = isBusy /\ Running' = NULL /\ Ended' = NULL
  <2>1. Begun' = Begun
    BY <1>2 DEF Begun, Active
  <2> QED
    BY <1>1, <1>2, <2>1 DEF Service!vars
<1>3. CASE /\ active # <<>> /\ Ended' = NULL
           /\ isBusy' = [isBusy EXCEPT ![Head(active)] = TRUE]
           /\ state'[Head(active)] = "running"
  BY <1>1, <1>3, ExecuteServed DEF IInv, TypeOK, Service!Next
<1> QED
  BY <1>2, <1>3, StartsServed

\* The interrupt handlers.
LEMMA InterruptServed ==
  ASSUME IInv, Seen, Seen', InterruptStep
  PROVE  [Service!Next]_(Service!vars)
<1>1. CASE SignalSuspend \/ SignalContinue \/ SignalSync \/ SignalReturn \/ FinishSync
  <2>1. /\ active' = active /\ state' = state /\ isBusy' = isBusy
        /\ handler.at # "finish" /\ handler'.at # "finish"
    BY <1>1 DEF SignalSuspend, SignalContinue, SignalSync, SignalReturn, FinishSync,
                Interrupted, NoHandler, lists
  <2> QED
    BY <2>1, SeenKept
<1>2. ASSUME NEW sig, SignalPause(sig) PROVE [Service!Next]_(Service!vars)
  <2>1. active # <<>> /\ state[Head(active)] = "running"
    BY <1>2 DEF SignalPause, Interrupted, IInv, HeadInv, InList, Signals
  <2> QED
    BY <1>2, <2>1, StopServed DEF SignalPause, IInv, TypeOK, Service!Next
<1>3. CASE FinishPause
  <2>1. /\ curRunning # NULL /\ signal[curRunning] = "pause" /\ handler.at = "none"
        /\ active' = active
    BY <1>3 DEF FinishPause, Interrupted
  <2>2. \A d \in DisplayLists : state[d] # "running"
    BY <2>1, NoneRunning DEF IInv, SignalInv, TypeOK, DlPointer
  <2>3. Ended = NULL
    BY <2>1 DEF Ended
  <2>4. CASE StartsNext(active, NULL)
    BY <2>1, <2>2, <2>3, <2>4, NextServed
  <2>5. CASE UNCHANGED <<state, isBusy>> /\ handler'.at = "signal"
    BY <2>1, <2>5, SeenKept
  <2> QED
    BY <1>3, <2>4, <2>5 DEF FinishPause
<1>4. CASE FinishList
  <2>1. /\ handler.at = "none" /\ curRunning \in DisplayLists
        /\ state[curRunning] = "running"
        /\ state' = [state EXCEPT ![curRunning] = "completed"]
        /\ handler' = [at |-> "finish", dl |-> curRunning]
        /\ active' = active /\ isBusy' = isBusy
    BY <1>4 DEF FinishList, Interrupted, IInv, TypeOK, DlPointer
  <2>2. Running = curRunning /\ Running # NULL /\ Ended' = curRunning
    BY <2>1 DEF Seen, Ended
  <2>3. \A d \in DisplayLists : state'[d] # "running"
    BY <2>1, <2>2 DEF Seen, IInv, TypeOK
  <2>4. Running' = NULL /\ Begun' = Begun
    BY <2>1, <2>3 DEF Seen, Begun, Active
  <2> QED
    BY <2>1, <2>2, <2>4 DEF Service!End, Service!Next
<1>5. CASE FinishReturn
  <2>1. /\ handler.at = "finish" /\ active' = Unlinked(active, handler.dl)
        /\ StartsNext(active', handler.dl)
    BY <1>5 DEF FinishReturn
  <2>2. active # <<>> /\ Ended = Head(active) /\ Ended = handler.dl /\ Running = NULL
    BY <2>1 DEF Seen, Ended
  <2>3. active' = Tail(active) /\ Active' = Active \ {Ended}
    BY <2>1, <2>2, UnlinkHead, UnlinkFromQueue DEF IInv, TypeOK, QueuesPartition, Active
  <2>4. \A d \in DisplayLists : state[d] # "running"
    BY <2>2 DEF Seen
  <2>5. CASE isBusy' = isBusy /\ Running' = NULL /\ Ended' = NULL
    <3>1. Begun' = Begun \ {Ended}
      BY <2>3, <2>5 DEF Begun
    <3> QED
      BY <2>2, <2>3, <2>5, <3>1 DEF Service!Leave, Service!Next
  <2>6. CASE /\ active' # <<>> /\ Ended' = NULL
             /\ isBusy' = [isBusy EXCEPT ![Head(active')] = TRUE]
             /\ state'[Head(active')] = "running"
    <3>1. Running' = Head(active') /\ Head(active') \in Active'
      BY <2>6 DEF Seen
    <3>2. Begun' = (Begun \ {Ended}) \cup {Running'}
      BY <2>3, <2>6, <3>1 DEF Begun, Seen, IInv, TypeOK
    <3> QED
      BY <2>2, <2>3, <2>6, <3>1, <3>2 DEF Service!Leave, Service!Next
  <2> QED
    BY <2>1, <2>4, <2>5, <2>6, StartsServed
<1>6. CASE FinishOther
  <2>1. /\ handler.at = "none" /\ active' = active /\ StartsNext(active, curRunning)
        /\ curRunning # NULL => state[curRunning] # "running"
    BY <1>6 DEF FinishOther, Interrupted
  <2>2. \A d \in DisplayLists : state[d] # "running"
    BY <2>1, NoneRunning
  <2> QED
    BY <2>1, <2>2, NextServed DEF Ended
<1> QED
  BY <1>1, <1>2, <1>3, <1>4, <1>5, <1>6 DEF InterruptStep

\* Programs see a queue whose lists are executed in order and one at a time, and
\* which a list that has been begun leaves only at its own end or by a reset,
\* whatever breaks, continues, callbacks and interrupts come between (ge.c).
THEOREM QueueServed ==
  ASSUME OneEnqueuer
  PROVE  Spec => ImplementsService
<1>1. Init => Service!Init
  BY DEF Init, Service!Init, Begun, Active, Range, Running, Ended, NoHandler
<1>2. ASSUME IInv, IInv', [Next]_vars PROVE [Service!Next]_(Service!vars)
  <2>1. Seen
    BY <1>2, IsSeen
  <2>2. Seen'
    BY <1>2, IsSeen, PTL
  <2>3. CASE GeStep \/ UNCHANGED vars
    <3>1. UNCHANGED <<active, state, isBusy, handler>>
      BY <2>3 DEF GeStep, GeSignal, GeFinish, vars, lists
    <3> QED
      BY <2>1, <2>2, <3>1, SeenKept
  <2> QED
    BY <1>2, <2>1, <2>2, <2>3, OperationServed, ThreadServed, InterruptServed DEF Next
<1> QED
  BY <1>1, <1>2, Inductive, PTL DEF Spec, ImplementsService, Service!Spec
=============================================================================
