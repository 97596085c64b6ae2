-------------------------- MODULE PacketListTheorems --------------------------
(***************************************************************************)
(* What each piece of pointer surgery does to the packets of a list, for   *)
(* any set of packets.  Induction along a list is by its definition as a   *)
(* least closed set.                                                       *)
(***************************************************************************)
EXTENDS PacketList, TLAPS

\* A list is a set of packets that is closed, holds its head, and lies within
\* every other such set.
LEMMA ReachLeast ==
  ASSUME NEW h \in Link, NEW nx \in [Packet -> Link]
  PROVE  /\ ReachFrom(h, nx) \subseteq Packet
         /\ ClosedFrom(ReachFrom(h, nx), h, nx)
         /\ \A S : ClosedFrom(S, h, nx) => ReachFrom(h, nx) \subseteq S
<1>1. ReachFrom(h, nx) \subseteq Packet
  BY DEF ReachFrom
<1>2. ASSUME NEW S, ClosedFrom(S, h, nx)
      PROVE  ReachFrom(h, nx) \subseteq S
  <2>1. S \cap Packet \in SUBSET Packet
    OBVIOUS
  <2>2. ClosedFrom(S \cap Packet, h, nx)
    BY <1>2, NullAssumption DEF ClosedFrom, Link
  <2> QED
    BY <2>1, <2>2 DEF ReachFrom
<1>3. h # NULL => h \in ReachFrom(h, nx)
  BY DEF ReachFrom, ClosedFrom, Link
<1>4. ASSUME NEW q \in ReachFrom(h, nx), nx[q] # NULL
      PROVE  nx[q] \in ReachFrom(h, nx)
  <2>1. q \in Packet /\ nx[q] \in Packet
    BY <1>1, <1>4 DEF Link
  <2>2. ASSUME NEW S \in SUBSET Packet, ClosedFrom(S, h, nx)
        PROVE  nx[q] \in S
    <3>1. q \in S
      BY <2>2 DEF ReachFrom
    <3> QED
      BY <3>1, <2>2, <1>4 DEF ClosedFrom
  <2> QED
    BY <2>1, <2>2 DEF ReachFrom
<1> QED
  BY <1>1, <1>2, <1>3, <1>4 DEF ClosedFrom

\* The list of the null pointer is empty.
LEMMA ReachNull ==
  ASSUME NEW nx \in [Packet -> Link]
  PROVE  ReachFrom(NULL, nx) = {}
<1>1. ClosedFrom({}, NULL, nx)
  BY DEF ClosedFrom
<1> QED
  BY <1>1, ReachLeast DEF Link

\* Pointers outside a list do not matter to it.
LEMMA ReachFrame ==
  ASSUME NEW h \in Link, NEW nx \in [Packet -> Link],
         NEW nx2 \in [Packet -> Link],
         \A p \in ReachFrom(h, nx) : nx2[p] = nx[p]
  PROVE  ReachFrom(h, nx2) = ReachFrom(h, nx)
<1> DEFINE R == ReachFrom(h, nx)
           R2 == ReachFrom(h, nx2)
<1>1. ClosedFrom(R, h, nx2)
  BY ReachLeast DEF ClosedFrom
<1>2. R2 \subseteq R
  BY <1>1, ReachLeast
<1>3. ClosedFrom(R2, h, nx)
  <2>1. ClosedFrom(R2, h, nx2)
    BY ReachLeast
  <2> QED
    BY <1>2, <2>1 DEF ClosedFrom
<1> QED
  BY <1>2, <1>3, ReachLeast

\* Every packet of a list but its head has a predecessor in it.
LEMMA HasPredecessor ==
  ASSUME NEW h \in Link, NEW nx \in [Packet -> Link],
         NEW p \in ReachFrom(h, nx), p # h
  PROVE  \E q \in ReachFrom(h, nx) : nx[q] = p
<1> DEFINE R == ReachFrom(h, nx)
<1> SUFFICES ASSUME \A q \in R : nx[q] # p
             PROVE  FALSE
  OBVIOUS
<1>1. ClosedFrom(R, h, nx)
  BY ReachLeast
<1>2. ClosedFrom(R \ {p}, h, nx)
  BY <1>1 DEF ClosedFrom
<1> QED
  BY <1>2, ReachLeast

\* A list stays a list when only pointers outside it change.
LEMMA ListFrame ==
  ASSUME NEW h \in Link, NEW t \in Link, NEW nx \in [Packet -> Link],
         NEW nx2 \in [Packet -> Link],
         IsList(h, t, nx),
         \A p \in ReachFrom(h, nx) : nx2[p] = nx[p]
  PROVE  /\ ReachFrom(h, nx2) = ReachFrom(h, nx)
         /\ IsList(h, t, nx2)
<1>1. ReachFrom(h, nx2) = ReachFrom(h, nx)
  BY ReachFrame
<1> QED
  BY <1>1 DEF IsList

\* The list of one packet.
LEMMA ListSingle ==
  ASSUME NEW p \in Packet, NEW nx \in [Packet -> Link], nx[p] = NULL
  PROVE  /\ ReachFrom(p, nx) = {p}
         /\ IsList(p, p, nx)
<1>1. ClosedFrom({p}, p, nx)
  BY DEF ClosedFrom
<1>2. p \in ReachFrom(p, nx)
  BY ReachLeast, NullAssumption DEF ClosedFrom, Link
<1>3. ReachFrom(p, nx) = {p}
  BY <1>1, <1>2, ReachLeast DEF Link
<1> QED
  BY <1>3, NullAssumption DEF IsList

\* No packet of a list is its own successor.
LEMMA NoSelfLoop ==
  ASSUME NEW h \in Link, NEW t \in Link, NEW nx \in [Packet -> Link],
         IsList(h, t, nx), NEW p \in ReachFrom(h, nx)
  PROVE  nx[p] # p
<1> DEFINE R == ReachFrom(h, nx)
<1> SUFFICES ASSUME nx[p] = p PROVE FALSE
  OBVIOUS
<1>1. ClosedFrom(R, h, nx) /\ p # h
  BY ReachLeast DEF IsList
<1>2. \A x \in R \ {p} : nx[x] # p
  BY DEF IsList
<1>3. ClosedFrom(R \ {p}, h, nx)
  BY <1>1, <1>2 DEF ClosedFrom
<1> QED
  BY <1>3, ReachLeast

\* Linking a packet behind one of the list adds it, and it is the new tail
\* exactly when it was put behind the old one.
LEMMA InsertAfter ==
  ASSUME NEW h \in Link, NEW t \in Link, NEW nx \in [Packet -> Link],
         IsList(h, t, nx), h # NULL,
         NEW q \in ReachFrom(h, nx), NEW p \in Packet \ ReachFrom(h, nx),
         NEW nx2 \in [Packet -> Link],
         nx2[p] = nx[q], nx2[q] = p, \A x \in Packet \ {p, q} : nx2[x] = nx[x]
  PROVE  /\ ReachFrom(h, nx2) = ReachFrom(h, nx) \cup {p}
         /\ IsList(h, IF nx[q] = NULL THEN p ELSE t, nx2)
<1> DEFINE R == ReachFrom(h, nx)
           R2 == ReachFrom(h, nx2)
<1>1. R \subseteq Packet /\ ClosedFrom(R, h, nx) /\ p # q /\ p # h /\ p # NULL
  BY ReachLeast, NullAssumption DEF ClosedFrom
<1>2. /\ nx2[p] = nx[q] /\ nx2[q] = p
      /\ \A x \in R \ {q} : nx2[x] = nx[x]
  BY <1>1
<1>3. R2 \subseteq R \cup {p}
  <2>1. ClosedFrom(R \cup {p}, h, nx2)
    BY <1>1, <1>2 DEF ClosedFrom
  <2> QED
    BY <2>1, ReachLeast
<1>4. R \subseteq R2
  <2>1. ClosedFrom(R2, h, nx2)
    BY ReachLeast
  <2>2. ASSUME NEW x \in R2 \cap R, nx[x] # NULL
        PROVE  nx[x] \in R2 \cap R
    <3>1. nx[x] \in R
      BY <1>1, <2>2 DEF ClosedFrom
    <3>2. CASE x = q
      <4>1. p \in R2
        BY <1>1, <1>2, <2>1, <3>2 DEF ClosedFrom
      <4> QED
        BY <4>1, <2>1, <1>2, <3>1, <3>2, <2>2 DEF ClosedFrom
    <3>3. CASE x # q
      BY <2>1, <2>2, <1>2, <3>1, <3>3 DEF ClosedFrom
    <3> QED
      BY <3>2, <3>3
  <2>3. ClosedFrom(R2 \cap R, h, nx)
    BY <1>1, <2>1, <2>2 DEF ClosedFrom
  <2> QED
    BY <2>3, ReachLeast
<1>5. R2 = R \cup {p}
  <2>1. ClosedFrom(R2, h, nx2)
    BY ReachLeast
  <2>2. p \in R2
    BY <1>1, <1>2, <1>4, <2>1 DEF ClosedFrom
  <2> QED
    BY <2>2, <1>3, <1>4
<1>6. \A x \in R : nx[x] # p
  BY <1>1, NullAssumption DEF ClosedFrom
<1>7. \A x, y \in R2 : nx2[x] = nx2[y] => x = y
  BY <1>1, <1>2, <1>5, <1>6 DEF IsList
<1>8. \A x \in R2 : nx2[x] # h
  BY <1>1, <1>2, <1>5 DEF IsList
<1>9. t \in R /\ nx[t] = NULL
  BY DEF IsList
<1>10. CASE nx[q] = NULL
  BY <1>10, <1>2, <1>5, <1>7, <1>8 DEF IsList
<1>11. CASE nx[q] # NULL
  BY <1>11, <1>2, <1>5, <1>7, <1>8, <1>9 DEF IsList
<1> QED
  BY <1>5, <1>10, <1>11

\* Linking a packet in front of a list adds it as the new head.
LEMMA PushFront ==
  ASSUME NEW h \in Link, NEW t \in Link, NEW nx \in [Packet -> Link],
         IsList(h, t, nx), NEW p \in Packet \ ReachFrom(h, nx),
         NEW nx2 \in [Packet -> Link],
         nx2[p] = h, \A x \in Packet \ {p} : nx2[x] = nx[x]
  PROVE  /\ ReachFrom(p, nx2) = ReachFrom(h, nx) \cup {p}
         /\ IsList(p, IF h = NULL THEN p ELSE t, nx2)
<1> DEFINE R == ReachFrom(h, nx)
           R2 == ReachFrom(p, nx2)
<1>1. R \subseteq Packet /\ ClosedFrom(R, h, nx) /\ p # h /\ p # NULL
  BY ReachLeast, NullAssumption DEF ClosedFrom
<1>2. nx2[p] = h /\ \A x \in R : nx2[x] = nx[x]
  BY <1>1
<1>3. ClosedFrom(R2, p, nx2)
  BY ReachLeast DEF Link
<1>4. R2 \subseteq R \cup {p}
  <2>1. ClosedFrom(R \cup {p}, p, nx2)
    BY <1>1, <1>2 DEF ClosedFrom
  <2> QED
    BY <2>1, ReachLeast DEF Link
<1>5. R \subseteq R2
  <2>1. ClosedFrom(R2 \cap R, h, nx)
    BY <1>1, <1>2, <1>3 DEF ClosedFrom
  <2> QED
    BY <2>1, ReachLeast
<1>6. R2 = R \cup {p}
  BY <1>1, <1>3, <1>4, <1>5 DEF ClosedFrom
<1>7. \A x \in R : nx[x] # p /\ nx[x] # h
  <2>1. \A x \in R : nx[x] # h
    BY DEF IsList
  <2>2. \A x \in R : nx[x] # NULL => nx[x] \in R
    BY <1>1 DEF ClosedFrom
  <2>3. p \notin R
    OBVIOUS
  <2> QED
    BY <1>1, <2>1, <2>2, <2>3
<1>8. \A x, y \in R2 : nx2[x] = nx2[y] => x = y
  BY <1>2, <1>6, <1>7 DEF IsList
<1>9. \A x \in R2 : nx2[x] # p
  BY <1>1, <1>2, <1>6, <1>7
<1>10. CASE h = NULL
  BY <1>10, <1>2, <1>6, <1>8, <1>9 DEF IsList
<1>11. CASE h # NULL
  BY <1>11, <1>2, <1>6, <1>8, <1>9 DEF IsList
<1> QED
  BY <1>6, <1>10, <1>11

\* Without its head, a list keeps its other packets and its tail.
LEMMA PopFront ==
  ASSUME NEW h \in Link, NEW t \in Link, NEW nx \in [Packet -> Link],
         IsList(h, t, nx), h # NULL, NEW nx2 \in [Packet -> Link],
         \A x \in ReachFrom(h, nx) \ {h} : nx2[x] = nx[x]
  PROVE  /\ ReachFrom(nx[h], nx2) = ReachFrom(h, nx) \ {h}
         /\ nx[h] # NULL => IsList(nx[h], t, nx2)
<1> DEFINE R == ReachFrom(h, nx)
           R2 == ReachFrom(nx[h], nx2)
<1>1. R \subseteq Packet /\ ClosedFrom(R, h, nx) /\ h \in R
  BY ReachLeast DEF ClosedFrom
<1>2. nx[h] \in Link /\ nx[h] # h
  BY <1>1 DEF IsList
<1>3. ClosedFrom(R2, nx[h], nx2)
  BY <1>2, ReachLeast
<1>4. R2 \subseteq R \ {h}
  <2>1. ClosedFrom(R \ {h}, nx[h], nx2)
    BY <1>1, <1>2 DEF ClosedFrom, IsList
  <2> QED
    BY <2>1, <1>2, ReachLeast
<1>5. R \subseteq R2 \cup {h}
  <2>1. ClosedFrom(R2 \cup {h}, h, nx)
    BY <1>3, <1>4 DEF ClosedFrom
  <2> QED
    BY <2>1, ReachLeast
<1>6. R2 = R \ {h}
  BY <1>4, <1>5
<1>7. \A x, y \in R2 : nx2[x] = nx2[y] => x = y
  BY <1>6 DEF IsList
<1>8. \A x \in R2 : nx2[x] # nx[h]
  BY <1>1, <1>6 DEF IsList
<1>9. nx[h] # NULL => t \in R2 /\ nx2[t] = NULL
  BY <1>1, <1>6 DEF IsList
<1> QED
  BY <1>6, <1>7, <1>8, <1>9 DEF IsList

\* Bypassing a packet behind the head removes it and nothing else; the packet
\* before it is the new tail if it was the last.
LEMMA UnlinkAfter ==
  ASSUME NEW h \in Link, NEW t \in Link, NEW nx \in [Packet -> Link],
         IsList(h, t, nx),
         NEW q \in ReachFrom(h, nx), NEW p \in ReachFrom(h, nx),
         nx[q] = p, NEW nx2 \in [Packet -> Link],
         nx2[q] = nx[p], \A x \in Packet \ {q} : nx2[x] = nx[x]
  PROVE  /\ ReachFrom(h, nx2) = ReachFrom(h, nx) \ {p}
         /\ IsList(h, IF nx[p] = NULL THEN q ELSE t, nx2)
<1> DEFINE R == ReachFrom(h, nx)
           R2 == ReachFrom(h, nx2)
<1>1. R \subseteq Packet /\ ClosedFrom(R, h, nx)
  BY ReachLeast
<1>2. p # h /\ nx[p] # p /\ p # q
  BY NoSelfLoop DEF IsList
<1>3. nx2[q] = nx[p] /\ \A x \in R \ {q} : nx2[x] = nx[x]
  BY <1>1
<1>4. \A x \in R \ {q} : nx[x] # p
  BY DEF IsList
<1>5. R2 \subseteq R \ {p}
  <2>1. ClosedFrom(R \ {p}, h, nx2)
    BY <1>1, <1>2, <1>3, <1>4 DEF ClosedFrom
  <2> QED
    BY <2>1, ReachLeast
<1>6. ClosedFrom(R2, h, nx2)
  BY ReachLeast
<1>7. q \in R2
  <2> SUFFICES ASSUME q \notin R2 PROVE FALSE
    OBVIOUS
  <2>1. ClosedFrom(R2, h, nx)
    BY <1>3, <1>5, <1>6 DEF ClosedFrom
  <2> QED
    BY <2>1, ReachLeast
<1>8. R \subseteq R2 \cup {p}
  <2>1. ASSUME NEW x \in R2 \cup {p}, nx[x] # NULL
        PROVE  nx[x] \in R2 \cup {p}
    <3>1. CASE x = p
      BY <3>1, <2>1, <1>3, <1>6, <1>7 DEF ClosedFrom
    <3>2. CASE x = q
      BY <3>2
    <3>3. CASE x \in R2 /\ x # q
      BY <3>3, <2>1, <1>3, <1>5, <1>6 DEF ClosedFrom
    <3> QED
      BY <3>1, <3>2, <3>3
  <2>2. ClosedFrom(R2 \cup {p}, h, nx)
    BY <1>6, <2>1 DEF ClosedFrom
  <2> QED
    BY <2>2, ReachLeast
<1>9. R2 = R \ {p}
  BY <1>5, <1>8
<1>10. \A x, y \in R2 : nx2[x] = nx2[y] => x = y
  BY <1>3, <1>9 DEF IsList
<1>11. \A x \in R2 : nx2[x] # h
  BY <1>3, <1>9 DEF IsList
<1>12. h # NULL
  <2> SUFFICES ASSUME h = NULL PROVE FALSE
    OBVIOUS
  <2> QED
    BY ReachNull
<1>13. t \in R /\ nx[t] = NULL
  BY <1>12 DEF IsList
<1>14. CASE nx[p] = NULL
  BY <1>14, <1>2, <1>3, <1>9, <1>10, <1>11 DEF IsList
<1>15. CASE nx[p] # NULL
  <2>1. t # p /\ t # q
    BY <1>13, <1>15, NullAssumption, <1>1
  <2> QED
    BY <2>1, <1>15, <1>3, <1>9, <1>10, <1>11, <1>13 DEF IsList
<1> QED
  BY <1>9, <1>14, <1>15

\* From a packet of a walk, the walk goes on within the first.
LEMMA ReachOnward ==
  ASSUME NEW h \in Link, NEW nx \in [Packet -> Link], NEW q \in ReachFrom(h, nx)
  PROVE  /\ ReachFrom(q, nx) \subseteq ReachFrom(h, nx)
         /\ ReachFrom(nx[q], nx) \subseteq ReachFrom(h, nx)
         /\ ReachFrom(q, nx) \subseteq {q} \cup ReachFrom(nx[q], nx)
<1>1. q \in Packet /\ q \in Link /\ nx[q] \in Link
  BY DEF ReachFrom, Link
<1>2. ClosedFrom(ReachFrom(h, nx), q, nx) /\ ClosedFrom(ReachFrom(h, nx), nx[q], nx)
  BY <1>1, ReachLeast DEF ClosedFrom
<1>3. ClosedFrom({q} \cup ReachFrom(nx[q], nx), q, nx)
  <2>1. ClosedFrom(ReachFrom(nx[q], nx), nx[q], nx)
    BY <1>1, ReachLeast
  <2> QED
    BY <2>1 DEF ClosedFrom
<1> QED
  BY <1>1, <1>2, <1>3, ReachLeast

\* A walk that skips packets meets no others.
LEMMA ReachSkips ==
  ASSUME NEW h \in Link, NEW nx \in [Packet -> Link], NEW nx2 \in [Packet -> Link],
         \A x \in Packet : nx2[x] = nx[x] \/ (nx[x] # NULL /\ nx2[x] = nx[nx[x]])
  PROVE  ReachFrom(h, nx2) \subseteq ReachFrom(h, nx)
<1>1. ClosedFrom(ReachFrom(h, nx), h, nx2)
  BY ReachLeast DEF ClosedFrom
<1> QED
  BY <1>1, ReachLeast

\* A list never comes back to a packet.
LEMMA NeverAhead ==
  ASSUME NEW h \in Link, NEW t \in Link, NEW nx \in [Packet -> Link],
         IsList(h, t, nx), NEW p \in ReachFrom(h, nx)
  PROVE  p \notin ReachFrom(nx[p], nx)
<1> DEFINE R == ReachFrom(h, nx)
           C == ReachFrom(nx[p], nx)
<1> SUFFICES ASSUME p \in C PROVE FALSE
  OBVIOUS
<1>1. p \in Packet /\ nx[p] \in Link /\ R \subseteq Packet /\ ClosedFrom(R, h, nx)
  BY ReachLeast
<1>2. C \subseteq R
  BY ReachOnward
<1>3. \A c \in C : \E b \in C : nx[b] = c
  <2> TAKE c \in C
  <2>1. CASE c = nx[p]
    BY <2>1
  <2>2. CASE c # nx[p]
    BY <2>2, <1>1, HasPredecessor
  <2> QED
    BY <2>1, <2>2
<1>4. h \notin C
  BY <1>2, <1>3 DEF IsList
<1>5. h # NULL => h \in R \ C
  BY <1>1, <1>4 DEF ClosedFrom
<1>6. ASSUME NEW q \in R \ C, nx[q] # NULL PROVE nx[q] \in R \ C
  <2>1. nx[q] \in R
    BY <1>1, <1>6 DEF ClosedFrom
  <2>2. ASSUME nx[q] \in C PROVE FALSE
    <3>1. PICK b \in C : nx[b] = nx[q]
      BY <1>3, <2>2
    <3> QED
      BY <3>1, <1>2 DEF IsList
  <2> QED
    BY <2>1, <2>2
<1>7. ClosedFrom(R \ C, h, nx)
  BY <1>5, <1>6 DEF ClosedFrom
<1> QED
  BY <1>7, ReachLeast

\* Unlinking p takes nothing but p from a walk that goes on from x, be x in the
\* list or left behind by it.
LEMMA ReachUnlinked ==
  ASSUME NEW p \in Packet, NEW nx \in [Packet -> Link], NEW nx2 \in [Packet -> Link],
         nx[p] # p,
         \A x \in Packet : nx2[x] = nx[x] \/ (nx[x] = p /\ nx2[x] = nx[p]),
         NEW x \in Packet
  PROVE  ReachFrom(nx[x], nx) \ {p} \subseteq ReachFrom(nx2[x], nx2)
<1> DEFINE R2 == ReachFrom(nx2[x], nx2)
           S == R2 \cup (IF nx[x] = p \/ \E q \in R2 : nx[q] = p THEN {p} ELSE {})
<1>1. R2 \subseteq Packet /\ ClosedFrom(R2, nx2[x], nx2)
  BY ReachLeast
<1>2. nx2[p] = nx[p]
  OBVIOUS
<1>3. nx[x] # NULL => nx[x] \in S
  BY <1>1 DEF ClosedFrom
<1>4. ASSUME NEW q \in R2, nx[q] # NULL PROVE nx[q] \in S
  BY <1>1, <1>4 DEF ClosedFrom
<1>5. ASSUME p \in S, nx[p] # NULL PROVE nx[p] \in S
  <2>1. CASE p \in R2
    BY <1>1, <1>2, <1>5, <2>1 DEF ClosedFrom
  <2>2. CASE nx[x] = p
    <3>1. nx2[x] # NULL => nx2[x] \in R2
      BY <1>1 DEF ClosedFrom
    <3>2. nx2[x] = p \/ nx2[x] = nx[p]
      BY <2>2
    <3> QED
      BY <1>5, <2>1, <3>1, <3>2, NullAssumption
  <2>3. CASE \E q \in R2 : nx[q] = p
    <3>1. PICK q \in R2 : nx[q] = p
      BY <2>3
    <3>2. nx2[q] # NULL => nx2[q] \in R2
      BY <1>1 DEF ClosedFrom
    <3>3. nx2[q] = p \/ nx2[q] = nx[p]
      BY <1>1, <3>1
    <3> QED
      BY <1>5, <2>1, <3>2, <3>3, NullAssumption
  <2> QED
    BY <1>5, <2>1, <2>2, <2>3
<1>6. ClosedFrom(S, nx[x], nx)
  BY <1>3, <1>4, <1>5 DEF ClosedFrom
<1>7. ReachFrom(nx[x], nx) \subseteq S
  BY <1>6, ReachLeast
<1> QED
  BY <1>7

\* A walk that does not come to the one pointer that changes stays as it was.
LEMMA ReachRelinked ==
  ASSUME NEW h \in Link, NEW p \in Packet, NEW nx \in [Packet -> Link],
         NEW nx2 \in [Packet -> Link], \A x \in Packet \ {p} : nx2[x] = nx[x],
         p \notin ReachFrom(h, nx2)
  PROVE  ReachFrom(h, nx) \subseteq ReachFrom(h, nx2)
<1>1. ReachFrom(h, nx2) \subseteq Packet /\ ClosedFrom(ReachFrom(h, nx2), h, nx2)
  BY ReachLeast
<1>2. ClosedFrom(ReachFrom(h, nx2), h, nx)
  BY <1>1 DEF ClosedFrom
<1> QED
  BY <1>2, ReachLeast
=============================================================================
