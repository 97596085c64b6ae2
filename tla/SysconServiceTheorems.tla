------------------------ MODULE SysconServiceTheorems ------------------------
(***************************************************************************)
(* SysconQueue implements SysconService, for any packets, lists and flags: *)
(* what each piece of pointer surgery does to the order of a list, and     *)
(* which step of the service each step of the driver is.                   *)
(***************************************************************************)
EXTENDS SysconSafetyTheorems, SysconRefinement, FiniteSetTheorems, SequenceTheorems

\* A set of numbers has a least one.
LEMMA LeastIn ==
  ASSUME NEW T \in SUBSET Nat, T # {}
  PROVE  \E m \in T : \A k \in T : m <= k
<1>1. PICK m \in T : \A k \in T : <<k, m>> \notin OpToRel(<, Nat)
  BY NatLessThanWellFounded, WFMin
<1>2. ASSUME NEW k \in T PROVE ~(k < m)
  <2>1. <<k, m>> \in Nat \X Nat /\ <<k, m>>[1] = k /\ <<k, m>>[2] = m
    OBVIOUS
  <2> QED
    BY <1>1, <2>1 DEF OpToRel
<1> QED
  BY <1>2

\* The packets of a sequence.
Elems(s) == {s[i] : i \in 1 .. Len(s)}

\* s is the walk from h along nx: it starts at h, follows nx to the null
\* pointer, and meets no packet twice.
IsWalk(s, h, nx) ==
  /\ s \in Seq(Packet)
  /\ h = IF Len(s) = 0 THEN NULL ELSE s[1]
  /\ \A i \in 1 .. Len(s) : nx[s[i]] = IF i = Len(s) THEN NULL ELSE s[i + 1]
  /\ \A i, j \in 1 .. Len(s) : s[i] = s[j] => i = j

\* A walk meets the packets of the list, all of them and no others.
LEMMA WalkReach ==
  ASSUME NEW h \in Link, NEW nx \in [Packet -> Link], NEW s, IsWalk(s, h, nx)
  PROVE  ReachFrom(h, nx) = Elems(s)
<1> DEFINE R == ReachFrom(h, nx)
<1>1. s \in Seq(Packet) /\ Len(s) \in Nat /\ \A i \in 1 .. Len(s) : s[i] \in Packet
  BY DEF IsWalk
<1>2. ClosedFrom(Elems(s), h, nx)
  <2>1. h # NULL => h \in Elems(s)
    BY <1>1 DEF IsWalk, Elems
  <2>2. ASSUME NEW i \in 1 .. Len(s), nx[s[i]] # NULL
        PROVE  nx[s[i]] \in Elems(s)
    BY <1>1, <2>2 DEF IsWalk, Elems
  <2> QED
    BY <2>1, <2>2 DEF ClosedFrom, Elems
<1>3. ClosedFrom(R, h, nx)
  BY ReachLeast
<1>4. ASSUME NEW j \in 1 .. Len(s), s[j] \notin R
      PROVE  FALSE
  <2> DEFINE T == {i \in 1 .. Len(s) : s[i] \notin R}
  <2>1. PICK i \in T : \A k \in T : i <= k
    <3>1. T \in SUBSET Nat /\ T # {}
      BY <1>1, <1>4
    <3> HIDE DEF T
    <3> QED
      BY <3>1, LeastIn
  <2>2. i \in 1 .. Len(s) /\ s[i] \notin R
    OBVIOUS
  <2>3. CASE i = 1
    BY <1>1, <1>3, <2>2, <2>3, NullAssumption DEF IsWalk, ClosedFrom
  <2>4. CASE i # 1
    <3>1. i - 1 \in 1 .. Len(s) /\ i - 1 # Len(s)
      BY <1>1, <2>2, <2>4
    <3>2. s[i - 1] \in R
      BY <2>1, <3>1, <2>2
    <3>3. nx[s[i - 1]] = s[i]
      BY <1>1, <2>2, <3>1 DEF IsWalk
    <3> QED
      BY <1>1, <1>3, <2>2, <3>2, <3>3, NullAssumption DEF ClosedFrom
  <2> QED
    BY <2>3, <2>4
<1> QED
  BY <1>2, <1>4, ReachLeast DEF Elems

\* The walk of the refinement mapping is the only one.
LEMMA WalkIs ==
  ASSUME NEW h \in Link, NEW nx \in [Packet -> Link], NEW s, IsWalk(s, h, nx)
  PROVE  WalkOf(h, nx) = s
<1> DEFINE S == ReachFrom(h, nx)
           n == Len(s)
           Follows(f) == \A i \in DOMAIN f : f[i] = IF i = 1 THEN h ELSE nx[f[i - 1]]
           c == CHOOSE f \in [1 .. n -> S] : Follows(f)
<1>1. s \in Seq(Packet) /\ n \in Nat /\ DOMAIN s = 1 .. n /\ S = Elems(s)
  BY WalkReach DEF IsWalk
<1>2. s \in [1 .. n -> S]
  <2>1. \A i \in 1 .. n : s[i] \in S
    BY <1>1 DEF Elems
  <2>2. s = [i \in 1 .. n |-> s[i]]
    BY <1>1
  <2> HIDE DEF n, S
  <2> QED
    BY <2>1, <2>2
<1>3. Cardinality(S) = n
  <2>1. s \in Bijection(1 .. n, S)
    BY <1>1, <1>2 DEF Bijection, Injection, IsInjective, Surjection, Elems, IsWalk
  <2> HIDE DEF n, S
  <2> QED
    BY <1>1, <2>1, FS_CountingElements DEF ExistsBijection
<1>4. WalkOf(h, nx) = c
  BY <1>3 DEF WalkOf
<1>5. Follows(s)
  <2> SUFFICES ASSUME NEW i \in 1 .. n
               PROVE  s[i] = IF i = 1 THEN h ELSE nx[s[i - 1]]
    BY <1>1
  <2>1. CASE i = 1
    <3>1. h = IF Len(s) = 0 THEN NULL ELSE s[1]
      BY DEF IsWalk
    <3>2. Len(s) # 0
      BY <1>1
    <3> QED
      BY <2>1, <3>1, <3>2
  <2>2. CASE i # 1
    <3>1. i - 1 \in 1 .. n /\ i - 1 # n /\ (i - 1) + 1 = i
      BY <1>1, <2>2
    <3> QED
      BY <2>2, <3>1 DEF IsWalk
  <2> QED
    BY <2>1, <2>2
<1>6. c \in [1 .. n -> S] /\ Follows(c)
  <2> HIDE DEF Follows, S, n
  <2> QED
    BY <1>2, <1>5
<1> HIDE DEF c, S
<1>7. ASSUME NEW j \in 1 .. n, c[j] # s[j]
      PROVE  FALSE
  <2> DEFINE T == {i \in 1 .. n : c[i] # s[i]}
  <2>1. PICK i \in T : \A k \in T : i <= k
    <3>1. T \in SUBSET Nat /\ T # {}
      BY <1>1, <1>7
    <3> HIDE DEF T
    <3> QED
      BY <3>1, LeastIn
  <2>2. i \in 1 .. n /\ c[i] # s[i] /\ i \in DOMAIN c /\ i \in DOMAIN s
    BY <1>1, <1>6
  <2>3. i = 1 \/ c[i - 1] = s[i - 1]
    <3>1. i # 1 => i - 1 \in 1 .. n /\ i - 1 < i
      BY <1>1, <2>2
    <3> QED
      BY <2>1, <2>2, <3>1
  <2>4. c[i] = (IF i = 1 THEN h ELSE nx[c[i - 1]]) /\ s[i] = IF i = 1 THEN h ELSE nx[s[i - 1]]
    BY <1>5, <1>6, <2>2
  <2> QED
    BY <2>2, <2>3, <2>4
<1>8. c = s
  BY <1>1, <1>2, <1>6, <1>7
<1> QED
  BY <1>4, <1>8

\* A sequence with p put in as its k-th element, and without its k-th element.
LEMMA InsertAtIs ==
  ASSUME NEW S, NEW s \in Seq(S), NEW k \in 1 .. Len(s) + 1, NEW p \in S
  PROVE  /\ Service!InsertAt(s, k, p) \in Seq(S)
         /\ Len(Service!InsertAt(s, k, p)) = Len(s) + 1
         /\ \A i \in 1 .. Len(s) + 1 : Service!InsertAt(s, k, p)[i] =
              IF i < k THEN s[i] ELSE IF i = k THEN p ELSE s[i - 1]
<1> DEFINE a == SubSeq(s, 1, k - 1)
           b == SubSeq(s, k, Len(s))
           c == a \o <<p>>
<1>0. Len(s) \in Nat /\ k \in Nat
  OBVIOUS
<1>1. a \in Seq(S) /\ Len(a) = k - 1 /\ \A i \in 1 .. k - 1 : a[i] = s[i]
  OBVIOUS
<1>2. b \in Seq(S) /\ Len(b) = Len(s) + 1 - k /\ \A i \in 1 .. Len(b) : b[i] = s[k + i - 1]
  OBVIOUS
<1> HIDE DEF a, b
<1>3. c \in Seq(S) /\ Len(c) = k /\ \A i \in 1 .. k : c[i] = IF i < k THEN s[i] ELSE p
  BY <1>1
<1> HIDE DEF c
<1>4. /\ c \o b \in Seq(S) /\ Len(c \o b) = Len(s) + 1
      /\ \A i \in 1 .. Len(s) + 1 : (c \o b)[i] = IF i <= k THEN c[i] ELSE b[i - k]
  BY <1>2, <1>3, ConcatProperties
<1>5. Service!InsertAt(s, k, p) = c \o b
  BY DEF Service!InsertAt, a, b, c
<1>6. ASSUME NEW i \in 1 .. Len(s) + 1
      PROVE  (c \o b)[i] = IF i < k THEN s[i] ELSE IF i = k THEN p ELSE s[i - 1]
  <2>1. CASE i <= k
    BY <1>3, <1>4, <2>1
  <2>2. CASE ~(i <= k)
    <3>1. i - k \in 1 .. Len(b) /\ k + (i - k) - 1 = i - 1
      BY <1>2, <2>2
    <3> QED
      BY <1>2, <1>4, <2>2, <3>1
  <2> QED
    BY <1>0, <2>1, <2>2
<1> QED
  BY <1>4, <1>5, <1>6

LEMMA RemoveAtIs ==
  ASSUME NEW S, NEW s \in Seq(S), NEW k \in 1 .. Len(s)
  PROVE  /\ Service!RemoveAt(s, k) \in Seq(S)
         /\ Len(Service!RemoveAt(s, k)) = Len(s) - 1
         /\ \A i \in 1 .. Len(s) - 1 : Service!RemoveAt(s, k)[i] =
              IF i < k THEN s[i] ELSE s[i + 1]
<1> DEFINE a == SubSeq(s, 1, k - 1)
           b == SubSeq(s, k + 1, Len(s))
<1>0. Len(s) \in Nat /\ k \in Nat
  OBVIOUS
<1>1. a \in Seq(S) /\ Len(a) = k - 1 /\ \A i \in 1 .. k - 1 : a[i] = s[i]
  OBVIOUS
<1>2. b \in Seq(S) /\ Len(b) = Len(s) - k /\ \A i \in 1 .. Len(b) : b[i] = s[k + i]
  OBVIOUS
<1> HIDE DEF a, b
<1>4. /\ a \o b \in Seq(S) /\ Len(a \o b) = Len(s) - 1
      /\ \A i \in 1 .. Len(s) - 1 : (a \o b)[i] = IF i < k THEN a[i] ELSE b[i - (k - 1)]
  <2>1. Len(a) + Len(b) = Len(s) - 1
    BY <1>0, <1>1, <1>2
  <2>2. /\ a \o b \in Seq(S) /\ Len(a \o b) = Len(a) + Len(b)
        /\ \A i \in 1 .. Len(a) + Len(b) :
             (a \o b)[i] = IF i <= Len(a) THEN a[i] ELSE b[i - Len(a)]
    BY <1>1, <1>2, ConcatProperties
  <2>3. \A i \in 1 .. Len(s) - 1 : i <= k - 1 <=> i < k
    BY <1>0
  <2> QED
    BY <1>1, <2>1, <2>2, <2>3
<1>5. Service!RemoveAt(s, k) = a \o b
  BY DEF Service!RemoveAt, a, b
<1>6. ASSUME NEW i \in 1 .. Len(s) - 1
      PROVE  (a \o b)[i] = IF i < k THEN s[i] ELSE s[i + 1]
  <2>1. CASE i < k
    BY <1>1, <1>4, <2>1
  <2>2. CASE ~(i < k)
    <3>1. i - (k - 1) \in 1 .. Len(b) /\ k + (i - (k - 1)) = i + 1
      BY <1>2, <2>2
    <3> QED
      BY <1>2, <1>4, <2>2, <3>1
  <2> QED
    BY <1>0, <2>1, <2>2
<1> QED
  BY <1>4, <1>5, <1>6

-----------------------------------------------------------------------------
(* Walks under pointer surgery.                                            *)

\* A walk stays a walk when only pointers outside it change.
LEMMA WalkFrame ==
  ASSUME NEW h, NEW nx, NEW nx2, NEW s, IsWalk(s, h, nx),
         \A x \in Elems(s) : nx2[x] = nx[x]
  PROVE  IsWalk(s, h, nx2)
<1>1. \A i \in 1 .. Len(s) : nx2[s[i]] = nx[s[i]]
  BY DEF Elems
<1> QED
  BY <1>1 DEF IsWalk

\* Linking p between two packets of a walk, or at one of its ends, puts it there.
LEMMA WalkInsert ==
  ASSUME NEW h, NEW nx, NEW s, IsWalk(s, h, nx),
         NEW k \in 1 .. Len(s) + 1, NEW p \in Packet \ Elems(s), NEW h2, NEW nx2,
         h2 = IF k = 1 THEN p ELSE h,
         nx2[p] = IF k = Len(s) + 1 THEN NULL ELSE s[k],
         \A i \in 1 .. Len(s) : nx2[s[i]] = IF i = k - 1 THEN p ELSE nx[s[i]]
  PROVE  IsWalk(Service!InsertAt(s, k, p), h2, nx2)
<1> DEFINE t == Service!InsertAt(s, k, p)
           n == Len(s)
<1>1. s \in Seq(Packet) /\ n \in Nat /\ k \in Nat /\ p \in Packet
  BY DEF IsWalk
<1>2. /\ t \in Seq(Packet) /\ Len(t) = n + 1
      /\ \A i \in 1 .. n + 1 : t[i] = IF i < k THEN s[i] ELSE IF i = k THEN p ELSE s[i - 1]
  BY <1>1, InsertAtIs
<1> HIDE DEF t
<1>3. h = IF n = 0 THEN NULL ELSE s[1]
  BY DEF IsWalk
<1>4. \A i \in 1 .. n : nx[s[i]] = IF i = n THEN NULL ELSE s[i + 1]
  BY DEF IsWalk
<1>5. \A i, j \in 1 .. n : s[i] = s[j] => i = j
  BY DEF IsWalk
<1>6. \A i \in 1 .. n : s[i] # p
  BY DEF Elems
<1> HIDE DEF n
<1>7. h2 = IF Len(t) = 0 THEN NULL ELSE t[1]
  <2>1. Len(t) # 0 /\ 1 \in 1 .. n + 1
    BY <1>1, <1>2
  <2>2. CASE k = 1
    BY <1>2, <2>1, <2>2
  <2>3. CASE k # 1
    <3>1. 1 < k /\ n # 0
      BY <1>1, <2>3 DEF n
    <3> QED
      BY <1>2, <1>3, <2>1, <2>3, <3>1
  <2> QED
    BY <2>2, <2>3
<1>8. ASSUME NEW i \in 1 .. n + 1
      PROVE  nx2[t[i]] = IF i = n + 1 THEN NULL ELSE t[i + 1]
  <2>0. i \in Nat /\ k <= n + 1
    BY <1>1 DEF n
  <2>1. CASE i < k - 1
    <3>1. i \in 1 .. n /\ i # n /\ i < k /\ i + 1 < k /\ i + 1 \in 1 .. n + 1 /\ i # k - 1
      BY <1>1, <2>0, <2>1
    <3>2. nx2[s[i]] = nx[s[i]]
      BY <3>1 DEF n
    <3>3. t[i] = s[i] /\ t[i + 1] = s[i + 1] /\ nx[s[i]] = s[i + 1]
      BY <1>2, <1>4, <3>1
    <3> QED
      BY <3>1, <3>2, <3>3, <2>0, <1>1
  <2>2. CASE i = k - 1
    <3>1. i \in 1 .. n /\ i < k /\ i + 1 = k /\ i + 1 \in 1 .. n + 1 /\ i # n + 1
      BY <1>1, <2>0, <2>2
    <3>2. nx2[s[i]] = p
      BY <3>1, <2>2 DEF n
    <3>3. t[i] = s[i] /\ t[i + 1] = p
      BY <1>1, <1>2, <3>1
    <3> QED
      BY <3>1, <3>2, <3>3
  <2>3. CASE i = k
    <3>1. t[i] = p
      BY <1>1, <1>2, <2>3
    <3>2. i # n + 1 => i + 1 \in 1 .. n + 1 /\ ~(i + 1 < k) /\ i + 1 # k /\ (i + 1) - 1 = i
      BY <1>1, <2>0, <2>3
    <3>3. i # n + 1 => t[i + 1] = s[i]
      BY <1>2, <3>2
    <3> QED
      BY <2>3, <3>1, <3>3 DEF n
  <2>4. CASE i > k
    <3>1. i - 1 \in 1 .. n /\ i - 1 # k - 1 /\ ~(i < k) /\ i # k
      BY <1>1, <2>0, <2>4
    <3>2. nx2[s[i - 1]] = nx[s[i - 1]]
      BY <3>1 DEF n
    <3>3. t[i] = s[i - 1]
      BY <1>2, <3>1
    <3>4. i # n + 1 => i + 1 \in 1 .. n + 1 /\ ~(i + 1 < k) /\ i + 1 # k /\ (i + 1) - 1 = i
      <4>1. i # n + 1 => i + 1 \in 1 .. n + 1
        BY <1>1, <2>0
      <4> QED
        BY <1>1, <2>0, <2>4, <4>1
    <3>5. i # n + 1 => t[i + 1] = s[i]
      BY <1>2, <3>4
    <3>6. nx[s[i - 1]] = IF i - 1 = n THEN NULL ELSE s[(i - 1) + 1]
      BY <1>4, <3>1
    <3>7. (i - 1 = n <=> i = n + 1) /\ (i - 1) + 1 = i
      BY <1>1, <2>0
    <3> QED
      BY <3>2, <3>3, <3>5, <3>6, <3>7
  <2> QED
    BY <1>1, <2>0, <2>1, <2>2, <2>3, <2>4
<1>9. ASSUME NEW i \in 1 .. n + 1, NEW j \in 1 .. n + 1, t[i] = t[j]
      PROVE  i = j
  <2> DEFINE Old(x) == IF x < k THEN x ELSE x - 1
  <2>1. ASSUME NEW x \in 1 .. n + 1, x # k
        PROVE  Old(x) \in 1 .. n /\ t[x] = s[Old(x)]
    BY <1>1, <1>2, <2>1 DEF n
  <2>2. (i = k <=> t[i] = p) /\ (j = k <=> t[j] = p)
    BY <1>2, <1>6, <2>1
  <2>3. CASE i # k
    <3>1. Old(i) = Old(j)
      BY <1>5, <1>9, <2>1, <2>2, <2>3
    <3> QED
      BY <1>1, <1>9, <2>2, <2>3, <3>1
  <2> QED
    BY <1>9, <2>2, <2>3
<1>10. IsWalk(t, h2, nx2)
  BY <1>2, <1>7, <1>8, <1>9 DEF IsWalk
<1> QED
  BY <1>10 DEF t

\* In particular, in front of a walk.
LEMMA WalkPush ==
  ASSUME NEW h, NEW nx, NEW s, IsWalk(s, h, nx),
         NEW p \in Packet \ Elems(s), NEW nx2,
         nx2[p] = h, \A x \in Elems(s) : nx2[x] = nx[x]
  PROVE  IsWalk(Service!InsertAt(s, 1, p), p, nx2)
<1>1. Len(s) \in Nat /\ h = IF Len(s) = 0 THEN NULL ELSE s[1]
  BY DEF IsWalk
<1>2. 1 \in 1 .. Len(s) + 1
  BY <1>1
<1>3. nx2[p] = IF 1 = Len(s) + 1 THEN NULL ELSE s[1]
  BY <1>1
<1>4. \A i \in 1 .. Len(s) : nx2[s[i]] = IF i = 1 - 1 THEN p ELSE nx[s[i]]
  BY <1>1 DEF Elems
<1>5. p = IF 1 = 1 THEN p ELSE h
  OBVIOUS
<1> QED
  BY <1>2, <1>3, <1>4, <1>5, WalkInsert

\* Bypassing the k-th packet of a walk takes it out, and no other.
LEMMA WalkRemove ==
  ASSUME NEW h, NEW nx, NEW s, IsWalk(s, h, nx),
         NEW k \in 1 .. Len(s), NEW h2, NEW nx2,
         h2 = IF k = 1 THEN nx[s[k]] ELSE h,
         \A i \in 1 .. Len(s) :
           i # k => nx2[s[i]] = IF i = k - 1 THEN nx[s[k]] ELSE nx[s[i]]
  PROVE  IsWalk(Service!RemoveAt(s, k), h2, nx2)
<1> DEFINE t == Service!RemoveAt(s, k)
           n == Len(s)
<1>1. s \in Seq(Packet) /\ n \in Nat /\ k \in Nat
  BY DEF IsWalk
<1>2. /\ t \in Seq(Packet) /\ Len(t) = n - 1
      /\ \A i \in 1 .. n - 1 : t[i] = IF i < k THEN s[i] ELSE s[i + 1]
  BY <1>1, RemoveAtIs
<1> HIDE DEF t
<1>3. h = IF n = 0 THEN NULL ELSE s[1]
  BY DEF IsWalk
<1>4. \A i \in 1 .. n : nx[s[i]] = IF i = n THEN NULL ELSE s[i + 1]
  BY DEF IsWalk
<1>5. \A i, j \in 1 .. n : s[i] = s[j] => i = j
  BY DEF IsWalk
<1>6. k \in 1 .. n
  OBVIOUS
<1>7. \A i \in 1 .. n : i # k => nx2[s[i]] = IF i = k - 1 THEN nx[s[k]] ELSE nx[s[i]]
  OBVIOUS
<1> HIDE DEF n
<1>8. h2 = IF Len(t) = 0 THEN NULL ELSE t[1]
  <2>1. CASE n = 1
    BY <1>1, <1>2, <1>4, <1>6, <2>1
  <2>2. CASE n # 1 /\ k = 1
    <3>1. 1 \in 1 .. n - 1 /\ ~(1 < k) /\ n - 1 # 0 /\ k # n
      BY <1>1, <1>6, <2>2
    <3> QED
      BY <1>2, <1>4, <1>6, <2>2, <3>1
  <2>3. CASE n # 1 /\ k # 1
    <3>1. 1 \in 1 .. n - 1 /\ 1 < k /\ n - 1 # 0 /\ n # 0
      BY <1>1, <1>6, <2>3
    <3> QED
      BY <1>2, <1>3, <2>3, <3>1
  <2> QED
    BY <2>1, <2>2, <2>3
<1>9. ASSUME NEW i \in 1 .. n - 1
      PROVE  nx2[t[i]] = IF i = n - 1 THEN NULL ELSE t[i + 1]
  <2>0. i \in Nat /\ k <= n
    BY <1>1, <1>6
  <2>1. CASE i < k - 1
    <3>1. /\ i \in 1 .. n /\ i # n /\ i # n - 1 /\ i < k /\ i + 1 < k /\ i + 1 \in 1 .. n - 1
          /\ i # k - 1 /\ i # k
      BY <1>1, <2>0, <2>1
    <3>2. nx2[s[i]] = s[i + 1]
      BY <1>4, <1>7, <3>1
    <3> QED
      BY <1>2, <3>1, <3>2
  <2>2. CASE i = k - 1
    <3>1. i \in 1 .. n /\ i < k /\ i # k
      BY <1>1, <2>0, <2>2
    <3>2. nx2[t[i]] = nx[s[k]]
      BY <1>2, <1>7, <3>1, <2>2
    <3>3. i # n - 1 => i + 1 \in 1 .. n - 1 /\ ~(i + 1 < k) /\ (i + 1) + 1 = k + 1
      BY <1>1, <2>0, <2>2
    <3>4. i # n - 1 => t[i + 1] = s[k + 1]
      BY <1>2, <3>3
    <3>5. nx[s[k]] = IF k = n THEN NULL ELSE s[k + 1]
      BY <1>4, <1>6
    <3>6. k = n <=> i = n - 1
      BY <1>1, <2>0, <2>2
    <3> QED
      BY <3>2, <3>4, <3>5, <3>6
  <2>3. CASE i >= k
    <3>1. i + 1 \in 1 .. n /\ i + 1 # k - 1 /\ i + 1 # k /\ ~(i < k)
      BY <1>1, <2>0, <2>3
    <3>2. t[i] = s[i + 1] /\ nx2[s[i + 1]] = nx[s[i + 1]]
      BY <1>2, <1>7, <3>1
    <3>3. i # n - 1 => i + 1 \in 1 .. n - 1 /\ ~(i + 1 < k)
      BY <1>1, <2>0, <2>3
    <3>4. i # n - 1 => t[i + 1] = s[(i + 1) + 1]
      BY <1>2, <3>3
    <3>5. nx[s[i + 1]] = IF i + 1 = n THEN NULL ELSE s[(i + 1) + 1]
      BY <1>4, <3>1
    <3>6. i + 1 = n <=> i = n - 1
      BY <1>1, <2>0
    <3> QED
      BY <3>2, <3>4, <3>5, <3>6
  <2> QED
    BY <1>1, <2>0, <2>1, <2>2, <2>3
<1>10. ASSUME NEW i \in 1 .. n - 1, NEW j \in 1 .. n - 1, t[i] = t[j]
       PROVE  i = j
  <2> DEFINE Old(x) == IF x < k THEN x ELSE x + 1
  <2>1. ASSUME NEW x \in 1 .. n - 1
        PROVE  Old(x) \in 1 .. n /\ t[x] = s[Old(x)]
    BY <1>1, <1>2
  <2>2. Old(i) = Old(j)
    BY <1>5, <1>10, <2>1
  <2> QED
    BY <1>1, <2>2
<1>11. IsWalk(t, h2, nx2)
  BY <1>2, <1>8, <1>9, <1>10 DEF IsWalk
<1> QED
  BY <1>11 DEF t

\* The packet that ends a walk's list, and the one before another, by their
\* pointers.
LEMMA WalkEnd ==
  ASSUME NEW h, NEW nx, NEW s, IsWalk(s, h, nx), NEW x \in Elems(s)
  PROVE  /\ nx[x] = NULL => x = s[Len(s)] /\ Len(s) # 0
         /\ \A i \in 1 .. Len(s) : nx[x] = s[i] => i # 1 /\ x = s[i - 1]
         /\ x = h <=> x = s[1]
<1>1. PICK j \in 1 .. Len(s) : x = s[j]
  BY DEF Elems
<1>2. s \in Seq(Packet) /\ Len(s) \in Nat /\ s[j] \in Packet
  BY DEF IsWalk
<1>3. nx[x] = IF j = Len(s) THEN NULL ELSE s[j + 1]
  BY <1>1 DEF IsWalk
<1>4. \A i, k \in 1 .. Len(s) : s[i] = s[k] => i = k
  BY DEF IsWalk
<1>5. h = s[1]
  <2>1. h = IF Len(s) = 0 THEN NULL ELSE s[1]
    BY DEF IsWalk
  <2> QED
    BY <1>2, <2>1
<1>6. j # Len(s) => j + 1 \in 1 .. Len(s) /\ s[j + 1] \in Packet /\ (j + 1) - 1 = j /\ j + 1 # 1
  BY <1>2
<1>7. nx[x] = NULL => j = Len(s)
  BY <1>3, <1>6, NullAssumption
<1>8. ASSUME NEW i \in 1 .. Len(s), nx[x] = s[i]
      PROVE  i # 1 /\ x = s[i - 1]
  <2>1. s[i] \in Packet
    BY <1>2
  <2>2. j # Len(s) /\ i = j + 1
    BY <1>3, <1>4, <1>6, <1>8, <2>1, NullAssumption
  <2> QED
    BY <1>1, <1>6, <2>2
<1> QED
  BY <1>1, <1>2, <1>5, <1>7, <1>8

\* The sequences of the actions that take and put a first packet.
LEMMA TailIs ==
  ASSUME NEW s \in Seq(Packet), Len(s) # 0
  PROVE  Tail(s) = Service!RemoveAt(s, 1)
<1>1. SubSeq(s, 1, 1 - 1) = <<>>
  BY SubSeqEmpty
<1>2. Tail(s) = SubSeq(s, 1 + 1, Len(s))
  BY TailIsSubSeq
<1>3. Tail(s) \in Seq(Packet)
  BY HeadTailProperties
<1> QED
  BY <1>1, <1>2, <1>3, ConcatEmptySeq DEF Service!RemoveAt

LEMMA FrontIs ==
  ASSUME NEW s \in Seq(Packet), NEW p \in Packet
  PROVE  <<p>> \o s = Service!InsertAt(s, 1, p)
<1>1. SubSeq(s, 1, 1 - 1) = <<>>
  BY SubSeqEmpty
<1>2. SubSeq(s, 1, Len(s)) = s
  BY SubSeqFull
<1>3. <<>> \o <<p>> = <<p>>
  BY ConcatEmptySeq
<1> QED
  BY <1>1, <1>2, <1>3 DEF Service!InsertAt

-----------------------------------------------------------------------------
(* The queues under the steps of the driver.                               *)

\* What each step maintains: the mapped queues are the walks of the lists.
WalkInv == \A l \in Lists : IsWalk(Walk(l), head[l], next)

\* The queue of a list holds its packets, and starts with its head.
LEMMA QueueFacts ==
  ASSUME TypeOK, WalkInv, NEW l \in Lists
  PROVE  /\ Queue[l] = Walk(l) /\ IsWalk(Walk(l), head[l], next)
         /\ Queue[l] \in Seq(Packet)
         /\ Service!Range(Queue[l]) = Reach(l) /\ Elems(Queue[l]) = Reach(l)
         /\ head[l] = IF Len(Queue[l]) = 0 THEN NULL ELSE Queue[l][1]
         /\ Queue[l] = <<>> <=> Len(Queue[l]) = 0
         /\ head[l] = NULL <=> Len(Queue[l]) = 0
<1>1. Queue[l] = Walk(l)
  BY DEF Queue
<1>2. IsWalk(Walk(l), head[l], next)
  BY DEF WalkInv
<1> DEFINE s == Walk(l)
<1> HIDE DEF s
<1>3. IsWalk(s, head[l], next)
  BY <1>2 DEF s
<1>4. s \in Seq(Packet) /\ head[l] = IF Len(s) = 0 THEN NULL ELSE s[1]
  BY <1>3 DEF IsWalk
<1>5. Elems(s) = Reach(l)
  <2>1. head[l] \in Link /\ next \in [Packet -> Link]
    BY ListTypes
  <2> QED
    BY <1>3, <2>1, WalkReach DEF Reach
<1>6. Service!Range(s) = Elems(s)
  BY <1>4 DEF Service!Range, Elems
<1>7. s = <<>> <=> Len(s) = 0
  BY <1>4, EmptySeq
<1>8. head[l] = NULL <=> Len(s) = 0
  <2>1. Len(s) # 0 => s[1] \in Packet
    BY <1>4, ElementOfSeq, EmptySeq, <1>7
  <2> QED
    BY <1>4, <2>1, NullAssumption
<1> QED
  BY <1>1, <1>2, <1>4, <1>5, <1>6, <1>7, <1>8 DEF s

\* A step that leaves all pointers alone leaves the queues alone.
LEMMA QueuesKept ==
  ASSUME WalkInv, UNCHANGED queueVars
  PROVE  WalkInv' /\ Queue' = Queue
<1>1. \A l \in Lists : Walk(l)' = Walk(l) /\ head'[l] = head[l] /\ next' = next
  BY DEF queueVars, Walk
<1>2. Queue' = Queue
  BY <1>1 DEF Queue
<1>3. WalkInv'
  BY <1>1 DEF WalkInv
<1> QED
  BY <1>2, <1>3

\* A step that leaves the pointers of all lists but one alone: its queue is
\* whatever the walk of the new pointers is.
LEMMA QueueStep ==
  ASSUME TypeOK, TypeOK', WalkInv, NEW k \in Lists, NEW t,
         IsWalk(t, head'[k], next'),
         \A l \in Lists \ {k} :
           head'[l] = head[l] /\ \A x \in Reach(l) : next'[x] = next[x]
  PROVE  WalkInv' /\ Queue' = [Queue EXCEPT ![k] = t]
<1>0. \A l \in Lists : head'[l] \in Link /\ next' \in [Packet -> Link]
  BY DEF TypeOK
<1>1. ASSUME NEW l \in Lists \ {k}
      PROVE  Walk(l)' = Walk(l) /\ IsWalk(Walk(l)', head'[l], next')
  <2> DEFINE s == Walk(l)
  <2>1. IsWalk(s, head[l], next) /\ Elems(s) = Reach(l)
    BY QueueFacts
  <2> HIDE DEF s
  <2>2. IsWalk(s, head'[l], next')
    BY <2>1, WalkFrame
  <2>3. WalkOf(head'[l], next') = s
    BY <1>0, <2>2, WalkIs
  <2> QED
    BY <2>2, <2>3 DEF s, Walk
<1>2. Walk(k)' = t
  BY <1>0, WalkIs DEF Walk
<1>3. WalkInv'
  BY <1>1, <1>2 DEF WalkInv
<1>4. Queue' = [Queue EXCEPT ![k] = t]
  BY <1>1, <1>2 DEF Queue
<1> QED
  BY <1>3, <1>4

\* The packet on the bus is the first of its queue.
LEMMA BusIsFirst ==
  ASSUME TypeOK', OneInFlight', WalkInv'
  PROVE  curPacket' \in Service!Firsts(Queue') \cup {NULL}
<1> SUFFICES ASSUME curPacket' # NULL
             PROVE  curPacket' \in Service!Firsts(Queue')
  OBVIOUS
<1>1. PICK l \in Lists : l = ListOf[curPacket']
  BY CommandAssumption DEF TypeOK, Link
<1>2. head'[l] = curPacket' /\ curPacket' \in Packet
  BY <1>1 DEF TypeOK, Link, OneInFlight
<1>3. Queue'[l] = Walk(l)'
  BY DEF Queue
<1>4. IsWalk(Queue'[l], head'[l], next')
  BY <1>3 DEF WalkInv
<1>5. Queue'[l] \in Seq(Packet) /\ Len(Queue'[l]) # 0 /\ Queue'[l][1] = curPacket'
  BY <1>2, <1>4, NullAssumption DEF IsWalk
<1>6. Queue'[l] # <<>> /\ Head(Queue'[l]) = curPacket' /\ l \in Service!Lists
  BY <1>5, EmptySeq DEF Service!Lists, Lists
<1> QED
  BY <1>6 DEF Service!Firsts

\* A packet of no list put in front of its own, by a callback or as GET_STATUS2.
LEMMA PushServed ==
  ASSUME TypeOK, TypeOK', WellLinked, WalkInv, NEW p \in Packet,
         \A l \in Lists : p \notin Reach(l),
         head' = [head EXCEPT ![ListOf[p]] = p],
         next' = [next EXCEPT ![p] = head[ListOf[p]]]
  PROVE  /\ WalkInv'
         /\ p \notin Service!Range(Queue[ListOf[p]])
         /\ Queue' = [Queue EXCEPT ![ListOf[p]] = Service!InsertAt(@, 1, p)]
<1>1. PICK k \in Lists : k = ListOf[p]
  BY CommandAssumption
<1> DEFINE s == Queue[k]
<1>2. /\ IsWalk(s, head[k], next) /\ Elems(s) = Reach(k) /\ Service!Range(s) = Reach(k)
      /\ s \in Seq(Packet)
      /\ head[k] = IF Len(s) = 0 THEN NULL ELSE s[1]
  BY QueueFacts
<1> HIDE DEF s
<1>3. /\ head'[k] = p /\ next'[p] = head[k]
      /\ \A x \in Packet \ {p} : next'[x] = next[x]
      /\ \A l \in Lists \ {k} : head'[l] = head[l]
  BY <1>1 DEF TypeOK
<1>4. \A l \in Lists : \A x \in Reach(l) : next'[x] = next[x]
  BY <1>3, ListTypes
<1>5. IsWalk(Service!InsertAt(s, 1, p), head'[k], next')
  <2>1. p \in Packet \ Elems(s) /\ \A x \in Elems(s) : next'[x] = next[x]
    BY <1>2, <1>4
  <2>2. IsWalk(s, head[k], next) /\ next'[p] = head[k]
    BY <1>2, <1>3
  <2>3. IsWalk(Service!InsertAt(s, 1, p), p, next')
    BY <2>1, <2>2, WalkPush
  <2> QED
    BY <1>3, <2>3
<1>6. WalkInv' /\ Queue' = [Queue EXCEPT ![k] = Service!InsertAt(s, 1, p)]
  BY <1>3, <1>4, <1>5, QueueStep
<1> QED
  BY <1>1, <1>2, <1>6 DEF s

\* A packet taken from the front of its list: at its end, or when cancelled.
LEMMA PopServed ==
  ASSUME TypeOK, TypeOK', WellLinked, WalkInv, NEW p \in Packet, head[ListOf[p]] = p,
         head' = [head EXCEPT ![ListOf[p]] = next[p]],
         next' = [next EXCEPT ![p] = NULL] \/ next' = next
  PROVE  /\ WalkInv'
         /\ Queue' = [Queue EXCEPT ![ListOf[p]] = Service!RemoveAt(@, 1)]
         /\ Queue' = [Queue EXCEPT ![ListOf[p]] = Tail(@)]
         /\ 1 \in DOMAIN Queue[ListOf[p]] /\ Queue[ListOf[p]][1] = p
<1>1. PICK k \in Lists : k = ListOf[p]
  BY CommandAssumption
<1> DEFINE s == Queue[k]
<1>2. /\ IsWalk(s, head[k], next) /\ Elems(s) = Reach(k) /\ s \in Seq(Packet)
      /\ head[k] = IF Len(s) = 0 THEN NULL ELSE s[1]
  BY QueueFacts
<1> HIDE DEF s
<1>3. /\ head'[k] = next[p]
      /\ \A x \in Packet \ {p} : next'[x] = next[x]
      /\ \A l \in Lists \ {k} : head'[l] = head[l]
  BY <1>1 DEF TypeOK
<1>4. \A l \in Lists \ {k} : \A x \in Reach(l) : next'[x] = next[x]
  BY <1>1, <1>3, OwnListOnly, ListTypes
<1>5. Len(s) # 0 /\ s[1] = p /\ 1 \in 1 .. Len(s) /\ DOMAIN s = 1 .. Len(s)
  BY <1>1, <1>2, NullAssumption
<1>6. IsWalk(Service!RemoveAt(s, 1), head'[k], next')
  <2>1. \A i \in 1 .. Len(s) : i # 1 => s[i] # s[1] /\ s[i] \in Packet /\ i # 1 - 1
    <3>1. \A i, m \in 1 .. Len(s) : s[i] = s[m] => i = m
      BY <1>2 DEF IsWalk
    <3>2. \A i \in 1 .. Len(s) : s[i] \in Packet /\ i # 1 - 1
      BY <1>2
    <3> QED
      BY <1>5, <3>1, <3>2
  <2>2. \A i \in 1 .. Len(s) :
          i # 1 => next'[s[i]] = IF i = 1 - 1 THEN next[s[1]] ELSE next[s[i]]
    BY <1>3, <1>5, <2>1
  <2> QED
    BY <1>2, <1>3, <1>5, <2>2, WalkRemove
<1>7. WalkInv' /\ Queue' = [Queue EXCEPT ![k] = Service!RemoveAt(s, 1)]
  BY <1>3, <1>4, <1>6, QueueStep
<1>8. Tail(s) = Service!RemoveAt(s, 1)
  BY <1>2, <1>5, TailIs
<1> QED
  BY <1>1, <1>5, <1>7, <1>8 DEF s

\* A submission adds its packet where the service does -- or, urgent, links it
\* nowhere and may still start what waits on an idle bus.
LEMMA SubmissionServed ==
  ASSUME IInv, TypeOK', OneInFlight', WalkInv, NEW p \in Client,
         pc[p] \in {"idle", "checked"}, Enqueue(p),
         pollingMode => QueueEmpty /\ curPacket = NULL
  PROVE  /\ WalkInv'
         /\ Service!Submit(p) \/ Service!Select \/ UNCHANGED <<Queue, curPacket>>
<1>1. PICK k \in Lists : k = ListOf[p]
  BY CommandAssumption DEF Client
<1> DEFINE s == Queue[k]
           h == head[k]
           q == tail[k]
           j == Service!Position(p, s)
           t == Service!InsertAt(s, j, p)
<1>2. TypeOK /\ WellLinked /\ p \in Packet
  BY DEF IInv, Client
<1>3. \A l \in Lists : p \notin Reach(l)
  BY EnqueueEffect
<1>4. /\ IsWalk(s, h, next) /\ Elems(s) = Reach(k) /\ Service!Range(s) = Reach(k)
      /\ s \in Seq(Packet)
      /\ h = IF Len(s) = 0 THEN NULL ELSE s[1]
      /\ h = NULL <=> Len(s) = 0
      /\ s = <<>> <=> Len(s) = 0
  BY <1>2, QueueFacts
<1> HIDE DEF s
<1>5. \A l \in Lists \ {k} : head'[l] = head[l] /\ \A x \in Reach(l) : next'[x] = next[x]
  <2>1. \A l \in Lists \ {ListOf[p]} :
          head'[l] = head[l] /\ \A x \in Reach(l) : next'[x] = next[x]
    BY <1>2, <1>3, EnqueueLists
  <2> QED
    BY <1>1, <2>1
<1>6. head' = EnqueuedHead(p) /\ next' = EnqueuedNext(p)
  BY DEF Enqueue
<1>7. WalkInv' => Service!BusNext
  BY BusIsFirst, EnqueueEffect DEF Service!BusNext
<1>8. CASE EnqueueLinks(p)
  <2>1. IsWalk(t, head'[k], next')
    <3>1. CASE h = NULL
      <4>1. j = 1
        BY <1>4, <3>1 DEF Service!Position
      <4>2. head'[k] = p /\ next'[p] = NULL
        BY <1>1, <1>2, <1>6, <3>1 DEF TypeOK, EnqueuedHead, EnqueuedNext, InsertLast,
                                     InsertSecond
      <4>3. p \in Packet \ Elems(s) /\ \A x \in Elems(s) : next'[x] = next[x]
        BY <1>2, <1>3, <1>4, <3>1 DEF Elems
      <4>4. IsWalk(Service!InsertAt(s, 1, p), head'[k], next')
        BY <1>4, <3>1, <4>2, <4>3, WalkPush
      <4> QED
        BY <4>1, <4>4
    <3>2. CASE InsertLast(p)
      <4>1. h # NULL /\ p \notin Urgent /\ Len(s) # 0 /\ Len(s) \in Nat
        BY <1>1, <1>4, <3>2 DEF InsertLast
      <4>2. j = Len(s) + 1
        BY <4>1 DEF Service!Position
      <4>3. q \in Elems(s) /\ next[q] = NULL
        BY <1>2, <1>4, <4>1 DEF WellLinked, IsList, Reach
      <4>4. q = s[Len(s)]
        BY <1>4, <4>3, WalkEnd
      <4>5. next' = [next EXCEPT ![p] = NULL, ![q] = p] /\ head' = head
        BY <1>1, <1>6, <3>2, <4>1 DEF EnqueuedHead, EnqueuedNext, InsertSecond
      <4>6. q \in Packet /\ p # q /\ p \notin Elems(s)
        BY <1>2, <1>3, <1>4, <4>3, ListTypes
      <4>7. next'[p] = NULL /\ next'[q] = p /\ \A x \in Packet \ {p, q} : next'[x] = next[x]
        BY <1>2, <4>5, <4>6 DEF TypeOK
      <4>8. ASSUME NEW i \in 1 .. Len(s)
            PROVE  next'[s[i]] = IF i = (Len(s) + 1) - 1 THEN p ELSE next[s[i]]
        <5>1. s[i] \in Elems(s) /\ s[i] \in Packet /\ s[i] # p
          BY <1>3, <1>4 DEF Elems
        <5>2. Len(s) \in 1 .. Len(s) /\ (Len(s) + 1) - 1 = Len(s)
          BY <4>1
        <5>3. i # Len(s) => s[i] # q
          BY <1>4, <4>4, <5>2 DEF IsWalk
        <5> QED
          BY <4>4, <4>7, <5>1, <5>2, <5>3
      <4>9. Len(s) + 1 \in 1 .. Len(s) + 1 /\ Len(s) + 1 # 1
        BY <4>1
      <4>10. head'[k] = IF Len(s) + 1 = 1 THEN p ELSE h
        BY <4>5, <4>9
      <4>11. next'[p] = IF Len(s) + 1 = Len(s) + 1 THEN NULL ELSE s[Len(s) + 1]
        BY <4>7
      <4>12. IsWalk(Service!InsertAt(s, Len(s) + 1, p), head'[k], next')
        BY <1>2, <1>4, <4>6, <4>8, <4>9, <4>10, <4>11, WalkInsert
      <4> QED
        BY <4>2, <4>12
    <3>3. CASE InsertSecond(p)
      <4>1. h # NULL /\ p \in Urgent /\ Len(s) # 0 /\ Len(s) \in Nat /\ h = s[1] /\ s # <<>>
        BY <1>1, <1>4, <3>3 DEF InsertSecond
      <4>2. j = 2
        BY <4>1 DEF Service!Position
      <4>3. h \in Elems(s) /\ 1 \in 1 .. Len(s)
        BY <4>1 DEF Elems
      <4>4. next' = [next EXCEPT ![p] = next[h], ![h] = p] /\ head' = head
        BY <1>1, <1>6, <3>3, <4>1 DEF EnqueuedHead, EnqueuedNext, InsertLast
      <4>5. h \in Packet /\ p # h /\ p \notin Elems(s)
        BY <1>2, <1>3, <1>4, <4>3, ListTypes
      <4>6. next'[p] = next[h] /\ next'[h] = p /\ \A x \in Packet \ {p, h} : next'[x] = next[x]
        BY <1>2, <4>4, <4>5 DEF TypeOK
      <4>7. ASSUME NEW i \in 1 .. Len(s)
            PROVE  next'[s[i]] = IF i = 2 - 1 THEN p ELSE next[s[i]]
        <5>1. s[i] \in Elems(s) /\ s[i] \in Packet /\ s[i] # p
          BY <1>3, <1>4 DEF Elems
        <5>2. i # 1 => s[i] # h
          BY <1>4, <4>1, <4>3 DEF IsWalk
        <5> QED
          BY <4>1, <4>6, <5>1, <5>2
      <4>8. 2 \in 1 .. Len(s) + 1
        BY <4>1
      <4>9. next'[p] = IF 2 = Len(s) + 1 THEN NULL ELSE s[2]
        <5>1. next[s[1]] = IF 1 = Len(s) THEN NULL ELSE s[1 + 1]
          BY <1>4, <4>3 DEF IsWalk
        <5>2. \A n \in Nat : 1 = n <=> 2 = n + 1
          OBVIOUS
        <5>3. next'[p] = next[s[1]]
          BY <4>1, <4>6
        <5> QED
          BY <4>1, <5>1, <5>2, <5>3
      <4>10. head'[k] = IF 2 = 1 THEN p ELSE h
        BY <4>4
      <4>11. IsWalk(Service!InsertAt(s, 2, p), head'[k], next')
        BY <1>2, <1>4, <4>5, <4>7, <4>8, <4>9, <4>10, WalkInsert
      <4> QED
        BY <4>2, <4>11
    <3> QED
      BY <1>1, <1>8, <3>1, <3>2, <3>3 DEF EnqueueLinks
  <2>2. WalkInv' /\ Queue' = [Queue EXCEPT ![k] = t]
    <3> HIDE DEF t
    <3> QED
      BY <1>2, <1>5, <2>1, QueueStep
  <2>3. Service!Submit(p)
    BY <1>1, <1>3, <1>4, <1>7, <2>2 DEF Service!Submit, s
  <2> QED
    BY <2>2, <2>3
<1>9. CASE ~EnqueueLinks(p)
  <2>1. next' = [next EXCEPT ![p] = h] /\ head' = head
    BY <1>1, <1>6, <1>9 DEF EnqueueLinks, EnqueuedHead, EnqueuedNext
  <2>2. \A x \in Elems(s) : next'[x] = next[x]
    BY <1>2, <1>3, <1>4, <2>1 DEF TypeOK
  <2>3. IsWalk(s, head'[k], next')
    BY <1>4, <2>1, <2>2, WalkFrame
  <2>4. WalkInv' /\ Queue' = [Queue EXCEPT ![k] = s]
    BY <1>2, <1>5, <2>3, QueueStep
  <2>5. Queue' = Queue
    BY <2>4 DEF s, Queue
  <2>6. curPacket # NULL => curPacket' = curPacket
    BY EnqueueEffect
  <2> QED
    BY <1>7, <2>4, <2>5, <2>6 DEF Service!Select
<1> QED
  BY <1>8, <1>9

\* A submission in each of the three places the code makes one.
LEMMA EnqueueServed ==
  ASSUME IInv, IInv', WalkInv, NEW p \in Client,
         CmdExecAsync(p) \/ CmdExecPolled(p) \/ CallbackSubmit(p)
  PROVE  /\ WalkInv'
         /\ Service!Submit(p) \/ Service!Select \/ UNCHANGED <<Queue, curPacket>>
<1>1. pc[p] \in {"idle", "checked"} /\ Enqueue(p)
  BY DEF CmdExecAsync, CmdExecPolled, CallbackSubmit
<1>2. pollingMode => QueueEmpty /\ curPacket = NULL
  <2>1. CASE CmdExecPolled(p)
    BY <2>1 DEF CmdExecPolled, IInv, PolledInv
  <2>2. CASE CmdExecAsync(p) \/ CallbackSubmit(p)
    BY <2>2 DEF CmdExecAsync, CallbackSubmit, Schedulable, IInv, PolledInv
  <2> QED
    BY <2>1, <2>2
<1> QED
  BY <1>1, <1>2, SubmissionServed DEF IInv

\* A cancel withdraws its packet, wherever it stands in its queue.
LEMMA CancelServed ==
  ASSUME IInv, TypeOK', WalkInv, NEW p \in Client, CmdCancel(p)
  PROVE  WalkInv' /\ Service!Cancel(p)
<1>1. PICK k \in Lists : k = ListOf[p]
  BY CommandAssumption DEF Client
<1> DEFINE s == Queue[k]
           q == Previous(p)
<1>2. /\ TypeOK /\ WellLinked /\ p \in Packet /\ p \in Reach(k) /\ p # NULL
      /\ p # curPacket /\ curPacket' = curPacket
  BY <1>1, NullAssumption DEF IInv, Client, CmdCancel, MayCancel, OneInFlight
<1>3. /\ IsWalk(s, head[k], next) /\ Elems(s) = Reach(k) /\ s \in Seq(Packet)
      /\ DOMAIN s = 1 .. Len(s)
  BY <1>2, QueueFacts
<1> HIDE DEF s
<1>4. PICK i \in 1 .. Len(s) : s[i] = p
  BY <1>2, <1>3 DEF Elems
<1>5. WalkInv' /\ Queue' = [Queue EXCEPT ![k] = Service!RemoveAt(s, i)]
  <2>1. CASE head[k] = p
    <3>1. head' = [head EXCEPT ![ListOf[p]] = next[p]] /\ next' = next
      BY <1>1, <2>1 DEF CmdCancel, CancelledHead, CancelledNext
    <3>2. /\ WalkInv' /\ Queue' = [Queue EXCEPT ![k] = Service!RemoveAt(s, 1)]
          /\ 1 \in DOMAIN s /\ s[1] = p
      BY <1>1, <1>2, <2>1, <3>1, PopServed DEF s
    <3>3. i = 1
      BY <1>3, <1>4, <3>2 DEF IsWalk
    <3> QED
      BY <3>2, <3>3
  <2>2. CASE head[k] # p
    <3>1. q \in Elems(s) /\ next[q] = p /\ q \in Packet /\ q # NULL
      <4>1. \E x \in Reach(k) : next[x] = p
        BY <1>2, <2>2, HasPredecessor, ListTypes DEF Reach
      <4>2. q \in Reach(k) /\ next[q] = p
        BY <1>1, <4>1 DEF Previous
      <4> QED
        BY <1>2, <1>3, <4>2, ListTypes, NullAssumption
    <3> HIDE DEF q
    <3>2. i # 1 /\ q = s[i - 1]
      BY <1>3, <1>4, <3>1, WalkEnd
    <3>3. head' = head /\ next' = [next EXCEPT ![q] = next[p]]
      BY <1>1, <2>2, <3>1 DEF CmdCancel, CancelledHead, CancelledNext, q
    <3>4. next'[q] = next[p] /\ \A x \in Packet \ {q} : next'[x] = next[x]
      BY <1>2, <3>1, <3>3 DEF TypeOK
    <3>5. \A l \in Lists \ {k} : head'[l] = head[l] /\ \A x \in Reach(l) : next'[x] = next[x]
      BY <1>2, <1>3, <3>1, <3>3, <3>4, OwnListOnly, ListTypes
    <3>6. ASSUME NEW m \in 1 .. Len(s), m # i
          PROVE  next'[s[m]] = IF m = i - 1 THEN next[s[i]] ELSE next[s[m]]
      <4>1. s[m] \in Packet /\ i - 1 \in 1 .. Len(s)
        BY <1>3, <3>2
      <4>2. m # i - 1 => s[m] # q
        BY <1>3, <3>2, <4>1 DEF IsWalk
      <4> QED
        BY <1>4, <3>2, <3>4, <4>1, <4>2
    <3>7. head'[k] = IF i = 1 THEN next[s[i]] ELSE head[k]
      BY <3>2, <3>3
    <3>8. IsWalk(Service!RemoveAt(s, i), head'[k], next')
      <4>1. IsWalk(s, head[k], next)
        BY <1>3
      <4> QED
        BY <3>6, <3>7, <4>1, WalkRemove
    <3> QED
      BY <1>2, <3>5, <3>8, QueueStep
  <2> QED
    BY <2>1, <2>2
<1>6. Service!Cancel(p)
  BY <1>1, <1>2, <1>3, <1>4, <1>5 DEF Service!Cancel, s
<1> QED
  BY <1>5, <1>6

\* The handler takes the current packet off the bus, and off its queue unless
\* it is to be sent again.
LEMMA EndServed ==
  ASSUME IInv, TypeOK', WalkInv, NEW again \in BOOLEAN, NEW enable \in BOOLEAN,
         GpioIntr(again, enable)
  PROVE  WalkInv' /\ Service!End
<1>1. /\ curPacket # NULL /\ curPacket' = NULL
      /\ curPacket \in Packet /\ head[ListOf[curPacket]] = curPacket
      /\ TypeOK /\ WellLinked
  BY OnTheBus DEF GpioIntr, EndCurrent, IInv
<1>2. CASE Retries(curPacket, again)
  <2>1. UNCHANGED queueVars
    BY <1>2 DEF GpioIntr, EndCurrent
  <2> QED
    BY <1>1, <2>1, QueuesKept DEF Service!End
<1>3. CASE ~Retries(curPacket, again)
  <2>1. /\ head' = [head EXCEPT ![ListOf[curPacket]] = next[curPacket]]
        /\ next' = [next EXCEPT ![curPacket] = NULL]
    BY <1>3 DEF GpioIntr, EndCurrent, Dequeue, DequeuedHead
  <2>2. WalkInv' /\ Queue' = [Queue EXCEPT ![ListOf[curPacket]] = Tail(@)]
    BY <1>1, <2>1, PopServed
  <2> QED
    BY <1>1, <2>2 DEF Service!End
<1> QED
  BY <1>2, <1>3

\* The callback's packet is dropped or goes first.
LEMMA ReturnServed ==
  ASSUME IInv, TypeOK', WalkInv, NEW r \in {0, 1}, CallbackReturn(r)
  PROVE  /\ WalkInv'
         /\ Service!Requeue(local.packet) \/ UNCHANGED <<Queue, curPacket>>
<1> DEFINE p == local.packet
<1>1. /\ curPacket = NULL /\ curPacket' = curPacket
      /\ p \in Packet /\ \A l \in Lists : p \notin Reach(l)
      /\ TypeOK /\ WellLinked
  BY DEF CallbackReturn, IInv, HandlerInv
<1>2. UNCHANGED queueVars \/ RequeueFirst(p)
  BY DEF CallbackReturn
<1>3. CASE UNCHANGED queueVars
  BY <1>1, <1>3, QueuesKept
<1>4. CASE RequeueFirst(p)
  <2> HIDE DEF p
  <2>1. /\ head' = [head EXCEPT ![ListOf[p]] = p]
        /\ next' = [next EXCEPT ![p] = head[ListOf[p]]]
    BY <1>4 DEF RequeueFirst
  <2>2. /\ WalkInv'
        /\ p \notin Service!Range(Queue[ListOf[p]])
        /\ Queue' = [Queue EXCEPT ![ListOf[p]] = Service!InsertAt(@, 1, p)]
    BY <1>1, <2>1, PushServed
  <2>3. Service!Requeue(p)
    BY <1>1, <2>2 DEF Service!Requeue
  <2> QED
    BY <2>2, <2>3 DEF p
<1> QED
  BY <1>2, <1>3, <1>4

\* The end of the handler puts the first packet of some queue on the bus,
\* behind GET_STATUS2 if that is wanted.
LEMMA SelectServed ==
  ASSUME IInv, IInv', WalkInv, NEW early \in BOOLEAN, SelectNext(early)
  PROVE  WalkInv' /\ Service!Select
<1> DEFINE g == GetStatus2Cmd
<1>1. /\ curPacket = NULL /\ TypeOK /\ WellLinked /\ TypeOK' /\ OneInFlight'
      /\ g \in Packet /\ g # NULL /\ ListOf[g] = 0 /\ 0 \in Lists
  BY PacketAssumption, CommandAssumption, NullAssumption
     DEF SelectNext, IInv, HandlerInv, Lists
<1>2. WalkInv' => Service!BusNext
  BY <1>1, BusIsFirst DEF Service!BusNext
<1>3. CASE AddsStatus2
  <2>1. \A l \in Lists : g \notin Reach(l)
    BY <1>1 DEF IInv, HandlerInv
  <2>2. head' = [head EXCEPT ![ListOf[g]] = g] /\ next' = [next EXCEPT ![g] = head[ListOf[g]]]
    BY <1>1, <1>3 DEF SelectNext, SelectHead
  <2>3. /\ WalkInv'
        /\ g \notin Service!Range(Queue[0])
        /\ Queue' = [Queue EXCEPT ![0] = Service!InsertAt(@, 1, g)]
    <3> HIDE DEF g
    <3> QED
      BY <1>1, <2>1, <2>2, PushServed
  <2>4. Queue[0] \in Seq(Packet)
    BY <1>1, QueueFacts
  <2>5. Queue' = [Queue EXCEPT ![0] = <<g>> \o @]
    BY <1>1, <2>3, <2>4, FrontIs
  <2> QED
    BY <1>1, <1>2, <2>3, <2>5 DEF Service!Select
<1>4. CASE ~AddsStatus2
  <2>1. head' = head /\ next' = next
    BY <1>4 DEF SelectNext, SelectHead
  <2>2. \A l \in Lists : Walk(l)' = Walk(l) /\ head'[l] = head[l] /\ next' = next
    BY <2>1 DEF Walk
  <2>3. WalkInv' /\ Queue' = Queue
    BY <2>2 DEF WalkInv, Queue
  <2> QED
    BY <1>1, <1>2, <2>3 DEF Service!Select
<1> QED
  BY <1>3, <1>4

\* Initially every queue is empty.
LEMMA ServedInit == Init => Service!Init /\ WalkInv
<1> SUFFICES ASSUME Init PROVE Service!Init /\ WalkInv
  OBVIOUS
<1>1. ASSUME NEW l \in Lists
      PROVE  IsWalk(<<>>, head[l], next) /\ Walk(l) = <<>>
  <2>1. head[l] = NULL /\ next \in [Packet -> Link]
    BY <1>1 DEF Init, Link
  <2>2. <<>> \in Seq(Packet) /\ Len(<<>>) = 0
    BY EmptySeq
  <2>3. IsWalk(<<>>, head[l], next)
    BY <2>1, <2>2 DEF IsWalk
  <2> QED
    BY <2>1, <2>3, WalkIs DEF Walk, Link
<1>2. Queue = [l \in Service!Lists |-> <<>>]
  BY <1>1 DEF Queue, Lists, Service!Lists
<1>3. WalkInv
  BY <1>1 DEF WalkInv
<1> QED
  BY <1>2, <1>3 DEF Service!Init, Init

\* Every step of the driver is a step of the service, or none.
LEMMA ServedNext ==
  ASSUME 2 \notin CallbackResults, IInv, IInv', WalkInv, [Next]_vars
  PROVE  WalkInv' /\ [Service!Next]_(Service!vars)
<1>1. ASSUME UNCHANGED <<queueVars, curPacket>>
      PROVE  WalkInv' /\ [Service!Next]_(Service!vars)
  BY <1>1, QueuesKept DEF Service!vars
<1>2. ASSUME NEW p \in Client, ClientStep(p)
      PROVE  WalkInv' /\ [Service!Next]_(Service!vars)
  <2>0. p \in Packet
    BY DEF Client
  <2>1. CASE \/ CheckRebooted(p) \/ CmdSyncWait(p) \/ CmdSyncWake(p) \/ CmdSyncRelease(p)
             \/ CmdSyncPoll(p) \/ CmdSyncPolled(p)
    BY <1>1, <2>1 DEF CheckRebooted, CmdSyncWait, CmdSyncWake, CmdSyncRelease, CmdSyncPoll,
                      CmdSyncPolled
  <2>2. CASE CmdExecAsync(p) \/ CmdExecPolled(p) \/ CallbackSubmit(p)
    BY <2>0, <2>2, EnqueueServed DEF Service!Next, Service!vars
  <2>3. CASE CmdCancel(p)
    BY <2>0, <2>3, CancelServed DEF Service!Next, IInv
  <2> QED
    BY <1>2, <2>1, <2>2, <2>3 DEF ClientStep
<1>3. ASSUME HandlerStep
      PROVE  WalkInv' /\ [Service!Next]_(Service!vars)
  <2>1. ASSUME NEW again \in BOOLEAN, NEW enable \in BOOLEAN, GpioIntr(again, enable)
        PROVE  WalkInv' /\ [Service!Next]_(Service!vars)
    BY <2>1, EndServed DEF Service!Next, IInv
  <2>2. ASSUME NEW r \in CallbackResults, CallbackReturn(r)
        PROVE  WalkInv' /\ [Service!Next]_(Service!vars)
    <3>1. r \in {0, 1} /\ local.packet \in Packet
      BY <2>2, ModeAssumption DEF CallbackReturn, IInv, HandlerInv
    <3> QED
      BY <2>2, <3>1, ReturnServed DEF Service!Next, Service!vars, IInv
  <2>3. ASSUME NEW early \in BOOLEAN, SelectNext(early)
        PROVE  WalkInv' /\ [Service!Next]_(Service!vars)
    BY <2>3, SelectServed DEF Service!Next
  <2> QED
    BY <1>3, <2>1, <2>2, <2>3 DEF HandlerStep
<1>4. ASSUME SystemStep
      PROVE  WalkInv' /\ [Service!Next]_(Service!vars)
  BY <1>1, <1>4 DEF SystemStep, SetRetryMode, EventSuspend, EventPollingOn, EventResume,
                    EventPollingOff, RebootBegin, RebootDrained, RebootEnd
<1>5. CASE UNCHANGED vars
  BY <1>1, <1>5 DEF vars, queueVars
<1> QED
  BY <1>2, <1>3, <1>4, <1>5 DEF Next

\* As long as no callback re-queues its packet last, the four pointer lists, the
\* status bits and the interrupt handler give the clients four FIFO queues, in
\* which only urgent packets and retries overtake, and a bus that executes the
\* first packet of a queue: whatever the packets, their commands and flags.
THEOREM QueueServiceImplemented ==
  ASSUME 2 \notin CallbackResults
  PROVE  Spec => ImplementsService
<1>1. Init => Service!Init /\ WalkInv
  BY ServedInit
<1>2. IInv /\ IInv' /\ WalkInv /\ [Next]_vars => WalkInv' /\ [Service!Next]_(Service!vars)
  BY ServedNext
<1>3. Spec => []IInv
  BY Inductive
<1> QED
  BY <1>1, <1>2, <1>3, PTL DEF Spec, ImplementsService, Service!Spec
=============================================================================
