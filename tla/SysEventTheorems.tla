--------------------------- MODULE SysEventTheorems ---------------------------
(***************************************************************************)
(* Safety of the system event list, for any handlers and event types.      *)
(***************************************************************************)
EXTENDS SysEvent, TLAPS

L == INSTANCE PacketListTheorems WITH Packet <- Handler

\* The lemmas of L are about the lists of SysEvent.
LEMMA Same ==
  /\ List!Link = L!Link /\ L!Link = Handler \cup {NULL}
  /\ \A h, nx : List!ReachFrom(h, nx) = L!ReachFrom(h, nx)
  /\ \A h, t, nx : List!IsList(h, t, nx) = L!IsList(h, t, nx)
<1>1. List!Link = L!Link /\ L!Link = Handler \cup {NULL}
  BY DEF List!Link, L!Link
<1>2. ASSUME NEW h, NEW nx PROVE List!ReachFrom(h, nx) = L!ReachFrom(h, nx)
  BY DEF List!ReachFrom, L!ReachFrom, List!ClosedFrom, L!ClosedFrom
<1>3. ASSUME NEW h, NEW t, NEW nx PROVE List!IsList(h, t, nx) = L!IsList(h, t, nx)
  BY <1>2, Zenon DEF List!IsList, L!IsList
<1> QED
  BY <1>1, <1>2, <1>3

\* The first match of a walk is one: were no match the first, the handlers from
\* which all of them lie ahead would never end.
LEMMA FirstMatchExists ==
  ASSUME NEW h \in L!Link, next \in [Handler -> L!Link], NEW types, Matches(h, types) # {}
  PROVE  \E q \in Matches(h, types) : Matches(h, types) \subseteq L!ReachFrom(q, next)
<1> DEFINE M == Matches(h, types)
           R == L!ReachFrom(h, next)
           S == {q \in R : M \subseteq L!ReachFrom(q, next)}
<1>1. M \subseteq R
  BY Same DEF Matches
<1>2. SUFFICES ASSUME M \cap S = {} PROVE FALSE
  BY <1>1
<1>3. R \subseteq Handler /\ L!ClosedFrom(R, h, next)
  BY L!ReachLeast, HandlerAssumption
<1>4. h # NULL => h \in S
  BY <1>1, <1>3 DEF L!ClosedFrom
<1>5. ASSUME NEW q \in S, next[q] # NULL PROVE next[q] \in S
  <2>1. next[q] \in R
    BY <1>3, <1>5 DEF L!ClosedFrom
  <2>2. L!ReachFrom(q, next) \subseteq {q} \cup L!ReachFrom(next[q], next)
    BY L!ReachOnward, HandlerAssumption
  <2>3. M \subseteq L!ReachFrom(next[q], next)
    BY <2>2, <1>2
  <2> QED
    BY <2>1, <2>3
<1>6. L!ClosedFrom(S, h, next)
  BY <1>4, <1>5 DEF L!ClosedFrom
<1>7. R \subseteq S
  BY <1>6, L!ReachLeast, HandlerAssumption
<1> QED
  BY <1>1, <1>2, <1>7

LEMMA FirstMatchIs ==
  ASSUME NEW h \in L!Link, next \in [Handler -> L!Link], NEW types
  PROVE  IF Matches(h, types) = {}
           THEN FirstMatch(h, types) = NULL
           ELSE /\ FirstMatch(h, types) \in Matches(h, types)
                /\ Matches(h, types) \subseteq L!ReachFrom(FirstMatch(h, types), next)
<1>1. CASE Matches(h, types) = {}
  BY <1>1 DEF FirstMatch
<1>2. CASE Matches(h, types) # {}
  <2>1. \E q \in Matches(h, types) : Matches(h, types) \subseteq List!ReachFrom(q, next)
    BY <1>2, FirstMatchExists, Same
  <2>2. /\ FirstMatch(h, types) \in Matches(h, types)
        /\ Matches(h, types) \subseteq List!ReachFrom(FirstMatch(h, types), next)
    BY <1>2, <2>1, Zenon DEF FirstMatch
  <2> QED
    BY <1>2, <2>2, Same
<1> QED
  BY <1>1, <1>2

\* So a dispatch goes on to a handler for its event, or to none.
LEMMA FirstMatchType ==
  ASSUME NEW h \in L!Link, next \in [Handler -> L!Link], NEW types
  PROVE  /\ FirstMatch(h, types) \in L!Link
         /\ FirstMatch(h, types) # NULL =>
              /\ FirstMatch(h, types) \in L!ReachFrom(h, next)
              /\ TypeMask[FirstMatch(h, types)] \cap types # {}
<1>1. Matches(h, types) \subseteq L!ReachFrom(h, next)
  BY Same DEF Matches
<1>2. L!ReachFrom(h, next) \subseteq Handler
  BY L!ReachLeast, HandlerAssumption
<1>3. \A q \in Matches(h, types) : TypeMask[q] \cap types # {}
  BY DEF Matches
<1> QED
  BY <1>1, <1>2, <1>3, FirstMatchIs, Same

-----------------------------------------------------------------------------
(* Types, and busy, for any number of dispatches.                          *)

LEMMA TypeInit == Init => TypeOK /\ BusyIsCalled
  BY Same, HandlerAssumption DEF Init, TypeOK, BusyIsCalled

LEMMA TypeNext == TypeOK /\ BusyIsCalled /\ [Next]_vars => TypeOK' /\ BusyIsCalled'
<1> SUFFICES ASSUME TypeOK, BusyIsCalled, [Next]_vars
             PROVE  TypeOK' /\ BusyIsCalled'
  OBVIOUS
<1> USE HandlerAssumption, Same DEF TypeOK, BusyIsCalled
<1>1. ASSUME NEW h \in Handler, Register(h) PROVE TypeOK' /\ BusyIsCalled'
  BY <1>1 DEF Register, dispatch
<1>2. ASSUME NEW h \in Handler, Unregister(h) PROVE TypeOK' /\ BusyIsCalled'
  <2>1. RemovedHead(h) \in L!Link /\ RemovedNext(h) \in [Handler -> L!Link]
    BY DEF RemovedHead, RemovedNext
  <2> QED
    BY <1>2, <2>1 DEF Unregister, dispatch
<1>3. ASSUME NEW d \in Dispatcher, NEW types \in SUBSET EventType, NEW b \in BOOLEAN,
             Dispatch(d, types, b)
      PROVE  TypeOK' /\ BusyIsCalled'
  <2> DEFINE first == FirstMatch(g_pHandlers, types)
  <2>1. first \in L!Link /\ (first # NULL => TypeMask[first] \cap types # {})
    BY FirstMatchType
  <2>2. cur' = [cur EXCEPT ![d] = first] /\ cur[d] = NULL
        /\ busy' = [h \in Handler |-> IF h = first THEN TRUE ELSE busy[h]]
    <3>1. cur[d] = NULL /\ Calls(d, first)
      BY <1>3 DEF Dispatch
    <3> HIDE DEF first
    <3>2. \A h \in Handler : h # cur[d]
      BY <3>1
    <3>3. \A h \in Handler : (IF h = first THEN TRUE ELSE IF h = cur[d] THEN FALSE ELSE busy[h])
                             = (IF h = first THEN TRUE ELSE busy[h])
      BY <3>2
    <3> HIDE DEF TypeOK, BusyIsCalled
    <3> QED
      BY <3>1, <3>3, Zenon DEF Calls
  <2>3. Matches(g_pHandlers, types) \in SUBSET Handler
    BY L!ReachLeast DEF Matches
  <2> HIDE DEF first
  <2>4. cur' \in [Dispatcher -> L!Link] /\ busy' \in [Handler -> BOOLEAN]
    BY <2>1, <2>2
  <2>5. /\ mask' = [mask EXCEPT ![d] = types]
        /\ breaks' = [breaks EXCEPT ![d] = b]
        /\ ret' = [ret EXCEPT ![d] = "ok"]
        /\ due' = [due EXCEPT ![d] = Matches(g_pHandlers, types) \ {first}]
        /\ called' = [called EXCEPT ![d] = {first} \ {NULL}]
        /\ alone' \in [Dispatcher -> BOOLEAN]
        /\ UNCHANGED <<g_pHandlers, next>>
    BY <1>3 DEF Dispatch, first
  <2>6. /\ mask' \in [Dispatcher -> SUBSET EventType]
        /\ breaks' \in [Dispatcher -> BOOLEAN]
        /\ ret' \in [Dispatcher -> {"ok", "error"}]
        /\ due' \in [Dispatcher -> SUBSET Handler]
        /\ called' \in [Dispatcher -> SUBSET Handler]
    BY <2>1, <2>3, <2>5
  <2>7. \A e \in Dispatcher : cur'[e] \in Handler => TypeMask[cur'[e]] \cap mask'[e] # {}
    BY <2>1, <2>2, <2>5
  <2>8. BusyIsCalled'
    BY <2>2
  <2> QED
    BY <2>4, <2>5, <2>6, <2>7, <2>8
<1>4. ASSUME NEW d \in Dispatcher, NEW failed \in BOOLEAN, HandlerReturns(d, failed)
      PROVE  TypeOK' /\ BusyIsCalled'
  <2> DEFINE first == FirstMatch(next[cur[d]], mask[d])
  <2>0. cur[d] \in Handler /\ next[cur[d]] \in L!Link
    BY <1>4 DEF HandlerReturns
  <2>1. first \in L!Link /\ (first # NULL => TypeMask[first] \cap mask[d] # {})
    BY <2>0, FirstMatchType
  <2> HIDE DEF first
  <2>2. PICK n \in {NULL, first} : /\ Calls(d, n)
                                  /\ due' = [due EXCEPT ![d] = @ \ {n}]
                                  /\ called' = [called EXCEPT ![d] = IF n = NULL THEN {} ELSE @ \cup {n}]
    BY <1>4 DEF HandlerReturns, first
  <2>3. cur' = [cur EXCEPT ![d] = n]
        /\ busy' = [h \in Handler |-> IF h = n THEN TRUE ELSE IF h = cur[d] THEN FALSE ELSE busy[h]]
    BY <2>2 DEF Calls
  <2>4. cur' \in [Dispatcher -> L!Link] /\ busy' \in [Handler -> BOOLEAN]
    BY <2>1, <2>3
  <2>5. /\ UNCHANGED <<g_pHandlers, next, mask, breaks>>
        /\ ret' \in [Dispatcher -> {"ok", "error"}] /\ alone' \in [Dispatcher -> BOOLEAN]
    BY <1>4 DEF HandlerReturns
  <2>6. due' \in [Dispatcher -> SUBSET Handler] /\ called' \in [Dispatcher -> SUBSET Handler]
    BY <2>1, <2>2
  <2>7. \A e \in Dispatcher : cur'[e] \in Handler => TypeMask[cur'[e]] \cap mask'[e] # {}
    BY <2>1, <2>3, <2>5
  <2>8. BusyIsCalled'
    BY <2>3
  <2> QED
    BY <2>4, <2>5, <2>6, <2>7, <2>8
<1>5. CASE UNCHANGED vars
  BY <1>5 DEF vars
<1> HIDE DEF TypeOK, BusyIsCalled
<1>6. ASSUME NEW d \in Dispatcher, DispatchStep(d) PROVE TypeOK' /\ BusyIsCalled'
  BY <1>3, <1>4, <1>6 DEF DispatchStep
<1> QED
  BY <1>1, <1>2, <1>5, <1>6 DEF Next

\* Every variable keeps its type, and only handlers for its event are called.
THEOREM TypeCorrect == Spec => []TypeOK
<1> QED
  BY TypeInit, TypeNext, PTL DEF Spec

\* No handler stays busy when no dispatch calls it any more.
THEOREM BusyCorrect == Spec => []BusyIsCalled
<1> QED
  BY TypeInit, TypeNext, PTL DEF Spec

-----------------------------------------------------------------------------
(* The walk, for a dispatch that no other overlaps: with two on one handler *)
(* the first to return clears busy, and the handler can leave under the     *)
(* second.                                                                 *)

WalkInv ==
  /\ \E t \in L!Link : L!IsList(g_pHandlers, t, next)
  /\ \A d \in Dispatcher : alone[d] /\ cur[d] # NULL =>
       /\ \A e \in Dispatcher \ {d} : cur[e] = NULL
       /\ busy[cur[d]]
       /\ cur[d] \in L!ReachFrom(g_pHandlers, next)
       /\ called[d] \cap L!ReachFrom(next[cur[d]], next) = {}

\* Registration puts a handler before every walk.
LEMMA RegisterWalk ==
  ASSUME TypeOK, WalkInv, NEW h \in Handler, Register(h)
  PROVE  WalkInv'
<1> DEFINE R == L!ReachFrom(g_pHandlers, next)
<1> USE HandlerAssumption, Same
<1>1. /\ g_pHandlers \in L!Link /\ next \in [Handler -> L!Link]
      /\ next' \in [Handler -> L!Link]
      /\ cur \in [Dispatcher -> L!Link]
      /\ g_pHandlers' = h /\ cur' = cur /\ alone' = alone
      /\ next'[h] = g_pHandlers /\ \A p \in Handler \ {h} : next'[p] = next[p]
      /\ \A p \in Handler \ {h} : busy'[p] = busy[p]
      /\ \A d \in Dispatcher : called'[d] \subseteq called[d]
  BY DEF TypeOK, Register, dispatch
<1>2. h \in Handler \ R
  BY DEF Register, AlreadyExists, Registered
<1>3. PICK t \in L!Link : L!IsList(g_pHandlers, t, next)
  BY DEF WalkInv
<1>4. /\ L!ReachFrom(h, next') = R \cup {h}
      /\ L!IsList(h, IF g_pHandlers = NULL THEN h ELSE t, next')
  BY <1>1, <1>2, <1>3, L!PushFront
<1>5. ASSUME NEW d \in Dispatcher, alone[d], cur[d] # NULL
      PROVE  /\ \A e \in Dispatcher \ {d} : cur[e] = NULL
             /\ busy'[cur[d]] /\ cur[d] \in L!ReachFrom(h, next')
             /\ called'[d] \cap L!ReachFrom(next'[cur[d]], next') = {}
  <2>1. /\ \A e \in Dispatcher \ {d} : cur[e] = NULL
        /\ cur[d] \in R /\ busy[cur[d]] /\ called[d] \cap L!ReachFrom(next[cur[d]], next) = {}
    BY <1>5 DEF WalkInv
  <2>2. cur[d] \in Handler \ {h}
    BY <1>1, <1>2, <1>5, <2>1
  <2>3. L!ReachFrom(next[cur[d]], next) \subseteq R /\ R \subseteq Handler
    BY <1>1, <2>1, L!ReachOnward, L!ReachLeast
  <2>4. L!ReachFrom(next[cur[d]], next') = L!ReachFrom(next[cur[d]], next)
    <3>1. \A p \in L!ReachFrom(next[cur[d]], next) : next'[p] = next[p]
      BY <1>1, <1>2, <2>3
    <3> QED
      BY <1>1, <2>2, <3>1, L!ReachFrame
  <2> QED
    BY <1>1, <1>4, <2>1, <2>2, <2>4
<1> QED
  BY <1>1, <1>4, <1>5 DEF WalkInv

\* What Unregister does to the list.
LEMMA UnregisterList ==
  ASSUME TypeOK, WalkInv, NEW h \in Handler, Unregister(h)
  PROVE  /\ \E t \in L!Link : L!IsList(g_pHandlers', t, next')
         /\ L!ReachFrom(g_pHandlers', next') = L!ReachFrom(g_pHandlers, next) \ {h}
<1> DEFINE R == L!ReachFrom(g_pHandlers, next)
<1> USE HandlerAssumption, Same
<1>1. /\ g_pHandlers \in L!Link /\ next \in [Handler -> L!Link]
      /\ g_pHandlers' = RemovedHead(h) /\ next' = RemovedNext(h)
  BY DEF TypeOK, Unregister
<1>2. next' \in [Handler -> L!Link]
  BY <1>1 DEF RemovedNext
<1>3. h \in R /\ R \subseteq Handler /\ Registered = R
  BY <1>1, L!ReachLeast DEF Unregister, Registered
<1>4. PICK t \in L!Link : L!IsList(g_pHandlers, t, next)
  BY DEF WalkInv
<1>5. CASE h = g_pHandlers
  <2>1. \A p \in R : next[p] # h
    BY <1>4, <1>5 DEF L!IsList
  <2>2. \A p \in Handler : next'[p] = next[p]
    BY <1>1, <1>3, <2>1 DEF RemovedNext
  <2>3. g_pHandlers' = next[h] /\ g_pHandlers # NULL
    BY <1>1, <1>5 DEF RemovedHead
  <2>4. L!ReachFrom(next[h], next') = R \ {h}
        /\ (next[h] # NULL => L!IsList(next[h], t, next'))
    BY <1>1, <1>2, <1>3, <1>4, <1>5, <2>2, <2>3, L!PopFront
  <2>5. L!IsList(NULL, NULL, next')
    BY <1>2, L!ReachNull DEF L!IsList
  <2> QED
    BY <2>3, <2>4, <2>5
<1>6. CASE h # g_pHandlers
  <2>1. PICK q \in R : next[q] = h
    BY <1>1, <1>3, <1>6, L!HasPredecessor
  <2>2. \A p \in R : next[p] = h => p = q
    BY <1>4, <2>1 DEF L!IsList
  <2>3. next'[q] = next[h] /\ \A x \in Handler \ {q} : next'[x] = next[x]
    BY <1>1, <1>3, <2>1, <2>2 DEF RemovedNext
  <2>4. g_pHandlers' = g_pHandlers
    BY <1>1, <1>6 DEF RemovedHead
  <2>5. /\ L!ReachFrom(g_pHandlers, next') = R \ {h}
        /\ L!IsList(g_pHandlers, IF next[h] = NULL THEN q ELSE t, next')
    BY <1>1, <1>2, <1>3, <1>4, <2>1, <2>3, L!UnlinkAfter
  <2>6. (IF next[h] = NULL THEN q ELSE t) \in L!Link
    BY <1>3
  <2> QED
    BY <2>4, <2>5, <2>6
<1> QED
  BY <1>5, <1>6

\* A handler that is not busy is not the one a dispatch goes on from.
LEMMA UnregisterWalk ==
  ASSUME TypeOK, WalkInv, NEW h \in Handler, Unregister(h)
  PROVE  WalkInv'
<1> USE HandlerAssumption, Same
<1>1. /\ g_pHandlers \in L!Link /\ next \in [Handler -> L!Link]
      /\ cur \in [Dispatcher -> L!Link]
      /\ next' = RemovedNext(h) /\ ~busy[h]
      /\ UNCHANGED <<busy, cur, called, alone>>
  BY DEF TypeOK, Unregister, IsBusy, dispatch
<1>2. next' \in [Handler -> L!Link]
      /\ \A x \in Handler : next'[x] = next[x] \/ (next[x] = h /\ next'[x] = next[h])
  BY <1>1 DEF RemovedNext
<1>3. \A x \in L!Link : L!ReachFrom(x, next') \subseteq L!ReachFrom(x, next)
  BY <1>1, <1>2, L!ReachSkips
<1>4. ASSUME NEW d \in Dispatcher, alone[d], cur[d] # NULL
      PROVE  /\ cur[d] \in L!ReachFrom(g_pHandlers', next')
             /\ called[d] \cap L!ReachFrom(next'[cur[d]], next') = {}
  <2> DEFINE c == cur[d]
  <2>1. /\ busy[c] /\ c \in L!ReachFrom(g_pHandlers, next)
        /\ called[d] \cap L!ReachFrom(next[c], next) = {}
    BY <1>4 DEF WalkInv
  <2>2. c # h /\ c \in Handler
    BY <1>1, <1>4, <2>1
  <2>3. L!ReachFrom(next'[c], next') \subseteq L!ReachFrom(next'[c], next)
    BY <1>2, <1>3, <2>2
  <2>4. L!ReachFrom(next'[c], next) \subseteq L!ReachFrom(next[c], next)
    <3>1. CASE next'[c] = next[c]
      BY <3>1
    <3>2. CASE next[c] = h /\ next'[c] = next[h]
      <4>1. h \in L!ReachFrom(h, next)
        BY <1>1, L!ReachLeast DEF L!ClosedFrom
      <4> QED
        BY <1>1, <3>2, <4>1, L!ReachOnward
    <3> QED
      BY <1>2, <2>2, <3>1, <3>2
  <2> QED
    BY <2>1, <2>2, <2>3, <2>4, UnregisterList
<1> QED
  BY <1>1, <1>4, UnregisterList DEF WalkInv

\* A dispatch that calls n, ahead of what it has called, keeps the invariant.
LEMMA CallsWalk ==
  ASSUME TypeOK, WalkInv, NEW d \in Dispatcher,
         NEW n \in Handler \cup {NULL},
         Calls(d, n), UNCHANGED <<g_pHandlers, next>>,
         alone' = [e \in Dispatcher |-> e \in StillAlone],
         \A e \in Dispatcher \ {d} : called'[e] = called[e],
         alone[d] /\ n # NULL => /\ n \in L!ReachFrom(g_pHandlers, next)
                               /\ called'[d] \cap L!ReachFrom(next[n], next) = {}
  PROVE  WalkInv'
<1> USE HandlerAssumption, Same
<1>1. /\ next \in [Handler -> L!Link] /\ g_pHandlers \in L!Link
      /\ cur \in [Dispatcher -> L!Link] /\ busy \in [Handler -> BOOLEAN]
  BY DEF TypeOK
<1>2. /\ cur'[d] = n /\ (n # NULL => busy'[n])
      /\ \A e \in Dispatcher \ {d} : cur'[e] = cur[e]
  BY <1>1 DEF Calls
<1>3. ASSUME NEW e \in Dispatcher, alone'[e], cur'[e] # NULL
      PROVE  /\ \A f \in Dispatcher \ {e} : cur'[f] = NULL
             /\ busy'[cur'[e]]
             /\ cur'[e] \in L!ReachFrom(g_pHandlers, next)
             /\ called'[e] \cap L!ReachFrom(next[cur'[e]], next) = {}
  <2>1. alone[e] /\ \A f \in Dispatcher \ {e} : cur'[f] = NULL
    BY <1>3 DEF StillAlone
  <2>2. CASE e = d
    BY <1>2, <1>3, <2>1, <2>2
  <2>3. CASE e # d
    <3>1. cur'[e] = cur[e] /\ called'[e] = called[e]
      BY <1>2, <2>3
    <3>2. /\ \A f \in Dispatcher \ {e} : cur[f] = NULL
          /\ busy[cur[e]]
          /\ cur[e] \in L!ReachFrom(g_pHandlers, next)
          /\ called[e] \cap L!ReachFrom(next[cur[e]], next) = {}
      BY <1>3, <2>1, <3>1 DEF WalkInv
    <3>3. cur[d] = NULL /\ cur[e] \in Handler
      BY <1>1, <1>3, <2>3, <3>1, <3>2
    <3>4. busy'[cur[e]]
      BY <3>2, <3>3 DEF Calls
    <3> QED
      BY <2>1, <3>1, <3>2, <3>4
  <2> QED
    BY <2>2, <2>3
<1> QED
  BY <1>3 DEF WalkInv

LEMMA WalkNext ==
  ASSUME TypeOK, WalkInv, [Next]_vars
  PROVE  WalkInv'
<1> USE HandlerAssumption, Same
<1>1. /\ next \in [Handler -> L!Link] /\ g_pHandlers \in L!Link
      /\ cur \in [Dispatcher -> L!Link]
      /\ called \in [Dispatcher -> SUBSET Handler]
  BY DEF TypeOK
<1>2. PICK t \in L!Link : L!IsList(g_pHandlers, t, next)
  BY DEF WalkInv
<1>3. \A p \in L!ReachFrom(g_pHandlers, next) : p \notin L!ReachFrom(next[p], next)
  BY <1>1, <1>2, L!NeverAhead
<1>4. ASSUME NEW d \in Dispatcher, NEW types \in SUBSET EventType, NEW b \in BOOLEAN,
             Dispatch(d, types, b)
      PROVE  WalkInv'
  <2> DEFINE n == FirstMatch(g_pHandlers, types)
  <2>1. n \in L!ReachFrom(g_pHandlers, next) \cup {NULL}
    BY <1>1, FirstMatchType
  <2>2. /\ Calls(d, n) /\ UNCHANGED <<g_pHandlers, next>>
        /\ called' = [called EXCEPT ![d] = {n} \ {NULL}]
        /\ alone' = [e \in Dispatcher |-> e \in StillAlone]
    BY <1>4 DEF Dispatch
  <2> HIDE DEF n
  <2>3. called'[d] = {n} \ {NULL} /\ \A e \in Dispatcher \ {d} : called'[e] = called[e]
    BY <1>1, <2>2
  <2>4. n \in Handler \cup {NULL}
    BY <1>1, <2>1, L!ReachLeast
  <2>5. n # NULL => called'[d] \cap L!ReachFrom(next[n], next) = {}
    BY <1>3, <2>1, <2>3
  <2> QED
    BY <2>1, <2>2, <2>3, <2>4, <2>5, CallsWalk
<1>5. ASSUME NEW d \in Dispatcher, NEW failed \in BOOLEAN, HandlerReturns(d, failed)
      PROVE  WalkInv'
  <2> DEFINE first == FirstMatch(next[cur[d]], mask[d])
  <2>1. /\ cur[d] # NULL /\ UNCHANGED <<g_pHandlers, next>>
        /\ alone' = [e \in Dispatcher |-> e \in StillAlone]
    BY <1>5 DEF HandlerReturns
  <2>2. cur[d] \in Handler /\ next[cur[d]] \in L!Link
    BY <1>1, <2>1
  <2>3. first \in L!ReachFrom(next[cur[d]], next) \cup {NULL}
        /\ L!ReachFrom(next[cur[d]], next) \subseteq Handler
    BY <1>1, <2>2, FirstMatchType, L!ReachLeast
  <2> HIDE DEF first
  <2>4. PICK n \in {NULL, first} :
          Calls(d, n) /\ called' = [called EXCEPT ![d] = IF n = NULL THEN {} ELSE @ \cup {n}]
    BY <1>5 DEF HandlerReturns, first
  <2>5. ASSUME alone[d], n # NULL
        PROVE  /\ n \in L!ReachFrom(g_pHandlers, next)
               /\ called'[d] \cap L!ReachFrom(next[n], next) = {}
    <3>1. called'[d] = called[d] \cup {n}
      BY <1>1, <2>4, <2>5
    <3>2. /\ cur[d] \in L!ReachFrom(g_pHandlers, next)
          /\ called[d] \cap L!ReachFrom(next[cur[d]], next) = {}
      BY <2>1, <2>5 DEF WalkInv
    <3>3. n \in L!ReachFrom(next[cur[d]], next)
      BY <2>3, <2>4, <2>5
    <3>4. L!ReachFrom(next[cur[d]], next) \subseteq L!ReachFrom(g_pHandlers, next)
      BY <1>1, <3>2, L!ReachOnward
    <3>5. L!ReachFrom(next[n], next) \subseteq L!ReachFrom(next[cur[d]], next)
      BY <1>1, <2>2, <3>3, L!ReachOnward
    <3>6. n \notin L!ReachFrom(next[n], next)
      BY <1>3, <3>3, <3>4
    <3> QED
      BY <3>1, <3>2, <3>3, <3>4, <3>5, <3>6
  <2>6. \A e \in Dispatcher \ {d} : called'[e] = called[e]
    BY <1>1, <2>4
  <2> QED
    BY <2>1, <2>3, <2>4, <2>5, <2>6, CallsWalk
<1>6. CASE UNCHANGED vars
  BY <1>6 DEF vars, WalkInv
<1>7. ASSUME NEW d \in Dispatcher, DispatchStep(d) PROVE WalkInv'
  BY <1>4, <1>5, <1>7 DEF DispatchStep
<1> QED
  BY <1>6, <1>7, RegisterWalk, UnregisterWalk DEF Next

LEMMA WalkInductive == Spec => [](TypeOK /\ WalkInv)
<1> USE HandlerAssumption, Same
<1>1. Init => TypeOK /\ WalkInv
  <2> SUFFICES ASSUME Init PROVE WalkInv
    BY TypeInit
  <2>1. TypeOK
    BY TypeInit
  <2>2. L!IsList(NULL, NULL, next)
    BY <2>1, L!ReachNull DEF TypeOK, L!IsList
  <2> QED
    BY <2>2 DEF Init, WalkInv
<1>2. Init => BusyIsCalled
  BY TypeInit
<1>3. TypeOK /\ BusyIsCalled /\ WalkInv /\ [Next]_vars => TypeOK' /\ BusyIsCalled' /\ WalkInv'
  BY TypeNext, WalkNext
<1> QED
  BY <1>1, <1>2, <1>3, PTL DEF Spec

\* The handlers form a list, and the handler that a dispatch calls stays in it,
\* unless another dispatch overlaps that.
THEOREM WalkSafe == Spec => []WalkIsListed
<1>1. TypeOK /\ WalkInv => WalkIsListed
  BY Same DEF WalkInv, WalkIsListed, Registered
<1> QED
  BY <1>1, WalkInductive, PTL

\* A dispatch that no other overlaps calls no handler twice.
THEOREM NoSecondCall == Spec => []CalledOnce
<1>1. TypeOK /\ WalkInv => CalledOnce
  BY Same DEF WalkInv, CalledOnce
<1> QED
  BY <1>1, WalkInductive, PTL

\* A dispatch that no other overlaps has ever fewer handlers ahead.
LEMMA EndsStep ==
  ASSUME TypeOK, WalkInv, [Next]_vars, NEW d \in Dispatcher,
         cur[d] # NULL, cur'[d] # NULL, alone'[d]
  PROVE  /\ Ahead(d)' \subseteq Ahead(d)
         /\ cur'[d] # cur[d] => cur'[d] \in Ahead(d) \ Ahead(d)'
<1> DEFINE c == cur[d]
           A == L!ReachFrom(next[c], next)
<1> USE HandlerAssumption, Same
<1>1. /\ next \in [Handler -> L!Link] /\ g_pHandlers \in L!Link
      /\ cur \in [Dispatcher -> L!Link] /\ c \in Handler /\ next[c] \in L!Link
      /\ Ahead(d) = A /\ Ahead(d)' = L!ReachFrom(next'[cur'[d]], next')
  BY DEF TypeOK, Ahead
<1>2. ASSUME NEW h \in Handler, Register(h)
      PROVE  cur'[d] = c /\ Ahead(d)' \subseteq A
  <2>1. /\ cur'[d] = c /\ alone[d]
        /\ next'[h] = g_pHandlers /\ \A p \in Handler \ {h} : next'[p] = next[p]
        /\ next' \in [Handler -> L!Link] /\ h \notin L!ReachFrom(g_pHandlers, next)
    BY <1>1, <1>2 DEF Register, AlreadyExists, Registered, dispatch
  <2>2. c \in L!ReachFrom(g_pHandlers, next)
    BY <2>1 DEF WalkInv
  <2>3. A \subseteq L!ReachFrom(g_pHandlers, next) /\ A \subseteq Handler
    BY <1>1, <2>2, L!ReachOnward, L!ReachLeast
  <2>4. \A p \in A : next'[p] = next[p]
    BY <2>1, <2>3
  <2>5. L!ReachFrom(next[c], next') = A
    BY <1>1, <2>1, <2>4, L!ReachFrame
  <2> QED
    BY <1>1, <2>1, <2>2, <2>5
<1>3. ASSUME NEW h \in Handler, Unregister(h)
      PROVE  cur'[d] = c /\ Ahead(d)' \subseteq A
  <2>1. cur'[d] = c /\ alone[d] /\ next' = RemovedNext(h) /\ ~busy[h]
    BY <1>3 DEF Unregister, IsBusy, dispatch
  <2>2. next' \in [Handler -> L!Link]
        /\ \A x \in Handler : next'[x] = next[x] \/ (next[x] = h /\ next'[x] = next[h])
    BY <1>1, <2>1 DEF RemovedNext
  <2>3. \A x \in L!Link : L!ReachFrom(x, next') \subseteq L!ReachFrom(x, next)
    BY <1>1, <2>2, L!ReachSkips
  <2>4. L!ReachFrom(next'[c], next') \subseteq L!ReachFrom(next'[c], next)
    BY <1>1, <2>2, <2>3
  <2>5. L!ReachFrom(next'[c], next) \subseteq A
    <3>1. CASE next'[c] = next[c]
      BY <3>1
    <3>2. CASE next[c] = h /\ next'[c] = next[h]
      <4>1. h \in L!ReachFrom(h, next)
        BY <1>1, L!ReachLeast DEF L!ClosedFrom
      <4> QED
        BY <1>1, <3>2, <4>1, L!ReachOnward
    <3> QED
      BY <1>1, <2>2, <3>1, <3>2
  <2> QED
    BY <1>1, <2>1, <2>4, <2>5
<1>4. ASSUME NEW e \in Dispatcher, NEW types \in SUBSET EventType, NEW b \in BOOLEAN,
             Dispatch(e, types, b)
      PROVE  cur'[d] = c /\ Ahead(d)' \subseteq A
  <2>1. e # d /\ UNCHANGED next
    BY <1>4 DEF Dispatch
  <2>2. cur' = [cur EXCEPT ![e] = FirstMatch(g_pHandlers, types)]
    BY <1>4 DEF Dispatch, Calls
  <2>3. cur'[d] = c
    BY <1>1, <2>1, <2>2, Zenon
  <2> QED
    BY <1>1, <2>1, <2>3
<1>5. ASSUME NEW e \in Dispatcher, NEW failed \in BOOLEAN, HandlerReturns(e, failed)
      PROVE  Ahead(d)' \subseteq A /\ cur'[d] \in A \ Ahead(d)'
  <2>1. /\ cur[e] # NULL /\ UNCHANGED <<g_pHandlers, next>>
        /\ alone' = [f \in Dispatcher |-> f \in StillAlone]
    BY <1>5 DEF HandlerReturns
  <2>2. alone[d]
    BY <2>1 DEF StillAlone
  <2>3. /\ \A f \in Dispatcher \ {d} : cur[f] = NULL
        /\ c \in L!ReachFrom(g_pHandlers, next)
    BY <2>2 DEF WalkInv
  <2>4. e = d
    BY <2>1, <2>3
  <2> DEFINE first == FirstMatch(next[c], mask[d])
  <2>5. first \in A \cup {NULL} /\ A \subseteq Handler
    BY <1>1, FirstMatchType, L!ReachLeast
  <2>6. cur'[d] \in {NULL, first}
    <3>1. PICK n \in {NULL, first} : cur' = [cur EXCEPT ![d] = n]
      BY <1>5, <2>4 DEF HandlerReturns, Calls
    <3> HIDE DEF first
    <3> QED
      BY <1>1, <3>1
  <2>7. cur'[d] \in A
    BY <2>5, <2>6
  <2>8. L!ReachFrom(next[cur'[d]], next) \subseteq A
    BY <1>1, <2>7, L!ReachOnward
  <2>9. A \subseteq L!ReachFrom(g_pHandlers, next)
    BY <1>1, <2>3, L!ReachOnward
  <2>10. PICK t \in L!Link : L!IsList(g_pHandlers, t, next)
    BY DEF WalkInv
  <2>11. cur'[d] \notin L!ReachFrom(next[cur'[d]], next)
    BY <1>1, <2>7, <2>9, <2>10, L!NeverAhead
  <2> QED
    BY <1>1, <2>1, <2>7, <2>8, <2>11
<1>6. CASE UNCHANGED vars
  BY <1>1, <1>6 DEF vars
<1> HIDE DEF c, A
<1> QED
  BY <1>1, <1>2, <1>3, <1>4, <1>5, <1>6 DEF Next, DispatchStep, c, A

\* A dispatch that no other overlaps walks towards the end of the list.
THEOREM WalkTerminates == Spec => WalkEnds
<1>1. TypeOK /\ WalkInv /\ [Next]_vars =>
        [\A d \in Dispatcher :
           cur[d] # NULL /\ cur'[d] # NULL /\ alone'[d] =>
             /\ Ahead(d)' \subseteq Ahead(d)
             /\ cur'[d] # cur[d] => cur'[d] \in Ahead(d) \ Ahead(d)']_vars
  BY EndsStep
<1> QED
  BY <1>1, WalkInductive, PTL DEF Spec, WalkEnds

-----------------------------------------------------------------------------
(* No handler is missed, however many dispatches overlap: what a dispatch  *)
(* has still to call is registered, and ahead of where it stands even when *)
(* that has left the list.                                                 *)

MissInv ==
  \A d \in Dispatcher :
    /\ due[d] \subseteq L!ReachFrom(g_pHandlers, next)
    /\ \A h \in due[d] : TypeMask[h] \cap mask[d] # {}
    /\ IF cur[d] # NULL
         THEN due[d] \subseteq L!ReachFrom(next[cur[d]], next)
         ELSE ret[d] = "ok" \/ ~breaks[d] => due[d] = {}

LEMMA RegisterMiss ==
  ASSUME TypeOK, WalkInv, MissInv, NEW h \in Handler, Register(h)
  PROVE  MissInv'
<1> DEFINE R == L!ReachFrom(g_pHandlers, next)
<1> USE HandlerAssumption, Same
<1>1. /\ g_pHandlers \in L!Link /\ next \in [Handler -> L!Link] /\ next' \in [Handler -> L!Link]
      /\ cur \in [Dispatcher -> L!Link] /\ g_pHandlers' = h
      /\ next'[h] = g_pHandlers /\ \A p \in Handler \ {h} : next'[p] = next[p]
      /\ UNCHANGED <<cur, mask, breaks, ret, due>>
  BY DEF TypeOK, Register, dispatch
<1>2. h \in Handler \ R /\ R \subseteq Handler
  BY <1>1, L!ReachLeast DEF Register, AlreadyExists, Registered
<1>3. PICK t \in L!Link : L!IsList(g_pHandlers, t, next)
  BY DEF WalkInv
<1>4. L!ReachFrom(h, next') = R \cup {h}
  BY <1>1, <1>2, <1>3, L!PushFront
<1>5. L!ReachFrom(g_pHandlers, next') = R
  BY <1>1, <1>2, L!ReachFrame
<1>6. ASSUME NEW d \in Dispatcher, cur[d] # NULL
      PROVE  due[d] \subseteq L!ReachFrom(next'[cur[d]], next')
  <2>1. cur[d] \in Handler /\ due[d] \subseteq R /\ due[d] \subseteq L!ReachFrom(next[cur[d]], next)
    BY <1>1, <1>6 DEF MissInv
  <2>2. CASE cur[d] = h
    BY <1>1, <1>5, <2>1, <2>2
  <2>3. CASE cur[d] # h
    <3>1. next'[cur[d]] = next[cur[d]] /\ next[cur[d]] \in L!Link
      BY <1>1, <2>1, <2>3
    <3>2. CASE h \in L!ReachFrom(next[cur[d]], next')
      <4>1. L!ReachFrom(next'[h], next') \subseteq L!ReachFrom(next[cur[d]], next')
        BY <1>1, <3>1, <3>2, L!ReachOnward
      <4> QED
        BY <1>1, <1>5, <2>1, <3>1, <4>1
    <3>3. CASE h \notin L!ReachFrom(next[cur[d]], next')
      <4>1. L!ReachFrom(next[cur[d]], next) \subseteq L!ReachFrom(next[cur[d]], next')
        BY <1>1, <3>1, <3>3, L!ReachRelinked
      <4> QED
        BY <2>1, <3>1, <4>1
    <3> QED
      BY <3>2, <3>3
  <2> QED
    BY <2>2, <2>3
<1> QED
  BY <1>1, <1>4, <1>6 DEF MissInv

LEMMA UnregisterMiss ==
  ASSUME TypeOK, WalkInv, MissInv, NEW h \in Handler, Unregister(h)
  PROVE  MissInv'
<1> USE HandlerAssumption, Same
<1>1. /\ g_pHandlers \in L!Link /\ next \in [Handler -> L!Link] /\ cur \in [Dispatcher -> L!Link]
      /\ next' = RemovedNext(h) /\ UNCHANGED <<cur, mask, breaks, ret>>
      /\ \A d \in Dispatcher : due'[d] = due[d] \ {h}
      /\ h \in L!ReachFrom(g_pHandlers, next)
  BY DEF TypeOK, Unregister, Registered, dispatch
<1>2. /\ next' \in [Handler -> L!Link]
      /\ \A x \in Handler : next'[x] = next[x] \/ (next[x] = h /\ next'[x] = next[h])
  BY <1>1 DEF RemovedNext
<1>3. next[h] # h
  <2>1. PICK t \in L!Link : L!IsList(g_pHandlers, t, next)
    BY DEF WalkInv
  <2> QED
    BY <1>1, <2>1, L!NoSelfLoop
<1>4. ASSUME NEW d \in Dispatcher, cur[d] # NULL
      PROVE  due'[d] \subseteq L!ReachFrom(next'[cur[d]], next')
  <2>1. cur[d] \in Handler /\ due[d] \subseteq L!ReachFrom(next[cur[d]], next)
    BY <1>1, <1>4 DEF MissInv
  <2>2. L!ReachFrom(next[cur[d]], next) \ {h} \subseteq L!ReachFrom(next'[cur[d]], next')
    BY <1>1, <1>2, <1>3, <2>1, L!ReachUnlinked
  <2> QED
    BY <1>1, <2>1, <2>2
<1>5. L!ReachFrom(g_pHandlers', next') = L!ReachFrom(g_pHandlers, next) \ {h}
  BY UnregisterList
<1> QED
  BY <1>1, <1>4, <1>5 DEF MissInv

LEMMA DispatchMiss ==
  ASSUME TypeOK, MissInv, NEW d \in Dispatcher, NEW types \in SUBSET EventType,
         NEW b \in BOOLEAN, Dispatch(d, types, b)
  PROVE  MissInv'
<1> DEFINE first == FirstMatch(g_pHandlers, types)
           M == Matches(g_pHandlers, types)
<1> USE HandlerAssumption, Same
<1>1. /\ g_pHandlers \in L!Link /\ next \in [Handler -> L!Link] /\ cur \in [Dispatcher -> L!Link]
      /\ mask \in [Dispatcher -> SUBSET EventType] /\ due \in [Dispatcher -> SUBSET Handler]
      /\ breaks \in [Dispatcher -> BOOLEAN] /\ ret \in [Dispatcher -> {"ok", "error"}]
  BY DEF TypeOK
<1>2. /\ M \subseteq L!ReachFrom(g_pHandlers, next) /\ M \subseteq Handler
      /\ \A h \in M : TypeMask[h] \cap types # {}
  BY <1>1, L!ReachLeast DEF Matches
<1>3. IF M = {} THEN first = NULL ELSE first \in M /\ M \subseteq L!ReachFrom(first, next)
  BY <1>1, FirstMatchIs
<1>4. /\ UNCHANGED <<g_pHandlers, next>>
      /\ cur' = [cur EXCEPT ![d] = first] /\ mask' = [mask EXCEPT ![d] = types]
      /\ breaks' = [breaks EXCEPT ![d] = b] /\ ret' = [ret EXCEPT ![d] = "ok"]
      /\ due' = [due EXCEPT ![d] = M \ {first}]
  BY DEF Dispatch, Calls
<1> HIDE DEF first, M
<1>5. first # NULL => M \ {first} \subseteq L!ReachFrom(next[first], next)
  <2> SUFFICES ASSUME first # NULL PROVE M \ {first} \subseteq L!ReachFrom(next[first], next)
    OBVIOUS
  <2>1. first \in M /\ M \subseteq L!ReachFrom(first, next)
    BY <1>3
  <2>2. L!ReachFrom(first, next) \subseteq {first} \cup L!ReachFrom(next[first], next)
    BY <1>1, <1>2, <2>1, L!ReachOnward
  <2> QED
    BY <2>1, <2>2
<1>6. first = NULL => M = {}
  BY <1>2, <1>3
<1> QED
  BY <1>1, <1>2, <1>4, <1>5, <1>6 DEF MissInv

LEMMA ReturnMiss ==
  ASSUME TypeOK, MissInv, NEW d \in Dispatcher, NEW failed \in BOOLEAN,
         HandlerReturns(d, failed)
  PROVE  MissInv'
<1> DEFINE c == cur[d]
           broken == failed /\ breaks[d]
           first == FirstMatch(next[c], mask[d])
           M == Matches(next[c], mask[d])
<1> USE HandlerAssumption, Same
<1>1. /\ g_pHandlers \in L!Link /\ next \in [Handler -> L!Link] /\ cur \in [Dispatcher -> L!Link]
      /\ mask \in [Dispatcher -> SUBSET EventType] /\ due \in [Dispatcher -> SUBSET Handler]
      /\ breaks \in [Dispatcher -> BOOLEAN] /\ ret \in [Dispatcher -> {"ok", "error"}]
  BY DEF TypeOK
<1>2. c # NULL /\ c \in Handler /\ next[c] \in L!Link
  BY <1>1 DEF HandlerReturns
<1>3. /\ due[d] \subseteq L!ReachFrom(next[c], next)
      /\ \A h \in due[d] : TypeMask[h] \cap mask[d] # {}
  BY <1>2 DEF MissInv
<1>4. due[d] \subseteq M /\ M \subseteq Handler
  BY <1>2, <1>3, <1>1, L!ReachLeast DEF Matches
<1>5. IF M = {} THEN first = NULL ELSE first \in M /\ M \subseteq L!ReachFrom(first, next)
  BY <1>1, <1>2, FirstMatchIs
<1> DEFINE n == IF broken THEN NULL ELSE first
<1>6. /\ UNCHANGED <<g_pHandlers, next, mask, breaks>>
      /\ cur' = [cur EXCEPT ![d] = n]
      /\ ret' = [ret EXCEPT ![d] = IF broken THEN "error" ELSE "ok"]
      /\ due' = [due EXCEPT ![d] = @ \ {n}]
  BY DEF HandlerReturns, Calls
<1>7. ~broken /\ first # NULL => due[d] \ {first} \subseteq L!ReachFrom(next[first], next)
  <2> SUFFICES ASSUME first # NULL PROVE due[d] \ {first} \subseteq L!ReachFrom(next[first], next)
    OBVIOUS
  <2> HIDE DEF first, M
  <2>1. first \in M /\ M \subseteq L!ReachFrom(first, next)
    BY <1>5
  <2>2. L!ReachFrom(first, next) \subseteq {first} \cup L!ReachFrom(next[first], next)
    BY <1>1, <1>4, <2>1, L!ReachOnward
  <2> QED
    BY <1>4, <2>1, <2>2
<1>8. ~broken /\ first = NULL => due[d] = {}
  BY <1>4, <1>5
<1>9. broken => breaks[d]
  OBVIOUS
<1> HIDE DEF first, M, broken
<1>10. ASSUME NEW e \in Dispatcher, e # d
       PROVE  cur'[e] = cur[e] /\ ret'[e] = ret[e] /\ due'[e] = due[e]
  BY <1>1, <1>6, <1>10
<1>11. cur'[d] = n /\ ret'[d] = (IF broken THEN "error" ELSE "ok") /\ due'[d] = due[d] \ {n}
  BY <1>1, <1>6
<1>12. IF n # NULL THEN due[d] \ {n} \subseteq L!ReachFrom(next[n], next)
                   ELSE ~broken => due[d] = {}
  BY <1>7, <1>8
<1> HIDE DEF n
<1> QED
  BY <1>6, <1>9, <1>10, <1>11, <1>12 DEF MissInv

\* No dispatch misses a handler.
THEOREM NobodyMissed == Spec => []NoneMissed
<1> USE HandlerAssumption, Same
<1>1. Init => MissInv
  BY DEF Init, MissInv
<1>2. TypeOK /\ WalkInv /\ MissInv /\ [Next]_vars => MissInv'
  <2> SUFFICES ASSUME TypeOK, WalkInv, MissInv, [Next]_vars PROVE MissInv'
    OBVIOUS
  <2>1. CASE UNCHANGED vars
    BY <2>1 DEF vars, MissInv
  <2>2. ASSUME NEW d \in Dispatcher, DispatchStep(d) PROVE MissInv'
    BY <2>2, DispatchMiss, ReturnMiss DEF DispatchStep
  <2> QED
    BY <2>1, <2>2, RegisterMiss, UnregisterMiss DEF Next
<1>3. MissInv => NoneMissed
  BY DEF MissInv, NoneMissed
<1> QED
  BY <1>1, <1>2, <1>3, WalkInductive, PTL DEF Spec
=============================================================================
