-------------------------------- MODULE SysEvent --------------------------------
(***************************************************************************)
(* System events (src/kd/sysmem/sysevent.c): a list of handlers, and a     *)
(* dispatch that walks it and calls the handlers of an event one by one.   *)
(*                                                                         *)
(* Everything but the call of a handler runs with interrupts suspended, so *)
(* an action is what happens between two calls.  During a call threads and *)
(* handlers go on to register, unregister and dispatch.  Calls that find   *)
(* nothing to do (an error return, sceKernelIsRegisterSysEventHandler) are *)
(* no steps.  gp, the event's number, name and parameter are left out.     *)
(***************************************************************************)
CONSTANTS
  Handler,      \* every SceSysEventHandler in the system
  NULL,         \* the null pointer
  EventType,    \* the bits of a type mask
  TypeMask,     \* the event types a handler is for
  Dispatcher    \* calls of sceKernelSysEventDispatch that can overlap

ASSUME HandlerAssumption == NULL \notin Handler
ASSUME MaskAssumption == TypeMask \in [Handler -> SUBSET EventType]

VARIABLES
  g_pHandlers,  \* the head of the list
  next,         \* handler->next, left as it was when a handler is unregistered
  busy,         \* handler->busy
  cur,          \* the handler a dispatch is calling, NULL outside the walk
  mask,         \* its ev_type_mask
  breaks,       \* its break_nonzero
  ret,          \* what it returned
  due,          \* the handlers it has still to call: for the event, registered
                \* when it began and not unregistered since
  called,       \* the handlers it has called, unless registered again since
  alone         \* whether no other dispatch has run since it began

dispatch == <<cur, mask, breaks, ret>>
vars == <<g_pHandlers, next, busy, cur, mask, breaks, ret, due, called, alone>>

List == INSTANCE PacketList WITH Packet <- Handler

Registered == List!ReachFrom(g_pHandlers, next)

TypeOK ==
  /\ g_pHandlers \in List!Link
  /\ next \in [Handler -> List!Link]
  /\ busy \in [Handler -> BOOLEAN]
  /\ cur \in [Dispatcher -> List!Link]
  /\ mask \in [Dispatcher -> SUBSET EventType]
  /\ breaks \in [Dispatcher -> BOOLEAN]
  /\ ret \in [Dispatcher -> {"ok", "error"}]
  /\ due \in [Dispatcher -> SUBSET Handler]
  /\ called \in [Dispatcher -> SUBSET Handler]
  /\ alone \in [Dispatcher -> BOOLEAN]
  /\ \A d \in Dispatcher : cur[d] \in Handler => TypeMask[cur[d]] \cap mask[d] # {}

Init ==
  /\ g_pHandlers = NULL
  /\ next = [h \in Handler |-> NULL]
  /\ busy = [h \in Handler |-> FALSE]
  /\ cur = [d \in Dispatcher |-> NULL]
  /\ mask = [d \in Dispatcher |-> {}]
  /\ breaks = [d \in Dispatcher |-> FALSE]
  /\ ret = [d \in Dispatcher |-> "ok"]
  /\ due = [d \in Dispatcher |-> {}]
  /\ called = [d \in Dispatcher |-> {}]
  /\ alone = [d \in Dispatcher |-> TRUE]

-----------------------------------------------------------------------------
AlreadyExistsNever(h) == FALSE
AlreadyExists(h) == h \in Registered

Register(h) ==
  /\ ~AlreadyExists(h)
  /\ busy' = [busy EXCEPT ![h] = FALSE]
  /\ next' = [next EXCEPT ![h] = g_pHandlers]
  /\ g_pHandlers' = h
  /\ called' = [d \in Dispatcher |-> called[d] \ {h}]
  /\ UNCHANGED <<dispatch, due, alone>>

IsBusyNever(h) == FALSE
IsBusy(h) == busy[h]

\* The links once h is gone: its predecessor, if any, skips it.
RemovedHead(h) == IF h = g_pHandlers THEN next[h] ELSE g_pHandlers
RemovedNextTwo(h) ==
  [p \in Handler |-> IF p \in Registered /\ next[p] = h /\ next[h] # NULL
                     THEN next[next[h]] ELSE next[p]]
RemovedNext(h) ==
  [p \in Handler |-> IF p \in Registered /\ next[p] = h THEN next[h] ELSE next[p]]

Unregister(h) ==
  /\ ~IsBusy(h)
  /\ h \in Registered
  /\ g_pHandlers' = RemovedHead(h)
  /\ next' = RemovedNext(h)
  /\ due' = [d \in Dispatcher |-> due[d] \ {h}]
  /\ UNCHANGED <<busy, dispatch, called, alone>>

-----------------------------------------------------------------------------
(* sceKernelSysEventDispatch.                                              *)

MatchesAll(h, types) == List!ReachFrom(h, next)
Matches(h, types) == {q \in List!ReachFrom(h, next) : TypeMask[q] \cap types # {}}

\* The first handler for one of the types that a walk from h meets.
FirstMatch(h, types) ==
  IF Matches(h, types) = {} THEN NULL
  ELSE CHOOSE q \in Matches(h, types) : Matches(h, types) \subseteq List!ReachFrom(q, next)

\* Dispatch d calls n, or returns if there is none.
CallsLeftBusy(d, n) ==
  /\ cur' = [cur EXCEPT ![d] = n]
  /\ busy' = [h \in Handler |-> IF h = n THEN TRUE
                                ELSE IF h = cur[d] /\ n # NULL THEN FALSE ELSE busy[h]]
Calls(d, n) ==
  /\ cur' = [cur EXCEPT ![d] = n]
  /\ busy' = [h \in Handler |-> IF h = n THEN TRUE
                                ELSE IF h = cur[d] THEN FALSE ELSE busy[h]]

\* The dispatches that no other overlaps once d has gone on: those not running,
\* and those that are the only one still.
StillAlone ==
  {e \in Dispatcher : cur'[e] # NULL => alone[e] /\ \A f \in Dispatcher \ {e} : cur'[f] = NULL}

Dispatch(d, types, break_nonzero) ==
  LET first == FirstMatch(g_pHandlers, types)
  IN  /\ cur[d] = NULL
      /\ Calls(d, first)
      /\ mask' = [mask EXCEPT ![d] = types]
      /\ breaks' = [breaks EXCEPT ![d] = break_nonzero]
      /\ ret' = [ret EXCEPT ![d] = "ok"]
      /\ due' = [due EXCEPT ![d] = Matches(g_pHandlers, types) \ {first}]
      /\ called' = [called EXCEPT ![d] = {first} \ {NULL}]
      /\ alone' = [e \in Dispatcher |-> e \in StillAlone]
      /\ UNCHANGED <<g_pHandlers, next>>

\* The handler returns, with ret < 0 if failed: the dispatch breaks, or goes on
\* from the handler's next pointer as it is now.
HandlerReturns(d, failed) ==
  LET broken == failed /\ breaks[d]
      n == IF broken THEN NULL ELSE FirstMatch(next[cur[d]], mask[d])
  IN  /\ cur[d] # NULL
      /\ Calls(d, n)
      /\ ret' = [ret EXCEPT ![d] = IF broken THEN "error" ELSE "ok"]
      /\ due' = [due EXCEPT ![d] = @ \ {n}]
      /\ called' = [called EXCEPT ![d] = IF n = NULL THEN {} ELSE @ \cup {n}]
      /\ alone' = [e \in Dispatcher |-> e \in StillAlone]
      /\ UNCHANGED <<g_pHandlers, next, mask, breaks>>

-----------------------------------------------------------------------------
DispatchStep(d) ==
  \/ \E types \in SUBSET EventType, b \in BOOLEAN : Dispatch(d, types, b)
  \/ \E failed \in BOOLEAN : HandlerReturns(d, failed)

Next ==
  \/ \E h \in Handler : Register(h) \/ Unregister(h)
  \/ \E d \in Dispatcher : DispatchStep(d)

Spec == Init /\ [][Next]_vars

-----------------------------------------------------------------------------
(* Properties.                                                             *)

\* The next pointers from g_pHandlers form a list, and no dispatch stands on a
\* handler that has left it: what Unregister is refused for by busy.  Not so of
\* dispatches that overlap, as the first to return from a handler clears busy.
WalkIsListed ==
  /\ \E t \in List!Link : List!IsList(g_pHandlers, t, next)
  /\ \A d \in Dispatcher : alone[d] /\ cur[d] # NULL => cur[d] \in Registered

\* A handler is busy only while a dispatch calls it, however the dispatch ends:
\* left busy, it could never be unregistered.
BusyIsCalled == \A h \in Handler : busy[h] => \E d \in Dispatcher : cur[d] = h

\* A dispatch misses no handler, however the list changes between its calls:
\* the handlers it has still to call lie ahead of it, and none is left when it
\* has returned, except when it was to break on an error and met one.
NoneMissed ==
  \A d \in Dispatcher :
    IF cur[d] # NULL
      THEN due[d] \subseteq List!ReachFrom(next[cur[d]], next)
      ELSE ret[d] = "ok" \/ ~breaks[d] => due[d] = {}

\* A dispatch calls no handler twice, unless that was registered again: the
\* handlers called lie behind.  Not so of dispatches that overlap.
CalledOnce ==
  \A d \in Dispatcher :
    alone[d] /\ cur[d] # NULL => called[d] \cap List!ReachFrom(next[cur[d]], next) = {}

\* A dispatch ends, although handlers are registered and unregistered for ever
\* while it runs: the handlers ahead of the one it calls never become more, and
\* are fewer when it goes on to another.  Not so of dispatches that overlap.
Ahead(d) == List!ReachFrom(next[cur[d]], next)
WalkEnds ==
  [][\A d \in Dispatcher :
       cur[d] # NULL /\ cur'[d] # NULL /\ alone'[d] =>
         /\ Ahead(d)' \subseteq Ahead(d)
         /\ cur'[d] # cur[d] => cur'[d] \in Ahead(d) \ Ahead(d)']_vars
=============================================================================
