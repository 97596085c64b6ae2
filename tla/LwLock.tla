--------------------------------- MODULE LwLock ---------------------------------
(***************************************************************************)
(* What a lightweight mutex promises, without ll / sc, link bit or kernel: *)
(* one owner with a count, and sleepers who get the lock in the order in   *)
(* which they fell asleep, before anybody who comes later.  LwMutex        *)
(* implements this specification (LwMutexRefinement).                      *)
(***************************************************************************)
EXTENDS Integers, Sequences

CONSTANTS Thread, NULL, Counts, MaxCount

VARIABLES
  flags,      \* what the lock was created with
  owner,      \* who has it, or NULL
  held,       \* how often
  sleepers    \* who sleeps until it is handed over

vars == <<flags, owner, held, sleepers>>

LegalCount(c) == c = 1 \/ "recursive" \in flags

Init ==
  /\ flags \in SUBSET {"recursive"}
  /\ owner = NULL
  /\ held = 0
  /\ sleepers = <<>>

\* Nobody takes a free lock while somebody sleeps on it.
Take(t, c) ==
  /\ owner = NULL /\ sleepers = <<>> /\ LegalCount(c)
  /\ owner' = t
  /\ held' = c
  /\ UNCHANGED <<flags, sleepers>>

\* The owner of a recursive lock takes it again.
TakeAgain(c) ==
  /\ owner # NULL /\ "recursive" \in flags
  /\ held' = held + c /\ held' <= MaxCount
  /\ UNCHANGED <<flags, owner, sleepers>>

Sleep(t) ==
  /\ t # owner /\ \A i \in DOMAIN sleepers : sleepers[i] # t
  /\ sleepers' = Append(sleepers, t)
  /\ UNCHANGED <<flags, owner, held>>

\* The owner gives c back; with the last of it the lock is free.
Give(c) ==
  /\ owner # NULL
  /\ held' = held - c /\ held' >= 0
  /\ owner' = IF held' = 0 THEN NULL ELSE owner
  /\ UNCHANGED <<flags, sleepers>>

\* A free lock is handed to whoever has slept longest.
HandOver(c) ==
  /\ owner = NULL /\ sleepers # <<>> /\ LegalCount(c)
  /\ owner' = Head(sleepers)
  /\ held' = c
  /\ sleepers' = Tail(sleepers)
  /\ flags' = flags

Next ==
  \E c \in Counts :
    \/ \E t \in Thread : Take(t, c) \/ Sleep(t)
    \/ TakeAgain(c)
    \/ Give(c)
    \/ HandOver(c)

Spec == Init /\ [][Next]_vars
=============================================================================
