------------------------------ MODULE GeRefinement ------------------------------
(***************************************************************************)
(* GeQueue implements GeService.  isBusy tells the lists that have been    *)
(* begun; the one that has ended is known by its callback.                 *)
(***************************************************************************)
EXTENDS GeQueue

Begun == {dl \in Active : isBusy[dl]}
Running == IF curRunning # NULL /\ state[curRunning] = "running" THEN curRunning ELSE NULL
Ended == IF handler.at = "finish" THEN handler.dl ELSE NULL

Service ==
  INSTANCE GeService WITH queue <- active, begun <- Begun, running <- Running, ended <- Ended

\* The queue operations, the interrupt handlers and the callbacks, in any order,
\* execute the lists in the order of the queue, end only the list that is executed,
\* and let no list that has been begun go before its end.
ImplementsService == Service!Spec
=============================================================================
