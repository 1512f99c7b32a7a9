----------------------- MODULE AppControllerRefinement -----------------------
(***************************************************************************)
(* The controller implements Polling: a notice, a queue entry and a timer  *)
(* are all polls that are owed, what the cache holds is what the operator  *)
(* knows, and the stored status is the report.                             *)
(***************************************************************************)
EXTENDS AppController

(* No status is the mark of an object that does not exist.                 *)
ASSUME AbsentAssumption == Unset \notin Status

Report == [a \in Apps |-> IF Exists(store[a]) THEN store[a].status ELSE Unset]

Known == {a \in Apps : Exists(cached[a])}

Due == notices \union queue \union waiting

Resting == {a \in Apps : GaveUp(a)}

Abstract == INSTANCE Polling WITH
    Reports <- Status, Blank <- EmptyStatus, Absent <- Unset, Nobody <- Unset,
    report <- Report, known <- Known, due <- Due, polled <- worker.app,
    published <- worker.stage = "returning", resting <- Resting

(* Hiding caches, queue and timers, the controller is a Polling: it polls  *)
(* one application at a time, publishes once in a poll and only of the     *)
(* application it polls, and forgets none it knows (Reconcile, add,        *)
(* UpdateFalsePredicate).                                                  *)
ImplementsPolling == Abstract!Spec
=============================================================================
