---------------------------- MODULE PollingProofs ----------------------------
(***************************************************************************)
(* The abstract specification keeps what it promises.                      *)
(***************************************************************************)
EXTENDS Polling, TLAPS

Owed == known \subseteq Apps /\ PollsOwed

(* An operator that behaves like Polling forgets no application: whatever  *)
(* it knows of is owed a poll, being polled, or at rest on its own demand  *)
(* (the promise that Reconcile keeps by always asking for its next call).  *)
THEOREM NothingOwedIsLost ==
    ASSUME Nobody \notin Apps
    PROVE  Spec => []PollsOwed
<1>1. Init => Owed
    BY DEF Init, Owed, PollsOwed
<1>2. Owed /\ [Next]_vars => Owed'
    <2> SUFFICES ASSUME Owed, [Next]_vars PROVE Owed'
        OBVIOUS
    <2> USE DEF Owed, PollsOwed
    <2>1. ASSUME NEW a \in Apps, Appear(a) \/ Vanish(a) \/ Publish(a) PROVE Owed'
        BY <2>1 DEF Appear, Vanish, Publish
    <2>2. ASSUME NEW a \in Apps, Learn(a) PROVE Owed'
        BY <2>2 DEF Learn
    <2>3. ASSUME NEW a \in Apps, Begin(a) \/ Drop(a) \/ Postpone(a) PROVE Owed'
        BY <2>3 DEF Begin, Drop, Postpone, Attempt
    <2>4. ASSUME NEW a \in Apps, Finish(a) PROVE Owed'
        BY <2>4 DEF Finish
    <2>5. CASE StartAgain
        BY <2>5 DEF StartAgain
    <2>6. CASE UNCHANGED vars
        BY <2>6 DEF vars
    <2> QED
        BY <2>1, <2>2, <2>3, <2>4, <2>5, <2>6 DEF Next
<1> QED
    BY <1>1, <1>2, PTL DEF Spec, Owed
=============================================================================
