--------------------------- MODULE MCAppController ---------------------------
(* Values of the constants of AppController for TLC.                       *)
EXTENDS AppControllerRefinement, TLC

CONSTANTS a1, a2

Snapshot(available, replicas, exchanges, poll) ==
    [listed |-> TRUE, available |-> available, replicas |-> replicas,
     exchanges |-> exchanges, poll |-> poll, answers |-> TRUE]

Quiet == Snapshot(0, 0, Unset, Unset)
Small == Snapshot(1, 1, 1, Unset)
Broken == Snapshot(0, 1, Unset, Malformed)
Stopped == Snapshot(1, 1, 2, 0)
Hidden == [Quiet EXCEPT !.listed = FALSE]
Hung == [Small EXCEPT !.answers = FALSE]

AllSnapshots == {Small, Broken, Stopped, Hidden}
FairSnapshots == {Small, Quiet, Hidden}
EventSnapshots == {Small, Quiet}
HungSnapshots == {Small, Hung}

AppSymmetry == Permutations(Apps)
=============================================================================
