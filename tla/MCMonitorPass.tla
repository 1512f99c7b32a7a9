---------------------------- MODULE MCMonitorPass ----------------------------
(* Values of the constants of MonitorPass for TLC: the pods are alike.     *)
EXTENDS MonitorPass, TLC

CONSTANTS p1, p2

Symmetry == Permutations(Pods)

(* The bounds are not all used up together: as many exchanges as they      *)
(* allow go with one upset or one fault, one less with both.               *)
Budget == work + upsets + faults <= MaxExchanges + 1
=============================================================================
