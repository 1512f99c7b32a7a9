-------------------------- MODULE MCSyntheticImport --------------------------
(* Values of the constants of SyntheticImport for TLC.                     *)
EXTENDS SyntheticImport

CONSTANTS w1, w2, o1, o2, orders, billing

OneKind == [w \in Workloads |-> "Deployment"]
TwoKinds == [w \in Workloads |-> IF w = w1 THEN "Deployment" ELSE "CronJob"]
=============================================================================
