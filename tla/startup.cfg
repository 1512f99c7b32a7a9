SPECIFICATION Spec
CONSTANTS
    Procs = {p1, p2}
    Settings <- MCSettings
    Clusters <- MCClusters
    Annotations <- MCAnnotations
    Absent = Absent
    Junk = Junk
    Second = 10
    Limit = 1000
    MaxChanges = 1
    MaxFaults = 1
INVARIANTS TypeOK OneReconciler HandlersSeeApps PollsAgain
PROPERTY ComesUp
