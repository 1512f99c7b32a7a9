SPECIFICATION FairSpec
CONSTANTS
    a1 = a1
    a2 = a2
    Unset = Unset
    Malformed = Malformed
    DefaultInterval = 60
    Apps = {a1, a2}
    MaxChanges = 2
    MaxFaults = 0
    Snapshots <- HungSnapshots
CHECK_DEADLOCK FALSE
PROPERTIES
    AnsweringAppsMonitored
