SPECIFICATION FairSpec
CONSTANTS
    a1 = a1
    a2 = a2
    Unset = Unset
    Malformed = Malformed
    DefaultInterval = 60
    Apps = {a1}
    MaxChanges = 4
    MaxFaults = 2
    Snapshots <- FairSnapshots
CHECK_DEADLOCK FALSE
PROPERTIES
    Converges
    ForgetsDeleted
