SPECIFICATION Spec
CONSTANTS
    a1 = a1
    a2 = a2
    Unset = Unset
    Malformed = Malformed
    DefaultInterval = 60
    Apps = {a1}
    MaxChanges = 2
    MaxFaults = 1
    Snapshots <- EventSnapshots
CHECK_DEADLOCK FALSE
PROPERTIES
    PhaseAnnounced
