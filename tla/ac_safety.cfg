SPECIFICATION Spec
CONSTANTS
    a1 = a1
    a2 = a2
    Apps = {a1, a2}
    Unset = Unset
    Malformed = Malformed
    DefaultInterval = 60
    MaxChanges = 3
    MaxFaults = 1
    Snapshots <- AllSnapshots
SYMMETRY AppSymmetry
CHECK_DEADLOCK FALSE
INVARIANTS
    TypeOK
    NoAppForgotten
    TransitionsAnnounced
PROPERTIES
    FreshPassExact
    PassesOnlyPatch
    ImplementsPolling
