SPECIFICATION Spec
SYMMETRY Symmetry
CONSTRAINT Budget
CONSTANTS
    p1 = p1
    p2 = p2
    None = None
    Replicas = 1
    Pods = {p1, p2}
    Named = {p1, p2}
    Answers = {"UP"}
    ErrPerc = 50
    WarnPerc = 75
    MaxExchanges = 3
    MaxUpsets = 1
    MaxFaults = 1
INVARIANTS
    TypeOK
    ExactWhenMonitored
    SeverityHonest
    ConditionsDistinct
PROPERTIES
    PercentageKept
