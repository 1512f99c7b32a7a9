SPECIFICATION FairSpec
CONSTANTS
    w1 = w1
    w2 = w2
    o1 = o1
    o2 = o2
    orders = orders
    billing = billing
    None = None
    Workloads = {w1}
    Kinds = {"Deployment"}
    KindOf <- OneKind
    Names = {orders}
    ValidNames = {orders}
    Operators = {o1}
    MaxChanges = 3
    MaxGaps = 0
    MaxFaults = 0
CHECK_DEADLOCK FALSE
PROPERTIES
    LabelImports
