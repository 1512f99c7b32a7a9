SPECIFICATION Spec
CONSTANTS
    w1 = w1
    w2 = w2
    o1 = o1
    o2 = o2
    orders = orders
    billing = billing
    None = None
    Workloads = {w1, w2}
    Kinds = {"Deployment", "CronJob"}
    KindOf <- TwoKinds
    Names = {orders, billing}
    ValidNames = {orders}
    Operators = {o1, o2}
    MaxChanges = 3
    MaxGaps = 1
    MaxFaults = 1
CHECK_DEADLOCK FALSE
INVARIANTS
    TypeOK
    ImportTracked
    RemovalTracked
