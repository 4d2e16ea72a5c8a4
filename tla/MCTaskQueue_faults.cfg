SPECIFICATION Spec
CONSTANTS
    o1 = o1
    o2 = o2
    p1 = p1
    p2 = p2
    Nil = Nil
    Orders = {o1}
    Conditional = {o1}
    Profiles = {p1, p2}
    Owner <- MCOwner
    Rank <- MCRank
    TotalSize = 3
    MaxPuts = 4
    MaxDrops = 1
    MaxCrashes = 1
INVARIANTS
    QueueKeepsTasks
CHECK_DEADLOCK FALSE
