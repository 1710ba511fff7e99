SPECIFICATION FairSpec
CONSTANTS
    n1 = n1
    n2 = n2
    x1 = x1
    x2 = x2
    x3 = x3
    o1 = o1
    o2 = o2
    o3 = o3
    Id = {n1, n2}
    Addr = {x1, x2}
    Object = {o1, o2}
    Relock = "blocks"
    Nobody = Nobody
    Null = Null
PROPERTIES
    RemovedNodesLeave
CHECK_DEADLOCK FALSE
