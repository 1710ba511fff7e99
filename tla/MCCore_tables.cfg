SPECIFICATION Spec
CONSTANTS
    n1 = n1
    n2 = n2
    x1 = x1
    x2 = x2
    x3 = x3
    o1 = o1
    o2 = o2
    o3 = o3
    Id = {n1, n2}
    Addr = {x1, x2, x3}
    Object = {o1, o2, o3}
    Relock = "throws"
    Nobody = Nobody
    Null = Null
SYMMETRY Interchangeable
INVARIANTS
    CoreInv
PROPERTIES
    FirstNodeStays
CHECK_DEADLOCK FALSE
