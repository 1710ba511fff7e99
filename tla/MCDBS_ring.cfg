SPECIFICATION Spec
CONSTANTS
    n1 = n1
    n2 = n2
    MaxPoint = 6
    NodeId = {n1, n2}
    Self = n1
    Capacity = {0, 2}
    MaxVirtual = 2
INVARIANTS
    StoreInv
    LookupIsNearest
PROPERTIES
    SurvivorsStay
    NewcomersOnlyInsert
