SPECIFICATION Spec
CONSTANTS
    a1 = a1
    a2 = a2
    a3 = a3
    a4 = a4
    NoNode = NoNode
    NoKey = NoKey
    NoPacket = NoPacket
    BroadcastId = BroadcastId
    Addr = {a1, a2}
    Loaded <- AllLoaded
    LenHolds = {"enough", "too little"}
    Discoverers = {a1, a2}
    Stoppable = {a1, a2}
    Faults = {"loss", "reorder", "recvfrom"}
    Repeatable = {"PublicKeyReply", "EncryptionContext", "Ready", "Discovery"}
    MaxRepeats = 1
    MaxBoots = 1
INVARIANTS
    HandshakeInv
    MutualConnect
PROPERTIES
    HandshakeOnlyAdvances
    NothingRetried
    ImplementsSession
CHECK_DEADLOCK FALSE
