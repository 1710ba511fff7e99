SPECIFICATION FairSpec
CONSTANTS
    a1 = a1
    a2 = a2
    a3 = a3
    a4 = a4
    NoNode = NoNode
    NoKey = NoKey
    NoPacket = NoPacket
    BroadcastId = BroadcastId
    Addr = {a1, a2}
    Loaded <- AllLoaded
    LenHolds = {"enough"}
    Discoverers = {a1}
    Stoppable = {a1}
    Faults = {"recvfrom"}
    Repeatable = {"PublicKeyRequest"}
    MaxRepeats = 2
    MaxBoots = 2
INVARIANTS
    KeysBeforeUse
    OnlyReadyIsEncrypted
    NoSelfEntry
PROPERTIES
    Quiesces
CHECK_DEADLOCK FALSE
