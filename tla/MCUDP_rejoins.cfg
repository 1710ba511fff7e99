SPECIFICATION FairSpec
CONSTANTS
    a1 = a1
    a2 = a2
    a3 = a3
    a4 = a4
    NoNode = NoNode
    NoKey = NoKey
    NoPacket = NoPacket
    BroadcastId = BroadcastId
    Addr = {a1, a2}
    Loaded <- AllLoaded
    LenHolds = {"enough"}
    Discoverers = {a1, a2}
    Stoppable = {a2}
    Faults = {}
    Repeatable = {}
    MaxRepeats = 0
    MaxBoots = 2
PROPERTIES
    PeersRejoin
