SPECIFICATION FairDaemonSpec
CONSTANTS
    MaxKeys = 2
    Faults = {"generate", "open", "write"}
    Absent = Absent
    Torn = Torn
    Null = Null
    Unset = Unset
    Unreadable = Unreadable
    NotScalar = NotScalar
    Ipv4 = {"0.0.0.0", "10.0.0.1", "10.0.0.2"}
    Launch <- Launches
    CoreLoop = CoreLoop
    NetworkLoop = NetworkLoop
INVARIANTS
    KeyInv
    PairMatches
    SettingsAsGiven
    RefusedForAReason
    IdentityFirst
    ToldIsJoined
PROPERTIES
    KeysStay
    InterruptEnds
