SPECIFICATION CMSpec
CONSTANTS
    NoSock = NoSock
    Socks = {s1, s2}
    PortBase = 2
    PortSpan = 2
    Slots = 3
    Timeout <- EstablishedSlots
    CyclesPerMs = 100
    ResolutionMs = 10
    TickMs = 10
    Established = 10
    MaxLag = 2
    MaxEntries = 1
    Fetches = TRUE
INVARIANTS
    FreePortsUnused
    SocksAndPortsAgree
    TimerArmed
PROPERTIES
    NoEarlyTimeout
    EveryConnectionEnds
    ImplementsPortPool
CHECK_DEADLOCK FALSE
