SPECIFICATION CMSafeSpec
CONSTANTS
    NoSock = NoSock
    Socks = {s1, s2, s3}
    PortBase = 2
    PortSpan = 2
    Slots = 3
    Timeout <- EstablishedSlots
    CyclesPerMs = 100
    ResolutionMs = 10
    TickMs = 10
    Established = 20
    MaxLag = 1
    MaxEntries = 2
    Fetches = FALSE
INVARIANTS
    FreePortsUnused
    SocksAndPortsAgree
    TimerArmed
    NoPortLeak
    NoPanic
    TimersAreCurrent
PROPERTIES
    NoEarlyTimeout
    ImplementsPortPool
SYMMETRY SockSymmetry
