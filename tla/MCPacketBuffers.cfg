SPECIFICATION PBSpec
CONSTANTS
    NoSock = NoSock
    Socks = {s1, s2}
    PortBase = 0
    PortSpan = 2
    Slots = 2
    Timeout = 1
    MaxLag = 1
    MaxEntries = 1
    Fetches = FALSE
    SeqMod = 2
    Bytes = {"b"}
    ISNs = {0}
    ClientSeqs = {0, 1}
    ServerSeqs = {0, 1}
    Ackns = {0, 1}
    ClientSegs <- AllClientSegs
    ServerSegs <- AllServerSegs
    Servers = {0, 1}
    f_select_server <- AnyServer
    f_process_payload_c_s <- Unprocessed
    detailed_records = TRUE
    PoolSize = 3
    BatchSize = 2
INVARIANTS
    CMTypeOK
    DPTypeOK
    SidesAgree
    NoZombie
    PayloadPending
    CompletedTogether
    GetPduSucceeds
PROPERTIES
    OffsetStable
    BoundOnce
    ReleasedAfterBothFins
VIEW BufferView
SYMMETRY SockSymmetry
