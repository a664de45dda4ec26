SPECIFICATION PNSpec
CONSTANTS
    NoSock = NoSock
    Socks = {s1}
    TheClient = s1
    ThePort = 1
    PortBase = 1
    PortSpan = 1
    Slots = 2
    Timeout = 1
    MaxLag = 1
    MaxEntries = 1
    Fetches = FALSE
    SeqMod = 16
    Bytes = {"a", "b", "h", "x"}
    ISNs = {8}
    ClientSegs = {}
    ServerSegs = {}
    Servers = {0}
    f_select_server <- Rewritten
    f_process_payload_c_s <- Unprocessed
    detailed_records = FALSE
    ClientStream <- One
    ServerStream <- One
    ClientISN = 15
    ServerISN = 15
    Closers = {{}}
    Window = 1
    Persistent = FALSE
    MaxLosses = 3
    Ticking = TRUE
INVARIANTS
    AckedMeansDelivered
PROPERTIES
    ClientConnects
    ArrivesOrReleased
CHECK_DEADLOCK FALSE
