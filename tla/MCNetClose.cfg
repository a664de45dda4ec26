SPECIFICATION PNSpec
CONSTANTS
    NoSock = NoSock
    Socks = {s1}
    TheClient = s1
    ThePort = 1
    PortBase = 1
    PortSpan = 1
    Slots = 2
    Timeout = 1
    MaxLag = 1
    MaxEntries = 1
    Fetches = FALSE
    SeqMod = 16
    Bytes = {"a", "b", "h", "x"}
    ISNs = {8}
    ClientSegs = {}
    ServerSegs = {}
    Servers = {0}
    f_select_server <- Rewritten
    f_process_payload_c_s <- Unprocessed
    detailed_records = TRUE
    ClientStream <- Two
    ServerStream <- One
    ClientISN = 1
    ServerISN = 4
    Closers = {{"client", "server"}}
    Window = 1
    Persistent = FALSE
    MaxLosses = 0
    Ticking = FALSE
INVARIANTS
    StreamC2S
PROPERTIES
    EverythingArrives
    PortComesBack
CHECK_DEADLOCK FALSE
