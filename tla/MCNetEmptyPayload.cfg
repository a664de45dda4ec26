SPECIFICATION PNSafeSpec
CONSTANTS
    NoSock = NoSock
    Socks = {s1}
    TheClient = s1
    ThePort = 1
    PortBase = 1
    PortSpan = 1
    Slots = 2
    Timeout = 1
    MaxLag = 1
    MaxEntries = 1
    Fetches = FALSE
    SeqMod = 16
    Bytes = {"a", "b", "x"}
    ISNs = {8}
    ClientSegs = {}
    ServerSegs = {}
    Servers = {0}
    f_select_server <- f_by_payload
    f_process_payload_c_s <- Unprocessed
    detailed_records = FALSE
    ClientStream <- Two
    ServerStream <- One
    ClientISN = 1
    ServerISN = 4
    Closers = {{}}
    Window = 1
    Persistent = TRUE
    MaxLosses = 0
    Ticking = FALSE
INVARIANT FirstPayloadParsed
VIEW View
CHECK_DEADLOCK FALSE
