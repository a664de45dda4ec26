SPECIFICATION DPSpec
CONSTANTS
    NoSock = NoSock
    Socks = {s1}
    PortBase = 1
    PortSpan = 1
    Slots = 2
    Timeout = 1
    MaxLag = 1
    MaxEntries = 2
    Fetches = FALSE
    SeqMod = 16
    Bytes = {"b"}
    ISNs = {8}
    ClientSeqs = {}
    ServerSeqs = {}
    Ackns = {}
    ClientSegs <- PlainClientSegs
    ServerSegs <- PlainServerSegs
    Servers = {0}
    f_select_server <- AnyServer
    f_process_payload_c_s <- Unprocessed
    detailed_records = FALSE
PROPERTY FinSeqnIsOfFin
VIEW View
