SPECIFICATION FSSpec
CONSTANTS
    Pipelines = {"c1", "c2"}
    WithKni = {"c1", "c2"}
    Socks = {"s1", "s2"}
    ServerSock = "srv"
    NoSock = "none"
    ListenPort = 9
    ProxyIp = "ip0"
    Span = 2
    Configs <- BothConfigs
    Strays <- AllStrays
INVARIANTS
    OwnersAreClients
    SourcesUnique
PROPERTIES
    AnswersReachConnection
