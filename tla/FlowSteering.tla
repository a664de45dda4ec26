---------------------------- MODULE FlowSteering ----------------------------
(***************************************************************************)
(* Several pipelines behind one network interface: their set-up            *)
(* (src/src/lib.rs), the way frames reach them, and the tests at the       *)
(* beginning of the handler (src/src/nftcp.rs) that decide whether a frame *)
(* is dropped, goes to the kernel, or is taken for one of a client or of a *)
(* server.                                                                 *)
(*                                                                         *)
(* The interface (external) spreads the frames of clients over the         *)
(* pipelines by a hash of their socket, and steers those of servers by     *)
(* their destination address or by the upper bits of their destination     *)
(* port.  Of a pipeline's ConnectionManager only the owners of the ports   *)
(* are kept, as in PortPool.  The frames are those that begin a connection *)
(* (SYN and SYN-ACK), of which each may be wrongly taken for the other.    *)
(***************************************************************************)
EXTENDS Naturals

CONSTANTS
    Pipelines,      \* receive queues of the interface, one for each core
    WithKni,        \* those whose core also serves the kernel's interface
    Socks,          \* sockets of clients
    ServerSock,     \* the socket of the server
    NoSock,         \* the owner of a free port
    ListenPort,     \* engine.port
    ProxyIp,        \* address that clients connect to (me.l234.ip)
    Span,           \* !port_mask + 1
    Configs,        \* ways to set up the interface: flow_steering ("Ip" or "Port"), and
                    \* pipeline -> address and first port towards the servers
    Strays          \* frames from elsewhere

(* setup_flowdirector gives every pipeline an address or a port range of   *)
(* its own.                                                                *)
ASSUME FlowAssumption ==
    /\ WithKni \subseteq Pipelines
    /\ Span \in Nat \ {0}
    /\ \A c \in Configs :
        /\ c.steer \in {"Ip", "Port"}
        /\ \A pl \in Pipelines : c.flow[pl].port \in Nat /\ c.flow[pl].port % Span = 0
        /\ \A a, b \in Pipelines : a # b =>
            IF c.steer = "Ip" THEN c.flow[a].ip # c.flow[b].ip
            ELSE c.flow[a].port # c.flow[b].port

VARIABLES
    conf,   \* the configuration in use, one of Configs
    rss,    \* the hash: socket -> pipeline
    up,     \* pipelines that are set up
    owner,  \* pipeline -> port -> socket of its connection
    wire,   \* frames received by the interface
    last    \* the frame handled last: where and how

fsVars == <<conf, rss, up, owner, wire, last>>

Flow == conf.flow

(* The ports of a pipeline, port 0 excepted.                               *)
PortsOfMutant(pl) == Flow[pl].port..(Flow[pl].port + Span)

PortsOf(pl) == {p \in Flow[pl].port..(Flow[pl].port + Span - 1) : p # 0}

AllPorts == UNION {PortsOf(pl) : pl \in Pipelines}

Frame(from, ip, port) ==
    [mac |-> "mine", etype |-> "Ipv4", protocol |-> "Tcp", from |-> from, ip |-> ip, port |-> port]

(* Where the interface may put a frame.                                    *)
MatchesFlow(pl, f) ==
    IF conf.steer = "Ip" THEN f.ip = Flow[pl].ip /\ f.ip # ProxyIp
    ELSE f.ip = Flow[pl].ip /\ f.port - (f.port % Span) = Flow[pl].port

Steered(f) ==
    LET matches == {pl \in Pipelines : f.protocol = "Tcp" /\ MatchesFlow(pl, f)}
    IN  IF matches # {} THEN matches ELSE {rss[f.from]}

ToKernelMutant(pl, f) == f.port # ListenPort /\ f.port <= Flow[pl].port

(* "check ports": below the ports of the pipeline                          *)
ToKernel(pl, f) == f.port # ListenPort /\ f.port < Flow[pl].port

ForUsAnyMutant(pl, f) == f.protocol = "Tcp"

(* "everything other than TCP, and everything not addressed to us"         *)
ForUs(pl, f) == f.protocol = "Tcp" /\ f.ip \in {Flow[pl].ip, ProxyIp}

(* The tests at the beginning of the handler, in their order.              *)
Branch(pl, f) ==
    CASE f.mac = "unknown" -> "dropped"
      [] f.mac # "unknown" /\ f.etype # "Ipv4" -> "kni"
      [] f.mac # "unknown" /\ f.etype = "Ipv4" ->
            IF ~ForUs(pl, f) \/ ToKernel(pl, f) THEN "kni"
            ELSE IF f.port = ListenPort THEN "client" ELSE "server"

(***************************************************************************)
(* Set-up                                                                  *)
(***************************************************************************)

(* setup_pipes_delayed_proxy on one core: a pipeline needs both a queue of *)
(* the interface and one of the kernel's.                                  *)
SetupPipes(pl) ==
    /\ pl \notin up
    /\ pl \in WithKni
    /\ up' = up \cup {pl}
    /\ UNCHANGED <<conf, rss, owner, wire, last>>

(***************************************************************************)
(* Frames                                                                  *)
(***************************************************************************)
ClientSends(s) ==
    /\ wire' = wire \cup {Frame(s, ProxyIp, ListenPort)}
    /\ UNCHANGED <<conf, rss, up, owner, last>>

(* The server answers to the source address of a connection.               *)
ServerSends(pl, p) ==
    /\ owner[pl][p] # NoSock
    /\ wire' = wire \cup {Frame(ServerSock, Flow[pl].ip, p)}
    /\ UNCHANGED <<conf, rss, up, owner, last>>

(* Bound: one stray frame at a time, as none influences another.           *)
StrayFrame(f) ==
    /\ wire \cap Strays = {}
    /\ wire' = wire \cup {f}
    /\ UNCHANGED <<conf, rss, up, owner, last>>

HasConnection(pl, s) == \E p \in AllPorts : owner[pl][p] = s

(* The handler: a client without a connection is given a port.             *)
Handle(pl, f) ==
    /\ pl \in up /\ pl \in Steered(f)
    /\ wire' = wire \ {f}
    /\ last' = [frame |-> f, at |-> pl, branch |-> Branch(pl, f)]
    /\ IF Branch(pl, f) = "client" /\ ~HasConnection(pl, f.from)
       THEN \/ \E p \in PortsOf(pl) :
                /\ owner[pl][p] = NoSock
                /\ owner' = [owner EXCEPT ![pl][p] = f.from]
            \/ /\ \A p \in PortsOf(pl) : owner[pl][p] # NoSock
               /\ UNCHANGED owner
       ELSE UNCHANGED owner
    /\ UNCHANGED <<conf, rss, up>>

(* A connection ends.                                                      *)
Release(pl, p) ==
    /\ owner[pl][p] # NoSock
    /\ owner' = [owner EXCEPT ![pl][p] = NoSock]
    /\ UNCHANGED <<conf, rss, up, wire, last>>

-----------------------------------------------------------------------------
NoFrame == [frame |-> Frame(NoSock, ProxyIp, 0), at |-> "nowhere", branch |-> "none"]

FSInit ==
    /\ conf \in Configs
    /\ rss \in [Socks \cup {ServerSock} -> Pipelines]
    /\ up = {}
    /\ owner = [pl \in Pipelines |-> [p \in AllPorts |-> NoSock]]
    /\ wire = {}
    /\ last = NoFrame

FSNext ==
    \/ \E pl \in Pipelines : SetupPipes(pl)
    \/ \E s \in Socks : ClientSends(s)
    \/ \E f \in Strays : StrayFrame(f)
    \/ \E pl \in Pipelines, p \in AllPorts : ServerSends(pl, p) \/ Release(pl, p)
    \/ \E pl \in Pipelines, f \in wire : Handle(pl, f)

FSSpec == FSInit /\ [][FSNext]_fsVars

(***************************************************************************)
(* Properties                                                              *)
(***************************************************************************)

(* No two connections, of one pipeline or of two, share the address and    *)
(* port they use towards the servers; otherwise their packets could not be *)
(* told apart.                                                             *)
SourcesUnique ==
    \A a, b \in Pipelines : \A p \in AllPorts :
        owner[a][p] # NoSock /\ owner[b][p] # NoSock /\ a # b => Flow[a].ip # Flow[b].ip

(* "steering the incoming server side TCP connections to the appropriate   *)
(* core": the answer of a server is handled as such, by the pipeline that  *)
(* has its connection, which therefore finds it.                           *)
AnswersReachConnection ==
    [][\A pl \in Pipelines, p \in AllPorts :
        LET f == Frame(ServerSock, Flow[pl].ip, p)
        IN  f \in wire /\ f \notin wire' /\ owner[pl][p] # NoSock =>
                last' = [frame |-> f, at |-> pl, branch |-> "server"]]_fsVars

(* Only sockets of clients own ports: neither a server's answer nor a      *)
(* frame that is not for the proxy ever opens a connection.                *)
OwnersAreClients ==
    \A pl \in Pipelines, p \in AllPorts : owner[pl][p] \in Socks \cup {NoSock}
=============================================================================
