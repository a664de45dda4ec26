------------------------- MODULE FlowSteeringProofs -------------------------
(***************************************************************************)
(* Proofs about FlowSteering, for any number of pipelines and clients, any *)
(* set of configurations that satisfy FlowAssumption, and any frames from  *)
(* elsewhere: no two connections share a source address, the answer of a   *)
(* server reaches the pipeline that has its connection, and only clients   *)
(* open connections.                                                       *)
(*                                                                         *)
(* The invariant behind all three is that a pipeline gives out only ports  *)
(* of its own range.                                                       *)
(***************************************************************************)
EXTENDS FlowSteering, TLAPS

(***************************************************************************)
(* Hypotheses about the configuration                                      *)
(***************************************************************************)

(* engine.port is not a port that is given out, and with steering by       *)
(* address, no pipeline uses the address that clients connect to.          *)
AnswersDistinguishable ==
    \A c \in Configs, pl \in Pipelines :
        /\ ListenPort \notin c.flow[pl].port..(c.flow[pl].port + Span - 1)
        /\ c.steer = "Ip" => c.flow[pl].ip # ProxyIp

(* A frame from elsewhere does not ask for a connection: it is not for     *)
(* this machine, or not TCP to the listening port at an address of the     *)
(* proxy, or it comes from a client.                                       *)
StraysAskForNothing ==
    \A f \in Strays :
        f.mac # "unknown" /\ f.etype = "Ipv4" /\ f.protocol = "Tcp" /\ f.port = ListenPort =>
            \/ f.from \in Socks
            \/ f.ip # ProxyIp /\ \A c \in Configs, pl \in Pipelines : f.ip # c.flow[pl].ip

-----------------------------------------------------------------------------
(* The upper bits of a port (port & port_mask) are the first port of the     *)
(* range it is in.                                                         *)
LEMMA BaseOfPort ==
    ASSUME NEW S \in Nat \ {0}, NEW b \in Nat, b % S = 0, NEW p \in b..(b + S - 1)
    PROVE  p - (p % S) = b
<1>1. PICK k \in Nat : k = b \div S
  OBVIOUS
<1>2. b = S * k
  BY <1>1
<1>3. p \in Nat /\ p % S \in 0..(S - 1)
  OBVIOUS
<1>4. PICK j \in Nat : p = S * j + (p % S)
  <2>1. p = S * (p \div S) + (p % S) /\ p \div S \in Nat
    BY <1>3
  <2> QED
    BY <2>1
<1>5. ASSUME NEW u \in Nat, NEW v \in Nat, u < v PROVE S * v >= S * u + S
  <2>1. PICK d \in Nat : v = u + 1 + d
    <3>1. v - u - 1 \in Nat /\ v = u + 1 + (v - u - 1)
      BY <1>5
    <3> QED
      BY <3>1
  <2>2. S * v = S * u + S + S * d /\ S * d \in Nat
    BY <2>1
  <2> QED
    BY <2>2
<1>6. ~(j < k)
  BY <1>2, <1>3, <1>4, <1>5
<1>7. ~(k < j)
  BY <1>2, <1>3, <1>4, <1>5
<1>8. j = k
  BY <1>6, <1>7
<1> QED
  BY <1>2, <1>3, <1>4, <1>8

(* What FlowAssumption says of the configuration in use.                   *)
LEMMA Ranges ==
    ASSUME conf \in Configs, NEW pl \in Pipelines, NEW p \in PortsOf(pl)
    PROVE  /\ p \in Nat /\ Flow[pl].port \in Nat /\ p >= Flow[pl].port
           /\ p \in Flow[pl].port..(Flow[pl].port + Span - 1)
           /\ p - (p % Span) = Flow[pl].port
           /\ p \in AllPorts
<1>1. Span \in Nat \ {0} /\ Flow[pl].port \in Nat /\ Flow[pl].port % Span = 0
  BY FlowAssumption DEF Flow
<1>2. p \in Flow[pl].port..(Flow[pl].port + Span - 1)
  BY DEF PortsOf
<1>3. p - (p % Span) = Flow[pl].port
  BY <1>1, <1>2, BaseOfPort
<1>4. p \in Nat /\ p >= Flow[pl].port
  BY <1>1, <1>2
<1>5. p \in AllPorts
  BY DEF AllPorts
<1> QED
  BY <1>1, <1>2, <1>3, <1>4, <1>5

(***************************************************************************)
(* The invariant                                                           *)
(***************************************************************************)

(* A connection has a port of the range of its pipeline.                   *)
OwnRange ==
    /\ conf \in Configs
    /\ owner = [pl \in Pipelines |-> [p \in AllPorts |-> owner[pl][p]]]
    /\ \A pl \in Pipelines, p \in AllPorts : owner[pl][p] # NoSock => p \in PortsOf(pl)

(* An assignment to the owner of a port changes that of no other.          *)
LEMMA Assigned ==
    ASSUME OwnRange, NEW pl \in Pipelines, NEW q \in AllPorts, NEW s,
           owner' = [owner EXCEPT ![pl][q] = s], conf' = conf
    PROVE  /\ owner' = [a \in Pipelines |-> [p \in AllPorts |-> owner'[a][p]]]
           /\ \A a \in Pipelines, p \in AllPorts :
                owner'[a][p] = IF a = pl /\ p = q THEN s ELSE owner[a][p]
  BY DEF OwnRange

(* What a configuration fixes stays as it is.                              *)
LEMMA ConfFixed ==
    ASSUME conf' = conf
    PROVE  Flow' = Flow /\ AllPorts' = AllPorts /\ \A pl : PortsOf(pl)' = PortsOf(pl)
  BY DEF Flow, AllPorts, PortsOf

(* The ways in which a step changes the owners.                            *)
LEMMA OwnerSteps ==
    ASSUME [FSNext]_fsVars
    PROVE  /\ conf' = conf
           /\ \/ owner' = owner
              \/ \E pl \in Pipelines, p \in AllPorts : owner' = [owner EXCEPT ![pl][p] = NoSock]
              \/ \E pl \in Pipelines, f \in wire : \E p \in PortsOf(pl) :
                    Branch(pl, f) = "client" /\ owner' = [owner EXCEPT ![pl][p] = f.from]
<1>1. ASSUME NEW pl \in Pipelines, SetupPipes(pl) PROVE conf' = conf /\ owner' = owner
  BY <1>1 DEF SetupPipes
<1>2. ASSUME NEW s \in Socks, ClientSends(s) PROVE conf' = conf /\ owner' = owner
  BY <1>2 DEF ClientSends
<1>3. ASSUME NEW f \in Strays, StrayFrame(f) PROVE conf' = conf /\ owner' = owner
  BY <1>3 DEF StrayFrame
<1>4. ASSUME NEW pl \in Pipelines, NEW p \in AllPorts, ServerSends(pl, p)
      PROVE  conf' = conf /\ owner' = owner
  BY <1>4 DEF ServerSends
<1>5. ASSUME NEW pl \in Pipelines, NEW p \in AllPorts, Release(pl, p)
      PROVE  conf' = conf /\ owner' = [owner EXCEPT ![pl][p] = NoSock]
  BY <1>5 DEF Release
<1>6. ASSUME NEW pl \in Pipelines, NEW f \in wire, Handle(pl, f)
      PROVE  /\ conf' = conf
             /\ \/ owner' = owner
                \/ \E p \in PortsOf(pl) :
                    Branch(pl, f) = "client" /\ owner' = [owner EXCEPT ![pl][p] = f.from]
  BY <1>6 DEF Handle
<1>7. CASE UNCHANGED fsVars
  BY <1>7 DEF fsVars
<1> QED
  BY <1>1, <1>2, <1>3, <1>4, <1>5, <1>6, <1>7 DEF FSNext

(* Pipelines give out ports of their own range only.                       *)
LEMMA OwnRangeInv == FSSpec => []OwnRange
<1>1. FSInit => OwnRange
  BY DEF FSInit, OwnRange
<1>2. ASSUME OwnRange, [FSNext]_fsVars PROVE OwnRange'
  <2>1. conf' = conf
    BY <1>2, OwnerSteps
  <2>2. conf' \in Configs /\ AllPorts' = AllPorts /\ \A pl : PortsOf(pl)' = PortsOf(pl)
    BY <1>2, <2>1, ConfFixed DEF OwnRange
  <2>3. CASE owner' = owner
    BY <1>2, <2>2, <2>3 DEF OwnRange
  <2>4. ASSUME NEW pl \in Pipelines, NEW q \in AllPorts, NEW s,
               s = NoSock \/ q \in PortsOf(pl), owner' = [owner EXCEPT ![pl][q] = s]
        PROVE  OwnRange'
    <3>1. /\ owner' = [a \in Pipelines |-> [p \in AllPorts |-> owner'[a][p]]]
          /\ \A a \in Pipelines, p \in AllPorts :
                owner'[a][p] = IF a = pl /\ p = q THEN s ELSE owner[a][p]
      BY <1>2, <2>4 DEF OwnRange
    <3>2. \A a \in Pipelines, p \in AllPorts : owner'[a][p] # NoSock => p \in PortsOf(a)
      BY <1>2, <2>4, <3>1 DEF OwnRange
    <3> QED
      BY <2>2, <3>1, <3>2 DEF OwnRange
  <2>5. \A pl \in Pipelines : \A p \in PortsOf(pl) : p \in AllPorts
    BY DEF AllPorts
  <2> QED
    BY <1>2, <2>3, <2>4, <2>5, OwnerSteps
<1> QED
  BY <1>1, <1>2, PTL DEF FSSpec

-----------------------------------------------------------------------------
(* No two connections share the address and port they use towards the      *)
(* servers, with as many pipelines as one likes and with either way to     *)
(* steer.                                                                  *)
THEOREM SourcesAreUnique == FSSpec => []SourcesUnique
<1>1. ASSUME OwnRange PROVE SourcesUnique
  <2> SUFFICES ASSUME NEW a \in Pipelines, NEW b \in Pipelines, NEW p \in AllPorts,
                      owner[a][p] # NoSock, owner[b][p] # NoSock, a # b
               PROVE  Flow[a].ip # Flow[b].ip
    BY DEF SourcesUnique
  <2>1. conf \in Configs /\ p \in PortsOf(a) /\ p \in PortsOf(b)
    BY <1>1 DEF OwnRange
  <2>2. Flow[a].port = Flow[b].port
    BY <2>1, Ranges
  <2> QED
    BY <2>1, <2>2, FlowAssumption DEF Flow
<1> QED
  BY <1>1, OwnRangeInv, PTL

(* A frame that leaves the wire has been handled.                          *)
LEMMA TakenIsHandled ==
    ASSUME [FSNext]_fsVars, NEW f, f \in wire, f \notin wire'
    PROVE  \E pl \in Pipelines : Handle(pl, f)
<1>1. ASSUME NEW pl \in Pipelines, SetupPipes(pl) PROVE wire \subseteq wire'
  BY <1>1 DEF SetupPipes
<1>2. ASSUME NEW s \in Socks, ClientSends(s) PROVE wire \subseteq wire'
  BY <1>2 DEF ClientSends
<1>3. ASSUME NEW g \in Strays, StrayFrame(g) PROVE wire \subseteq wire'
  BY <1>3 DEF StrayFrame
<1>4. ASSUME NEW pl \in Pipelines, NEW p \in AllPorts, ServerSends(pl, p) \/ Release(pl, p)
      PROVE  wire \subseteq wire'
  BY <1>4 DEF ServerSends, Release
<1>5. ASSUME NEW pl \in Pipelines, NEW g \in wire, Handle(pl, g) PROVE g = f
  BY <1>5 DEF Handle
<1>6. CASE UNCHANGED fsVars
  BY <1>6 DEF fsVars
<1> QED
  BY <1>1, <1>2, <1>3, <1>4, <1>5, <1>6 DEF FSNext

(* The interface puts the answer of a server into the queue of the         *)
(* pipeline that has the port, and into no other.                          *)
LEMMA AnswerIsSteered ==
    ASSUME AnswersDistinguishable, conf \in Configs, NEW pl \in Pipelines, NEW p \in PortsOf(pl)
    PROVE  Steered(Frame(ServerSock, Flow[pl].ip, p)) = {pl}
<1> DEFINE f == Frame(ServerSock, Flow[pl].ip, p)
<1>1. f.protocol = "Tcp" /\ f.ip = Flow[pl].ip /\ f.port = p
  BY DEF Frame
<1> HIDE DEF f
<1>2. p - (p % Span) = Flow[pl].port
  BY Ranges
<1>3. MatchesFlow(pl, f)
  BY <1>1, <1>2 DEF MatchesFlow, AnswersDistinguishable, Flow
<1>4. ASSUME NEW b \in Pipelines, MatchesFlow(b, f) PROVE b = pl
  <2>1. f.ip = Flow[b].ip /\ (conf.steer # "Ip" => Flow[b].port = Flow[pl].port)
    BY <1>1, <1>2, <1>4 DEF MatchesFlow
  <2> QED
    BY <1>1, <2>1, FlowAssumption DEF Flow
<1>5. {b \in Pipelines : f.protocol = "Tcp" /\ MatchesFlow(b, f)} = {pl}
  BY <1>1, <1>3, <1>4
<1> QED
  BY <1>5 DEF Steered, f

(* That pipeline takes it for the answer of a server.                      *)
LEMMA AnswerIsServers ==
    ASSUME AnswersDistinguishable, conf \in Configs, NEW pl \in Pipelines, NEW p \in PortsOf(pl),
           NEW b \in Pipelines
    PROVE  /\ Branch(pl, Frame(ServerSock, Flow[pl].ip, p)) = "server"
           /\ Branch(b, Frame(ServerSock, Flow[pl].ip, p)) # "client"
<1> DEFINE f == Frame(ServerSock, Flow[pl].ip, p)
<1>1. /\ f.protocol = "Tcp" /\ f.ip = Flow[pl].ip /\ f.port = p
      /\ f.mac = "mine" /\ f.etype = "Ipv4"
  BY DEF Frame
<1> HIDE DEF f
<1>2. p # ListenPort /\ ~(p < Flow[pl].port)
  <2>1. p \in Flow[pl].port..(Flow[pl].port + Span - 1) /\ p \in Nat /\ Flow[pl].port \in Nat
        /\ p >= Flow[pl].port
    BY Ranges
  <2> QED
    BY <2>1 DEF AnswersDistinguishable, Flow
<1>3. ForUs(pl, f) /\ ~ToKernel(pl, f)
  BY <1>1, <1>2 DEF ForUs, ToKernel
<1> QED
  BY <1>1, <1>2, <1>3 DEF Branch, f

(* The answer of a server is handled as such by the pipeline that has its  *)
(* connection: neither the interface nor the tests at the beginning of the *)
(* handler send it elsewhere.                                              *)
THEOREM AnswersArrive ==
    ASSUME AnswersDistinguishable
    PROVE  FSSpec => AnswersReachConnection
<1>1. ASSUME OwnRange, [FSNext]_fsVars, NEW pl \in Pipelines, NEW p \in AllPorts, NEW f,
             f = Frame(ServerSock, Flow[pl].ip, p), f \in wire, f \notin wire',
             owner[pl][p] # NoSock
      PROVE  last' = [frame |-> f, at |-> pl, branch |-> "server"]
  <2>1. conf \in Configs /\ p \in PortsOf(pl)
    BY <1>1 DEF OwnRange
  <2>2. PICK b \in Pipelines : Handle(b, f)
    BY <1>1, TakenIsHandled
  <2>3. b = pl
    BY <1>1, <2>1, <2>2, AnswerIsSteered DEF Handle
  <2>4. Branch(pl, f) = "server"
    BY <1>1, <2>1, AnswerIsServers
  <2> QED
    BY <2>2, <2>3, <2>4 DEF Handle
<1>2. OwnRange /\ [FSNext]_fsVars =>
        [\A pl \in Pipelines, p \in AllPorts :
            LET f == Frame(ServerSock, Flow[pl].ip, p)
            IN  f \in wire /\ f \notin wire' /\ owner[pl][p] # NoSock =>
                    last' = [frame |-> f, at |-> pl, branch |-> "server"]]_fsVars
  BY <1>1
<1> QED
  BY <1>2, OwnRangeInv, PTL DEF FSSpec, AnswersReachConnection

-----------------------------------------------------------------------------
(* Only clients own ports, and a frame that is under way asks for a        *)
(* connection only if it is a client's.                                    *)
ClientsAsk ==
    /\ OwnersAreClients
    /\ \A f \in wire, pl \in Pipelines : Branch(pl, f) = "client" => f.from \in Socks

(* A frame that the handler takes for a client's is TCP to the listening   *)
(* port, at an address of the pipeline.                                    *)
LEMMA ClientBranch ==
    ASSUME NEW pl \in Pipelines, NEW f, Branch(pl, f) = "client"
    PROVE  /\ f.mac # "unknown" /\ f.etype = "Ipv4" /\ f.protocol = "Tcp" /\ f.port = ListenPort
           /\ f.ip \in {Flow[pl].ip, ProxyIp}
  BY DEF Branch, ForUs

(* Only clients open connections: neither an answer of a server nor a      *)
(* frame that is not for the proxy is ever given a port.                   *)
THEOREM OnlyClientsConnect ==
    ASSUME AnswersDistinguishable, StraysAskForNothing
    PROVE  FSSpec => []OwnersAreClients
<1>1. FSInit => ClientsAsk
  BY DEF FSInit, ClientsAsk, OwnersAreClients
<1>2. ASSUME OwnRange, ClientsAsk, [FSNext]_fsVars PROVE ClientsAsk'
  <2>1. conf' = conf /\ Flow' = Flow /\ AllPorts' = AllPorts
    BY <1>2, OwnerSteps, ConfFixed
  <2>2. OwnersAreClients'
    <3>1. ASSUME NEW pl \in Pipelines, NEW q \in AllPorts, NEW s \in Socks \cup {NoSock},
                 owner' = [owner EXCEPT ![pl][q] = s]
          PROVE  OwnersAreClients'
      BY <1>2, <2>1, <3>1, Assigned DEF ClientsAsk, OwnersAreClients
    <3>2. CASE owner' = owner
      BY <1>2, <2>1, <3>2 DEF ClientsAsk, OwnersAreClients
    <3>3. \A pl \in Pipelines, f \in wire : Branch(pl, f) = "client" => f.from \in Socks
      BY <1>2 DEF ClientsAsk
    <3>4. \A pl \in Pipelines : \A p \in PortsOf(pl) : p \in AllPorts
      BY DEF AllPorts
    <3> QED
      BY <1>2, <3>1, <3>2, <3>3, <3>4, OwnerSteps
  <2>3. ASSUME NEW f \in wire', NEW pl \in Pipelines, Branch(pl, f)' = "client"
        PROVE  f.from \in Socks
    <3>1. Branch(pl, f) = "client"
      BY <2>1, <2>3 DEF Branch, ForUs, ToKernel
    <3>2. CASE f \in wire
      BY <1>2, <3>1, <3>2 DEF ClientsAsk
    <3>3. ASSUME NEW s \in Socks, f = Frame(s, ProxyIp, ListenPort) PROVE f.from \in Socks
      BY <3>3 DEF Frame
    <3>4. CASE f \in Strays
      BY <1>2, <3>1, <3>4, ClientBranch DEF StraysAskForNothing, OwnRange, Flow
    <3>5. ASSUME NEW b \in Pipelines, NEW p \in AllPorts, owner[b][p] # NoSock,
                 f = Frame(ServerSock, Flow[b].ip, p)
          PROVE  FALSE
      <4>1. conf \in Configs /\ p \in PortsOf(b)
        BY <1>2, <3>5 DEF OwnRange
      <4> QED
        BY <3>1, <3>5, <4>1, AnswerIsServers
    <3>6. f \in wire \/ (\E s \in Socks : f = Frame(s, ProxyIp, ListenPort)) \/ f \in Strays
          \/ \E b \in Pipelines, p \in AllPorts :
                owner[b][p] # NoSock /\ f = Frame(ServerSock, Flow[b].ip, p)
      BY <1>2, <2>3
         DEF FSNext, fsVars, SetupPipes, ClientSends, StrayFrame, ServerSends, Release, Handle
    <3> QED
      BY <3>2, <3>3, <3>4, <3>5, <3>6
  <2> QED
    BY <2>2, <2>3 DEF ClientsAsk
<1>3. ClientsAsk => OwnersAreClients
  BY DEF ClientsAsk
<1> QED
  BY <1>1, <1>2, <1>3, OwnRangeInv, PTL DEF FSSpec
=============================================================================
