--------------------------- MODULE MCFlowSteering ---------------------------
(***************************************************************************)
(* FlowSteering on small instances.                                        *)
(***************************************************************************)
EXTENDS FlowSteering

(* Both pipelines use all ports, on addresses of their own, or share an    *)
(* address and divide the ports.                                           *)
ByIp == [steer |-> "Ip",
         flow |-> [c1 |-> [ip |-> "ip1", port |-> 0], c2 |-> [ip |-> "ip2", port |-> 0]]]

ByPort == [steer |-> "Port",
           flow |-> [c1 |-> [ip |-> "ip0", port |-> 2], c2 |-> [ip |-> "ip0", port |-> 4]]]

BothConfigs == {ByIp, ByPort}

(* ARP, UDP, a frame for another machine, TCP for another address, and TCP *)
(* for a port that is not in use.                                          *)
AllStrays ==
    LET f == Frame(ServerSock, ProxyIp, ListenPort)
    IN  {[f EXCEPT !.etype = "Arp"], [f EXCEPT !.protocol = "Udp"], [f EXCEPT !.mac = "unknown"],
         [f EXCEPT !.ip = "ip9"], [f EXCEPT !.port = ListenPort + 1]}
=============================================================================
