------------------------------ MODULE ProxyNet ------------------------------
(***************************************************************************)
(* The proxy between a client and a server that speak TCP, over a network  *)
(* that loses, repeats and reorders packets.  DelayedProxy takes any       *)
(* segment at any time; here the segments are those of two endpoints with  *)
(* sequence numbers, windows and retransmission, so that it can be said    *)
(* what "TCP pass-through" means: which bytes arrive.                      *)
(*                                                                         *)
(* The endpoints are the operating systems' TCP stacks, which are not part *)
(* of this repository.  An endpoint sends units: its SYN (unit 0), one     *)
(* unit per byte of its stream, and its FIN.  It keeps a window of units   *)
(* unacknowledged, sends the oldest of them again at will, acknowledges    *)
(* every segment that occupies sequence space, and drops what comes out of *)
(* order.  A FIN is a segment of its own, without data, so that these      *)
(* endpoints do not meet what FinSeqnIsOfFin is about.  The packets the    *)
(* proxy emits go through its output queues, the bypass queue among them,  *)
(* into the same network, so that they may overtake each other.            *)
(***************************************************************************)
EXTENDS DelayedProxy

Seqs == INSTANCE SequencesExt

CONSTANTS
    TheClient, ThePort,             \* the client's socket, and the only port of the proxy
    ClientStream, ServerStream,     \* the bytes they send
    ClientISN, ServerISN,           \* their initial sequence numbers
    Closers,                        \* who sends a FIN after its stream: sets of endpoints
    Window,                         \* units an endpoint may have in flight
    Persistent,                     \* TRUE: packets stay in the network once sent, which
                                    \* covers loss, repetition and reordering
    MaxLosses,                      \* bound: packets lost when not Persistent
    Ticking                         \* FALSE: the exchange ends before a timer runs out

ASSUME NetAssumption ==
    /\ Socks = {TheClient}
    /\ Ports = {ThePort}
    /\ ClientStream \in Seq(Bytes)
    /\ ServerStream \in Seq(Bytes)
    /\ ClientISN \in Seqns
    /\ ServerISN \in Seqns
    /\ Closers \subseteq SUBSET {"client", "server"}
    /\ Window \in Nat \ {0}
    /\ MaxLosses \in Nat
    /\ Persistent \in BOOLEAN
    /\ Ticking \in BOOLEAN

VARIABLES
    cl, sv,     \* the endpoints
    net,        \* packets in flight
    losses,     \* packets lost so far
    first       \* history: the payloads for which a server was selected, as it came and
                \* as it was kept

netVars == <<cl, sv, net, losses, first>>

pnVars == <<dpVars, netVars>>

(***************************************************************************)
(* Endpoints (external)                                                    *)
(***************************************************************************)

(* una, nxt: units acknowledged and sent; irs, got: the peer's initial     *)
(* sequence number and the units received of it; rcvd: the bytes; ended:   *)
(* the peer's FIN is among them.                                           *)
Endpoint == [isn : Seqns, stream : Seq(Bytes), closes : BOOLEAN, una : Nat, nxt : Nat,
             irs : Seqns, got : Nat, rcvd : Seq(Bytes), ended : BOOLEAN]

NewEndpoint(isn, stream, closes) ==
    [isn |-> isn, stream |-> stream, closes |-> closes,
     una |-> 0, nxt |-> 0, irs |-> 0, got |-> 0, rcvd |-> << >>, ended |-> FALSE]

Fin(e) == Len(e.stream) + 1

(* The segment that carries unit k.                                        *)
Unit(e, k) ==
    [syn |-> k = 0, fin |-> k = Fin(e), rst |-> FALSE, ack |-> e.got > 0,
     seq |-> wrapping_add(e.isn, k),
     ackn |-> IF e.got > 0 THEN wrapping_add(e.irs, e.got) ELSE 0,
     data |-> IF k \in DOMAIN e.stream THEN <<e.stream[k]>> ELSE << >>]

PureAck(e) ==
    [syn |-> FALSE, fin |-> FALSE, rst |-> FALSE, ack |-> TRUE,
     seq |-> wrapping_add(e.isn, e.nxt), ackn |-> wrapping_add(e.irs, e.got), data |-> << >>]

(* Units in a segment.                                                     *)
Size(seg) == Len(seg.data) + (IF seg.syn THEN 1 ELSE 0) + (IF seg.fin THEN 1 ELSE 0)

(* The next unit is sent within the window, the SYN alone.                 *)
MaySend(e) ==
    /\ e.nxt <= (IF e.closes THEN Fin(e) ELSE Len(e.stream))
    /\ e.nxt - e.una < Window
    /\ e.nxt > 0 => e.una > 0

Acked(e, seg) ==
    LET n == wrapping_sub(seg.ackn, e.isn)
    IN  IF seg.ack /\ n \in (e.una + 1)..e.nxt THEN [e EXCEPT !.una = n] ELSE e

(* What is new in a segment that begins at or before the next unit; a SYN  *)
(* on an open connection is not acceptable, and nothing is after a FIN.    *)
Taken(e, seg) ==
    LET old == wrapping_sub(wrapping_add(e.irs, e.got), seg.seq)
    IN  IF ~seg.syn /\ ~e.ended /\ old < Size(seg)
        THEN [e EXCEPT !.got = @ + Size(seg) - old, !.ended = seg.fin,
                       !.rcvd = @ \o SubSeq(seg.data, old + 1, Len(seg.data))]
        ELSE e

Opened(e, seg) == IF seg.syn THEN [e EXCEPT !.irs = seg.seq, !.got = 1] ELSE e

ReceivedBy(e, seg) == IF e.got = 0 THEN Opened(Acked(e, seg), seg) ELSE Taken(Acked(e, seg), seg)

(* The ACK for a segment that turned e into e1; one for a repeated segment *)
(* is still there in a persistent network.                                 *)
Answer(e, e1, seg) ==
    IF Size(seg) > 0 /\ e1.got > 0 /\ e1.nxt > 0 /\ (Persistent => e1.got > e.got)
    THEN {PureAck(e1)}
    ELSE {}

(***************************************************************************)
(* The network (external)                                                  *)
(***************************************************************************)
To(dst, segs) == {[to |-> dst, seg |-> seg] : seg \in segs}

Without(m) == IF Persistent THEN net ELSE net \ {m}

(* What the last step of the proxy puts on the wire for the endpoints.     *)
Emitted(packets) ==
    UNION {To(packets[i].to, {packets[i].seg}) : i \in {j \in DOMAIN packets :
                                                        packets[j].to \in {"client", "server"}}}

(* Where the network is not persistent, timers are longer than a round     *)
(* trip.                                                                   *)
Quiet == Persistent \/ net = {}

ClientSend ==
    /\ MaySend(cl)
    /\ cl' = [cl EXCEPT !.nxt = @ + 1]
    /\ net' = net \cup To("proxy_c", {Unit(cl, cl.nxt)})
    /\ UNCHANGED <<dpVars, sv, losses, first>>

(* The server answers a SYN only.                                          *)
ServerSend ==
    /\ MaySend(sv) /\ sv.got > 0
    /\ sv' = [sv EXCEPT !.nxt = @ + 1]
    /\ net' = net \cup To("proxy_s", {Unit(sv, sv.nxt)})
    /\ UNCHANGED <<dpVars, cl, losses, first>>

ClientResend ==
    /\ Quiet
    /\ cl.una < cl.nxt
    /\ net' = net \cup To("proxy_c", {Unit(cl, cl.una)})
    /\ UNCHANGED <<dpVars, cl, sv, losses, first>>

ServerResend ==
    /\ Quiet
    /\ sv.una < sv.nxt
    /\ net' = net \cup To("proxy_s", {Unit(sv, sv.una)})
    /\ UNCHANGED <<dpVars, cl, sv, losses, first>>

ClientReceive(m) ==
    /\ m.to = "client"
    /\ cl' = ReceivedBy(cl, m.seg)
    /\ net' = Without(m) \cup To("proxy_c", Answer(cl, cl', m.seg))
    /\ UNCHANGED <<dpVars, sv, losses, first>>

ServerReceive(m) ==
    /\ m.to = "server"
    /\ sv' = ReceivedBy(sv, m.seg)
    /\ net' = Without(m) \cup To("proxy_s", Answer(sv, sv', m.seg))
    /\ UNCHANGED <<dpVars, cl, losses, first>>

Lose(m) ==
    /\ ~Persistent
    /\ losses < MaxLosses
    /\ losses' = losses + 1
    /\ net' = net \ {m}
    /\ UNCHANGED <<dpVars, cl, sv, first>>

(***************************************************************************)
(* The proxy                                                               *)
(***************************************************************************)

(* A packet of the client or of the server reaches the proxy.              *)
ProxyReceive(m) ==
    /\ \/ m.to = "proxy_c" /\ FromClient(TheClient, m.seg)
       \/ m.to = "proxy_s" /\ FromServer(ThePort, m.seg)
    /\ net' = Without(m) \cup Emitted(out')
    /\ first' = IF /\ tcp[ThePort].server_state = Listen
                   /\ tcp'[ThePort].server_state = SynReceived
                THEN <<m.seg.data, tcp'[ThePort].payload_packet[1]>>
                ELSE first
    /\ UNCHANGED <<cl, sv, losses>>

ProxyTimer ==
    /\ Ticking
    /\ Idle => Quiet
    /\ Timer
    /\ UNCHANGED netVars

-----------------------------------------------------------------------------
PNInit ==
    /\ DPInit
    /\ \E closers \in Closers :
        /\ cl = NewEndpoint(ClientISN, ClientStream, "client" \in closers)
        /\ sv = NewEndpoint(ServerISN, ServerStream, "server" \in closers)
    /\ net = {}
    /\ losses = 0
    /\ first = << >>

Deliver == \E m \in net : ClientReceive(m) \/ ServerReceive(m) \/ ProxyReceive(m)

PNNext ==
    \/ ClientSend \/ ServerSend
    \/ ClientResend \/ ServerResend
    \/ Deliver
    \/ \E m \in net : Lose(m)
    \/ ProxyTimer

PNSafeSpec == PNInit /\ [][PNNext]_pnVars

(* Endpoints send, the network delivers what it does not lose; the clocks  *)
(* of the endpoints and of the proxy run whatever is in flight, so that    *)
(* their timers go off again and again.                                    *)
PNFairness ==
    /\ WF_pnVars(ClientSend) /\ WF_pnVars(ServerSend)
    /\ WF_pnVars(Deliver)
    /\ SF_pnVars(ClientResend) /\ SF_pnVars(ServerResend)
    /\ SF_pnVars(ProxyTimer)

PNSpec == PNSafeSpec /\ PNFairness

(***************************************************************************)
(* Properties                                                              *)
(***************************************************************************)

(* The bytes the server is to get: what the callback made of the first     *)
(* payload, then the rest of the client's stream.                          *)
Expected ==
    IF first = << >> THEN << >>
    ELSE first[2] \o SubSeq(ClientStream, Len(first[1]) + 1, Len(ClientStream))

(* "TCP pass-through", client to server: the server is selected by the     *)
(* beginning of the client's stream, and gets the stream, with the first   *)
(* payload as the callback left it, without gaps, repetitions or bytes     *)
(* from elsewhere.                                                         *)
StreamC2S ==
    /\ first # << >> => Seqs!IsPrefix(first[1], ClientStream)
    /\ Seqs!IsPrefix(sv.rcvd, Expected)

(* "TCP pass-through", server to client: the client gets the stream of the *)
(* server, although it has been told another initial sequence number.      *)
StreamS2C == Seqs!IsPrefix(cl.rcvd, ServerStream)

(* Neither side is told that a byte arrived which the other side did not   *)
(* get: an endpoint never forgets data because of the proxy.               *)
AckedMeansDelivered ==
    /\ cl.una > 1 /\ first # << >> =>
        Len(sv.rcvd) >= Len(first[2]) - Len(first[1])
                            + (IF cl.una > Fin(cl) THEN Len(ClientStream) ELSE cl.una - 1)
    /\ sv.una > 1 =>
        Len(cl.rcvd) >= (IF sv.una > Fin(sv) THEN Len(ServerStream) ELSE sv.una - 1)

Delivered ==
    /\ first # << >> /\ sv.rcvd = Expected
    /\ cl.rcvd = ServerStream

(* When no packet is lost, both streams arrive completely, in whatever     *)
(* order the packets of the handshakes, of the streams and of the closes   *)
(* overtake each other, and whatever the callback does to the payload.     *)
EverythingArrives == <>Delivered

(* When no packet is lost and both endpoints close, the port is given back *)
(* without the help of the timer.                                          *)
PortComesBack == cl.closes /\ sv.closes => <>[]~InUse(ThePort)

(* A client gets its SYN-ACK in the end, although the proxy does not send  *)
(* a lost one again and drops a repeated SYN as "re-sent": the timer frees *)
(* the port, and the next SYN starts over.                                 *)
ClientConnects == <>(cl.una > 0)

(* No loss makes a connection hang for ever: the streams arrive, or the    *)
(* timer ends the connection and the port is free.                         *)
ArrivesOrReleased == (cl.una > 0) ~> (Delivered \/ ~InUse(ThePort))

(***************************************************************************)
(* What comments and assertions of the code say and the code does not do   *)
(***************************************************************************)

(* expect("cannot deserialize CData"): the callback of the main program is *)
(* only called for a payload.                                              *)
FirstPayloadParsed == ~panicked
=============================================================================
