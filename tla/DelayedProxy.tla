---------------------------- MODULE DelayedProxy ----------------------------
(***************************************************************************)
(* The packet handler of one pipeline: delayed_binding_closure in          *)
(* src/src/nftcp.rs, on top of the ConnectionManager it owns.              *)
(*                                                                         *)
(* The proxy answers the client's SYN itself, keeps the first payload      *)
(* packet, selects a server by it, opens a connection to that server, and  *)
(* from then on translates sequence numbers between the two connections.   *)
(* tcp[p] holds the rest of ProxyConnection for the port p; con[p] of      *)
(* ConnectionManager holds the fields the manager sets.                    *)
(*                                                                         *)
(* Clients and servers send any segment at any time; what a real network   *)
(* delivers late, twice or out of order is among those.  One action models *)
(* one branch of the handler to its end, with the release of the           *)
(* connection and the forwarding at the end of the handler; out is what    *)
(* the step emits.  Counters, time stamps, ackn_p2s and client_mac are     *)
(* written and never read by the handler, and are left out.                *)
(***************************************************************************)
EXTENDS ConnectionManager, TcpState

CONSTANTS
    ISNs,           \* initial sequence numbers the clock may yield
    ClientSegs,     \* segments a client may send
    ServerSegs,     \* segments a server may send
    Servers,        \* indices of the list of servers
    f_select_server(_),
                    \* callback: the servers and payloads it may choose for a first
                    \* payload; it panics when there is none
    f_process_payload_c_s(_),
                    \* callback: what becomes of a later payload of the client
    detailed_records
                    \* TRUE iff a record is kept of every connection

ASSUME ProxyAssumption ==
    /\ ISNs \subseteq Seqns
    /\ ClientSegs \subseteq Segments
    /\ ServerSegs \subseteq Segments
    /\ Servers \subseteq Nat
    /\ 0 \in Servers
    /\ detailed_records \in BOOLEAN

(* Callbacks get the payload as a slice or as the packet kept.             *)
ASSUME CallbackAssumption ==
    \A seg \in ClientSegs :
        /\ f_select_server(seg.data) \subseteq [server : Servers, data : Seq(Bytes)]
        /\ f_process_payload_c_s(seg.data) \in Seq(Bytes)
        /\ Len(f_process_payload_c_s(seg.data)) = Len(seg.data)

(* The records are fetched when the program ends; ConnectionManager covers *)
(* what happens to a pipeline that runs on.                                *)
ASSUME NoFetch == Fetches = FALSE

VARIABLES
    tcp,    \* port -> state of the two TCP connections
    out,    \* packets the last step handed to the network or to the kernel (KNI), in order
    seen    \* history: port -> which of Events its connection has had

(* The FIN of either side, and the SYN-ACK the server sent to the proxy.   *)
Events == {"client_fin", "server_fin", "synack"}

dpVars == <<free_ports, sock2port, con, wheel, hand, lag, due, drain, panicked,
            age, resched, tcp, out, seen>>

ReleaseCauses == {"Unknown", "PassiveClose", "ActiveClose", "ActiveRst", "Timeout"}

(* Places for states in the record of the server side, an array there.     *)
MaxStates == 7

(* seqn is the union Seqn: f_seqn while the server connection is set up,   *)
(* ack_for_fin_p2c while a connection is closed, one word for both.        *)
(* payload_packet is the payload of the packet kept, if any.  s_states,    *)
(* s_cause and c_cause are the part of the connection's record that the    *)
(* main program evaluates.                                                 *)
TcpConnection ==
    [client_state : States, server_state : States, c_seqn : Seqns, ackn_p2c : Seqns,
     seqn : Seqns, seqn_fin_p2s : Seqns, c2s_inserted_bytes : Int,
     payload_packet : Seq(Seq(Bytes)), server_index : Servers,
     s_states : Seq(States), s_cause : ReleaseCauses, c_cause : ReleaseCauses]

(* ProxyConnection::new and initialize                                     *)
NewConnection ==
    [client_state |-> Closed, server_state |-> Listen, c_seqn |-> 0, ackn_p2c |-> 0,
     seqn |-> 0, seqn_fin_p2s |-> 0, c2s_inserted_bytes |-> 0,
     payload_packet |-> << >>, server_index |-> 0,
     s_states |-> << >>, s_cause |-> "Unknown", c_cause |-> "Unknown"]

(***************************************************************************)
(* States and records.  client_state and server_state are copies of the    *)
(* last state of the record, kept with or without records.                 *)
(***************************************************************************)
c_push_state(c, state) == [c EXCEPT !.client_state = state]

SPushStateMutant(c, state) == [c EXCEPT !.server_state = state]

s_push_state(c, state) ==
    [c EXCEPT !.server_state = state,
              !.s_states = IF detailed_records THEN Append(@, state) ELSE @]

s_init(c) == [c EXCEPT !.s_states = << >>]

set_release_cause(c, cause) == [c EXCEPT !.c_cause = IF detailed_records THEN cause ELSE @]

s_set_release_cause(c, cause) == [c EXCEPT !.s_cause = IF detailed_records THEN cause ELSE @]

(* The state of the server side according to the record.                   *)
last_state(c) == IF c.s_states = << >> THEN Listen ELSE c.s_states[Len(c.s_states)]

(* A packet the handler emits: to a client, to a server, to the kernel, or *)
(* back to the wire as it came in.                                         *)
Packet(to, p, seg) == [to |-> to, port |-> p, seg |-> seg]

(***************************************************************************)
(* Translation between the two connections                                 *)
(***************************************************************************)

(* client_to_server: the segment, and what the connection remembers of it. *)
ClientToServerMutant(c, seg) == [seg EXCEPT !.ackn = wrapping_sub(@, c.c_seqn)]

client_to_server(c, seg) ==
    [seg EXCEPT !.seq = wrapping_add(@, c.c2s_inserted_bytes),
                !.ackn = wrapping_sub(@, c.c_seqn),
                !.data = IF @ = << >> THEN @ ELSE f_process_payload_c_s(@)]

AfterClientToServer(c, seg) ==
    IF seg.fin
    THEN [c EXCEPT !.seqn_fin_p2s = wrapping_add(seg.seq, c.c2s_inserted_bytes)]
    ELSE c

(* server_to_client, likewise.                                             *)
server_to_client(c, seg) ==
    [seg EXCEPT !.seq = wrapping_add(@, c.c_seqn),
                !.ackn = wrapping_sub(@, c.c2s_inserted_bytes)]

AfterServerToClient(c, seg) ==
    [c EXCEPT !.ackn_p2c = server_to_client(c, seg).ackn,
              !.seqn = IF seg.fin
                       THEN wrapping_add(server_to_client(c, seg).seq, Len(seg.data) + 1)
                       ELSE @]

(***************************************************************************)
(* The end of the handler, common to all branches.  c is the connection    *)
(* after the branch, seg the packet as the branch left it, sent what the   *)
(* branch wants emitted if the packet is not forwarded.                    *)
(***************************************************************************)

(* The connection is released by an RST or when both sides are closed.     *)
FinishMutant(p, c, rst) == IF rst THEN release_port(p) ELSE UNCHANGED cmVars

Finish(p, c, rst) ==
    IF rst \/ (c.client_state = Closed /\ c.server_state = Closed)
    THEN release_port(p)
    ELSE UNCHANGED cmVars

ForwardsClient(c) ==
    c.server_state \in Established..(Closed - 1) /\ c.client_state >= Established

ForwardsServerMutant(c) == c.server_state >= Established /\ c.client_state = Established

ForwardsServer(c) ==
    c.server_state >= Established /\ c.client_state \in Established..(Closed - 1)

EndClient(p, c, seg, sent) ==
    IF ForwardsClient(tcp[p])
    THEN /\ tcp' = [tcp EXCEPT ![p] = AfterClientToServer(c, seg)]
         /\ out' = <<Packet("server", p, client_to_server(c, seg))>>
    ELSE /\ tcp' = [tcp EXCEPT ![p] = c]
         /\ out' = sent

EndServer(p, c, seg, sent) ==
    IF ForwardsServer(tcp[p])
    THEN /\ tcp' = [tcp EXCEPT ![p] = AfterServerToClient(c, seg)]
         /\ out' = <<Packet("client", p, server_to_client(c, seg))>>
    ELSE /\ tcp' = [tcp EXCEPT ![p] = c]
         /\ out' = sent

(***************************************************************************)
(* Packets from clients                                                    *)
(***************************************************************************)

(* client_syn_received: the sequence number comes from the CPU's clock.    *)
client_syn_received(c, seg, isn) ==
    [c_push_state(c, SynSent) EXCEPT !.c_seqn = isn, !.ackn_p2c = wrapping_add(seg.seq, 1)]

SynAck(seg, isn) == [make_reply_packet(seg) EXCEPT !.seq = isn]

(* A SYN of a client without a connection.                                 *)
ClientSyn(s, seg, isn) ==
    /\ seg.syn
    /\ Accept(s)
    /\ LET p == Head(free_ports)
       IN  /\ tcp' = [tcp EXCEPT ![p] = client_syn_received(NewConnection, seg, isn)]
           /\ out' = <<Packet("client", p, SynAck(seg, isn))>>
           /\ seen' = [seen EXCEPT ![p] = {}]

(* No connection, and no SYN or no free port: the packet is discarded.     *)
ClientNoState(s, seg) ==
    /\ Idle
    /\ sock2port[s] = 0
    /\ seg.syn => free_ports = << >>
    /\ out' = << >>
    /\ UNCHANGED <<cmVars, tcp, seen>>

(* The order of the tests in the handler, for a connection c.              *)
Resent(c, seg) == c.client_state # Closed /\ seg.seq < c.ackn_p2c

IsSyn(c, seg) == ~Resent(c, seg) /\ seg.syn

IsAck2(c, seg) == ~Resent(c, seg) /\ ~seg.syn /\ seg.ack /\ c.client_state = SynSent

PastHandshake(c, seg) == ~Resent(c, seg) /\ ~seg.syn /\ ~IsAck2(c, seg)

PastClose(c, seg) == PastHandshake(c, seg) /\ ~seg.fin /\ ~seg.rst

AcksFinOfServer(c, seg) == seg.ack /\ seg.ackn = c.seqn

(* A segment below the next expected sequence number changes no state.     *)
ClientResent(p, seg) ==
    /\ Idle /\ InUse(p)
    /\ Resent(tcp[p], seg)
    /\ EndClient(p, tcp[p], seg, << >>)
    /\ UNCHANGED <<cmVars, seen>>

(* A SYN while the client side is closed and the server side is not yet:   *)
(* the client is answered and the timer armed again.                       *)
ClientSynAgain(p, seg, isn) ==
    /\ IsSyn(tcp[p], seg)
    /\ tcp[p].client_state = Closed
    /\ Reschedule(p)
    /\ EndClient(p, client_syn_received(tcp[p], seg, isn), SynAck(seg, isn),
                 <<Packet("client", p, SynAck(seg, isn))>>)
    /\ UNCHANGED seen

ClientSynUnexpected(p, seg) ==
    /\ Idle /\ InUse(p)
    /\ IsSyn(tcp[p], seg)
    /\ tcp[p].client_state # Closed
    /\ EndClient(p, tcp[p], seg, << >>)
    /\ UNCHANGED <<cmVars, seen>>

(* The last ACK of the client's three-way handshake.                       *)
ClientAck2(p, seg) ==
    /\ Idle /\ InUse(p)
    /\ IsAck2(tcp[p], seg)
    /\ EndClient(p, c_push_state(tcp[p], Established), seg, << >>)
    /\ UNCHANGED <<cmVars, seen>>

(* FIN of the client after the server's: passive close if it acknowledges  *)
(* the FIN of the server, simultaneous close otherwise.                    *)
ClosedByClientFin(c, seg) ==
    IF AcksFinOfServer(c, seg)
    THEN c_push_state(set_release_cause(c, "PassiveClose"), LastAck)
    ELSE LET c1 == c_push_state(set_release_cause(c, "ActiveClose"), Closing)
         IN  CASE c.server_state = FinWait1 -> s_push_state(c1, Closing)
               [] c.server_state = FinWait2 -> s_push_state(c1, Closed)
               [] OTHER -> c1

ClientFinAfterServer(p, seg) ==
    /\ Idle /\ InUse(p)
    /\ LET c == tcp[p]
           c1 == ClosedByClientFin(c, seg)
       IN  /\ PastHandshake(c, seg) /\ seg.fin
           /\ c.server_state >= FinWait1
           /\ EndClient(p, c1, seg, <<Packet("wire", p, seg)>>)
           /\ Finish(p, c1, FALSE)
    /\ seen' = [seen EXCEPT ![p] = @ \cup {"client_fin"}]

NotConnectedMutant(c) == c.server_state <= Established

NotConnected(c) == c.server_state < Established

ActiveClose(c) == c_push_state(set_release_cause(c, "ActiveClose"), FinWait1)

(* FIN of the client first, on a connection that reached the server.       *)
ClientFinFirst(p, seg) ==
    /\ Idle /\ InUse(p)
    /\ LET c == tcp[p]
       IN  /\ PastHandshake(c, seg) /\ seg.fin
           /\ ~NotConnected(c) /\ c.server_state < FinWait1
           /\ EndClient(p, ActiveClose(c), seg, <<Packet("wire", p, seg)>>)
    /\ seen' = [seen EXCEPT ![p] = @ \cup {"client_fin"}]
    /\ UNCHANGED cmVars

(* FIN of the client before the server connection is established: the      *)
(* proxy answers with a FIN in the name of the server.                     *)
ClosedEarlyMutant(c) ==
    LET nxt == wrapping_add(c.c_seqn, 1)
    IN  [ActiveClose(c) EXCEPT !.c_seqn = nxt, !.seqn = wrapping_add(nxt, 1)]

ClosedEarly(c) ==
    LET nxt == wrapping_add(c.c_seqn, 1)
    IN  [s_set_release_cause(s_push_state(ActiveClose(c), LastAck), "PassiveClose")
            EXCEPT !.c_seqn = nxt, !.seqn = wrapping_add(nxt, 1)]

ClientFinEarly(p, seg) ==
    /\ Idle /\ InUse(p)
    /\ LET c == tcp[p]
           c1 == ClosedEarly(c)
       IN  /\ PastHandshake(c, seg) /\ seg.fin
           /\ NotConnected(c)
           /\ EndClient(p, c1, seg,
                  <<Packet("client", p, [make_reply_packet(seg) EXCEPT !.seq = c1.c_seqn])>>)
    /\ seen' = [seen EXCEPT ![p] = @ \cup {"client_fin", "server_fin"}]
    /\ UNCHANGED cmVars

ClientRst(p, seg) ==
    /\ Idle /\ InUse(p)
    /\ PastHandshake(tcp[p], seg) /\ ~seg.fin /\ seg.rst
    /\ LET c1 == set_release_cause(c_push_state(tcp[p], Closed), "ActiveRst")
       IN  /\ EndClient(p, c1, seg, << >>)
           /\ Finish(p, c1, TRUE)
    /\ UNCHANGED seen

(* ACK of the client for the FIN of the server.                            *)
AckedByClient(c) ==
    LET c1 == CASE c.server_state = FinWait1 -> s_push_state(c, FinWait2)
                [] c.server_state = Closing -> s_push_state(c, Closed)
                [] OTHER -> c
    IN  CASE c.client_state = Established -> c_push_state(c1, CloseWait)
          [] c.client_state = FinWait1 -> c_push_state(c1, Closing)
          [] c.client_state = FinWait2 -> c_push_state(c1, Closed)
          [] OTHER -> c1

ClientAckForFin(p, seg) ==
    /\ Idle /\ InUse(p)
    /\ LET c == tcp[p]
           c1 == AckedByClient(c)
       IN  /\ PastClose(c, seg) /\ AcksFinOfServer(c, seg)
           /\ c.server_state >= FinWait1
           /\ EndClient(p, c1, seg, << >>)
           /\ Finish(p, c1, FALSE)
    /\ UNCHANGED seen

(* The final ACK of a close that the client began.                         *)
ClientFinalAck(p, seg) ==
    /\ Idle /\ InUse(p)
    /\ LET c == tcp[p]
           c1 == c_push_state(s_push_state(c, Closed), Closed)
       IN  /\ PastClose(c, seg) /\ AcksFinOfServer(c, seg)
           /\ c.server_state = LastAck
           /\ EndClient(p, c1, seg, << >>)
           /\ Finish(p, c1, FALSE)
    /\ UNCHANGED seen

(* select_server: the packet is kept, the SYN takes its place.             *)
SelectServerMutant(c, seg, choice) ==
    [c EXCEPT !.payload_packet = <<choice.data>>,
              !.c2s_inserted_bytes = Len(choice.data) - Len(seg.data),
              !.server_index = choice.server,
              !.seqn = seg.seq]

SelectServerEarlyMutant(c, seg, choice) ==
    [SelectServerMutant(c, seg, choice) EXCEPT !.seqn = wrapping_sub(seg.seq, 2)]

select_server(c, seg, choice) ==
    [c EXCEPT !.payload_packet = <<choice.data>>,
              !.c2s_inserted_bytes = Len(choice.data) - Len(seg.data),
              !.server_index = choice.server,
              !.seqn = wrapping_sub(seg.seq, 1)]

ServerSyn(c, seg) ==
    [seg EXCEPT !.syn = TRUE, !.ack = FALSE, !.ackn = 0, !.data = << >>, !.seq = c.seqn]

IsFirstPayloadMutant(c) == c.client_state = Established /\ c.server_state < SynSent

IsFirstPayload(c) == c.client_state = Established /\ c.server_state = Listen

(* The first payload packet: any packet of an established client that no   *)
(* earlier branch takes, whether it has a payload or not.                  *)
ClientFirstPayload(p, seg, choice) ==
    /\ Idle /\ InUse(p)
    /\ LET c == tcp[p]
           c1 == s_push_state(s_init(select_server(c, seg, choice)), SynReceived)
       IN  /\ PastClose(c, seg)
           /\ IsFirstPayload(c)
           /\ EndClient(p, c1, seg, <<Packet("server", p, ServerSyn(c1, seg))>>)
    /\ UNCHANGED <<cmVars, seen>>

(* The callback cannot make sense of the payload and ends the thread.      *)
ClientSelectFails(p, seg) ==
    /\ Idle /\ InUse(p)
    /\ PastClose(tcp[p], seg)
    /\ IsFirstPayload(tcp[p])
    /\ f_select_server(seg.data) = {}
    /\ panicked' = TRUE
    /\ out' = << >>
    /\ UNCHANGED <<free_ports, sock2port, con, wheel, hand, lag, due, drain, age, resched,
                   tcp, seen>>

(* What is left: to the kernel during the handshakes, else forwarded.      *)
ClientOther(p, seg) ==
    /\ Idle /\ InUse(p)
    /\ LET c == tcp[p]
           unexpected == c.server_state < SynReceived \/ c.client_state < Established
       IN  /\ PastClose(c, seg)
           /\ ~(AcksFinOfServer(c, seg) /\ c.server_state >= LastAck)
           /\ ~IsFirstPayload(c)
           /\ EndClient(p, c, seg, IF unexpected THEN <<Packet("kni", p, seg)>> ELSE << >>)
    /\ UNCHANGED <<cmVars, seen>>

(***************************************************************************)
(* Packets from servers                                                    *)
(***************************************************************************)

(* The port has no connection: the kernel's stack answers, with an RST.    *)
ServerNoState(p, seg) ==
    /\ Idle
    /\ ~get_mut_by_port(p)
    /\ out' = <<Packet("kni", p, seg)>>
    /\ UNCHANGED <<cmVars, tcp, seen>>

(* server_synack_received: from now on c_seqn is the offset to add to the  *)
(* server's sequence numbers; the ACK and the kept packet go to the server.*)
SynAckReceivedMutant(c, seg) ==
    [s_push_state(c, Established) EXCEPT
              !.c_seqn = wrapping_sub(c.c_seqn, seg.seq),
              !.seqn = wrapping_add(c.seqn, 1)]

server_synack_received(c, seg) ==
    [s_push_state(c, Established) EXCEPT
              !.c_seqn = wrapping_sub(c.c_seqn, seg.seq),
              !.seqn = wrapping_add(c.seqn, 1), !.payload_packet = << >>]

AwaitsSynAckMutant(c) == c.server_state >= SynReceived

AwaitsSynAck(c) == c.server_state = SynReceived

(* (assert_eq!(payload_packet.refcnt(), 1) is about the memory of e2d2:    *)
(* select_server gives up its own reference to the packet when it keeps    *)
(* it.  The references are not modelled, the assertion is taken to hold.)  *)
ServerSynAck(p, seg) ==
    /\ Idle /\ InUse(p)
    /\ seg.ack /\ seg.syn
    /\ AwaitsSynAck(tcp[p])
    /\ LET c == tcp[p]
           c1 == server_synack_received(c, seg)
           ack == [make_reply_packet(seg) EXCEPT !.syn = FALSE, !.seq = c1.seqn]
       IN  EndServer(p, c1, seg,
               <<Packet("server", p, ack)>> \o
               IF c.payload_packet = << >> THEN << >>
               ELSE <<Packet("server", p, [ack EXCEPT !.data = c.payload_packet[1]])>>)
    /\ seen' = [seen EXCEPT ![p] = @ \cup {"synack"}]
    /\ UNCHANGED cmVars

ServerSynAckUnexpected(p, seg) ==
    /\ Idle /\ InUse(p)
    /\ seg.ack /\ seg.syn
    /\ ~AwaitsSynAck(tcp[p])
    /\ EndServer(p, tcp[p], seg, << >>)
    /\ UNCHANGED <<cmVars, seen>>

AcksFinOfClient(c, seg) == seg.ack /\ seg.ackn = wrapping_add(c.seqn_fin_p2s, 1)

(* FIN of the server, first or after the client's.                         *)
ClosedByServerFin(c, seg) ==
    CASE c.client_state < FinWait1 ->
            s_set_release_cause(s_push_state(c, FinWait1), "ActiveClose")
      [] c.client_state >= FinWait1 /\ AcksFinOfClient(c, seg) ->
            s_push_state(s_set_release_cause(c, "PassiveClose"), LastAck)
      [] OTHER ->
            LET c1 == s_push_state(s_set_release_cause(c, "ActiveClose"), Closing)
            IN  CASE c.client_state = FinWait1 -> c_push_state(c1, Closing)
                  [] c.client_state = FinWait2 -> c_push_state(c1, Closed)
                  [] OTHER -> c1

ServerFin(p, seg) ==
    /\ Idle /\ InUse(p)
    /\ ~(seg.ack /\ seg.syn) /\ seg.fin
    /\ LET c1 == ClosedByServerFin(tcp[p], seg)
       IN  /\ EndServer(p, c1, seg, << >>)
           /\ Finish(p, c1, FALSE)
    /\ seen' = [seen EXCEPT ![p] = @ \cup {"server_fin"}]

(* ACK of the server while the client closes.                              *)
AckedByServerMutant(c, seg) ==
    IF AcksFinOfClient(c, seg) /\ c.client_state \in {LastAck, FinWait1, Closing}
    THEN s_push_state(c_push_state(c, Closed), Closed)
    ELSE c

AckedByServer(c, seg) ==
    IF ~AcksFinOfClient(c, seg) THEN c
    ELSE CASE c.client_state = LastAck -> s_push_state(c_push_state(c, Closed), Closed)
           [] c.client_state = FinWait1 -> c_push_state(c, FinWait2)
           [] c.client_state = Closing -> c_push_state(c, Closed)
           [] OTHER -> c

ServerAck(p, seg) ==
    /\ Idle /\ InUse(p)
    /\ ~seg.syn /\ ~seg.fin /\ seg.ack
    /\ tcp[p].client_state >= LastAck
    /\ LET c1 == AckedByServer(tcp[p], seg)
       IN  /\ EndServer(p, c1, seg, << >>)
           /\ Finish(p, c1, FALSE)
    /\ UNCHANGED seen

(* Any other packet is forwarded on an established connection, else it     *)
(* goes to the kernel.                                                     *)
ServerOther(p, seg) ==
    /\ Idle /\ InUse(p)
    /\ ~(seg.ack /\ seg.syn) /\ ~seg.fin
    /\ ~(seg.ack /\ tcp[p].client_state >= LastAck)
    /\ EndServer(p, tcp[p], seg, <<Packet("kni", p, seg)>>)
    /\ UNCHANGED <<cmVars, seen>>

(***************************************************************************)
(* Timer packets                                                           *)
(***************************************************************************)

(* timeout also records that the client side is closed, and why.           *)
TimedOut(c) == c_push_state(set_release_cause(c, "Timeout"), Closed)

TimeoutEntry ==
    /\ TickEntry
    /\ LET p == Head(drain)
       IN  tcp' = IF get_mut_by_port(p) THEN [tcp EXCEPT ![p] = TimedOut(@)] ELSE tcp
    /\ out' = << >>
    /\ UNCHANGED seen

Timer ==
    \/ (Elapse \/ TimerTick(FALSE) \/ TickSlot) /\ out' = << >> /\ UNCHANGED <<tcp, seen>>
    \/ TimeoutEntry

-----------------------------------------------------------------------------
(* A packet of the client s.                                               *)
FromClient(s, seg) ==
    \/ ClientNoState(s, seg)
    \/ \E isn \in ISNs : ClientSyn(s, seg, isn)
    \/ \E p \in Ports :
        /\ p = sock2port[s]
        /\ \/ ClientResent(p, seg)
           \/ \E isn \in ISNs : ClientSynAgain(p, seg, isn)
           \/ ClientSynUnexpected(p, seg)
           \/ ClientAck2(p, seg)
           \/ ClientFinAfterServer(p, seg)
           \/ ClientFinFirst(p, seg)
           \/ ClientFinEarly(p, seg)
           \/ ClientRst(p, seg)
           \/ ClientAckForFin(p, seg)
           \/ ClientFinalAck(p, seg)
           \/ \E choice \in f_select_server(seg.data) : ClientFirstPayload(p, seg, choice)
           \/ ClientSelectFails(p, seg)
           \/ ClientOther(p, seg)

(* A packet of a server to the port p.                                     *)
FromServer(p, seg) ==
    \/ ServerNoState(p, seg)
    \/ ServerSynAck(p, seg)
    \/ ServerSynAckUnexpected(p, seg)
    \/ ServerFin(p, seg)
    \/ ServerAck(p, seg)
    \/ ServerOther(p, seg)

DPInit ==
    /\ CMInit
    /\ tcp = [p \in Ports |-> NewConnection]
    /\ out = << >>
    /\ seen = [p \in Ports |-> {}]

DPNext ==
    \/ \E seg \in ClientSegs, s \in Socks : FromClient(s, seg)
    \/ \E seg \in ServerSegs, p \in Ports : FromServer(p, seg)
    \/ Timer

DPSpec == DPInit /\ [][DPNext]_dpVars

(***************************************************************************)
(* Properties                                                              *)
(***************************************************************************)

(* Type invariant of the part of ProxyConnection that the handler keeps.   *)
DPTypeOK ==
    /\ tcp \in [Ports -> TcpConnection]
    /\ seen \in [Ports -> SUBSET Events]

(* The state of one side limits the state of the other, whatever the       *)
(* client and the server send: the server connection is opened for an      *)
(* established client only, the client is in a FIN_WAIT state only while   *)
(* the server has not begun to close, and is in LAST_ACK only after it has.*)
(* The comparisons of states in the handler rely on it.                    *)
SidesAgree ==
    \A p \in Ports : InUse(p) =>
        LET c == tcp[p].client_state
            s == tcp[p].server_state
        IN  /\ s = Listen => c \in {SynSent, Established}
            /\ s = SynReceived => c = Established
            /\ s = Established => c \in {Established, FinWait1, FinWait2}
            /\ c \in {FinWait1, FinWait2} => s \in {Established, LastAck}
            /\ c \in {CloseWait, LastAck} => s >= LastAck

(* A connection both of whose sides are closed is never kept: it would     *)
(* hold its port until the timeout and take a later SYN of its client for  *)
(* its own.                                                                *)
NoZombie ==
    \A p \in Ports : InUse(p) => ~(tcp[p].client_state = Closed /\ tcp[p].server_state = Closed)

(* The first payload packet is kept exactly while the server's SYN-ACK is  *)
(* awaited: it is neither lost nor sent twice by a connection that gets    *)
(* established.                                                            *)
PayloadPending ==
    \A p \in Ports : InUse(p) =>
        /\ tcp[p].server_state = SynReceived => tcp[p].payload_packet # << >>
        /\ tcp[p].server_state \in {Listen, Established} => tcp[p].payload_packet = << >>

(* p stays with the same client connection in this step.                   *)
SameConnection(p) == InUse(p) /\ InUse(p)'

(* Once the SYN-ACK of the server fixed the offset between the sequence    *)
(* numbers of the two connections, nothing but a new SYN of the client     *)
(* changes it, a second SYN-ACK in particular.                             *)
OffsetStable ==
    [][\A p \in Ports :
        /\ SameConnection(p)
        /\ tcp[p].server_state >= Established
        /\ tcp[p].client_state # Closed
        => tcp'[p].c_seqn = tcp[p].c_seqn]_dpVars

(* A connection is bound to a server once: a second payload packet, or a   *)
(* retransmission of the first, neither selects another server nor changes *)
(* the number of inserted bytes, and the server side never returns to a    *)
(* state before the one it reached in its handshake.                       *)
BoundOnce ==
    [][\A p \in Ports :
        SameConnection(p) /\ tcp[p].server_state # Listen =>
            /\ tcp'[p].server_index = tcp[p].server_index
            /\ tcp'[p].c2s_inserted_bytes = tcp[p].c2s_inserted_bytes
            /\ tcp[p].server_state = SynReceived => tcp'[p].server_state >= SynReceived
            /\ tcp[p].server_state >= Established => tcp'[p].server_state >= Established]_dpVars

(* Without an RST of the client and without a timeout, a port is released  *)
(* only when both the client and the server (or the proxy for it) sent a   *)
(* FIN.                                                                    *)
ReleasedAfterBothFins ==
    [][\A p \in Ports :
        /\ InUse(p) /\ ~InUse(p)'
        /\ drain = << >>
        /\ tcp'[p].server_state = Closed
        => {"client_fin", "server_fin"} \subseteq seen'[p]]_dpVars

(* What write_and_evaluate_records counts as completed, for either side.   *)
Completed(cause, last) == cause \in {"PassiveClose", "ActiveClose"} /\ last = Closed

(* The record of a released connection counts the client side as completed *)
(* only if it also counts the server side as completed: no half of the     *)
(* close is missing in the records, whatever the order in which FINs and   *)
(* ACKs of the two sides came, and the record of an earlier connection     *)
(* does not show through.                                                  *)
CompletedTogether ==
    detailed_records => \A p \in Ports :
        ~InUse(p) /\ Completed(tcp[p].c_cause, tcp[p].client_state)
            => Completed(tcp[p].s_cause, last_state(tcp[p]))

(***************************************************************************)
(* What comments and types of the code say and the code does not do        *)
(***************************************************************************)

(* "latest seqn of FIN seen for proxy to server": on an established        *)
(* connection it is the number of the FIN itself, which comes after the    *)
(* last byte of the segment that carries it.                               *)
FinSeqnIsOfFin ==
    [][\A p \in Ports : "synack" \in seen[p] =>
        \A i \in DOMAIN out' :
            out'[i].to = "server" /\ out'[i].port = p /\ out'[i].seg.fin =>
                tcp'[p].seqn_fin_p2s = wrapping_add(out'[i].seg.seq, Len(out'[i].seg.data))]_dpVars

(* "s_state: [u8; 7]": push_state finds a place in the array of the record *)
(* for every state of the server side.  Every FIN of the server takes one, *)
(* a repeated one too; the eighth state stops the pipeline, where the      *)
(* model goes on.                                                          *)
RecordsFit == \A p \in Ports : Len(tcp[p].s_states) <= MaxStates
=============================================================================
