--------------------------- MODULE ProxyNetProofs ---------------------------
(***************************************************************************)
(* Proofs about ProxyNet, for any streams, windows, losses and callbacks:  *)
(* the proxy in the network behaves as DelayedProxy says, so that what is  *)
(* proved of the handler for any segments holds between real endpoints;    *)
(* the streams of both endpoints arrive at the other one, and what is      *)
(* acknowledged has arrived.                                               *)
(*                                                                         *)
(* The invariant NetInv says that only segments are in flight.  It needs   *)
(* the handler's invariant, because what the handler emits is computed     *)
(* from the connection, and the endpoints', because what they send is      *)
(* computed from what they received.  ServerStreamInv, ClientStreamInv and *)
(* AckInv say which bytes, FINs and acknowledgements these segments may    *)
(* carry, counted in the numbers of the place where they are under way.    *)
(***************************************************************************)
EXTENDS ProxyNet, DelayedProxyProofs

(* Every segment is one that clients and servers may send.                 *)
AnySegment == ClientSegs = Segments /\ ServerSegs = Segments

(* The packets in o carry segments.                                        *)
CarriesSegments(o) == \A i \in DOMAIN o : o[i].seg \in Segments

(* e is an endpoint that has not sent more than it has.                    *)
Sound(e) == e \in Endpoint /\ e.una <= e.nxt /\ e.nxt <= Fin(e) + 1

(* What is in the network are segments.                                    *)
InFlight(packets) == \A m \in packets : m.seg \in Segments

NetInv ==
    /\ Sound(cl) /\ Sound(sv)
    /\ cl.isn = ClientISN /\ cl.stream = ClientStream
    /\ InFlight(net)

-----------------------------------------------------------------------------
(* A single packet that carries a segment.                                 *)
LEMMA OnePacket ==
    ASSUME NEW seg \in Segments, NEW to, NEW p
    PROVE  CarriesSegments(<<Packet(to, p, seg)>>)
BY DEF CarriesSegments, Packet

(* The empty output.                                                       *)
LEMMA NoPacket == CarriesSegments(<< >>)
BY DEF CarriesSegments

(* client_to_server and server_to_client make segments of segments.        *)
LEMMA Translated ==
    ASSUME AnySegment, NEW seg \in Segments, NEW c,
           c.c_seqn \in Seqns, c.c2s_inserted_bytes \in Int
    PROVE  client_to_server(c, seg) \in Segments /\ server_to_client(c, seg) \in Segments
<1>1. seg.seq \in Int /\ seg.ackn \in Int /\ c.c_seqn \in Int
  BY SeqAssumption DEF Segments, Seqns
<1>2. f_process_payload_c_s(seg.data) \in Seq(Bytes)
  BY CallbackAssumption DEF AnySegment
<1>3. /\ wrapping_add(seg.seq, c.c2s_inserted_bytes) \in Seqns
      /\ wrapping_sub(seg.ackn, c.c_seqn) \in Seqns
      /\ wrapping_add(seg.seq, c.c_seqn) \in Seqns
      /\ wrapping_sub(seg.ackn, c.c2s_inserted_bytes) \in Seqns
  BY <1>1, WrappingType
<1>4. ASSUME NEW a \in Seqns, NEW b \in Seqns, NEW d \in Seq(Bytes)
      PROVE  /\ [seg EXCEPT !.seq = a, !.ackn = b, !.data = d] \in Segments
             /\ [seg EXCEPT !.seq = a, !.ackn = b] \in Segments
  BY DEF Segments
<1>5. seg.data \in Seq(Bytes)
  BY DEF Segments
<1> QED
  BY <1>2, <1>3, <1>4, <1>5 DEF client_to_server, server_to_client

(* The numbers they use are not touched by what the connection remembers   *)
(* of the packet.                                                          *)
LEMMA Numbers ==
    ASSUME NEW c, NEW seg,
           AfterClientToServer(c, seg) \in TcpConnection \/ AfterServerToClient(c, seg) \in TcpConnection
    PROVE  c.c_seqn \in Seqns /\ c.c2s_inserted_bytes \in Int
<1>1. ASSUME NEW v, [c EXCEPT !.seqn_fin_p2s = v] \in TcpConnection
      PROVE  c.c_seqn \in Seqns /\ c.c2s_inserted_bytes \in Int
  BY <1>1 DEF TcpConnection
<1>2. ASSUME NEW v, NEW w, [c EXCEPT !.ackn_p2c = v, !.seqn = w] \in TcpConnection
      PROVE  c.c_seqn \in Seqns /\ c.c2s_inserted_bytes \in Int
  BY <1>2 DEF TcpConnection
<1>3. ASSUME c \in TcpConnection
      PROVE  c.c_seqn \in Seqns /\ c.c2s_inserted_bytes \in Int
  BY <1>3 DEF TcpConnection
<1> QED
  BY <1>1, <1>2, <1>3 DEF AfterClientToServer, AfterServerToClient

(* What the end of the handler emits: the packet, translated, or what the  *)
(* branch wants emitted.                                                   *)
LEMMA EndClientEmits ==
    ASSUME AnySegment, DPTypeOK, DPTypeOK', NEW p \in Ports, NEW c, NEW seg \in Segments, NEW sent,
           EndClient(p, c, seg, sent),
           c \in TcpConnection => CarriesSegments(sent)
    PROVE  CarriesSegments(out')
<1>1. tcp \in [Ports -> TcpConnection] /\ tcp'[p] \in TcpConnection
  BY DEF DPTypeOK
<1>2. CASE ForwardsClient(tcp[p])
  <2>1. AfterClientToServer(c, seg) \in TcpConnection
    BY <1>1, <1>2 DEF EndClient
  <2>2. client_to_server(c, seg) \in Segments
    BY <2>1, Numbers, Translated
  <2> QED
    BY <1>2, <2>2, OnePacket DEF EndClient
<1>3. CASE ~ForwardsClient(tcp[p])
  <2>1. c \in TcpConnection
    BY <1>1, <1>3 DEF EndClient
  <2> QED
    BY <1>3, <2>1 DEF EndClient
<1> QED
  BY <1>2, <1>3

(* The same for packets of a server.                                       *)
LEMMA EndServerEmits ==
    ASSUME AnySegment, DPTypeOK, DPTypeOK', NEW p \in Ports, NEW c, NEW seg \in Segments, NEW sent,
           EndServer(p, c, seg, sent),
           c \in TcpConnection => CarriesSegments(sent)
    PROVE  CarriesSegments(out')
<1>1. tcp \in [Ports -> TcpConnection] /\ tcp'[p] \in TcpConnection
  BY DEF DPTypeOK
<1>2. CASE ForwardsServer(tcp[p])
  <2>1. AfterServerToClient(c, seg) \in TcpConnection
    BY <1>1, <1>2 DEF EndServer
  <2>2. server_to_client(c, seg) \in Segments
    BY <2>1, Numbers, Translated
  <2> QED
    BY <1>2, <2>2, OnePacket DEF EndServer
<1>3. CASE ~ForwardsServer(tcp[p])
  <2>1. c \in TcpConnection
    BY <1>1, <1>3 DEF EndServer
  <2> QED
    BY <1>3, <2>1 DEF EndServer
<1> QED
  BY <1>2, <1>3

(* The segments that the handler makes up.                                 *)
LEMMA MadeUp ==
    ASSUME NEW seg \in Segments, NEW n \in Seqns, NEW d \in Seq(Bytes)
    PROVE  /\ [make_reply_packet(seg) EXCEPT !.seq = n] \in Segments
           /\ [make_reply_packet(seg) EXCEPT !.syn = FALSE, !.seq = n] \in Segments
           /\ [[make_reply_packet(seg) EXCEPT !.syn = FALSE, !.seq = n] EXCEPT !.data = d] \in Segments
           /\ [seg EXCEPT !.syn = TRUE, !.ack = FALSE, !.ackn = 0, !.data = << >>, !.seq = n] \in Segments
<1>1. wrapping_add(seg.seq, 1) \in Seqns /\ 0 \in Seqns
  BY WrappingSucc, SeqAssumption DEF Segments, Seqns
<1>2. make_reply_packet(seg) \in Segments
  BY <1>1 DEF make_reply_packet, Segments
<1>3. ASSUME NEW r \in Segments
      PROVE  /\ [r EXCEPT !.seq = n] \in Segments /\ [r EXCEPT !.data = d] \in Segments
             /\ [r EXCEPT !.syn = FALSE, !.seq = n] \in Segments
  BY DEF Segments
<1>4. ASSUME NEW z \in Seqns, NEW e \in Seq(Bytes)
      PROVE  [seg EXCEPT !.syn = TRUE, !.ack = FALSE, !.ackn = z, !.data = e, !.seq = n] \in Segments
  BY DEF Segments
<1>5. << >> \in Seq(Bytes)
  OBVIOUS
<1> QED
  BY <1>1, <1>2, <1>3, <1>4, <1>5

(* A packet of a client makes the handler emit segments only.              *)
LEMMA ClientEmits ==
    ASSUME AnySegment, DPTypeOK, DPTypeOK', NEW s, NEW seg \in Segments, FromClient(s, seg)
    PROVE  CarriesSegments(out')
<1>1. \A isn \in ISNs : SynAck(seg, isn) \in Segments
  <2>1. << >> \in Seq(Bytes)
    OBVIOUS
  <2> QED
    BY <2>1, MadeUp, ProxyAssumption DEF SynAck
<1>2. CASE ClientNoState(s, seg)
  BY <1>2, NoPacket DEF ClientNoState
<1>3. ASSUME NEW isn \in ISNs, ClientSyn(s, seg, isn) PROVE CarriesSegments(out')
  BY <1>1, <1>3, OnePacket DEF ClientSyn
<1>4. ASSUME NEW p \in Ports, NEW c, NEW r \in Segments, NEW sent,
             EndClient(p, c, r, sent), c \in TcpConnection => CarriesSegments(sent)
      PROVE  CarriesSegments(out')
  BY <1>4, EndClientEmits
<1>5. ASSUME NEW p \in Ports,
             ClientResent(p, seg) \/ ClientSynUnexpected(p, seg) \/ ClientAck2(p, seg)
             \/ ClientRst(p, seg) \/ ClientAckForFin(p, seg) \/ ClientFinalAck(p, seg)
      PROVE  CarriesSegments(out')
  <2>1. \E c : EndClient(p, c, seg, << >>)
    BY <1>5 DEF ClientResent, ClientSynUnexpected, ClientAck2, ClientRst, ClientAckForFin,
                ClientFinalAck
  <2> QED
    BY <1>4, <2>1, NoPacket
<1>6. ASSUME NEW p \in Ports, NEW isn \in ISNs, ClientSynAgain(p, seg, isn)
      PROVE  CarriesSegments(out')
  BY <1>1, <1>4, <1>6, OnePacket DEF ClientSynAgain
<1>7. ASSUME NEW p \in Ports, ClientFinAfterServer(p, seg) \/ ClientFinFirst(p, seg)
      PROVE  CarriesSegments(out')
  <2>1. \E c : EndClient(p, c, seg, <<Packet("wire", p, seg)>>)
    BY <1>7 DEF ClientFinAfterServer, ClientFinFirst
  <2> QED
    BY <1>4, <2>1, OnePacket
<1>8. ASSUME NEW p \in Ports, ClientFinEarly(p, seg) PROVE CarriesSegments(out')
  <2>1. PICK c : EndClient(p, c, seg,
                    <<Packet("client", p, [make_reply_packet(seg) EXCEPT !.seq = c.c_seqn])>>)
    BY <1>8 DEF ClientFinEarly
  <2>2. c \in TcpConnection => c.c_seqn \in Seqns /\ << >> \in Seq(Bytes)
    BY DEF TcpConnection
  <2> QED
    BY <1>4, <2>1, <2>2, MadeUp, OnePacket
<1>9. ASSUME NEW p \in Ports, NEW choice, ClientFirstPayload(p, seg, choice)
      PROVE  CarriesSegments(out')
  <2>1. PICK c : EndClient(p, c, seg, <<Packet("server", p, ServerSyn(c, seg))>>)
    BY <1>9 DEF ClientFirstPayload
  <2>2. c \in TcpConnection => c.seqn \in Seqns /\ << >> \in Seq(Bytes)
    BY DEF TcpConnection
  <2> QED
    BY <1>4, <2>1, <2>2, MadeUp, OnePacket DEF ServerSyn
<1>10. ASSUME NEW p \in Ports, ClientSelectFails(p, seg) PROVE CarriesSegments(out')
  BY <1>10, NoPacket DEF ClientSelectFails
<1>11. ASSUME NEW p \in Ports, ClientOther(p, seg) PROVE CarriesSegments(out')
  <2>1. \E c : EndClient(p, c, seg, <<Packet("kni", p, seg)>>) \/ EndClient(p, c, seg, << >>)
    BY <1>11 DEF ClientOther
  <2> QED
    BY <1>4, <2>1, NoPacket, OnePacket
<1> QED
  BY <1>2, <1>3, <1>5, <1>6, <1>7, <1>8, <1>9, <1>10, <1>11 DEF FromClient

(* Likewise a packet of a server.                                          *)
LEMMA ServerEmits ==
    ASSUME AnySegment, DPTypeOK, DPTypeOK', NEW p \in Ports, NEW seg \in Segments, FromServer(p, seg)
    PROVE  CarriesSegments(out')
<1>1. ASSUME NEW c, NEW sent,
             EndServer(p, c, seg, sent), c \in TcpConnection => CarriesSegments(sent)
      PROVE  CarriesSegments(out')
  BY <1>1, EndServerEmits
<1>2. CASE ServerNoState(p, seg)
  BY <1>2, OnePacket DEF ServerNoState
<1>3. CASE ServerSynAck(p, seg)
  <2>1. PICK c, ack :
            /\ ack = [make_reply_packet(seg) EXCEPT !.syn = FALSE, !.seq = c.seqn]
            /\ EndServer(p, c, seg,
                   <<Packet("server", p, ack)>> \o
                   IF tcp[p].payload_packet = << >> THEN << >>
                   ELSE <<Packet("server", p, [ack EXCEPT !.data = tcp[p].payload_packet[1]])>>)
    BY <1>3 DEF ServerSynAck
  <2>2. CASE tcp[p].payload_packet = << >>
    <3>1. EndServer(p, c, seg, <<Packet("server", p, ack)>> \o << >>)
      BY <2>1, <2>2
    <3>2. <<Packet("server", p, ack)>> \o << >> = <<Packet("server", p, ack)>>
      OBVIOUS
    <3>3. c \in TcpConnection => c.seqn \in Seqns /\ << >> \in Seq(Bytes)
      BY DEF TcpConnection
    <3>4. c \in TcpConnection => CarriesSegments(<<Packet("server", p, ack)>>)
      BY <2>1, <3>3, MadeUp, OnePacket
    <3> QED
      BY <1>1, <3>1, <3>2, <3>4
  <2>3. CASE tcp[p].payload_packet # << >>
    <3> DEFINE pl == [ack EXCEPT !.data = tcp[p].payload_packet[1]]
    <3>1. EndServer(p, c, seg, <<Packet("server", p, ack)>> \o <<Packet("server", p, pl)>>)
      BY <2>1, <2>3
    <3>2. tcp[p].payload_packet[1] \in Seq(Bytes)
      <4>1. tcp[p].payload_packet \in Seq(Seq(Bytes))
        BY DEF DPTypeOK, TcpConnection
      <4> QED
        BY <2>3, <4>1
    <3>3. c \in TcpConnection => c.seqn \in Seqns
      BY DEF TcpConnection
    <3>4. c \in TcpConnection => ack \in Segments /\ pl \in Segments
      BY <2>1, <3>2, <3>3, MadeUp
    <3> HIDE DEF pl
    <3>5. ASSUME NEW a, NEW b, a.seg \in Segments, b.seg \in Segments
          PROVE  CarriesSegments(<<a>> \o <<b>>)
      <4>1. <<a>> \in Seq({a, b}) /\ <<b>> \in Seq({a, b})
        OBVIOUS
      <4>2. \A i \in DOMAIN (<<a>> \o <<b>>) : (<<a>> \o <<b>>)[i] \in {a, b}
        BY <4>1
      <4> QED
        BY <3>5, <4>2 DEF CarriesSegments
    <3>6. Packet("server", p, ack).seg = ack /\ Packet("server", p, pl).seg = pl
      BY DEF Packet
    <3>7. c \in TcpConnection =>
            CarriesSegments(<<Packet("server", p, ack)>> \o <<Packet("server", p, pl)>>)
      BY <3>4, <3>5, <3>6
    <3> QED
      BY <1>1, <3>1, <3>7
  <2> QED
    BY <2>2, <2>3
<1>4. CASE ServerSynAckUnexpected(p, seg) \/ ServerFin(p, seg) \/ ServerAck(p, seg)
  <2>1. \E c : EndServer(p, c, seg, << >>)
    BY <1>4 DEF ServerSynAckUnexpected, ServerFin, ServerAck
  <2> QED
    BY <1>1, <2>1, NoPacket
<1>5. CASE ServerOther(p, seg)
  <2>1. \E c : EndServer(p, c, seg, <<Packet("kni", p, seg)>>)
    BY <1>5 DEF ServerOther
  <2> QED
    BY <1>1, <2>1, OnePacket
<1> QED
  BY <1>2, <1>3, <1>4, <1>5 DEF FromServer

-----------------------------------------------------------------------------
(* What an endpoint sends is a segment, with a number that belongs to it.  *)
LEMMA UnitSent ==
    ASSUME NEW e \in Endpoint, NEW k \in Nat
    PROVE  /\ Unit(e, k) \in Segments /\ Unit(e, k).seq = wrapping_add(e.isn, k)
           /\ PureAck(e) \in Segments /\ PureAck(e).seq = wrapping_add(e.isn, e.nxt)
<1>1. /\ e.isn \in Int /\ e.irs \in Int /\ e.got \in Nat /\ e.nxt \in Nat
      /\ e.stream \in Seq(Bytes)
  BY SeqAssumption DEF Endpoint, Seqns
<1>2. /\ wrapping_add(e.isn, k) \in Seqns /\ wrapping_add(e.irs, e.got) \in Seqns
      /\ wrapping_add(e.isn, e.nxt) \in Seqns /\ 0 \in Seqns
  <2>1. 0 \in Seqns
    BY SeqAssumption DEF Seqns
  <2>2. k \in Int /\ e.got \in Int /\ e.nxt \in Int
    BY <1>1
  <2> QED
    BY <1>1, <2>1, <2>2, WrappingType
<1>3. (IF k \in DOMAIN e.stream THEN <<e.stream[k]>> ELSE << >>) \in Seq(Bytes)
  <2>1. CASE k \in DOMAIN e.stream
    <3>1. e.stream[k] \in Bytes
      BY <1>1, <2>1
    <3> QED
      BY <2>1, <3>1
  <2>2. CASE k \notin DOMAIN e.stream
    BY <2>2
  <2> QED
    BY <2>1, <2>2
<1>4. << >> \in Seq(Bytes)
  OBVIOUS
<1>5. (k = 0) \in BOOLEAN /\ (k = Fin(e)) \in BOOLEAN /\ (e.got > 0) \in BOOLEAN
  OBVIOUS
<1>6. (IF e.got > 0 THEN wrapping_add(e.irs, e.got) ELSE 0) \in Seqns
  BY <1>2
<1>7. Unit(e, k) \in Segments /\ Unit(e, k).seq = wrapping_add(e.isn, k)
  BY <1>2, <1>3, <1>5, <1>6 DEF Unit, Segments
<1>8. PureAck(e) \in Segments /\ PureAck(e).seq = wrapping_add(e.isn, e.nxt)
  BY <1>2, <1>4 DEF PureAck, Segments
<1> QED
  BY <1>7, <1>8

(* An endpoint stays sound whatever segment it receives, and keeps its     *)
(* numbers and its stream.                                                 *)
LEMMA ReceivedSound ==
    ASSUME NEW e, Sound(e), NEW seg \in Segments
    PROVE  /\ Sound(ReceivedBy(e, seg))
           /\ ReceivedBy(e, seg).isn = e.isn /\ ReceivedBy(e, seg).stream = e.stream
<1> DEFINE Same(a) == a.isn = e.isn /\ a.stream = e.stream /\ a.nxt = e.nxt /\ a.closes = e.closes
<1>1. ASSUME NEW a \in Endpoint, Same(a), a.una <= a.nxt PROVE Sound(a)
  BY <1>1 DEF Sound, Fin
<1>a. PICK a : a = Acked(e, seg)
  OBVIOUS
<1>2. a \in Endpoint /\ Same(a) /\ a.una <= a.nxt
  <2>n. PICK n : n = wrapping_sub(seg.ackn, e.isn)
    OBVIOUS
  <2>1. e \in Endpoint /\ e.una \in Nat /\ e.nxt \in Nat /\ e.una <= e.nxt
    BY DEF Sound, Endpoint
  <2>2. CASE seg.ack /\ n \in (e.una + 1)..e.nxt
    <3>1. n \in Nat /\ n <= e.nxt /\ a = [e EXCEPT !.una = n]
      BY <1>a, <2>n, <2>1, <2>2 DEF Acked
    <3> QED
      BY <2>1, <3>1 DEF Endpoint
  <2>3. CASE ~(seg.ack /\ n \in (e.una + 1)..e.nxt)
    BY <1>a, <2>n, <2>1, <2>3 DEF Acked
  <2> QED
    BY <2>2, <2>3
<1>3. /\ Opened(a, seg) \in Endpoint /\ Same(Opened(a, seg))
      /\ Opened(a, seg).una <= Opened(a, seg).nxt
  <2>1. seg.seq \in Seqns /\ 1 \in Nat
    BY DEF Segments
  <2> QED
    BY <1>2, <2>1 DEF Opened, Endpoint
<1>4. /\ Taken(a, seg) \in Endpoint /\ Same(Taken(a, seg))
      /\ Taken(a, seg).una <= Taken(a, seg).nxt
  <2>o. PICK old : old = wrapping_sub(wrapping_add(a.irs, a.got), seg.seq)
    OBVIOUS
  <2>1. /\ seg.seq \in Int /\ a.irs \in Int /\ a.got \in Nat /\ seg.data \in Seq(Bytes)
        /\ a.rcvd \in Seq(Bytes)
    BY <1>2, SeqAssumption DEF Segments, Endpoint, Seqns
  <2>2. old \in Nat
    <3>1. wrapping_add(a.irs, a.got) \in Seqns
      BY <2>1, WrappingType
    <3>2. wrapping_add(a.irs, a.got) \in Int
      BY <3>1, SeqAssumption DEF Seqns
    <3>3. old \in Seqns
      BY <2>o, <2>1, <3>2, WrappingType
    <3> QED
      BY <3>3, SeqAssumption DEF Seqns
  <2>3. Size(seg) \in Nat
    <3>1. Len(seg.data) \in Nat
      BY <2>1
    <3>2. (IF seg.syn THEN 1 ELSE 0) \in {0, 1} /\ (IF seg.fin THEN 1 ELSE 0) \in {0, 1}
      OBVIOUS
    <3>3. ASSUME NEW x \in Nat, NEW y \in {0, 1}, NEW z \in {0, 1} PROVE x + y + z \in Nat
      OBVIOUS
    <3> QED
      BY <3>1, <3>2, <3>3 DEF Size
  <2>4. CASE ~seg.syn /\ ~a.ended /\ old < Size(seg)
    <3>g. PICK g : g = a.got + Size(seg) - old
      OBVIOUS
    <3>r. PICK r : r = a.rcvd \o SubSeq(seg.data, old + 1, Len(seg.data))
      OBVIOUS
    <3>1. g \in Nat
      BY <2>1, <2>2, <2>3, <2>4, <3>g
    <3>2. r \in Seq(Bytes)
      <4>1. SubSeq(seg.data, old + 1, Len(seg.data)) \in Seq(Bytes)
        BY <2>1, <2>2
      <4> QED
        BY <2>1, <3>r, <4>1
    <3>3. Taken(a, seg) = [a EXCEPT !.got = g, !.ended = seg.fin, !.rcvd = r]
      BY <2>o, <2>4, <3>g, <3>r DEF Taken
    <3>4. seg.fin \in BOOLEAN
      BY DEF Segments
    <3> QED
      BY <1>2, <3>1, <3>2, <3>3, <3>4 DEF Endpoint
  <2>5. CASE ~(~seg.syn /\ ~a.ended /\ old < Size(seg))
    BY <1>2, <2>o, <2>5 DEF Taken
  <2> QED
    BY <2>4, <2>5
<1> QED
  BY <1>1, <1>a, <1>3, <1>4 DEF ReceivedBy

(* What joins the packets in flight.                                       *)
LEMMA Joins ==
    ASSUME InFlight(net), NEW m, NEW packets, InFlight(packets),
           net' = net \cup packets \/ net' = Without(m) \cup packets \/ net' = net \ {m}
    PROVE  InFlight(net')
BY DEF InFlight, Without

(* A segment on its way to dst.                                            *)
LEMMA OnTheWay ==
    ASSUME NEW dst, NEW segs, segs \subseteq Segments
    PROVE  InFlight(To(dst, segs))
BY DEF InFlight, To

(* At the start the network is empty.                                      *)
LEMMA PNInitInv == PNInit => DPInv /\ NetInv
<1> SUFFICES ASSUME PNInit PROVE DPInv /\ NetInv
  OBVIOUS
<1>1. DPInv
  BY DPInitInv DEF PNInit
<1>2. ASSUME NEW isn \in Seqns, NEW stream \in Seq(Bytes), NEW b \in BOOLEAN
      PROVE  /\ Sound(NewEndpoint(isn, stream, b))
             /\ NewEndpoint(isn, stream, b).isn = isn /\ NewEndpoint(isn, stream, b).stream = stream
  <2>1. 0 \in Seqns /\ << >> \in Seq(Bytes) /\ Len(stream) \in Nat
    BY SeqAssumption DEF Seqns
  <2>2. NewEndpoint(isn, stream, b) \in Endpoint
    BY <2>1 DEF NewEndpoint, Endpoint
  <2> QED
    BY <2>1, <2>2 DEF Sound, NewEndpoint, Fin
<1>3. PICK closers : /\ cl = NewEndpoint(ClientISN, ClientStream, "client" \in closers)
                     /\ sv = NewEndpoint(ServerISN, ServerStream, "server" \in closers)
  BY DEF PNInit
<1>b. ("client" \in closers) \in BOOLEAN /\ ("server" \in closers) \in BOOLEAN
  OBVIOUS
<1>4. InFlight(net)
  BY DEF PNInit, InFlight
<1> QED
  BY <1>1, <1>2, <1>3, <1>b, <1>4, NetAssumption DEF NetInv

(* The endpoints' own steps.                                               *)
LEMMA EndpointStep ==
    ASSUME NetInv,
           ClientSend \/ ServerSend \/ ClientResend \/ ServerResend
           \/ \E m \in net : ClientReceive(m) \/ ServerReceive(m) \/ Lose(m)
    PROVE  NetInv' /\ UNCHANGED dpVars
<1>1. /\ cl \in Endpoint /\ cl.nxt \in Nat /\ cl.una \in Nat /\ cl.una <= cl.nxt
      /\ sv \in Endpoint /\ sv.nxt \in Nat /\ sv.una \in Nat /\ sv.una <= sv.nxt
      /\ Sound(cl) /\ Sound(sv) /\ InFlight(net)
      /\ cl.isn = ClientISN /\ cl.stream = ClientStream
  BY DEF NetInv, Sound, Endpoint
<1>2. ASSUME NEW e, Sound(e), MaySend(e)
      PROVE  LET d == [e EXCEPT !.nxt = @ + 1]
             IN  Sound(d) /\ d.isn = e.isn /\ d.stream = e.stream
  <2>1. /\ e \in Endpoint /\ e.nxt \in Nat /\ e.una \in Nat /\ e.una <= e.nxt
        /\ Len(e.stream) \in Nat /\ e.nxt <= Len(e.stream) + 1
    BY <1>2 DEF Sound, Endpoint, MaySend, Fin
  <2>n. PICK n \in Nat : n = e.nxt + 1
    BY <2>1
  <2>d. PICK d : d = [e EXCEPT !.nxt = n]
    OBVIOUS
  <2>2. /\ d \in Endpoint /\ d.nxt = n /\ d.una = e.una
        /\ d.isn = e.isn /\ d.stream = e.stream
    BY <2>1, <2>d DEF Endpoint
  <2>3. Sound(d)
    BY <2>1, <2>2, <2>n DEF Sound, Fin
  <2> QED
    BY <2>2, <2>3, <2>n, <2>d
<1>3. ASSUME NEW k \in 0..cl.nxt
      PROVE  InFlight(To("proxy_c", {Unit(cl, k)}))
  <2>1. k \in Nat
    BY <1>1
  <2>2. Unit(cl, k) \in Segments
    BY <1>1, <2>1, UnitSent
  <2> QED
    BY <2>2, OnTheWay
<1>4. ASSUME NEW k \in Nat
      PROVE  InFlight(To("proxy_s", {Unit(sv, k)}))
  BY <1>1, UnitSent, OnTheWay
<1>5. ASSUME NEW e, Sound(e), NEW seg \in Segments
      PROVE  Answer(e, ReceivedBy(e, seg), seg) \subseteq {PureAck(ReceivedBy(e, seg))}
  BY DEF Answer
<1>6. ASSUME Sound(cl'), Sound(sv'), cl'.isn = ClientISN, cl'.stream = ClientStream, InFlight(net')
      PROVE  NetInv'
  BY <1>6 DEF NetInv, Sound, InFlight, Fin, Endpoint
<1>7. CASE ClientSend
  <2>1. cl.nxt \in 0..cl.nxt
    BY <1>1
  <2>2. InFlight(net')
    BY <1>1, <1>3, <1>7, <2>1, Joins DEF ClientSend
  <2>3. Sound(cl') /\ cl'.isn = cl.isn /\ cl'.stream = cl.stream
    BY <1>1, <1>2, <1>7 DEF ClientSend
  <2>4. sv' = sv /\ UNCHANGED dpVars
    BY <1>7 DEF ClientSend
  <2> QED
    BY <1>1, <1>6, <2>2, <2>3, <2>4
<1>8. CASE ServerSend
  <2>1. InFlight(net')
    BY <1>1, <1>4, <1>8, Joins DEF ServerSend
  <2>2. Sound(sv')
    BY <1>1, <1>2, <1>8 DEF ServerSend
  <2>3. cl' = cl /\ UNCHANGED dpVars
    BY <1>8 DEF ServerSend
  <2> QED
    BY <1>1, <1>6, <2>1, <2>2, <2>3
<1>9. CASE ClientResend
  <2>1. cl.una \in 0..cl.nxt
    BY <1>1
  <2>2. InFlight(net')
    BY <1>1, <1>3, <1>9, <2>1, Joins DEF ClientResend
  <2>3. cl' = cl /\ sv' = sv /\ UNCHANGED dpVars
    BY <1>9 DEF ClientResend
  <2> QED
    BY <1>1, <1>6, <2>2, <2>3
<1>10. CASE ServerResend
  <2>1. InFlight(net')
    BY <1>1, <1>4, <1>10, Joins DEF ServerResend
  <2>2. cl' = cl /\ sv' = sv /\ UNCHANGED dpVars
    BY <1>10 DEF ServerResend
  <2> QED
    BY <1>1, <1>6, <2>1, <2>2
<1>11. ASSUME NEW m \in net, ClientReceive(m) PROVE NetInv' /\ UNCHANGED dpVars
  <2>1. m.seg \in Segments /\ cl' = ReceivedBy(cl, m.seg) /\ sv' = sv /\ UNCHANGED dpVars
    BY <1>1, <1>11 DEF ClientReceive, InFlight
  <2>2. Sound(cl') /\ cl'.isn = ClientISN /\ cl'.stream = ClientStream
    BY <1>1, <2>1, ReceivedSound
  <2>3. cl' \in Endpoint /\ cl'.nxt \in Nat /\ cl'.nxt \in 0..cl'.nxt
    BY <2>2 DEF Sound, Endpoint
  <2>4. PureAck(cl') \in Segments
    BY <2>2, <2>3, UnitSent
  <2>5. InFlight(To("proxy_c", Answer(cl, cl', m.seg)))
    BY <1>1, <1>5, <2>1, <2>4, OnTheWay
  <2>6. InFlight(net')
    BY <1>1, <1>11, <2>5, Joins DEF ClientReceive
  <2> QED
    BY <1>1, <1>6, <2>1, <2>2, <2>6
<1>12. ASSUME NEW m \in net, ServerReceive(m) PROVE NetInv' /\ UNCHANGED dpVars
  <2>1. m.seg \in Segments /\ sv' = ReceivedBy(sv, m.seg) /\ cl' = cl /\ UNCHANGED dpVars
    BY <1>1, <1>12 DEF ServerReceive, InFlight
  <2>2. Sound(sv')
    BY <1>1, <2>1, ReceivedSound
  <2>3. PureAck(sv') \in Segments
    <3>1. sv' \in Endpoint /\ sv'.nxt \in Nat
      BY <2>2 DEF Sound, Endpoint
    <3> QED
      BY <3>1, UnitSent
  <2>4. InFlight(To("proxy_s", Answer(sv, sv', m.seg)))
    BY <1>1, <1>5, <2>1, <2>3, OnTheWay
  <2>5. InFlight(net')
    BY <1>1, <1>12, <2>4, Joins DEF ServerReceive
  <2> QED
    BY <1>1, <1>6, <2>1, <2>2, <2>5
<1>13. ASSUME NEW m \in net, Lose(m) PROVE NetInv' /\ UNCHANGED dpVars
  <2>1. InFlight({})
    BY DEF InFlight
  <2>2. InFlight(net')
    BY <1>1, <1>13, <2>1, Joins DEF Lose
  <2>3. cl' = cl /\ sv' = sv /\ UNCHANGED dpVars
    BY <1>13 DEF Lose
  <2> QED
    BY <1>1, <1>6, <2>2, <2>3
<1> QED
  BY <1>7, <1>8, <1>9, <1>10, <1>11, <1>12, <1>13

(* The steps of the proxy are steps of the handler.                        *)
LEMMA ProxyStep ==
    ASSUME AnySegment, DPInv, NetInv, ProxyTimer \/ \E m \in net : ProxyReceive(m)
    PROVE  DPNext /\ NetInv'
<1>1. Sound(cl) /\ Sound(sv) /\ cl.isn = ClientISN /\ cl.stream = ClientStream /\ InFlight(net)
  BY DEF NetInv
<1>2. ASSUME cl' = cl, sv' = sv, InFlight(net')
      PROVE  NetInv'
  BY <1>1, <1>2 DEF NetInv, Sound, InFlight, Fin, Endpoint
<1>3. CASE ProxyTimer
  <2>1. DPNext
    BY <1>3 DEF ProxyTimer, DPNext
  <2>2. cl' = cl /\ sv' = sv /\ net' = net
    BY <1>3 DEF ProxyTimer, netVars
  <2> QED
    BY <1>1, <1>2, <2>1, <2>2
<1>4. ASSUME NEW m \in net, ProxyReceive(m) PROVE DPNext /\ NetInv'
  <2>1. m.seg \in Segments /\ TheClient \in Socks /\ ThePort \in Ports
    BY <1>1, NetAssumption DEF InFlight
  <2>2. FromClient(TheClient, m.seg) \/ FromServer(ThePort, m.seg)
    BY <1>4 DEF ProxyReceive
  <2>3. DPNext
    BY <2>1, <2>2 DEF DPNext, AnySegment
  <2>4. DPTypeOK /\ DPTypeOK'
    <3>1. DPInv'
      BY <2>3, DPNextInv
    <3> QED
      BY <3>1 DEF DPInv
  <2>5. CarriesSegments(out')
    BY <2>1, <2>2, <2>4, ClientEmits, ServerEmits
  <2>6. InFlight(Emitted(out'))
    <3>1. \A x \in Emitted(out') : \E i \in DOMAIN out' : x.seg = out'[i].seg
      BY DEF Emitted, To
    <3> QED
      BY <2>5, <3>1 DEF CarriesSegments, InFlight
  <2>7. InFlight(net')
    BY <1>1, <1>4, <2>6, Joins DEF ProxyReceive
  <2>8. cl' = cl /\ sv' = sv
    BY <1>4 DEF ProxyReceive
  <2> QED
    BY <1>2, <2>3, <2>7, <2>8
<1> QED
  BY <1>3, <1>4

(* Every step is one of the handler or none of its business, and keeps     *)
(* both invariants.                                                        *)
LEMMA PNNextInv ==
    ASSUME AnySegment, DPInv, NetInv, [PNNext]_pnVars
    PROVE  [DPNext]_dpVars /\ DPInv' /\ NetInv'
<1>1. CASE ClientSend \/ ServerSend \/ ClientResend \/ ServerResend
           \/ \E m \in net : ClientReceive(m) \/ ServerReceive(m) \/ Lose(m)
  BY <1>1, EndpointStep, DPNextInv
<1>2. CASE ProxyTimer \/ \E m \in net : ProxyReceive(m)
  BY <1>2, ProxyStep, DPNextInv
<1>3. CASE UNCHANGED pnVars
  <2>1. UNCHANGED dpVars /\ cl' = cl /\ sv' = sv /\ net' = net
    BY <1>3 DEF pnVars, netVars
  <2>2. NetInv'
    BY <2>1 DEF NetInv, Sound, InFlight, Fin, Endpoint
  <2> QED
    BY <2>1, <2>2, DPNextInv
<1> QED
  BY <1>1, <1>2, <1>3 DEF PNNext, Deliver

-----------------------------------------------------------------------------
(* Between its endpoints and on the unreliable network the handler gets    *)
(* segments only, and answers them with segments; so its use is one that   *)
(* DelayedProxy describes, and the theorems about it hold.                 *)
THEOREM NetworkRunsHandler ==
    ASSUME AnySegment
    PROVE  PNSafeSpec => DPSpec
<1>1. PNInit => DPInit /\ DPInv /\ NetInv
  BY PNInitInv DEF PNInit
<1>2. DPInv /\ NetInv /\ [PNNext]_pnVars => [DPNext]_dpVars /\ DPInv' /\ NetInv'
  BY PNNextInv
<1> QED
  BY <1>1, <1>2, PTL DEF PNSafeSpec, DPSpec

(***************************************************************************)
(* Sequence numbers                                                        *)
(***************************************************************************)

(* A quotient and a remainder determine each other.                        *)
LEMMA DivisionUnique ==
    ASSUME NEW a \in Int, NEW b \in Int, NEW r \in 0..(SeqMod - 1), NEW s \in 0..(SeqMod - 1),
           SeqMod * a + r = SeqMod * b + s
    PROVE  r = s
<1>1. SeqMod * (a - b) = s - r
  BY SeqAssumption
<1>2. CASE a > b
  <2>1. PICK d \in Nat : d = a - b - 1
    BY <1>2
  <2>2. SeqMod * (a - b) = SeqMod * d + SeqMod /\ SeqMod * d >= 0
    BY <2>1, SeqAssumption
  <2> QED
    BY <1>1, <2>2, SeqAssumption
<1>3. CASE a < b
  <2>1. PICK d \in Nat : d = b - a - 1
    BY <1>3
  <2>2. SeqMod * (a - b) = 0 - (SeqMod * d) - SeqMod /\ SeqMod * d >= 0
    BY <2>1, SeqAssumption
  <2> QED
    BY <1>1, <2>2, SeqAssumption
<1> QED
  BY <1>1, <1>2, <1>3, SeqAssumption

(* Division with remainder.                                                *)
LEMMA Division ==
    ASSUME NEW x \in Int
    PROVE  \E q \in Int, r \in 0..(SeqMod - 1) : x = SeqMod * q + r /\ r = x % SeqMod
<1>1. /\ x \div SeqMod \in Int /\ x % SeqMod \in 0..(SeqMod - 1)
      /\ x = SeqMod * (x \div SeqMod) + (x % SeqMod)
  BY SeqAssumption
<1> QED
  BY <1>1

(* Numbers that differ by a multiple of SeqMod have the same remainder.    *)
LEMMA SameRemainder ==
    ASSUME NEW x \in Int, NEW y \in Int, NEW q \in Int, x = y + SeqMod * q
    PROVE  x % SeqMod = y % SeqMod
<1>1. PICK a \in Int, r \in 0..(SeqMod - 1) : x = SeqMod * a + r /\ r = x % SeqMod
  BY Division
<1>2. PICK b \in Int, s \in 0..(SeqMod - 1) : y = SeqMod * b + s /\ s = y % SeqMod
  BY Division
<1>3. PICK d \in Int : d = b + q
  OBVIOUS
<1>4. SeqMod * d = SeqMod * b + SeqMod * q
  BY <1>3, SeqAssumption
<1>5. SeqMod * a + r = SeqMod * d + s
  <2>1. PICK m \in Int : m = SeqMod
    BY SeqAssumption
  <2>2. PICK ma \in Int, mb \in Int, mq \in Int : ma = SeqMod * a /\ mb = SeqMod * b /\ mq = SeqMod * q
    BY SeqAssumption
  <2> QED
    BY <1>1, <1>2, <1>4, <2>2
<1>6. r = s
  BY <1>5, DivisionUnique
<1> QED
  BY <1>1, <1>2, <1>6

(* Additions and subtractions follow each other as without wrapping.       *)
LEMMA WrappingTwice ==
    ASSUME NEW a \in Int, NEW x \in Int, NEW y \in Int
    PROVE  /\ wrapping_add(wrapping_add(a, x), y) = wrapping_add(a, x + y)
           /\ wrapping_sub(wrapping_add(a, x), y) = wrapping_add(a, x - y)
           /\ wrapping_add(wrapping_sub(a, x), y) = wrapping_add(a, y - x)
           /\ wrapping_sub(wrapping_sub(a, x), y) = wrapping_sub(a, x + y)
<1>1. ASSUME NEW u \in Int, NEW v \in Int
      PROVE  ((u % SeqMod) + v) % SeqMod = (u + v) % SeqMod
  <2>1. PICK q \in Int, r \in 0..(SeqMod - 1) : u = SeqMod * q + r /\ r = u % SeqMod
    BY Division
  <2>2. r + v \in Int /\ u + v \in Int /\ u + v = (r + v) + SeqMod * q
    BY <2>1, SeqAssumption
  <2>3. (u + v) % SeqMod = (r + v) % SeqMod
    BY <2>2, SameRemainder
  <2> QED
    BY <2>1, <2>3
<1>2. a + x \in Int /\ a - x \in Int /\ 0 - y \in Int
  OBVIOUS
<1>3. (((a + x) % SeqMod) + y) % SeqMod = (a + x + y) % SeqMod
  BY <1>1, <1>2
<1>4. (((a + x) % SeqMod) + (0 - y)) % SeqMod = (a + x + (0 - y)) % SeqMod
  BY <1>1, <1>2
<1>5. (((a - x) % SeqMod) + y) % SeqMod = (a - x + y) % SeqMod
  BY <1>1, <1>2
<1>6. (((a - x) % SeqMod) + (0 - y)) % SeqMod = (a - x + (0 - y)) % SeqMod
  BY <1>1, <1>2
<1>7. /\ a + x + y = a + (x + y) /\ a + x + (0 - y) = a + (x - y)
      /\ a - x + y = a + (y - x) /\ a - x + (0 - y) = a - (x + y)
  OBVIOUS
<1>8. (a + x) % SeqMod \in Int /\ (a - x) % SeqMod \in Int
  BY <1>2, SeqAssumption
<1>9. /\ ((a + x) % SeqMod) + (0 - y) = ((a + x) % SeqMod) - y
      /\ ((a - x) % SeqMod) + (0 - y) = ((a - x) % SeqMod) - y
  BY <1>8
<1> QED
  BY <1>3, <1>4, <1>5, <1>6, <1>7, <1>9 DEF wrapping_add, wrapping_sub

(* Numbers less than SeqMod apart do not meet.                             *)
LEMMA WrappingInjective ==
    ASSUME NEW a \in Int, NEW x \in Int, NEW y \in Int,
           wrapping_add(a, x) = wrapping_add(a, y), x - y < SeqMod, y - x < SeqMod
    PROVE  x = y
<1>0. a + x \in Int /\ a + y \in Int
  OBVIOUS
<1>1. PICK q \in Int, r \in 0..(SeqMod - 1) : a + x = SeqMod * q + r /\ r = (a + x) % SeqMod
  BY <1>0, Division
<1>2. PICK p \in Int, s \in 0..(SeqMod - 1) : a + y = SeqMod * p + s /\ s = (a + y) % SeqMod
  BY <1>0, Division
<1>d. PICK d \in Int : d = q - p
  OBVIOUS
<1>3. SeqMod * d = x - y
  <2>1. SeqMod * d = SeqMod * q - SeqMod * p /\ SeqMod * q \in Int /\ SeqMod * p \in Int
    BY <1>d, SeqAssumption
  <2>2. r = s
    BY <1>1, <1>2 DEF wrapping_add
  <2>3. PICK u \in Int, v \in Int : u = SeqMod * q /\ v = SeqMod * p
    BY <2>1
  <2> QED
    BY <1>1, <1>2, <2>1, <2>2, <2>3
<1>4. CASE d >= 1
  <2>1. PICK e \in Nat : e = d - 1
    BY <1>4
  <2>2. SeqMod * d = SeqMod * e + SeqMod /\ SeqMod * e >= 0
    BY <2>1, SeqAssumption
  <2> QED
    BY <1>3, <2>2, SeqAssumption
<1>5. CASE d <= 0 - 1
  <2>1. PICK e \in Nat : e = 0 - d - 1
    BY <1>5
  <2>2. SeqMod * d = 0 - (SeqMod * e) - SeqMod /\ SeqMod * e >= 0
    BY <2>1, SeqAssumption
  <2> QED
    BY <1>3, <2>2, SeqAssumption
<1> QED
  BY <1>3, <1>4, <1>5, SeqAssumption

(* Numbers without a distance are the same.                                *)
LEMMA NoDistance ==
    ASSUME NEW a \in Seqns, NEW b \in Seqns, wrapping_sub(a, b) = 0
    PROVE  a = b
<1>0. a \in Int /\ b \in Int /\ 0 \in Int /\ b - a \in Int /\ a - b \in Int
  BY SeqAssumption DEF Seqns
<1>1. wrapping_add(wrapping_sub(a, b), b) = wrapping_add(a, b - b)
  BY <1>0, WrappingTwice
<1>2. a % SeqMod = a /\ b % SeqMod = b
  BY SeqAssumption DEF Seqns
<1> QED
  BY <1>0, <1>1, <1>2 DEF wrapping_add

(* The distance of two numbers that are counted from the same one.         *)
LEMMA Distance ==
    ASSUME NEW a \in Int, NEW x \in Int, NEW y \in Int, 0 <= x - y, x - y < SeqMod
    PROVE  wrapping_sub(wrapping_add(a, x), wrapping_add(a, y)) = x - y
<1>0. a + x \in Int /\ a + y \in Int /\ x - y \in Int
  OBVIOUS
<1>1. PICK q \in Int, r \in 0..(SeqMod - 1) : a + x = SeqMod * q + r /\ r = (a + x) % SeqMod
  BY <1>0, Division
<1>2. PICK p \in Int, s \in 0..(SeqMod - 1) : a + y = SeqMod * p + s /\ s = (a + y) % SeqMod
  BY <1>0, Division
<1>d. PICK d \in Int : d = p - q
  OBVIOUS
<1>3. r - s = (x - y) + SeqMod * d
  <2>1. SeqMod * d = SeqMod * p - SeqMod * q /\ SeqMod * q \in Int /\ SeqMod * p \in Int
    BY <1>d, SeqAssumption
  <2>2. PICK u \in Int, v \in Int : u = SeqMod * q /\ v = SeqMod * p
    BY <2>1
  <2>3. SeqMod * d = v - u /\ a + x = u + r /\ a + y = v + s
    BY <1>1, <1>2, <2>1, <2>2
  <2>4. PICK w \in Int : w = SeqMod * d
    BY SeqAssumption
  <2>5. r \in Int /\ s \in Int
    BY SeqAssumption
  <2>6. r - s = (x - y) + w
    BY <2>3, <2>4, <2>5
  <2> QED
    BY <2>4, <2>6
<1>4. r - s \in Int
  BY SeqAssumption
<1>5. (r - s) % SeqMod = (x - y) % SeqMod
  BY <1>0, <1>3, <1>4, SameRemainder
<1>6. (x - y) % SeqMod = x - y
  BY SeqAssumption
<1> QED
  BY <1>1, <1>2, <1>5, <1>6 DEF wrapping_add, wrapping_sub

(***************************************************************************)
(* What a branch of the handler does to the numbers of a connection        *)
(***************************************************************************)

(* d is c after a branch that neither opens nor answers a connection: the  *)
(* translation between the two sides is the same, and the server side is   *)
(* as it was or closes.                                                    *)
Kept(c, d) ==
    /\ d \in TcpConnection
    /\ d.c_seqn = c.c_seqn
    /\ d.c2s_inserted_bytes = c.c2s_inserted_bytes
    /\ d.payload_packet = c.payload_packet
    /\ d.server_state = c.server_state \/ d.server_state >= LastAck
    /\ c.server_state < Established => d.seqn = c.seqn

(* New states and causes keep the numbers.                                 *)
LEMMA PushKeeps ==
    ASSUME NEW c \in TcpConnection, NEW d, Kept(c, d), NEW state \in States,
           NEW cause \in ReleaseCauses
    PROVE  /\ Kept(c, c)
           /\ Kept(c, c_push_state(d, state))
           /\ c_push_state(d, state).client_state = state
           /\ Kept(c, set_release_cause(d, cause))
           /\ set_release_cause(d, cause).client_state = d.client_state
           /\ Kept(c, s_set_release_cause(d, cause))
           /\ s_set_release_cause(d, cause).client_state = d.client_state
           /\ state >= LastAck => Kept(c, s_push_state(d, state))
           /\ s_push_state(d, state).client_state = d.client_state
<1>1. Kept(c, c)
  BY DEF Kept
<1>2. Kept(c, c_push_state(d, state)) /\ c_push_state(d, state).client_state = state
  BY DEF Kept, c_push_state, TcpConnection
<1>3. /\ Kept(c, set_release_cause(d, cause))
      /\ set_release_cause(d, cause).client_state = d.client_state
  BY DEF Kept, set_release_cause, TcpConnection
<1>4. /\ Kept(c, s_set_release_cause(d, cause))
      /\ s_set_release_cause(d, cause).client_state = d.client_state
  BY DEF Kept, s_set_release_cause, TcpConnection
<1>5. /\ state >= LastAck => Kept(c, s_push_state(d, state))
      /\ s_push_state(d, state).client_state = d.client_state
  <2>1. d \in TcpConnection
    BY DEF Kept
  <2>2. s_push_state(d, state).seqn = d.seqn
    BY <2>1 DEF s_push_state, TcpConnection
  <2> QED
    BY <2>1, <2>2, ServerPushed DEF Kept, KeepsBinding
<1> QED
  BY <1>1, <1>2, <1>3, <1>4, <1>5

(* The client's state after a packet of the server: it changes only once   *)
(* the client is connected.                                                *)
ClientMoves(c, d) == d.client_state = c.client_state \/ c.client_state \notin {SynSent, Closed}

(* What the branches of the handler do to a connection keeps the numbers.  *)
LEMMA OperationsKeep ==
    ASSUME NEW c \in TcpConnection, NEW seg
    PROVE  /\ Kept(c, c)
           /\ Kept(c, c_push_state(c, Established))
           /\ Kept(c, ClosedByClientFin(c, seg))
           /\ Kept(c, ActiveClose(c))
           /\ Kept(c, set_release_cause(c_push_state(c, Closed), "ActiveRst"))
           /\ Kept(c, AckedByClient(c))
           /\ Kept(c, c_push_state(s_push_state(c, Closed), Closed))
           /\ Kept(c, ClosedByServerFin(c, seg)) /\ ClientMoves(c, ClosedByServerFin(c, seg))
           /\ Kept(c, AckedByServer(c, seg)) /\ ClientMoves(c, AckedByServer(c, seg))
<1>1. Kept(c, c)
  BY DEF Kept
<1>2. /\ LastAck \in States /\ FinWait1 \in States /\ FinWait2 \in States /\ Closing \in States
      /\ Closed \in States /\ CloseWait \in States /\ Established \in States
      /\ {"PassiveClose", "ActiveClose", "ActiveRst"} \subseteq ReleaseCauses
  BY Names
<1>3. LastAck >= LastAck /\ FinWait1 >= LastAck /\ FinWait2 >= LastAck /\ Closing >= LastAck
      /\ Closed >= LastAck
  BY DEF LastAck, FinWait1, FinWait2, Closing, Closed
<1>4. ASSUME NEW d, Kept(c, d), NEW state \in States
      PROVE  Kept(c, c_push_state(d, state))
  BY <1>2, <1>4, PushKeeps
<1>5. ASSUME NEW d, Kept(c, d), NEW cause \in ReleaseCauses
      PROVE  /\ Kept(c, set_release_cause(d, cause))
             /\ Kept(c, s_set_release_cause(d, cause))
             /\ s_set_release_cause(d, cause).client_state = d.client_state
  BY <1>2, <1>5, PushKeeps
<1>6. ASSUME NEW d, Kept(c, d), NEW state \in States, state >= LastAck
      PROVE  /\ Kept(c, s_push_state(d, state))
             /\ s_push_state(d, state).client_state = d.client_state
  BY <1>2, <1>6, PushKeeps
<1>7. Kept(c, c_push_state(c, Established))
  BY <1>1, <1>2, <1>4
<1>8. Kept(c, ClosedByClientFin(c, seg))
  <2>1. /\ Kept(c, c_push_state(set_release_cause(c, "PassiveClose"), LastAck))
        /\ Kept(c, c_push_state(set_release_cause(c, "ActiveClose"), Closing))
    BY <1>1, <1>2, <1>4, <1>5
  <2> QED
    BY <2>1, <1>2, <1>3, <1>6 DEF ClosedByClientFin
<1>9. Kept(c, ActiveClose(c))
  BY <1>1, <1>2, <1>4, <1>5 DEF ActiveClose
<1>10. Kept(c, set_release_cause(c_push_state(c, Closed), "ActiveRst"))
  BY <1>1, <1>2, <1>4, <1>5
<1>11. Kept(c, AckedByClient(c))
  <2>1. /\ Kept(c, s_push_state(c, FinWait2)) /\ Kept(c, s_push_state(c, Closed))
    BY <1>1, <1>2, <1>3, <1>6
  <2>2. PICK d : /\ d = (CASE c.server_state = FinWait1 -> s_push_state(c, FinWait2)
                           [] c.server_state = Closing -> s_push_state(c, Closed)
                           [] OTHER -> c)
                 /\ Kept(c, d)
    BY <1>1, <2>1
  <2> QED
    BY <1>2, <1>4, <2>2 DEF AckedByClient
<1>12. Kept(c, c_push_state(s_push_state(c, Closed), Closed))
  BY <1>1, <1>2, <1>3, <1>4, <1>6
<1>13. Kept(c, ClosedByServerFin(c, seg)) /\ ClientMoves(c, ClosedByServerFin(c, seg))
  <2>1. PICK a, b, d : /\ a = s_set_release_cause(s_push_state(c, FinWait1), "ActiveClose")
                       /\ b = s_push_state(s_set_release_cause(c, "PassiveClose"), LastAck)
                       /\ d = s_push_state(s_set_release_cause(c, "ActiveClose"), Closing)
    OBVIOUS
  <2>2. /\ Kept(c, a) /\ a.client_state = c.client_state
        /\ Kept(c, b) /\ b.client_state = c.client_state
        /\ Kept(c, d) /\ d.client_state = c.client_state
    <3>1. /\ Kept(c, s_push_state(c, FinWait1))
          /\ s_push_state(c, FinWait1).client_state = c.client_state
      BY <1>1, <1>2, <1>3, <1>6
    <3>2. ASSUME NEW cause \in {"PassiveClose", "ActiveClose"}
          PROVE  /\ Kept(c, s_set_release_cause(c, cause))
                 /\ s_set_release_cause(c, cause).client_state = c.client_state
      BY <1>1, <1>2, <1>5
    <3>3. Kept(c, a) /\ a.client_state = c.client_state
      BY <1>2, <1>5, <2>1, <3>1
    <3>4. Kept(c, b) /\ b.client_state = c.client_state
      BY <1>2, <1>3, <1>6, <2>1, <3>2
    <3>5. Kept(c, d) /\ d.client_state = c.client_state
      BY <1>2, <1>3, <1>6, <2>1, <3>2
    <3> QED
      BY <3>3, <3>4, <3>5
  <2>3. Kept(c, c_push_state(d, Closing)) /\ Kept(c, c_push_state(d, Closed))
    BY <1>2, <1>4, <2>2
  <2>4. c.client_state \in States
    BY DEF TcpConnection
  <2>5. \/ ClosedByServerFin(c, seg) \in {a, b, d}
        \/ /\ c.client_state = FinWait1 \/ c.client_state = FinWait2
           /\ ClosedByServerFin(c, seg) \in {c_push_state(d, Closing), c_push_state(d, Closed)}
    BY <2>1, <2>4 DEF ClosedByServerFin, FinWait1, FinWait2
  <2> QED
    BY <2>2, <2>3, <2>5 DEF ClientMoves, FinWait1, FinWait2, SynSent, Closed
<1>14. Kept(c, AckedByServer(c, seg)) /\ ClientMoves(c, AckedByServer(c, seg))
  <2>1. /\ Kept(c, c_push_state(c, Closed)) /\ Kept(c, c_push_state(c, FinWait2))
        /\ Kept(c, s_push_state(c_push_state(c, Closed), Closed))
    BY <1>1, <1>2, <1>3, <1>4, <1>6
  <2>2. \/ AckedByServer(c, seg) = c
        \/ /\ c.client_state = LastAck \/ c.client_state = FinWait1 \/ c.client_state = Closing
           /\ AckedByServer(c, seg) \in {c_push_state(c, Closed), c_push_state(c, FinWait2),
                                         s_push_state(c_push_state(c, Closed), Closed)}
    BY DEF AckedByServer, FinWait1, LastAck, Closing
  <2> QED
    BY <1>1, <2>1, <2>2 DEF ClientMoves, FinWait1, LastAck, Closing, SynSent, Closed
<1> QED
  BY <1>1, <1>7, <1>8, <1>9, <1>10, <1>11, <1>12, <1>13, <1>14

(* What leaves the proxy in a step.                                        *)
LEMMA EmittedPackets ==
    ASSUME NEW seg, NEW p, NEW to
    PROVE  /\ Emitted(<< >>) = {}
           /\ to \in {"client", "server"} => Emitted(<<Packet(to, p, seg)>>) = To(to, {seg})
           /\ to \notin {"client", "server"} => Emitted(<<Packet(to, p, seg)>>) = {}
<1>1. Emitted(<< >>) = {}
  BY DEF Emitted
<1>2. DOMAIN <<Packet(to, p, seg)>> = {1} /\ <<Packet(to, p, seg)>>[1] = Packet(to, p, seg)
      /\ Packet(to, p, seg).to = to /\ Packet(to, p, seg).seg = seg
  BY DEF Packet
<1>3. to \notin {"client", "server"} => Emitted(<<Packet(to, p, seg)>>) = {}
  BY <1>2 DEF Emitted
<1>4. ASSUME to \in {"client", "server"} PROVE Emitted(<<Packet(to, p, seg)>>) = To(to, {seg})
  BY <1>2, <1>4 DEF Emitted
<1> QED
  BY <1>1, <1>3, <1>4

(* The end of a branch that keeps the numbers, for a packet of the client: *)
(* they are kept, and nothing but the packet itself goes on, translated.   *)
LEMMA ClientEndKeeps ==
    ASSUME DPTypeOK, NEW p \in Ports, NEW c, Kept(tcp[p], c), NEW seg \in Segments, NEW sent,
           EndClient(p, c, seg, sent), Emitted(sent) = {}
    PROVE  /\ Kept(tcp[p], tcp'[p]) /\ tcp'[p].client_state = c.client_state
           /\ tcp'[p].server_state = c.server_state
           /\ Emitted(out') = IF ForwardsClient(tcp[p])
                              THEN To("server", {client_to_server(tcp[p], seg)})
                              ELSE {}
<1>1. c \in TcpConnection /\ tcp[p] \in TcpConnection
  BY DEF Kept, DPTypeOK
<1>2. PICK d : SameButNumbers(c, d) /\ tcp' = [tcp EXCEPT ![p] = d]
               /\ (d = c \/ d = AfterClientToServer(c, seg))
  BY <1>1, ForwardingKeeps DEF EndClient
<1>3. tcp'[p] = d
  BY <1>2 DEF DPTypeOK
<1>4. d.seqn = c.seqn
  BY <1>1, <1>2 DEF AfterClientToServer, TcpConnection
<1>5. Kept(tcp[p], d) /\ d.client_state = c.client_state /\ d.server_state = c.server_state
  BY <1>2, <1>4 DEF Kept, SameButNumbers
<1>6. client_to_server(c, seg) = client_to_server(tcp[p], seg)
  BY DEF Kept, client_to_server
<1>7. CASE ForwardsClient(tcp[p])
  <2>1. out' = <<Packet("server", p, client_to_server(tcp[p], seg))>>
    BY <1>6, <1>7 DEF EndClient
  <2> QED
    BY <1>3, <1>5, <1>7, <2>1, EmittedPackets
<1>8. CASE ~ForwardsClient(tcp[p])
  BY <1>3, <1>5, <1>8 DEF EndClient
<1> QED
  BY <1>7, <1>8

(* The same for a packet of the server.                                    *)
LEMMA ServerEndKeeps ==
    ASSUME DPTypeOK, NEW p \in Ports, NEW c, Kept(tcp[p], c), NEW seg \in Segments, NEW sent,
           EndServer(p, c, seg, sent), Emitted(sent) = {}
    PROVE  /\ Kept(tcp[p], tcp'[p]) /\ tcp'[p].client_state = c.client_state
           /\ tcp'[p].server_state = c.server_state
           /\ Emitted(out') = IF ForwardsServer(tcp[p])
                              THEN To("client", {server_to_client(tcp[p], seg)})
                              ELSE {}
<1>1. c \in TcpConnection /\ tcp[p] \in TcpConnection
  BY DEF Kept, DPTypeOK
<1>2. PICK d : /\ SameButNumbers(c, d) /\ tcp' = [tcp EXCEPT ![p] = d]
               /\ d = c \/ tcp[p].server_state >= Established
  <2>1. CASE ForwardsServer(tcp[p])
    <3>1. tcp[p].server_state >= Established
      BY <2>1 DEF ForwardsServer
    <3> QED
      BY <1>1, <2>1, <3>1, ForwardingKeeps DEF EndServer
  <2>2. CASE ~ForwardsServer(tcp[p])
    BY <1>1, <2>2, ForwardingKeeps DEF EndServer
  <2> QED
    BY <2>1, <2>2
<1>3. tcp'[p] = d
  BY <1>2 DEF DPTypeOK
<1>4. tcp[p].server_state < Established => d.seqn = c.seqn
  BY <1>1, <1>2 DEF TcpConnection, States, Listen, Established, Closed
<1>5. Kept(tcp[p], d) /\ d.client_state = c.client_state /\ d.server_state = c.server_state
  BY <1>2, <1>4 DEF Kept, SameButNumbers
<1>6. server_to_client(c, seg) = server_to_client(tcp[p], seg)
  BY DEF Kept, server_to_client
<1>7. CASE ForwardsServer(tcp[p])
  <2>1. out' = <<Packet("client", p, server_to_client(tcp[p], seg))>>
    BY <1>6, <1>7 DEF EndServer
  <2> QED
    BY <1>3, <1>5, <1>7, <2>1, EmittedPackets
<1>8. CASE ~ForwardsServer(tcp[p])
  BY <1>3, <1>5, <1>8 DEF EndServer
<1> QED
  BY <1>7, <1>8

(***************************************************************************)
(* The steps of the handler, as the network sees them                      *)
(***************************************************************************)

(* Nothing happens: the packet is dropped or goes to the kernel.           *)
Dropped ==
    /\ tcp' = tcp
    /\ InUse(ThePort)' <=> InUse(ThePort)
    /\ Emitted(out') = {}

(* The packet seg of the client is passed on, or not, on a connection that *)
(* keeps its numbers.                                                      *)
ClientPassed(seg) ==
    LET c == tcp[ThePort]
    IN  /\ InUse(ThePort)
        /\ Kept(c, tcp'[ThePort])
        /\ seg.syn => tcp'[ThePort].client_state = c.client_state
        /\ c.server_state < LastAck => tcp'[ThePort].server_state = c.server_state
        /\ Emitted(out') = IF ForwardsClient(c) THEN To("server", {client_to_server(c, seg)}) ELSE {}

(* A SYN opens a connection, or the client side of one that closes.        *)
ClientOpened(seg) ==
    LET c == tcp[ThePort]
        d == tcp'[ThePort]
    IN  /\ seg.syn
        /\ InUse(ThePort)'
        /\ d.client_state = SynSent
        /\ d.c_seqn \in ISNs
        /\ \/ /\ ~InUse(ThePort)
              /\ d.server_state = Listen
              /\ d.c2s_inserted_bytes = 0
              /\ Emitted(out') = To("client", {SynAck(seg, d.c_seqn)})
           \/ /\ InUse(ThePort)
              /\ c.client_state = Closed
              /\ d.server_state = c.server_state
              /\ d.c2s_inserted_bytes = c.c2s_inserted_bytes
              /\ \/ Emitted(out') = To("client", {SynAck(seg, d.c_seqn)})
                 \/ /\ ForwardsClient(c)
                    /\ Emitted(out') = To("server", {client_to_server(d, SynAck(seg, d.c_seqn))})

(* A FIN before the server is connected is answered by the proxy.          *)
ClientClosed(seg) ==
    LET c == tcp[ThePort]
        d == tcp'[ThePort]
    IN  /\ InUse(ThePort) /\ InUse(ThePort)'
        /\ ~seg.syn /\ seg.fin
        /\ c.server_state < Established
        /\ d.server_state = LastAck
        /\ d.client_state = FinWait1
        /\ d.c_seqn = wrapping_add(c.c_seqn, 1)
        /\ d.c2s_inserted_bytes = c.c2s_inserted_bytes
        /\ Emitted(out') = To("client", {[make_reply_packet(seg) EXCEPT !.seq = d.c_seqn]})

(* The first payload selects a server, to which the proxy sends a SYN.     *)
ClientSelected(seg) ==
    LET c == tcp[ThePort]
        d == tcp'[ThePort]
    IN  /\ InUse(ThePort) /\ InUse(ThePort)'
        /\ PastClose(c, seg) /\ IsFirstPayload(c)
        /\ \E choice \in f_select_server(seg.data) :
            /\ d.payload_packet = <<choice.data>>
            /\ d.c2s_inserted_bytes = Len(choice.data) - Len(seg.data)
        /\ d.seqn = wrapping_sub(seg.seq, 1)
        /\ d.client_state = c.client_state /\ d.server_state = SynReceived
        /\ d.c_seqn = c.c_seqn
        /\ Emitted(out') = To("server", {ServerSyn(d, seg)})

(* The packet seg of the server is passed on, or not.                      *)
ServerPassed(seg) ==
    LET c == tcp[ThePort]
    IN  /\ InUse(ThePort)
        /\ Kept(c, tcp'[ThePort])
        /\ ClientMoves(c, tcp'[ThePort])
        /\ ~seg.fin /\ c.client_state # LastAck => tcp'[ThePort].server_state = c.server_state
        /\ seg.ack /\ seg.syn => ~AwaitsSynAck(c)
        /\ Emitted(out') = IF ForwardsServer(c) THEN To("client", {server_to_client(c, seg)}) ELSE {}

(* The SYN-ACK of the server is answered with an ACK and the first payload.*)
ServerAnswered(seg) ==
    LET c == tcp[ThePort]
        d == tcp'[ThePort]
        ack == [make_reply_packet(seg) EXCEPT !.syn = FALSE, !.seq = d.seqn]
    IN  /\ InUse(ThePort) /\ InUse(ThePort)'
        /\ seg.ack /\ seg.syn /\ AwaitsSynAck(c)
        /\ d.c_seqn = wrapping_sub(c.c_seqn, seg.seq)
        /\ d.seqn = wrapping_add(c.seqn, 1)
        /\ d.c2s_inserted_bytes = c.c2s_inserted_bytes
        /\ d.client_state = c.client_state /\ d.server_state = Established
        /\ Emitted(out') = To("server", {ack, [ack EXCEPT !.data = c.payload_packet[1]]})

(* Every packet of the client is one of these.                             *)
LEMMA FromClientSeen ==
    ASSUME AnySegment, DPInv, NEW seg \in Segments, FromClient(TheClient, seg)
    PROVE  Dropped \/ ClientPassed(seg) \/ ClientOpened(seg) \/ ClientClosed(seg)
           \/ ClientSelected(seg)
<1> DEFINE p == ThePort
<1>1. p \in Ports /\ (\A q \in Ports : q = p) /\ TheClient \in Socks /\ Emitted(<< >>) = {}
  BY NetAssumption, EmittedPackets
<1> HIDE DEF p
<1>2. CASE ClientNoState(TheClient, seg)
  <2>1. TouchesNone /\ out' = << >>
    BY <1>2, OthersTouchNone DEF ClientNoState
  <2> QED
    BY <1>1, <2>1 DEF Dropped, TouchesNone, p
<1>3. ASSUME ClientSelectFails(p, seg) PROVE Dropped
  <2>1. TouchesNone /\ out' = << >>
    BY <1>3, OthersTouchNone DEF ClientSelectFails
  <2> QED
    BY <1>1, <2>1 DEF Dropped, TouchesNone, p
<1>4. ASSUME NEW isn \in ISNs, ClientSyn(TheClient, seg, isn) PROVE ClientOpened(seg)
  <2>1. Accept(TheClient) /\ seg.syn
    BY <1>4 DEF ClientSyn
  <2>2. Idle /\ CMInv /\ CMTypeOK /\ DPTypeOK /\ free_ports # << >>
    BY <2>1 DEF DPInv, CMInv, Accept, Idle
  <2>3. free_ports \in Seq(Ports)
    BY <2>2 DEF CMTypeOK
  <2>4. Head(free_ports) = p /\ p \in Elements(free_ports)
    BY <1>1, <2>2, <2>3, ElementsTail
  <2>5. ~InUse(p)
    BY <2>2, <2>4, <1>1, InvFacts DEF InUse
  <2>6. InUse(p)'
    BY <1>1, <2>1, <2>2, <2>4, PortsArePositive DEF Accept, InUse, CMTypeOK, Scheduled
  <2>c. PICK c : c = client_syn_received(NewConnection, seg, isn)
    OBVIOUS
  <2>7. /\ tcp' = [tcp EXCEPT ![p] = c]
        /\ out' = <<Packet("client", p, SynAck(seg, isn))>>
    BY <1>4, <2>4, <2>c DEF ClientSyn
  <2>8. tcp'[p] = c
    BY <1>1, <2>2, <2>7 DEF DPTypeOK
  <2>9. /\ c.client_state = SynSent /\ c.c_seqn = isn /\ c.server_state = Listen
        /\ c.c2s_inserted_bytes = 0
    BY <2>c DEF client_syn_received, c_push_state, NewConnection
  <2>10. Emitted(out') = To("client", {SynAck(seg, isn)})
    BY <2>7, EmittedPackets
  <2> QED
    BY <2>1, <2>5, <2>6, <2>8, <2>9, <2>10 DEF ClientOpened, p
<1>5. ASSUME NEW c, NEW sent, Idle, InUse(p), Kept(tcp[p], c), EndClient(p, c, seg, sent),
             Emitted(sent) = {}, seg.syn => c.client_state = tcp[p].client_state,
             tcp[p].server_state < LastAck => c.server_state = tcp[p].server_state
      PROVE  ClientPassed(seg)
  <2>1. DPTypeOK
    BY DEF DPInv
  <2> QED
    BY <1>1, <1>5, <2>1, ClientEndKeeps DEF ClientPassed, p
<1>6. tcp[p] \in TcpConnection
  BY <1>1 DEF DPInv, DPTypeOK
<1>s. /\ tcp[p].server_state >= FinWait1 => tcp[p].server_state >= LastAck
      /\ tcp[p].server_state = LastAck => tcp[p].server_state >= LastAck
  BY <1>6 DEF TcpConnection, States, Listen, Closed, LastAck, FinWait1
<1>7. ASSUME ClientResent(p, seg) \/ ClientSynUnexpected(p, seg) \/ ClientOther(p, seg)
      PROVE  ClientPassed(seg)
  <2>1. Idle /\ InUse(p) /\ \E sent : sent \in {<< >>, <<Packet("kni", p, seg)>>}
                                      /\ EndClient(p, tcp[p], seg, sent)
    BY <1>7 DEF ClientResent, ClientSynUnexpected, ClientOther
  <2>2. PICK sent : sent \in {<< >>, <<Packet("kni", p, seg)>>} /\ EndClient(p, tcp[p], seg, sent)
    BY <2>1
  <2>3. Emitted(sent) = {}
    BY <2>2, EmittedPackets
  <2> QED
    BY <1>5, <1>6, <2>1, <2>2, <2>3, OperationsKeep
<1>8. ASSUME ClientAck2(p, seg) \/ ClientRst(p, seg) \/ ClientAckForFin(p, seg)
             \/ ClientFinalAck(p, seg)
      PROVE  ClientPassed(seg)
  <2>1. /\ Idle /\ InUse(p) /\ ~seg.syn
        /\ \E c : /\ EndClient(p, c, seg, << >>)
                  /\ \/ c \in {c_push_state(tcp[p], Established),
                               set_release_cause(c_push_state(tcp[p], Closed), "ActiveRst")}
                     \/ /\ tcp[p].server_state >= LastAck
                        /\ c \in {AckedByClient(tcp[p]),
                                  c_push_state(s_push_state(tcp[p], Closed), Closed)}
    <3>1. CASE ClientAck2(p, seg)
      BY <3>1 DEF ClientAck2, IsAck2
    <3>2. CASE ClientRst(p, seg)
      BY <3>2 DEF ClientRst, PastHandshake
    <3>3. CASE ClientAckForFin(p, seg)
      BY <1>s, <3>3 DEF ClientAckForFin, PastClose, PastHandshake
    <3>4. CASE ClientFinalAck(p, seg)
      BY <1>s, <3>4 DEF ClientFinalAck, PastClose, PastHandshake
    <3> QED
      BY <1>8, <3>1, <3>2, <3>3, <3>4
  <2>3. /\ c_push_state(tcp[p], Established).server_state = tcp[p].server_state
        /\ set_release_cause(c_push_state(tcp[p], Closed), "ActiveRst").server_state
             = tcp[p].server_state
        /\ ~(tcp[p].server_state >= LastAck /\ tcp[p].server_state < LastAck)
    <3>1. PICK c : c = c_push_state(tcp[p], Closed)
      OBVIOUS
    <3>2. /\ c_push_state(tcp[p], Established).server_state = tcp[p].server_state
          /\ c.server_state = tcp[p].server_state /\ "server_state" \in DOMAIN c
      BY <1>6, <3>1 DEF c_push_state, TcpConnection
    <3>3. set_release_cause(c, "ActiveRst").server_state = c.server_state
      BY <3>2 DEF set_release_cause
    <3>4. tcp[p].server_state \in Int
      BY <1>6 DEF TcpConnection, States, Listen, Closed
    <3> QED
      BY <3>1, <3>2, <3>3, <3>4 DEF LastAck
  <2>2. PICK c : /\ EndClient(p, c, seg, << >>) /\ Kept(tcp[p], c)
                 /\ tcp[p].server_state < LastAck => c.server_state = tcp[p].server_state
    BY <1>6, <2>1, <2>3, OperationsKeep
  <2> QED
    BY <1>1, <1>5, <2>1, <2>2
<1>9. ASSUME ClientFinAfterServer(p, seg) \/ ClientFinFirst(p, seg) PROVE ClientPassed(seg)
  <2>1. /\ Idle /\ InUse(p) /\ ~seg.syn
        /\ \E c : /\ EndClient(p, c, seg, <<Packet("wire", p, seg)>>)
                  /\ \/ c = ActiveClose(tcp[p])
                     \/ tcp[p].server_state >= LastAck /\ c = ClosedByClientFin(tcp[p], seg)
    <3>1. CASE ClientFinAfterServer(p, seg)
      BY <1>s, <3>1 DEF ClientFinAfterServer, PastHandshake
    <3>2. CASE ClientFinFirst(p, seg)
      BY <3>2 DEF ClientFinFirst, PastHandshake
    <3> QED
      BY <1>9, <3>1, <3>2
  <2>4. /\ ActiveClose(tcp[p]).server_state = tcp[p].server_state
        /\ ~(tcp[p].server_state >= LastAck /\ tcp[p].server_state < LastAck)
    <3>1. PICK c : c = set_release_cause(tcp[p], "ActiveClose")
      OBVIOUS
    <3>2. c.server_state = tcp[p].server_state /\ "server_state" \in DOMAIN c
      BY <1>6, <3>1 DEF set_release_cause, TcpConnection
    <3>3. c_push_state(c, FinWait1).server_state = c.server_state
      BY <3>2 DEF c_push_state
    <3>4. tcp[p].server_state \in Int
      BY <1>6 DEF TcpConnection, States, Listen, Closed
    <3> QED
      BY <3>1, <3>2, <3>3, <3>4 DEF ActiveClose, LastAck
  <2>2. PICK c : /\ EndClient(p, c, seg, <<Packet("wire", p, seg)>>) /\ Kept(tcp[p], c)
                 /\ tcp[p].server_state < LastAck => c.server_state = tcp[p].server_state
    BY <1>6, <2>1, <2>4, OperationsKeep
  <2>3. Emitted(<<Packet("wire", p, seg)>>) = {}
    BY EmittedPackets
  <2> QED
    BY <1>5, <2>1, <2>2, <2>3
<1>10. ASSUME NEW isn \in ISNs, ClientSynAgain(p, seg, isn) PROVE ClientOpened(seg)
  <2>c. PICK c : c = client_syn_received(tcp[p], seg, isn)
    OBVIOUS
  <2>r. PICK r : r = SynAck(seg, isn)
    OBVIOUS
  <2>1. /\ Idle /\ InUse(p) /\ seg.syn /\ tcp[p].client_state = Closed /\ Reschedule(p)
        /\ EndClient(p, c, r, <<Packet("client", p, r)>>)
    BY <1>10, <2>c, <2>r DEF ClientSynAgain, Reschedule, IsSyn
  <2>2. DPTypeOK /\ CMTypeOK
    BY <1>1, <2>1, HandlerFacts
  <2>3. InUse(p)'
    BY <1>1, <2>1, <2>2 DEF Reschedule, Scheduled, InUse, CMTypeOK, Connection
  <2>4. /\ c.client_state = SynSent /\ c.c_seqn = isn /\ c.server_state = tcp[p].server_state
        /\ c.c2s_inserted_bytes = tcp[p].c2s_inserted_bytes
    BY <1>6, <2>c DEF client_syn_received, c_push_state, TcpConnection
  <2>5. PICK d : tcp' = [tcp EXCEPT ![p] = d] /\ (d = c \/ d = AfterClientToServer(c, r))
    BY <2>1 DEF EndClient
  <2>6. /\ d.client_state = SynSent /\ d.c_seqn = isn /\ d.server_state = tcp[p].server_state
        /\ d.c2s_inserted_bytes = tcp[p].c2s_inserted_bytes
    <3>1. "client_state" \in DOMAIN c /\ "c_seqn" \in DOMAIN c /\ "server_state" \in DOMAIN c
          /\ "c2s_inserted_bytes" \in DOMAIN c
      BY <1>6, <2>c DEF client_syn_received, c_push_state, TcpConnection
    <3> QED
      BY <2>4, <2>5, <3>1 DEF AfterClientToServer
  <2>7. tcp'[p] = d
    BY <1>1, <2>2, <2>5 DEF DPTypeOK
  <2>8. client_to_server(c, r) = client_to_server(d, r)
    BY <2>4, <2>6 DEF client_to_server
  <2>9. \/ Emitted(out') = To("client", {r})
        \/ ForwardsClient(tcp[p]) /\ Emitted(out') = To("server", {client_to_server(d, r)})
    BY <2>1, <2>8, EmittedPackets DEF EndClient
  <2> QED
    BY <2>1, <2>3, <2>6, <2>7, <2>9, <2>r DEF ClientOpened, p
<1>11. ASSUME ClientFinEarly(p, seg) PROVE ClientClosed(seg)
  <2>c. PICK c : c = ClosedEarly(tcp[p])
    OBVIOUS
  <2>r. PICK r : r = [make_reply_packet(seg) EXCEPT !.seq = c.c_seqn]
    OBVIOUS
  <2>1. /\ Idle /\ InUse(p) /\ ~seg.syn /\ seg.fin /\ tcp[p].server_state < Established
        /\ EndClient(p, c, seg, <<Packet("client", p, r)>>) /\ UNCHANGED cmVars
    BY <1>11, <2>c, <2>r DEF ClientFinEarly, PastHandshake, NotConnected
  <2>2. DPTypeOK /\ InUse(p)'
    BY <2>1 DEF DPInv, cmVars, InUse
  <2>3. ~ForwardsClient(tcp[p])
    BY <1>6, <2>1 DEF ForwardsClient, TcpConnection, States, Listen, Established, Closed
  <2>4. tcp'[p] = c /\ Emitted(out') = To("client", {r})
    BY <1>1, <2>1, <2>2, <2>3, EmittedPackets DEF EndClient, DPTypeOK
  <2>5. /\ c.client_state = FinWait1 /\ c.server_state = LastAck
        /\ c.c_seqn = wrapping_add(tcp[p].c_seqn, 1)
        /\ c.c2s_inserted_bytes = tcp[p].c2s_inserted_bytes
    <3>a. PICK a : a = ActiveClose(tcp[p])
      OBVIOUS
    <3>b. PICK b : b = s_push_state(a, LastAck)
      OBVIOUS
    <3>d. PICK d : d = s_set_release_cause(b, "PassiveClose")
      OBVIOUS
    <3>1. a \in TcpConnection /\ a.client_state = FinWait1 /\ Kept(tcp[p], a)
      <4>0. /\ "ActiveClose" \in ReleaseCauses /\ FinWait1 \in States
            /\ Kept(tcp[p], tcp[p])
        BY <1>6, Names, OperationsKeep
      <4>1. Kept(tcp[p], set_release_cause(tcp[p], "ActiveClose"))
        BY <1>6, <4>0, PushKeeps
      <4>2. a.client_state = FinWait1 /\ Kept(tcp[p], a)
        BY <1>6, <3>a, <4>0, <4>1, PushKeeps DEF ActiveClose
      <4> QED
        BY <4>2 DEF Kept
    <3>2. /\ b \in TcpConnection /\ b.client_state = FinWait1 /\ b.server_state = LastAck
          /\ b.c2s_inserted_bytes = a.c2s_inserted_bytes
      BY <3>1, <3>b, Names, ServerPushed DEF KeepsBinding
    <3>3. /\ d \in TcpConnection /\ d.client_state = FinWait1 /\ d.server_state = LastAck
          /\ d.c2s_inserted_bytes = tcp[p].c2s_inserted_bytes
      BY <3>1, <3>2, <3>d, Names DEF s_set_release_cause, TcpConnection, Kept
    <3>n. PICK n, k : n = wrapping_add(tcp[p].c_seqn, 1) /\ k = wrapping_add(n, 1)
      OBVIOUS
    <3>4. c = [d EXCEPT !.c_seqn = n, !.seqn = k]
      BY <2>c, <3>a, <3>b, <3>d, <3>n DEF ClosedEarly
    <3> QED
      BY <3>3, <3>n, <3>4 DEF TcpConnection
  <2> QED
    BY <2>1, <2>2, <2>4, <2>5, <2>r DEF ClientClosed, p
<1>12. ASSUME NEW choice \in f_select_server(seg.data), ClientFirstPayload(p, seg, choice)
       PROVE  ClientSelected(seg)
  <2>a. PICK a : a = select_server(tcp[p], seg, choice)
    OBVIOUS
  <2>b. PICK b : b = s_init(a)
    OBVIOUS
  <2>c. PICK c : c = s_push_state(b, SynReceived)
    OBVIOUS
  <2>1. /\ Idle /\ InUse(p) /\ PastClose(tcp[p], seg) /\ IsFirstPayload(tcp[p])
        /\ UNCHANGED cmVars
        /\ EndClient(p, c, seg, <<Packet("server", p, ServerSyn(c, seg))>>)
    BY <1>12, <2>a, <2>b, <2>c DEF ClientFirstPayload
  <2>2. DPTypeOK /\ InUse(p)'
    BY <2>1 DEF DPInv, cmVars, InUse
  <2>3. ~ForwardsClient(tcp[p])
    BY <1>6, <2>1 DEF ForwardsClient, IsFirstPayload, Listen, Established, Closed
  <2>4. tcp'[p] = c /\ Emitted(out') = To("server", {ServerSyn(c, seg)})
    BY <1>1, <2>1, <2>2, <2>3, EmittedPackets DEF EndClient, DPTypeOK
  <2>5. choice \in [server : Servers, data : Seq(Bytes)]
    BY CallbackAssumption DEF AnySegment
  <2>6. b \in TcpConnection /\ b.client_state = tcp[p].client_state
    BY <1>6, <2>5, <2>a, <2>b, Selected
  <2>7. /\ b.payload_packet = <<choice.data>>
        /\ b.c2s_inserted_bytes = Len(choice.data) - Len(seg.data)
        /\ b.seqn = wrapping_sub(seg.seq, 1) /\ b.c_seqn = tcp[p].c_seqn
    <3>1. PICK k, n, d : /\ k = Len(choice.data) - Len(seg.data)
                         /\ n = wrapping_sub(seg.seq, 1) /\ d = <<choice.data>>
      OBVIOUS
    <3>2. a = [tcp[p] EXCEPT !.payload_packet = d, !.c2s_inserted_bytes = k,
                             !.server_index = choice.server, !.seqn = n]
      BY <2>a, <3>1 DEF select_server
    <3>3. /\ a.payload_packet = d /\ a.c2s_inserted_bytes = k /\ a.seqn = n
          /\ a.c_seqn = tcp[p].c_seqn
          /\ {"payload_packet", "c2s_inserted_bytes", "seqn", "c_seqn"} \subseteq DOMAIN a
      BY <1>6, <3>2 DEF TcpConnection
    <3> QED
      BY <2>b, <3>1, <3>3 DEF s_init
  <2>8. /\ c.client_state = b.client_state /\ c.server_state = SynReceived
        /\ c.payload_packet = b.payload_packet /\ c.c_seqn = b.c_seqn
        /\ c.c2s_inserted_bytes = b.c2s_inserted_bytes
    BY <2>6, <2>c, Names, ServerPushed DEF KeepsBinding
  <2>9. c.seqn = b.seqn
    BY <2>6, <2>c DEF s_push_state, TcpConnection
  <2> QED
    BY <2>1, <2>2, <2>4, <2>6, <2>7, <2>8, <2>9 DEF ClientSelected, p
<1> QED
  BY <1>1, <1>2, <1>3, <1>4, <1>7, <1>8, <1>9, <1>10, <1>11, <1>12 DEF FromClient

(* Every packet of the server is one of these.                             *)
LEMMA FromServerSeen ==
    ASSUME DPInv, NEW seg \in Segments, FromServer(ThePort, seg)
    PROVE  Dropped \/ ServerPassed(seg) \/ ServerAnswered(seg)
<1> DEFINE p == ThePort
<1>1. p \in Ports /\ (\A q \in Ports : q = p) /\ Emitted(<< >>) = {}
  BY NetAssumption, EmittedPackets
<1> HIDE DEF p
<1>2. tcp[p] \in TcpConnection /\ DPTypeOK
  BY <1>1 DEF DPInv, DPTypeOK
<1>3. ASSUME ServerNoState(p, seg) PROVE Dropped
  <2>1. TouchesNone /\ out' = <<Packet("kni", p, seg)>>
    BY <1>3, OthersTouchNone DEF ServerNoState
  <2>2. Emitted(out') = {}
    BY <2>1, EmittedPackets
  <2> QED
    BY <1>1, <2>1, <2>2 DEF Dropped, TouchesNone, p
<1>4. ASSUME NEW c, NEW sent, Idle, InUse(p), Kept(tcp[p], c), EndServer(p, c, seg, sent),
             Emitted(sent) = {}, ClientMoves(tcp[p], c), seg.ack /\ seg.syn => ~AwaitsSynAck(tcp[p]),
             ~seg.fin /\ tcp[p].client_state # LastAck => c.server_state = tcp[p].server_state
      PROVE  ServerPassed(seg)
  BY <1>1, <1>2, <1>4, ServerEndKeeps DEF ServerPassed, ClientMoves, p
<1>5. ASSUME ServerSynAckUnexpected(p, seg) \/ ServerOther(p, seg) PROVE ServerPassed(seg)
  <2>1. /\ Idle /\ InUse(p) /\ \E sent : sent \in {<< >>, <<Packet("kni", p, seg)>>}
                                         /\ EndServer(p, tcp[p], seg, sent)
        /\ seg.ack /\ seg.syn => ~AwaitsSynAck(tcp[p])
    BY <1>5 DEF ServerSynAckUnexpected, ServerOther
  <2>2. PICK sent : sent \in {<< >>, <<Packet("kni", p, seg)>>} /\ EndServer(p, tcp[p], seg, sent)
    BY <2>1
  <2>3. Emitted(sent) = {} /\ ClientMoves(tcp[p], tcp[p])
    BY <2>2, EmittedPackets DEF ClientMoves
  <2> QED
    BY <1>2, <1>4, <2>1, <2>2, <2>3, OperationsKeep
<1>6. ASSUME ServerFin(p, seg) \/ ServerAck(p, seg) PROVE ServerPassed(seg)
  <2>1. /\ Idle /\ InUse(p) /\ ~(seg.ack /\ seg.syn)
        /\ \E c : /\ EndServer(p, c, seg, << >>)
                  /\ \/ seg.fin /\ c = ClosedByServerFin(tcp[p], seg)
                     \/ c = AckedByServer(tcp[p], seg)
    BY <1>6 DEF ServerFin, ServerAck
  <2>3. tcp[p].client_state # LastAck => AckedByServer(tcp[p], seg).server_state = tcp[p].server_state
    BY <1>2 DEF AckedByServer, c_push_state, TcpConnection, FinWait1, Closing, LastAck
  <2>2. PICK c : /\ EndServer(p, c, seg, << >>) /\ Kept(tcp[p], c) /\ ClientMoves(tcp[p], c)
                 /\ ~seg.fin /\ tcp[p].client_state # LastAck =>
                        c.server_state = tcp[p].server_state
    BY <1>2, <2>1, <2>3, OperationsKeep
  <2> QED
    BY <1>1, <1>4, <2>1, <2>2
<1>7. ASSUME ServerSynAck(p, seg) PROVE ServerAnswered(seg)
  <2>c. PICK c : c = server_synack_received(tcp[p], seg)
    OBVIOUS
  <2>k. PICK ack : ack = [make_reply_packet(seg) EXCEPT !.syn = FALSE, !.seq = c.seqn]
    OBVIOUS
  <2>d. PICK pl : pl = [ack EXCEPT !.data = tcp[p].payload_packet[1]]
    OBVIOUS
  <2>1. /\ Idle /\ InUse(p) /\ seg.ack /\ seg.syn /\ AwaitsSynAck(tcp[p]) /\ UNCHANGED cmVars
        /\ EndServer(p, c, seg,
               <<Packet("server", p, ack)>> \o
               IF tcp[p].payload_packet = << >> THEN << >> ELSE <<Packet("server", p, pl)>>)
    BY <1>7, <2>c, <2>k, <2>d DEF ServerSynAck
  <2>2. InUse(p)'
    BY <2>1 DEF cmVars, InUse
  <2>3. ~ForwardsServer(tcp[p])
    BY <1>2, <2>1 DEF ForwardsServer, AwaitsSynAck, SynReceived, Established, Closed
  <2>4. tcp[p].payload_packet # << >>
    BY <1>1, <2>1 DEF DPInv, ConnInv, PayloadInv, AwaitsSynAck
  <2>5. tcp'[p] = c /\ out' = <<Packet("server", p, ack)>> \o <<Packet("server", p, pl)>>
    BY <1>1, <1>2, <2>1, <2>3, <2>4 DEF EndServer, DPTypeOK
  <2>6. Emitted(out') = To("server", {ack, pl})
    <3>1. PICK a, b : a = Packet("server", p, ack) /\ b = Packet("server", p, pl)
      OBVIOUS
    <3>2. a.to = "server" /\ b.to = "server" /\ a.seg = ack /\ b.seg = pl
      BY <3>1 DEF Packet
    <3>q. PICK q : q = <<a>> \o <<b>>
      OBVIOUS
    <3>3. <<a>> \in Seq({a, b}) /\ <<b>> \in Seq({a, b})
      OBVIOUS
    <3>4. DOMAIN q = {1, 2} /\ q[1] = a /\ q[2] = b
      <4>1. q \in Seq({a, b}) /\ Len(q) = 2 /\ q[1] = a /\ q[2] = b
        BY <3>3, <3>q
      <4>2. DOMAIN q = 1..2
        BY <4>1
      <4> QED
        BY <4>1, <4>2
    <3>5. Emitted(q) = To("server", {ack}) \cup To("server", {pl})
      <4>1. {j \in DOMAIN q : q[j].to \in {"client", "server"}} = {1, 2}
        BY <3>2, <3>4
      <4>2. Emitted(q) = UNION {To(q[i].to, {q[i].seg}) : i \in {1, 2}}
        BY <4>1 DEF Emitted
      <4>3. /\ To(q[1].to, {q[1].seg}) = To("server", {ack})
            /\ To(q[2].to, {q[2].seg}) = To("server", {pl})
        BY <3>2, <3>4
      <4> QED
        BY <4>2, <4>3
    <3>6. To("server", {ack}) \cup To("server", {pl}) = To("server", {ack, pl})
      BY DEF To
    <3> QED
      BY <2>5, <3>1, <3>5, <3>6, <3>q
  <2>7. /\ c.client_state = tcp[p].client_state /\ c.server_state = Established
        /\ c.c2s_inserted_bytes = tcp[p].c2s_inserted_bytes
        /\ c.c_seqn = wrapping_sub(tcp[p].c_seqn, seg.seq)
        /\ c.seqn = wrapping_add(tcp[p].seqn, 1)
    <3>b. PICK b : b = s_push_state(tcp[p], Established)
      OBVIOUS
    <3>1. /\ b \in TcpConnection /\ b.client_state = tcp[p].client_state
          /\ b.server_state = Established /\ b.c2s_inserted_bytes = tcp[p].c2s_inserted_bytes
      BY <1>2, <3>b, Names, ServerPushed DEF KeepsBinding
    <3>2. PICK n, k : /\ n = wrapping_sub(tcp[p].c_seqn, seg.seq)
                      /\ k = wrapping_add(tcp[p].seqn, 1)
      OBVIOUS
    <3>3. c = [b EXCEPT !.c_seqn = n, !.seqn = k, !.payload_packet = << >>]
      BY <2>c, <3>b, <3>2 DEF server_synack_received
    <3> QED
      BY <3>1, <3>2, <3>3 DEF TcpConnection
  <2> QED
    BY <2>1, <2>2, <2>5, <2>6, <2>7, <2>k, <2>d DEF ServerAnswered, p
<1> QED
  BY <1>3, <1>5, <1>6, <1>7 DEF FromServer, p

(* The timer ends a connection or leaves it alone, and sends nothing.      *)
LEMMA TimerSeen ==
    ASSUME DPInv, ProxyTimer
    PROVE  /\ UNCHANGED netVars
           /\ InUse(ThePort)' => InUse(ThePort) /\ tcp'[ThePort] = tcp[ThePort]
<1>1. UNCHANGED netVars /\ Timer /\ ThePort \in Ports
  BY NetAssumption DEF ProxyTimer
<1>2. CASE (Elapse \/ TimerTick(FALSE) \/ TickSlot) /\ UNCHANGED <<tcp, seen>>
  BY <1>1, <1>2, OthersTouchNone DEF TouchesNone
<1>3. CASE TimeoutEntry
  <2>1. ~panicked /\ TickEntry
    BY <1>3 DEF TimeoutEntry, TickEntry
  <2>2. CMTypeOK /\ DPTypeOK
    BY <2>1 DEF DPInv, CMInv
  <2>3. CASE get_mut_by_port(Head(drain))
    <3>1. /\ Head(drain) \in Ports
          /\ con' = [con EXCEPT ![Head(drain)].proxy_port = 0]
      BY <2>1, <2>3 DEF TickEntry, get_mut_by_port
    <3>2. Head(drain) = ThePort
      BY <3>1, NetAssumption
    <3>3. ~InUse(ThePort)'
      BY <1>1, <2>2, <3>1, <3>2 DEF InUse, CMTypeOK, Connection
    <3> QED
      BY <1>1, <3>3
  <2>4. CASE ~get_mut_by_port(Head(drain))
    <3>1. tcp' = tcp /\ con' = con
      BY <1>3, <2>1, <2>4 DEF TimeoutEntry, TickEntry
    <3> QED
      BY <1>1, <3>1 DEF InUse
  <2> QED
    BY <2>3, <2>4
<1> QED
  BY <1>1, <1>2, <1>3 DEF Timer

(***************************************************************************)
(* The stream of the server arrives at the client                          *)
(***************************************************************************)

(* A prefix, byte by byte.                                                 *)
LEMMA PrefixByByte ==
    ASSUME NEW s \in Seq(Bytes), NEW t \in Seq(Bytes)
    PROVE  Seqs!IsPrefix(s, t) <=> Len(s) <= Len(t) /\ \A i \in 1..Len(s) : s[i] = t[i]
<1>1. CASE Len(s) <= Len(t)
  <2>1. PICK a, b : a = SubSeq(s, 1, Len(s)) /\ b = SubSeq(t, 1, Len(s))
    OBVIOUS
  <2>2. /\ a \in Seq(Bytes) /\ Len(a) = Len(s) /\ \A i \in 1..Len(s) : a[i] = s[i]
        /\ b \in Seq(Bytes) /\ Len(b) = Len(s) /\ \A i \in 1..Len(s) : b[i] = t[i]
    BY <1>1, <2>1
  <2>3. a = b <=> \A i \in 1..Len(s) : a[i] = b[i]
    BY <2>2
  <2> QED
    BY <1>1, <2>1, <2>2, <2>3 DEF Seqs!IsPrefix
<1>2. CASE ~(Len(s) <= Len(t))
  BY <1>2 DEF Seqs!IsPrefix
<1> QED
  BY <1>1, <1>2

(* A prefix that grows by the next byte.                                   *)
LEMMA PrefixGrows ==
    ASSUME NEW s \in Seq(Bytes), NEW t \in Seq(Bytes), Seqs!IsPrefix(s, t), Len(s) < Len(t)
    PROVE  LET r == s \o <<t[Len(s) + 1]>>
           IN  r \in Seq(Bytes) /\ Len(r) = Len(s) + 1 /\ Seqs!IsPrefix(r, t)
<1>n. PICK n \in Nat : n = Len(s)
  OBVIOUS
<1>0. Len(t) \in Nat /\ n + 1 \in 1..Len(t)
  BY <1>n
<1>1. PICK x \in Bytes : n = Len(s) /\ x = t[Len(s) + 1]
  BY <1>n, <1>0
<1>2. PICK r : r = s \o <<x>>
  OBVIOUS
<1>3. <<x>> \in Seq(Bytes) /\ Len(<<x>>) = 1 /\ <<x>>[1] = x
  OBVIOUS
<1>4. r \in Seq(Bytes) /\ Len(r) = n + 1 /\ (\A i \in 1..n : r[i] = s[i]) /\ r[n + 1] = x
  BY <1>1, <1>2, <1>3
<1>5. \A i \in 1..n : s[i] = t[i]
  BY <1>1, PrefixByByte
<1>6. \A i \in 1..(n + 1) : r[i] = t[i]
  BY <1>1, <1>4, <1>5
<1>7. Seqs!IsPrefix(r, t)
  BY <1>0, <1>4, <1>6, PrefixByByte
<1> QED
  BY <1>1, <1>2, <1>4, <1>7

(* The numbers from which the client may see the server's bytes counted:   *)
(* the initial numbers of the proxy, and those that result when the offset *)
(* is not the one of the SYN-ACK, because a SYN or a FIN of the client     *)
(* came between.                                                           *)
Bases ==
    ISNs \cup {wrapping_add(i, ServerISN) : i \in ISNs}
         \cup {wrapping_add(i, ServerISN + 1) : i \in ISNs}

(* x is more than l away from y.                                           *)
Apart(x, y, l) == \A d \in -l..l : x # wrapping_add(y, d)

(* The initial numbers that the clock yields are so far apart, from each   *)
(* other and from the other bases, that bytes of an earlier connection of  *)
(* the client are not taken for bytes of the present one.                  *)
NumbersApart(l) ==
    /\ l < SeqMod
    /\ \A i \in ISNs : \A x \in Bases : x # i => Apart(x, i, l)

(* The segment carries a byte of the server's stream or none, with a       *)
(* number that is counted from one of bases.                               *)
ByteOfServer(seg, bases) ==
    seg.data # << >> =>
        /\ ~seg.fin
        /\ \E k \in DOMAIN ServerStream, b \in bases :
            seg.data = <<ServerStream[k]>> /\ seg.seq = wrapping_add(b, k)

OfServer(seg) == (seg.syn => seg.seq = ServerISN) /\ ByteOfServer(seg, {ServerISN})

(* open: the client has received a SYN.                                    *)
OfClient(seg, open) == (~seg.syn => open) /\ (seg.fin => seg.data = << >>)

ForClient(seg, open) ==
    /\ seg.syn => seg.seq \in ISNs \/ open
    /\ ~seg.syn => open /\ ByteOfServer(seg, Bases)

Carried(packets, open) ==
    \A m \in packets :
        /\ m.to = "proxy_s" => OfServer(m.seg)
        /\ m.to = "proxy_c" => OfClient(m.seg, open)
        /\ m.to = "client" => ForClient(m.seg, open)

(* What the client has received is a beginning of the server's stream, and *)
(* its count of units is that of the bytes until a FIN came.               *)
ClientHas(e) ==
    /\ e.una > 0 => e.got > 0
    /\ e.got > 0 => e.irs \in ISNs
    /\ e.got = 0 => e.rcvd = << >> /\ ~e.ended
    /\ e.got > 0 /\ ~e.ended => e.got = Len(e.rcvd) + 1
    /\ Seqs!IsPrefix(e.rcvd, ServerStream)

Offsets ==
    ISNs \cup {wrapping_sub(i, ServerISN) : i \in ISNs} \cup {wrapping_add(i, 1) : i \in ISNs}

(* What the proxy adds to the server's numbers.                            *)
Shifts(c, open) ==
    /\ c.client_state \notin {SynSent, Closed} => open
    /\ c.c_seqn \in Offsets
    /\ c.server_state < Established => c.c_seqn \in ISNs

ServerStreamInv ==
    /\ sv.isn = ServerISN /\ sv.stream = ServerStream
    /\ ClientHas(cl)
    /\ Carried(net, cl.got > 0)
    /\ InUse(ThePort) => Shifts(tcp[ThePort], cl.got > 0)

(* A number counted from two bases belongs to one unit only.               *)
LEMMA AwaitedUnit ==
    ASSUME NEW l \in Nat, NumbersApart(l), NEW i \in ISNs, NEW b \in Bases, NEW k \in Int,
           NEW g \in Int, g - k \in -l..l, wrapping_add(b, k) = wrapping_add(i, g)
    PROVE  k = g
<1>1. ISNs \subseteq Seqns /\ ServerISN \in Int /\ ServerISN + 1 \in Int
  BY NetAssumption, ProxyAssumption, SeqAssumption DEF Seqns
<1>2. i \in Seqns /\ b \in Seqns
  <2>1. \A j \in ISNs : j \in Seqns /\ j \in Int
    BY <1>1, SeqAssumption DEF Seqns
  <2>2. \A j \in ISNs : wrapping_add(j, ServerISN) \in Seqns /\ wrapping_add(j, ServerISN + 1) \in Seqns
    BY <1>1, <2>1, WrappingType
  <2> QED
    BY <2>1, <2>2 DEF Bases
<1>3. i \in Int /\ b \in Int /\ wrapping_add(b, 0) = b
  BY <1>2, SeqAssumption DEF Seqns, wrapping_add
<1>4. b = wrapping_add(i, g - k)
  <2>1. wrapping_sub(wrapping_add(b, k), k) = wrapping_add(b, k - k)
    BY <1>1, <1>3, WrappingTwice
  <2>2. wrapping_sub(wrapping_add(i, g), k) = wrapping_add(i, g - k)
    BY <1>1, <1>3, WrappingTwice
  <2>3. k - k = 0
    BY <1>1
  <2> QED
    BY <1>3, <2>1, <2>2, <2>3
<1>5. b = i
  BY <1>4 DEF NumbersApart, Apart
<1>6. k - g < SeqMod /\ g - k < SeqMod
  BY SeqAssumption DEF NumbersApart
<1> QED
  BY <1>3, <1>5, <1>6, WrappingInjective

(* What the client makes of a packet that may be on its way to it.         *)
LEMMA ClientTakes ==
    ASSUME NumbersApart(Len(ServerStream)), NEW e, Sound(e), ClientHas(e), NEW seg \in Segments,
           ForClient(seg, e.got > 0)
    PROVE  /\ ClientHas(ReceivedBy(e, seg))
           /\ e.got > 0 => ReceivedBy(e, seg).got > 0
<1>a. PICK a : a = Acked(e, seg)
  OBVIOUS
<1>1. /\ a \in Endpoint /\ a.got = e.got /\ a.irs = e.irs /\ a.rcvd = e.rcvd
      /\ a.ended = e.ended
  <2>1. e \in Endpoint /\ e.una \in Nat /\ e.nxt \in Nat
    BY DEF Sound, Endpoint
  <2>n. PICK n : n = wrapping_sub(seg.ackn, e.isn)
    OBVIOUS
  <2>2. CASE seg.ack /\ n \in (e.una + 1)..e.nxt
    <3>1. n \in Nat /\ a = [e EXCEPT !.una = n]
      BY <1>a, <2>n, <2>1, <2>2 DEF Acked
    <3> QED
      BY <2>1, <3>1 DEF Endpoint
  <2>3. CASE ~(seg.ack /\ n \in (e.una + 1)..e.nxt)
    BY <1>a, <2>n, <2>1, <2>3 DEF Acked
  <2> QED
    BY <2>2, <2>3
<1>2. /\ e.got \in Nat /\ a.una \in Nat /\ e.rcvd \in Seq(Bytes) /\ Len(e.rcvd) \in Nat
      /\ seg.data \in Seq(Bytes) /\ seg.seq \in Seqns /\ ServerStream \in Seq(Bytes)
      /\ Len(ServerStream) \in Nat
  BY <1>1, NetAssumption DEF Sound, Endpoint, Segments
<1>3. Seqs!IsPrefix(e.rcvd, ServerStream) /\ Len(e.rcvd) <= Len(ServerStream)
  BY <1>2, PrefixByByte DEF ClientHas
<1>4. CASE e.got = 0
  <2>1. seg.syn /\ seg.seq \in ISNs /\ e.rcvd = << >> /\ ~e.ended
    BY <1>2, <1>4 DEF ForClient, ClientHas
  <2>2. ReceivedBy(e, seg) = [a EXCEPT !.irs = seg.seq, !.got = 1]
    BY <1>a, <1>4, <2>1 DEF ReceivedBy, Opened
  <2>3. PICK d : d = [a EXCEPT !.irs = seg.seq, !.got = 1]
    OBVIOUS
  <2>4. d.got = 1 /\ d.irs = seg.seq /\ d.rcvd = << >> /\ ~d.ended
    BY <1>1, <2>1, <2>3 DEF Endpoint
  <2>5. Len(<< >>) = 0
    OBVIOUS
  <2>6. ClientHas(d)
    BY <1>3, <2>1, <2>4, <2>5 DEF ClientHas
  <2> QED
    BY <1>4, <2>2, <2>3, <2>6
<1>5. CASE e.got > 0
  <2>o. PICK old : old = wrapping_sub(wrapping_add(a.irs, a.got), seg.seq)
    OBVIOUS
  <2>1. e.irs \in ISNs /\ e.irs \in Seqns /\ e.irs \in Int /\ e.got \in Int /\ seg.seq \in Int
    <3>1. e.irs \in ISNs
      BY <1>5 DEF ClientHas
    <3>2. e.irs \in Seqns
      BY <3>1, ProxyAssumption
    <3> QED
      BY <1>2, <3>1, <3>2, SeqAssumption DEF Seqns
  <2>2. /\ wrapping_add(e.irs, e.got) \in Seqns
        /\ old \in Nat
        /\ old = 0 => seg.seq = wrapping_add(e.irs, e.got)
    <3>1. wrapping_add(e.irs, e.got) \in Seqns
      BY <2>1, WrappingType
    <3>2. wrapping_add(e.irs, e.got) \in Int
      BY <3>1, SeqAssumption DEF Seqns
    <3>3. old \in Seqns
      BY <1>1, <2>o, <2>1, <3>2, WrappingType
    <3>4. old \in Nat
      BY <3>3, SeqAssumption DEF Seqns
    <3>5. old = 0 => seg.seq = wrapping_add(e.irs, e.got)
      BY <1>1, <1>2, <2>o, <3>1, NoDistance
    <3> QED
      BY <3>1, <3>4, <3>5
  <2>3. ReceivedBy(e, seg) = Taken(a, seg)
    BY <1>2, <1>5, <1>a DEF ReceivedBy
  <2>4. CASE ~(~seg.syn /\ ~a.ended /\ old < Size(seg))
    <3>1. Taken(a, seg) = a
      BY <2>o, <2>4 DEF Taken
    <3>2. ClientHas(a)
      BY <1>1, <1>2, <1>5, <1>3 DEF ClientHas
    <3> QED
      BY <1>1, <1>5, <2>3, <3>1, <3>2
  <2>5. CASE ~seg.syn /\ ~a.ended /\ old < Size(seg)
    <3>g. PICK g : g = a.got + Size(seg) - old
      OBVIOUS
    <3>r. PICK r : r = a.rcvd \o SubSeq(seg.data, old + 1, Len(seg.data))
      OBVIOUS
    <3>d. PICK d : d = [a EXCEPT !.got = g, !.ended = seg.fin, !.rcvd = r]
      OBVIOUS
    <3>1. Taken(a, seg) = d
      BY <2>o, <2>5, <3>g, <3>r, <3>d DEF Taken
    <3>2. d.got = g /\ d.ended = seg.fin /\ d.rcvd = r /\ d.irs = e.irs /\ d.una = a.una
      BY <1>1, <3>d DEF Endpoint
    <3>3. ByteOfServer(seg, Bases) /\ e.got = Len(e.rcvd) + 1
      BY <1>1, <1>5, <2>5 DEF ForClient, ClientHas
    <3>4. ASSUME g \in Nat, g > 0, ~seg.fin => g = Len(r) + 1, Seqs!IsPrefix(r, ServerStream)
          PROVE  ClientHas(d)
      BY <2>1, <3>2, <3>4 DEF ClientHas
    <3>5. CASE seg.data = << >>
      <4>1. Size(seg) = IF seg.fin THEN 1 ELSE 0
        BY <2>5, <3>5 DEF Size
      <4>2. seg.fin /\ old = 0 /\ Size(seg) = 1
        BY <2>2, <2>5, <4>1
      <4>3. g = e.got + 1
        BY <1>1, <1>2, <3>g, <4>2
      <4>4. r = e.rcvd
        <5>1. SubSeq(<< >>, 1, 0) = << >> /\ Len(<< >>) = 0
          OBVIOUS
        <5>2. e.rcvd \o << >> = e.rcvd
          BY <1>2
        <5>3. old + 1 = 1 /\ Len(seg.data) = 0
          BY <3>5, <4>2, <5>1
        <5>4. r = e.rcvd \o SubSeq(seg.data, 1, 0)
          BY <1>1, <3>r, <5>3
        <5> QED
          BY <3>5, <5>1, <5>2, <5>4
      <4> QED
        BY <1>2, <1>3, <2>3, <3>1, <3>2, <3>4, <4>2, <4>3, <4>4
    <3>6. CASE seg.data # << >>
      <4>1. PICK k \in DOMAIN ServerStream, b \in Bases :
                seg.data = <<ServerStream[k]>> /\ seg.seq = wrapping_add(b, k)
        BY <3>3, <3>6 DEF ByteOfServer
      <4>2. k \in 1..Len(ServerStream) /\ Len(seg.data) = 1 /\ ~seg.fin
        BY <1>2, <3>3, <3>6, <4>1 DEF ByteOfServer
      <4>3. Size(seg) = 1
        BY <2>5, <4>2 DEF Size
      <4>4. old = 0
        BY <2>2, <2>5, <4>3
      <4>5. e.got \in 1..(Len(ServerStream) + 1)
        BY <1>2, <1>3, <3>3
      <4>6. k = e.got
        <5>1. k \in Int /\ e.got - k \in -Len(ServerStream)..Len(ServerStream)
          BY <1>2, <4>2, <4>5
        <5> QED
          BY <1>2, <2>1, <2>2, <4>1, <4>4, <5>1, AwaitedUnit
      <4>7. g = e.got + 1
        BY <1>1, <1>2, <3>g, <4>3, <4>4
      <4>8. r = e.rcvd \o <<ServerStream[Len(e.rcvd) + 1]>>
        <5>1. SubSeq(seg.data, 1, 1) = seg.data
          BY <1>2, <4>2
        <5> QED
          BY <1>1, <3>3, <3>r, <4>1, <4>2, <4>4, <4>6, <5>1
      <4>9. Len(e.rcvd) < Len(ServerStream)
        BY <1>2, <3>3, <4>2, <4>6
      <4>10. Len(r) = Len(e.rcvd) + 1 /\ Seqs!IsPrefix(r, ServerStream)
        BY <1>2, <1>3, <4>8, <4>9, PrefixGrows
      <4> QED
        BY <1>2, <2>3, <3>1, <3>2, <3>3, <3>4, <4>7, <4>10
    <3> QED
      BY <3>5, <3>6
  <2> QED
    BY <2>4, <2>5
<1> QED
  BY <1>2, <1>4, <1>5

(* What is carried stays so when the client opens its connection, and with *)
(* more of its kind.                                                       *)
LEMMA CarriedJoins ==
    ASSUME NEW open \in BOOLEAN, NEW open2 \in BOOLEAN, open => open2, Carried(net, open),
           NEW m, NEW packets, Carried(packets, open2),
           net' = net \cup packets \/ net' = Without(m) \cup packets \/ net' = net \ {m}
    PROVE  Carried(net', open2)
BY DEF Carried, Without, OfClient, ForClient

(* A packet on its way.                                                    *)
LEMMA CarriedTo ==
    ASSUME NEW dst, NEW segs, NEW open,
           dst = "proxy_s" => \A seg \in segs : OfServer(seg),
           dst = "proxy_c" => \A seg \in segs : OfClient(seg, open),
           dst = "client" => \A seg \in segs : ForClient(seg, open)
    PROVE  Carried(To(dst, segs), open)
BY DEF Carried, To

(* What the server sends.                                                  *)
LEMMA ServerUnits ==
    ASSUME NEW e \in Endpoint, e.isn = ServerISN, e.stream = ServerStream, NEW k \in Nat
    PROVE  OfServer(Unit(e, k)) /\ OfServer(PureAck(e))
<1>1. ServerStream \in Seq(Bytes) /\ DOMAIN ServerStream = 1..Len(ServerStream)
      /\ Len(ServerStream) \in Nat
  BY NetAssumption
<1>2. wrapping_add(ServerISN, 0) = ServerISN
  BY NetAssumption, SeqAssumption DEF Seqns, wrapping_add
<1>3. /\ Unit(e, k).syn <=> k = 0
      /\ Unit(e, k).fin <=> k = Len(ServerStream) + 1
      /\ Unit(e, k).seq = wrapping_add(ServerISN, k)
      /\ Unit(e, k).data = IF k \in DOMAIN ServerStream THEN <<ServerStream[k]>> ELSE << >>
  BY DEF Unit, Fin
<1>4. PureAck(e).syn = FALSE /\ PureAck(e).data = << >>
  BY DEF PureAck
<1>5. OfServer(PureAck(e))
  BY <1>4 DEF OfServer, ByteOfServer
<1>6. Unit(e, k).syn => Unit(e, k).seq = ServerISN
  BY <1>2, <1>3
<1>7. ASSUME Unit(e, k).data # << >>
      PROVE  /\ k \in DOMAIN ServerStream /\ Unit(e, k).data = <<ServerStream[k]>>
             /\ ~Unit(e, k).fin
  BY <1>1, <1>3, <1>7
<1>8. ByteOfServer(Unit(e, k), {ServerISN})
  BY <1>3, <1>7 DEF ByteOfServer
<1> QED
  BY <1>5, <1>6, <1>8 DEF OfServer

(* What the client sends.                                                  *)
LEMMA ClientSends ==
    ASSUME NEW e \in Endpoint, NEW k \in Nat, k > 0 => e.got > 0
    PROVE  /\ OfClient(Unit(e, k), e.got > 0)
           /\ e.got > 0 => OfClient(PureAck(e), e.got > 0)
<1>1. e.stream \in Seq(Bytes) /\ DOMAIN e.stream = 1..Len(e.stream) /\ Len(e.stream) \in Nat
  BY DEF Endpoint
<1>2. /\ Unit(e, k).syn <=> k = 0
      /\ Unit(e, k).fin <=> k = Len(e.stream) + 1
      /\ Unit(e, k).data = IF k \in DOMAIN e.stream THEN <<e.stream[k]>> ELSE << >>
  BY DEF Unit, Fin
<1>3. PureAck(e).fin = FALSE /\ PureAck(e).data = << >>
  BY DEF PureAck
<1>4. Unit(e, k).fin => Unit(e, k).data = << >>
  BY <1>1, <1>2
<1> QED
  BY <1>2, <1>3, <1>4 DEF OfClient

(* A packet of the server, translated for a client that is connected.      *)
LEMMA ByteTranslated ==
    ASSUME NEW seg \in Segments, OfServer(seg), NEW c, c.c_seqn \in Offsets
    PROVE  ForClient(server_to_client(c, seg), TRUE)
<1>t. PICK t : t = server_to_client(c, seg)
  OBVIOUS
<1>1. /\ t.syn = seg.syn /\ t.fin = seg.fin /\ t.data = seg.data
      /\ t.seq = wrapping_add(seg.seq, c.c_seqn)
  BY <1>t DEF server_to_client, Segments
<1>2. ASSUME seg.data # << >>
      PROVE  \E k \in DOMAIN ServerStream, b \in Bases :
                seg.data = <<ServerStream[k]>> /\ t.seq = wrapping_add(b, k)
  <2>1. PICK k \in DOMAIN ServerStream :
            seg.data = <<ServerStream[k]>> /\ seg.seq = wrapping_add(ServerISN, k)
    BY <1>2 DEF OfServer, ByteOfServer
  <2>2. k \in Int /\ ServerISN \in Int /\ (\A i \in ISNs : i \in Int) /\ seg.seq \in Int
    BY NetAssumption, ProxyAssumption, SeqAssumption DEF Seqns, Segments
  <2>3. ASSUME NEW x \in Int PROVE wrapping_add(seg.seq, x) = wrapping_add(ServerISN, k + x)
    BY <2>1, <2>2, WrappingTwice
  <2>4. ASSUME NEW x \in Int, NEW y \in Int PROVE wrapping_add(x, y) = wrapping_add(y, x)
    BY DEF wrapping_add
  <2>5. ASSUME NEW i \in ISNs, c.c_seqn = i
        PROVE  t.seq = wrapping_add(wrapping_add(i, ServerISN), k)
    <3>1. t.seq = wrapping_add(ServerISN, k + i)
      BY <1>1, <2>2, <2>3, <2>5
    <3>2. wrapping_add(wrapping_add(i, ServerISN), k) = wrapping_add(i, ServerISN + k)
      BY <2>2, WrappingTwice
    <3>3. ServerISN + (k + i) = i + (ServerISN + k)
      BY <2>2
    <3> QED
      BY <3>1, <3>2, <3>3 DEF wrapping_add
  <2>6. ASSUME NEW i \in ISNs, c.c_seqn = wrapping_add(i, 1)
        PROVE  t.seq = wrapping_add(wrapping_add(i, ServerISN + 1), k)
    <3>0. wrapping_add(i, 1) \in Int /\ 1 + seg.seq \in Int /\ i + 1 \in Int /\ i \in Int
          /\ ServerISN + 1 \in Int
      BY <2>2, SeqAssumption DEF wrapping_add
    <3>1. t.seq = wrapping_add(wrapping_add(i, 1), seg.seq)
      BY <1>1, <2>2, <2>4, <2>6, <3>0
    <3>2. wrapping_add(wrapping_add(i, 1), seg.seq) = wrapping_add(i, 1 + seg.seq)
      <4>1. ASSUME NEW n \in Int
            PROVE  wrapping_add(wrapping_add(i, 1), n) = wrapping_add(i, 1 + n)
        BY <3>0, WrappingTwice
      <4> QED
        BY <2>2, <4>1
    <3>3. wrapping_add(i, 1 + seg.seq) = wrapping_add(seg.seq, i + 1)
      <4>1. i + (1 + seg.seq) = seg.seq + (i + 1)
        BY <2>2, <3>0
      <4> QED
        BY <4>1 DEF wrapping_add
    <3>4. wrapping_add(seg.seq, i + 1) = wrapping_add(ServerISN, k + (i + 1))
      BY <2>3, <3>0
    <3>5. wrapping_add(wrapping_add(i, ServerISN + 1), k) = wrapping_add(i, (ServerISN + 1) + k)
      BY <2>2, <3>0, WrappingTwice
    <3>6. ServerISN + (k + (i + 1)) = i + ((ServerISN + 1) + k)
      BY <2>2, <3>0
    <3> QED
      BY <3>1, <3>2, <3>3, <3>4, <3>5, <3>6 DEF wrapping_add
  <2>7. ASSUME NEW i \in ISNs, c.c_seqn = wrapping_sub(i, ServerISN)
        PROVE  t.seq = wrapping_add(i, k)
    <3>0. /\ wrapping_sub(i, ServerISN) \in Int /\ seg.seq - ServerISN \in Int
          /\ i - ServerISN \in Int /\ i \in Int
      BY <2>2, SeqAssumption DEF wrapping_sub
    <3>1. t.seq = wrapping_add(wrapping_sub(i, ServerISN), seg.seq)
      BY <1>1, <2>2, <2>4, <2>7, <3>0
    <3>2. wrapping_add(wrapping_sub(i, ServerISN), seg.seq) = wrapping_add(i, seg.seq - ServerISN)
      <4>1. ASSUME NEW n \in Int
            PROVE  wrapping_add(wrapping_sub(i, ServerISN), n) = wrapping_add(i, n - ServerISN)
        BY <2>2, <3>0, WrappingTwice
      <4> QED
        BY <2>2, <4>1
    <3>3. wrapping_add(i, seg.seq - ServerISN) = wrapping_add(seg.seq, i - ServerISN)
      <4>1. i + (seg.seq - ServerISN) = seg.seq + (i - ServerISN)
        BY <2>2, <3>0
      <4> QED
        BY <4>1 DEF wrapping_add
    <3>4. wrapping_add(seg.seq, i - ServerISN) = wrapping_add(ServerISN, k + (i - ServerISN))
      BY <2>3, <3>0
    <3>5. ServerISN + (k + (i - ServerISN)) = i + k
      BY <2>2, <3>0
    <3> QED
      BY <3>1, <3>2, <3>3, <3>4, <3>5 DEF wrapping_add
  <2>8. \E b \in Bases : t.seq = wrapping_add(b, k)
    BY <2>5, <2>6, <2>7 DEF Offsets, Bases
  <2> QED
    BY <2>1, <2>8
<1>3. seg.data # << >> => ~seg.fin
  BY DEF OfServer, ByteOfServer
<1> QED
  BY <1>t, <1>1, <1>2, <1>3 DEF ForClient, ByteOfServer

(* A packet of the client or of the server at the proxy.                   *)
LEMMA ProxyShifts ==
    ASSUME AnySegment, DPInv, NetInv, ServerStreamInv, NEW m \in net, ProxyReceive(m)
    PROVE  /\ Carried(Emitted(out'), cl.got > 0)
           /\ InUse(ThePort)' => Shifts(tcp'[ThePort], cl.got > 0)
<1> DEFINE c == tcp[ThePort]
           d == tcp'[ThePort]
           open == cl.got > 0
<1>1. /\ m.seg \in Segments /\ open \in BOOLEAN /\ Carried(net, open)
      /\ InUse(ThePort) => Shifts(c, open)
      /\ m.to = "proxy_c" => OfClient(m.seg, open)
      /\ m.to = "proxy_s" => OfServer(m.seg)
  BY DEF NetInv, InFlight, ServerStreamInv, Carried
<1>2. c \in TcpConnection /\ c.server_state \in States /\ c.client_state \in States
  BY NetAssumption DEF DPInv, DPTypeOK, TcpConnection
<1>e. Carried({}, open)
  BY DEF Carried
<1>s. ASSUME NEW segs PROVE Carried(To("server", segs), open)
  BY CarriedTo
<1>k. ASSUME NEW x \in TcpConnection, x.c_seqn = c.c_seqn, x.server_state = c.server_state \/ x.server_state >= LastAck,
             InUse(ThePort), x.client_state \notin {SynSent, Closed} => open
      PROVE  Shifts(x, open)
  <2>1. c.c_seqn \in Offsets /\ (c.server_state < Established => c.c_seqn \in ISNs)
    BY <1>1, <1>k DEF Shifts
  <2>2. CASE x.server_state = c.server_state
    BY <1>k, <2>1, <2>2 DEF Shifts
  <2>3. CASE x.server_state >= LastAck
    <3>1. x.server_state \in Int /\ ~(x.server_state < Established)
      BY <2>3 DEF TcpConnection, States, LastAck, Established
    <3> QED
      BY <1>k, <2>1, <3>1 DEF Shifts
  <2> QED
    BY <1>k, <2>2, <2>3
<1>3. CASE Dropped
  BY <1>1, <1>e, <1>3 DEF Dropped
<1>4. CASE m.to = "proxy_c" /\ FromClient(TheClient, m.seg)
  <2>1. OfClient(m.seg, open)
    BY <1>1, <1>4
  <2>2. CASE ClientPassed(m.seg)
    <3>1. Carried(Emitted(out'), open)
      BY <1>e, <1>s, <2>2 DEF ClientPassed
    <3>2. d.client_state \notin {SynSent, Closed} => open
      BY <1>1, <2>1, <2>2 DEF ClientPassed, OfClient, Shifts
    <3>3. Shifts(d, open)
      BY <1>k, <2>2, <3>2 DEF ClientPassed, Kept
    <3> QED
      BY <3>1, <3>3
  <2>3. CASE ClientOpened(m.seg)
    <3>1. Shifts(d, open)
      BY <2>3 DEF ClientOpened, Shifts, Offsets
    <3>2. ASSUME NEW isn \in ISNs PROVE ForClient(SynAck(m.seg, isn), open)
      <4>1. SynAck(m.seg, isn).syn = m.seg.syn /\ SynAck(m.seg, isn).seq = isn
        BY <1>1 DEF SynAck, make_reply_packet, Segments
      <4> QED
        BY <2>3, <4>1 DEF ForClient, ClientOpened
    <3>3. Carried(Emitted(out'), open)
      <4>1. \/ Emitted(out') = To("client", {SynAck(m.seg, d.c_seqn)})
            \/ \E x : Emitted(out') = To("server", {x})
        BY <2>3 DEF ClientOpened
      <4>2. d.c_seqn \in ISNs
        BY <2>3 DEF ClientOpened
      <4>3. Carried(To("client", {SynAck(m.seg, d.c_seqn)}), open)
        BY <3>2, <4>2, CarriedTo
      <4> QED
        BY <1>s, <4>1, <4>3
    <3> QED
      BY <3>1, <3>3
  <2>4. CASE ClientClosed(m.seg)
    <3>1. open /\ m.seg.data = << >>
      BY <2>1, <2>4 DEF ClientClosed, OfClient
    <3>2. c.c_seqn \in ISNs
      BY <1>1, <2>4 DEF ClientClosed, Shifts
    <3>3. Shifts(d, open)
      BY <2>4, <3>1, <3>2 DEF ClientClosed, Shifts, Offsets, LastAck, Established
    <3>r. PICK r : r = [make_reply_packet(m.seg) EXCEPT !.seq = d.c_seqn]
      OBVIOUS
    <3>4. r.syn = m.seg.syn /\ r.data = << >>
      BY <1>1, <3>1, <3>r DEF make_reply_packet, Segments
    <3>5. ForClient(r, open)
      BY <2>4, <3>1, <3>4 DEF ForClient, ByteOfServer, ClientClosed
    <3>6. Carried(To("client", {r}), open)
      BY <3>5, CarriedTo
    <3> QED
      BY <2>4, <3>3, <3>6, <3>r DEF ClientClosed
  <2>5. CASE ClientSelected(m.seg)
    <3>1. c.c_seqn \in ISNs /\ (c.client_state \notin {SynSent, Closed} => open)
      BY <1>1, <2>5 DEF ClientSelected, Shifts, IsFirstPayload, Listen, Established
    <3>2. Shifts(d, open)
      BY <2>5, <3>1 DEF ClientSelected, Shifts, Offsets
    <3> QED
      BY <1>s, <2>5, <3>2 DEF ClientSelected
  <2> QED
    BY <1>1, <1>3, <1>4, <2>2, <2>3, <2>4, <2>5, FromClientSeen
<1>5. CASE m.to = "proxy_s" /\ FromServer(ThePort, m.seg)
  <2>1. OfServer(m.seg)
    BY <1>1, <1>5
  <2>2. CASE ServerPassed(m.seg)
    <3>1. d.client_state \notin {SynSent, Closed} => open
      BY <1>1, <2>2 DEF ServerPassed, ClientMoves, Shifts
    <3>2. Shifts(d, open)
      BY <1>k, <2>2, <3>1 DEF ServerPassed, Kept
    <3>3. ASSUME ForwardsServer(c) PROVE Carried(To("client", {server_to_client(c, m.seg)}), open)
      <4>1. open /\ c.c_seqn \in Offsets
        BY <1>1, <1>2, <2>2, <3>3
           DEF ServerPassed, Shifts, ForwardsServer, SynSent, Established, Closed, States, Listen
      <4>2. ForClient(server_to_client(c, m.seg), open)
        BY <1>1, <2>1, <4>1, ByteTranslated
      <4> QED
        BY <4>2, CarriedTo
    <3> QED
      BY <1>e, <2>2, <3>2, <3>3 DEF ServerPassed
  <2>3. CASE ServerAnswered(m.seg)
    <3>1. c.c_seqn \in ISNs /\ (c.client_state \notin {SynSent, Closed} => open)
      BY <1>1, <2>3 DEF ServerAnswered, Shifts, AwaitsSynAck, SynReceived, Established
    <3>2. d.c_seqn = wrapping_sub(c.c_seqn, ServerISN)
      BY <2>1, <2>3 DEF ServerAnswered, OfServer
    <3>3. Shifts(d, open)
      BY <2>3, <3>1, <3>2 DEF ServerAnswered, Shifts, Offsets, Established
    <3> QED
      BY <1>s, <2>3, <3>3 DEF ServerAnswered
  <2> QED
    BY <1>1, <1>3, <1>5, <2>2, <2>3, FromServerSeen
<1> QED
  BY <1>4, <1>5 DEF ProxyReceive

(* Every step preserves what the client has.                               *)
LEMMA ServerStreamNext ==
    ASSUME AnySegment, NumbersApart(Len(ServerStream)), DPInv, NetInv, ServerStreamInv, [PNNext]_pnVars
    PROVE  ServerStreamInv'
<1> DEFINE open == cl.got > 0
<1>1. /\ sv.isn = ServerISN /\ sv.stream = ServerStream /\ ClientHas(cl) /\ Carried(net, open)
      /\ InUse(ThePort) => Shifts(tcp[ThePort], open)
  BY DEF ServerStreamInv
<1>2. /\ cl \in Endpoint /\ sv \in Endpoint /\ Sound(cl) /\ Sound(sv)
      /\ cl.una \in Nat /\ cl.nxt \in Nat /\ cl.got \in Nat
      /\ sv.una \in Nat /\ sv.nxt \in Nat
      /\ open \in BOOLEAN
  BY DEF NetInv, Sound, Endpoint
<1>3. ASSUME UNCHANGED dpVars PROVE (InUse(ThePort)' <=> InUse(ThePort)) /\ tcp' = tcp
  BY <1>3 DEF dpVars, InUse
<1>4. ASSUME NEW open2 \in BOOLEAN, open2 = (cl'.got > 0), open => open2,
             sv'.isn = ServerISN, sv'.stream = ServerStream,
             ClientHas(cl'), Carried(net', open2),
             InUse(ThePort)' => Shifts(tcp'[ThePort], open2)
      PROVE  ServerStreamInv'
  BY <1>4 DEF ServerStreamInv, ClientHas, Carried, Shifts, OfServer, OfClient, ForClient,
              ByteOfServer, Offsets, Bases
<1>5. ASSUME NEW open2 \in BOOLEAN, open => open2, UNCHANGED dpVars
      PROVE  InUse(ThePort)' => Shifts(tcp'[ThePort], open2)
  BY <1>1, <1>3, <1>5 DEF Shifts
<1>6. ASSUME UNCHANGED dpVars, cl'.got = cl.got, ClientHas(cl'), sv'.isn = sv.isn,
             sv'.stream = sv.stream, Carried(net', open)
      PROVE  ServerStreamInv'
  BY <1>1, <1>2, <1>4, <1>5, <1>6
<1>7. CASE ClientSend
  <2>1. cl.nxt > 0 => cl.got > 0
    BY <1>1, <1>2, <1>7 DEF ClientSend, MaySend, ClientHas
  <2>2. OfClient(Unit(cl, cl.nxt), open)
    BY <1>2, <2>1, ClientSends
  <2>3. Carried(To("proxy_c", {Unit(cl, cl.nxt)}), open)
    BY <2>2, CarriedTo
  <2>4. Carried(net', open)
    BY <1>1, <1>2, <1>7, <2>3, CarriedJoins DEF ClientSend
  <2>5. PICK n : n = cl.nxt + 1
    OBVIOUS
  <2>6. cl' = [cl EXCEPT !.nxt = n]
    BY <1>7, <2>5 DEF ClientSend
  <2>7. ClientHas(cl') /\ cl'.got = cl.got
    BY <1>1, <1>2, <2>6 DEF ClientHas, Endpoint
  <2>8. sv' = sv /\ UNCHANGED dpVars
    BY <1>7 DEF ClientSend
  <2> QED
    BY <1>6, <2>4, <2>7, <2>8
<1>8. CASE ServerSend
  <2>1. Carried(To("proxy_s", {Unit(sv, sv.nxt)}), open)
    BY <1>1, <1>2, ServerUnits, CarriedTo
  <2>2. Carried(net', open)
    BY <1>1, <1>2, <1>8, <2>1, CarriedJoins DEF ServerSend
  <2>3. PICK n : n = sv.nxt + 1
    OBVIOUS
  <2>4. sv' = [sv EXCEPT !.nxt = n]
    BY <1>8, <2>3 DEF ServerSend
  <2>5. sv'.isn = sv.isn /\ sv'.stream = sv.stream
    BY <1>2, <2>4 DEF Endpoint
  <2>6. cl' = cl /\ UNCHANGED dpVars
    BY <1>8 DEF ServerSend
  <2> QED
    BY <1>1, <1>6, <2>2, <2>5, <2>6
<1>9. CASE ClientResend
  <2>1. cl.una > 0 => cl.got > 0
    BY <1>1 DEF ClientHas
  <2>2. Carried(To("proxy_c", {Unit(cl, cl.una)}), open)
    BY <1>2, <2>1, ClientSends, CarriedTo
  <2>3. Carried(net', open)
    BY <1>1, <1>2, <1>9, <2>2, CarriedJoins DEF ClientResend
  <2>4. cl' = cl /\ sv' = sv /\ UNCHANGED dpVars
    BY <1>9 DEF ClientResend
  <2> QED
    BY <1>1, <1>6, <2>3, <2>4
<1>10. CASE ServerResend
  <2>1. Carried(To("proxy_s", {Unit(sv, sv.una)}), open)
    BY <1>1, <1>2, ServerUnits, CarriedTo
  <2>2. Carried(net', open)
    BY <1>1, <1>2, <1>10, <2>1, CarriedJoins DEF ServerResend
  <2>3. cl' = cl /\ sv' = sv /\ UNCHANGED dpVars
    BY <1>10 DEF ServerResend
  <2> QED
    BY <1>1, <1>6, <2>2, <2>3
<1>11. ASSUME NEW m \in net, ClientReceive(m) PROVE ServerStreamInv'
  <2>1. /\ m.seg \in Segments /\ ForClient(m.seg, open)
        /\ cl' = ReceivedBy(cl, m.seg) /\ sv' = sv /\ UNCHANGED dpVars
    BY <1>1, <1>11 DEF ClientReceive, NetInv, InFlight, Carried
  <2>2. ClientHas(cl') /\ (open => cl'.got > 0)
    BY <1>1, <1>2, <2>1, ClientTakes
  <2>3. cl' \in Endpoint
    BY <1>2, <2>1, ReceivedSound DEF Sound
  <2>b. (cl'.got > 0) \in BOOLEAN
    OBVIOUS
  <2>o. PICK open2 \in BOOLEAN : open2 = (cl'.got > 0)
    BY <2>b
  <2>4. \A seg \in Answer(cl, cl', m.seg) : OfClient(seg, open2)
    <3>1. \A seg \in Answer(cl, cl', m.seg) : seg = PureAck(cl') /\ cl'.got > 0
      BY DEF Answer
    <3>2. 0 \in Nat
      OBVIOUS
    <3>3. cl'.got > 0 => OfClient(PureAck(cl'), cl'.got > 0)
      BY <2>3, <3>2, ClientSends
    <3> QED
      BY <2>o, <3>1, <3>3
  <2>5. Carried(To("proxy_c", Answer(cl, cl', m.seg)), open2)
    BY <2>4, CarriedTo
  <2>6. Carried(net', open2)
    BY <1>1, <1>2, <1>11, <2>2, <2>5, <2>o, CarriedJoins DEF ClientReceive
  <2> QED
    BY <1>1, <1>4, <1>5, <2>1, <2>2, <2>6, <2>o
<1>12. ASSUME NEW m \in net, ServerReceive(m) PROVE ServerStreamInv'
  <2>1. m.seg \in Segments /\ sv' = ReceivedBy(sv, m.seg) /\ cl' = cl /\ UNCHANGED dpVars
    BY <1>12 DEF ServerReceive, NetInv, InFlight
  <2>2. sv' \in Endpoint /\ sv'.isn = ServerISN /\ sv'.stream = ServerStream
    BY <1>1, <1>2, <2>1, ReceivedSound DEF Sound
  <2>3. \A seg \in Answer(sv, sv', m.seg) : OfServer(seg)
    <3>1. 0 \in Nat
      OBVIOUS
    <3>2. OfServer(PureAck(sv'))
      BY <2>2, <3>1, ServerUnits
    <3> QED
      BY <3>2 DEF Answer
  <2>4. Carried(To("proxy_s", Answer(sv, sv', m.seg)), open)
    BY <2>3, CarriedTo
  <2>5. Carried(net', open)
    BY <1>1, <1>2, <1>12, <2>4, CarriedJoins DEF ServerReceive
  <2> QED
    BY <1>1, <1>6, <2>1, <2>2, <2>5
<1>13. ASSUME NEW m \in net, Lose(m) PROVE ServerStreamInv'
  <2>1. Carried({}, open)
    BY DEF Carried
  <2>2. Carried(net', open)
    BY <1>1, <1>2, <1>13, <2>1, CarriedJoins DEF Lose
  <2>3. cl' = cl /\ sv' = sv /\ UNCHANGED dpVars
    BY <1>13 DEF Lose
  <2> QED
    BY <1>1, <1>6, <2>2, <2>3
<1>14. ASSUME NEW m \in net, ProxyReceive(m) PROVE ServerStreamInv'
  <2>1. /\ Carried(Emitted(out'), open)
        /\ InUse(ThePort)' => Shifts(tcp'[ThePort], open)
    BY <1>14, ProxyShifts
  <2>2. cl' = cl /\ sv' = sv /\ net' = Without(m) \cup Emitted(out')
    BY <1>14 DEF ProxyReceive
  <2>3. Carried(net', open)
    BY <1>1, <1>2, <2>1, <2>2, CarriedJoins
  <2> QED
    BY <1>1, <1>2, <1>4, <2>1, <2>2, <2>3
<1>15. CASE ProxyTimer
  <2>1. cl' = cl /\ sv' = sv /\ net' = net
        /\ (InUse(ThePort)' => InUse(ThePort) /\ tcp'[ThePort] = tcp[ThePort])
    BY <1>15, TimerSeen DEF netVars
  <2> QED
    BY <1>1, <1>2, <1>4, <2>1
<1>16. CASE UNCHANGED pnVars
  <2>1. cl' = cl /\ sv' = sv /\ net' = net /\ UNCHANGED dpVars
    BY <1>16 DEF pnVars, netVars
  <2> QED
    BY <1>1, <1>6, <2>1
<1> QED
  BY <1>7, <1>8, <1>9, <1>10, <1>11, <1>12, <1>13, <1>14, <1>15, <1>16 DEF PNNext, Deliver

(* The server's stream at the start.                                       *)
LEMMA ServerStreamInit ==
    ASSUME PNInit
    PROVE  ServerStreamInv
<1>1. PICK closers : /\ cl = NewEndpoint(ClientISN, ClientStream, "client" \in closers)
                     /\ sv = NewEndpoint(ServerISN, ServerStream, "server" \in closers)
  BY DEF PNInit
<1>2. /\ sv.isn = ServerISN /\ sv.stream = ServerStream
      /\ cl.una = 0 /\ cl.got = 0 /\ cl.rcvd = << >> /\ cl.ended = FALSE
  BY <1>1 DEF NewEndpoint
<1>3. Seqs!IsPrefix(<< >>, ServerStream)
  <2>1. << >> \in Seq(Bytes) /\ Len(<< >>) = 0 /\ ServerStream \in Seq(Bytes)
        /\ Len(ServerStream) \in Nat
    BY NetAssumption
  <2>2. PICK e \in Seq(Bytes) : e = << >>
    BY <2>1
  <2>3. Len(e) = 0
    BY <2>1, <2>2
  <2>4. Len(e) <= Len(ServerStream) /\ \A i \in 1..Len(e) : e[i] = ServerStream[i]
    BY <2>1, <2>3
  <2>5. Seqs!IsPrefix(e, ServerStream)
    BY <2>1, <2>4, PrefixByByte
  <2> QED
    BY <2>2, <2>5
<1>4. ~InUse(ThePort) /\ net = {}
  BY NetAssumption DEF PNInit, DPInit, CMInit, InUse
<1> QED
  BY <1>2, <1>3, <1>4 DEF ServerStreamInv, ClientHas, Carried

(* "TCP pass-through", server to client, for all streams, windows, losses, *)
(* closes, callbacks and reconnections of the client: whatever the network *)
(* does, the client gets a beginning of the server's stream.               *)
THEOREM ServerStreamArrives ==
    ASSUME AnySegment, NumbersApart(Len(ServerStream))
    PROVE  PNSafeSpec => []StreamS2C
<1>1. PNInit => ServerStreamInv
  BY ServerStreamInit
<1>2. ServerStreamInv => StreamS2C
  BY DEF ServerStreamInv, ClientHas, StreamS2C
<1>3. DPInv /\ NetInv /\ ServerStreamInv /\ [PNNext]_pnVars => DPInv' /\ NetInv' /\ ServerStreamInv'
  BY PNNextInv, ServerStreamNext
<1> QED
  BY <1>1, <1>2, <1>3, PNInitInv, PTL DEF PNSafeSpec

(***************************************************************************)
(* The stream of the client arrives at the server                          *)
(***************************************************************************)

(* The client's first byte is overtaken neither by a later one nor by an   *)
(* ACK that selects a server: see the runs net_overtake and                *)
(* net_first_payload for what happens otherwise.                           *)
FirstByteFirst ==
    /\ Window = 1
    /\ ClientStream # << >>
    /\ Persistent \/ f_select_server(<< >>) = {}

(* The callbacks may add to the first payload or remove it, but do not     *)
(* overwrite bytes, and the sequence numbers suffice for what they add.    *)
PlainCallbacks ==
    /\ \A b \in Bytes : f_process_payload_c_s(<<b>>) = <<b>>
    /\ \A d \in {<< >>, <<ClientStream[1]>>} : \A choice \in f_select_server(d) :
        /\ Len(choice.data) = Len(d) => choice.data = d
        /\ Len(choice.data) + Len(ClientStream) + 2 < SeqMod

(* f is a first payload, as it came and as it was kept.                    *)
Started(f) ==
    /\ f[1] \in {<< >>, <<ClientStream[1]>>}
    /\ f[2] \in Seq(Bytes)
    /\ Len(f[1]) = Len(f[2]) => f[1] = f[2]
    /\ Len(f[2]) + Len(ClientStream) + 2 < SeqMod

Inserted(f) == Len(f[2]) - Len(f[1])

(* What the server is due after f.                                         *)
Due(f) == f[2] \o SubSeq(ClientStream, Len(f[1]) + 1, Len(ClientStream))

(* The segment is one of the client's: its SYN, a byte, its FIN or an ACK. *)
OfStream(seg) ==
    /\ seg.syn => seg.seq = ClientISN /\ ~seg.fin /\ seg.data = << >>
    /\ seg.fin => seg.data = << >> /\ seg.seq = wrapping_add(ClientISN, Len(ClientStream) + 1)
    /\ seg.data # << >> => \E k \in 1..Len(ClientStream) :
            seg.data = <<ClientStream[k]>> /\ seg.seq = wrapping_add(ClientISN, k)

(* What the client sends before it is told that a byte arrived.            *)
EarlyOfClient(seg) ==
    /\ ~seg.fin
    /\ ~seg.syn =>
        \/ seg.data = <<ClientStream[1]>> /\ seg.seq = wrapping_add(ClientISN, 1)
        \/ /\ seg.data = << >>
           /\ seg.seq = wrapping_add(ClientISN, 1) \/ f_select_server(<< >>) = {}

(* The segment carries something to the server at its place in what the    *)
(* server is due: the payload kept, a byte, the FIN or nothing.  A SYN     *)
(* comes too late.                                                         *)
ForServer(seg, f) ==
    ~seg.syn =>
        \/ seg.data = << >> /\ ~seg.fin
        \/ seg.data = f[2] /\ ~seg.fin /\ seg.seq = wrapping_add(ClientISN, 1)
        \/ /\ ~seg.fin
           /\ \E k \in 1..Len(ClientStream) :
                /\ seg.data = <<ClientStream[k]>>
                /\ seg.seq = wrapping_add(ClientISN, k + Inserted(f))
        \/ /\ seg.fin /\ seg.data = << >>
           /\ seg.seq = wrapping_add(ClientISN, Len(ClientStream) + 1 + Inserted(f))

(* Until the proxy has the server's SYN-ACK: the packets in flight, the    *)
(* client, which waits for the first byte to be acknowledged, and the      *)
(* server, which has at most a SYN.                                        *)
EarlyPackets(packets, greeted) ==
    \A m \in packets :
        /\ m.to = "proxy_c" => EarlyOfClient(m.seg)
        /\ m.to = "client" => m.seg.syn /\ m.seg.ackn = wrapping_add(ClientISN, 1)
        /\ m.to = "server" => m.seg.syn /\ ~m.seg.ack /\ m.seg.seq = ClientISN
        /\ m.to = "proxy_s" => ~m.seg.fin /\ m.seg.data = << >> /\ greeted

EarlyClient(e) == e.una <= 1 /\ (e.got = 0 => e.una = 0) /\ e.nxt <= e.una + 1

EarlyServer(e) ==
    /\ e.rcvd = << >> /\ ~e.ended /\ e.una = 0
    /\ e.got <= 1 /\ e.nxt <= e.got
    /\ e.got = 1 => e.irs = ClientISN

Opening(packets, c, s) ==
    EarlyPackets(packets, s.got = 1) /\ EarlyClient(c) /\ EarlyServer(s)

(* No server has heard of the client.                                      *)
Unheard(packets, s) == s.got = 0 /\ \A m \in packets : m.to # "server"

(* After that: what the server has.                                        *)
ServerHas(e, f) ==
    /\ e.got > 0 /\ e.irs = ClientISN
    /\ Seqs!IsPrefix(e.rcvd, Due(f))
    /\ e.rcvd = << >> \/ Len(e.rcvd) >= Len(f[2])
    /\ ~e.ended => e.got = Len(e.rcvd) + 1
    /\ e.ended => e.got = Len(e.rcvd) + 2 /\ Len(e.rcvd) = Len(Due(f))

PacketsForServer(packets, f) == \A m \in packets : m.to = "server" => ForServer(m.seg, f)

(* The three phases: no server is selected; one is, and has not answered   *)
(* to the proxy; the proxy passes packets on.                              *)
Unbound ==
    /\ first = << >>
    /\ Opening(net, cl, sv) /\ Unheard(net, sv)
    /\ InUse(ThePort) => tcp[ThePort].server_state = Listen

Awaits(c, f) ==
    /\ c.server_state = SynReceived
    /\ c.seqn = ClientISN
    /\ c.c2s_inserted_bytes = Inserted(f)
    /\ c.payload_packet = <<f[2]>>

Binding ==
    /\ first # << >> /\ Started(first)
    /\ Opening(net, cl, sv)
    /\ InUse(ThePort) => Awaits(tcp[ThePort], first)

Passes(c, f) == c.server_state >= Established /\ c.c2s_inserted_bytes = Inserted(f)

Connected ==
    /\ first # << >> /\ Started(first)
    /\ PacketsForServer(net, first) /\ ServerHas(sv, first)
    /\ InUse(ThePort) => Passes(tcp[ThePort], first)

PacketsOfStream(packets) == \A m \in packets : m.to = "proxy_c" => OfStream(m.seg)

ClientStreamInv == PacketsOfStream(net) /\ (Unbound \/ Binding \/ Connected)

(* A sequence, and what follows the first l elements of another.           *)
LEMMA JoinedRest ==
    ASSUME NEW b \in Seq(Bytes), NEW s \in Seq(Bytes), NEW l \in Nat, l <= Len(s)
    PROVE  \E d \in Seq(Bytes) :
            /\ d = b \o SubSeq(s, l + 1, Len(s))
            /\ Len(d) = Len(b) + (Len(s) - l)
            /\ \A i \in 1..Len(b) : d[i] = b[i]
            /\ \A k \in (l + 1)..Len(s) : d[Len(b) + (k - l)] = s[k]
<1>n. PICK n \in Nat, m \in Nat : n = Len(s) /\ m = Len(b)
  OBVIOUS
<1>r. PICK r : r = SubSeq(s, l + 1, n)
  OBVIOUS
<1>1. r \in Seq(Bytes) /\ Len(r) = n - l
  BY <1>n, <1>r
<1>2. ASSUME NEW i \in 1..(n - l) PROVE r[i] = s[l + i]
  <2>1. i \in 1..(n - (l + 1) + 1) /\ (l + 1) + i - 1 = l + i
    BY <1>n
  <2>2. r[i] = s[(l + 1) + i - 1]
    BY <1>n, <1>r, <2>1
  <2> QED
    BY <2>1, <2>2
<1>d. PICK d : d = b \o r
  OBVIOUS
<1>3. d \in Seq(Bytes) /\ Len(d) = m + (n - l)
  <2>1. ASSUME NEW u \in Seq(Bytes), NEW v \in Seq(Bytes)
        PROVE  u \o v \in Seq(Bytes) /\ Len(u \o v) = Len(u) + Len(v)
    OBVIOUS
  <2>2. d \in Seq(Bytes) /\ Len(d) = Len(b) + Len(r)
    BY <1>1, <1>d, <2>1
  <2> QED
    BY <1>n, <1>1, <2>2
<1>4. \A i \in 1..m : d[i] = b[i]
  BY <1>n, <1>1, <1>d
<1>5. ASSUME NEW k \in (l + 1)..n PROVE d[m + (k - l)] = s[k]
  <2>1. PICK i \in Nat : i = k - l
    BY <1>n
  <2>2. i \in 1..(n - l) /\ l + i = k
    BY <1>n, <2>1
  <2>3. r[i] = s[k]
    BY <1>2, <2>2
  <2>4. m + i \in 1..(m + (n - l)) /\ ~(m + i <= m) /\ (m + i) - m = i
    BY <1>n, <2>2
  <2>5. d[m + i] = r[i]
    <3>1. ASSUME NEW j \in 1..(Len(b) + Len(r)), j > Len(b) PROVE d[j] = r[j - Len(b)]
      BY <1>1, <1>d, <3>1
    <3>2. m + i \in 1..(Len(b) + Len(r)) /\ m + i > Len(b) /\ (m + i) - Len(b) = i
      BY <1>n, <1>1, <2>2, <2>4
    <3> QED
      BY <3>1, <3>2
  <2> QED
    BY <2>1, <2>3, <2>5
<1> QED
  BY <1>n, <1>r, <1>d, <1>3, <1>4, <1>5

(* What the server is due, byte by byte.                                   *)
LEMMA DueBytes ==
    ASSUME FirstByteFirst, NEW f, Started(f)
    PROVE  /\ f[1] \in Seq(Bytes) /\ Len(f[1]) \in Nat /\ Len(f[1]) <= 1 /\ Len(f[2]) \in Nat
           /\ Len(ClientStream) \in Nat /\ Len(ClientStream) > 0
           /\ Inserted(f) \in Int /\ Inserted(f) = Len(f[2]) - Len(f[1])
           /\ Due(f) \in Seq(Bytes)
           /\ Len(Due(f)) = Len(ClientStream) + Inserted(f)
           /\ \A i \in 1..Len(f[2]) : Due(f)[i] = f[2][i]
           /\ \A k \in (Len(f[1]) + 1)..Len(ClientStream) :
                Due(f)[k + Inserted(f)] = ClientStream[k]
           /\ Len(f[1]) = 1 => f[1] = <<ClientStream[1]>>
<1>s. PICK s \in Seq(Bytes) : s = ClientStream
  BY NetAssumption
<1>n. PICK n \in Nat : n = Len(s) /\ n > 0
  <2>1. Len(s) \in Nat /\ (Len(s) = 0 => s = << >>)
    OBVIOUS
  <2> QED
    BY <1>s, <2>1 DEF FirstByteFirst
<1>b. PICK b \in Seq(Bytes) : b = f[2]
  BY DEF Started
<1>1. /\ f[1] \in Seq(Bytes) /\ Len(f[1]) \in Nat /\ Len(f[1]) <= 1
      /\ Len(f[1]) = 1 => f[1] = <<s[1]>>
  <2>1. CASE f[1] = << >>
    BY <2>1
  <2>2. CASE f[1] = <<s[1]>>
    <3>1. s[1] \in Bytes
      BY <1>n
    <3>2. <<s[1]>> \in Seq(Bytes) /\ Len(<<s[1]>>) = 1
      BY <3>1
    <3> QED
      BY <2>2, <3>2
  <2> QED
    BY <1>s, <2>1, <2>2 DEF Started
<1>l. PICK la \in Nat, lb \in Nat : la = Len(f[1]) /\ lb = Len(b) /\ la <= 1 /\ la <= n
  BY <1>n, <1>1
<1>d. PICK d \in Seq(Bytes) : /\ d = b \o SubSeq(s, la + 1, Len(s))
                              /\ Len(d) = Len(b) + (Len(s) - la)
                              /\ \A i \in 1..Len(b) : d[i] = b[i]
                              /\ \A k \in (la + 1)..Len(s) : d[Len(b) + (k - la)] = s[k]
  <2>1. la <= Len(s)
    BY <1>n, <1>l
  <2> QED
    BY <2>1, JoinedRest
<1>2. Due(f) = d
  BY <1>s, <1>b, <1>l, <1>d DEF Due
<1>3. ASSUME NEW k \in (la + 1)..n PROVE d[k + (lb - la)] = s[k]
  <2>1. lb + (k - la) = k + (lb - la)
    BY <1>n, <1>l
  <2>2. d[lb + (k - la)] = s[k]
    BY <1>n, <1>l, <1>d
  <2> QED
    BY <2>1, <2>2
<1>4. Inserted(f) = lb - la /\ lb - la \in Int
  BY <1>b, <1>l DEF Inserted
<1>5. Len(d) = n + (lb - la)
  <2>1. Len(d) = lb + (n - la)
    BY <1>n, <1>l, <1>d
  <2> QED
    BY <1>n, <1>l, <2>1
<1>6. /\ Due(f) \in Seq(Bytes) /\ Len(Due(f)) = Len(ClientStream) + Inserted(f)
      /\ Len(ClientStream) \in Nat /\ Len(ClientStream) > 0
  BY <1>s, <1>n, <1>2, <1>4, <1>5
<1>7. \A i \in 1..Len(f[2]) : Due(f)[i] = f[2][i]
  BY <1>b, <1>d, <1>2
<1>8. \A k \in (Len(f[1]) + 1)..Len(ClientStream) : Due(f)[k + Inserted(f)] = ClientStream[k]
  <2>1. Len(f[1]) = la /\ Len(ClientStream) = n
    BY <1>s, <1>n, <1>l
  <2> QED
    BY <1>s, <1>2, <1>3, <1>4, <2>1
<1> QED
  BY <1>s, <1>b, <1>1, <1>l, <1>4, <1>6, <1>7, <1>8

(* What the client sends, at any time and early.                           *)
LEMMA ClientUnitsSent ==
    ASSUME FirstByteFirst, NEW e \in Endpoint, e.isn = ClientISN, e.stream = ClientStream,
           NEW k \in Nat
    PROVE  /\ OfStream(Unit(e, k)) /\ OfStream(PureAck(e))
           /\ k <= 1 => EarlyOfClient(Unit(e, k))
           /\ e.nxt = 1 \/ f_select_server(<< >>) = {} => EarlyOfClient(PureAck(e))
<1>1. /\ DOMAIN ClientStream = 1..Len(ClientStream) /\ Len(ClientStream) \in Nat
      /\ Len(ClientStream) > 0
  <2>1. PICK s \in Seq(Bytes) : s = ClientStream
    BY NetAssumption
  <2>2. Len(s) \in Nat /\ (Len(s) = 0 => s = << >>) /\ DOMAIN s = 1..Len(s)
    OBVIOUS
  <2> QED
    BY <2>1, <2>2 DEF FirstByteFirst
<1>2. wrapping_add(ClientISN, 0) = ClientISN
  BY NetAssumption, SeqAssumption DEF Seqns, wrapping_add
<1>u. PICK u : u = Unit(e, k)
  OBVIOUS
<1>3. /\ u.syn <=> k = 0
      /\ u.fin <=> k = Len(ClientStream) + 1
      /\ u.seq = wrapping_add(ClientISN, k)
      /\ u.data = IF k \in DOMAIN ClientStream THEN <<ClientStream[k]>> ELSE << >>
  BY <1>u DEF Unit, Fin
<1>4. /\ u.data # << >> => k \in 1..Len(ClientStream)
      /\ k \in 1..Len(ClientStream) => u.data = <<ClientStream[k]>>
      /\ k \notin 1..Len(ClientStream) => u.data = << >>
  BY <1>1, <1>3
<1>5. OfStream(u)
  <2>1. u.syn => u.seq = ClientISN /\ ~u.fin /\ u.data = << >>
    BY <1>1, <1>2, <1>3, <1>4
  <2>2. u.fin => u.data = << >> /\ u.seq = wrapping_add(ClientISN, Len(ClientStream) + 1)
    BY <1>1, <1>3, <1>4
  <2> QED
    BY <1>3, <1>4, <2>1, <2>2 DEF OfStream
<1>6. k <= 1 => EarlyOfClient(u)
  <2>1. ASSUME k <= 1 PROVE ~u.fin /\ (~u.syn => k = 1)
    BY <1>1, <1>3, <2>1
  <2>2. 1 \in 1..Len(ClientStream)
    BY <1>1
  <2> QED
    BY <1>3, <1>4, <2>1, <2>2 DEF EarlyOfClient
<1>7. /\ PureAck(e).syn = FALSE /\ PureAck(e).fin = FALSE /\ PureAck(e).data = << >>
      /\ PureAck(e).seq = wrapping_add(ClientISN, e.nxt)
  BY DEF PureAck
<1>8. OfStream(PureAck(e))
  BY <1>7 DEF OfStream
<1>9. e.nxt = 1 \/ f_select_server(<< >>) = {} => EarlyOfClient(PureAck(e))
  BY <1>7 DEF EarlyOfClient
<1> QED
  BY <1>u, <1>5, <1>6, <1>8, <1>9

(* The acknowledgment of a segment changes nothing else.                   *)
LEMMA AckedKeeps ==
    ASSUME NEW e, Sound(e), NEW seg
    PROVE  LET a == Acked(e, seg)
           IN  /\ a \in Endpoint /\ a.got = e.got /\ a.irs = e.irs /\ a.rcvd = e.rcvd
               /\ a.ended = e.ended /\ a.nxt = e.nxt
               /\ a.una = e.una \/ (seg.ack /\ a.una = wrapping_sub(seg.ackn, e.isn))
               /\ e.una <= a.una
<1>a. PICK a : a = Acked(e, seg)
  OBVIOUS
<1>1. e \in Endpoint /\ e.una \in Nat /\ e.nxt \in Nat
  BY DEF Sound, Endpoint
<1>n. PICK n : n = wrapping_sub(seg.ackn, e.isn)
  OBVIOUS
<1>2. CASE seg.ack /\ n \in (e.una + 1)..e.nxt
  <2>1. n \in Nat /\ e.una <= n /\ a = [e EXCEPT !.una = n]
    BY <1>a, <1>n, <1>1, <1>2 DEF Acked
  <2>2. /\ a \in Endpoint /\ a.got = e.got /\ a.irs = e.irs /\ a.rcvd = e.rcvd
        /\ a.ended = e.ended /\ a.nxt = e.nxt /\ a.una = n
    BY <1>1, <2>1 DEF Endpoint
  <2> QED
    BY <1>a, <1>n, <1>2, <2>1, <2>2
<1>3. CASE ~(seg.ack /\ n \in (e.una + 1)..e.nxt)
  <2>1. a = e
    BY <1>a, <1>n, <1>3 DEF Acked
  <2> QED
    BY <1>1, <1>a, <2>1
<1> QED
  BY <1>2, <1>3

(* The client receives the SYN-ACK of the proxy, perhaps again.            *)
LEMMA EarlyClientReceives ==
    ASSUME FirstByteFirst, NEW e, Sound(e), EarlyClient(e), e.isn = ClientISN,
           e.stream = ClientStream, NEW seg \in Segments, seg.syn,
           seg.ackn = wrapping_add(ClientISN, 1)
    PROVE  /\ EarlyClient(ReceivedBy(e, seg))
           /\ \A ack \in Answer(e, ReceivedBy(e, seg), seg) : EarlyOfClient(ack)
<1>a. PICK a : a = Acked(e, seg)
  OBVIOUS
<1>1. /\ a \in Endpoint /\ a.got = e.got /\ a.nxt = e.nxt
      /\ a.una = e.una \/ a.una = wrapping_sub(seg.ackn, e.isn)
  BY <1>a, AckedKeeps
<1>2. wrapping_sub(seg.ackn, e.isn) = 1
  <2>1. ClientISN \in Seqns /\ ClientISN \in Int /\ wrapping_add(ClientISN, 0) = ClientISN
    BY NetAssumption, SeqAssumption DEF Seqns, wrapping_add
  <2>2. 1 - 0 < SeqMod
    BY SeqAssumption
  <2>3. wrapping_sub(wrapping_add(ClientISN, 1), wrapping_add(ClientISN, 0)) = 1 - 0
    BY <2>1, <2>2, Distance
  <2> QED
    BY <2>1, <2>3
<1>3. e.una \in Nat /\ e.nxt \in Nat /\ e.got \in Nat
  BY DEF Sound, Endpoint
<1>r. PICK r : r = ReceivedBy(e, seg)
  OBVIOUS
<1>4. /\ r \in Endpoint /\ r.una = a.una /\ r.nxt = e.nxt /\ r.got > 0
      /\ r.got = IF e.got = 0 THEN 1 ELSE e.got
  <2>1. CASE e.got = 0
    <3>1. r = [a EXCEPT !.irs = seg.seq, !.got = 1]
      BY <1>a, <1>r, <2>1 DEF ReceivedBy, Opened
    <3>2. seg.seq \in Seqns /\ 1 \in Nat /\ 1 > 0
      BY DEF Segments
    <3>3. r \in Endpoint /\ r.una = a.una /\ r.nxt = a.nxt /\ r.got = 1
      BY <1>1, <3>1, <3>2 DEF Endpoint
    <3> QED
      BY <1>1, <2>1, <3>2, <3>3
  <2>2. CASE e.got # 0
    <3>1. r = a
      BY <1>a, <1>r, <2>2 DEF ReceivedBy, Taken
    <3> QED
      BY <1>1, <1>3, <2>2, <3>1
  <2> QED
    BY <2>1, <2>2
<1>5. EarlyClient(r)
  BY <1>1, <1>2, <1>3, <1>4 DEF EarlyClient
<1>6. ASSUME NEW ack \in Answer(e, r, seg) PROVE EarlyOfClient(ack)
  <2>1. ack = PureAck(r) /\ r.nxt > 0 /\ (Persistent => r.got > e.got)
    BY <1>6 DEF Answer
  <2>2. CASE f_select_server(<< >>) = {}
    <3>1. r.isn = ClientISN /\ r.stream = ClientStream
      BY <1>r, ReceivedSound
    <3> QED
      BY <1>4, <2>1, <2>2, <3>1, ClientUnitsSent
  <2>3. CASE Persistent
    <3>1. e.got = 0 /\ e.una = 0
      BY <1>3, <1>4, <2>1, <2>3 DEF EarlyClient
    <3>2. r.nxt = 1
      BY <1>3, <1>4, <2>1, <3>1 DEF EarlyClient
    <3>3. r.isn = ClientISN /\ r.stream = ClientStream
      BY <1>r, ReceivedSound
    <3> QED
      BY <1>4, <2>1, <3>2, <3>3, ClientUnitsSent
  <2> QED
    BY <2>2, <2>3 DEF FirstByteFirst
<1> QED
  BY <1>r, <1>5, <1>6

(* The server receives the SYN of the proxy, perhaps again.                *)
LEMMA EarlyServerReceives ==
    ASSUME NEW e, Sound(e), EarlyServer(e), NEW seg \in Segments,
           seg.syn, ~seg.ack, seg.seq = ClientISN
    PROVE  LET r == ReceivedBy(e, seg)
           IN  /\ EarlyServer(r) /\ r.got = 1
               /\ \A ack \in Answer(e, r, seg) : ~ack.fin /\ ack.data = << >>
<1>1. Acked(e, seg) = e
  BY DEF Acked
<1>2. e \in Endpoint /\ e.got \in Nat /\ e.una \in Nat /\ e.nxt \in Nat
  BY DEF Sound, Endpoint
<1>r. PICK r : r = ReceivedBy(e, seg)
  OBVIOUS
<1>3. EarlyServer(r) /\ r.got = 1
  <2>1. CASE e.got = 0
    <3>1. r = [e EXCEPT !.irs = seg.seq, !.got = 1]
      BY <1>1, <1>r, <2>1 DEF ReceivedBy, Opened
    <3>2. /\ r.got = 1 /\ r.irs = ClientISN /\ r.rcvd = e.rcvd /\ r.ended = e.ended
          /\ r.una = e.una /\ r.nxt = e.nxt
      BY <1>2, <3>1 DEF Endpoint
    <3> QED
      BY <1>2, <2>1, <3>2 DEF EarlyServer
  <2>2. CASE e.got # 0
    <3>1. r = e
      BY <1>1, <1>r, <2>2 DEF ReceivedBy, Taken
    <3> QED
      BY <1>2, <2>2, <3>1 DEF EarlyServer
  <2> QED
    BY <2>1, <2>2
<1>4. PureAck(r).fin = FALSE /\ PureAck(r).data = << >>
  BY DEF PureAck
<1>5. \A ack \in Answer(e, r, seg) : ~ack.fin /\ ack.data = << >>
  BY <1>4 DEF Answer
<1> QED
  BY <1>r, <1>3, <1>5

(* What the server makes of a packet that may be on its way to it.         *)
LEMMA ServerTakes ==
    ASSUME FirstByteFirst, NEW f, Started(f), NEW e, Sound(e), ServerHas(e, f),
           NEW seg \in Segments, ForServer(seg, f)
    PROVE  ServerHas(ReceivedBy(e, seg), f)
<1>a. PICK a : a = Acked(e, seg)
  OBVIOUS
<1>1. /\ a \in Endpoint /\ a.got = e.got /\ a.irs = e.irs /\ a.rcvd = e.rcvd
      /\ a.ended = e.ended
  BY <1>a, AckedKeeps
<1>n. PICK n \in Nat, la \in Nat, lb \in Nat, ins \in Int, due2 \in Seq(Bytes) :
        /\ n = Len(ClientStream) /\ la = Len(f[1]) /\ lb = Len(f[2]) /\ ins = Inserted(f)
        /\ due2 = Due(f) /\ n > 0 /\ la <= 1 /\ ins = lb - la /\ Len(due2) = n + ins
  <2>1. /\ Len(ClientStream) \in Nat /\ Len(f[1]) \in Nat /\ Len(f[2]) \in Nat
        /\ Inserted(f) \in Int /\ Due(f) \in Seq(Bytes)
        /\ Len(ClientStream) > 0 /\ Len(f[1]) <= 1 /\ Inserted(f) = Len(f[2]) - Len(f[1])
        /\ Len(Due(f)) = Len(ClientStream) + Inserted(f)
    BY DueBytes
  <2> QED
    BY <2>1
<1>c. SeqMod \in Nat /\ n > 0 /\ la <= 1 /\ ins = lb - la /\ lb + n + 2 < SeqMod
  BY <1>n, SeqAssumption DEF Started
<1>2. /\ \A i \in 1..lb : due2[i] = f[2][i]
      /\ \A k \in (la + 1)..n : due2[k + ins] = ClientStream[k]
      /\ la = 1 => f[1] = <<ClientStream[1]>>
      /\ f[2] \in Seq(Bytes) /\ (la = lb => f[1] = f[2])
  <2>1. /\ \A i \in 1..Len(f[2]) : Due(f)[i] = f[2][i]
        /\ \A k \in (Len(f[1]) + 1)..Len(ClientStream) :
                Due(f)[k + Inserted(f)] = ClientStream[k]
        /\ Len(f[1]) = 1 => f[1] = <<ClientStream[1]>>
    BY DueBytes
  <2>2. f[2] \in Seq(Bytes) /\ (Len(f[1]) = Len(f[2]) => f[1] = f[2])
    BY DEF Started
  <2>3. /\ n = Len(ClientStream) /\ la = Len(f[1]) /\ lb = Len(f[2]) /\ ins = Inserted(f)
        /\ due2 = Due(f)
    BY <1>n
  <2> QED
    BY <2>1, <2>2, <2>3
<1>3. /\ e.got \in Nat /\ e.got > 0 /\ e.irs = ClientISN /\ e.rcvd \in Seq(Bytes)
      /\ Seqs!IsPrefix(e.rcvd, due2)
      /\ e.rcvd = << >> \/ Len(e.rcvd) >= lb
      /\ ~e.ended => e.got = Len(e.rcvd) + 1
      /\ e.ended => e.got = Len(e.rcvd) + 2 /\ Len(e.rcvd) = Len(due2)
  BY <1>n DEF ServerHas, Sound, Endpoint
<1>l. PICK l \in Nat : l = Len(e.rcvd) /\ l <= n + ins /\ (l = 0 \/ l >= lb)
  <2>1. Len(e.rcvd) \in Nat /\ Len(e.rcvd) <= Len(due2)
    BY <1>3, PrefixByByte
  <2>2. Len(<< >>) = 0
    OBVIOUS
  <2>3. Len(e.rcvd) = 0 \/ Len(e.rcvd) >= lb
    BY <1>3, <2>2
  <2> QED
    BY <1>n, <2>1, <2>3
<1>4. ASSUME NEW x, x.got = e.got, x.irs = e.irs, x.rcvd = e.rcvd, x.ended = e.ended
      PROVE  ServerHas(x, f)
  BY <1>4 DEF ServerHas
<1>5. ReceivedBy(e, seg) = Taken(a, seg)
  BY <1>3, <1>a DEF ReceivedBy
<1>o. PICK old : old = wrapping_sub(wrapping_add(ClientISN, e.got), seg.seq)
  OBVIOUS
<1>6. /\ seg.seq \in Seqns /\ ClientISN \in Int /\ wrapping_add(ClientISN, e.got) \in Seqns
      /\ old \in Nat
  <2>1. seg.seq \in Seqns /\ ClientISN \in Seqns
    BY NetAssumption DEF Segments
  <2>2. ClientISN \in Int /\ seg.seq \in Int /\ e.got \in Int
    BY <1>3, <2>1, SeqAssumption DEF Seqns
  <2>3. wrapping_add(ClientISN, e.got) \in Seqns
    BY <2>2, WrappingType
  <2>4. wrapping_add(ClientISN, e.got) \in Int
    BY <2>3, SeqAssumption DEF Seqns
  <2>5. old \in Seqns
    BY <1>o, <2>2, <2>4, WrappingType
  <2>6. old \in Nat
    BY <2>5, SeqAssumption DEF Seqns
  <2> QED
    BY <2>1, <2>2, <2>3, <2>6
<1>7. CASE ~(~seg.syn /\ ~e.ended /\ old < Size(seg))
  <2>1. Taken(a, seg) = a
    BY <1>1, <1>3, <1>o, <1>7 DEF Taken
  <2> QED
    BY <1>1, <1>4, <1>5, <2>1
<1>8. CASE ~seg.syn /\ ~e.ended /\ old < Size(seg)
  <2>g. PICK g : g = a.got + Size(seg) - old
    OBVIOUS
  <2>r. PICK r : r = a.rcvd \o SubSeq(seg.data, old + 1, Len(seg.data))
    OBVIOUS
  <2>d. PICK d : d = [a EXCEPT !.got = g, !.ended = seg.fin, !.rcvd = r]
    OBVIOUS
  <2>1. ReceivedBy(e, seg) = d
    BY <1>1, <1>3, <1>5, <1>o, <1>8, <2>g, <2>r, <2>d DEF Taken
  <2>2. d.got = g /\ d.ended = seg.fin /\ d.rcvd = r /\ d.irs = ClientISN
    BY <1>1, <1>3, <2>d DEF Endpoint
  <2>3. ASSUME g \in Nat, g > 0, Seqs!IsPrefix(r, due2), r = << >> \/ Len(r) >= lb,
               ~seg.fin => g = Len(r) + 1, seg.fin => g = Len(r) + 2 /\ Len(r) = Len(due2)
        PROVE  ServerHas(d, f)
    BY <1>n, <2>2, <2>3 DEF ServerHas
  <2>4. e.got = l + 1 /\ seg.data \in Seq(Bytes)
    BY <1>3, <1>l, <1>8 DEF Segments
  <2>5. ASSUME seg.data = << >>, ~seg.fin PROVE FALSE
    <3>1. Size(seg) = 0
      BY <1>8, <2>5 DEF Size
    <3> QED
      BY <1>6, <1>8, <3>1
  <2>6. ASSUME NEW j \in Int, seg.seq = wrapping_add(ClientISN, j), Size(seg) = 1,
               0 <= j, j <= n + ins + 1
        PROVE  old = 0 /\ j = l + 1
    <3>1. old = 0
      BY <1>6, <1>8, <2>6
    <3>2. wrapping_add(ClientISN, e.got) = wrapping_add(ClientISN, j)
      BY <1>o, <1>6, <2>6, <3>1, NoDistance
    <3>3. l + 1 - j < SeqMod /\ j - (l + 1) < SeqMod
      <4>1. l <= n + ins
        BY <1>l
      <4> QED
        BY <1>c, <2>6, <4>1
    <3>4. l + 1 = j
      BY <1>6, <2>4, <2>6, <3>2, <3>3, WrappingInjective
    <3> QED
      BY <3>1, <3>4
  <2>7. CASE seg.data = f[2] /\ ~seg.fin /\ seg.seq = wrapping_add(ClientISN, 1)
    <3>1. Size(seg) = lb
      BY <1>n, <1>2, <1>8, <2>7 DEF Size
    <3>2. old = l
      <4>1. 0 <= (l + 1) - 1 /\ (l + 1) - 1 < SeqMod /\ (l + 1) - 1 = l
        BY <1>c, <1>l
      <4> QED
        BY <1>6, <1>o, <2>4, <2>7, <4>1, Distance
    <3>3. l = 0 /\ old = 0
      BY <1>l, <1>8, <3>1, <3>2
    <3>4. g = lb + 1
      BY <1>1, <1>3, <2>4, <2>g, <3>1, <3>3
    <3>5. r = f[2]
      <4>0. ASSUME NEW s \in Seq(Bytes), Len(s) = 0 PROVE s = << >>
        BY <4>0
      <4>1. e.rcvd = << >>
        BY <1>3, <1>l, <3>3, <4>0
      <4>2. ASSUME NEW s \in Seq(Bytes) PROVE << >> \o SubSeq(s, 1, Len(s)) = s
        OBVIOUS
      <4>3. old + 1 = 1
        BY <3>3
      <4> QED
        BY <1>1, <1>2, <2>7, <2>r, <4>1, <4>2, <4>3
    <3>6. Seqs!IsPrefix(r, due2)
      <4>1. lb <= Len(due2)
        BY <1>n
      <4> QED
        BY <1>n, <1>2, <3>5, <4>1, PrefixByByte
    <3>8. Len(r) = lb
      BY <1>n, <3>5
    <3>7. g \in Nat /\ g > 0 /\ g = Len(r) + 1 /\ Len(r) >= lb
      BY <3>4, <3>8
    <3> QED
      BY <2>1, <2>3, <2>7, <3>6, <3>7
  <2>8. ASSUME NEW k \in 1..n, ~seg.fin, seg.data = <<ClientStream[k]>>,
               seg.seq = wrapping_add(ClientISN, k + ins)
        PROVE  ServerHas(d, f)
    <3>1. Len(seg.data) = 1 /\ Size(seg) = 1
      <4>1. Len(seg.data) = 1
        BY <2>8
      <4> QED
        BY <1>8, <2>8, <4>1 DEF Size
    <3>2. old = 0 /\ k + ins = l + 1
      <4>1. k + ins \in Int /\ 0 <= k + ins /\ k + ins <= n + ins + 1
        BY <1>c
      <4> QED
        BY <2>6, <2>8, <3>1, <4>1
    <3>3. g = l + 2
      BY <2>4, <1>1, <2>g, <3>1, <3>2
    <3>4. r = e.rcvd \o <<ClientStream[k]>>
      <4>1. ASSUME NEW s \in Seq(Bytes), Len(s) = 1 PROVE SubSeq(s, 1, 1) = s
        BY <4>1
      <4>2. old + 1 = 1
        BY <3>2
      <4> QED
        BY <1>1, <2>4, <2>8, <2>r, <3>1, <4>1, <4>2
    <3>5. ClientStream[k] = due2[l + 1] /\ l < n + ins /\ l + 1 >= lb
      <4>1. CASE k >= la + 1
        <5>1. k \in (la + 1)..n /\ l + 1 >= lb /\ l < n + ins
          BY <1>c, <3>2, <4>1
        <5> QED
          BY <1>2, <3>2, <5>1
      <4>2. CASE k < la + 1
        <5>1. k = 1 /\ la = 1
          BY <1>c, <4>2
        <5>2. lb = l + 1 /\ lb = 1
          <6>1. l + 1 = lb
            BY <1>c, <3>2, <5>1
          <6>2. l = 0 \/ l >= lb
            BY <1>l
          <6> QED
            BY <6>1, <6>2
        <5>3. f[2] = <<ClientStream[1]>> /\ 1 \in 1..lb
          BY <1>2, <5>1, <5>2
        <5>4. f[2][1] = ClientStream[1]
          BY <5>3
        <5> QED
          BY <1>c, <1>2, <5>1, <5>2, <5>3, <5>4
      <4> QED
        BY <1>c, <4>1, <4>2
    <3>6. r = e.rcvd \o <<due2[Len(e.rcvd) + 1]>>
      BY <1>l, <3>4, <3>5
    <3>7. Len(e.rcvd) < Len(due2)
      BY <1>n, <1>l, <3>5
    <3>8. Len(r) = l + 1 /\ Seqs!IsPrefix(r, due2)
      BY <1>3, <1>l, <3>6, <3>7, PrefixGrows
    <3>9. g \in Nat /\ g > 0 /\ g = Len(r) + 1 /\ Len(r) >= lb
      BY <3>3, <3>5, <3>8
    <3> QED
      BY <2>3, <2>8, <3>8, <3>9
  <2>9. CASE seg.fin /\ seg.data = << >> /\ seg.seq = wrapping_add(ClientISN, n + 1 + ins)
    <3>1. Len(<< >>) = 0
      OBVIOUS
    <3>2. Len(seg.data) = 0 /\ Size(seg) = 1
      BY <1>8, <2>9, <3>1 DEF Size
    <3>3. old = 0 /\ n + 1 + ins = l + 1
      <4>1. n + 1 + ins \in Int /\ 0 <= n + 1 + ins /\ n + 1 + ins <= n + ins + 1
        BY <1>c
      <4> QED
        BY <2>6, <2>9, <3>2, <4>1
    <3>4. g = l + 2
      BY <2>4, <1>1, <2>g, <3>2, <3>3
    <3>5. r = e.rcvd
      <4>1. SubSeq(<< >>, 1, 0) = << >>
        OBVIOUS
      <4>2. ASSUME NEW s \in Seq(Bytes) PROVE s \o << >> = s
        OBVIOUS
      <4>3. old + 1 = 1
        BY <3>3
      <4>4. r = e.rcvd \o << >>
        BY <1>1, <2>9, <2>r, <3>2, <4>1, <4>3
      <4> QED
        BY <1>3, <4>2, <4>4
    <3>6. Len(r) = l /\ l = Len(due2) /\ l >= lb
      <4>1. Len(r) = l /\ Len(due2) = n + ins
        BY <1>n, <1>l, <3>5
      <4> QED
        BY <1>c, <3>3, <4>1
    <3>7. g \in Nat /\ g > 0 /\ g = Len(r) + 2
      BY <3>4, <3>6
    <3> QED
      BY <1>3, <2>1, <2>3, <2>9, <3>5, <3>6, <3>7
  <2> QED
    BY <1>n, <1>8, <2>1, <2>5, <2>7, <2>8, <2>9 DEF ForServer
<1> QED
  BY <1>7, <1>8

(* What joins the packets of the opening.                                  *)
LEMMA EarlyJoins ==
    ASSUME NEW g \in BOOLEAN, NEW g2 \in BOOLEAN, g => g2, EarlyPackets(net, g), NEW m, NEW packets,
           EarlyPackets(packets, g2),
           net' = net \cup packets \/ net' = Without(m) \cup packets \/ net' = net \ {m}
    PROVE  EarlyPackets(net', g2)
BY DEF EarlyPackets, Without

(* Packets to one place.                                                   *)
LEMMA EarlyTo ==
    ASSUME NEW dst, NEW segs, NEW g,
           dst = "proxy_c" => \A seg \in segs : EarlyOfClient(seg),
           dst = "client" => \A seg \in segs : seg.syn /\ seg.ackn = wrapping_add(ClientISN, 1),
           dst = "server" => \A seg \in segs : seg.syn /\ ~seg.ack /\ seg.seq = ClientISN,
           dst = "proxy_s" => \A seg \in segs : ~seg.fin /\ seg.data = << >> /\ g
    PROVE  EarlyPackets(To(dst, segs), g)
BY DEF EarlyPackets, To

(* The steps of the endpoints and of the network.                          *)
EndpointSteps ==
    \/ ClientSend \/ ServerSend \/ ClientResend \/ ServerResend
    \/ \E m \in net : ClientReceive(m) \/ ServerReceive(m) \/ Lose(m)

(* They leave the proxy alone.                                             *)
LEMMA EndpointsApart == EndpointSteps => UNCHANGED dpVars /\ first' = first
BY DEF EndpointSteps, ClientSend, ServerSend, ClientResend, ServerResend, ClientReceive,
       ServerReceive, Lose

(* The endpoints do not end the opening.                                   *)
LEMMA OpeningStays ==
    ASSUME FirstByteFirst, NetInv, Opening(net, cl, sv), EndpointSteps
    PROVE  Opening(net', cl', sv') /\ (Unheard(net, sv) => Unheard(net', sv'))
<1> DEFINE g == sv.got = 1
<1>1. EarlyPackets(net, g) /\ EarlyClient(cl) /\ EarlyServer(sv) /\ g \in BOOLEAN
  BY DEF Opening
<1>2. /\ cl \in Endpoint /\ sv \in Endpoint /\ Sound(cl) /\ Sound(sv)
      /\ cl.isn = ClientISN /\ cl.stream = ClientStream
      /\ cl.una \in Nat /\ cl.nxt \in Nat /\ cl.got \in Nat /\ cl.una <= cl.nxt
      /\ sv.una \in Nat /\ sv.nxt \in Nat /\ sv.got \in Nat
      /\ sv.stream \in Seq(Bytes)
  BY DEF NetInv, Sound, Endpoint
<1>3. EarlyPackets({}, g)
  BY DEF EarlyPackets
<1>4. /\ Unit(sv, 0).fin = FALSE /\ Unit(sv, 0).data = << >>
  <2>1. DOMAIN sv.stream = 1..Len(sv.stream) /\ Len(sv.stream) \in Nat
    BY <1>2
  <2>2. 0 # Len(sv.stream) + 1 /\ 0 \notin DOMAIN sv.stream
    BY <2>1
  <2> QED
    BY <2>2 DEF Unit, Fin
<1>5. CASE ClientSend
  <2>1. cl.nxt = cl.una /\ cl.nxt <= 1
    BY <1>1, <1>2, <1>5 DEF ClientSend, MaySend, FirstByteFirst, EarlyClient
  <2>2. EarlyPackets(To("proxy_c", {Unit(cl, cl.nxt)}), g)
    BY <1>2, <2>1, ClientUnitsSent, EarlyTo
  <2>3. EarlyPackets(net', g)
    BY <1>1, <1>5, <2>2, EarlyJoins DEF ClientSend
  <2>n. PICK n : n = cl.nxt + 1
    OBVIOUS
  <2>4. cl' = [cl EXCEPT !.nxt = n] /\ sv' = sv
    BY <1>5, <2>n DEF ClientSend
  <2>5. cl'.nxt = cl.una + 1 /\ cl'.una = cl.una /\ cl'.got = cl.got
    BY <1>2, <2>1, <2>n, <2>4 DEF Endpoint
  <2>6. EarlyClient(cl')
    BY <1>1, <1>2, <2>5 DEF EarlyClient
  <2>7. Unheard(net, sv) => Unheard(net', sv')
    BY <1>5, <2>4 DEF ClientSend, Unheard, To
  <2> QED
    BY <1>1, <2>3, <2>4, <2>6, <2>7 DEF Opening
<1>6. CASE ServerSend
  <2>1. sv.nxt = 0 /\ g
    BY <1>1, <1>2, <1>6 DEF ServerSend, MaySend, EarlyServer
  <2>2. EarlyPackets(To("proxy_s", {Unit(sv, sv.nxt)}), g)
    BY <1>4, <2>1 DEF EarlyPackets, To
  <2>3. EarlyPackets(net', g)
    BY <1>1, <1>6, <2>2, EarlyJoins DEF ServerSend
  <2>4. sv' = [sv EXCEPT !.nxt = 1] /\ cl' = cl
    BY <1>6, <2>1 DEF ServerSend
  <2>5. /\ sv'.nxt = 1 /\ sv'.una = sv.una /\ sv'.got = sv.got /\ sv'.rcvd = sv.rcvd
        /\ sv'.ended = sv.ended /\ sv'.irs = sv.irs
    BY <1>2, <2>4 DEF Endpoint
  <2>6. EarlyServer(sv')
    BY <1>1, <1>2, <2>1, <2>5 DEF EarlyServer
  <2>7. ~Unheard(net, sv)
    BY <2>1 DEF Unheard
  <2> QED
    BY <1>1, <2>3, <2>4, <2>5, <2>6, <2>7 DEF Opening
<1>7. CASE ClientResend
  <2>1. cl.una <= 1
    BY <1>1 DEF EarlyClient
  <2>2. EarlyPackets(To("proxy_c", {Unit(cl, cl.una)}), g)
    BY <1>2, <2>1, ClientUnitsSent, EarlyTo
  <2>3. EarlyPackets(net', g) /\ cl' = cl /\ sv' = sv
    BY <1>1, <1>7, <2>2, EarlyJoins DEF ClientResend
  <2>4. Unheard(net, sv) => Unheard(net', sv')
    BY <1>7, <2>3 DEF ClientResend, Unheard, To
  <2> QED
    BY <1>1, <2>3, <2>4 DEF Opening
<1>8. CASE ServerResend
  <2>1. sv.una = 0 /\ g
    BY <1>1, <1>2, <1>8 DEF ServerResend, EarlyServer
  <2>2. EarlyPackets(To("proxy_s", {Unit(sv, sv.una)}), g)
    BY <1>4, <2>1 DEF EarlyPackets, To
  <2>3. EarlyPackets(net', g) /\ cl' = cl /\ sv' = sv
    BY <1>1, <1>8, <2>2, EarlyJoins DEF ServerResend
  <2>4. ~Unheard(net, sv)
    BY <2>1 DEF Unheard
  <2> QED
    BY <1>1, <2>3, <2>4 DEF Opening
<1>9. ASSUME NEW m \in net, ClientReceive(m)
      PROVE  Opening(net', cl', sv') /\ (Unheard(net, sv) => Unheard(net', sv'))
  <2>1. /\ m.seg \in Segments /\ m.seg.syn /\ m.seg.ackn = wrapping_add(ClientISN, 1)
        /\ cl' = ReceivedBy(cl, m.seg) /\ sv' = sv
    BY <1>1, <1>9 DEF ClientReceive, NetInv, InFlight, EarlyPackets
  <2>2. /\ EarlyClient(cl')
        /\ \A ack \in Answer(cl, cl', m.seg) : EarlyOfClient(ack)
    BY <1>1, <1>2, <2>1, EarlyClientReceives
  <2>3. EarlyPackets(To("proxy_c", Answer(cl, cl', m.seg)), g)
    BY <2>2, EarlyTo
  <2>4. EarlyPackets(net', g)
    BY <1>1, <1>9, <2>3, EarlyJoins DEF ClientReceive
  <2>5. Unheard(net, sv) => Unheard(net', sv')
    BY <1>9, <2>1 DEF ClientReceive, Unheard, To, Without
  <2> QED
    BY <1>1, <2>1, <2>2, <2>4, <2>5 DEF Opening
<1>10. ASSUME NEW m \in net, ServerReceive(m)
       PROVE  Opening(net', cl', sv') /\ (Unheard(net, sv) => Unheard(net', sv'))
  <2>1. /\ m.seg \in Segments /\ m.seg.syn /\ ~m.seg.ack /\ m.seg.seq = ClientISN
        /\ sv' = ReceivedBy(sv, m.seg) /\ cl' = cl /\ m.to = "server"
    BY <1>1, <1>10 DEF ServerReceive, NetInv, InFlight, EarlyPackets
  <2>2. /\ EarlyServer(sv') /\ sv'.got = 1
        /\ \A ack \in Answer(sv, sv', m.seg) : ~ack.fin /\ ack.data = << >>
    BY <1>1, <1>2, <2>1, EarlyServerReceives
  <2>3. EarlyPackets(To("proxy_s", Answer(sv, sv', m.seg)), TRUE)
    BY <2>2 DEF EarlyPackets, To
  <2>4. EarlyPackets(net', TRUE)
    BY <1>1, <1>10, <2>3, EarlyJoins DEF ServerReceive
  <2>5. ~Unheard(net, sv)
    BY <2>1 DEF Unheard
  <2> QED
    BY <1>1, <2>1, <2>2, <2>4, <2>5 DEF Opening
<1>11. ASSUME NEW m \in net, Lose(m)
       PROVE  Opening(net', cl', sv') /\ (Unheard(net, sv) => Unheard(net', sv'))
  <2>1. EarlyPackets(net', g) /\ cl' = cl /\ sv' = sv
    BY <1>1, <1>3, <1>11, EarlyJoins DEF Lose
  <2>2. Unheard(net, sv) => Unheard(net', sv')
    BY <1>11, <2>1 DEF Lose, Unheard
  <2> QED
    BY <1>1, <2>1, <2>2 DEF Opening
<1> QED
  BY <1>5, <1>6, <1>7, <1>8, <1>9, <1>10, <1>11 DEF EndpointSteps

(* What the endpoints do once the proxy passes packets on.                 *)
LEMMA ConnectedStays ==
    ASSUME FirstByteFirst, NetInv, NEW f, Started(f), PacketsForServer(net, f), ServerHas(sv, f),
           EndpointSteps
    PROVE  PacketsForServer(net', f) /\ ServerHas(sv', f)
<1>1. sv \in Endpoint /\ Sound(sv)
  BY DEF NetInv, Sound
<1>2. ASSUME NEW dst, dst # "server", NEW segs, NEW m,
             net' = net \cup To(dst, segs) \/ net' = Without(m) \cup To(dst, segs)
      PROVE  PacketsForServer(net', f)
  BY <1>2 DEF PacketsForServer, To, Without
<1>3. CASE ServerSend
  <2>n. PICK n : n = sv.nxt + 1
    OBVIOUS
  <2>1. sv' = [sv EXCEPT !.nxt = n]
    BY <1>3, <2>n DEF ServerSend
  <2>2. /\ sv'.got = sv.got /\ sv'.irs = sv.irs /\ sv'.rcvd = sv.rcvd /\ sv'.ended = sv.ended
    BY <1>1, <2>1 DEF Endpoint
  <2>3. ServerHas(sv', f)
    BY <2>2 DEF ServerHas
  <2> QED
    BY <1>2, <1>3, <2>3 DEF ServerSend
<1>4. CASE ClientSend \/ ClientResend \/ ServerResend
  <2>1. sv' = sv
    BY <1>4 DEF ClientSend, ClientResend, ServerResend
  <2>2. PacketsForServer(net', f)
    BY <1>2, <1>4 DEF ClientSend, ClientResend, ServerResend
  <2> QED
    BY <2>1, <2>2
<1>5. ASSUME NEW m \in net, ClientReceive(m) \/ Lose(m)
      PROVE  PacketsForServer(net', f) /\ ServerHas(sv', f)
  <2>1. sv' = sv
    BY <1>5 DEF ClientReceive, Lose
  <2>2. CASE ClientReceive(m)
    BY <1>2, <2>1, <2>2 DEF ClientReceive
  <2>3. CASE Lose(m)
    BY <2>1, <2>3 DEF Lose, PacketsForServer
  <2> QED
    BY <1>5, <2>2, <2>3
<1>6. ASSUME NEW m \in net, ServerReceive(m)
      PROVE  PacketsForServer(net', f) /\ ServerHas(sv', f)
  <2>1. m.seg \in Segments /\ ForServer(m.seg, f) /\ sv' = ReceivedBy(sv, m.seg)
    BY <1>6 DEF ServerReceive, NetInv, InFlight, PacketsForServer
  <2>2. ServerHas(sv', f)
    BY <1>1, <2>1, ServerTakes
  <2> QED
    BY <1>2, <1>6, <2>2 DEF ServerReceive
<1> QED
  BY <1>3, <1>4, <1>5, <1>6 DEF EndpointSteps

(* What the client sends is always of its stream.                          *)
LEMMA StreamStays ==
    ASSUME FirstByteFirst, NetInv, PacketsOfStream(net),
           EndpointSteps \/ \E m \in net : ProxyReceive(m)
    PROVE  PacketsOfStream(net')
<1>1. /\ cl \in Endpoint /\ Sound(cl) /\ cl.isn = ClientISN /\ cl.stream = ClientStream
      /\ cl.una \in Nat /\ cl.nxt \in Nat
  BY DEF NetInv, Sound, Endpoint
<1>2. ASSUME NEW dst, NEW segs, NEW m, dst # "proxy_c" \/ \A seg \in segs : OfStream(seg),
             \/ net' = net \cup To(dst, segs) \/ net' = Without(m) \cup To(dst, segs)
      PROVE  PacketsOfStream(net')
  BY <1>2 DEF PacketsOfStream, To, Without
<1>3. CASE ClientSend
  <2>1. OfStream(Unit(cl, cl.nxt))
    BY <1>1, ClientUnitsSent
  <2> QED
    BY <1>3, <2>1 DEF ClientSend, PacketsOfStream, To
<1>4. CASE ClientResend
  <2>1. OfStream(Unit(cl, cl.una))
    BY <1>1, ClientUnitsSent
  <2> QED
    BY <1>4, <2>1 DEF ClientResend, PacketsOfStream, To
<1>5. CASE ServerSend \/ ServerResend
  BY <1>2, <1>5 DEF ServerSend, ServerResend
<1>6. ASSUME NEW m \in net, ClientReceive(m) PROVE PacketsOfStream(net')
  <2>1. cl' = ReceivedBy(cl, m.seg) /\ m.seg \in Segments
    BY <1>6 DEF ClientReceive, NetInv, InFlight
  <2>2. cl' \in Endpoint /\ cl'.isn = ClientISN /\ cl'.stream = ClientStream /\ 0 \in Nat
    BY <1>1, <2>1, ReceivedSound DEF Sound
  <2>3. OfStream(PureAck(cl'))
    BY <2>2, ClientUnitsSent
  <2>4. \A seg \in Answer(cl, cl', m.seg) : OfStream(seg)
    BY <2>3 DEF Answer
  <2> QED
    BY <1>2, <1>6, <2>4 DEF ClientReceive
<1>7. ASSUME NEW m \in net, ServerReceive(m) PROVE PacketsOfStream(net')
  BY <1>2, <1>7 DEF ServerReceive
<1>8. ASSUME NEW m \in net, Lose(m) PROVE PacketsOfStream(net')
  BY <1>8 DEF Lose, PacketsOfStream
<1>9. ASSUME NEW m \in net, ProxyReceive(m) PROVE PacketsOfStream(net')
  <2>1. \A x \in Emitted(out') : x.to \in {"client", "server"}
    BY DEF Emitted, To
  <2> QED
    BY <1>9, <2>1 DEF ProxyReceive, PacketsOfStream, Without
<1> QED
  BY <1>3, <1>4, <1>5, <1>6, <1>7, <1>8, <1>9 DEF EndpointSteps

(* The phases after a step.                                                *)
LEMMA PhasesAfter ==
    /\ /\ first' = << >> /\ Opening(net', cl', sv') /\ Unheard(net', sv')
       /\ InUse(ThePort)' => tcp'[ThePort].server_state = Listen
       => Unbound'
    /\ /\ first' # << >> /\ Started(first') /\ Opening(net', cl', sv')
       /\ InUse(ThePort)' => Awaits(tcp'[ThePort], first')
       => Binding'
    /\ /\ first' # << >> /\ Started(first') /\ PacketsForServer(net', first')
       /\ ServerHas(sv', first') /\ (InUse(ThePort)' => Passes(tcp'[ThePort], first'))
       => Connected'
<1>1. /\ first' = << >> /\ Opening(net', cl', sv') /\ Unheard(net', sv')
      /\ InUse(ThePort)' => tcp'[ThePort].server_state = Listen
      => Unbound'
  BY DEF Unbound, Opening, Unheard, EarlyPackets, EarlyClient, EarlyServer, EarlyOfClient
<1>2. /\ first' # << >> /\ Started(first') /\ Opening(net', cl', sv')
      /\ InUse(ThePort)' => Awaits(tcp'[ThePort], first')
      => Binding'
  BY DEF Binding, Started, Awaits, Inserted, Opening, EarlyPackets, EarlyClient, EarlyServer,
         EarlyOfClient
<1>3. /\ first' # << >> /\ Started(first') /\ PacketsForServer(net', first')
      /\ ServerHas(sv', first') /\ (InUse(ThePort)' => Passes(tcp'[ThePort], first'))
      => Connected'
  BY DEF Connected, Started, PacketsForServer, ForServer, ServerHas, Passes, Inserted, Due,
         Seqs!IsPrefix
<1> QED
  BY <1>1, <1>2, <1>3

(* The handler's part of ProxyReceive, and the history.                    *)
LEMMA ProxySeen ==
    ASSUME AnySegment, DPInv, NEW m, m.seg \in Segments, ProxyReceive(m)
    PROVE  /\ net' = Without(m) \cup Emitted(out') /\ cl' = cl /\ sv' = sv
           /\ \/ m.to = "proxy_c" /\ ClientSelected(m.seg)
                 /\ first' = <<m.seg.data, tcp'[ThePort].payload_packet[1]>>
              \/ /\ first' = first
                 /\ \/ Dropped
                    \/ /\ m.to = "proxy_c"
                       /\ ClientPassed(m.seg) \/ ClientOpened(m.seg) \/ ClientClosed(m.seg)
                    \/ m.to = "proxy_s" /\ (ServerPassed(m.seg) \/ ServerAnswered(m.seg))
<1> DEFINE c == tcp[ThePort]
           d == tcp'[ThePort]
           selects == c.server_state = Listen /\ d.server_state = SynReceived
<1>1. /\ net' = Without(m) \cup Emitted(out') /\ cl' = cl /\ sv' = sv
      /\ selects => first' = <<m.seg.data, d.payload_packet[1]>>
      /\ ~selects => first' = first
      /\ \/ m.to = "proxy_c" /\ FromClient(TheClient, m.seg)
         \/ m.to = "proxy_s" /\ FromServer(ThePort, m.seg)
  BY DEF ProxyReceive
<1>2. c \in TcpConnection
  BY NetAssumption DEF DPInv, DPTypeOK
<1>3. /\ Listen # SynReceived /\ LastAck # SynReceived /\ Established # SynReceived
      /\ Listen < LastAck /\ ~(SynReceived >= LastAck)
  BY DEF Listen, SynReceived, LastAck, Established
<1>4. Dropped => ~selects
  BY <1>3 DEF Dropped
<1>5. ClientPassed(m.seg) => ~selects
  BY <1>3 DEF ClientPassed
<1>6. ClientOpened(m.seg) => ~selects
  BY <1>3 DEF ClientOpened
<1>7. ClientClosed(m.seg) => ~selects
  BY <1>3 DEF ClientClosed
<1>8. ClientSelected(m.seg) => selects
  BY DEF ClientSelected, IsFirstPayload
<1>9. ServerPassed(m.seg) => ~selects
  BY <1>3 DEF ServerPassed, Kept
<1>10. ServerAnswered(m.seg) => ~selects
  BY <1>3 DEF ServerAnswered
<1> HIDE DEF selects
<1> QED
  BY <1>1, <1>4, <1>5, <1>6, <1>7, <1>8, <1>9, <1>10, FromClientSeen, FromServerSeen

(* A packet at the proxy before a server is selected: it stays so, or the  *)
(* beginning of the client's stream selects one.                           *)
LEMMA UnboundProxy ==
    ASSUME AnySegment, FirstByteFirst, PlainCallbacks, DPInv, NetInv, PacketsOfStream(net),
           Unbound, NEW m \in net, ProxyReceive(m)
    PROVE  Unbound' \/ Binding'
<1> DEFINE c == tcp[ThePort]
           d == tcp'[ThePort]
           seg == m.seg
           g == sv.got = 1
<1>1. /\ EarlyPackets(net, g) /\ EarlyClient(cl) /\ EarlyServer(sv) /\ g \in BOOLEAN
      /\ first = << >> /\ Unheard(net, sv)
      /\ InUse(ThePort) => c.server_state = Listen
      /\ seg \in Segments /\ ~g
  BY DEF Unbound, Opening, NetInv, InFlight, Unheard
<1>2. m.to # "proxy_s"
  BY <1>1 DEF EarlyPackets
<1>3. m.to = "proxy_c" => EarlyOfClient(seg) /\ OfStream(seg)
  BY <1>1 DEF EarlyPackets, PacketsOfStream
<1>4. net' = Without(m) \cup Emitted(out') /\ cl' = cl /\ sv' = sv
  BY <1>1, ProxySeen
<1>5. ~ForwardsClient(c) \/ ~InUse(ThePort)
  BY <1>1 DEF ForwardsClient, Listen, Established
<1>6. ASSUME EarlyPackets(Emitted(out'), g) PROVE Opening(net', cl', sv')
  <2>1. EarlyPackets(net', g)
    BY <1>1, <1>4, <1>6, EarlyJoins
  <2> QED
    BY <1>1, <1>4, <2>1 DEF Opening
<1>7. ASSUME NEW segs, Emitted(out') = To("client", segs) \/ Emitted(out') = {}
      PROVE  Unheard(net', sv')
  BY <1>1, <1>4, <1>7 DEF Unheard, Without, To
<1>e. EarlyPackets({}, g)
  BY DEF EarlyPackets
<1>8. CASE Dropped /\ first' = first
  BY <1>1, <1>6, <1>7, <1>8, <1>e, PhasesAfter DEF Dropped
<1>9. CASE ClientPassed(seg) /\ first' = first
  <2>1. Emitted(out') = {}
    BY <1>5, <1>9 DEF ClientPassed
  <2>2. Listen < LastAck
    BY DEF Listen, LastAck
  <2>3. d.server_state = Listen
    BY <1>1, <1>9, <2>2 DEF ClientPassed
  <2> QED
    BY <1>1, <1>6, <1>7, <1>9, <1>e, <2>1, <2>3, PhasesAfter
<1>10. CASE m.to = "proxy_c" /\ ClientOpened(seg) /\ first' = first
  <2>1. d.server_state = Listen /\ Emitted(out') = To("client", {SynAck(seg, d.c_seqn)})
    BY <1>1, <1>5, <1>10 DEF ClientOpened
  <2>2. SynAck(seg, d.c_seqn).syn /\ SynAck(seg, d.c_seqn).ackn = wrapping_add(ClientISN, 1)
    <3>1. seg.syn /\ seg.seq = ClientISN
      BY <1>3, <1>10 DEF ClientOpened, OfStream
    <3> QED
      BY <1>1, <3>1 DEF SynAck, make_reply_packet, Segments
  <2>3. EarlyPackets(To("client", {SynAck(seg, d.c_seqn)}), g)
    BY <2>2 DEF EarlyPackets, To
  <2> QED
    BY <1>1, <1>6, <1>7, <1>10, <2>1, <2>3, PhasesAfter
<1>11. CASE m.to = "proxy_c" /\ ClientClosed(seg)
  BY <1>3, <1>11 DEF ClientClosed, EarlyOfClient
<1>12. CASE /\ m.to = "proxy_c" /\ ClientSelected(seg)
            /\ first' = <<seg.data, d.payload_packet[1]>>
  <2>1. PICK choice \in f_select_server(seg.data) :
            /\ d.payload_packet = <<choice.data>>
            /\ d.c2s_inserted_bytes = Len(choice.data) - Len(seg.data)
    BY <1>12 DEF ClientSelected
  <2>2. choice.data \in Seq(Bytes)
    BY <1>1, CallbackAssumption DEF AnySegment
  <2>3. ~seg.syn
    BY <1>12 DEF ClientSelected, PastClose, PastHandshake
  <2>4. seg.data \in {<< >>, <<ClientStream[1]>>} /\ seg.seq = wrapping_add(ClientISN, 1)
    BY <1>3, <1>12, <2>1, <2>3 DEF EarlyOfClient
  <2>5. d.payload_packet[1] = choice.data
    BY <2>1
  <2>6. first' = <<seg.data, choice.data>>
    BY <1>12, <2>5
  <2>7. first'[1] = seg.data /\ first'[2] = choice.data /\ first' # << >>
    BY <2>6
  <2>8. Started(first')
    <3>1. /\ Len(choice.data) = Len(seg.data) => choice.data = seg.data
          /\ Len(choice.data) + Len(ClientStream) + 2 < SeqMod
      BY <2>1, <2>4 DEF PlainCallbacks
    <3> QED
      BY <2>2, <2>4, <2>7, <3>1 DEF Started
  <2>9. d.seqn = ClientISN
    <3>1. ClientISN \in Int /\ wrapping_add(ClientISN, 0) = ClientISN
      BY NetAssumption, SeqAssumption DEF Seqns, wrapping_add
    <3>2. wrapping_sub(wrapping_add(ClientISN, 1), 1) = wrapping_add(ClientISN, 1 - 1)
      BY <3>1, WrappingTwice
    <3>3. 1 - 1 = 0
      OBVIOUS
    <3> QED
      BY <1>12, <2>4, <3>1, <3>2, <3>3 DEF ClientSelected
  <2>10. Awaits(d, first')
    <3>1. d.c2s_inserted_bytes = Inserted(first')
      BY <2>1, <2>7 DEF Inserted
    <3>2. d.payload_packet = <<first'[2]>> /\ d.server_state = SynReceived
      BY <1>12, <2>1, <2>7 DEF ClientSelected
    <3> QED
      BY <2>9, <3>1, <3>2 DEF Awaits
  <2>11. EarlyPackets(Emitted(out'), g)
    <3>1. Emitted(out') = To("server", {ServerSyn(d, seg)})
      BY <1>12 DEF ClientSelected
    <3>2. /\ ServerSyn(d, seg).syn = TRUE /\ ServerSyn(d, seg).ack = FALSE
          /\ ServerSyn(d, seg).seq = ClientISN
      BY <1>1, <2>9 DEF ServerSyn, Segments
    <3> QED
      BY <3>1, <3>2 DEF EarlyPackets, To
  <2> QED
    BY <1>6, <2>7, <2>8, <2>10, <2>11, PhasesAfter
<1> QED
  BY <1>1, <1>2, <1>8, <1>9, <1>10, <1>11, <1>12, ProxySeen

(* A packet at the proxy while it waits for the server.                    *)
LEMMA BindingProxy ==
    ASSUME AnySegment, FirstByteFirst, DPInv, NetInv, PacketsOfStream(net),
           Binding, NEW m \in net, ProxyReceive(m), ~InUse(ThePort) => ~InUse(ThePort)'
    PROVE  Binding' \/ Connected'
<1> DEFINE c == tcp[ThePort]
           d == tcp'[ThePort]
           seg == m.seg
           g == sv.got = 1
<1>1. /\ EarlyPackets(net, g) /\ EarlyClient(cl) /\ EarlyServer(sv) /\ g \in BOOLEAN
      /\ first # << >> /\ Started(first)
      /\ InUse(ThePort) => Awaits(c, first)
      /\ seg \in Segments
  BY DEF Binding, Opening, NetInv, InFlight
<1>2. /\ m.to = "proxy_c" => EarlyOfClient(seg)
      /\ m.to = "proxy_s" => ~seg.fin /\ seg.data = << >> /\ g
  BY <1>1 DEF EarlyPackets
<1>3. InUse(ThePort) => /\ c.server_state = SynReceived /\ c.server_state < Established
                        /\ c.server_state < LastAck /\ c.server_state # Listen
                        /\ ~ForwardsClient(c) /\ ~ForwardsServer(c)
                        /\ c.client_state = Established
  <2>1. ASSUME InUse(ThePort) PROVE c.server_state = SynReceived
    BY <1>1, <2>1 DEF Awaits
  <2>2. ASSUME InUse(ThePort) PROVE PairInv(c.client_state, c.server_state)
    BY <2>2, NetAssumption DEF DPInv, ConnInv
  <2>3. ASSUME InUse(ThePort) PROVE c.client_state = Established
    BY <2>1, <2>2, <2>3 DEF PairInv, SynSent, SynReceived, Established, CloseWait, LastAck,
                            FinWait1, FinWait2, Closing, Closed, Listen
  <2> QED
    BY <2>1, <2>3 DEF ForwardsClient, ForwardsServer, SynReceived, Established, LastAck, Listen,
                      Closed
<1>4. net' = Without(m) \cup Emitted(out') /\ cl' = cl /\ sv' = sv
  BY <1>1, ProxySeen
<1>e. EarlyPackets({}, g)
  BY DEF EarlyPackets
<1>5. ASSUME Emitted(out') = {}, first' = first, InUse(ThePort)' => Awaits(d, first)
      PROVE  Binding'
  <2>1. EarlyPackets(net', g)
    BY <1>1, <1>4, <1>5, <1>e, EarlyJoins
  <2>2. Opening(net', cl', sv')
    BY <1>1, <1>4, <2>1 DEF Opening
  <2> QED
    BY <1>1, <1>5, <2>2, PhasesAfter
<1>6. CASE Dropped /\ first' = first
  BY <1>1, <1>5, <1>6 DEF Dropped
<1>7. ASSUME InUse(ThePort), Kept(c, d), d.server_state = c.server_state PROVE Awaits(d, first)
  BY <1>1, <1>3, <1>7 DEF Kept, Awaits
<1>8. CASE ClientPassed(seg) /\ first' = first
  BY <1>3, <1>5, <1>7, <1>8 DEF ClientPassed
<1>9. CASE ClientOpened(seg)
  <2>1. InUse(ThePort) /\ c.client_state = Closed
    BY <1>9 DEF ClientOpened
  <2> QED
    BY <1>3, <2>1 DEF Established, Closed
<1>10. CASE m.to = "proxy_c" /\ ClientClosed(seg)
  BY <1>2, <1>10 DEF ClientClosed, EarlyOfClient
<1>11. CASE ClientSelected(seg)
  BY <1>3, <1>11 DEF ClientSelected, IsFirstPayload
<1>12. CASE m.to = "proxy_s" /\ ServerPassed(seg) /\ first' = first
  <2>1. ~seg.fin /\ InUse(ThePort) /\ c.client_state # LastAck
    BY <1>2, <1>3, <1>12 DEF ServerPassed, Established, LastAck
  <2> QED
    BY <1>3, <1>5, <1>7, <1>12, <2>1 DEF ServerPassed
<1>13. CASE m.to = "proxy_s" /\ ServerAnswered(seg) /\ first' = first
  <2>1. ~seg.fin /\ seg.data = << >> /\ sv.got = 1 /\ InUse(ThePort)
    BY <1>2, <1>13 DEF ServerAnswered
  <2>2. Awaits(c, first) /\ d.seqn = wrapping_add(c.seqn, 1)
        /\ d.c2s_inserted_bytes = c.c2s_inserted_bytes /\ d.server_state = Established
    BY <1>1, <1>13, <2>1 DEF ServerAnswered
  <2>3. Passes(d, first)
    BY <2>2 DEF Awaits, Passes, Established
  <2>a. PICK ack : ack = [make_reply_packet(seg) EXCEPT !.syn = FALSE, !.seq = d.seqn]
    OBVIOUS
  <2>b. PICK pl : pl = [ack EXCEPT !.data = first[2]]
    OBVIOUS
  <2>4. Emitted(out') = To("server", {ack, pl})
    <3>1. c.payload_packet[1] = first[2]
      BY <2>2 DEF Awaits
    <3> QED
      BY <1>13, <2>a, <2>b, <3>1 DEF ServerAnswered
  <2>5. /\ ack.syn = FALSE /\ ack.fin = seg.fin /\ ack.data = seg.data /\ ack.seq = d.seqn
        /\ {"syn", "fin", "data", "seq"} \subseteq DOMAIN ack
    BY <1>1, <2>a DEF make_reply_packet, Segments
  <2>6. pl.syn = FALSE /\ pl.fin = seg.fin /\ pl.data = first[2] /\ pl.seq = d.seqn
    BY <2>5, <2>b
  <2>7. ForServer(ack, first) /\ ForServer(pl, first)
    BY <2>1, <2>2, <2>5, <2>6 DEF ForServer, Awaits
  <2>8. PacketsForServer(net', first)
    <3>1. PacketsForServer(net, first)
      BY <1>1 DEF EarlyPackets, PacketsForServer, ForServer
    <3> QED
      BY <1>4, <2>4, <2>7, <3>1 DEF PacketsForServer, Without, To
  <2>9. ServerHas(sv', first)
    <3>1. sv.irs = ClientISN /\ sv.rcvd = << >> /\ ~sv.ended /\ sv.got = 1
      BY <1>1, <2>1 DEF EarlyServer
    <3>2. Len(<< >>) = 0 /\ << >> \in Seq(Bytes)
      OBVIOUS
    <3>3. PICK e \in Seq(Bytes) : e = << >> /\ Len(e) = 0
      BY <3>2
    <3>4. Due(first) \in Seq(Bytes)
      BY <1>1, DueBytes
    <3>5. Len(e) <= Len(Due(first)) /\ \A i \in 1..Len(e) : e[i] = Due(first)[i]
      BY <3>3, <3>4
    <3>6. Seqs!IsPrefix(<< >>, Due(first))
      BY <3>3, <3>4, <3>5, PrefixByByte
    <3> QED
      BY <1>4, <3>1, <3>2, <3>6 DEF ServerHas
  <2> QED
    BY <1>1, <1>13, <2>3, <2>8, <2>9, PhasesAfter
<1> QED
  BY <1>1, <1>6, <1>8, <1>9, <1>10, <1>11, <1>12, <1>13, ProxySeen

(* An element of a sequence.                                               *)
LEMMA ElementOfSeq ==
    ASSUME NEW s \in Seq(Bytes), NEW i \in 1..Len(s)
    PROVE  s[i] \in Bytes
OBVIOUS

(* A packet of the client that is passed on.                               *)
LEMMA StreamTranslated ==
    ASSUME FirstByteFirst, PlainCallbacks, NEW f, Started(f), NEW c, c.c2s_inserted_bytes = Inserted(f),
           NEW seg \in Segments, OfStream(seg)
    PROVE  ForServer(client_to_server(c, seg), f)
<1>t. PICK t : t = client_to_server(c, seg)
  OBVIOUS
<1>1. /\ t.syn = seg.syn /\ t.fin = seg.fin /\ t.seq = wrapping_add(seg.seq, Inserted(f))
      /\ t.data = IF seg.data = << >> THEN << >> ELSE f_process_payload_c_s(seg.data)
  BY <1>t DEF client_to_server, Segments
<1>2. /\ ClientISN \in Int /\ Inserted(f) \in Int /\ Len(ClientStream) \in Nat
      /\ ClientStream \in Seq(Bytes)
  <2>1. ClientISN \in Int
    BY NetAssumption, SeqAssumption DEF Seqns
  <2>2. ClientStream \in Seq(Bytes)
    BY NetAssumption
  <2>3. Inserted(f) \in Int
    BY DueBytes
  <2> QED
    BY <2>1, <2>2, <2>3
<1>3. ASSUME NEW k \in Int, seg.seq = wrapping_add(ClientISN, k)
      PROVE  t.seq = wrapping_add(ClientISN, k + Inserted(f))
  BY <1>1, <1>2, <1>3, WrappingTwice
<1>4. CASE seg.data # << >>
  <2>1. PICK k \in 1..Len(ClientStream) :
            seg.data = <<ClientStream[k]>> /\ seg.seq = wrapping_add(ClientISN, k)
    BY <1>4 DEF OfStream
  <2>2. k \in Int /\ ClientStream[k] \in Bytes
    BY <1>2, <2>1
  <2>3. t.data = <<ClientStream[k]>>
    BY <1>1, <1>4, <2>1, <2>2 DEF PlainCallbacks
  <2>4. ~seg.fin
    BY <1>4 DEF OfStream
  <2> QED
    BY <1>t, <1>1, <1>3, <2>1, <2>2, <2>3, <2>4 DEF ForServer
<1>5. CASE seg.data = << >> /\ seg.fin
  <2>1. Len(ClientStream) + 1 \in Int /\ seg.seq = wrapping_add(ClientISN, Len(ClientStream) + 1)
    BY <1>2, <1>5 DEF OfStream
  <2> QED
    BY <1>t, <1>1, <1>3, <1>5, <2>1 DEF ForServer
<1>6. CASE seg.data = << >> /\ ~seg.fin
  BY <1>t, <1>1, <1>6 DEF ForServer
<1> QED
  BY <1>4, <1>5, <1>6

(* A packet at the proxy that passes packets on.                           *)
LEMMA ConnectedProxy ==
    ASSUME AnySegment, FirstByteFirst, PlainCallbacks, DPInv, NetInv, PacketsOfStream(net),
           Connected, NEW m \in net, ProxyReceive(m), ~InUse(ThePort) => ~InUse(ThePort)'
    PROVE  Connected'
<1> DEFINE c == tcp[ThePort]
           d == tcp'[ThePort]
           seg == m.seg
<1>1. /\ first # << >> /\ Started(first) /\ PacketsForServer(net, first) /\ ServerHas(sv, first)
      /\ InUse(ThePort) => Passes(c, first)
      /\ seg \in Segments
  BY DEF Connected, NetInv, InFlight
<1>2. m.to = "proxy_c" => OfStream(seg)
  BY DEF PacketsOfStream
<1>3. c \in TcpConnection /\ c.server_state \in Int
  BY NetAssumption DEF DPInv, DPTypeOK, TcpConnection, States, Listen, Closed
<1>4. net' = Without(m) \cup Emitted(out') /\ cl' = cl /\ sv' = sv
  BY <1>1, ProxySeen
<1>5. ASSUME first' = first, InUse(ThePort)' => Passes(d, first),
             \A x \in Emitted(out') : x.to = "server" => ForServer(x.seg, first)
      PROVE  Connected'
  <2>1. PacketsForServer(net', first)
    BY <1>1, <1>4, <1>5 DEF PacketsForServer, Without
  <2> QED
    BY <1>1, <1>4, <1>5, <2>1, PhasesAfter
<1>6. InUse(ThePort) => ~(c.server_state < Established) /\ c.server_state # Listen
                        /\ c.server_state # SynReceived
  BY <1>1, <1>3 DEF Passes, Established, Listen, SynReceived
<1>7. ASSUME InUse(ThePort), Kept(c, d) PROVE Passes(d, first)
  <2>1. c.server_state >= Established /\ (d.server_state = c.server_state \/ d.server_state >= LastAck)
    BY <1>1, <1>7 DEF Kept, Passes
  <2>2. d.server_state \in Int
    BY <1>7 DEF Kept, TcpConnection, States, Listen, Closed
  <2>3. d.server_state >= Established
    BY <1>3, <2>1, <2>2 DEF Established, LastAck
  <2> QED
    BY <1>1, <1>7, <2>3 DEF Kept, Passes
<1>8. CASE Dropped /\ first' = first
  BY <1>1, <1>5, <1>8 DEF Dropped
<1>9. CASE m.to = "proxy_c" /\ ClientPassed(seg) /\ first' = first
  <2>1. InUse(ThePort) /\ Passes(d, first) /\ Passes(c, first)
    BY <1>1, <1>7, <1>9 DEF ClientPassed
  <2>2. ForServer(client_to_server(c, seg), first)
    BY <1>1, <1>2, <1>9, <2>1, StreamTranslated DEF Passes
  <2>3. \A x \in Emitted(out') : x.to = "server" => ForServer(x.seg, first)
    BY <1>9, <2>2 DEF ClientPassed, To
  <2> QED
    BY <1>5, <1>9, <2>1, <2>3
<1>10. CASE ClientOpened(seg) /\ first' = first
  <2>1. /\ InUse(ThePort) /\ seg.syn /\ d.server_state = c.server_state
        /\ d.c2s_inserted_bytes = c.c2s_inserted_bytes
        /\ \/ Emitted(out') = To("client", {SynAck(seg, d.c_seqn)})
           \/ Emitted(out') = To("server", {client_to_server(d, SynAck(seg, d.c_seqn))})
    BY <1>10 DEF ClientOpened
  <2>2. Passes(d, first)
    BY <1>1, <2>1 DEF Passes
  <2>3. client_to_server(d, SynAck(seg, d.c_seqn)).syn = seg.syn
    <3>1. PICK r : r = SynAck(seg, d.c_seqn)
      OBVIOUS
    <3>2. r.syn = seg.syn /\ "syn" \in DOMAIN r
      BY <1>1, <3>1 DEF SynAck, make_reply_packet, Segments
    <3> QED
      BY <3>1, <3>2 DEF client_to_server
  <2>4. ForServer(client_to_server(d, SynAck(seg, d.c_seqn)), first)
    BY <2>1, <2>3 DEF ForServer
  <2>5. \A x \in Emitted(out') : x.to = "server" => ForServer(x.seg, first)
    BY <2>1, <2>4 DEF To
  <2> QED
    BY <1>5, <1>10, <2>2, <2>5
<1>11. CASE ClientClosed(seg)
  BY <1>6, <1>11 DEF ClientClosed
<1>12. CASE ClientSelected(seg)
  BY <1>6, <1>12 DEF ClientSelected, IsFirstPayload
<1>13. CASE ServerPassed(seg) /\ first' = first
  <2>1. Passes(d, first)
    BY <1>7, <1>13 DEF ServerPassed
  <2>2. \A x \in Emitted(out') : x.to # "server"
    BY <1>13 DEF ServerPassed, To
  <2> QED
    BY <1>5, <1>13, <2>1, <2>2
<1>14. CASE ServerAnswered(seg)
  BY <1>6, <1>14 DEF ServerAnswered, AwaitsSynAck
<1> QED
  BY <1>1, <1>8, <1>9, <1>10, <1>11, <1>12, <1>13, <1>14, ProxySeen

(* A connection is opened for the client only as long as no server is      *)
(* selected: the property is about the stream of one connection.           *)
NoReconnect == [][first # << >> /\ ~InUse(ThePort) => ~InUse(ThePort)']_pnVars

(* Every step preserves what the server has.                               *)
LEMMA ClientStreamNext ==
    ASSUME AnySegment, FirstByteFirst, PlainCallbacks, DPInv, NetInv, ClientStreamInv,
           [PNNext]_pnVars, [first # << >> /\ ~InUse(ThePort) => ~InUse(ThePort)']_pnVars
    PROVE  ClientStreamInv'
<1>1. PacketsOfStream(net) /\ (Unbound \/ Binding \/ Connected)
  BY DEF ClientStreamInv
<1>2. ASSUME PacketsOfStream(net'), Unbound' \/ Binding' \/ Connected' PROVE ClientStreamInv'
  BY <1>2 DEF ClientStreamInv, PacketsOfStream, OfStream
<1>3. ASSUME cl' = cl, sv' = sv, net' = net, first' = first,
             InUse(ThePort)' => InUse(ThePort) /\ tcp'[ThePort] = tcp[ThePort]
      PROVE  ClientStreamInv'
  <2>1. CASE Unbound
    BY <1>1, <1>2, <1>3, <2>1, PhasesAfter DEF Unbound
  <2>2. CASE Binding
    BY <1>1, <1>2, <1>3, <2>2, PhasesAfter DEF Binding
  <2>3. CASE Connected
    BY <1>1, <1>2, <1>3, <2>3, PhasesAfter DEF Connected
  <2> QED
    BY <1>1, <2>1, <2>2, <2>3
<1>4. CASE EndpointSteps
  <2>1. (InUse(ThePort)' <=> InUse(ThePort)) /\ tcp' = tcp /\ first' = first
    BY <1>4, EndpointsApart DEF dpVars, InUse
  <2>2. PacketsOfStream(net')
    BY <1>1, <1>4, StreamStays
  <2>3. CASE Unbound
    BY <1>2, <1>4, <2>1, <2>2, <2>3, OpeningStays, PhasesAfter DEF Unbound
  <2>4. CASE Binding
    BY <1>2, <1>4, <2>1, <2>2, <2>4, OpeningStays, PhasesAfter DEF Binding
  <2>5. CASE Connected
    BY <1>2, <1>4, <2>1, <2>2, <2>5, ConnectedStays, PhasesAfter DEF Connected
  <2> QED
    BY <1>1, <2>3, <2>4, <2>5
<1>5. ASSUME NEW m \in net, ProxyReceive(m) PROVE ClientStreamInv'
  <2>1. PacketsOfStream(net')
    BY <1>1, <1>5, StreamStays
  <2>2. CASE UNCHANGED pnVars
    BY <1>3, <2>2 DEF pnVars, netVars, dpVars, InUse
  <2>3. CASE first # << >> /\ ~InUse(ThePort) => ~InUse(ThePort)'
    <3>1. CASE Unbound
      BY <1>1, <1>2, <1>5, <2>1, <3>1, UnboundProxy
    <3>2. CASE Binding
      <4>1. ~InUse(ThePort) => ~InUse(ThePort)'
        BY <2>3, <3>2 DEF Binding
      <4> QED
        BY <1>1, <1>2, <1>5, <2>1, <3>2, <4>1, BindingProxy
    <3>3. CASE Connected
      <4>1. ~InUse(ThePort) => ~InUse(ThePort)'
        BY <2>3, <3>3 DEF Connected
      <4> QED
        BY <1>1, <1>2, <1>5, <2>1, <3>3, <4>1, ConnectedProxy
    <3> QED
      BY <1>1, <3>1, <3>2, <3>3
  <2> QED
    BY <2>2, <2>3
<1>6. CASE ProxyTimer
  BY <1>3, <1>6, TimerSeen DEF netVars
<1>7. CASE UNCHANGED pnVars
  BY <1>3, <1>7 DEF pnVars, netVars, dpVars, InUse
<1> QED
  BY <1>4, <1>5, <1>6, <1>7 DEF PNNext, Deliver, EndpointSteps

(* The client's stream at the start.                                       *)
LEMMA ClientStreamInit ==
    ASSUME PNInit
    PROVE  ClientStreamInv
<1>1. PICK closers : /\ cl = NewEndpoint(ClientISN, ClientStream, "client" \in closers)
                     /\ sv = NewEndpoint(ServerISN, ServerStream, "server" \in closers)
  BY DEF PNInit
<1>2. /\ cl.una = 0 /\ cl.got = 0 /\ cl.nxt = 0
      /\ sv.una = 0 /\ sv.got = 0 /\ sv.nxt = 0 /\ sv.rcvd = << >> /\ sv.ended = FALSE
  BY <1>1 DEF NewEndpoint
<1>3. ~InUse(ThePort) /\ net = {} /\ first = << >>
  BY NetAssumption DEF PNInit, DPInit, CMInit, InUse
<1>4. Opening(net, cl, sv) /\ Unheard(net, sv)
  BY <1>2, <1>3 DEF Opening, Unheard, EarlyPackets, EarlyClient, EarlyServer
<1> QED
  BY <1>3, <1>4 DEF ClientStreamInv, PacketsOfStream, Unbound

(* "TCP pass-through", client to server, for all streams, losses, timeouts *)
(* and closes: if the first byte is not overtaken, and the callbacks do    *)
(* not overwrite bytes, the server gets a beginning of what it is due, the *)
(* first payload as the callback left it and then the client's stream.     *)
THEOREM ClientStreamArrives ==
    ASSUME AnySegment, FirstByteFirst, PlainCallbacks
    PROVE  PNSafeSpec /\ NoReconnect => []StreamC2S
<1>1. PNInit => ClientStreamInv
  BY ClientStreamInit
<1>2. ASSUME ClientStreamInv PROVE StreamC2S
  <2>n. << >> \in Seq(Bytes) /\ Len(<< >>) = 0
    OBVIOUS
  <2>e. PICK e \in Seq(Bytes) : e = << >> /\ Len(e) = 0
    BY <2>n
  <2>0. ASSUME NEW t \in Seq(Bytes) PROVE Seqs!IsPrefix(<< >>, t)
    <3>1. Len(e) <= Len(t) /\ \A i \in 1..Len(e) : e[i] = t[i]
      BY <2>e
    <3> QED
      BY <2>e, <3>1, PrefixByByte
  <2>1. CASE Unbound
    <3>1. first = << >> /\ sv.rcvd = << >> /\ Expected = << >>
      BY <2>1 DEF Unbound, Opening, EarlyServer, Expected
    <3> QED
      BY <2>0, <2>e, <3>1 DEF StreamC2S
  <2>2. ASSUME first # << >>, Started(first), Seqs!IsPrefix(sv.rcvd, Due(first)) PROVE StreamC2S
    <3>1. Expected = Due(first)
      BY <2>2 DEF Expected, Due
    <3>2. ClientStream \in Seq(Bytes) /\ Len(ClientStream) \in Nat /\ Len(ClientStream) > 0
      BY <2>2, NetAssumption, DueBytes
    <3>3. Seqs!IsPrefix(first[1], ClientStream)
      <4>1. CASE first[1] = << >>
        BY <2>0, <3>2, <4>1
      <4>2. CASE first[1] = <<ClientStream[1]>>
        <5>0. 1 \in 1..Len(ClientStream)
          BY <3>2
        <5>1. ClientStream[1] \in Bytes
          BY <3>2, <5>0, ElementOfSeq
        <5>b. PICK b \in Bytes : b = ClientStream[1]
          BY <5>1
        <5>c. <<b>> \in Seq(Bytes) /\ Len(<<b>>) = 1 /\ <<b>>[1] = b
          OBVIOUS
        <5>2. PICK a \in Seq(Bytes) : a = <<ClientStream[1]>> /\ Len(a) = 1 /\ a[1] = ClientStream[1]
          BY <5>b, <5>c
        <5>n. PICK n \in Nat : n = Len(ClientStream) /\ n > 0
          BY <3>2
        <5>m. 1 <= n /\ \A i \in 1..1 : i = 1
          BY <5>n
        <5>3. Len(a) <= Len(ClientStream) /\ \A i \in 1..Len(a) : a[i] = ClientStream[i]
          <6>1. Len(a) <= Len(ClientStream)
            BY <5>2, <5>n, <5>m
          <6>2. ASSUME NEW i \in 1..Len(a) PROVE a[i] = ClientStream[i]
            <7>1. i = 1
              BY <5>2, <5>m, <6>2
            <7> QED
              BY <5>2, <7>1
          <6> QED
            BY <6>1, <6>2
        <5>4. ClientStream \in Seq(Bytes)
          BY <3>2
        <5>5. Seqs!IsPrefix(a, ClientStream)
          BY <5>3, <5>4, PrefixByByte
        <5>6. a = first[1]
          BY <4>2, <5>2
        <5> QED
          BY <5>5, <5>6
      <4> QED
        BY <2>2, <4>1, <4>2 DEF Started
    <3> QED
      BY <2>2, <3>1, <3>3 DEF StreamC2S
  <2>3. CASE Binding
    <3>1. first # << >> /\ Started(first) /\ sv.rcvd = << >>
      BY <2>3 DEF Binding, Opening, EarlyServer
    <3>2. Due(first) \in Seq(Bytes)
      BY <3>1, DueBytes
    <3> QED
      BY <2>0, <2>2, <3>1, <3>2
  <2>4. CASE Connected
    BY <2>2, <2>4 DEF Connected, ServerHas
  <2> QED
    BY <1>2, <2>1, <2>3, <2>4 DEF ClientStreamInv
<1>3. /\ DPInv /\ NetInv /\ ClientStreamInv /\ [PNNext]_pnVars
      /\ [first # << >> /\ ~InUse(ThePort) => ~InUse(ThePort)']_pnVars
      => DPInv' /\ NetInv' /\ ClientStreamInv'
  BY PNNextInv, ClientStreamNext
<1> QED
  BY <1>1, <1>2, <1>3, PNInitInv, PTL DEF PNSafeSpec, NoReconnect

(***************************************************************************)
(* What is acknowledged has arrived                                        *)
(***************************************************************************)

(* The initial numbers are two units further apart than the streams need,  *)
(* because SYN and FIN are acknowledged too; and the SYN of the client is  *)
(* not taken for an ACK of the server's bytes, where the proxy answers it  *)
(* towards the server.                                                     *)
AcksApart ==
    /\ NumbersApart(Len(ServerStream) + 1)
    /\ \A i \in ISNs :
        wrapping_sub(wrapping_sub(wrapping_add(ClientISN, 1), i), ServerISN)
            \notin 2..(Len(ServerStream) + 2)

(* The server acknowledges units of what it has received.                  *)
AckOfServer(seg, got) == seg.ack /\ \E g \in 1..got : seg.ackn = wrapping_add(ClientISN, g)

(* The client is told of its SYN, or of units that the server has.         *)
AckForClient(seg, got, f) ==
    \/ seg.ackn = wrapping_add(ClientISN, 1)
    \/ f # << >> /\ \E g \in 1..got : seg.ackn = wrapping_add(ClientISN, g - Inserted(f))

(* The client acknowledges units of what it has received, as numbered from *)
(* the initial number that it was told.                                    *)
AckOfClient(seg, irs, got) == seg.ack => \E g \in 1..got : seg.ackn = wrapping_add(irs, g)

(* The server is told of its SYN, by the proxy, or of units that the       *)
(* client has, with one of the offsets; or it gets the answer to a SYN of  *)
(* the client.                                                             *)
AckForServer(seg, irs, got) ==
    seg.ack =>
        \/ seg.ackn = wrapping_add(ServerISN, 1)
        \/ \E i \in ISNs : seg.ackn = wrapping_sub(wrapping_add(ClientISN, 1), i)
        \/ \E g \in 1..got, offset \in Offsets :
                seg.ackn = wrapping_sub(wrapping_add(irs, g), offset)

(* The FIN of the server follows its bytes.                                *)
FinOfServer(seg, bases) ==
    seg.fin /\ ~seg.syn =>
        /\ seg.data = << >>
        /\ \E b \in bases : seg.seq = wrapping_add(b, Len(ServerStream) + 1)

(* What the packets acknowledge.                                           *)
AckPackets(packets, c, s, f) ==
    \A m \in packets :
        /\ m.to = "proxy_s" => AckOfServer(m.seg, s.got) /\ FinOfServer(m.seg, {ServerISN})
        /\ m.to = "client" => AckForClient(m.seg, s.got, f) /\ FinOfServer(m.seg, Bases)
        /\ m.to = "proxy_c" => AckOfClient(m.seg, c.irs, c.got)
        /\ m.to = "server" => AckForServer(m.seg, c.irs, c.got)

(* What has been acknowledged to the client is with the server, and what   *)
(* has been acknowledged to the server is with the client.                 *)
ToldClient(c, s, f) == c.una > 1 => f # << >> /\ c.una <= s.got - Inserted(f)

ToldServer(c, s) == s.una > 1 => s.una <= c.got

(* The client takes the server's FIN at the end of its stream.             *)
EndsWithStream(c) == c.ended => c.rcvd = ServerStream /\ c.got = Len(ServerStream) + 2

AckInv ==
    /\ AckPackets(net, cl, sv, first)
    /\ ToldClient(cl, sv, first) /\ ToldServer(cl, sv)
    /\ EndsWithStream(cl)

(* Offsets and bases.                                                      *)
LEMMA OffsetBase ==
    ASSUME NEW offset \in Offsets
    PROVE  offset \in Int /\ wrapping_add(offset, ServerISN) \in Bases
<1>1. ServerISN \in Int /\ ServerISN + 1 \in Int /\ \A i \in ISNs : i \in Seqns /\ i \in Int
  BY NetAssumption, ProxyAssumption, SeqAssumption DEF Seqns
<1>2. CASE offset \in ISNs
  BY <1>1, <1>2 DEF Bases
<1>3. ASSUME NEW i \in ISNs, offset = wrapping_sub(i, ServerISN)
      PROVE  offset \in Int /\ wrapping_add(offset, ServerISN) \in Bases
  <2>1. wrapping_add(wrapping_sub(i, ServerISN), ServerISN) = wrapping_add(i, ServerISN - ServerISN)
    BY <1>1, WrappingTwice
  <2>2. ServerISN - ServerISN = 0
    BY <1>1
  <2>3. wrapping_add(i, 0) = i
    BY <1>1, SeqAssumption DEF Seqns, wrapping_add
  <2>4. offset \in Int
    BY <1>1, <1>3, SeqAssumption DEF wrapping_sub
  <2> QED
    BY <1>3, <2>1, <2>2, <2>3, <2>4 DEF Bases
<1>4. ASSUME NEW i \in ISNs, offset = wrapping_add(i, 1)
      PROVE  offset \in Int /\ wrapping_add(offset, ServerISN) \in Bases
  <2>0. i \in Int /\ 1 \in Int
    BY <1>1
  <2>1. wrapping_add(wrapping_add(i, 1), ServerISN) = wrapping_add(i, 1 + ServerISN)
    <3>1. ASSUME NEW n \in Int PROVE wrapping_add(wrapping_add(i, 1), n) = wrapping_add(i, 1 + n)
      BY <2>0, WrappingTwice
    <3> QED
      BY <1>1, <3>1
  <2>2. 1 + ServerISN = ServerISN + 1
    BY <1>1
  <2>3. offset \in Int
    BY <1>1, <1>4, SeqAssumption DEF wrapping_add
  <2> QED
    BY <1>4, <2>1, <2>2, <2>3 DEF Bases
<1> QED
  BY <1>2, <1>3, <1>4 DEF Offsets

(* A number of the server, for the client.                                 *)
LEMMA Rebased ==
    ASSUME NEW offset \in Offsets, NEW k \in Int
    PROVE  \E b \in Bases : wrapping_add(wrapping_add(ServerISN, k), offset) = wrapping_add(b, k)
<1>1. ServerISN \in Int /\ offset \in Int
  BY NetAssumption, SeqAssumption, OffsetBase DEF Seqns
<1>2. wrapping_add(wrapping_add(ServerISN, k), offset) = wrapping_add(ServerISN, k + offset)
  BY <1>1, WrappingTwice
<1>3. wrapping_add(wrapping_add(offset, ServerISN), k) = wrapping_add(offset, ServerISN + k)
  BY <1>1, WrappingTwice
<1>4. ServerISN + (k + offset) = offset + (ServerISN + k)
  BY <1>1
<1>5. wrapping_add(ServerISN, k + offset) = wrapping_add(offset, ServerISN + k)
  BY <1>4 DEF wrapping_add
<1> QED
  BY <1>2, <1>3, <1>5, OffsetBase

(* An ACK of the client, translated, tells the server of as many units as  *)
(* the client meant, or is out of the server's window.                     *)
LEMMA ServerAcked ==
    ASSUME AcksApart, NEW i \in ISNs, NEW offset \in Offsets,
           NEW g \in 1..(Len(ServerStream) + 2), NEW n \in 2..(Len(ServerStream) + 2),
           n = wrapping_sub(wrapping_sub(wrapping_add(i, g), offset), ServerISN)
    PROVE  n = g
<1>1. /\ ServerISN \in Int /\ offset \in Int /\ i \in Int /\ i \in Seqns /\ g \in Int /\ n \in Int
      /\ Len(ServerStream) \in Nat
  BY NetAssumption, ProxyAssumption, SeqAssumption, OffsetBase DEF Seqns
<1>x. PICK x \in Int : x = wrapping_add(i, g)
  BY <1>1, WrappingType, SeqAssumption DEF Seqns
<1>2. wrapping_sub(wrapping_sub(x, offset), ServerISN) = wrapping_sub(x, offset + ServerISN)
  BY <1>1, <1>x, WrappingTwice
<1>s. PICK s \in Int : s = offset + ServerISN
  BY <1>1
<1>3. n = wrapping_sub(x, s)
  BY <1>x, <1>2, <1>s
<1>b. PICK b \in Bases : b = wrapping_add(offset, ServerISN)
  BY OffsetBase
<1>4. wrapping_add(b, n) = wrapping_add(offset, ServerISN + n)
  BY <1>1, <1>b, WrappingTwice
<1>5. wrapping_add(offset, ServerISN + n) = wrapping_add(n, s)
  <2>1. offset + (ServerISN + n) = n + s
    BY <1>1, <1>s
  <2> QED
    BY <2>1 DEF wrapping_add
<1>6. wrapping_add(n, s) = wrapping_add(x, s - s)
  BY <1>3, <1>x, <1>s, WrappingTwice
<1>7. wrapping_add(x, s - s) = wrapping_add(i, g)
  <2>1. s - s = 0 /\ g + 0 = g
    BY <1>1
  <2>2. wrapping_add(wrapping_add(i, g), 0) = wrapping_add(i, g + 0)
    BY <1>1, WrappingTwice
  <2> QED
    BY <1>x, <2>1, <2>2
<1>l. PICK l \in Nat : l = Len(ServerStream) + 1
  BY <1>1
<1>8. g - n \in -l..l
  BY <1>1, <1>l
<1> QED
  BY <1>1, <1>4, <1>5, <1>6, <1>7, <1>8, <1>l, AwaitedUnit DEF AcksApart

(* An ACK of the server, translated, tells the client of no more units     *)
(* than the server has, or is out of the client's window.                  *)
LEMMA ClientAcked ==
    ASSUME FirstByteFirst, NEW f, Started(f), NEW got \in Nat, NEW g \in 1..got,
           got <= Len(ClientStream) + Inserted(f) + 2,
           NEW n \in Nat, n <= Len(ClientStream) + 2,
           n = wrapping_sub(wrapping_add(ClientISN, g - Inserted(f)), ClientISN)
    PROVE  n <= got - Inserted(f)
<1>n. PICK len \in Nat, la \in Nat, lb \in Nat, ins \in Int :
        /\ len = Len(ClientStream) /\ la = Len(f[1]) /\ lb = Len(f[2]) /\ ins = Inserted(f)
        /\ ins = lb - la /\ la <= 1
  <2>1. /\ Len(ClientStream) \in Nat /\ Len(f[1]) \in Nat /\ Len(f[2]) \in Nat
        /\ Inserted(f) \in Int /\ Inserted(f) = Len(f[2]) - Len(f[1]) /\ Len(f[1]) <= 1
    BY DueBytes
  <2> QED
    BY <2>1
<1>1. SeqMod \in Nat /\ lb + len + 2 < SeqMod
  BY <1>n, SeqAssumption DEF Started
<1>2. ClientISN \in Int
  BY NetAssumption, SeqAssumption DEF Seqns
<1>x. PICK x \in Int : x = g - ins
  OBVIOUS
<1>3. n = x % SeqMod
  <2>1. wrapping_sub(wrapping_add(ClientISN, x), ClientISN) = wrapping_add(ClientISN, x - ClientISN)
    BY <1>2, WrappingTwice
  <2>2. ClientISN + (x - ClientISN) = x
    BY <1>2
  <2>3. wrapping_add(ClientISN, x - ClientISN) = x % SeqMod
    BY <2>2 DEF wrapping_add
  <2> QED
    BY <1>n, <1>x, <2>1, <2>3
<1>0. len = Len(ClientStream) /\ ins = Inserted(f) /\ ins = lb - la
  BY <1>n
<1>4. g \in Nat /\ g >= 1 /\ g <= got /\ got <= len + ins + 2 /\ n <= len + 2
  <2>1. g \in Nat /\ g >= 1 /\ g <= got
    OBVIOUS
  <2>2. got <= len + ins + 2
    BY <1>0
  <2>3. n <= len + 2
    BY <1>0
  <2> QED
    BY <2>1, <2>2, <2>3
<1>a. ins = lb - la
  BY <1>0
<1>5. x <= len + 2 /\ x <= got - ins /\ x >= 1 - lb
  BY <1>a, <1>x, <1>4
<1>6. CASE x >= 0
  <2>1. x < SeqMod
    BY <1>1, <1>5
  <2>2. x % SeqMod = x
    BY <1>6, <2>1, <1>1, SeqAssumption
  <2> QED
    BY <1>n, <1>3, <1>5, <2>2
<1>7. CASE x < 0
  <2>y. PICK y \in Int : y = x + SeqMod
    BY <1>1
  <2>1. y >= 0 /\ y < SeqMod /\ y > len + 2
    BY <1>1, <1>5, <1>7, <2>y
  <2>2. y % SeqMod = y
    BY <1>1, <2>1, SeqAssumption
  <2>3. y = x + SeqMod * 1
    BY <1>1, <2>y
  <2>4. y % SeqMod = x % SeqMod
    BY <2>3, SameRemainder
  <2> QED
    BY <1>3, <1>4, <2>1, <2>2, <2>4
<1> QED
  BY <1>6, <1>7

(* Units of numbers that grow.                                             *)
LEMMA AcksGrow ==
    ASSUME NEW seg, NEW irs, NEW irs2, NEW cgot \in Nat, NEW cgot2 \in Nat, NEW sgot \in Nat,
           NEW sgot2 \in Nat, cgot <= cgot2, sgot <= sgot2, cgot > 0 => irs2 = irs,
           NEW f, NEW f2, f # << >> => f2 = f
    PROVE  /\ AckOfServer(seg, sgot) => AckOfServer(seg, sgot2)
           /\ AckForClient(seg, sgot, f) => AckForClient(seg, sgot2, f2)
           /\ AckOfClient(seg, irs, cgot) => AckOfClient(seg, irs2, cgot2)
           /\ AckForServer(seg, irs, cgot) => AckForServer(seg, irs2, cgot2)
<1>1. 1..sgot \subseteq 1..sgot2 /\ 1..cgot \subseteq 1..cgot2
  OBVIOUS
<1>2. \A g \in 1..cgot : irs2 = irs
  OBVIOUS
<1>3. AckOfServer(seg, sgot) => AckOfServer(seg, sgot2)
  BY <1>1 DEF AckOfServer
<1>4. AckForClient(seg, sgot, f) => AckForClient(seg, sgot2, f2)
  BY <1>1 DEF AckForClient
<1>5. AckOfClient(seg, irs, cgot) => AckOfClient(seg, irs2, cgot2)
  BY <1>1, <1>2 DEF AckOfClient
<1>6. AckForServer(seg, irs, cgot) => AckForServer(seg, irs2, cgot2)
  BY <1>1, <1>2 DEF AckForServer
<1> QED
  BY <1>3, <1>4, <1>5, <1>6

(* What the packets acknowledge stays true, and with more of their kind.   *)
LEMMA AcksJoin ==
    ASSUME NEW c, NEW c2, NEW s, NEW s2, c.got \in Nat, c2.got \in Nat, s.got \in Nat,
           s2.got \in Nat, c.got <= c2.got, s.got <= s2.got, c.got > 0 => c2.irs = c.irs,
           NEW f, NEW f2, f # << >> => f2 = f,
           AckPackets(net, c, s, f), NEW m, NEW packets, AckPackets(packets, c2, s2, f2),
           net' = net \cup packets \/ net' = Without(m) \cup packets \/ net' = net \ {m}
    PROVE  AckPackets(net', c2, s2, f2)
<1>1. ASSUME NEW x \in net PROVE AckPackets({x}, c2, s2, f2)
  <2>1. /\ x.to = "proxy_s" => AckOfServer(x.seg, s.got) /\ FinOfServer(x.seg, {ServerISN})
        /\ x.to = "client" => AckForClient(x.seg, s.got, f) /\ FinOfServer(x.seg, Bases)
        /\ x.to = "proxy_c" => AckOfClient(x.seg, c.irs, c.got)
        /\ x.to = "server" => AckForServer(x.seg, c.irs, c.got)
    BY DEF AckPackets
  <2>2. /\ AckOfServer(x.seg, s.got) => AckOfServer(x.seg, s2.got)
        /\ AckForClient(x.seg, s.got, f) => AckForClient(x.seg, s2.got, f2)
        /\ AckOfClient(x.seg, c.irs, c.got) => AckOfClient(x.seg, c2.irs, c2.got)
        /\ AckForServer(x.seg, c.irs, c.got) => AckForServer(x.seg, c2.irs, c2.got)
    BY AcksGrow
  <2> QED
    BY <2>1, <2>2 DEF AckPackets
<1>2. \A x \in net' : x \in net \/ x \in packets
  BY DEF Without
<1> QED
  BY <1>1, <1>2 DEF AckPackets

(* A segment only adds to what an endpoint has received.                   *)
LEMMA ReceivedGrows ==
    ASSUME NEW e, Sound(e), NEW seg \in Segments
    PROVE  LET r == ReceivedBy(e, seg)
           IN  /\ r.got \in Nat /\ e.got <= r.got
               /\ e.got > 0 => r.irs = e.irs
               /\ r.una \in Nat /\ r.una <= Fin(e) + 1
               /\ r.una = e.una \/ (seg.ack /\ r.una = wrapping_sub(seg.ackn, e.isn))
<1>a. PICK a : a = Acked(e, seg)
  OBVIOUS
<1>1. /\ a \in Endpoint /\ a.got = e.got /\ a.irs = e.irs
      /\ a.una = e.una \/ (seg.ack /\ a.una = wrapping_sub(seg.ackn, e.isn))
  BY <1>a, AckedKeeps
<1>2. e.got \in Nat /\ a.got \in Nat
  BY <1>1 DEF Endpoint
<1>r. PICK r : r = ReceivedBy(e, seg)
  OBVIOUS
<1>3. r \in Endpoint /\ r.una <= r.nxt /\ r.nxt <= Fin(r) + 1 /\ r.stream = e.stream
  BY <1>r, ReceivedSound DEF Sound
<1>4. /\ r.got \in Nat /\ r.una \in Nat /\ r.nxt \in Nat /\ Fin(r) = Fin(e) /\ Fin(r) \in Nat
  BY <1>3 DEF Endpoint, Fin
<1>5. r.una <= Fin(e) + 1
  BY <1>3, <1>4
<1>6. CASE e.got = 0
  <2>1. r = Opened(a, seg)
    BY <1>a, <1>r, <1>6 DEF ReceivedBy
  <2>2. r.una = a.una
    BY <1>1, <2>1 DEF Opened, Endpoint
  <2> QED
    BY <1>1, <1>2, <1>4, <1>5, <1>6, <1>r, <2>2
<1>7. CASE e.got # 0
  <2>1. r = Taken(a, seg)
    BY <1>a, <1>r, <1>7 DEF ReceivedBy
  <2>o. PICK old : old = wrapping_sub(wrapping_add(a.irs, a.got), seg.seq)
    OBVIOUS
  <2>2. CASE ~(~seg.syn /\ ~a.ended /\ old < Size(seg))
    <3>1. r = a
      BY <2>1, <2>2, <2>o DEF Taken
    <3> QED
      BY <1>1, <1>2, <1>4, <1>5, <1>r, <3>1
  <2>3. CASE ~seg.syn /\ ~a.ended /\ old < Size(seg)
    <3>g. PICK g : g = a.got + Size(seg) - old
      OBVIOUS
    <3>x. PICK x : x = a.rcvd \o SubSeq(seg.data, old + 1, Len(seg.data))
      OBVIOUS
    <3>1. r = [a EXCEPT !.got = g, !.ended = seg.fin, !.rcvd = x]
      BY <2>1, <2>3, <2>o, <3>g, <3>x DEF Taken
    <3>2. r.got = g /\ r.irs = a.irs /\ r.una = a.una
      BY <1>1, <3>1 DEF Endpoint
    <3>3. old \in Int
      <4>1. a.irs \in Int /\ a.got \in Int /\ seg.seq \in Int
        BY <1>1, SeqAssumption DEF Endpoint, Segments, Seqns
      <4>2. wrapping_add(a.irs, a.got) \in Int
        BY <4>1, SeqAssumption DEF wrapping_add
      <4> QED
        BY <2>o, <4>1, <4>2, SeqAssumption DEF wrapping_sub
    <3>4. Size(seg) \in Int
      BY DEF Size, Segments
    <3>5. e.got <= g
      BY <1>1, <1>2, <2>3, <3>g, <3>3, <3>4
    <3> QED
      BY <1>1, <1>4, <1>5, <1>r, <3>2, <3>5
  <2> QED
    BY <2>2, <2>3
<1> QED
  BY <1>6, <1>7

(* What the phases of the client's stream say of the acknowledgments.      *)
LEMMA PhaseFacts ==
    ASSUME FirstByteFirst, NetInv, ClientStreamInv
    PROVE  /\ sv.got > 0 => sv.irs = ClientISN
           /\ sv.nxt > 0 => sv.got > 0
           /\ ~Connected => Opening(net, cl, sv) /\ cl.una <= 1
           /\ Connected => /\ first # << >> /\ Started(first)
                           /\ sv.got <= Len(ClientStream) + Inserted(first) + 2
<1>1. sv.got \in Nat /\ sv.nxt \in Nat /\ sv.rcvd \in Seq(Bytes)
  BY DEF NetInv, Sound, Endpoint
<1>2. CASE Opening(net, cl, sv) /\ ~Connected
  BY <1>1, <1>2 DEF Opening, EarlyClient, EarlyServer
<1>3. CASE Connected
  <2>1. /\ first # << >> /\ Started(first) /\ sv.got > 0 /\ sv.irs = ClientISN
        /\ Seqs!IsPrefix(sv.rcvd, Due(first))
        /\ ~sv.ended => sv.got = Len(sv.rcvd) + 1
        /\ sv.ended => sv.got = Len(sv.rcvd) + 2
    BY <1>3 DEF Connected, ServerHas
  <2>2. /\ Due(first) \in Seq(Bytes) /\ Len(Due(first)) = Len(ClientStream) + Inserted(first)
        /\ Len(ClientStream) \in Nat /\ Inserted(first) \in Int
    BY <2>1, DueBytes
  <2>3. Len(sv.rcvd) <= Len(Due(first)) /\ Len(sv.rcvd) \in Nat
    BY <1>1, <2>1, <2>2, PrefixByByte
  <2>n. PICK r \in Nat, d \in Int : r = Len(sv.rcvd) /\ d = Len(ClientStream) + Inserted(first)
    BY <2>2, <2>3
  <2>4. r <= d /\ (sv.got = r + 1 \/ sv.got = r + 2)
    BY <2>1, <2>2, <2>3, <2>n
  <2>5. sv.got <= d + 2
    BY <1>1, <2>4
  <2> QED
    BY <1>1, <1>3, <2>1, <2>5, <2>n
<1> QED
  BY <1>2, <1>3 DEF ClientStreamInv, Unbound, Binding

(* What the endpoints acknowledge when they send.                          *)
LEMMA SentAcks ==
    ASSUME NEW e \in Endpoint, NEW k \in Nat
    PROVE  /\ e.got > 0 /\ e.irs = ClientISN =>
                AckOfServer(Unit(e, k), e.got) /\ AckOfServer(PureAck(e), e.got)
           /\ AckOfClient(Unit(e, k), e.irs, e.got)
           /\ e.got > 0 => AckOfClient(PureAck(e), e.irs, e.got)
           /\ e.isn = ServerISN /\ e.stream = ServerStream =>
                FinOfServer(Unit(e, k), {ServerISN}) /\ FinOfServer(PureAck(e), {ServerISN})
<1>1. e.got \in Nat /\ (e.got > 0 => e.got \in 1..e.got)
  BY DEF Endpoint
<1>2. /\ Unit(e, k).ack = (e.got > 0)
      /\ e.got > 0 => Unit(e, k).ackn = wrapping_add(e.irs, e.got)
      /\ Unit(e, k).fin = (k = Fin(e)) /\ Unit(e, k).seq = wrapping_add(e.isn, k)
      /\ Unit(e, k).data = IF k \in DOMAIN e.stream THEN <<e.stream[k]>> ELSE << >>
      /\ PureAck(e).ack = TRUE /\ PureAck(e).ackn = wrapping_add(e.irs, e.got)
      /\ PureAck(e).fin = FALSE
  BY DEF Unit, PureAck
<1>3. Fin(e) \notin DOMAIN e.stream
  BY DEF Endpoint, Fin
<1>4. ASSUME e.isn = ServerISN, e.stream = ServerStream PROVE FinOfServer(Unit(e, k), {ServerISN})
  <2>1. Fin(e) = Len(ServerStream) + 1
    BY <1>4 DEF Fin
  <2> QED
    BY <1>2, <1>3, <1>4, <2>1 DEF FinOfServer
<1>5. FinOfServer(PureAck(e), {ServerISN})
  BY <1>2 DEF FinOfServer
<1>6. /\ e.got > 0 /\ e.irs = ClientISN =>
            AckOfServer(Unit(e, k), e.got) /\ AckOfServer(PureAck(e), e.got)
  BY <1>1, <1>2 DEF AckOfServer
<1>7. /\ AckOfClient(Unit(e, k), e.irs, e.got)
      /\ e.got > 0 => AckOfClient(PureAck(e), e.irs, e.got)
  BY <1>1, <1>2 DEF AckOfClient
<1> QED
  BY <1>4, <1>5, <1>6, <1>7

(* The invariant after a step.                                             *)
LEMMA AcksAfter ==
    ASSUME AckPackets(net', cl', sv', first'), ToldClient(cl', sv', first'), ToldServer(cl', sv'),
           EndsWithStream(cl')
    PROVE  AckInv'
BY DEF AckInv, AckPackets, AckOfServer, AckForClient, AckOfClient, AckForServer, FinOfServer,
       ToldClient, ToldServer, EndsWithStream, Offsets, Bases, Inserted

(* The client takes a FIN only at the end of the server's stream.          *)
LEMMA ClientEnds ==
    ASSUME NumbersApart(Len(ServerStream)), NEW e, Sound(e), ClientHas(e), EndsWithStream(e),
           NEW seg \in Segments, ForClient(seg, e.got > 0), FinOfServer(seg, Bases)
    PROVE  EndsWithStream(ReceivedBy(e, seg))
<1>a. PICK a : a = Acked(e, seg)
  OBVIOUS
<1>1. /\ a \in Endpoint /\ a.got = e.got /\ a.irs = e.irs /\ a.rcvd = e.rcvd
      /\ a.ended = e.ended
  BY <1>a, AckedKeeps
<1>2. /\ e.got \in Nat /\ e.rcvd \in Seq(Bytes) /\ seg.seq \in Seqns /\ seg.data \in Seq(Bytes)
      /\ ServerStream \in Seq(Bytes) /\ Len(ServerStream) \in Nat /\ Len(e.rcvd) \in Nat
  BY NetAssumption DEF Sound, Endpoint, Segments
<1>r. PICK r : r = ReceivedBy(e, seg)
  OBVIOUS
<1>3. CASE e.got = 0
  <2>1. ~e.ended
    BY <1>3 DEF ClientHas
  <2>2. r = Opened(a, seg)
    BY <1>a, <1>r, <1>3 DEF ReceivedBy
  <2>3. r.ended = a.ended
    BY <1>1, <2>2 DEF Opened, Endpoint
  <2> QED
    BY <1>1, <1>r, <2>1, <2>3 DEF EndsWithStream
<1>4. CASE e.got # 0
  <2>1. r = Taken(a, seg)
    BY <1>a, <1>r, <1>4 DEF ReceivedBy
  <2>o. PICK old : old = wrapping_sub(wrapping_add(a.irs, a.got), seg.seq)
    OBVIOUS
  <2>2. CASE ~(~seg.syn /\ ~a.ended /\ old < Size(seg))
    <3>1. r = a
      BY <2>1, <2>2, <2>o DEF Taken
    <3> QED
      BY <1>1, <1>r, <3>1 DEF EndsWithStream
  <2>3. CASE ~seg.syn /\ ~a.ended /\ old < Size(seg)
    <3>g. PICK g : g = a.got + Size(seg) - old
      OBVIOUS
    <3>x. PICK x : x = a.rcvd \o SubSeq(seg.data, old + 1, Len(seg.data))
      OBVIOUS
    <3>1. r = [a EXCEPT !.got = g, !.ended = seg.fin, !.rcvd = x]
      BY <2>1, <2>3, <2>o, <3>g, <3>x DEF Taken
    <3>2. r.got = g /\ r.ended = seg.fin /\ r.rcvd = x
      BY <1>1, <3>1 DEF Endpoint
    <3>3. ASSUME seg.fin PROVE x = ServerStream /\ g = Len(ServerStream) + 2
      <4>1. PICK b \in Bases : seg.data = << >> /\ seg.seq = wrapping_add(b, Len(ServerStream) + 1)
        BY <2>3, <3>3 DEF FinOfServer
      <4>2. e.irs \in ISNs /\ e.got = Len(e.rcvd) + 1 /\ Seqs!IsPrefix(e.rcvd, ServerStream)
        BY <1>1, <1>2, <1>4, <2>3 DEF ClientHas
      <4>3. Size(seg) = 1
        BY <2>3, <3>3, <4>1 DEF Size
      <4>4. e.irs \in Int /\ e.got \in Int /\ seg.seq \in Int
        <5>1. e.irs \in Seqns
          BY <4>2, ProxyAssumption
        <5>2. e.irs \in Int /\ seg.seq \in Int
          BY <1>2, <5>1, SeqAssumption DEF Seqns
        <5> QED
          BY <1>2, <5>2
      <4>5. wrapping_add(e.irs, e.got) \in Seqns
        BY <4>4, WrappingType
      <4>6. old = 0
        <5>1. wrapping_add(e.irs, e.got) \in Int
          BY <4>5, SeqAssumption DEF Seqns
        <5>2. old \in Seqns
          BY <1>1, <2>o, <4>4, <5>1, WrappingType
        <5>3. old \in Nat
          BY <5>2, SeqAssumption DEF Seqns
        <5> QED
          BY <2>3, <4>3, <5>3
      <4>7. seg.seq = wrapping_add(e.irs, e.got)
        BY <1>1, <1>2, <2>o, <4>5, <4>6, NoDistance
      <4>n. PICK n \in Nat, k \in Int : n = Len(ServerStream) /\ k = n + 1
        BY <1>2
      <4>8. Len(e.rcvd) <= n
        BY <1>2, <4>2, <4>n, PrefixByByte
      <4>9. e.got - k \in -n..n
        BY <1>2, <4>2, <4>8, <4>n
      <4>10. k = e.got
        BY <4>1, <4>2, <4>4, <4>7, <4>9, <4>n, AwaitedUnit
      <4>11. Len(e.rcvd) = n
        BY <1>2, <4>2, <4>10, <4>n
      <4>12. e.rcvd = ServerStream
        <5>1. \A i \in 1..n : e.rcvd[i] = ServerStream[i]
          BY <1>2, <4>2, <4>11, PrefixByByte
        <5>2. ASSUME NEW s \in Seq(Bytes), NEW t \in Seq(Bytes), Len(s) = Len(t),
                     \A i \in 1..Len(t) : s[i] = t[i]
              PROVE  s = t
          BY <5>2
        <5> QED
          BY <1>2, <4>11, <4>n, <5>1, <5>2
      <4>13. x = e.rcvd
        <5>1. SubSeq(<< >>, 1, 0) = << >> /\ Len(<< >>) = 0
          OBVIOUS
        <5>2. e.rcvd \o << >> = e.rcvd
          BY <1>2
        <5>3. old + 1 = 1 /\ Len(seg.data) = 0
          BY <4>1, <4>6, <5>1
        <5>4. x = e.rcvd \o SubSeq(seg.data, 1, 0)
          BY <1>1, <3>x, <5>3
        <5> QED
          BY <4>1, <5>1, <5>2, <5>4
      <4>14. g = e.got + 1
        BY <1>1, <1>2, <3>g, <4>3, <4>6
      <4> QED
        BY <4>10, <4>12, <4>13, <4>14, <4>n
    <3> QED
      BY <1>r, <3>2, <3>3 DEF EndsWithStream
  <2> QED
    BY <2>2, <2>3
<1> QED
  BY <1>3, <1>4

(* One unit from the client's initial number.                              *)
LEMMA FirstUnit == wrapping_sub(wrapping_add(ClientISN, 1), ClientISN) = 1
<1>1. ClientISN \in Int /\ wrapping_add(ClientISN, 0) = ClientISN
  BY NetAssumption, SeqAssumption DEF Seqns, wrapping_add
<1>2. 1 - 0 < SeqMod
  BY SeqAssumption
<1>3. wrapping_sub(wrapping_add(ClientISN, 1), wrapping_add(ClientISN, 0)) = 1 - 0
  BY <1>1, <1>2, Distance
<1> QED
  BY <1>1, <1>3

(* The client is told the truth.                                           *)
LEMMA ClientTold ==
    ASSUME FirstByteFirst, NEW e, Sound(e), e.isn = ClientISN, e.stream = ClientStream,
           NEW s, s.got \in Nat, NEW f, ToldClient(e, s, f), NEW seg \in Segments,
           AckForClient(seg, s.got, f),
           \/ seg.ackn = wrapping_add(ClientISN, 1)
           \/ Started(f) /\ s.got <= Len(ClientStream) + Inserted(f) + 2
    PROVE  ToldClient(ReceivedBy(e, seg), s, f)
<1>r. PICK r : r = ReceivedBy(e, seg)
  OBVIOUS
<1>1. /\ r.una \in Nat /\ r.una <= Fin(e) + 1
      /\ r.una = e.una \/ r.una = wrapping_sub(seg.ackn, ClientISN)
  BY <1>r, ReceivedGrows
<1>2. r.una <= Len(ClientStream) + 2
  <2>1. PICK n \in Nat : n = Len(ClientStream)
    BY NetAssumption
  <2>2. Fin(e) = n + 1
    BY <2>1 DEF Fin
  <2>3. r.una <= n + 2
    BY <1>1, <2>2
  <2> QED
    BY <2>1, <2>3
<1>3. CASE r.una = e.una
  BY <1>r, <1>3 DEF ToldClient
<1>4. CASE seg.ackn = wrapping_add(ClientISN, 1) /\ r.una = wrapping_sub(seg.ackn, ClientISN)
  <2>1. r.una = 1
    BY <1>4, FirstUnit
  <2> QED
    BY <1>r, <2>1 DEF ToldClient
<1>5. CASE seg.ackn # wrapping_add(ClientISN, 1) /\ r.una = wrapping_sub(seg.ackn, ClientISN)
  <2>1. f # << >> /\ Started(f) /\ s.got <= Len(ClientStream) + Inserted(f) + 2
    BY <1>5 DEF AckForClient
  <2>2. PICK g \in 1..s.got : seg.ackn = wrapping_add(ClientISN, g - Inserted(f))
    BY <1>5 DEF AckForClient
  <2>3. r.una <= s.got - Inserted(f)
    BY <1>1, <1>2, <1>5, <2>1, <2>2, ClientAcked
  <2> QED
    BY <1>r, <2>1, <2>3 DEF ToldClient
<1> QED
  BY <1>1, <1>3, <1>4, <1>5

(* The server is told the truth.                                           *)
LEMMA ServerTold ==
    ASSUME AcksApart, NEW e, Sound(e), e.isn = ServerISN, e.stream = ServerStream,
           NEW c, c.got \in Nat, c.got <= Len(ServerStream) + 2, c.got > 0 => c.irs \in ISNs,
           ToldServer(c, e), NEW seg \in Segments, AckForServer(seg, c.irs, c.got)
    PROVE  ToldServer(c, ReceivedBy(e, seg))
<1>r. PICK r : r = ReceivedBy(e, seg)
  OBVIOUS
<1>1. /\ r.una \in Nat /\ r.una <= Fin(e) + 1
      /\ r.una = e.una \/ (seg.ack /\ r.una = wrapping_sub(seg.ackn, ServerISN))
  BY <1>r, ReceivedGrows
<1>n. PICK n \in Nat : n = Len(ServerStream)
  BY NetAssumption
<1>2. r.una <= n + 2
  <2>1. Fin(e) = n + 1
    BY <1>n DEF Fin
  <2> QED
    BY <1>1, <2>1
<1>3. CASE r.una = e.una
  BY <1>r, <1>3 DEF ToldServer
<1>4. CASE seg.ack /\ r.una = wrapping_sub(seg.ackn, ServerISN)
  <2>1. SUFFICES ASSUME r.una > 1 PROVE r.una <= c.got
    BY <1>r DEF ToldServer
  <2>2. r.una \in 2..(Len(ServerStream) + 2)
    BY <1>1, <1>2, <1>n, <2>1
  <2>3. CASE seg.ackn = wrapping_add(ServerISN, 1)
    <3>1. ServerISN \in Int /\ wrapping_add(ServerISN, 0) = ServerISN
      BY NetAssumption, SeqAssumption DEF Seqns, wrapping_add
    <3>2. 1 - 0 < SeqMod
      BY SeqAssumption
    <3>3. wrapping_sub(wrapping_add(ServerISN, 1), wrapping_add(ServerISN, 0)) = 1 - 0
      BY <3>1, <3>2, Distance
    <3>4. r.una = 1
      BY <1>4, <2>3, <3>1, <3>3
    <3> QED
      BY <2>1, <3>4
  <2>4. ASSUME NEW i \in ISNs, seg.ackn = wrapping_sub(wrapping_add(ClientISN, 1), i)
        PROVE  r.una <= c.got
    BY <1>4, <2>2, <2>4 DEF AcksApart
  <2>5. ASSUME NEW g \in 1..c.got, NEW offset \in Offsets,
               seg.ackn = wrapping_sub(wrapping_add(c.irs, g), offset)
        PROVE  r.una <= c.got
    <3>1. c.irs \in ISNs
      OBVIOUS
    <3>2. g \in 1..(Len(ServerStream) + 2)
      BY <1>n
    <3>3. r.una = wrapping_sub(wrapping_sub(wrapping_add(c.irs, g), offset), ServerISN)
      BY <1>4, <2>5
    <3>4. r.una = g
      BY <2>2, <3>1, <3>2, <3>3, ServerAcked
    <3> QED
      BY <3>4
  <2> QED
    BY <1>4, <2>3, <2>4, <2>5 DEF AckForServer
<1> QED
  BY <1>1, <1>3, <1>4

(* The endpoints acknowledge what they have, and are told the truth.       *)
LEMMA AcksStay ==
    ASSUME FirstByteFirst, NumbersApart(Len(ServerStream)), AcksApart, NetInv, ServerStreamInv,
           ClientStreamInv, AckInv, EndpointSteps
    PROVE  AckInv'
<1>1. /\ AckPackets(net, cl, sv, first) /\ ToldClient(cl, sv, first) /\ ToldServer(cl, sv)
      /\ EndsWithStream(cl)
  BY DEF AckInv
<1>2. /\ cl \in Endpoint /\ sv \in Endpoint /\ Sound(cl) /\ Sound(sv)
      /\ cl.isn = ClientISN /\ cl.stream = ClientStream
      /\ sv.isn = ServerISN /\ sv.stream = ServerStream /\ ClientHas(cl)
      /\ Carried(net, cl.got > 0)
  BY DEF NetInv, ServerStreamInv, Sound
<1>3. /\ cl.got \in Nat /\ cl.una \in Nat /\ cl.nxt \in Nat
      /\ sv.got \in Nat /\ sv.una \in Nat /\ sv.nxt \in Nat
  BY <1>2 DEF Endpoint
<1>4. /\ sv.got > 0 => sv.irs = ClientISN
      /\ sv.nxt > 0 => sv.got > 0
      /\ ~Connected => Opening(net, cl, sv) /\ cl.una <= 1
      /\ Connected => /\ first # << >> /\ Started(first)
                      /\ sv.got <= Len(ClientStream) + Inserted(first) + 2
  BY PhaseFacts
<1>5. first' = first
  BY EndpointsApart
<1>6. cl.got <= Len(ServerStream) + 2 /\ (cl.got > 0 => cl.irs \in ISNs)
  <2>1. PICK n \in Nat, k \in Nat : n = Len(ServerStream) /\ k = Len(cl.rcvd) /\ k <= n
    <3>1. cl.rcvd \in Seq(Bytes) /\ ServerStream \in Seq(Bytes) /\ Seqs!IsPrefix(cl.rcvd, ServerStream)
      BY <1>2, NetAssumption DEF Endpoint, ClientHas
    <3>2. Len(cl.rcvd) <= Len(ServerStream) /\ Len(cl.rcvd) \in Nat /\ Len(ServerStream) \in Nat
      BY <3>1, PrefixByByte
    <3> QED
      BY <3>2
  <2>2. cl.got = 0 \/ cl.got = k + 1 \/ cl.got = n + 2
    BY <1>1, <1>2, <1>3, <2>1 DEF ClientHas, EndsWithStream
  <2>3. cl.got <= n + 2
    BY <1>3, <2>1, <2>2
  <2> QED
    BY <1>2, <2>1, <2>3 DEF ClientHas
<1>7. ASSUME NEW c2, NEW s2, c2.got = cl.got, c2.irs = cl.irs, c2.una = cl.una,
             c2.rcvd = cl.rcvd, c2.ended = cl.ended, s2.got = sv.got, s2.una = sv.una,
             cl' = c2, sv' = s2, NEW packets, NEW m, AckPackets(packets, cl, sv, first),
             net' = net \cup packets \/ net' = Without(m) \cup packets \/ net' = net \ {m}
      PROVE  AckInv'
  <2>1. AckPackets(net', cl, sv, first)
    <3>1. cl.got <= cl.got /\ sv.got <= sv.got
      BY <1>3
    <3> QED
      BY <1>1, <1>3, <1>7, <3>1, AcksJoin
  <2>2. AckPackets(net', c2, s2, first)
    BY <1>7, <2>1 DEF AckPackets
  <2>3. ToldClient(c2, s2, first) /\ ToldServer(c2, s2) /\ EndsWithStream(c2)
    BY <1>1, <1>7 DEF ToldClient, ToldServer, EndsWithStream
  <2> QED
    BY <1>5, <1>7, <2>2, <2>3, AcksAfter
<1>8. CASE ClientSend
  <2>n. PICK n : n = cl.nxt + 1
    OBVIOUS
  <2>c. PICK c2 : c2 = [cl EXCEPT !.nxt = n]
    OBVIOUS
  <2>1. cl' = c2 /\ sv' = sv /\ net' = net \cup To("proxy_c", {Unit(cl, cl.nxt)})
    BY <1>8, <2>c, <2>n DEF ClientSend
  <2>2. /\ c2.got = cl.got /\ c2.irs = cl.irs /\ c2.una = cl.una /\ c2.rcvd = cl.rcvd
        /\ c2.ended = cl.ended
    BY <1>2, <2>c DEF Endpoint
  <2>3. AckOfClient(Unit(cl, cl.nxt), cl.irs, cl.got)
    BY <1>2, <1>3, SentAcks
  <2>4. AckPackets(To("proxy_c", {Unit(cl, cl.nxt)}), cl, sv, first)
    BY <2>3 DEF AckPackets, To
  <2> QED
    BY <1>7, <2>1, <2>2, <2>4
<1>9. CASE ServerSend
  <2>n. PICK n : n = sv.nxt + 1
    OBVIOUS
  <2>c. PICK s2 : s2 = [sv EXCEPT !.nxt = n]
    OBVIOUS
  <2>1. sv' = s2 /\ cl' = cl /\ net' = net \cup To("proxy_s", {Unit(sv, sv.nxt)}) /\ sv.got > 0
    BY <1>9, <2>c, <2>n DEF ServerSend
  <2>2. s2.got = sv.got /\ s2.una = sv.una
    BY <1>2, <2>c DEF Endpoint
  <2>3. /\ AckOfServer(Unit(sv, sv.nxt), sv.got)
        /\ FinOfServer(Unit(sv, sv.nxt), {ServerISN})
    BY <1>2, <1>3, <1>4, <2>1, SentAcks
  <2>4. AckPackets(To("proxy_s", {Unit(sv, sv.nxt)}), cl, sv, first)
    BY <2>3 DEF AckPackets, To
  <2> QED
    BY <1>7, <2>1, <2>2, <2>4
<1>10. CASE ClientResend
  <2>1. cl' = cl /\ sv' = sv /\ net' = net \cup To("proxy_c", {Unit(cl, cl.una)})
    BY <1>10 DEF ClientResend
  <2>2. AckOfClient(Unit(cl, cl.una), cl.irs, cl.got)
    BY <1>2, <1>3, SentAcks
  <2>3. AckPackets(To("proxy_c", {Unit(cl, cl.una)}), cl, sv, first)
    BY <2>2 DEF AckPackets, To
  <2> QED
    BY <1>7, <2>1, <2>3
<1>11. CASE ServerResend
  <2>1. /\ cl' = cl /\ sv' = sv /\ net' = net \cup To("proxy_s", {Unit(sv, sv.una)})
        /\ sv.una < sv.nxt
    BY <1>11 DEF ServerResend
  <2>2. sv.got > 0
    BY <1>3, <1>4, <2>1
  <2>3. /\ AckOfServer(Unit(sv, sv.una), sv.got)
        /\ FinOfServer(Unit(sv, sv.una), {ServerISN})
    BY <1>2, <1>3, <1>4, <2>2, SentAcks
  <2>4. AckPackets(To("proxy_s", {Unit(sv, sv.una)}), cl, sv, first)
    BY <2>3 DEF AckPackets, To
  <2> QED
    BY <1>7, <2>1, <2>4
<1>12. ASSUME NEW m \in net, ClientReceive(m) PROVE AckInv'
  <2>1. /\ m.seg \in Segments /\ m.to = "client" /\ cl' = ReceivedBy(cl, m.seg) /\ sv' = sv
        /\ net' = Without(m) \cup To("proxy_c", Answer(cl, cl', m.seg))
        /\ AckForClient(m.seg, sv.got, first) /\ FinOfServer(m.seg, Bases)
        /\ ForClient(m.seg, cl.got > 0)
    BY <1>1, <1>2, <1>12 DEF ClientReceive, NetInv, InFlight, AckPackets, Carried
  <2>r. PICK r : r = ReceivedBy(cl, m.seg)
    OBVIOUS
  <2>2. /\ r.got \in Nat /\ cl.got <= r.got /\ (cl.got > 0 => r.irs = cl.irs)
    BY <1>2, <2>1, <2>r, ReceivedGrows
  <2>3. r \in Endpoint
    BY <1>2, <2>1, <2>r, ReceivedSound DEF Sound
  <2>4. EndsWithStream(r)
    BY <1>1, <1>2, <2>1, <2>r, ClientEnds
  <2>5. \/ m.seg.ackn = wrapping_add(ClientISN, 1)
        \/ Started(first) /\ sv.got <= Len(ClientStream) + Inserted(first) + 2
    BY <1>4, <2>1 DEF Opening, EarlyPackets
  <2>6. ToldClient(r, sv, first)
    BY <1>1, <1>2, <1>3, <2>1, <2>5, <2>r, ClientTold
  <2>7. ToldServer(r, sv)
    BY <1>1, <1>3, <2>2 DEF ToldServer
  <2>8. AckPackets(To("proxy_c", Answer(cl, r, m.seg)), r, sv, first)
    <3>1. \A seg \in Answer(cl, r, m.seg) : seg = PureAck(r) /\ r.got > 0
      BY DEF Answer
    <3>2. 0 \in Nat
      OBVIOUS
    <3>3. r.got > 0 => AckOfClient(PureAck(r), r.irs, r.got)
      BY <2>3, <3>2, SentAcks
    <3> QED
      BY <3>1, <3>3 DEF AckPackets, To
  <2>9. AckPackets(net', r, sv, first)
    <3>1. net' = Without(m) \cup To("proxy_c", Answer(cl, r, m.seg)) /\ sv.got <= sv.got
      BY <1>3, <2>1, <2>r
    <3> QED
      BY <1>1, <1>3, <2>2, <2>8, <3>1, AcksJoin
  <2> QED
    BY <1>5, <2>1, <2>4, <2>6, <2>7, <2>9, <2>r, AcksAfter
<1>13. ASSUME NEW m \in net, ServerReceive(m) PROVE AckInv'
  <2>1. /\ m.seg \in Segments /\ m.to = "server" /\ sv' = ReceivedBy(sv, m.seg) /\ cl' = cl
        /\ net' = Without(m) \cup To("proxy_s", Answer(sv, sv', m.seg))
        /\ AckForServer(m.seg, cl.irs, cl.got)
    BY <1>1, <1>13 DEF ServerReceive, NetInv, InFlight, AckPackets
  <2>r. PICK r : r = ReceivedBy(sv, m.seg)
    OBVIOUS
  <2>2. /\ r.got \in Nat /\ sv.got <= r.got /\ (sv.got > 0 => r.irs = sv.irs)
    BY <1>2, <2>1, <2>r, ReceivedGrows
  <2>3. r \in Endpoint /\ r.isn = ServerISN /\ r.stream = ServerStream
    BY <1>2, <2>1, <2>r, ReceivedSound DEF Sound
  <2>4. r.got > 0 => r.irs = ClientISN
    <3>1. CASE sv.got > 0
      BY <1>4, <2>2, <3>1
    <3>2. CASE sv.got = 0
      <4>1. ~Connected
        BY <3>2 DEF Connected, ServerHas
      <4>2. EarlyServer(sv) /\ m.seg.syn /\ ~m.seg.ack /\ m.seg.seq = ClientISN
        BY <1>4, <2>1, <4>1 DEF Opening, EarlyPackets
      <4>3. EarlyServer(r) /\ r.got = 1
        BY <1>2, <2>1, <2>r, <4>2, EarlyServerReceives
      <4> QED
        BY <4>3 DEF EarlyServer
    <3> QED
      BY <1>3, <3>1, <3>2
  <2>5. ToldServer(cl, r)
    BY <1>1, <1>2, <1>3, <1>6, <2>1, <2>r, ServerTold
  <2>6. ToldClient(cl, r, first)
    <3>1. CASE ~Connected
      BY <1>3, <1>4, <3>1 DEF ToldClient
    <3>2. CASE Connected
      <4>1. Inserted(first) \in Int
        BY <1>4, <3>2, DueBytes
      <4>2. cl.una > 1 => first # << >> /\ cl.una <= sv.got - Inserted(first)
        BY <1>1 DEF ToldClient
      <4>3. cl.una > 1 => cl.una <= r.got - Inserted(first)
        BY <1>3, <2>2, <4>1, <4>2
      <4> QED
        BY <4>2, <4>3 DEF ToldClient
    <3> QED
      BY <3>1, <3>2
  <2>7. AckPackets(To("proxy_s", Answer(sv, r, m.seg)), cl, r, first)
    <3>1. \A seg \in Answer(sv, r, m.seg) : seg = PureAck(r) /\ r.got > 0
      BY DEF Answer
    <3>2. 0 \in Nat
      OBVIOUS
    <3>3. r.got > 0 => AckOfServer(PureAck(r), r.got) /\ FinOfServer(PureAck(r), {ServerISN})
      BY <2>3, <2>4, <3>2, SentAcks
    <3> QED
      BY <3>1, <3>3 DEF AckPackets, To
  <2>8. AckPackets(net', cl, r, first)
    <3>1. net' = Without(m) \cup To("proxy_s", Answer(sv, r, m.seg)) /\ cl.got <= cl.got
      BY <1>3, <2>1, <2>r
    <3> QED
      BY <1>1, <1>3, <2>2, <2>7, <3>1, AcksJoin
  <2> QED
    BY <1>1, <1>5, <2>1, <2>5, <2>6, <2>8, <2>r, AcksAfter
<1>14. ASSUME NEW m \in net, Lose(m) PROVE AckInv'
  <2>1. AckPackets({}, cl, sv, first)
    BY DEF AckPackets
  <2>2. cl' = cl /\ sv' = sv /\ net' = net \ {m}
    BY <1>14 DEF Lose
  <2> QED
    BY <1>7, <2>1, <2>2
<1> QED
  BY <1>8, <1>9, <1>10, <1>11, <1>12, <1>13, <1>14 DEF EndpointSteps

(* The proxy translates acknowledgments, and makes up only those for a SYN.*)
LEMMA ProxyAcks ==
    ASSUME AnySegment, FirstByteFirst, DPInv, NetInv, ServerStreamInv, ClientStreamInv, AckInv,
           NEW m \in net, ProxyReceive(m)
    PROVE  AckInv'
<1> DEFINE c == tcp[ThePort]
           d == tcp'[ThePort]
           seg == m.seg
<1>1. /\ AckPackets(net, cl, sv, first) /\ ToldClient(cl, sv, first) /\ ToldServer(cl, sv)
      /\ EndsWithStream(cl)
  BY DEF AckInv
<1>2. /\ seg \in Segments
      /\ m.to = "proxy_s" => /\ AckOfServer(seg, sv.got) /\ FinOfServer(seg, {ServerISN})
                             /\ OfServer(seg)
      /\ m.to = "proxy_c" => AckOfClient(seg, cl.irs, cl.got) /\ OfStream(seg)
      /\ InUse(ThePort) => c.c_seqn \in Offsets
  BY <1>1 DEF NetInv, InFlight, AckPackets, ServerStreamInv, Carried, Shifts, ClientStreamInv,
              PacketsOfStream
<1>3. cl.got \in Nat /\ sv.got \in Nat /\ cl.got <= cl.got /\ sv.got <= sv.got
  <2>1. cl.got \in Nat /\ sv.got \in Nat
    BY DEF NetInv, Sound, Endpoint
  <2> QED
    BY <2>1
<1>4. net' = Without(m) \cup Emitted(out') /\ cl' = cl /\ sv' = sv
  BY <1>2, ProxySeen
<1>5. ASSUME first' = first, AckPackets(Emitted(out'), cl, sv, first) PROVE AckInv'
  <2>1. AckPackets(net', cl, sv, first)
    BY <1>1, <1>3, <1>4, <1>5, AcksJoin
  <2> QED
    BY <1>1, <1>4, <1>5, <2>1, AcksAfter
<1>e. AckPackets({}, cl, sv, first)
  BY DEF AckPackets
<1>6. InUse(ThePort) => \/ Unbound /\ c.server_state = Listen
                        \/ Binding /\ c.server_state = SynReceived
                        \/ Connected /\ c.server_state >= Established /\ c.c2s_inserted_bytes = Inserted(first)
  BY DEF ClientStreamInv, Unbound, Binding, Awaits, Connected, Passes
<1>7. c.server_state \in Int
  BY NetAssumption DEF DPInv, DPTypeOK, TcpConnection, States, Listen, Closed
<1>8. CASE Dropped /\ first' = first
  BY <1>5, <1>8, <1>e DEF Dropped
<1>9. CASE m.to = "proxy_c" /\ ClientPassed(seg) /\ first' = first
  <2>t. PICK t : t = client_to_server(c, seg)
    OBVIOUS
  <2>1. t.ack = seg.ack /\ t.ackn = wrapping_sub(seg.ackn, c.c_seqn)
    BY <1>2, <2>t DEF client_to_server, Segments
  <2>2. c.c_seqn \in Offsets /\ AckOfClient(seg, cl.irs, cl.got)
    BY <1>2, <1>9 DEF ClientPassed
  <2>3. AckForServer(t, cl.irs, cl.got)
    BY <2>1, <2>2 DEF AckForServer, AckOfClient
  <2>4. AckPackets(To("server", {t}), cl, sv, first)
    BY <2>3 DEF AckPackets, To
  <2> QED
    BY <1>5, <1>9, <1>e, <2>4, <2>t DEF ClientPassed
<1>10. CASE m.to = "proxy_c" /\ ClientOpened(seg) /\ first' = first
  <2>a. PICK a : a = SynAck(seg, d.c_seqn)
    OBVIOUS
  <2>t. PICK t : t = client_to_server(d, a)
    OBVIOUS
  <2>1. /\ seg.syn /\ d.c_seqn \in ISNs
        /\ \/ Emitted(out') = To("client", {a})
           \/ Emitted(out') = To("server", {t})
    BY <1>10, <2>a, <2>t DEF ClientOpened
  <2>2. /\ a.syn = seg.syn /\ a.ackn = wrapping_add(seg.seq, 1)
        /\ {"ack", "ackn"} \subseteq DOMAIN a
    BY <1>2, <2>a DEF SynAck, make_reply_packet, Segments
  <2>3. a.ackn = wrapping_add(ClientISN, 1)
    BY <1>2, <1>10, <2>1, <2>2 DEF OfStream
  <2>4. t.ackn = wrapping_sub(a.ackn, d.c_seqn)
    BY <2>2, <2>t DEF client_to_server
  <2>5. AckForClient(a, sv.got, first) /\ FinOfServer(a, Bases)
    BY <2>1, <2>2, <2>3 DEF AckForClient, FinOfServer
  <2>6. AckForServer(t, cl.irs, cl.got)
    BY <2>1, <2>3, <2>4 DEF AckForServer
  <2>7. AckPackets(To("client", {a}), cl, sv, first) /\ AckPackets(To("server", {t}), cl, sv, first)
    BY <2>5, <2>6 DEF AckPackets, To
  <2> QED
    BY <1>5, <1>10, <2>1, <2>7
<1>11. CASE m.to = "proxy_c" /\ ClientClosed(seg)
  <2>1. InUse(ThePort) /\ seg.fin /\ c.server_state < Established
    BY <1>11 DEF ClientClosed
  <2>2. CASE Unbound \/ Binding
    <3>1. EarlyOfClient(seg)
      BY <1>11, <2>2 DEF Unbound, Binding, Opening, EarlyPackets
    <3> QED
      BY <2>1, <3>1 DEF EarlyOfClient
  <2>3. CASE Connected
    <3>1. c.server_state >= Established
      BY <2>1, <2>3 DEF Connected, Passes
    <3> QED
      BY <1>7, <2>1, <3>1 DEF Established
  <2> QED
    BY <2>2, <2>3 DEF ClientStreamInv
<1>12. CASE m.to = "proxy_c" /\ ClientSelected(seg)
  <2>1. InUse(ThePort) /\ c.server_state = Listen
    BY <1>12 DEF ClientSelected, IsFirstPayload
  <2>2. Unbound
    BY <1>6, <2>1 DEF Listen, SynReceived, Established
  <2>3. first = << >> /\ cl.una <= 1 /\ cl.una \in Nat
    BY <2>2 DEF Unbound, Opening, EarlyClient, NetInv, Sound, Endpoint
  <2>4. PICK f : f = first'
    OBVIOUS
  <2>s. PICK t : t = ServerSyn(d, seg)
    OBVIOUS
  <2>5. t.ack = FALSE
    BY <1>2, <2>s DEF ServerSyn, Segments
  <2>6. AckPackets(Emitted(out'), cl, sv, f)
    <3>1. Emitted(out') = To("server", {t})
      BY <1>12, <2>s DEF ClientSelected
    <3> QED
      BY <2>5, <3>1 DEF AckPackets, To, AckForServer
  <2>7. AckPackets(net', cl, sv, f)
    BY <1>1, <1>3, <1>4, <2>3, <2>6, AcksJoin
  <2>8. ToldClient(cl, sv, f)
    BY <2>3 DEF ToldClient
  <2> QED
    BY <1>1, <1>4, <2>4, <2>7, <2>8, AcksAfter
<1>13. CASE m.to = "proxy_s" /\ ServerPassed(seg) /\ first' = first
  <2>1. InUse(ThePort) /\ c.c_seqn \in Offsets
    BY <1>2, <1>13 DEF ServerPassed
  <2>t. PICK t : t = server_to_client(c, seg)
    OBVIOUS
  <2>2. ASSUME ForwardsServer(c) PROVE AckPackets(To("client", {t}), cl, sv, first)
    <3>1. Connected /\ c.c2s_inserted_bytes = Inserted(first)
      BY <1>6, <2>1, <2>2 DEF ForwardsServer, Listen, SynReceived, Established
    <3>2. first # << >> /\ Started(first) /\ Inserted(first) \in Int
      BY <3>1, DueBytes DEF Connected
    <3>3. /\ t.syn = seg.syn /\ t.fin = seg.fin /\ t.data = seg.data
          /\ t.seq = wrapping_add(seg.seq, c.c_seqn)
          /\ t.ackn = wrapping_sub(seg.ackn, Inserted(first))
      BY <1>2, <2>t, <3>1 DEF server_to_client, Segments
    <3>4. AckForClient(t, sv.got, first)
      <4>1. PICK g \in 1..sv.got : seg.ackn = wrapping_add(ClientISN, g)
        BY <1>2, <1>13 DEF AckOfServer
      <4>2. ClientISN \in Int /\ g \in Int
        BY <4>1, NetAssumption, SeqAssumption DEF Seqns
      <4>3. t.ackn = wrapping_add(ClientISN, g - Inserted(first))
        BY <3>2, <3>3, <4>1, <4>2, WrappingTwice
      <4> QED
        BY <3>2, <4>1, <4>3 DEF AckForClient
    <3>5. FinOfServer(t, Bases)
      <4>1. SUFFICES ASSUME seg.fin, ~seg.syn
                     PROVE  /\ seg.data = << >>
                            /\ \E b \in Bases : t.seq = wrapping_add(b, Len(ServerStream) + 1)
        BY <3>3 DEF FinOfServer
      <4>2. seg.data = << >> /\ seg.seq = wrapping_add(ServerISN, Len(ServerStream) + 1)
        BY <1>2, <1>13, <4>1 DEF FinOfServer
      <4>3. Len(ServerStream) + 1 \in Int
        BY NetAssumption
      <4>4. \E b \in Bases :
                wrapping_add(wrapping_add(ServerISN, Len(ServerStream) + 1), c.c_seqn)
                = wrapping_add(b, Len(ServerStream) + 1)
        BY <2>1, <4>3, Rebased
      <4> QED
        BY <3>3, <4>2, <4>4
    <3> QED
      BY <3>4, <3>5 DEF AckPackets, To
  <2> QED
    BY <1>5, <1>13, <1>e, <2>2, <2>t DEF ServerPassed
<1>14. CASE m.to = "proxy_s" /\ ServerAnswered(seg) /\ first' = first
  <2>a. PICK ack : ack = [make_reply_packet(seg) EXCEPT !.syn = FALSE, !.seq = d.seqn]
    OBVIOUS
  <2>b. PICK pl : pl = [ack EXCEPT !.data = c.payload_packet[1]]
    OBVIOUS
  <2>1. Emitted(out') = To("server", {ack, pl}) /\ seg.syn
    BY <1>14, <2>a, <2>b DEF ServerAnswered
  <2>2. seg.seq = ServerISN
    BY <1>2, <1>14, <2>1 DEF OfServer
  <2>3. ack.ackn = wrapping_add(ServerISN, 1) /\ "ackn" \in DOMAIN ack
    BY <1>2, <2>a, <2>2 DEF make_reply_packet, Segments
  <2>4. pl.ackn = ack.ackn
    BY <2>3, <2>b
  <2>5. AckForServer(ack, cl.irs, cl.got) /\ AckForServer(pl, cl.irs, cl.got)
    BY <2>3, <2>4 DEF AckForServer
  <2>6. AckPackets(Emitted(out'), cl, sv, first)
    BY <2>1, <2>5 DEF AckPackets, To
  <2> QED
    BY <1>5, <1>14, <2>6
<1> QED
  BY <1>2, <1>8, <1>9, <1>10, <1>11, <1>12, <1>13, <1>14, ProxySeen

(* Every step preserves it.                                                *)
LEMMA AckNext ==
    ASSUME AnySegment, FirstByteFirst, NumbersApart(Len(ServerStream)), AcksApart, DPInv, NetInv,
           ServerStreamInv, ClientStreamInv, AckInv, [PNNext]_pnVars
    PROVE  AckInv'
<1>1. ASSUME cl' = cl, sv' = sv, net' = net, first' = first PROVE AckInv'
  BY <1>1, AcksAfter DEF AckInv
<1>2. CASE EndpointSteps
  BY <1>2, AcksStay
<1>3. ASSUME NEW m \in net, ProxyReceive(m) PROVE AckInv'
  BY <1>3, ProxyAcks
<1>4. CASE ProxyTimer
  BY <1>1, <1>4, TimerSeen DEF netVars
<1>5. CASE UNCHANGED pnVars
  BY <1>1, <1>5 DEF pnVars, netVars
<1> QED
  BY <1>2, <1>3, <1>4, <1>5 DEF PNNext, Deliver, EndpointSteps

(* Numbers that are apart for the acknowledgments are so for the bytes.    *)
LEMMA ApartForBytes == AcksApart => NumbersApart(Len(ServerStream))
<1>n. PICK n \in Nat : n = Len(ServerStream)
  BY NetAssumption
<1>1. -n..n \subseteq -(n + 1)..(n + 1)
  OBVIOUS
<1>2. ASSUME n + 1 < SeqMod PROVE n < SeqMod
  BY <1>2, SeqAssumption
<1> QED
  BY <1>n, <1>1, <1>2 DEF AcksApart, NumbersApart, Apart

(* What is acknowledged, to either endpoint, has arrived at the other, for *)
(* all streams, losses, timeouts and closes.                               *)
THEOREM AcknowledgedArrived ==
    ASSUME AnySegment, FirstByteFirst, PlainCallbacks, AcksApart
    PROVE  PNSafeSpec /\ NoReconnect => []AckedMeansDelivered
<1>0. NumbersApart(Len(ServerStream))
  BY ApartForBytes
<1>1. ASSUME PNInit PROVE ClientStreamInv /\ ServerStreamInv /\ AckInv
  <2>1. PICK closers : /\ cl = NewEndpoint(ClientISN, ClientStream, "client" \in closers)
                       /\ sv = NewEndpoint(ServerISN, ServerStream, "server" \in closers)
    BY <1>1 DEF PNInit
  <2>2. cl.una = 0 /\ sv.una = 0 /\ cl.ended = FALSE /\ net = {}
    BY <1>1, <2>1 DEF NewEndpoint, PNInit
  <2>3. AckInv
    BY <2>2 DEF AckInv, AckPackets, ToldClient, ToldServer, EndsWithStream
  <2> QED
    BY <1>1, <2>3, ClientStreamInit, ServerStreamInit
<1>2. ASSUME NetInv, ServerStreamInv, ClientStreamInv, AckInv PROVE AckedMeansDelivered
  <2>1. /\ cl.una \in Nat /\ sv.una \in Nat /\ cl.got \in Nat /\ sv.got \in Nat
        /\ cl.rcvd \in Seq(Bytes) /\ sv.rcvd \in Seq(Bytes)
        /\ cl.stream = ClientStream /\ sv.stream = ServerStream /\ ClientHas(cl)
    BY <1>2 DEF NetInv, Sound, Endpoint, ServerStreamInv
  <2>2. ASSUME cl.una > 1, first # << >>
        PROVE  Len(sv.rcvd) >= Len(first[2]) - Len(first[1])
                                + (IF cl.una > Fin(cl) THEN Len(ClientStream) ELSE cl.una - 1)
    <3>1. Connected
      BY <1>2, <2>1, <2>2, PhaseFacts
    <3>2. /\ Started(first) /\ Seqs!IsPrefix(sv.rcvd, Due(first))
          /\ ~sv.ended => sv.got = Len(sv.rcvd) + 1
          /\ sv.ended => sv.got = Len(sv.rcvd) + 2 /\ Len(sv.rcvd) = Len(Due(first))
      BY <3>1 DEF Connected, ServerHas
    <3>3. cl.una <= sv.got - Inserted(first)
      BY <1>2, <2>2 DEF AckInv, ToldClient
    <3>4. /\ Due(first) \in Seq(Bytes) /\ Len(Due(first)) = Len(ClientStream) + Inserted(first)
          /\ Len(ClientStream) \in Nat /\ Inserted(first) \in Int
          /\ Inserted(first) = Len(first[2]) - Len(first[1])
      BY <3>2, DueBytes
    <3>5. Len(sv.rcvd) <= Len(Due(first)) /\ Len(sv.rcvd) \in Nat
      <4>1. PICK t : t = Due(first)
        OBVIOUS
      <4>2. t \in Seq(Bytes) /\ Seqs!IsPrefix(sv.rcvd, t) /\ sv.rcvd \in Seq(Bytes)
        BY <2>1, <3>2, <3>4, <4>1
      <4>3. Len(sv.rcvd) <= Len(t)
        BY <4>2, PrefixByByte
      <4>4. Len(sv.rcvd) \in Nat
        BY <4>2
      <4> QED
        BY <4>1, <4>3, <4>4
    <3>n. PICK r \in Nat, n \in Nat, ins \in Int :
              r = Len(sv.rcvd) /\ n = Len(ClientStream) /\ ins = Inserted(first)
      BY <3>4, <3>5
    <3>6. /\ cl.una <= sv.got - ins
          /\ sv.got = r + 1 \/ (sv.got = r + 2 /\ r = n + ins)
          /\ r <= n + ins
      <4>1. cl.una <= sv.got - ins
        BY <3>3, <3>n
      <4>2. r <= n + ins
        BY <3>4, <3>5, <3>n
      <4>3. CASE ~sv.ended
        <5>1. sv.got = r + 1
          BY <3>2, <3>n, <4>3
        <5> QED
          BY <4>1, <4>2, <5>1
      <4>4. CASE sv.ended
        <5>1. sv.got = r + 2 /\ Len(sv.rcvd) = Len(Due(first))
          BY <3>2, <3>n, <4>4
        <5>2. r = n + ins
          BY <3>4, <3>n, <5>1
        <5> QED
          BY <4>1, <4>2, <5>1, <5>2
      <4> QED
        BY <4>3, <4>4
    <3>7. Fin(cl) = n + 1
      BY <2>1, <3>n DEF Fin
    <3>8. r >= ins + (IF cl.una > n + 1 THEN n ELSE cl.una - 1)
      BY <2>1, <3>6
    <3> QED
      BY <3>4, <3>7, <3>8, <3>n
  <2>3. ASSUME sv.una > 1
        PROVE  Len(cl.rcvd) >= (IF sv.una > Fin(sv) THEN Len(ServerStream) ELSE sv.una - 1)
    <3>1. sv.una <= cl.got /\ (cl.ended => cl.rcvd = ServerStream)
      BY <1>2, <2>3 DEF AckInv, ToldServer, EndsWithStream
    <3>n. PICK r \in Nat, n \in Nat : r = Len(cl.rcvd) /\ n = Len(ServerStream) /\ r <= n
      <4>1. ServerStream \in Seq(Bytes) /\ Seqs!IsPrefix(cl.rcvd, ServerStream)
        BY <2>1, NetAssumption DEF ClientHas
      <4>2. Len(cl.rcvd) <= Len(ServerStream) /\ Len(cl.rcvd) \in Nat /\ Len(ServerStream) \in Nat
        BY <2>1, <4>1, PrefixByByte
      <4> QED
        BY <4>2
    <3>2. cl.got > 0
      BY <2>1, <2>3, <3>1
    <3>3. cl.got = r + 1 \/ r = n
      BY <2>1, <3>1, <3>2, <3>n DEF ClientHas
    <3>4. Fin(sv) = n + 1
      BY <2>1, <3>n DEF Fin
    <3>5. r >= (IF sv.una > n + 1 THEN n ELSE sv.una - 1)
      BY <2>1, <3>1, <3>3, <3>n
    <3> QED
      BY <3>4, <3>5, <3>n
  <2> QED
    BY <2>2, <2>3 DEF AckedMeansDelivered
<1>3. /\ DPInv /\ NetInv /\ ServerStreamInv /\ ClientStreamInv /\ AckInv /\ [PNNext]_pnVars
      /\ [first # << >> /\ ~InUse(ThePort) => ~InUse(ThePort)']_pnVars
      => DPInv' /\ NetInv' /\ ServerStreamInv' /\ ClientStreamInv' /\ AckInv'
  BY <1>0, PNNextInv, ServerStreamNext, ClientStreamNext, AckNext
<1> QED
  BY <1>1, <1>2, <1>3, PNInitInv, PTL DEF PNSafeSpec, NoReconnect
=============================================================================
