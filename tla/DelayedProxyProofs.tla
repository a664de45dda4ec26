------------------------- MODULE DelayedProxyProofs -------------------------
(***************************************************************************)
(* Proofs about the packet handler, for all segments, callbacks, sockets,  *)
(* port ranges and wheels.                                                 *)
(*                                                                         *)
(* A branch of the handler changes one connection, so that most of the     *)
(* argument is about a single record (ConnInv).  What it needs of the      *)
(* manager, that a port given to a new client is not in use, is CMInv of   *)
(* ConnectionManagerProofs.                                                *)
(***************************************************************************)
EXTENDS DelayedProxy, ConnectionManagerProofs

(***************************************************************************)
(* The invariant of a connection in use: c is its record, ev its events    *)
(***************************************************************************)

(* The states of the client's and of the server's side that go together.   *)
PairInv(cs, ss) ==
    CASE cs = SynSent -> ss = Listen \/ ss >= LastAck
      [] cs = Established -> ss \in {Listen, SynReceived, Established} \/ ss >= LastAck
      [] cs = CloseWait -> ss \in {FinWait1, FinWait2, Closed}
      [] cs = LastAck -> ss >= FinWait1
      [] cs \in {FinWait1, FinWait2} -> ss \in {Established, LastAck}
      [] cs = Closing -> ss \in {LastAck, Closing, Closed}
      [] cs = Closed -> ss \in {LastAck, Closing}
      [] OTHER -> FALSE

PayloadInv(c) ==
    /\ c.server_state = SynReceived => c.payload_packet # << >>
    /\ c.server_state \in {Listen, Established} => c.payload_packet = << >>

(* Which FINs must have come for the connection to be in these states.     *)
FinsInv(cs, ss, ev) ==
    /\ ss >= LastAck => "server_fin" \in ev
    /\ cs >= LastAck \/ ss \in {LastAck, Closing, Closed} => "client_fin" \in ev

(* The record agrees with the connection.                                  *)
RecordInv(c) ==
    detailed_records =>
        /\ last_state(c) = c.server_state
        /\ c.server_state >= LastAck => c.s_cause \in {"PassiveClose", "ActiveClose"}

ConnInv(c, ev) ==
    /\ c \in TcpConnection
    /\ ev \in SUBSET Events
    /\ PairInv(c.client_state, c.server_state)
    /\ PayloadInv(c)
    /\ FinsInv(c.client_state, c.server_state, ev)
    /\ RecordInv(c)

(* The inductive invariant.  The manager is as it should be until a        *)
(* callback panics; nothing but time changes after that.                   *)
DPInv ==
    /\ DPTypeOK
    /\ ~panicked => CMInv
    /\ \A p \in Ports : InUse(p) => ConnInv(tcp[p], seen[p])
    /\ CompletedTogether

(***************************************************************************)
(* The operations on a connection                                          *)
(***************************************************************************)

(* Arithmetic on sequence numbers stays in their range.                    *)
LEMMA WrappingType ==
    ASSUME NEW a \in Int, NEW b \in Int
    PROVE  wrapping_add(a, b) \in Seqns /\ wrapping_sub(a, b) \in Seqns
BY SeqAssumption DEF wrapping_add, wrapping_sub, Seqns

(* In particular, the number after n is one.                               *)
LEMMA WrappingSucc ==
    ASSUME NEW n \in Seqns
    PROVE  wrapping_add(n, 1) \in Seqns
BY SeqAssumption DEF wrapping_add, Seqns

(* d is c but for the numbers that the two handlers at the end of a branch *)
(* remember.                                                               *)
SameButNumbers(c, d) ==
    /\ d \in TcpConnection
    /\ d.client_state = c.client_state /\ d.server_state = c.server_state
    /\ d.c_seqn = c.c_seqn
    /\ d.c2s_inserted_bytes = c.c2s_inserted_bytes
    /\ d.payload_packet = c.payload_packet /\ d.server_index = c.server_index
    /\ d.s_states = c.s_states /\ d.s_cause = c.s_cause /\ d.c_cause = c.c_cause

(* Forwarding a packet changes nothing else of the connection.             *)
LEMMA ForwardingKeeps ==
    ASSUME NEW c \in TcpConnection, NEW seg \in Segments
    PROVE  /\ SameButNumbers(c, c)
           /\ SameButNumbers(c, AfterClientToServer(c, seg))
           /\ SameButNumbers(c, AfterServerToClient(c, seg))
<1>1. SameButNumbers(c, c)
  BY DEF SameButNumbers
<1>2. SameButNumbers(c, AfterClientToServer(c, seg))
  <2> DEFINE n == wrapping_add(seg.seq, c.c2s_inserted_bytes)
  <2>1. n \in Seqns
    BY WrappingType, SeqAssumption DEF Segments, TcpConnection, Seqns
  <2> HIDE DEF n
  <2> QED
    BY <1>1, <2>1 DEF AfterClientToServer, SameButNumbers, TcpConnection, n
<1>3. SameButNumbers(c, AfterServerToClient(c, seg))
  <2> DEFINE t == server_to_client(c, seg)
             n == wrapping_add(t.seq, Len(seg.data) + 1)
  <2>1. t.seq \in Seqns /\ t.ackn \in Seqns
    BY WrappingType, SeqAssumption DEF Segments, TcpConnection, Seqns, server_to_client
  <2> HIDE DEF t
  <2>2. n \in Seqns
    <3>1. Len(seg.data) + 1 \in Int
      BY DEF Segments
    <3>2. t.seq \in Int
      BY <2>1, SeqAssumption DEF Seqns
    <3> QED
      BY <3>1, <3>2, WrappingType
  <2>3. AfterServerToClient(c, seg) =
            [c EXCEPT !.ackn_p2c = t.ackn, !.seqn = IF seg.fin THEN n ELSE c.seqn]
    BY DEF AfterServerToClient, TcpConnection, t
  <2> HIDE DEF n
  <2> QED
    BY <2>1, <2>2, <2>3 DEF SameButNumbers, TcpConnection
<1> QED
  BY <1>1, <1>2, <1>3

(* The invariant does not depend on those numbers.                         *)
LEMMA NumbersDoNotMatter ==
    ASSUME NEW c, NEW d, NEW ev, ConnInv(c, ev), SameButNumbers(c, d)
    PROVE  ConnInv(d, ev)
BY DEF ConnInv, SameButNumbers, PayloadInv, RecordInv, last_state

(* The end of a branch for a packet of a client, and for one of a server:  *)
(* the connection of p is what the branch made of it.                      *)
LEMMA EndClientSets ==
    ASSUME DPTypeOK, NEW p \in Ports, NEW c \in TcpConnection, NEW seg \in Segments, NEW sent,
           EndClient(p, c, seg, sent)
    PROVE  \E d : SameButNumbers(c, d) /\ tcp' = [tcp EXCEPT ![p] = d]
BY ForwardingKeeps DEF EndClient

(* The same for the end of the branches for segments of a server.          *)
LEMMA EndServerSets ==
    ASSUME DPTypeOK, NEW p \in Ports, NEW c \in TcpConnection, NEW seg \in Segments, NEW sent,
           EndServer(p, c, seg, sent)
    PROVE  \E d : SameButNumbers(c, d) /\ tcp' = [tcp EXCEPT ![p] = d]
BY ForwardingKeeps DEF EndServer

(* The fields that neither a change of state nor a release cause touches.  *)
KeepsBinding(c, d) ==
    /\ d.c_seqn = c.c_seqn
    /\ d.c2s_inserted_bytes = c.c2s_inserted_bytes
    /\ d.server_index = c.server_index
    /\ d.payload_packet = c.payload_packet

(* d is c with other states and causes; its record tells the state.        *)
Shape(c, d, cs, ss) ==
    /\ d \in TcpConnection
    /\ KeepsBinding(c, d)
    /\ d.client_state = cs
    /\ d.server_state = ss
    /\ detailed_records => last_state(d) = ss

(* The record tells why the server side was closed.                        *)
Caused(d) == detailed_records => d.s_cause \in {"PassiveClose", "ActiveClose"}

(* A new state of the client side changes that state and nothing else.     *)
LEMMA ClientPush ==
    ASSUME NEW c, NEW d, NEW cs, NEW ss, Shape(c, d, cs, ss), NEW state \in States
    PROVE  /\ Shape(c, c_push_state(d, state), state, ss)
           /\ Caused(d) => Caused(c_push_state(d, state))
BY DEF Shape, Caused, c_push_state, TcpConnection, KeepsBinding, last_state

(* A new state of the server side is also the last one of the record.      *)
LEMMA ServerPushed ==
    ASSUME NEW d \in TcpConnection, NEW state \in States
    PROVE  /\ s_push_state(d, state) \in TcpConnection
           /\ KeepsBinding(d, s_push_state(d, state))
           /\ s_push_state(d, state).client_state = d.client_state
           /\ s_push_state(d, state).server_state = state
           /\ detailed_records => last_state(s_push_state(d, state)) = state
           /\ s_push_state(d, state).s_cause = d.s_cause
<1> DEFINE q == IF detailed_records THEN Append(d.s_states, state) ELSE d.s_states
           e == s_push_state(d, state)
<1>1. d.s_states \in Seq(States)
  BY DEF TcpConnection
<1>2. /\ q \in Seq(States)
      /\ detailed_records => q # << >> /\ q[Len(q)] = state
  BY <1>1
<1>3. e = [d EXCEPT !.server_state = state, !.s_states = q]
  BY DEF s_push_state, TcpConnection
<1> HIDE DEF q, e
<1>4. /\ e \in TcpConnection /\ KeepsBinding(d, e) /\ e.client_state = d.client_state
      /\ e.server_state = state /\ e.s_cause = d.s_cause
      /\ detailed_records => last_state(e) = state
  BY <1>2, <1>3 DEF TcpConnection, KeepsBinding, last_state
<1> QED
  BY <1>4 DEF e

(* So it keeps the binding, as a new state of the client side does.        *)
LEMMA ServerPush ==
    ASSUME NEW c, NEW d, NEW cs, NEW ss, Shape(c, d, cs, ss), NEW state \in States
    PROVE  /\ Shape(c, s_push_state(d, state), cs, state)
           /\ Caused(d) => Caused(s_push_state(d, state))
BY ServerPushed DEF Shape, Caused, KeepsBinding

(* A release cause is written to the record, if there is one.              *)
LEMMA ClientCause ==
    ASSUME NEW c, NEW d, NEW cs, NEW ss, Shape(c, d, cs, ss), NEW cause \in ReleaseCauses
    PROVE  /\ Shape(c, set_release_cause(d, cause), cs, ss)
           /\ Caused(d) => Caused(set_release_cause(d, cause))
           /\ detailed_records => set_release_cause(d, cause).c_cause = cause
BY DEF Shape, Caused, set_release_cause, TcpConnection, KeepsBinding, last_state

(* The causes that the handler writes to the record of the server side.    *)
LEMMA ServerCause ==
    ASSUME NEW c, NEW d, NEW cs, NEW ss, Shape(c, d, cs, ss),
           NEW cause \in {"PassiveClose", "ActiveClose"}
    PROVE  /\ Shape(c, s_set_release_cause(d, cause), cs, ss)
           /\ Caused(s_set_release_cause(d, cause))
BY DEF Shape, Caused, s_set_release_cause, TcpConnection, KeepsBinding, last_state, ReleaseCauses

(* select_server keeps the packet, and s_init begins a new record.         *)
LEMMA Selected ==
    ASSUME NEW c \in TcpConnection, NEW seg \in Segments,
           NEW choice \in [server : Servers, data : Seq(Bytes)]
    PROVE  LET d == s_init(select_server(c, seg, choice))
           IN  /\ d \in TcpConnection
               /\ d.client_state = c.client_state /\ d.server_state = c.server_state
               /\ d.payload_packet # << >>
<1> DEFINE n == wrapping_sub(seg.seq, 1)
           k == Len(choice.data) - Len(seg.data)
           pkt == <<choice.data>>
           srv == choice.server
           q == << >>
           a == [c EXCEPT !.payload_packet = pkt, !.c2s_inserted_bytes = k, !.server_index = srv,
                          !.seqn = n]
<1>1. n \in Seqns
  BY SeqAssumption DEF Segments, Seqns, wrapping_sub
<1>2. k \in Int
  BY DEF Segments
<1>3. pkt \in Seq(Seq(Bytes)) /\ pkt # << >> /\ srv \in Servers /\ q \in Seq(States)
  OBVIOUS
<1>4. s_init(select_server(c, seg, choice)) = [a EXCEPT !.s_states = q]
  BY DEF select_server, s_init
<1> HIDE DEF n, k, pkt, srv, q
<1>5. a \in TcpConnection /\ a.payload_packet = pkt
      /\ a.client_state = c.client_state /\ a.server_state = c.server_state
  BY <1>1, <1>2, <1>3 DEF TcpConnection
<1> HIDE DEF a
<1>6. [a EXCEPT !.s_states = q] \in TcpConnection
  BY <1>3, <1>5 DEF TcpConnection
<1> QED
  BY <1>3, <1>4, <1>5, <1>6 DEF TcpConnection

(* server_synack_received lets go of the packet and fixes the offset.      *)
LEMMA Answered ==
    ASSUME NEW c \in TcpConnection, NEW seg \in Segments,
           NEW b, Shape(c, b, c.client_state, Established), b = s_push_state(c, Established)
    PROVE  LET d == server_synack_received(c, seg)
           IN  /\ d \in TcpConnection
               /\ d.client_state = c.client_state /\ d.server_state = Established
               /\ d.payload_packet = << >> /\ d.s_states = b.s_states
               /\ d.server_index = c.server_index
               /\ d.c2s_inserted_bytes = c.c2s_inserted_bytes
<1> DEFINE n == wrapping_sub(c.c_seqn, seg.seq)
           k == wrapping_add(c.seqn, 1)
           q == << >>
<1>1. n \in Seqns
  BY SeqAssumption DEF Segments, TcpConnection, Seqns, wrapping_sub
<1>2. k \in Seqns
  BY WrappingSucc DEF TcpConnection
<1>3. q \in Seq(Seq(Bytes)) /\ q = << >>
  OBVIOUS
<1>4. server_synack_received(c, seg) = [b EXCEPT !.c_seqn = n, !.seqn = k, !.payload_packet = q]
  BY DEF server_synack_received
<1> HIDE DEF n, k, q
<1> QED
  BY <1>1, <1>2, <1>3, <1>4 DEF Shape, TcpConnection, KeepsBinding

(* The names of states and causes, as the types above use them.            *)
LEMMA Names ==
    /\ {Listen, SynReceived, SynSent, Established, CloseWait, LastAck, FinWait1, Closing,
        FinWait2, Closed} \subseteq States
    /\ {"PassiveClose", "ActiveClose", "ActiveRst", "Timeout"} \subseteq ReleaseCauses
BY DEF Listen, SynReceived, SynSent, Established, CloseWait, LastAck, FinWait1, Closing,
       FinWait2, Closed, States, ReleaseCauses

(* A side gets a state and a cause at once.                                *)
LEMMA ClientClose ==
    ASSUME NEW c, NEW d, NEW cs, NEW ss, Shape(c, d, cs, ss),
           NEW cause \in ReleaseCauses, NEW state \in States,
           NEW e, e = c_push_state(set_release_cause(d, cause), state)
    PROVE  /\ Shape(c, e, state, ss)
           /\ Caused(d) => Caused(e)
BY ClientCause, ClientPush

(* A cause and a state of the server side, in either order.                *)
LEMMA ServerClose ==
    ASSUME NEW c, NEW d, NEW cs, NEW ss, Shape(c, d, cs, ss),
           NEW cause \in {"PassiveClose", "ActiveClose"}, NEW state \in States
    PROVE  /\ Shape(c, s_push_state(s_set_release_cause(d, cause), state), cs, state)
           /\ Caused(s_push_state(s_set_release_cause(d, cause), state))
           /\ Shape(c, s_set_release_cause(s_push_state(d, state), cause), cs, state)
           /\ Caused(s_set_release_cause(s_push_state(d, state), cause))
<1>1. Shape(c, s_set_release_cause(d, cause), cs, ss) /\ Caused(s_set_release_cause(d, cause))
  BY ServerCause
<1>2. Shape(c, s_push_state(d, state), cs, state)
  BY ServerPush
<1>3. /\ Shape(c, s_push_state(s_set_release_cause(d, cause), state), cs, state)
      /\ Caused(s_push_state(s_set_release_cause(d, cause), state))
  BY <1>1, ServerPush
<1>4. /\ Shape(c, s_set_release_cause(s_push_state(d, state), cause), cs, state)
      /\ Caused(s_set_release_cause(s_push_state(d, state), cause))
  BY <1>2, ServerCause
<1> QED
  BY <1>3, <1>4

(***************************************************************************)
(* What a branch of the handler makes of a connection                      *)
(***************************************************************************)

(* States are compared as numbers.                                         *)
USE DEF Listen, SynReceived, SynSent, Established, CloseWait, LastAck, FinWait1, Closing,
        FinWait2, Closed, States

(* The parts of OffsetStable and BoundOnce that are about one connection.  *)
BoundTo(c, d) ==
    /\ c.server_state >= Established /\ c.client_state # Closed => d.c_seqn = c.c_seqn
    /\ c.server_state # Listen =>
        /\ d.server_index = c.server_index
        /\ d.c2s_inserted_bytes = c.c2s_inserted_bytes
        /\ c.server_state = SynReceived => d.server_state >= SynReceived
        /\ c.server_state >= Established => d.server_state >= Established

RecordsClose(d) ==
    detailed_records /\ Completed(d.c_cause, d.client_state) =>
        Completed(d.s_cause, last_state(d))

(* d may be what remains of a connection with the events ev.               *)
EndsWell(d, ev) ==
    /\ d \in TcpConnection
    /\ ev \in SUBSET Events
    /\ RecordsClose(d)
    /\ d.server_state = Closed => {"client_fin", "server_fin"} \subseteq ev

Ends(c) == c.client_state = Closed /\ c.server_state = Closed

(* No packet is put aside in the step from c to d.                         *)
KeepsNoPacket(c, d) == d.payload_packet \in {c.payload_packet, << >>}

(* A branch that turns c into d with the events ev: the connection either  *)
(* goes on or is released because both its sides are closed.               *)
Result(c, d, ev) ==
    /\ KeepsNoPacket(c, d)
    /\ ~Ends(d) => ConnInv(d, ev) /\ BoundTo(c, d)
    /\ Ends(d) => EndsWell(d, ev)

(* A connection that a branch leaves behind has its type, ended or not.    *)
LEMMA ResultTyped ==
    ASSUME NEW c, NEW d, NEW ev, Result(c, d, ev)
    PROVE  d \in TcpConnection
BY DEF Result, ConnInv, EndsWell

(* What holds of a connection in use, in the terms of the above.           *)
LEMMA ConnFacts ==
    ASSUME NEW c, NEW ev, ConnInv(c, ev)
    PROVE  /\ Shape(c, c, c.client_state, c.server_state)
           /\ c.server_state >= LastAck => Caused(c)
           /\ c \in TcpConnection
           /\ c.client_state \in States /\ c.server_state \in States
           /\ ev \in SUBSET Events
           /\ PairInv(c.client_state, c.server_state)
           /\ FinsInv(c.client_state, c.server_state, ev)
BY DEF ConnInv, Shape, Caused, RecordInv, KeepsBinding, TcpConnection

(* Which changes of states have such a result.                             *)
LEMMA ResultOfShape ==
    ASSUME NEW c, NEW d, NEW ev, NEW ev2 \in SUBSET Events,
           NEW cs \in States, NEW ss \in States,
           ConnInv(c, ev), Shape(c, d, cs, ss),
           ~(cs = Closed /\ ss = Closed) => PairInv(cs, ss),
           ss = c.server_state \/ ss >= LastAck,
           ss >= LastAck => Caused(d),
           FinsInv(cs, ss, ev2)
    PROVE  Result(c, d, ev2)
<1>1. c \in TcpConnection /\ PayloadInv(c) /\ d \in TcpConnection
  BY DEF ConnInv, Shape
<1>2. PayloadInv(d) /\ BoundTo(c, d)
  BY <1>1 DEF PayloadInv, BoundTo, Shape, KeepsBinding, TcpConnection
<1>3. RecordInv(d)
  BY DEF RecordInv, Shape, Caused
<1>4. ASSUME Ends(d) PROVE EndsWell(d, ev2)
  <2>1. RecordsClose(d)
    BY <1>3, <1>4 DEF Ends, RecordInv, RecordsClose, Completed
  <2> QED
    BY <2>1, <1>1, <1>4 DEF Ends, EndsWell, FinsInv, Shape
<1>5. KeepsNoPacket(c, d)
  BY DEF KeepsNoPacket, Shape, KeepsBinding
<1> QED
  BY <1>1, <1>2, <1>3, <1>4, <1>5 DEF Result, ConnInv, Shape, Ends

(* FIN of the client after the server's.                                   *)
LEMMA FinAfterServerResult ==
    ASSUME NEW c, NEW ev, ConnInv(c, ev), NEW seg, c.server_state >= FinWait1
    PROVE  Result(c, ClosedByClientFin(c, seg), ev \cup {"client_fin"})
<1> DEFINE cs == c.client_state
           ss == c.server_state
           ev2 == ev \cup {"client_fin"}
<1>1. Shape(c, c, cs, ss) /\ Caused(c) /\ cs \in States /\ ss \in States /\ PairInv(cs, ss)
  BY ConnFacts
<1>2. ev2 \in SUBSET Events /\ \A x, y \in States : FinsInv(x, y, ev2)
  BY <1>1, ConnFacts DEF Events, FinsInv
<1> HIDE DEF ev2
<1>3. CASE AcksFinOfServer(c, seg)
  <2>d. PICK d : d = c_push_state(set_release_cause(c, "PassiveClose"), LastAck)
    OBVIOUS
  <2>1. Shape(c, d, LastAck, ss) /\ Caused(d)
    BY <2>d, <1>1, ClientClose, Names
  <2>2. Result(c, d, ev2)
    BY <2>1, <1>1, <1>2, ResultOfShape DEF PairInv
  <2> QED
    BY <2>d, <2>2, <1>3 DEF ClosedByClientFin, ev2
<1>4. CASE ~AcksFinOfServer(c, seg)
  <2>d. PICK d : d = c_push_state(set_release_cause(c, "ActiveClose"), Closing)
    OBVIOUS
  <2>1. Shape(c, d, Closing, ss) /\ Caused(d)
    BY <2>d, <1>1, ClientClose, Names
  <2>2. ASSUME NEW x \in {Closing, Closed} PROVE Result(c, s_push_state(d, x), ev2)
    <3>1. x \in States
      OBVIOUS
    <3>2. Shape(c, s_push_state(d, x), Closing, x) /\ Caused(s_push_state(d, x))
      BY <3>1, <2>1, ServerPush
    <3> QED
      BY <3>1, <3>2, <1>1, <1>2, ResultOfShape DEF PairInv
  <2>3. ss \in {Closing, Closed} => Result(c, d, ev2)
    BY <2>1, <1>1, <1>2, ResultOfShape DEF PairInv
  <2> QED
    BY <2>d, <2>2, <2>3, <1>1, <1>4 DEF ClosedByClientFin, ev2
<1> QED
  BY <1>3, <1>4

(* FIN of the client first.                                                *)
LEMMA FinFirstResult ==
    ASSUME NEW c, NEW ev, ConnInv(c, ev), ~NotConnected(c), c.server_state < FinWait1
    PROVE  Result(c, ActiveClose(c), ev \cup {"client_fin"}) /\ ~Ends(ActiveClose(c))
<1> DEFINE cs == c.client_state
           ss == c.server_state
           ev2 == ev \cup {"client_fin"}
<1>1. Shape(c, c, cs, ss) /\ (ss = LastAck => Caused(c)) /\ cs \in States /\ ss \in States
      /\ PairInv(cs, ss)
  BY ConnFacts
<1>2. ss \in {Established, LastAck}
  BY <1>1 DEF PairInv, NotConnected
<1>3. ev2 \in SUBSET Events /\ FinsInv(FinWait1, ss, ev2)
  BY <1>2, ConnFacts DEF Events, FinsInv
<1>d. PICK d : d = c_push_state(set_release_cause(c, "ActiveClose"), FinWait1)
  OBVIOUS
<1>4. Shape(c, d, FinWait1, ss) /\ (ss = LastAck => Caused(d))
  BY <1>d, <1>1, ClientClose, Names
<1>5. Result(c, d, ev2)
  BY <1>1, <1>2, <1>3, <1>4, ResultOfShape DEF PairInv
<1> QED
  BY <1>d, <1>4, <1>5 DEF ActiveClose, Shape, Ends

(* FIN of the client before the server accepted: the proxy closes both     *)
(* sides on its own.                                                       *)
LEMMA FinEarlyResult ==
    ASSUME NEW c, NEW ev, ConnInv(c, ev), NotConnected(c)
    PROVE  /\ Result(c, ClosedEarly(c), ev \cup {"client_fin", "server_fin"})
           /\ ~Ends(ClosedEarly(c))
           /\ ClosedEarly(c) \in TcpConnection
<1> DEFINE cs == c.client_state
           ss == c.server_state
           ev2 == ev \cup {"client_fin", "server_fin"}
           nxt == wrapping_add(c.c_seqn, 1)
           n2 == wrapping_add(nxt, 1)
           e == ClosedEarly(c)
<1>1. Shape(c, c, cs, ss) /\ cs \in States /\ ss \in States /\ c \in TcpConnection
  BY ConnFacts
<1>2. ev2 \in SUBSET Events /\ FinsInv(FinWait1, LastAck, ev2)
  BY ConnFacts DEF Events, FinsInv
<1>3. nxt \in Seqns /\ n2 \in Seqns
  <2>1. c.c_seqn \in Seqns
    BY <1>1 DEF TcpConnection
  <2> QED
    BY <2>1, WrappingSucc
<1>4. PICK b : b = ActiveClose(c)
  OBVIOUS
<1>5. Shape(c, b, FinWait1, ss)
  BY <1>1, <1>4, ClientClose, Names DEF ActiveClose
<1>d. PICK d : d = s_set_release_cause(s_push_state(b, LastAck), "PassiveClose")
  OBVIOUS
<1>6. Shape(c, d, FinWait1, LastAck) /\ Caused(d)
  BY <1>d, <1>5, ServerClose, Names
<1>7. e = [d EXCEPT !.c_seqn = nxt, !.seqn = n2]
  BY <1>4, <1>d DEF ClosedEarly
<1> HIDE DEF nxt, n2, e
<1>8. /\ e \in TcpConnection /\ e.client_state = FinWait1 /\ e.server_state = LastAck
      /\ e.s_states = d.s_states /\ e.s_cause = d.s_cause
      /\ e.server_index = c.server_index /\ e.c2s_inserted_bytes = c.c2s_inserted_bytes
      /\ e.payload_packet = c.payload_packet
  BY <1>3, <1>6, <1>7 DEF Shape, TcpConnection, KeepsBinding
<1>9. RecordInv(e)
  BY <1>6, <1>8 DEF Shape, RecordInv, Caused, last_state
<1>10. ConnInv(e, ev2)
  BY <1>2, <1>8, <1>9 DEF ConnInv, PairInv, PayloadInv
<1>11. BoundTo(c, e)
  BY <1>1, <1>8 DEF BoundTo, NotConnected
<1> QED
  BY <1>8, <1>10, <1>11 DEF Result, KeepsNoPacket, Ends, e, ev2

(* ACK of the client for the FIN of the server.                            *)
LEMMA AckForFinResult ==
    ASSUME NEW c, NEW ev, ConnInv(c, ev), c.server_state >= FinWait1
    PROVE  Result(c, AckedByClient(c), ev)
<1> DEFINE cs == c.client_state
           ss == c.server_state
           x == CASE ss = FinWait1 -> FinWait2 [] ss = Closing -> Closed [] OTHER -> ss
           y == CASE cs = Established -> CloseWait
                  [] cs = FinWait1 -> Closing
                  [] cs = FinWait2 -> Closed
                  [] OTHER -> cs
           d == CASE ss = FinWait1 -> s_push_state(c, FinWait2)
                  [] ss = Closing -> s_push_state(c, Closed)
                  [] OTHER -> c
           e == CASE cs = Established -> c_push_state(d, CloseWait)
                  [] cs = FinWait1 -> c_push_state(d, Closing)
                  [] cs = FinWait2 -> c_push_state(d, Closed)
                  [] OTHER -> d
<1>1. Shape(c, c, cs, ss) /\ Caused(c) /\ cs \in States /\ ss \in States /\ PairInv(cs, ss)
      /\ ev \in SUBSET Events /\ FinsInv(cs, ss, ev)
  BY ConnFacts
<1>2. Shape(c, d, cs, x) /\ Caused(d)
  BY <1>1, ServerPush, Names
<1>3. AckedByClient(c) = e
  BY DEF AckedByClient
<1> HIDE DEF d
<1>4. Shape(c, e, y, x) /\ Caused(e)
  BY <1>2, ClientPush, Names
<1> HIDE DEF e
<1>5. y \in States /\ x \in States
  BY <1>1
<1>6. /\ ~(y = Closed /\ x = Closed) => PairInv(y, x)
      /\ FinsInv(y, x, ev)
      /\ x = ss \/ x >= LastAck
  BY <1>1 DEF PairInv, FinsInv
<1> HIDE DEF x, y
<1> QED
  BY <1>1, <1>3, <1>4, <1>5, <1>6, ResultOfShape

(* The final ACK of a close that the client began, and RST and timeout:    *)
(* both sides are closed, or the record does not tell of a completed close.*)
LEMMA FinalAckResult ==
    ASSUME NEW c, NEW ev, ConnInv(c, ev), c.server_state = LastAck
    PROVE  LET d == c_push_state(s_push_state(c, Closed), Closed)
           IN  d \in TcpConnection /\ Result(c, d, ev)
<1> DEFINE d == c_push_state(s_push_state(c, Closed), Closed)
<1>1. Shape(c, c, c.client_state, LastAck) /\ Caused(c) /\ ev \in SUBSET Events
      /\ FinsInv(c.client_state, LastAck, ev)
  BY ConnFacts
<1>2. Shape(c, s_push_state(c, Closed), c.client_state, Closed) /\ Caused(s_push_state(c, Closed))
  BY <1>1, ServerPush, Names
<1>3. Shape(c, d, Closed, Closed) /\ Caused(d)
  BY <1>2, ClientPush, Names
<1> HIDE DEF d
<1>4. Result(c, d, ev)
  BY <1>1, <1>3, ResultOfShape DEF FinsInv
<1> QED
  BY <1>3, <1>4 DEF Shape, d

(* An RST of the client and the timer end a connection well; the packet it *)
(* keeps stays until the port is given out again.                          *)
LEMMA AbortResult ==
    ASSUME NEW c, NEW ev, ConnInv(c, ev)
    PROVE  LET d == set_release_cause(c_push_state(c, Closed), "ActiveRst")
           IN  /\ EndsWell(d, ev) /\ d.payload_packet = c.payload_packet
               /\ EndsWell(TimedOut(c), ev) /\ TimedOut(c).payload_packet = c.payload_packet
<1> DEFINE b == c_push_state(c, Closed)
           d == set_release_cause(b, "ActiveRst")
           u == set_release_cause(c, "Timeout")
           e == c_push_state(u, Closed)
<1>1. Shape(c, c, c.client_state, c.server_state) /\ ev \in SUBSET Events
      /\ FinsInv(c.client_state, c.server_state, ev) /\ c.server_state \in States
  BY ConnFacts
<1>2. Shape(c, b, Closed, c.server_state)
  BY <1>1, ClientPush, Names
<1>3. Shape(c, d, Closed, c.server_state) /\ (detailed_records => d.c_cause = "ActiveRst")
  BY <1>2, ClientCause, Names
<1>4. Shape(c, u, c.client_state, c.server_state) /\ (detailed_records => u.c_cause = "Timeout")
  BY <1>1, ClientCause, Names
<1>5. Shape(c, e, Closed, c.server_state) /\ e.c_cause = u.c_cause
  <2>1. Shape(c, e, Closed, c.server_state)
    BY <1>4, ClientPush, Names
  <2> QED
    BY <2>1, <1>4 DEF c_push_state, Shape, TcpConnection
<1> HIDE DEF b, d, u, e
<1>6. EndsWell(d, ev)
  BY <1>1, <1>3 DEF EndsWell, Shape, RecordsClose, Completed, FinsInv
<1>7. EndsWell(e, ev)
  BY <1>1, <1>4, <1>5 DEF EndsWell, Shape, RecordsClose, Completed, FinsInv
<1>8. d.payload_packet = c.payload_packet /\ e.payload_packet = c.payload_packet
  BY <1>3, <1>5 DEF Shape, KeepsBinding
<1> QED
  BY <1>6, <1>7, <1>8 DEF b, d, u, e, TimedOut

(* The last ACK of the client's handshake.                                 *)
LEMMA Ack2Result ==
    ASSUME NEW c, NEW ev, ConnInv(c, ev), c.client_state = SynSent
    PROVE  /\ c_push_state(c, Established) \in TcpConnection
           /\ Result(c, c_push_state(c, Established), ev)
           /\ ~Ends(c_push_state(c, Established))
<1> DEFINE d == c_push_state(c, Established)
           ss == c.server_state
<1>1. Shape(c, c, SynSent, ss) /\ (ss >= LastAck => Caused(c)) /\ ev \in SUBSET Events
      /\ ss \in States /\ PairInv(SynSent, ss) /\ FinsInv(SynSent, ss, ev)
  BY ConnFacts
<1>2. Shape(c, d, Established, ss) /\ (ss >= LastAck => Caused(d))
  BY <1>1, ClientPush, Names
<1> HIDE DEF d
<1>3. Result(c, d, ev)
  BY <1>1, <1>2, ResultOfShape DEF FinsInv, PairInv
<1> QED
  BY <1>2, <1>3 DEF Shape, Ends, d

(* A SYN on a connection whose client side is closed.                      *)
LEMMA SynAgainResult ==
    ASSUME NEW c, NEW ev, ConnInv(c, ev), NEW seg \in Segments, NEW isn \in Seqns,
           c.client_state = Closed
    PROVE  /\ client_syn_received(c, seg, isn) \in TcpConnection
           /\ Result(c, client_syn_received(c, seg, isn), ev)
           /\ ~Ends(client_syn_received(c, seg, isn))
<1> DEFINE d == c_push_state(c, SynSent)
           n == wrapping_add(seg.seq, 1)
           e == client_syn_received(c, seg, isn)
           ss == c.server_state
<1>1. Shape(c, c, Closed, ss) /\ (ss >= LastAck => Caused(c)) /\ ev \in SUBSET Events
      /\ ss \in States /\ PairInv(Closed, ss) /\ FinsInv(Closed, ss, ev)
  BY ConnFacts
<1>2. Shape(c, d, SynSent, ss) /\ (ss >= LastAck => Caused(d))
  BY <1>1, ClientPush, Names
<1>3. n \in Seqns
  BY WrappingType, SeqAssumption DEF Segments, Seqns
<1>4. e = [d EXCEPT !.c_seqn = isn, !.ackn_p2c = n]
  BY DEF client_syn_received
<1> HIDE DEF d, n, e
<1>5. /\ e \in TcpConnection /\ e.client_state = SynSent /\ e.server_state = ss
      /\ e.s_states = d.s_states /\ e.s_cause = d.s_cause
      /\ e.server_index = c.server_index /\ e.c2s_inserted_bytes = c.c2s_inserted_bytes
      /\ e.payload_packet = c.payload_packet
  BY <1>2, <1>3, <1>4 DEF Shape, TcpConnection, KeepsBinding
<1>6. ss \in {LastAck, Closing}
  BY <1>1 DEF PairInv
<1>7. RecordInv(e)
  BY <1>2, <1>5 DEF Shape, RecordInv, Caused, last_state
<1>8. ConnInv(e, ev) /\ BoundTo(c, e)
  BY <1>1, <1>5, <1>6, <1>7 DEF ConnInv, PairInv, PayloadInv, FinsInv, BoundTo
<1> QED
  BY <1>5, <1>8 DEF Result, KeepsNoPacket, Ends, e

(* A new connection.                                                       *)
LEMMA NewResult ==
    ASSUME NEW seg \in Segments, NEW isn \in Seqns
    PROVE  /\ ConnInv(client_syn_received(NewConnection, seg, isn), {})
           /\ client_syn_received(NewConnection, seg, isn).payload_packet = << >>
<1> DEFINE new == NewConnection
           d == c_push_state(new, SynSent)
           n == wrapping_add(seg.seq, 1)
           e == client_syn_received(new, seg, isn)
<1>1. n \in Seqns /\ 0 \in Seqns /\ 0 \in Servers
  BY WrappingType, SeqAssumption, ProxyAssumption DEF Segments, Seqns
<1>2. new \in TcpConnection
  BY <1>1 DEF NewConnection, TcpConnection, ReleaseCauses
<1>3. new.payload_packet = << >> /\ Shape(new, new, Closed, Listen)
  BY <1>2 DEF NewConnection, Shape, KeepsBinding, last_state
<1>4. e = [d EXCEPT !.c_seqn = isn, !.ackn_p2c = n]
  BY DEF client_syn_received
<1> HIDE DEF new
<1>5. Shape(new, d, SynSent, Listen)
  BY <1>3, ClientPush, Names
<1> HIDE DEF d, n, e
<1>6. /\ e \in TcpConnection /\ e.client_state = SynSent /\ e.server_state = Listen
      /\ e.s_states = d.s_states /\ e.payload_packet = << >>
  BY <1>1, <1>3, <1>4, <1>5 DEF Shape, TcpConnection, KeepsBinding
<1>7. RecordInv(e)
  BY <1>5, <1>6 DEF Shape, RecordInv, last_state
<1>8. ConnInv(e, {})
  BY <1>6, <1>7 DEF ConnInv, PairInv, PayloadInv, FinsInv
<1> QED
  BY <1>6, <1>8 DEF e, new

(* The first payload: the server is chosen and its SYN-ACK awaited.        *)
LEMMA FirstPayloadResult ==
    ASSUME NEW c, NEW ev, ConnInv(c, ev), NEW seg \in Segments, IsFirstPayload(c),
           NEW choice \in [server : Servers, data : Seq(Bytes)]
    PROVE  LET d == s_push_state(s_init(select_server(c, seg, choice)), SynReceived)
           IN  /\ ConnInv(d, ev) /\ BoundTo(c, d)
               /\ c.payload_packet = << >> /\ d.payload_packet # << >>
<1> DEFINE b == s_init(select_server(c, seg, choice))
           d == s_push_state(b, SynReceived)
<1>1. c \in TcpConnection /\ c.client_state = Established /\ c.server_state = Listen
      /\ ev \in SUBSET Events
  BY ConnFacts DEF IsFirstPayload
<1>2. b \in TcpConnection /\ b.payload_packet # << >> /\ b.client_state = Established
  BY <1>1, Selected
<1> HIDE DEF b
<1>3. /\ d \in TcpConnection /\ d.client_state = Established /\ d.server_state = SynReceived
      /\ d.payload_packet # << >> /\ (detailed_records => last_state(d) = SynReceived)
  BY <1>2, ServerPushed, Names DEF KeepsBinding
<1> HIDE DEF d
<1>4. ConnInv(d, ev) /\ BoundTo(c, d)
  BY <1>1, <1>3 DEF ConnInv, PairInv, PayloadInv, FinsInv, BoundTo, RecordInv
<1>5. c.payload_packet = << >>
  BY <1>1 DEF ConnInv, PayloadInv
<1> QED
  BY <1>3, <1>4, <1>5 DEF b, d

(* The SYN-ACK of the server.                                              *)
LEMMA SynAckResult ==
    ASSUME NEW c, NEW ev, ConnInv(c, ev), NEW seg \in Segments, AwaitsSynAck(c)
    PROVE  LET d == server_synack_received(c, seg)
           IN  /\ d \in TcpConnection /\ ~Ends(d)
               /\ Result(c, d, ev \cup {"synack"})
<1> DEFINE b == s_push_state(c, Established)
           d == server_synack_received(c, seg)
           ev2 == ev \cup {"synack"}
<1>1. /\ Shape(c, c, Established, SynReceived) /\ c \in TcpConnection
      /\ c.server_state = SynReceived /\ c.client_state = Established /\ ev2 \in SUBSET Events
  BY ConnFacts DEF AwaitsSynAck, PairInv, Events
<1>2. Shape(c, b, Established, Established)
  BY <1>1, ServerPush, Names
<1>3. /\ d \in TcpConnection /\ d.client_state = Established /\ d.server_state = Established
      /\ d.payload_packet = << >> /\ d.s_states = b.s_states
      /\ d.server_index = c.server_index /\ d.c2s_inserted_bytes = c.c2s_inserted_bytes
  BY <1>1, <1>2, Answered
<1> HIDE DEF b, d
<1>4. RecordInv(d)
  BY <1>2, <1>3 DEF Shape, RecordInv, last_state
<1>5. ConnInv(d, ev2) /\ BoundTo(c, d)
  BY <1>1, <1>3, <1>4 DEF ConnInv, PairInv, PayloadInv, FinsInv, BoundTo
<1> QED
  BY <1>3, <1>5 DEF Result, KeepsNoPacket, Ends, d, ev2

(* FIN of the server.                                                      *)
LEMMA ServerFinResult ==
    ASSUME NEW c, NEW ev, ConnInv(c, ev), NEW seg
    PROVE  /\ ClosedByServerFin(c, seg) \in TcpConnection
           /\ Result(c, ClosedByServerFin(c, seg), ev \cup {"server_fin"})
<1> DEFINE cs == c.client_state
           ss == c.server_state
           ev2 == ev \cup {"server_fin"}
           e == ClosedByServerFin(c, seg)
<1>1. Shape(c, c, cs, ss) /\ cs \in States /\ ss \in States /\ PairInv(cs, ss)
      /\ FinsInv(cs, ss, ev)
  BY ConnFacts
<1>2. /\ ev2 \in SUBSET Events
      /\ cs < FinWait1 => FinsInv(cs, FinWait1, ev2)
      /\ cs >= FinWait1 => \A x, y \in States : FinsInv(x, y, ev2)
  BY <1>1, ConnFacts DEF Events, FinsInv
<1> HIDE DEF ev2
<1>3. CASE cs < FinWait1
  <2>d. PICK d : d = s_set_release_cause(s_push_state(c, FinWait1), "ActiveClose")
    OBVIOUS
  <2>1. Shape(c, d, cs, FinWait1) /\ Caused(d)
    BY <2>d, <1>1, ServerClose, Names
  <2>2. PairInv(cs, FinWait1)
    BY <1>1, <1>3 DEF PairInv
  <2>3. Result(c, d, ev2)
    BY <2>1, <2>2, <1>1, <1>2, <1>3, ResultOfShape
  <2>4. e = d
    BY <2>d, <1>1, <1>3 DEF ClosedByServerFin
  <2> QED
    BY <2>1, <2>3, <2>4 DEF Shape, ev2
<1>4. CASE cs >= FinWait1 /\ AcksFinOfClient(c, seg)
  <2>d. PICK d : d = s_push_state(s_set_release_cause(c, "PassiveClose"), LastAck)
    OBVIOUS
  <2>1. Shape(c, d, cs, LastAck) /\ Caused(d)
    BY <2>d, <1>1, ServerClose, Names
  <2>2. PairInv(cs, LastAck)
    BY <1>1, <1>4 DEF PairInv
  <2>3. Result(c, d, ev2)
    BY <2>1, <2>2, <1>1, <1>2, <1>4, ResultOfShape
  <2>4. e = d
    BY <2>d, <1>1, <1>4 DEF ClosedByServerFin
  <2> QED
    BY <2>1, <2>3, <2>4 DEF Shape, ev2
<1>5. CASE cs >= FinWait1 /\ ~AcksFinOfClient(c, seg)
  <2>d. PICK d : d = s_push_state(s_set_release_cause(c, "ActiveClose"), Closing)
    OBVIOUS
  <2>1. Shape(c, d, cs, Closing) /\ Caused(d)
    BY <2>d, <1>1, ServerClose, Names
  <2>2. e = CASE cs = FinWait1 -> c_push_state(d, Closing)
              [] cs = FinWait2 -> c_push_state(d, Closed)
              [] OTHER -> d
    BY <2>d, <1>1, <1>5 DEF ClosedByServerFin
  <2>3. ASSUME NEW x \in {Closing, Closed}
        PROVE  c_push_state(d, x) \in TcpConnection /\ Result(c, c_push_state(d, x), ev2)
    <3>1. x \in States
      OBVIOUS
    <3>2. Shape(c, c_push_state(d, x), x, Closing) /\ Caused(c_push_state(d, x))
      BY <3>1, <2>1, ClientPush
    <3>3. PairInv(x, Closing)
      BY DEF PairInv
    <3>4. Result(c, c_push_state(d, x), ev2)
      BY <3>1, <3>2, <3>3, <1>1, <1>2, <1>5, ResultOfShape
    <3> QED
      BY <3>2, <3>4 DEF Shape
  <2>4. cs \notin {FinWait1, FinWait2} => d \in TcpConnection /\ Result(c, d, ev2)
    <3>1. cs \notin {FinWait1, FinWait2} => PairInv(cs, Closing)
      BY <1>1, <1>5 DEF PairInv
    <3> QED
      BY <3>1, <2>1, <1>1, <1>2, <1>5, ResultOfShape DEF Shape
  <2> QED
    BY <2>2, <2>3, <2>4 DEF ev2
<1> QED
  BY <1>1, <1>3, <1>4, <1>5

(* ACK of the server while the client closes.                              *)
LEMMA ServerAckResult ==
    ASSUME NEW c, NEW ev, ConnInv(c, ev), NEW seg
    PROVE  /\ AckedByServer(c, seg) \in TcpConnection
           /\ Result(c, AckedByServer(c, seg), ev)
<1> DEFINE cs == c.client_state
           ss == c.server_state
<1>1. Shape(c, c, cs, ss) /\ cs \in States /\ ss \in States /\ PairInv(cs, ss)
      /\ FinsInv(cs, ss, ev) /\ (ss >= LastAck => Caused(c)) /\ ev \in SUBSET Events
      /\ c \in TcpConnection
  BY ConnFacts
<1>2. Result(c, c, ev)
  BY <1>1, ResultOfShape
<1>3. CASE cs = LastAck
  <2>d. PICK d : d = s_push_state(c_push_state(c, Closed), Closed)
    OBVIOUS
  <2>1. Shape(c, c_push_state(c, Closed), Closed, ss) /\ (ss >= LastAck => Caused(c_push_state(c, Closed)))
    BY <1>1, ClientPush, Names
  <2>2. ss >= LastAck
    BY <1>1, <1>3 DEF PairInv
  <2>3. Shape(c, d, Closed, Closed) /\ Caused(d)
    BY <2>d, <2>1, <2>2, ServerPush, Names
  <2>4. FinsInv(Closed, Closed, ev)
    BY <1>1, <1>3, <2>2 DEF FinsInv
  <2>5. Result(c, d, ev)
    BY <2>3, <2>4, <1>1, ResultOfShape
  <2> QED
    BY <2>d, <2>3, <2>5, <1>1, <1>2, <1>3 DEF AckedByServer, Shape
<1>4. CASE cs \in {FinWait1, Closing}
  <2> DEFINE x == IF cs = FinWait1 THEN FinWait2 ELSE Closed
  <2>d. PICK d : d = c_push_state(c, x)
    OBVIOUS
  <2>1. x \in States
    OBVIOUS
  <2>2. Shape(c, d, x, ss) /\ (ss >= LastAck => Caused(d))
    BY <2>d, <2>1, <1>1, ClientPush
  <2>3. ~(x = Closed /\ ss = Closed) => PairInv(x, ss)
    BY <1>1, <1>4 DEF PairInv
  <2>4. FinsInv(x, ss, ev)
    BY <1>1, <1>4 DEF FinsInv
  <2>5. AckedByServer(c, seg) \in {c, d}
    BY <2>d, <1>4 DEF AckedByServer
  <2> HIDE DEF x
  <2>6. Result(c, d, ev)
    BY <2>1, <2>2, <2>3, <2>4, <1>1, ResultOfShape
  <2> QED
    BY <2>2, <2>5, <2>6, <1>1, <1>2 DEF Shape
<1>5. CASE cs \notin {LastAck, FinWait1, Closing}
  BY <1>1, <1>2, <1>5 DEF AckedByServer
<1> QED
  BY <1>3, <1>4, <1>5

(***************************************************************************)
(* Steps of the handler                                                    *)
(***************************************************************************)

(* A step that touches no connection.                                      *)
TouchesNone ==
    /\ tcp' = tcp
    /\ seen' = seen
    /\ \A q \in Ports : InUse(q)' <=> InUse(q)

(* A step that changes the connection of p only: it begins, goes on, or is *)
(* released.                                                               *)
Changes(p) ==
    /\ \A q \in Ports : q # p => (InUse(q)' <=> InUse(q))
    /\ \E d \in TcpConnection, ev \in SUBSET Events :
        /\ tcp' = [tcp EXCEPT ![p] = d]
        /\ seen' = [seen EXCEPT ![p] = ev]
        /\ InUse(p)' => ConnInv(d, ev)
        /\ InUse(p)' /\ InUse(p) => BoundTo(tcp[p], d)
        /\ ~InUse(p)' => EndsWell(d, ev)

(* The same, in a step that puts no packet aside.                          *)
Touches(p) == Changes(p) /\ KeepsNoPacket(tcp[p], tcp'[p])

(* What the numbers that the end of a branch remembers do not influence.   *)
LEMMA NumbersOfResult ==
    ASSUME NEW b, NEW c, NEW d, NEW ev, SameButNumbers(c, d), Result(b, c, ev)
    PROVE  Result(b, d, ev) /\ d \in TcpConnection /\ (Ends(d) <=> Ends(c))
<1>1. d \in TcpConnection /\ (Ends(d) <=> Ends(c))
  BY DEF SameButNumbers, Ends
<1>2. ASSUME ConnInv(c, ev), BoundTo(b, c) PROVE ConnInv(d, ev) /\ BoundTo(b, d)
  BY <1>2, NumbersDoNotMatter DEF SameButNumbers, BoundTo
<1>3. ASSUME EndsWell(c, ev) PROVE EndsWell(d, ev)
  BY <1>3 DEF SameButNumbers, EndsWell, RecordsClose, last_state
<1>4. KeepsNoPacket(b, d)
  BY DEF Result, KeepsNoPacket, SameButNumbers
<1> QED
  BY <1>1, <1>2, <1>3, <1>4 DEF Result

(* release_port ends the use of its port, and of no other.                 *)
LEMMA ReleaseEnds ==
    ASSUME CMTypeOK, NEW p \in Ports, release_port(p)
    PROVE  ~InUse(p)' /\ \A q \in Ports : q # p => (InUse(q)' <=> InUse(q))
BY DEF CMTypeOK, release_port, InUse, Connection

(* A branch with a Result, whether it ends with a release or not.          *)
LEMMA BranchTouches ==
    ASSUME DPTypeOK, CMTypeOK, NEW p \in Ports, InUse(p),
           NEW c, NEW d, NEW ev \in SUBSET Events,
           Result(tcp[p], c, ev), SameButNumbers(c, d),
           tcp' = [tcp EXCEPT ![p] = d], seen' = [seen EXCEPT ![p] = ev],
           Finish(p, c, FALSE)
    PROVE  Touches(p)
<1>1. Result(tcp[p], d, ev) /\ d \in TcpConnection /\ (Ends(d) <=> Ends(c)) /\ tcp'[p] = d
  BY NumbersOfResult DEF DPTypeOK
<1>2. CASE Ends(c)
  <2>1. release_port(p)
    BY <1>2 DEF Finish, Ends
  <2>2. ~InUse(p)' /\ \A q \in Ports : q # p => (InUse(q)' <=> InUse(q))
    BY <2>1, ReleaseEnds
  <2> QED
    BY <1>1, <1>2, <2>2 DEF Touches, Changes, Result
<1>3. CASE ~Ends(c)
  <2>1. con' = con
    BY <1>3 DEF Finish, Ends, cmVars
  <2>2. \A q \in Ports : InUse(q)' <=> InUse(q)
    BY <2>1 DEF InUse
  <2> QED
    BY <1>1, <1>3, <2>2 DEF Touches, Changes, Result
<1> QED
  BY <1>2, <1>3

(* The state in which the handler looks at a packet of a connection.       *)
LEMMA HandlerFacts ==
    ASSUME DPInv, Idle, NEW p \in Ports, InUse(p)
    PROVE  /\ DPTypeOK /\ CMTypeOK
           /\ ConnInv(tcp[p], seen[p]) /\ tcp[p] \in TcpConnection
           /\ seen[p] \in SUBSET Events
           /\ Result(tcp[p], tcp[p], seen[p]) /\ ~Ends(tcp[p])
           /\ seen = [seen EXCEPT ![p] = seen[p]]
<1>1. DPTypeOK /\ CMTypeOK /\ ConnInv(tcp[p], seen[p])
  BY DEF DPInv, CMInv, Idle
<1>2. tcp[p] \in TcpConnection /\ seen[p] \in SUBSET Events
      /\ seen = [seen EXCEPT ![p] = seen[p]]
  BY <1>1 DEF DPTypeOK
<1>3. BoundTo(tcp[p], tcp[p])
  BY <1>2 DEF BoundTo
<1>4. ~Ends(tcp[p])
  BY <1>1 DEF ConnInv, PairInv, Ends
<1> QED
  BY <1>1, <1>2, <1>3, <1>4 DEF Result, KeepsNoPacket

(* The end of the handler after a branch with a Result.                    *)
LEMMA ClientEnd ==
    ASSUME DPInv, Idle, NEW p \in Ports, InUse(p), NEW seg \in Segments,
           NEW c \in TcpConnection, NEW ev \in SUBSET Events, NEW sent,
           Result(tcp[p], c, ev), EndClient(p, c, seg, sent),
           seen' = [seen EXCEPT ![p] = ev], Finish(p, c, FALSE)
    PROVE  Touches(p)
<1>1. DPTypeOK /\ CMTypeOK
  BY HandlerFacts
<1>2. PICK d : SameButNumbers(c, d) /\ tcp' = [tcp EXCEPT ![p] = d]
  BY <1>1, EndClientSets
<1> QED
  BY <1>1, <1>2, BranchTouches

(* The same for a branch for segments of a server.                         *)
LEMMA ServerEnd ==
    ASSUME DPInv, Idle, NEW p \in Ports, InUse(p), NEW seg \in Segments,
           NEW c \in TcpConnection, NEW ev \in SUBSET Events, NEW sent,
           Result(tcp[p], c, ev), EndServer(p, c, seg, sent),
           seen' = [seen EXCEPT ![p] = ev], Finish(p, c, FALSE)
    PROVE  Touches(p)
<1>1. DPTypeOK /\ CMTypeOK
  BY HandlerFacts
<1>2. PICK d : SameButNumbers(c, d) /\ tcp' = [tcp EXCEPT ![p] = d]
  BY <1>1, EndServerSets
<1> QED
  BY <1>1, <1>2, BranchTouches

(* A branch that leaves the manager alone ends no connection.              *)
LEMMA NoRelease ==
    ASSUME NEW p, NEW c, ~Ends(c), UNCHANGED cmVars
    PROVE  Finish(p, c, FALSE)
BY DEF Finish, Ends

(* The branches that only forward or reject a packet of a client.          *)
LEMMA ClientPasses ==
    ASSUME DPInv, NEW p \in Ports, NEW seg \in Segments,
           ClientResent(p, seg) \/ ClientSynUnexpected(p, seg) \/ ClientOther(p, seg)
    PROVE  Touches(p)
<1>1. Idle /\ InUse(p) /\ UNCHANGED cmVars /\ seen' = seen
      /\ \E sent : EndClient(p, tcp[p], seg, sent)
  BY DEF ClientResent, ClientSynUnexpected, ClientOther
<1>2. PICK sent : EndClient(p, tcp[p], seg, sent)
  BY <1>1
<1>3. Result(tcp[p], tcp[p], seen[p]) /\ ~Ends(tcp[p]) /\ tcp[p] \in TcpConnection
      /\ seen[p] \in SUBSET Events /\ seen' = [seen EXCEPT ![p] = seen[p]]
  BY <1>1, HandlerFacts
<1>4. Finish(p, tcp[p], FALSE)
  BY <1>1, <1>3, NoRelease
<1> QED
  BY <1>1, <1>2, <1>3, <1>4, ClientEnd

(* The ACK that ends the handshake with the client.                        *)
LEMMA ClientAck2Touches ==
    ASSUME DPInv, NEW p \in Ports, NEW seg \in Segments, ClientAck2(p, seg)
    PROVE  Touches(p)
<1>1. Idle /\ InUse(p) /\ UNCHANGED cmVars /\ seen' = seen /\ tcp[p].client_state = SynSent
      /\ EndClient(p, c_push_state(tcp[p], Established), seg, << >>)
  BY DEF ClientAck2, IsAck2
<1>2. ConnInv(tcp[p], seen[p]) /\ seen[p] \in SUBSET Events
      /\ seen' = [seen EXCEPT ![p] = seen[p]]
  BY <1>1, HandlerFacts
<1>c. PICK c : c = c_push_state(tcp[p], Established)
  OBVIOUS
<1>3. c \in TcpConnection /\ Result(tcp[p], c, seen[p]) /\ ~Ends(c)
  BY <1>1, <1>2, <1>c, Ack2Result
<1>4. Finish(p, c, FALSE)
  BY <1>1, <1>3, NoRelease
<1> QED
  BY <1>1, <1>2, <1>c, <1>3, <1>4, ClientEnd

(* The client's FIN after the server's, which may end the connection.      *)
LEMMA ClientFinAfterServerTouches ==
    ASSUME DPInv, NEW p \in Ports, NEW seg \in Segments, ClientFinAfterServer(p, seg)
    PROVE  Touches(p)
<1>c. PICK c : c = ClosedByClientFin(tcp[p], seg)
  OBVIOUS
<1>1. Idle /\ InUse(p) /\ tcp[p].server_state >= FinWait1
      /\ EndClient(p, c, seg, <<Packet("wire", p, seg)>>) /\ Finish(p, c, FALSE)
      /\ seen' = [seen EXCEPT ![p] = seen[p] \cup {"client_fin"}]
  BY <1>c DEF ClientFinAfterServer
<1>2. ConnInv(tcp[p], seen[p]) /\ seen[p] \cup {"client_fin"} \in SUBSET Events
  BY <1>1, HandlerFacts DEF Events
<1>3. Result(tcp[p], c, seen[p] \cup {"client_fin"}) /\ c \in TcpConnection
  BY <1>1, <1>2, <1>c, FinAfterServerResult, ResultTyped
<1> QED
  BY <1>1, <1>2, <1>3, ClientEnd

(* The client's FIN on an established connection, before the server's.     *)
LEMMA ClientFinFirstTouches ==
    ASSUME DPInv, NEW p \in Ports, NEW seg \in Segments, ClientFinFirst(p, seg)
    PROVE  Touches(p)
<1>c. PICK c : c = ActiveClose(tcp[p])
  OBVIOUS
<1>1. Idle /\ InUse(p) /\ ~NotConnected(tcp[p]) /\ tcp[p].server_state < FinWait1
      /\ EndClient(p, c, seg, <<Packet("wire", p, seg)>>) /\ UNCHANGED cmVars
      /\ seen' = [seen EXCEPT ![p] = seen[p] \cup {"client_fin"}]
  BY <1>c DEF ClientFinFirst
<1>2. ConnInv(tcp[p], seen[p]) /\ seen[p] \cup {"client_fin"} \in SUBSET Events
  BY <1>1, HandlerFacts DEF Events
<1>3. Result(tcp[p], c, seen[p] \cup {"client_fin"}) /\ ~Ends(c) /\ c \in TcpConnection
  BY <1>1, <1>2, <1>c, FinFirstResult, ResultTyped
<1>4. Finish(p, c, FALSE)
  BY <1>1, <1>3, NoRelease
<1> QED
  BY <1>1, <1>2, <1>3, <1>4, ClientEnd

(* The client's FIN before a server was selected or has answered: the      *)
(* handler answers in its place.                                           *)
LEMMA ClientFinEarlyTouches ==
    ASSUME DPInv, NEW p \in Ports, NEW seg \in Segments, ClientFinEarly(p, seg)
    PROVE  Touches(p)
<1> DEFINE ev == seen[p] \cup {"client_fin", "server_fin"}
<1>c. PICK c : c = ClosedEarly(tcp[p])
  OBVIOUS
<1>1. Idle /\ InUse(p) /\ NotConnected(tcp[p]) /\ UNCHANGED cmVars
      /\ (\E sent : EndClient(p, c, seg, sent))
      /\ seen' = [seen EXCEPT ![p] = ev]
  BY <1>c DEF ClientFinEarly
<1>2. ConnInv(tcp[p], seen[p]) /\ ev \in SUBSET Events
  BY <1>1, HandlerFacts DEF Events
<1>3. Result(tcp[p], c, ev) /\ ~Ends(c) /\ c \in TcpConnection
  BY <1>1, <1>2, <1>c, FinEarlyResult
<1>4. Finish(p, c, FALSE)
  BY <1>1, <1>3, NoRelease
<1>5. PICK sent : EndClient(p, c, seg, sent)
  BY <1>1
<1> HIDE DEF ev
<1> QED
  BY <1>1, <1>2, <1>3, <1>4, <1>5, ClientEnd

(* The client's ACK for the server's FIN, in either order of the two FINs. *)
LEMMA ClientAckForFinTouches ==
    ASSUME DPInv, NEW p \in Ports, NEW seg \in Segments,
           ClientAckForFin(p, seg) \/ ClientFinalAck(p, seg)
    PROVE  Touches(p)
<1>1. Idle /\ InUse(p) /\ seen' = seen
  BY DEF ClientAckForFin, ClientFinalAck
<1>2. ConnInv(tcp[p], seen[p]) /\ seen[p] \in SUBSET Events
      /\ seen' = [seen EXCEPT ![p] = seen[p]]
  BY <1>1, HandlerFacts
<1>3. PICK c : /\ Result(tcp[p], c, seen[p])
               /\ EndClient(p, c, seg, << >>) /\ Finish(p, c, FALSE)
  <2>1. CASE ClientAckForFin(p, seg)
    BY <2>1, <1>2, AckForFinResult DEF ClientAckForFin
  <2>2. CASE ClientFinalAck(p, seg)
    BY <2>2, <1>2, FinalAckResult DEF ClientFinalAck
  <2> QED
    BY <2>1, <2>2
<1>4. c \in TcpConnection
  BY <1>3, ResultTyped
<1> QED
  BY <1>1, <1>2, <1>3, <1>4, ClientEnd

(* An RST releases the connection, whatever its states are.                *)
LEMMA ClientRstTouches ==
    ASSUME DPInv, NEW p \in Ports, NEW seg \in Segments, ClientRst(p, seg)
    PROVE  Touches(p)
<1>c. PICK c : c = set_release_cause(c_push_state(tcp[p], Closed), "ActiveRst")
  OBVIOUS
<1>1. Idle /\ InUse(p) /\ EndClient(p, c, seg, << >>) /\ Finish(p, c, TRUE) /\ seen' = seen
  BY <1>c DEF ClientRst
<1>2. DPTypeOK /\ CMTypeOK /\ ConnInv(tcp[p], seen[p]) /\ seen[p] \in SUBSET Events
      /\ seen' = [seen EXCEPT ![p] = seen[p]]
  BY <1>1, HandlerFacts
<1>3. EndsWell(c, seen[p]) /\ c \in TcpConnection /\ c.payload_packet = tcp[p].payload_packet
  BY <1>2, <1>c, AbortResult DEF EndsWell
<1>4. PICK d : SameButNumbers(c, d) /\ tcp' = [tcp EXCEPT ![p] = d]
  BY <1>1, <1>2, <1>3, EndClientSets
<1>5. EndsWell(d, seen[p]) /\ d \in TcpConnection /\ KeepsNoPacket(tcp[p], d)
  BY <1>3, <1>4 DEF SameButNumbers, EndsWell, RecordsClose, last_state, KeepsNoPacket
<1>6. ~InUse(p)' /\ \A q \in Ports : q # p => (InUse(q)' <=> InUse(q))
  BY <1>1, <1>2, ReleaseEnds DEF Finish
<1>7. tcp'[p] = d
  BY <1>2, <1>4 DEF DPTypeOK
<1> QED
  BY <1>2, <1>4, <1>5, <1>6, <1>7 DEF Touches, Changes

(* A second SYN keeps the connection and arms its timer again.             *)
LEMMA ClientSynAgainTouches ==
    ASSUME DPInv, NEW p \in Ports, NEW seg \in Segments, NEW isn \in Seqns,
           ClientSynAgain(p, seg, isn)
    PROVE  Touches(p)
<1>c. PICK c : c = client_syn_received(tcp[p], seg, isn)
  OBVIOUS
<1>1. Idle /\ InUse(p) /\ tcp[p].client_state = Closed /\ Reschedule(p) /\ seen' = seen
      /\ \E s, sent : EndClient(p, c, s, sent) /\ s = SynAck(seg, isn)
  BY <1>c DEF ClientSynAgain, Reschedule
<1>2. DPTypeOK /\ CMTypeOK /\ ConnInv(tcp[p], seen[p]) /\ seen[p] \in SUBSET Events
      /\ seen' = [seen EXCEPT ![p] = seen[p]]
  BY <1>1, HandlerFacts
<1>3. c \in TcpConnection /\ Result(tcp[p], c, seen[p]) /\ ~Ends(c)
  BY <1>1, <1>2, <1>c, SynAgainResult
<1>4. SynAck(seg, isn) \in Segments
  <2> DEFINE n == wrapping_add(seg.seq, 1)
  <2>1. n \in Seqns
    BY WrappingSucc DEF Segments
  <2> HIDE DEF n
  <2> QED
    BY <2>1 DEF SynAck, make_reply_packet, Segments, n
<1>5. PICK d : SameButNumbers(c, d) /\ tcp' = [tcp EXCEPT ![p] = d]
  BY <1>1, <1>2, <1>3, <1>4, EndClientSets
<1>6. Result(tcp[p], d, seen[p]) /\ d \in TcpConnection /\ ~Ends(d)
  BY <1>3, <1>5, NumbersOfResult
<1>7. \A q \in Ports : InUse(q)' <=> InUse(q)
  BY <1>1, <1>2 DEF Reschedule, Scheduled, InUse, CMTypeOK, Connection
<1>8. tcp'[p] = d
  BY <1>2, <1>5 DEF DPTypeOK
<1> QED
  BY <1>1, <1>2, <1>5, <1>6, <1>7, <1>8 DEF Touches, Changes, Result

(* The first payload selects a server that the callback may choose, and is *)
(* the only packet that is put aside.                                      *)
LEMMA ClientFirstPayloadChanges ==
    ASSUME DPInv, NEW p \in Ports, NEW seg \in ClientSegs,
           NEW choice \in f_select_server(seg.data), ClientFirstPayload(p, seg, choice)
    PROVE  /\ Changes(p)
           /\ tcp[p].payload_packet = << >> /\ tcp'[p].payload_packet # << >>
<1>c. PICK c : c = s_push_state(s_init(select_server(tcp[p], seg, choice)), SynReceived)
  OBVIOUS
<1>1. Idle /\ InUse(p) /\ IsFirstPayload(tcp[p]) /\ con' = con /\ seen' = seen
      /\ \E sent : EndClient(p, c, seg, sent)
  BY <1>c DEF ClientFirstPayload, cmVars
<1>2. DPTypeOK /\ ConnInv(tcp[p], seen[p]) /\ seen[p] \in SUBSET Events
      /\ seen' = [seen EXCEPT ![p] = seen[p]]
  BY <1>1, HandlerFacts
<1>3. seg \in Segments /\ choice \in [server : Servers, data : Seq(Bytes)]
  BY ProxyAssumption, CallbackAssumption
<1>4. /\ ConnInv(c, seen[p]) /\ BoundTo(tcp[p], c)
      /\ tcp[p].payload_packet = << >> /\ c.payload_packet # << >>
  BY <1>1, <1>2, <1>3, <1>c, FirstPayloadResult
<1>5. c \in TcpConnection
  BY <1>4 DEF ConnInv
<1>6. PICK d : SameButNumbers(c, d) /\ tcp' = [tcp EXCEPT ![p] = d]
  BY <1>1, <1>2, <1>3, <1>5, EndClientSets
<1>7. ConnInv(d, seen[p]) /\ BoundTo(tcp[p], d) /\ d.payload_packet # << >> /\ d \in TcpConnection
  BY <1>4, <1>6, NumbersDoNotMatter DEF SameButNumbers, BoundTo
<1>8. \A q \in Ports : InUse(q)' <=> InUse(q)
  BY <1>1 DEF InUse
<1>9. tcp'[p] = d
  BY <1>2, <1>6 DEF DPTypeOK
<1> QED
  BY <1>1, <1>2, <1>4, <1>6, <1>7, <1>8, <1>9 DEF Changes

(* A new client is given a port that is not in use, and a fresh connection.*)
LEMMA ClientSynTouches ==
    ASSUME DPInv, NEW s \in Socks, NEW seg \in Segments, NEW isn \in Seqns,
           ClientSyn(s, seg, isn)
    PROVE  \E p \in Ports : Touches(p) /\ tcp'[p] = client_syn_received(NewConnection, seg, isn)
<1>1. Accept(s) /\ Idle
  BY DEF ClientSyn, Accept
<1>2. CMInv /\ CMTypeOK /\ DPTypeOK
  BY <1>1 DEF DPInv, Idle, CMInv
<1>3. free_ports \in Seq(Ports) /\ free_ports # << >>
  BY <1>1, <1>2 DEF CMTypeOK, Accept
<1>p. PICK p \in Ports : p = Head(free_ports)
  BY <1>3, ElementsTail
<1>4. ~InUse(p)
  <2>1. p \in Elements(free_ports)
    BY <1>p, <1>3, ElementsTail
  <2> QED
    BY <2>1, <1>2, InvFacts DEF InUse
<1>5. \A q \in Ports : q # p => (InUse(q)' <=> InUse(q))
  BY <1>1, <1>2, <1>p DEF Accept, InUse, CMTypeOK
<1>c. PICK c : c = client_syn_received(NewConnection, seg, isn)
  OBVIOUS
<1>6. tcp' = [tcp EXCEPT ![p] = c] /\ seen' = [seen EXCEPT ![p] = {}]
  BY <1>p, <1>c DEF ClientSyn
<1>7. ConnInv(c, {}) /\ c \in TcpConnection /\ c.payload_packet = << >>
  BY <1>c, NewResult DEF ConnInv
<1>8. InUse(p)'
  BY <1>1, <1>2, <1>p, PortsArePositive DEF Accept, InUse, CMTypeOK, Scheduled
<1>9. Touches(p)
  <2> DEFINE ev == {}
  <2>1. ev \in SUBSET Events
    OBVIOUS
  <2>2. ConnInv(c, ev) /\ seen' = [seen EXCEPT ![p] = ev]
    BY <1>6, <1>7
  <2> HIDE DEF ev
  <2>3. tcp'[p] = c
    BY <1>2, <1>6 DEF DPTypeOK
  <2> QED
    BY <1>4, <1>5, <1>6, <1>7, <1>8, <2>1, <2>2, <2>3 DEF Touches, Changes, KeepsNoPacket
<1>10. tcp'[p] = c
  BY <1>2, <1>6 DEF DPTypeOK
<1> QED
  BY <1>c, <1>9, <1>10

(* The branches that only forward or reject a packet of a server.          *)
LEMMA ServerPasses ==
    ASSUME DPInv, NEW p \in Ports, NEW seg \in Segments,
           ServerSynAckUnexpected(p, seg) \/ ServerOther(p, seg)
    PROVE  Touches(p)
<1>1. Idle /\ InUse(p) /\ UNCHANGED cmVars /\ seen' = seen
      /\ \E sent : EndServer(p, tcp[p], seg, sent)
  BY DEF ServerSynAckUnexpected, ServerOther
<1>2. PICK sent : EndServer(p, tcp[p], seg, sent)
  BY <1>1
<1>3. Result(tcp[p], tcp[p], seen[p]) /\ ~Ends(tcp[p]) /\ tcp[p] \in TcpConnection
      /\ seen[p] \in SUBSET Events /\ seen' = [seen EXCEPT ![p] = seen[p]]
  BY <1>1, HandlerFacts
<1>4. Finish(p, tcp[p], FALSE)
  BY <1>1, <1>3, NoRelease
<1> QED
  BY <1>1, <1>2, <1>3, <1>4, ServerEnd

(* The SYN-ACK that is awaited establishes the connection to the server.   *)
LEMMA ServerSynAckTouches ==
    ASSUME DPInv, NEW p \in Ports, NEW seg \in Segments, ServerSynAck(p, seg)
    PROVE  Touches(p)
<1> DEFINE ev == seen[p] \cup {"synack"}
<1>c. PICK c : c = server_synack_received(tcp[p], seg)
  OBVIOUS
<1>1. Idle /\ InUse(p) /\ AwaitsSynAck(tcp[p]) /\ UNCHANGED cmVars
      /\ (\E sent : EndServer(p, c, seg, sent))
      /\ seen' = [seen EXCEPT ![p] = ev]
  BY <1>c DEF ServerSynAck
<1>2. ConnInv(tcp[p], seen[p]) /\ ev \in SUBSET Events
  BY <1>1, HandlerFacts DEF Events
<1>3. Result(tcp[p], c, ev) /\ ~Ends(c) /\ c \in TcpConnection
  BY <1>1, <1>2, <1>c, SynAckResult
<1>4. Finish(p, c, FALSE)
  BY <1>1, <1>3, NoRelease
<1>5. PICK sent : EndServer(p, c, seg, sent)
  BY <1>1
<1> HIDE DEF ev
<1> QED
  BY <1>1, <1>2, <1>3, <1>4, <1>5, ServerEnd

(* A FIN of the server, in whatever state the connection is.               *)
LEMMA ServerFinTouches ==
    ASSUME DPInv, NEW p \in Ports, NEW seg \in Segments, ServerFin(p, seg)
    PROVE  Touches(p)
<1> DEFINE ev == seen[p] \cup {"server_fin"}
<1>c. PICK c : c = ClosedByServerFin(tcp[p], seg)
  OBVIOUS
<1>1. Idle /\ InUse(p) /\ EndServer(p, c, seg, << >>) /\ Finish(p, c, FALSE)
      /\ seen' = [seen EXCEPT ![p] = ev]
  BY <1>c DEF ServerFin
<1>2. ConnInv(tcp[p], seen[p]) /\ ev \in SUBSET Events
  BY <1>1, HandlerFacts DEF Events
<1>3. Result(tcp[p], c, ev) /\ c \in TcpConnection
  BY <1>1, <1>2, <1>c, ServerFinResult
<1> HIDE DEF ev
<1> QED
  BY <1>1, <1>2, <1>3, ServerEnd

(* An ACK of the server while the client closes.                           *)
LEMMA ServerAckTouches ==
    ASSUME DPInv, NEW p \in Ports, NEW seg \in Segments, ServerAck(p, seg)
    PROVE  Touches(p)
<1>c. PICK c : c = AckedByServer(tcp[p], seg)
  OBVIOUS
<1>1. Idle /\ InUse(p) /\ EndServer(p, c, seg, << >>) /\ Finish(p, c, FALSE) /\ seen' = seen
  BY <1>c DEF ServerAck
<1>2. ConnInv(tcp[p], seen[p]) /\ seen[p] \in SUBSET Events
      /\ seen' = [seen EXCEPT ![p] = seen[p]]
  BY <1>1, HandlerFacts
<1>3. Result(tcp[p], c, seen[p]) /\ c \in TcpConnection
  BY <1>1, <1>2, <1>c, ServerAckResult
<1> QED
  BY <1>1, <1>2, <1>3, ServerEnd

(* A timer entry releases the connection of its port, or does nothing.     *)
LEMMA TimeoutEntryTouches ==
    ASSUME DPInv, TimeoutEntry
    PROVE  \/ TouchesNone
           \/ \E p \in Ports : Touches(p) /\ InUse(p) /\ tcp'[p] = TimedOut(tcp[p])
<1>1. ~panicked /\ TickEntry /\ seen' = seen
  BY DEF TimeoutEntry, TickEntry
<1>2. CMTypeOK /\ DPTypeOK
  BY <1>1 DEF DPInv, CMInv
<1>3. CASE get_mut_by_port(Head(drain))
  <2>p. PICK p \in Ports : p = Head(drain) /\ InUse(p)
    BY <1>3 DEF get_mut_by_port
  <2>1. tcp' = [tcp EXCEPT ![p] = TimedOut(tcp[p])] /\ con' = [con EXCEPT ![p].proxy_port = 0]
    BY <1>1, <1>3, <2>p DEF TimeoutEntry, TickEntry
  <2>2. ConnInv(tcp[p], seen[p]) /\ seen[p] \in SUBSET Events
        /\ seen' = [seen EXCEPT ![p] = seen[p]]
    BY <1>1, <1>2, <2>p DEF DPInv, DPTypeOK
  <2>3. EndsWell(TimedOut(tcp[p]), seen[p]) /\ TimedOut(tcp[p]) \in TcpConnection
        /\ KeepsNoPacket(tcp[p], TimedOut(tcp[p]))
    BY <2>2, AbortResult DEF EndsWell, KeepsNoPacket
  <2>4. ~InUse(p)' /\ \A q \in Ports : q # p => (InUse(q)' <=> InUse(q))
    BY <1>2, <2>1 DEF InUse, CMTypeOK, Connection
  <2>5. Touches(p) /\ tcp'[p] = TimedOut(tcp[p])
    <3>1. tcp'[p] = TimedOut(tcp[p])
      BY <1>2, <2>1 DEF DPTypeOK
    <3> QED
      BY <3>1, <2>1, <2>2, <2>3, <2>4 DEF Touches, Changes
  <2> QED
    BY <2>p, <2>5
<1>4. CASE ~get_mut_by_port(Head(drain))
  <2>1. tcp' = tcp /\ con' = con
    BY <1>1, <1>4 DEF TimeoutEntry, TickEntry
  <2> QED
    BY <1>1, <2>1 DEF TouchesNone, InUse
<1> QED
  BY <1>3, <1>4

(* The steps that look at no connection, or only find that there is none.  *)
LEMMA OthersTouchNone ==
    ASSUME NEW s, NEW p, NEW seg,
           \/ ClientNoState(s, seg) \/ ServerNoState(p, seg) \/ ClientSelectFails(p, seg)
           \/ (Elapse \/ TimerTick(FALSE) \/ TickSlot) /\ UNCHANGED <<tcp, seen>>
           \/ UNCHANGED dpVars
    PROVE  TouchesNone
<1>1. con' = con /\ tcp' = tcp /\ seen' = seen
  BY DEF ClientNoState, ServerNoState, ClientSelectFails, Elapse, TimerTick, TickSlot, dpVars,
         cmVars
<1> QED
  BY <1>1 DEF TouchesNone, InUse

(* A packet of a client touches at most one connection, as Touches says,   *)
(* or is a first payload and put aside.                                    *)
LEMMA FromClientTouches ==
    ASSUME DPInv, NEW seg \in ClientSegs, NEW s \in Socks, FromClient(s, seg)
    PROVE  \/ TouchesNone \/ \E p \in Ports : Touches(p)
           \/ \E p \in Ports : p = sock2port[s]
                /\ \E choice \in f_select_server(seg.data) : ClientFirstPayload(p, seg, choice)
<1> USE ProxyAssumption
<1>1. seg \in Segments /\ \A isn \in ISNs : isn \in Seqns
  OBVIOUS
<1>2. CASE ClientNoState(s, seg)
  BY <1>2, OthersTouchNone
<1>3. ASSUME NEW isn \in ISNs, ClientSyn(s, seg, isn) PROVE \E p \in Ports : Touches(p)
  BY <1>1, <1>3, ClientSynTouches
<1>4. ASSUME NEW p \in Ports, ClientResent(p, seg) \/ ClientSynUnexpected(p, seg)
             \/ ClientOther(p, seg)
      PROVE  Touches(p)
  BY <1>1, <1>4, ClientPasses
<1>5. ASSUME NEW p \in Ports, NEW isn \in ISNs, ClientSynAgain(p, seg, isn) PROVE Touches(p)
  BY <1>1, <1>5, ClientSynAgainTouches
<1>6. ASSUME NEW p \in Ports, ClientAck2(p, seg) PROVE Touches(p)
  BY <1>1, <1>6, ClientAck2Touches
<1>7. ASSUME NEW p \in Ports, ClientFinAfterServer(p, seg) PROVE Touches(p)
  BY <1>1, <1>7, ClientFinAfterServerTouches
<1>8. ASSUME NEW p \in Ports, ClientFinFirst(p, seg) PROVE Touches(p)
  BY <1>1, <1>8, ClientFinFirstTouches
<1>9. ASSUME NEW p \in Ports, ClientFinEarly(p, seg) PROVE Touches(p)
  BY <1>1, <1>9, ClientFinEarlyTouches
<1>10. ASSUME NEW p \in Ports, ClientRst(p, seg) PROVE Touches(p)
  BY <1>1, <1>10, ClientRstTouches
<1>11. ASSUME NEW p \in Ports, ClientAckForFin(p, seg) \/ ClientFinalAck(p, seg)
       PROVE  Touches(p)
  BY <1>1, <1>11, ClientAckForFinTouches
<1>12. ASSUME NEW p \in Ports, ClientSelectFails(p, seg) PROVE TouchesNone
  BY <1>12, OthersTouchNone
<1> QED
  BY <1>2, <1>3, <1>4, <1>5, <1>6, <1>7, <1>8, <1>9, <1>10, <1>11, <1>12
     DEF FromClient

(* A packet of a server touches no connection but the one of its port.     *)
LEMMA FromServerTouches ==
    ASSUME DPInv, NEW seg \in ServerSegs, NEW p \in Ports, FromServer(p, seg)
    PROVE  TouchesNone \/ Touches(p)
<1> USE ProxyAssumption
<1>1. seg \in Segments
  OBVIOUS
<1>2. CASE ServerNoState(p, seg)
  BY <1>2, OthersTouchNone
<1>3. CASE ServerSynAck(p, seg)
  BY <1>1, <1>3, ServerSynAckTouches
<1>4. CASE ServerSynAckUnexpected(p, seg) \/ ServerOther(p, seg)
  BY <1>1, <1>4, ServerPasses
<1>5. CASE ServerFin(p, seg)
  BY <1>1, <1>5, ServerFinTouches
<1>6. CASE ServerAck(p, seg)
  BY <1>1, <1>6, ServerAckTouches
<1> QED
  BY <1>2, <1>3, <1>4, <1>5, <1>6 DEF FromServer

(* Every step touches at most one connection, or puts a first payload      *)
(* aside.                                                                  *)
LEMMA StepTouches ==
    ASSUME DPInv, [DPNext]_dpVars
    PROVE  \/ TouchesNone \/ \E p \in Ports : Touches(p)
           \/ \E p \in Ports, seg \in ClientSegs :
                \E choice \in f_select_server(seg.data) : ClientFirstPayload(p, seg, choice)
<1>1. CASE \E seg \in ClientSegs, s \in Socks : FromClient(s, seg)
  BY <1>1, FromClientTouches
<1>2. CASE \E seg \in ServerSegs, p \in Ports : FromServer(p, seg)
  BY <1>2, FromServerTouches
<1>3. CASE Timer
  BY <1>3, TimeoutEntryTouches, OthersTouchNone DEF Timer
<1>4. CASE UNCHANGED dpVars
  BY <1>4, OthersTouchNone
<1> QED
  BY <1>1, <1>2, <1>3, <1>4 DEF DPNext

(* So every step changes at most one connection.                           *)
LEMMA StepChanges ==
    ASSUME DPInv, [DPNext]_dpVars
    PROVE  TouchesNone \/ \E p \in Ports : Changes(p)
BY StepTouches, ClientFirstPayloadChanges DEF Touches

(***************************************************************************)
(* The invariant                                                           *)
(***************************************************************************)

(* Every step of the handler is one of the manager, except that a callback *)
(* may panic; after a panic the manager is left alone.                     *)
LEMMA ManagerSteps ==
    ASSUME [DPNext]_dpVars
    PROVE  /\ [CMNext]_cmVars \/ \E p \in Ports, seg \in ClientSegs : ClientSelectFails(p, seg)
           /\ panicked => panicked'
<1>1. ASSUME NEW seg \in ClientSegs, NEW s \in Socks, FromClient(s, seg)
      PROVE  /\ [CMNext]_cmVars \/ \E p \in Ports : ClientSelectFails(p, seg)
             /\ ~panicked
  <2>1. CASE ClientNoState(s, seg)
    BY <2>1 DEF ClientNoState, Idle
  <2>2. ASSUME NEW isn \in ISNs, ClientSyn(s, seg, isn) PROVE CMNext /\ ~panicked
    <3>1. Accept(s)
      BY <2>2 DEF ClientSyn
    <3> QED
      BY <3>1 DEF CMNext, Accept, Idle
  <2>3. ASSUME NEW p \in Ports,
               \/ ClientResent(p, seg) \/ ClientSynUnexpected(p, seg) \/ ClientOther(p, seg)
               \/ ClientAck2(p, seg) \/ ClientFinFirst(p, seg) \/ ClientFinEarly(p, seg)
               \/ \E choice \in f_select_server(seg.data) : ClientFirstPayload(p, seg, choice)
        PROVE  UNCHANGED cmVars /\ ~panicked
    BY <2>3 DEF ClientResent, ClientSynUnexpected, ClientOther, ClientAck2, ClientFinFirst,
                ClientFinEarly, ClientFirstPayload, Idle
  <2>4. ASSUME NEW p \in Ports, NEW isn \in ISNs, ClientSynAgain(p, seg, isn)
        PROVE  CMNext /\ ~panicked
    <3>1. Reschedule(p)
      BY <2>4 DEF ClientSynAgain
    <3> QED
      BY <3>1 DEF CMNext, Reschedule, Idle
  <2>5. ASSUME NEW p \in Ports,
               \/ ClientFinAfterServer(p, seg) \/ ClientRst(p, seg)
               \/ ClientAckForFin(p, seg) \/ ClientFinalAck(p, seg)
        PROVE  [CMNext]_cmVars /\ ~panicked
    <3>1. Idle /\ (release_port(p) \/ UNCHANGED cmVars)
      BY <2>5 DEF ClientFinAfterServer, ClientRst, ClientAckForFin, ClientFinalAck, Finish
    <3> QED
      BY <3>1 DEF CMNext, Idle
  <2>6. ASSUME NEW p \in Ports, ClientSelectFails(p, seg) PROVE ~panicked
    BY <2>6 DEF ClientSelectFails, Idle
  <2> QED
    BY <1>1, <2>1, <2>2, <2>3, <2>4, <2>5, <2>6 DEF FromClient
<1>2. ASSUME NEW seg \in ServerSegs, NEW p \in Ports, FromServer(p, seg)
      PROVE  [CMNext]_cmVars /\ ~panicked
  <2>1. Idle /\ (release_port(p) \/ UNCHANGED cmVars)
    BY <1>2 DEF FromServer, ServerNoState, ServerSynAck, ServerSynAckUnexpected, ServerFin,
                ServerAck, ServerOther, Finish
  <2> QED
    BY <2>1 DEF CMNext, Idle
<1>3. CASE Timer
  <2>1. Elapse \/ TimerTick(FALSE) \/ TickSlot \/ TickEntry
    BY <1>3 DEF Timer, TimeoutEntry
  <2> QED
    BY <2>1 DEF CMNext, Tick, Elapse, TimerTick, TickSlot, TickEntry
<1>4. CASE UNCHANGED dpVars
  BY <1>4 DEF dpVars, cmVars
<1> QED
  BY <1>1, <1>2, <1>3, <1>4 DEF DPNext

(* A freshly started pipeline has no connection.                           *)
LEMMA DPInitInv == DPInit => DPInv
<1> SUFFICES ASSUME DPInit PROVE DPInv
  OBVIOUS
<1>1. CMInv
  BY InitInv DEF DPInit
<1>2. \A p \in Ports : ~InUse(p)
  BY DEF DPInit, CMInit, InUse
<1>3. NewConnection \in TcpConnection
  <2>1. 0 \in Seqns /\ 0 \in Servers
    BY SeqAssumption, ProxyAssumption DEF Seqns
  <2> QED
    BY <2>1 DEF NewConnection, TcpConnection, ReleaseCauses
<1>4. DPTypeOK
  BY <1>3 DEF DPInit, DPTypeOK
<1>5. NewConnection.c_cause = "Unknown"
  BY DEF NewConnection
<1>6. CompletedTogether
  BY <1>5 DEF CompletedTogether, Completed, DPInit
<1> QED
  BY <1>1, <1>2, <1>4, <1>6 DEF DPInv

(* What a step that changes at most one connection means for the types and *)
(* for every connection.                                                   *)
LEMMA TouchedInv ==
    ASSUME DPInv, TouchesNone \/ \E p \in Ports : Changes(p)
    PROVE  /\ DPTypeOK'
           /\ \A p \in Ports : InUse(p)' => ConnInv(tcp'[p], seen'[p])
           /\ CompletedTogether'
<1>1. CASE TouchesNone
  BY <1>1 DEF DPInv, TouchesNone, DPTypeOK, CompletedTogether
<1>2. ASSUME NEW p \in Ports, Changes(p)
      PROVE  /\ DPTypeOK'
             /\ \A q \in Ports : InUse(q)' => ConnInv(tcp'[q], seen'[q])
             /\ CompletedTogether'
  <2>1. PICK d \in TcpConnection, ev \in SUBSET Events :
            /\ tcp' = [tcp EXCEPT ![p] = d]
            /\ seen' = [seen EXCEPT ![p] = ev]
            /\ InUse(p)' => ConnInv(d, ev)
            /\ ~InUse(p)' => EndsWell(d, ev)
    BY <1>2 DEF Changes
  <2>2. DPTypeOK
    BY DEF DPInv
  <2>3. /\ tcp'[p] = d /\ seen'[p] = ev
        /\ \A q \in Ports : q # p => /\ tcp'[q] = tcp[q] /\ seen'[q] = seen[q]
                                     /\ InUse(q)' <=> InUse(q)
    BY <1>2, <2>1, <2>2 DEF DPTypeOK, Changes
  <2>4. DPTypeOK'
    BY <2>1, <2>2 DEF DPTypeOK
  <2>5. \A q \in Ports : InUse(q)' => ConnInv(tcp'[q], seen'[q])
    BY <2>1, <2>3 DEF DPInv
  <2>6. ASSUME detailed_records, NEW q \in Ports, ~InUse(q)',
               Completed(tcp'[q].c_cause, tcp'[q].client_state)
        PROVE  Completed(tcp'[q].s_cause, last_state(tcp'[q]))
    <3>1. CASE q = p
      BY <3>1, <2>1, <2>3, <2>6 DEF EndsWell, RecordsClose
    <3>2. CASE q # p
      BY <3>2, <2>3, <2>6 DEF DPInv, CompletedTogether
    <3> QED
      BY <3>1, <3>2
  <2>7. CompletedTogether'
    BY <2>6 DEF CompletedTogether, last_state
  <2> QED
    BY <2>4, <2>5, <2>7
<1> QED
  BY <1>1, <1>2

(* Every step of the pipeline preserves the inductive invariant.           *)
THEOREM DPNextInv == DPInv /\ [DPNext]_dpVars => DPInv'
<1> SUFFICES ASSUME DPInv, [DPNext]_dpVars PROVE DPInv'
  OBVIOUS
<1>1. /\ DPTypeOK' /\ CompletedTogether'
      /\ \A p \in Ports : InUse(p)' => ConnInv(tcp'[p], seen'[p])
  BY StepChanges, TouchedInv
<1>2. ASSUME ~panicked' PROVE CMInv'
  <2>1. ~panicked /\ [CMNext]_cmVars
    BY <1>2, ManagerSteps DEF ClientSelectFails
  <2>2. CMInv
    BY <2>1 DEF DPInv
  <2> QED
    BY <2>1, <2>2, NextInv
<1>3. (\A p \in Ports : InUse(p) => ConnInv(tcp[p], seen[p]))'
  BY <1>1 DEF ConnInv, PairInv, PayloadInv, FinsInv, RecordInv, last_state
<1> QED
  BY <1>1, <1>2, <1>3 DEF DPInv

(* The inductive invariant holds in every reachable state.                 *)
THEOREM DPInvariance == DPSpec => []DPInv
BY DPInitInv, DPNextInv, PTL DEF DPSpec

(***************************************************************************)
(* The properties                                                          *)
(***************************************************************************)

(* The connections of the handler always have their types.                 *)
THEOREM DPTypeCorrect == DPSpec => []DPTypeOK
<1>1. DPInv => DPTypeOK
  BY DEF DPInv
<1> QED
  BY <1>1, DPInvariance, PTL

(* The states of the two sides of a connection always go together,         *)
(* whatever segments clients and servers send.                             *)
THEOREM SidesStayInStep == DPSpec => []SidesAgree
<1>1. ASSUME DPInv PROVE SidesAgree
  <2>1. ASSUME NEW p \in Ports, InUse(p)
        PROVE  /\ tcp[p].client_state \in States /\ tcp[p].server_state \in States
               /\ PairInv(tcp[p].client_state, tcp[p].server_state)
    BY <1>1, <2>1, ConnFacts DEF DPInv
  <2> QED
    BY <2>1 DEF SidesAgree, PairInv
<1> QED
  BY <1>1, DPInvariance, PTL

(* No connection is kept whose two sides are closed.                       *)
THEOREM NoZombiesKept == DPSpec => []NoZombie
<1>1. DPInv => NoZombie
  BY DEF DPInv, NoZombie, ConnInv, PairInv
<1> QED
  BY <1>1, DPInvariance, PTL

(* The first payload packet is kept as long as the SYN-ACK of the server   *)
(* is awaited, and not longer.                                             *)
THEOREM PayloadIsKept == DPSpec => []PayloadPending
<1>1. DPInv => PayloadPending
  BY DEF DPInv, PayloadPending, ConnInv, PayloadInv
<1> QED
  BY <1>1, DPInvariance, PTL

(* The records of a released connection agree about whether it was         *)
(* completed.                                                              *)
THEOREM RecordsAgree == DPSpec => []CompletedTogether
<1>1. DPInv => CompletedTogether
  BY DEF DPInv
<1> QED
  BY <1>1, DPInvariance, PTL

(* What Changes says of a connection that goes on, and of one that ends.   *)
LEMMA StepOfConnection ==
    ASSUME DPInv, [DPNext]_dpVars, NEW p \in Ports, InUse(p)
    PROVE  /\ InUse(p)' => BoundTo(tcp[p], tcp'[p])
           /\ ~InUse(p)' => EndsWell(tcp'[p], seen'[p])
<1>1. DPTypeOK /\ tcp[p] \in TcpConnection
  BY DEF DPInv, DPTypeOK
<1>2. BoundTo(tcp[p], tcp[p])
  BY <1>1 DEF BoundTo, TcpConnection
<1>3. CASE TouchesNone
  BY <1>2, <1>3 DEF TouchesNone
<1>4. ASSUME NEW q \in Ports, Changes(q)
      PROVE  /\ InUse(p)' => BoundTo(tcp[p], tcp'[p])
             /\ ~InUse(p)' => EndsWell(tcp'[p], seen'[p])
  <2>1. PICK d \in TcpConnection, ev \in SUBSET Events :
            /\ tcp' = [tcp EXCEPT ![q] = d]
            /\ seen' = [seen EXCEPT ![q] = ev]
            /\ InUse(q)' /\ InUse(q) => BoundTo(tcp[q], d)
            /\ ~InUse(q)' => EndsWell(d, ev)
    BY <1>4 DEF Changes
  <2>2. CASE q = p
    BY <1>1, <2>1, <2>2 DEF DPTypeOK
  <2>3. CASE q # p
    <3>1. InUse(p)' /\ tcp'[p] = tcp[p]
      BY <1>1, <1>4, <2>1, <2>3 DEF DPTypeOK, Changes
    <3> QED
      BY <1>2, <3>1
  <2> QED
    BY <2>2, <2>3
<1> QED
  BY <1>3, <1>4, StepChanges

(* Once the SYN-ACK of the server fixed the offset between the sequence    *)
(* numbers of the two connections, only a new SYN of the client changes it.*)
THEOREM OffsetStaysFixed == DPSpec => OffsetStable
<1>1. DPInv /\ [DPNext]_dpVars =>
        [\A p \in Ports :
            /\ SameConnection(p)
            /\ tcp[p].server_state >= Established
            /\ tcp[p].client_state # Closed
            => tcp'[p].c_seqn = tcp[p].c_seqn]_dpVars
  BY StepOfConnection DEF BoundTo, SameConnection
<1> QED
  BY <1>1, DPInvariance, PTL DEF DPSpec, OffsetStable

(* A connection is bound to one server only, and its server side does not  *)
(* fall back behind its handshake.                                         *)
THEOREM ServerIsBoundOnce == DPSpec => BoundOnce
<1>1. DPInv /\ [DPNext]_dpVars =>
        [\A p \in Ports :
            SameConnection(p) /\ tcp[p].server_state # Listen =>
                /\ tcp'[p].server_index = tcp[p].server_index
                /\ tcp'[p].c2s_inserted_bytes = tcp[p].c2s_inserted_bytes
                /\ tcp[p].server_state = SynReceived => tcp'[p].server_state >= SynReceived
                /\ tcp[p].server_state >= Established => tcp'[p].server_state >= Established]_dpVars
  BY StepOfConnection DEF BoundTo, SameConnection
<1> QED
  BY <1>1, DPInvariance, PTL DEF DPSpec, BoundOnce

(* Without RST and timeout, both sides have sent a FIN before a port is    *)
(* released.                                                               *)
THEOREM ReleaseNeedsBothFins == DPSpec => ReleasedAfterBothFins
<1>1. DPInv /\ [DPNext]_dpVars =>
        [\A p \in Ports :
            /\ InUse(p) /\ ~InUse(p)'
            /\ drain = << >>
            /\ tcp'[p].server_state = Closed
            => {"client_fin", "server_fin"} \subseteq seen'[p]]_dpVars
  BY StepOfConnection DEF EndsWell
<1> QED
  BY <1>1, DPInvariance, PTL DEF DPSpec, ReleasedAfterBothFins

(* With callbacks that make a choice for every payload, the pipeline is an *)
(* implementation of the manager, so that all theorems about CMSafeSpec    *)
(* hold of it, the absence of failed assertions included.                  *)
THEOREM HandlerRunsManager ==
    ASSUME \A seg \in ClientSegs : f_select_server(seg.data) # {}
    PROVE  DPSpec => CMSafeSpec
<1>1. DPInit => CMInit
  BY DEF DPInit
<1>2. [DPNext]_dpVars => [CMNext]_cmVars
  BY ManagerSteps DEF ClientSelectFails
<1> QED
  BY <1>1, <1>2, PTL DEF DPSpec, CMSafeSpec
=============================================================================
