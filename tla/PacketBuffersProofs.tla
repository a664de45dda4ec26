------------------------ MODULE PacketBuffersProofs ------------------------
(***************************************************************************)
(* Proofs about PacketBuffers: with a buffer for every port and a batch on *)
(* top, the handler always finds a buffer for the SYN to the server.       *)
(*                                                                         *)
(* The argument counts: as long as the program runs, every buffer of the   *)
(* pool is in the pool, in the batch or kept by exactly one port, and the  *)
(* port that is about to keep one more keeps none yet.                     *)
(***************************************************************************)
EXTENDS PacketBuffers, DelayedProxyProofs

(* The ports that keep the buffer of a first payload, those of connections *)
(* that ended before the server answered included.                         *)
Keeping == {p \in Ports : tcp[p].payload_packet # << >>}

(* The pool has a buffer for every port and a batch on top.                *)
EnoughBuffers == PoolSize >= Cardinality(Ports) + BatchSize

(* Every buffer is somewhere.                                              *)
Balanced ==
    \E b \in 0..BatchSize :
        /\ pdu_batch = <<b>>
        /\ pool \in Nat
        /\ ~panicked => pool + b + Cardinality(Keeping) = PoolSize

(* The inductive invariant.                                                *)
PBInv == DPInv /\ Balanced

-----------------------------------------------------------------------------
(* The ports are finitely many.                                            *)
LEMMA FinitePorts ==
    /\ IsFiniteSet(Ports) /\ Cardinality(Ports) \in Nat
    /\ IsFiniteSet(Keeping) /\ Cardinality(Keeping) \in Nat
<1>1. IsFiniteSet(PortBase..MaxPort)
  BY PortAssumption, FS_Interval DEF MaxPort
<1>2. IsFiniteSet(Ports) /\ IsFiniteSet(Keeping)
  BY <1>1, FS_Subset DEF Ports, Keeping
<1> QED
  BY <1>2, FS_CardinalityType

(* At the start no port keeps a buffer, and the batch is full.             *)
LEMMA PBInitInv ==
    ASSUME EnoughBuffers, PBInit
    PROVE  PBInv
<1>1. DPInv
  BY DPInitInv DEF PBInit
<1>2. Keeping = {}
  BY DEF PBInit, DPInit, Keeping, NewConnection
<1>3. Cardinality(Keeping) = 0
  BY <1>2, FS_EmptySet
<1>4. PoolSize >= BatchSize
  BY FinitePorts, BufferAssumption DEF EnoughBuffers
<1>5. pdu_batch = <<BatchSize>> /\ pool = PoolSize - BatchSize
  BY <1>4 DEF PBInit, new_pdu_array
<1> QED
  BY <1>1, <1>3, <1>4, <1>5, BufferAssumption DEF PBInv, Balanced

(* A program that has panicked handles no packet, and has panicked for     *)
(* good.                                                                   *)
LEMMA RunsUnlessPanicked ==
    /\ \A s, seg : FromClient(s, seg) => ~panicked
    /\ \A p, seg : FromServer(p, seg) => ~panicked
    /\ Timer => (panicked => panicked')
<1>1. ASSUME NEW s, NEW seg, FromClient(s, seg) PROVE Idle
  BY <1>1 DEF FromClient, ClientNoState, ClientSyn, Accept, ClientResent, ClientSynAgain,
              Reschedule, ClientSynUnexpected, ClientAck2, ClientFinAfterServer,
              ClientFinFirst, ClientFinEarly, ClientRst, ClientAckForFin, ClientFinalAck,
              ClientFirstPayload, ClientSelectFails, ClientOther
<1>2. ASSUME NEW p, NEW seg, FromServer(p, seg) PROVE Idle
  BY <1>2 DEF FromServer, ServerNoState, ServerSynAck, ServerSynAckUnexpected, ServerFin,
              ServerAck, ServerOther
<1>3. Timer => (panicked => panicked')
  BY DEF Timer, TimeoutEntry, TickEntry, Elapse, TimerTick, TickSlot
<1> QED
  BY <1>1, <1>2, <1>3 DEF Idle

(* In front of a first payload packet the handler takes no other branch.   *)
LEMMA OnlyFirstPayload ==
    ASSUME NEW s, NEW seg, TakesFirstPayload(s, seg), FromClient(s, seg)
    PROVE  \E p \in Ports :
            /\ p = sock2port[s] /\ IsFirstPayload(tcp[p]) /\ InUse(p)
            /\ \/ \E choice \in f_select_server(seg.data) : ClientFirstPayload(p, seg, choice)
               \/ ClientSelectFails(p, seg)
<1>p. PICK p \in Ports :
        /\ p = sock2port[s] /\ InUse(p)
        /\ PastClose(tcp[p], seg) /\ IsFirstPayload(tcp[p])
  BY DEF TakesFirstPayload
<1>1. sock2port[s] # 0
  BY <1>p DEF Ports
<1>2. ~ClientNoState(s, seg) /\ \A isn \in ISNs : ~ClientSyn(s, seg, isn)
  BY <1>1 DEF ClientNoState, ClientSyn, Accept, NoPort
<1>3. /\ tcp[p].client_state = Established /\ tcp[p].server_state = Listen
      /\ ~Resent(tcp[p], seg) /\ ~seg.syn /\ ~seg.fin /\ ~seg.rst
      /\ ~IsAck2(tcp[p], seg)
  BY <1>p DEF PastClose, PastHandshake, IsFirstPayload
<1>4. ~ClientResent(p, seg) /\ ~ClientSynUnexpected(p, seg) /\ ~ClientAck2(p, seg)
      /\ \A isn \in ISNs : ~ClientSynAgain(p, seg, isn)
  BY <1>3 DEF ClientResent, ClientSynUnexpected, ClientAck2, ClientSynAgain, IsSyn
<1>5. ~ClientFinAfterServer(p, seg) /\ ~ClientFinFirst(p, seg) /\ ~ClientFinEarly(p, seg)
      /\ ~ClientRst(p, seg)
  BY <1>3 DEF ClientFinAfterServer, ClientFinFirst, ClientFinEarly, ClientRst
<1>6. ~ClientAckForFin(p, seg) /\ ~ClientFinalAck(p, seg)
  BY <1>3 DEF ClientAckForFin, ClientFinalAck, Listen, FinWait1, LastAck
<1>7. ~ClientOther(p, seg)
  BY <1>p DEF ClientOther
<1> QED
  BY <1>p, <1>2, <1>4, <1>5, <1>6, <1>7 DEF FromClient

(* A step that touches connections lightly only ever lets buffers go, and  *)
(* Returned counts them.                                                   *)
LEMMA ReturnedCounts ==
    ASSUME DPTypeOK, TouchesNone \/ \E p \in Ports : Touches(p)
    PROVE  /\ Returned \in Nat /\ Cardinality(Keeping) \in Nat /\ Cardinality(Keeping') \in Nat
           /\ Cardinality(Keeping) = Cardinality(Keeping') + Returned
<1>1. \A p \in Ports : KeepsNoPacket(tcp[p], tcp'[p])
  <2>1. CASE TouchesNone
    BY <2>1 DEF TouchesNone, KeepsNoPacket
  <2>2. ASSUME NEW p \in Ports, Touches(p) PROVE \A q \in Ports : KeepsNoPacket(tcp[q], tcp'[q])
    <3>1. PICK d : tcp' = [tcp EXCEPT ![p] = d]
      BY <2>2 DEF Touches, Changes
    <3>2. \A q \in Ports : q # p => tcp'[q] = tcp[q]
      BY <3>1 DEF DPTypeOK
    <3> QED
      BY <2>2, <3>2 DEF Touches, KeepsNoPacket
  <2> QED
    BY <2>1, <2>2
<1> DEFINE gone == {p \in Ports : Dropped(p) \/ SentToServer(p)}
<1>2. gone = Keeping \ Keeping' /\ Keeping' \subseteq Keeping
  BY <1>1 DEF KeepsNoPacket, Keeping, Dropped, SentToServer, LetGo
<1>3. IsFiniteSet(Keeping)
  BY FinitePorts
<1>4. Keeping \cap Keeping' = Keeping'
  BY <1>2
<1>5. /\ Cardinality(Keeping \ Keeping') = Cardinality(Keeping) - Cardinality(Keeping \cap Keeping')
      /\ IsFiniteSet(Keeping \ Keeping') /\ IsFiniteSet(Keeping')
  BY <1>2, <1>3, FS_Difference, FS_Subset
<1>6. Cardinality(gone) \in Nat /\ Cardinality(Keeping) \in Nat /\ Cardinality(Keeping') \in Nat
  BY <1>2, <1>3, <1>5, FS_CardinalityType
<1>7. Returned = Cardinality(gone)
  BY DEF Returned
<1>8. Cardinality(gone) = Cardinality(Keeping) - Cardinality(Keeping')
  BY <1>2, <1>4, <1>5
<1> HIDE DEF gone
<1> QED
  BY <1>6, <1>7, <1>8

(* A step of the timer neither keeps a buffer nor lets one go.             *)
LEMMA TimerKeeps ==
    ASSUME DPInv, Timer
    PROVE  Keeping' = Keeping
<1>1. \A p \in Ports : tcp'[p].payload_packet = tcp[p].payload_packet
  <2>1. CASE tcp' = tcp
    BY <2>1
  <2>2. CASE tcp' # tcp
    <3>1. TimeoutEntry /\ get_mut_by_port(Head(drain)) /\ ~panicked
          /\ tcp' = [tcp EXCEPT ![Head(drain)] = TimedOut(@)]
      BY <2>2 DEF Timer, TimeoutEntry, TickEntry
    <3>2. PICK p \in Ports : p = Head(drain) /\ InUse(p)
      BY <3>1 DEF get_mut_by_port
    <3>3. TimedOut(tcp[p]).payload_packet = tcp[p].payload_packet
      BY <3>2, AbortResult DEF DPInv
    <3> QED
      BY <3>1, <3>2, <3>3 DEF DPInv, DPTypeOK
  <2> QED
    BY <2>1, <2>2
<1> QED
  BY <1>1 DEF Keeping

(* The branch of the first payload: its port keeps no buffer yet, so there *)
(* is a batch to take the buffer of the SYN from.                          *)
LEMMA BatchIsThere ==
    ASSUME EnoughBuffers, PBInv, NEW p \in Ports, IsFirstPayload(tcp[p]), InUse(p), ~panicked
    PROVE  /\ p \notin Keeping
           /\ \E b \in 1..BatchSize : Refilled(pool - 1) = <<b>>
           /\ \E b \in 0..BatchSize : pdu_batch = <<b>> /\ (b = 0 => pool > BatchSize)
<1>1. tcp[p].payload_packet = << >>
  BY DEF PBInv, DPInv, ConnInv, PayloadInv, IsFirstPayload
<1>2. p \notin Keeping
  BY <1>1 DEF Keeping
<1>3. /\ IsFiniteSet(Ports) /\ Cardinality(Keeping \cup {p}) <= Cardinality(Ports)
      /\ Cardinality(Keeping \cup {p}) = Cardinality(Keeping) + 1
  <2>1. Keeping \cup {p} \subseteq Ports
    BY DEF Keeping
  <2> QED
    BY <2>1, <1>2, FinitePorts, FS_AddElement, FS_Subset
<1>4. PICK b \in 0..BatchSize :
        /\ pdu_batch = <<b>> /\ pool \in Nat
        /\ pool + b + Cardinality(Keeping) = PoolSize
  BY DEF PBInv, Balanced
<1>5. b = 0 => pool > BatchSize
  BY <1>3, <1>4, FinitePorts, BufferAssumption DEF EnoughBuffers
<1>6. pdu_batch = <<0>> <=> b = 0
  BY <1>4
<1> QED
  BY <1>2, <1>4, <1>5, <1>6, BufferAssumption DEF Refilled, new_pdu_array

(* Its step keeps the balance: the buffer of the packet is kept, and the   *)
(* one of the SYN comes back to the pool.                                  *)
LEMMA FirstPayloadBalanced ==
    ASSUME EnoughBuffers, PBInv, NEW s \in Socks, NEW seg \in ClientSegs, FirstPayload(s, seg)
    PROVE  FromClient(s, seg) /\ Balanced'
<1>p. PICK p \in Ports : p = sock2port[s] /\ IsFirstPayload(tcp[p]) /\ InUse(p) /\ ~panicked
  BY DEF FirstPayload, TakesFirstPayload, Idle
<1>1. /\ p \notin Keeping
      /\ \E b \in 1..BatchSize : Refilled(pool - 1) = <<b>>
      /\ \E b \in 0..BatchSize : pdu_batch = <<b>> /\ (b = 0 => pool > BatchSize)
  BY <1>p, BatchIsThere
<1>2. PICK a \in 1..BatchSize : Refilled(pool - 1) = <<a>>
  BY <1>1
<1>3. PICK b \in 0..BatchSize :
        /\ pdu_batch = <<b>> /\ pool \in Nat
        /\ pool + b + Cardinality(Keeping) = PoolSize
  BY <1>p DEF PBInv, Balanced
<1>4. b = 0 => pool > BatchSize
  BY <1>1, <1>3
<1>5. pdu_batch = <<0>> <=> b = 0
  BY <1>3
<1>6. (b = 0 => a = BatchSize) /\ (b # 0 => a = b)
  BY <1>2, <1>3, <1>4, <1>5, BufferAssumption DEF Refilled, new_pdu_array
<1>r. Refilled(pool - 1) # << >> /\ Refilled(pool - 1)[1] = a
  BY <1>2
<1>7. /\ FromClient(s, seg) /\ TakesFirstPayload(s, seg)
      /\ pdu_batch' = <<a - 1>>
      /\ pool' = pool - (IF b = 0 THEN BatchSize ELSE 0)
  BY <1>r, <1>5 DEF FirstPayload, TakenFromPool
<1>8. ~panicked' => Cardinality(Keeping') = Cardinality(Keeping) + 1
  <2> SUFFICES ASSUME ~panicked' PROVE Cardinality(Keeping') = Cardinality(Keeping) + 1
    OBVIOUS
  <2>1. PICK choice \in f_select_server(seg.data) : ClientFirstPayload(p, seg, choice)
    BY <1>p, <1>7, OnlyFirstPayload DEF ClientSelectFails
  <2>2. /\ Changes(p)
        /\ tcp[p].payload_packet = << >> /\ tcp'[p].payload_packet # << >>
    BY <2>1, ClientFirstPayloadChanges DEF PBInv
  <2>3. PICK d : tcp' = [tcp EXCEPT ![p] = d]
    BY <2>2 DEF Changes
  <2>4. \A q \in Ports : q # p => tcp'[q] = tcp[q]
    BY <2>3 DEF PBInv, DPInv, DPTypeOK
  <2>5. Keeping' = Keeping \cup {p}
    BY <2>2, <2>4 DEF Keeping
  <2> QED
    BY <2>5, <1>1, FinitePorts, FS_AddElement
<1>9. a - 1 \in 0..BatchSize /\ pool' \in Nat
  BY <1>3, <1>4, <1>7, BufferAssumption
<1>10. ~panicked' => pool' + (a - 1) + Cardinality(Keeping') = PoolSize
  BY <1>3, <1>4, <1>6, <1>7, <1>8, FinitePorts, BufferAssumption
<1> QED
  BY <1>7, <1>9, <1>10 DEF Balanced

(* Any other packet: what the ports let go of comes back to the pool.      *)
LEMMA OtherPacketBalanced ==
    ASSUME PBInv, OtherPacket
    PROVE  DPNext /\ Balanced'
<1>1. DPNext
  BY DEF OtherPacket, DPNext
<1>2. TouchesNone \/ \E p \in Ports : Touches(p)
  <2>1. ASSUME NEW seg \in ClientSegs, NEW s \in Socks,
               ~TakesFirstPayload(s, seg), FromClient(s, seg)
        PROVE  TouchesNone \/ \E p \in Ports : Touches(p)
    <3>1. ASSUME NEW p \in Ports, p = sock2port[s], NEW choice, ClientFirstPayload(p, seg, choice)
          PROVE  FALSE
      BY <2>1, <3>1 DEF ClientFirstPayload, TakesFirstPayload
    <3> QED
      BY <2>1, <3>1, FromClientTouches DEF PBInv
  <2> QED
    BY <2>1, FromServerTouches DEF OtherPacket, PBInv
<1>3. /\ Returned \in Nat /\ Cardinality(Keeping) \in Nat /\ Cardinality(Keeping') \in Nat
      /\ Cardinality(Keeping) = Cardinality(Keeping') + Returned
  BY <1>2, ReturnedCounts DEF PBInv, DPInv
<1>4. pool' = pool + Returned /\ pdu_batch' = pdu_batch /\ ~panicked
  BY RunsUnlessPanicked DEF OtherPacket
<1>5. PICK b \in 0..BatchSize :
        /\ pdu_batch = <<b>> /\ pool \in Nat
        /\ pool + b + Cardinality(Keeping) = PoolSize
  BY <1>4 DEF PBInv, Balanced
<1>6. pool' \in Nat /\ pool' + b + Cardinality(Keeping') = PoolSize
  BY <1>3, <1>4, <1>5
<1> QED
  BY <1>1, <1>4, <1>5, <1>6 DEF Balanced

(* The invariant is inductive, and a step with buffers is a step without.  *)
LEMMA PBNextInv ==
    ASSUME EnoughBuffers, PBInv, [PBNext]_pbVars
    PROVE  PBInv' /\ [DPNext]_dpVars
<1>1. ASSUME NEW seg \in ClientSegs, NEW s \in Socks, FirstPayload(s, seg)
      PROVE  Balanced' /\ DPNext
  BY <1>1, FirstPayloadBalanced DEF DPNext
<1>2. OtherPacket => Balanced' /\ DPNext
  BY OtherPacketBalanced
<1>3. ASSUME Timer, UNCHANGED <<pool, pdu_batch>>
      PROVE  Balanced' /\ DPNext
  <2>1. Keeping' = Keeping /\ pool' = pool /\ pdu_batch' = pdu_batch /\ DPNext
    BY <1>3, TimerKeeps DEF PBInv, DPNext
  <2>2. panicked => panicked'
    BY <1>3, RunsUnlessPanicked
  <2> QED
    BY <2>1, <2>2 DEF PBInv, Balanced
<1>4. UNCHANGED pbVars => Balanced' /\ UNCHANGED dpVars
  <2> SUFFICES ASSUME UNCHANGED pbVars PROVE Balanced' /\ UNCHANGED dpVars
    OBVIOUS
  <2>1. UNCHANGED dpVars /\ pool' = pool /\ pdu_batch' = pdu_batch
    BY DEF pbVars
  <2>2. panicked' = panicked /\ Keeping' = Keeping
    BY <2>1 DEF dpVars, Keeping
  <2> QED
    BY <2>1, <2>2 DEF PBInv, Balanced
<1>5. Balanced' /\ [DPNext]_dpVars
  BY <1>1, <1>2, <1>3, <1>4 DEF PBNext
<1> QED
  BY <1>5, DPNextInv DEF PBInv

-----------------------------------------------------------------------------
(* get_pdu().unwrap() of nftcp.rs never fails when the pool has a buffer   *)
(* for every port of the pipeline and a batch on top, for any number of    *)
(* ports and any batch size: GetPduSucceeds is an invariant.               *)
THEOREM BuffersAreEnough ==
    ASSUME EnoughBuffers
    PROVE  PBSpec => []GetPduSucceeds
<1>1. PBInit => PBInv
  BY PBInitInv
<1>2. PBInv /\ [PBNext]_pbVars => PBInv'
  BY PBNextInv
<1>3. PBInv => GetPduSucceeds
  BY DEF PBInv, Balanced, GetPduSucceeds
<1> QED
  BY <1>1, <1>2, <1>3, PTL DEF PBSpec

(* With that many buffers the handler behaves as DelayedProxy says, which  *)
(* leaves the buffers out: their shortage adds no behaviour.               *)
THEOREM BuffersAddNothing ==
    ASSUME EnoughBuffers
    PROVE  PBSpec => DPSpec
<1>1. PBInit => PBInv /\ DPInit
  BY PBInitInv DEF PBInit
<1>2. PBInv /\ [PBNext]_pbVars => PBInv' /\ [DPNext]_dpVars
  BY PBNextInv
<1> QED
  BY <1>1, <1>2, PTL DEF PBSpec, DPSpec
=============================================================================
