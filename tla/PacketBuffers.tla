--------------------------- MODULE PacketBuffers ---------------------------
(***************************************************************************)
(* The packet buffers (mbufs) of a pipeline: the memory pool, the batch of *)
(* buffers the handler's PduAllocator keeps for the SYNs to the servers,   *)
(* and the buffers of first payload packets that connections hold.         *)
(*                                                                         *)
(* The pool belongs to DPDK and is modelled by the number of buffers left  *)
(* in it; the buffers in the rings and queues of the interfaces are not    *)
(* counted.  A packet takes a buffer when it is received and gives it back *)
(* when it is sent or dropped, within one step, unless a connection keeps  *)
(* it: release() does not let go of payload_packet, only the next          *)
(* connection on the port does.                                            *)
(***************************************************************************)
EXTENDS DelayedProxy

CONSTANTS
    PoolSize,   \* pool_size, less what the rings hold
    BatchSize   \* buffers that new_pdu_array takes at once

ASSUME BufferAssumption ==
    /\ PoolSize \in Nat
    /\ BatchSize \in Nat \ {0}

VARIABLES
    pool,       \* buffers in the pool
    pdu_batch   \* buffers in the allocator's batch, << >> for None

pbVars == <<dpVars, pool, pdu_batch>>

(* Pdu::new_pdu_array: None when the pool cannot fill a batch.             *)
new_pdu_array(n) == IF n >= BatchSize THEN <<BatchSize>> ELSE << >>

(* The batch that get_pdu pops from, with n buffers in the pool: a new one *)
(* when it is empty; None stays None.                                      *)
Refilled(n) == IF pdu_batch = <<0>> THEN new_pdu_array(n) ELSE pdu_batch

TakenFromPool == IF pdu_batch = <<0>> THEN BatchSize ELSE 0

(* The handler is about to take the branch of the first payload packet.    *)
TakesFirstPayload(s, seg) ==
    /\ Idle
    /\ \E p \in Ports :
        p = sock2port[s] /\ InUse(p) /\ PastClose(tcp[p], seg) /\ IsFirstPayload(tcp[p])

(* get_pdu().unwrap(), then select_server: the received packet is kept,    *)
(* the SYN is sent from a buffer of the batch and comes back to the pool.  *)
FirstPayload(s, seg) ==
    /\ pool > 0
    /\ TakesFirstPayload(s, seg)
    /\ LET batch == Refilled(pool - 1)
       IN  IF batch # << >>
           THEN /\ pdu_batch' = <<batch[1] - 1>>
                /\ pool' = pool - TakenFromPool
                /\ FromClient(s, seg)
           ELSE /\ pdu_batch' = << >>
                /\ panicked' = TRUE
                /\ out' = << >>
                /\ UNCHANGED <<free_ports, sock2port, con, wheel, hand, lag, due, drain, age,
                               resched, tcp, seen, pool>>

(* Buffers that a step lets go of: sent to the server by the handler of    *)
(* its SYN-ACK, or dropped by initialize when the port is given out again. *)
LetGo(p) == tcp[p].payload_packet # << >> /\ tcp'[p].payload_packet = << >>

DroppedMutant(p) == FALSE

Dropped(p) == LetGo(p) /\ ~InUse(p)

SentToServer(p) == LetGo(p) /\ InUse(p)

Returned == Cardinality({p \in Ports : Dropped(p) \/ SentToServer(p)})

(* Any other packet.                                                       *)
OtherPacket ==
    /\ pool > 0
    /\ \/ \E seg \in ClientSegs, s \in Socks : ~TakesFirstPayload(s, seg) /\ FromClient(s, seg)
       \/ \E seg \in ServerSegs, p \in Ports : FromServer(p, seg)
    /\ pool' = pool + Returned
    /\ UNCHANGED pdu_batch

PBInit ==
    /\ DPInit
    /\ pdu_batch = new_pdu_array(PoolSize)
    /\ pool = IF PoolSize >= BatchSize THEN PoolSize - BatchSize ELSE PoolSize

PBNext ==
    \/ \E seg \in ClientSegs, s \in Socks : FirstPayload(s, seg)
    \/ OtherPacket
    \/ Timer /\ UNCHANGED <<pool, pdu_batch>>

PBSpec == PBInit /\ [][PBNext]_pbVars

(***************************************************************************)
(* Properties                                                              *)
(***************************************************************************)

(* get_pdu().unwrap(): the handler never runs out of buffers for a SYN,    *)
(* although connections that ended before the server answered keep theirs. *)
(* It takes a buffer for every port and a batch on top.                    *)
GetPduSucceeds == pdu_batch # << >>
=============================================================================
