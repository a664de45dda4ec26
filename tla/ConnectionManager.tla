------------------------- MODULE ConnectionManager -------------------------
(***************************************************************************)
(* The ConnectionManager of one pipeline (src/src/cmanager.rs) together    *)
(* with the timer wheel its caller keeps (src/src/nftcp.rs).               *)
(*                                                                         *)
(* A pipeline owns a range of TCP ports.  Every client connection is given *)
(* one of them, used as the source port towards the server and as the      *)
(* index of the connection's state.  Four structures have to agree:        *)
(*   free_ports   the queue of ports that may be given out,                *)
(*   sock2port    client socket -> port of its connection,                 *)
(*   con          port -> connection (port2con in the code),               *)
(*   wheel        timer wheel whose slots hold the ports to time out.      *)
(*                                                                         *)
(* A pipeline is one thread and runs its packet handler to completion; a   *)
(* loop of the handler (release_timeouts) is split into one step per       *)
(* iteration, and every other action waits until the loop is over (Idle).  *)
(*                                                                         *)
(* TimerWheel belongs to the crate netfcts, which is not in this           *)
(* repository: new, tick, schedule and replace are modelled from the way   *)
(* cmanager.rs and nftcp.rs use them.                                      *)
(***************************************************************************)
EXTENDS Integers, Sequences, FiniteSets

CONSTANTS
    Socks,      \* client sockets (ip address, port); the address is not 0.0.0.0
    NoSock,     \* what a connection holds that was never given to a client
    PortBase,   \* tcp_port_base
    PortSpan,   \* !port_mask + 1, the size of the port range
    Slots,      \* number of slots of the wheel (TIMER_WHEEL_SLOTS)
    Timeout,    \* timeouts.established, in slots of the wheel
    MaxLag,     \* bound: wheel intervals that may pass between two timer ticks
    MaxEntries, \* bound: entries of one slot of the wheel (the code has no limit)
    Fetches     \* TRUE iff connection records are kept (detailed_records) and
                \* are requested (FetchCRecords) while the pipeline runs

MaxPort == PortBase + PortSpan - 1

(* Port 0 is reserved; it marks "no port" in sock2port and in the wheel.   *)
Ports == {p \in PortBase..MaxPort : p # 0}

ASSUME SockAssumption == NoSock \notin Socks

ASSUME PortAssumption ==
    /\ PortBase \in Nat
    /\ PortSpan \in Nat \ {0}
    /\ MaxPort > 0

(* Ports are of type u16.                                                  *)
ASSUME PortWidth == MaxPort < 2^16

(* get_tcp_dst_port_mask keeps the upper bits of a port, so that the base  *)
(* is a multiple of the size of the range.                                 *)
ASSUME MaskAssumption == PortBase % PortSpan = 0

ASSUME WheelAssumption ==
    /\ Slots \in Nat \ {0}
    /\ Timeout \in Nat \ {0}
    /\ MaxLag \in Nat \ {0}
    /\ MaxEntries \in Nat \ {0}
    /\ Fetches \in BOOLEAN

VARIABLES
    free_ports, \* ports not in use, popped at the front, pushed at the back
    sock2port,  \* socket -> port, 0 when the map has no entry for the socket
    con,        \* port -> the fields of ProxyConnection managed here
    wheel,      \* slot -> ports to time out; an overwritten entry is 0
    hand,       \* the slot drained last
    lag,        \* wheel intervals that passed since the last timer tick
    due,        \* slots the running tick still has to drain
    drain,      \* entries of the current slot the running tick has not visited
    panicked,   \* an assertion failed: the pipeline's thread is gone
    age,        \* history: intervals since the port's last schedule, up to Timeout
    resched     \* history: ports scheduled again while a timer was running

cmVars == <<free_ports, sock2port, con, wheel, hand, lag, due, drain, panicked,
            age, resched>>

(***************************************************************************)
(* State functions                                                         *)
(***************************************************************************)

(* The fields of ProxyConnection that the manager sets.                    *)
Connection == [proxy_port : Ports \cup {0}, sock : Socks \cup {NoSock},
               slot : 0..(Slots - 1), index : Nat]

InUse(p) == con[p].proxy_port # 0

OwnsTcpPortMutant(p) == p \in PortBase..(MaxPort - 1)

(* A port & mask comparison: the upper bits of a port are p - p % span.    *)
owns_tcp_port(p) == p - (p % PortSpan) = PortBase

GetMutByPortMutant(p) == owns_tcp_port(p) /\ p \in Ports

get_mut_by_port(p) == owns_tcp_port(p) /\ p \in Ports /\ InUse(p)

Elements(seq) == {seq[i] : i \in DOMAIN seq}

(* The thread is alive and not inside release_timeouts.                    *)
Idle == ~panicked /\ due = 0 /\ drain = << >>

(***************************************************************************)
(* The timer wheel (external).  The slot of a new entry is Timeout         *)
(* intervals from now; now is lag intervals ahead of the slot drained last.*)
(***************************************************************************)
ScheduleSlot == (hand + lag + Timeout) % Slots

CanSchedule == Len(wheel[ScheduleSlot]) < MaxEntries

ScheduleMutant(p) == wheel

schedule(p) == [wheel EXCEPT ![ScheduleSlot] = Append(@, p)]

ScheduledMutant(c) == c

ScheduledOffByOneMutant(c) ==
    [c EXCEPT !.slot = ScheduleSlot, !.index = Len(wheel[ScheduleSlot]) + 1]

(* The position (slot, index) that schedule returns; indices start at 0.   *)
Scheduled(c) ==
    [proxy_port |-> c.proxy_port, sock |-> c.sock,
     slot |-> ScheduleSlot, index |-> Len(wheel[ScheduleSlot])]

(* wheel.replace returns None when the slot has no entry with that index.  *)
HasEntry(c) == c.index < Len(wheel[c.slot])

Entry(c) == wheel[c.slot][c.index + 1]

ReplaceMutant(c) == wheel

replace(c) == IF HasEntry(c) THEN [wheel EXCEPT ![c.slot][c.index + 1] = 0] ELSE wheel

(***************************************************************************)
(* ConnectionManager::new                                                  *)
(***************************************************************************)

(* shuffle_ports: the ports of a set in any order.                         *)
Shuffles(S) ==
    {f \in [1..Cardinality(S) -> S] :
        /\ \A i, j \in DOMAIN f : f[i] = f[j] => i = j
        /\ \A p \in S : \E i \in DOMAIN f : f[i] = p}

ShuffledPortsMutant == PortBase..(MaxPort - 1)

(* Port 0 is left out, and the last port is added after the shuffle.       *)
ShuffledPorts == Ports \ {MaxPort}

CMInit ==
    /\ \E f \in Shuffles(ShuffledPorts) : free_ports = Append(f, MaxPort)
    /\ sock2port = [s \in Socks |-> 0]
    /\ con = [p \in Ports |-> [proxy_port |-> 0, sock |-> NoSock, slot |-> 0, index |-> 0]]
    /\ wheel = [i \in 0..(Slots - 1) |-> << >>]
    /\ hand = 0
    /\ lag = 0
    /\ due = 0
    /\ drain = << >>
    /\ panicked = FALSE
    /\ age = [p \in Ports |-> 0]
    /\ resched = {}

(***************************************************************************)
(* Operations called by the packet handler                                 *)
(***************************************************************************)

NoPortMutant(s) == TRUE

(* The lookup in sock2port that precedes the insertion.                    *)
NoPort(s) == sock2port[s] = 0

(* get_mut_or_insert for a socket without a connection, followed by the    *)
(* schedule with which the handler of the client's SYN arms the timeout.   *)
Accept(s) ==
    /\ Idle
    /\ NoPort(s)
    /\ free_ports # << >>
    /\ CanSchedule
    /\ LET p == Head(free_ports)
           fresh == [proxy_port |-> p, sock |-> s, slot |-> 0, index |-> 0]
       IN  /\ panicked' = InUse(p)                       \* assert!(!cc.in_use())
           /\ con' = [con EXCEPT ![p] = Scheduled(fresh)]
           /\ sock2port' = [sock2port EXCEPT ![s] = p]
           /\ wheel' = schedule(p)
           /\ age' = [age EXCEPT ![p] = 0]
    /\ free_ports' = Tail(free_ports)
    /\ UNCHANGED <<hand, lag, due, drain, resched>>

(* get_mut_or_insert for a socket whose connection is in use, followed by  *)
(* another schedule: the handler does this when the client side of the     *)
(* connection is Closed.  The running timer of the port is not removed.    *)
Reschedule(p) ==
    /\ Idle
    /\ InUse(p)
    /\ CanSchedule
    /\ con' = [con EXCEPT ![p] = Scheduled(@)]
    /\ wheel' = schedule(p)
    /\ age' = [age EXCEPT ![p] = 0]
    /\ resched' = resched \cup {p}
    /\ UNCHANGED <<free_ports, sock2port, hand, lag, due, drain, panicked>>

(* A socket that is still mapped to a connection released by               *)
(* fetch_c_records: assert!(cc.in_use()) fails for a SYN, and a FIN, an    *)
(* RST or an ACK of the closing fails as soon as it records a state,       *)
(* because the record is gone.  Data on an established connection records  *)
(* nothing: it is forwarded, with source port 0, and the manager stays as  *)
(* it is.                                                                  *)
StaleSock(s) == sock2port[s] # 0 /\ ~InUse(sock2port[s])

TouchStale(s) ==
    /\ Idle
    /\ StaleSock(s)
    /\ panicked' = TRUE
    /\ UNCHANGED <<free_ports, sock2port, con, wheel, hand, lag, due, drain, age, resched>>

PushBackMutant(p) == free_ports

(* free_ports.push_back                                                    *)
PushBack(p) == Append(free_ports, p)

RemoveMutant(s) == sock2port

(* sock2port.remove                                                        *)
Remove(s) == [sock2port EXCEPT ![s] = 0]

(* release_port of a connection in use: the port goes to the back of the   *)
(* queue, its timer entry is overwritten, its socket is forgotten.         *)
release_port(p) ==
    /\ Idle
    /\ InUse(p)
    /\ LET c == con[p]
       IN  /\ panicked' = \/ HasEntry(c) /\ Entry(c) # p
                          \/ sock2port[c.sock] \notin {0, p}
           /\ wheel' = replace(c)
           /\ sock2port' = Remove(c.sock)
    /\ free_ports' = PushBack(p)
    /\ con' = [con EXCEPT ![p].proxy_port = 0]
    /\ UNCHANGED <<hand, lag, due, drain, age, resched>>

(***************************************************************************)
(* Time and the timer tick                                                 *)
(***************************************************************************)

(* One interval of the wheel passes.                                       *)
Elapse ==
    /\ lag < MaxLag
    /\ lag' = lag + 1
    /\ age' = [p \in Ports |-> IF InUse(p) /\ age[p] < Timeout THEN age[p] + 1 ELSE age[p]]
    /\ UNCHANGED <<free_ports, sock2port, con, wheel, hand, due, drain, panicked, resched>>

(* fetch_c_records releases every connection that still refers to the      *)
(* record store; free_ports, sock2port and the wheel stay as they are.     *)
fetch_c_records == [p \in Ports |-> [con[p] EXCEPT !.proxy_port = 0]]

(* The handler of a timer packet: it serves a request for the records, if  *)
(* there is one, and calls release_timeouts with the current time (ticks   *)
(* and wheel have the same resolution, wheel_tick_reduction_factor is 1).  *)
(* A timer packet that does neither changes nothing.                       *)
TimerTick(fetch) ==
    /\ Idle
    /\ fetch \/ lag > 0
    /\ fetch => Fetches
    /\ con' = IF fetch THEN fetch_c_records ELSE con
    /\ due' = lag
    /\ lag' = 0
    /\ UNCHANGED <<free_ports, sock2port, wheel, hand, drain, panicked, age, resched>>

(* wheel.tick: the next slot is drained.                                   *)
TickSlot ==
    /\ ~panicked
    /\ drain = << >>
    /\ due > 0
    /\ LET next == (hand + 1) % Slots
       IN  /\ hand' = next
           /\ drain' = wheel[next]
           /\ wheel' = [wheel EXCEPT ![next] = << >>]
    /\ due' = due - 1
    /\ UNCHANGED <<free_ports, sock2port, con, lag, panicked, age, resched>>

(* One entry of the drained slot: timeout(p) releases the connection if it *)
(* is in use; 0 and the ports of released connections are skipped.         *)
TickEntry ==
    /\ ~panicked
    /\ drain # << >>
    /\ LET p == Head(drain)
       IN  IF get_mut_by_port(p)
           THEN /\ con' = [con EXCEPT ![p].proxy_port = 0]
                /\ free_ports' = PushBack(p)
                /\ sock2port' = Remove(con[p].sock)
           ELSE UNCHANGED <<con, free_ports, sock2port>>
    /\ drain' = Tail(drain)
    /\ UNCHANGED <<wheel, hand, lag, due, panicked, age, resched>>

-----------------------------------------------------------------------------
Tick == TimerTick(FALSE) \/ TickSlot \/ TickEntry

CMNext ==
    \/ \E s \in Socks : Accept(s) \/ TouchStale(s)
    \/ \E p \in Ports : Reschedule(p) \/ release_port(p)
    \/ Elapse
    \/ TimerTick(TRUE)
    \/ Tick

(* Time passes, and the tick generator's urgent queue is served by the     *)
(* pipeline's scheduler, whatever the clients and servers do.              *)
CMFairness == WF_cmVars(Elapse) /\ WF_cmVars(Tick)

CMSafeSpec == CMInit /\ [][CMNext]_cmVars

CMSpec == CMSafeSpec /\ CMFairness

(***************************************************************************)
(* Properties                                                              *)
(***************************************************************************)

(* Type invariant of the state kept by ConnectionManager and the wheel.    *)
CMTypeOK ==
    /\ free_ports \in Seq(Ports)
    /\ sock2port \in [Socks -> Ports \cup {0}]
    /\ con \in [Ports -> Connection]
    /\ wheel \in [0..(Slots - 1) -> Seq(Ports \cup {0})]
    /\ hand \in 0..(Slots - 1)
    /\ lag \in 0..MaxLag
    /\ due \in 0..MaxLag
    /\ drain \in Seq(Ports \cup {0})
    /\ panicked \in BOOLEAN
    /\ age \in [Ports -> 0..Timeout]
    /\ resched \in SUBSET Ports

(* The queue of free ports never holds a port twice nor one that is in     *)
(* use, so get_mut_or_insert never gives one port to two clients.          *)
FreePortsUnused ==
    /\ \A i, j \in DOMAIN free_ports : free_ports[i] = free_ports[j] => i = j
    /\ \A i \in DOMAIN free_ports : ~InUse(free_ports[i])

(* sock2port and port2con are inverse to each other on connections in use, *)
(* and a mapping that outlives its connection (after fetch_c_records) does *)
(* not lead to a port that was given to another client.                    *)
SocksAndPortsAgree ==
    /\ \A p \in Ports : InUse(p) => /\ con[p].proxy_port = p
                                    /\ con[p].sock \in Socks
                                    /\ sock2port[con[p].sock] = p
    /\ \A s \in Socks : sock2port[s] # 0 => /\ con[sock2port[s]].sock = s
                                            /\ sock2port[s] \notin Elements(free_ports)

(* The refinement mapping: the owner of a port is the client of the        *)
(* connection in use on it.                                                *)
Owner == [p \in Ports |-> IF InUse(p) THEN con[p].sock ELSE NoSock]

Pool == INSTANCE PortPool WITH owner <- Owner

(* Seen from outside, the manager is a pool in which a port has at most    *)
(* one owner and a client at most one port, through all timeouts, releases *)
(* and fetches of the records.                                             *)
ImplementsPortPool == Pool!PoolSpec

(* Every connection in use has a timer that will time it out: the position *)
(* kept in wheel_slot_and_index holds its port, or the running tick is     *)
(* about to visit it.  This is what the assertion in release_port needs.   *)
TimerArmed ==
    \A p \in Ports : InUse(p) =>
        \/ HasEntry(con[p]) /\ Entry(con[p]) = p
        \/ p \in Elements(drain)

(* No port is lost while the records are not fetched from a running        *)
(* pipeline: every port is in the queue or in use.                         *)
NoPortLeak == ~Fetches => \A p \in Ports : InUse(p) \/ p \in Elements(free_ports)

(* No assertion of cmanager.rs fails while the records are not fetched     *)
(* from a running pipeline.                                                *)
NoPanic == ~Fetches => ~panicked

(* A timer entry belongs to the connection that is on the port now: no     *)
(* entry is left behind that would time out a later connection.  (Ports    *)
(* whose timer was armed twice are excepted, see Reschedule.)              *)
TimersAreCurrent ==
    \A i \in 0..(Slots - 1) : \A k \in DOMAIN wheel[i] :
        LET p == wheel[i][k]
        IN  p # 0 /\ p \notin resched /\ InUse(p) => con[p].slot = i /\ con[p].index = k - 1

(* release_timeouts never ends a connection before its timeout has passed  *)
(* since its SYN, even when timer ticks come late.  (Ports whose timer was *)
(* armed twice are excepted, see Reschedule.)                              *)
NoEarlyTimeout ==
    [][\A p \in Ports : InUse(p) /\ ~InUse(p)' /\ drain # << >> =>
            age[p] = Timeout \/ p \in resched]_cmVars

(* The timer wheel gets every connection released in the end: no port      *)
(* stays in use for ever, whatever its client and its server do.           *)
EveryConnectionEnds == \A p \in Ports : InUse(p) ~> (panicked \/ ~InUse(p))

(* What assert!(cc.in_use()) in get_mut_or_insert states: the port found   *)
(* for a client's SYN belongs to a connection in use.                      *)
MappedSocksInUse == \A s \in Socks : sock2port[s] # 0 => InUse(sock2port[s])
=============================================================================
