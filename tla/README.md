# A TLA+ model of ProxyEngine

ProxyEngine is a user-space TCP proxy with *delayed binding*: it accepts the
client's connection itself, waits for the first payload packet, selects a server
by that packet, opens a second connection to the server, and from then on
translates sequence numbers between the two. Every core runs one *pipeline*, a
single thread that shares nothing with the others.

Paths below are relative to the root of the repository (`src/cmanager.rs`,
`src/nftcp.rs`, `src/bin.rs`, `src/lib.rs`).

## 1. The system

| Part | State | Operations | Talks to |
|---|---|---|---|
| Connection manager (`cmanager.rs`) | `free_ports`, `sock2port`, `port2con` | `new`, `get_mut_or_insert`, `get_mut_by_sock`, `get_mut_by_port`, `release_port`, `release_timeouts`, `timeout`, `fetch_c_records` | packet handler (calls), timer wheel |
| Timer wheel (crate netfcts, set up in `nftcp.rs`) | slots with ports; a connection remembers slot and index | `schedule`, `replace`, `tick`; resolution, timeout and overflow check from the configuration | connection manager |
| Packet handler (`delayed_binding_closure`, `nftcp.rs`) | TCP states of both sides, sequence numbers, the kept payload packet (in `ProxyConnection`) | one branch per kind of packet | everything |
| Frame filter (start of the handler) | none | drop, give to the kernel, take for a client's or a server's packet | packet handler, kernel |
| Tick generator | clock | a timer packet every 10 ms on an urgent queue | packet handler |
| Connection records (`DetailedConnection`, `Extension`) | a store with two arrays of seven states per connection | `push_state`, `init`, `set_release_cause` | manager, handler, main |
| Packet buffers (`PduAllocator`, `payload_packet`) | a batch of buffers, the packets that connections keep | `get_pdu`, `take`, drop | memory pool |
| Output tasks | three groups (drop, network, kernel) and a bypass queue for the delayed payload | send | network, kernel |
| Server selection and payload callbacks (`bin.rs`) | server list | `f_by_payload`, `f_process_payload_c_s` | packet handler |
| Runtime and main (`bin.rs`) | message channels | `StartEngine`, `FetchCounter`, `FetchCRecords`, `Exit` | packet handler, at timer packets |
| Pipeline set-up, flow steering (`lib.rs`) | port range or address of each pipeline | set up once | manager, network interface |

What is hard to get right, and to test:

* A port is referred to from four places (queue, socket map, connection table,
  timer wheel). It can be given back by four different events: the last ACK of a
  close, an RST, a timeout, or a fetch of the records. It is given out again soon
  afterwards, while references of its former life may still exist.
* Timer entries are not removed but overwritten at a remembered position, after
  the slot may have been drained and filled again. Ticks may come late.
* Two TCP state machines advance on packets that the proxy does not control: they
  are lost, duplicated and reordered, both sides may close at the same time, and
  the client may close before the server has opened. The proxy retransmits
  nothing itself.
* Sequence and acknowledgement numbers are translated by offsets that are computed
  in the middle of the handshakes, while packets of both sides are in flight.
* The order of tests in the handler matters, and states are compared with `<`.
* Main, runtime thread and pipelines exchange requests while any pipeline may have
  stopped by a failed assertion.

The hazards are listed in `PROJECT.json`, each at its line, with the properties
that cover it.

## 2. The modules

| Module | What it is |
|---|---|
| `ConnectionManager` | the manager, the timer wheel and time |
| `WheelConfig` | the timeout of `ConnectionManager`, computed from the configuration |
| `PortPool` | what the manager promises: a pool of ports with exclusive owners |
| `TcpState` | TCP states, sequence numbers, segments |
| `DelayedProxy` | the packet handler on top of `ConnectionManager`, and the records |
| `ProxyNet` | `DelayedProxy` between a client, a server and an unreliable network |
| `PacketBuffers` | `DelayedProxy` with a limited pool of packet buffers |
| `FlowSteering` | several pipelines behind one interface, set-up, frame filter |
| `MainProgram` | main, runtime thread, pipelines and their messages |
| `ConnectionManagerProofs` | the inductive invariant of `ConnectionManager` and its consequences |
| `PortPoolProofs` | `ConnectionManager` implements `PortPool` |
| `TimerProofs` | entries of the wheel are current, timeouts are not early |
| `DelayedProxyProofs` | the inductive invariant of the handler, its consequences, and that the handler runs the manager |
| `PacketBuffersProofs` | how many buffers are enough |
| `ProxyNetProofs` | the proxy in the network runs the handler; streams and acknowledgements |
| `FlowSteeringProofs` | addresses and ports of several pipelines, for any number of them |
| `MainProgramProofs` | order and completeness of the answers to main, for any number of pipelines |
| `MC...` | instances for TLC |

### ConnectionManager

One variable for each structure (`con` is `port2con`, restricted to the fields
the manager sets). `sock2port[s] = 0` stands for "no entry". Time is counted in
intervals of the wheel: `lag` is the number of intervals since the last tick, so
a new entry goes to slot `hand + lag + Timeout`. Actions:

| Action | Code |
|---|---|
| `Accept` | `get_mut_or_insert` for a new socket, and the `schedule` that follows in the SYN branch |
| `Reschedule` | the same branch for a connection whose client side is `Closed`: a second timer |
| `TouchStale` | a packet for a connection that was released by `fetch_c_records`: the thread panics when the packet opens or closes (data is forwarded with source port 0 and changes nothing here) |
| `release_port` | `release_port` on a connection in use, with its assertions |
| `Elapse` | one interval passes |
| `TimerTick` | the timer packet: an optional `fetch_c_records`, then the start of `release_timeouts` |
| `TickSlot`, `TickEntry` | one turn of the outer, of the inner loop of `release_timeouts`, with `timeout` |

The handler runs to completion, so all actions but `Elapse` and the two loop
steps wait until the loop is over (`Idle`). A failed assertion sets `panicked`,
after which the pipeline does nothing. `age` and `resched` are history variables
and influence nothing.

`Accept` and the schedule are one step because nothing happens between them in
the handler. In `ConnectionManager` alone, `release_port` and `Reschedule` may
happen at any time; `DelayedProxy` says when they do.

`WheelConfig` translates the set-up of the wheel: its resolution and the ticks in
cycles, the overflow check, and the conversion of the configured milliseconds,
with the units the code uses. Its runs take `Timeout` from it.

Modelled from their use, because their code is not in this repository:
`TimerWheel` (`schedule` returns the position of the new entry, `replace` returns
the old entry or nothing, `tick` drains one slot after the other up to the
current time), `shuffle_ports` (some permutation), `make_reply_packet`, the order
of the enumeration `TcpState`.

### DelayedProxy

`tcp[p]` is the rest of `ProxyConnection`. Each action is one branch of
`delayed_binding_closure` together with the end of the handler: the test for two
closed sides and the release (`Finish`), and the forwarding, which depends on the
states *before* the branch (`EndClient`, `EndServer`). The guards repeat the order
of the branches (`Resent`, `IsSyn`, `IsAck2`, `PastHandshake`, `PastClose`).
`out` holds the packets a step emits. `client_state` and `server_state` are the
states the handler decides by; `s_states`, `s_cause` and `c_cause` are what goes
into the record besides, when `detailed_records` is set.

Clients and servers are not modelled here: any segment of `ClientSegs` or
`ServerSegs` may arrive at any time. This contains every loss, duplication, delay
and reordering, and also segments that correct endpoints would not send; a
property that holds here holds with any endpoints.

The callbacks are parameters: `f_select_server` gives the servers and payloads it
may choose for a first payload (none: it panics), `f_process_payload_c_s` what
becomes of a later one.

Left out of the state: counters and time stamps, `ackn_p2s` and `client_mac`,
which the handler writes and never bases a decision on; addresses and checksums;
the padding of short frames; the reference counts of buffers, with the assertion on
them in `nftcp.rs:415`. A payload is a sequence of letters. The union `Seqn`
is one field, `seqn`, as in memory. `DelayedProxy` assumes that the records are
not fetched while it runs (`NoFetch`); `ConnectionManager` covers that case.

### ProxyNet

What "TCP pass-through" means needs endpoints. Client and server are TCP stacks
reduced to sequence space: a SYN, one unit for every byte, a FIN, a window,
retransmission of the oldest unacknowledged unit, an ACK for everything that
occupies sequence space; what comes out of order, or after the FIN of the peer
(`ended`), is dropped. Their FIN carries no data, so that the runs with endpoints do
not meet the FIN of `proxy_fin_seqn`. The network is a set of packets. Where it is `Persistent`, packets stay in it, so that each may arrive
never, late, or many times; otherwise a packet arrives once, in any order, and at
most `MaxLosses` are lost. `ProxyReceive` is a packet's way through the handler of
`DelayedProxy` (`FromClient`, `FromServer`), whose output goes into the network,
so that what leaves through different queues may overtake each other. `first`
remembers the first payload as it came and as the callback left it. Endpoints and
network are external to the repository.

### PacketBuffers

`pool` and `pdu_batch` are the numbers of buffers in the memory pool and in the
allocator's batch. `FirstPayload` is the branch that needs a buffer for the SYN to
the server and keeps the packet it got; buffers of kept packets come back when the
server answers or when the port is given out again (`SentToServer`, `Dropped`), not
when the connection ends. `DelayedProxy` supplies everything else.

### FlowSteering

The state of a pipeline is reduced to the owners of its ports, as in `PortPool`.
`SetupPipes` is the set-up per core, `Handle` the tests at the start of the handler
(`Branch`) and the opening of a connection. `Steered` says where the interface puts
a frame, by address or by upper bits of the port, or by a hash (`rss`) that may be
any function; it is external. `conf` is the configuration in use and never changes.

### MainProgram

One sequence for each channel. Main goes from `StartEngine` through its loop to the
two requests, the collection of answers, the evaluation and the exit; a pipeline
sends its channel and then its task when it is set up, takes one request in each
timer packet, and may stop at any time. Every send is a step of its own. The runtime
thread between them is external, and whether it survives a closed channel is left
open. A failed `unwrap` on a send ends the sender. `asked` and `early` are history
variables: the pipelines that main asked, and those with something under way when it
gave up.

## 3. The runs

| Run | Instance | Shows |
|---|---|---|
| `cm_safety` | 3 sockets, 2 ports, 3 slots, timeout of 2, at most 2 entries in a slot | `FreePortsUnused`, `SocksAndPortsAgree`, `TimerArmed`, `NoPortLeak`, `NoPanic`, `TimersAreCurrent`, `NoEarlyTimeout`, refinement of `PortPool` |
| `cm_fetch` | 2 sockets, 2 ports, ticks up to 2 intervals late, records fetched or not | `FreePortsUnused`, `SocksAndPortsAgree`, `TimerArmed`, `NoEarlyTimeout`, refinement of `PortPool`, `EveryConnectionEnds` |
| `proxy_safety` | 2 sockets, port range 0..1 (one usable port), all segments with sequence numbers modulo 2, 2 servers, records kept, batches of 2 and 3 buffers | types, `SidesAgree`, `NoZombie`, `PayloadPending`, `CompletedTogether`, `OffsetStable`, `BoundOnce`, `ReleasedAfterBothFins`, `GetPduSucceeds` |
| `net_stream` | persistent network, window 1, a client with 2 bytes, a server with 1, one or none closes, the server's numbers and the offset wrap around | `StreamC2S`, `StreamS2C`, `AckedMeansDelivered` |
| `net_close` | no losses, any order, both close, a callback that adds or removes a byte, records kept | `StreamC2S`, `EverythingArrives`, `PortComesBack` |
| `net_lost` | up to 3 losses, the timer runs, the same callback, the numbers of both sides wrap around | `AckedMeansDelivered`, `ClientConnects`, `ArrivesOrReleased` |
| `shutdown` | 2 pipelines | `CountersBeforeRecords`, `AnswersComplete`, `CtrlCEndsProgram` |
| `flow` | 2 pipelines, by address or by port, 2 clients, stray frames | `OwnersAreClients`, `SourcesUnique`, `AnswersReachConnection` |
| `proxy_fin_seqn`, `net_first_payload`, `net_overtake`, `net_records` | one connection, sequence numbers modulo 16 | violations, see below |

Bounds. More clients than ports makes the queue run empty and ports change hands.
A wheel with one slot more than the timeout is the smallest in which an entry of
the current slot and one of a full timeout ahead differ; two entries in a slot let
entries of two ports, or of two lives of one port, share a slot. `MaxEntries`
stops `Accept` and `Reschedule` when a slot is full; the code has no such limit.
`MaxLag` plus `Timeout` fits the wheel, as it does in the code for the configured
timeouts and ticks of 10 ms. For the handler, one port is enough because no branch
looks at two connections, and two sockets make it change hands; modulo 2 each
comparison of sequence numbers can come out either way, which is all that the
handler's control depends on.

In `ProxyNet` numbers are modulo 16, so that no wrapping comparison of an endpoint
is ambiguous for streams of two units. Two bytes of the client are the first
payload and one that the handler forwards; three losses suffice to lose a packet,
its retransmission and one more, or one packet of each handshake and the payload.
In `proxy_safety` three buffers are one for the port and a batch, the smallest pool in
which packets can be received at all; the handler runs with its buffers there, which
changes nothing else (`BuffersAddNothing`). In `flow` two ports for each pipeline let each client get any of them, and
one stray frame at a time is enough since they do not influence each other.

Symmetry: nothing distinguishes client sockets; it is used in runs without
liveness only. The views of the runs hide `out` (which no action and none of their
properties reads), and of a record's states all but the last.

Fairness. `cm_fetch`: `Elapse` is weakly fair because time passes, and the steps of
the tick because the tick queue is marked urgent and the scheduler serves it
whatever else arrives; nothing is assumed of clients and servers, so that
`EveryConnectionEnds` holds although they may stay silent, which is exactly what
the timeouts are for. `ProxyNet`: endpoints send when they may, and the network
delivers what it does not lose (weakly fair); retransmission and the proxy's timer
are strongly fair, because clocks run whatever is in flight, while in the model
they are disabled as long as packets are. `MainProgram`: main and the runtime
thread run on when they can; nothing is assumed of the pipelines, nor that ctrl-c
is pressed.

Deadlock is not checked where a panic or the end of the program stops the system,
and in `ProxyNet`, where an exchange comes to its end.

Every property of a passing run is also checked against a mutation of the model
(`mutants` in `PROJECT.json`), which must violate it.

### What the violations show

* `FinSeqnIsOfFin`: a FIN with payload is remembered by the wrong number, so that
  its acknowledgement is not recognised and the connection stays until its timeout.
* `FirstPayloadParsed`: a second copy of the handshake ACK is taken for the first
  payload, and the callback of `bin.rs` panics on it.
* `StreamC2S` in `net_overtake`: with two segments of the client in flight, the
  second may select the server, and the first is lost although it is acknowledged.
* `RecordsFit`: a FIN of the server and the client's ACK to it take a place each in the
  record of the server side, and again when they are repeated. Two lost ACKs in a row
  are enough: the eighth state is written behind the array of seven, which stops the
  pipeline with all its connections.

### Limits of the properties that hold

Most are a change of a line or two of a configuration, after which TLC finds a
counterexample:

* `NoEarlyTimeout` needs a timeout that fits the wheel. The overflow check in
  `nftcp.rs:101` compares milliseconds with cycles and lets longer ones pass
  (`Established = 40` in `MCConnectionManager.cfg`).
* After a fetch of the records, sockets are mapped to connections that are not in
  use, which `get_mut_or_insert` asserts cannot be (`MappedSocksInUse` as an
  invariant in `MCConnectionManagerFetch.cfg`). `bin.rs:252` asks for the records
  before the pipelines stop.
* `TimersAreCurrent` and `NoEarlyTimeout` except ports to which `Reschedule`
  happened: a SYN on a half-closed connection leaves a timer entry behind that
  outlives the connection.
* `PortComesBack` needs client numbers that do not wrap around between the first byte
  and the FIN (`ClientISN = 14` in `MCNetClose.cfg`): `nftcp.rs:548` compares numbers
  with `<`, takes the FIN for a re-sent packet and ignores its flag, and only the timer
  frees the port. What arrives is not affected, since such packets are forwarded.
* The endpoints of `ProxyNet` begin every connection with the same number. The handler
  does not check the acknowledgement number of a SYN-ACK, so that a late one of an
  earlier connection with another number would fix the wrong offset.
* `StreamC2S` needs a callback that does not overwrite bytes, or a network that
  repeats nothing (`f_select_server <- Replaced` in `MCNetStream.cfg`): a
  retransmission of the first payload is forwarded as it is.
* `GetPduSucceeds` needs a buffer for every port and a batch, because connections that
  ended keep their packets: with two ports, batches of two and three buffers, two
  packets are kept when the batch is used up, and no new one can be filled.
* `AnswersReachConnection` needs a listening port that is not among the ports given
  out (`ListenPort = 1` in `MCFlowSteering.cfg`).

## 4. The proofs

Nothing is bounded in the theorems but what the named assumptions bound: sets of
clients, pipelines, ports and segments, the size of the wheel, the modulus of the
sequence numbers and the callback are arbitrary.

### The manager (`ConnectionManagerProofs`, `PortPoolProofs`)

For every set of sockets, every port range that satisfies `PortAssumption` and
`MaskAssumption`, and every wheel:

* `TypeCorrect`, `PortsAreExclusive`, `LookupsAgree`, `TimersStayArmed`,
  `NothingLost`, `NoPortIsLost`: the invariants `CMTypeOK`, `FreePortsUnused`,
  `SocksAndPortsAgree`, `TimerArmed`, `NoPortLeak` and `NoPanic`, with and
  without fetches of the records (the last two say something only without).
* `Refinement`: `CMSafeSpec => ImplementsPortPool`.

The inductive invariant `CMInv` is the conjunction of these invariants and of
`NoStaleSock` (no socket is mapped to an unused connection, without fetches). No
part is inductive alone. `FreePortsUnused` needs `SocksAndPortsAgree` to know
that a released port is not queued already, and `SocksAndPortsAgree` needs that
a mapped port is not queued, also when its connection is gone. `NoPanic`, the
assertion in `release_port`, needs `TimerArmed`: the remembered position holds
the port itself or has been drained. `TimerArmed` needs the tick's unvisited entries as a second
place where a timer may be, because a drained slot is emptied before its entries
are visited. `NoPanic` for SYNs needs `NoStaleSock`.

The proof has one lemma per action; `Vacate` is the part common to
`release_port` and `timeout`, `ScheduleArms` and `ReplaceKeepsOthers` are the
facts about the wheel. `MaskAssumption` enters once, in `PortsAreOwned`: the mask
comparison of `get_mut_by_port` accepts every port of the range, without which a
timer could fail to end a connection.

For the refinement, the owner of a port is the client of the connection in use on
it. `Accept` is a `Grant`, `release_port` and an effective `TickEntry` are a
`Return`, a fetch is `RecallAll`, everything else leaves the pool alone.

### The timer wheel (`TimerProofs`)

* `EntriesStayCurrent`: `TimersAreCurrent`. The property speaks of ports in use, and
  a port that is free today is in use tomorrow; so `AllCurrent` adds that a port in
  the queue of free ports has no entry at all, nor one among those that a running
  tick has still to visit.
* `TimeoutsAreNotEarly`: `NoEarlyTimeout`, if `WheelIsLargeEnough`, that is
  `Timeout + MaxLag <= Slots`. `OnTime` says that the entry of a connection is `d`
  slots ahead of the hand with `d` at least what is left of the timeout, counting
  the intervals that have passed without a tick. The hypothesis is needed: with
  `MaxLag = 2` in `MCConnectionManager.cfg` an entry comes to lie in a slot that
  the next tick drains, and TLC finds the early timeout. In the code the wheel has
  1002 slots of 10 ms, and `CheckedEstablished` is meant to keep the timeout below; see
  "Limits" in section 3.

### The handler (`DelayedProxyProofs`)

* `DPTypeCorrect`, `SidesStayInStep`, `NoZombiesKept`, `PayloadIsKept`,
  `RecordsAgree`: the invariants `DPTypeOK`, `SidesAgree`, `NoZombie`,
  `PayloadPending`, `CompletedTogether`.
* `OffsetStaysFixed`, `ServerIsBoundOnce`, `ReleaseNeedsBothFins`: the action
  properties `OffsetStable`, `BoundOnce`, `ReleasedAfterBothFins`.
* `HandlerRunsManager`: `DPSpec => CMSafeSpec`, so that what is proved of the
  manager holds under the handler. Hypothesis: the callback makes a choice for every
  segment that a client may send. Without it the pipeline stops within a branch (see
  `net_first_payload`), which is no step of the manager.

`SidesAgree` is not inductive. `ConnInv`, the part of `DPInv` about a connection in
use, lists the pairs of states that occur (`PairInv`), the FINs that must have come
for each of them (`FinsInv`), when a packet is kept (`PayloadInv`), and that the
record's last state is the state of the server side (`RecordInv`, which
`CompletedTogether` needs at the moment of release). `CMInv` holds until a callback
panics. The proof first says what each operation on a connection does (`ClientPush`,
`ServerClose`, `Selected`...), then for each branch that its result is fit for a
connection in use, or ends it well (`Result`); `ClientEnd` and `ServerEnd` add what
the end of the handler does. `Touches(p)` is the conclusion for every branch: only
the connection of `p` changes, to such a result. `StepChanges` collects all branches
and the manager's steps, and the invariant and the action properties follow from it.

### Buffers (`PacketBuffersProofs`)

* `BuffersAreEnough`: `GetPduSucceeds`, if `PoolSize >= Cardinality(Ports) +
  BatchSize`. The invariant `Balanced` is that pool, batch and packets kept by ports
  add up to `PoolSize`; a port keeps at most one.
* `BuffersAddNothing`: then `PBSpec => DPSpec`, so that the handler's theorems hold.

### The network (`ProxyNetProofs`)

* `NetworkRunsHandler`: `PNSafeSpec => DPSpec`, if `DelayedProxy` takes any segment
  (`ClientSegs` and `ServerSegs` are `Segments`; the runs of `ProxyNet` do not use
  these constants and leave them empty). So the handler's theorems hold between
  endpoints, for any streams, windows, losses and repetitions. The work is in showing
  that only segments are in flight (`NetInv`): what the handler emits is computed
  from a connection, what an endpoint sends from what it received.
* `ServerStreamArrives`: `StreamS2C`, if `NumbersApart(Len(ServerStream))`.
* `ClientStreamArrives`: `StreamC2S`, if `FirstByteFirst`, `PlainCallbacks` and
  `NoReconnect`.
* `AcknowledgedArrived`: `AckedMeansDelivered`, if moreover `AcksApart`.

The last three are about all packets in flight, for any streams, losses,
repetitions, timeouts and closes. Their hypotheses, beside the one on segments:

* `NumbersApart(l)`: the initial numbers of the proxy are more than `l` from each other
  and from the other numbers the client may see the server's bytes counted from
  (`Bases`). The client may reconnect while packets of the connection before are under
  way; with numbers closer than that, a byte of the old connection is accepted on the
  new one. It holds for 32-bit numbers from a clock unless they meet by accident.
* `FirstByteFirst`: window 1, a client that has something to say, and no server selected
  by an ACK without payload. `net_overtake` and `net_first_payload` show what happens
  otherwise.
* `PlainCallbacks`: the callback for the first payload may lengthen or shorten it, but
  one that keeps its length keeps its bytes; the callback for later payloads is that of
  `bin.rs`, which does nothing. "Limits" has the counterexample.
* `NoReconnect`: once a server is selected, the client does not open a second
  connection on its socket. `first` and the server's endpoint are those of one
  connection, and the proxy would open the second one towards the same endpoint.
* `AcksApart`: as `NumbersApart`, for a stream one unit longer, because the FIN is
  acknowledged too; and the answer to a late SYN of a client that has closed, which
  the handler forwards to the server (`ClientSynAgain`), does not acknowledge a byte
  of the server by accident.

The instance of `net_stream` satisfies all of them but `NumbersApart`, which its
server's number violates on purpose: it is chosen to wrap around, and modulo 16 it then
comes too close to the proxy's. TLC shows the properties there all the same. The
numbers of `net_close` satisfy `NumbersApart` and `AcksApart`.

`StreamS2C` says nothing of the packets under way. `ServerStreamInv` adds that every
segment to the client carries a byte of the server's stream at its place, counted from
one of `Bases`, or nothing (`Carried`), and that a connection's offset is one of
`Offsets` (`Shifts`): when a SYN or a FIN of the client comes in between, the offset
is not the one that the SYN-ACK fixed, so there are more bases than initial numbers.
`AwaitedUnit` is the arithmetic: a number within the stream's length of the awaited
one that is counted from another base contradicts `NumbersApart`. The proof needs
that an endpoint takes nothing after a FIN (`ended`), as TCP demands.

`StreamC2S` has three phases. Until a server is selected (`Unbound`), the client has
at most its first byte in flight and nothing is on its way to the server. Until the
server's SYN-ACK arrives (`Binding`), the first payload is kept and the server has got
at most a SYN. Then (`Connected`) every segment to the server carries a byte of `Due`,
the stream with the first payload exchanged, at the place that
`c2s_inserted_bytes` moves it to. A retransmission of the first payload is at a place
where `Due` has the same byte or that the server has got already: this is where
`PlainCallbacks` enters.

`AckInv` adds, for each of the four ways packets take, that an acknowledgement is of a
number of units that its sender had received, moved by what the proxy subtracts
(`AckPackets`); that a FIN to the client comes after the server's last byte; and that
a client that received a FIN has the whole stream (`EndsWithStream`), without which
the count of units is not that of the bytes. It stands on the two invariants before: a
translated acknowledgement is right only because the offset is.

### Several pipelines (`FlowSteeringProofs`)

* `SourcesAreUnique`: `SourcesUnique`, from `FlowAssumption` alone. A pipeline gives
  out only ports of its range (`OwnRange`), and by `BaseOfPort` ranges with different
  first ports are disjoint, because these are multiples of the span.
* `AnswersArrive`: `AnswersReachConnection`, if `AnswersDistinguishable`: the
  listening port is in no range, and with steering by address no pipeline has the
  address clients connect to. The code checks neither.
* `OnlyClientsConnect`: `OwnersAreClients`, if moreover `StraysAskForNothing`: no
  frame of another host is TCP to the listening port at an address of the proxy.

### Main (`MainProgramProofs`)

* `CountersComeFirst`: `CountersBeforeRecords`.
* `NoAnswerIsLost`: `AnswersComplete`. Main may give up on a pipeline that is late; the
  theorem is about all the others (`Settled`).

A request and its answer pass four queues. For every queue in which the records of a
pipeline, or the request for them, may be, `CountersAhead` says that the counters, or
the request for these, are in front of them or in a later queue (`Leads`), as long as
the pipeline runs. It holds only for pipelines that were asked for the counters, so
`RequestsInOrder` adds that nothing has been forwarded while the first request is
still in main's channel. `Sending` and `Receiving` are the facts about queues.

### Only model-checked

* Liveness, which is out of reach of the prover: `EveryConnectionEnds`,
  `EverythingArrives`, `PortComesBack`, `ClientConnects`, `ArrivesOrReleased`,
  `CtrlCEndsProgram`.
* The invariants and action properties of the runs are all theorems. Some
  theorems have hypotheses that a run does not have: `StreamC2S` in `net_close` and
  `AckedMeansDelivered` in `net_lost` are checked with a callback that selects a
  server for an empty payload, which `FirstByteFirst` excludes where the network is
  not `Persistent`: there an endpoint answers every repeated segment with an ACK.

## 5. Not modelled

* Counters, logging, profiling, record files, the time stamps in records: nothing
  the proxy does depends on them.
* The slots of the record store (`Store64`) and what happens when it is full: that
  code is in the crate netfcts.
* The capacities of queues and rings, the scheduler, the memory pool itself: code
  of e2d2 and DPDK. `PacketBuffers` counts what this repository holds on to.
* `KniHandleRequest`, which passes requests of the kernel to DPDK.
* Checksums, padding and header formats.
* Reading of the configuration file.

## 6. Plan

Done: all modules and runs above, the proofs of section 4; every invariant and action
property that a passing run checks is a theorem. What may follow:

1. `StreamC2S` for a window of more than one unit, once the handler selects the server
   by the beginning of the stream (`net_overtake` shows that it does not).
2. `StreamC2S` over several connections of one client, which needs an endpoint of the
   server for each of them.
