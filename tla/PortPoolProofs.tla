--------------------------- MODULE PortPoolProofs ---------------------------
(***************************************************************************)
(* ConnectionManager implements PortPool, for every set of clients, every  *)
(* port range and every wheel.                                             *)
(*                                                                         *)
(* The owner of a port depends on con alone, so that an action is a step   *)
(* of the pool only if it changes proxy_port or sock of a connection.      *)
(***************************************************************************)
EXTENDS ConnectionManagerProofs

(* con and its mapping when the connection on p loses its port.            *)
LEMMA ReturnStep ==
    ASSUME CMInv, NEW p \in Ports, InUse(p),
           con' = [con EXCEPT ![p].proxy_port = 0]
    PROVE  Pool!Return(p)
<1>1. con \in [Ports -> Connection] /\ con[p].sock \in Socks
  BY DEF CMInv, CMTypeOK, SocksAndPortsAgree
<1>2. Owner[p] # NoSock
  BY <1>1, SockAssumption DEF Owner
<1>3. \A q \in Ports : /\ con'[q].sock = con[q].sock
                       /\ q # p => con'[q].proxy_port = con[q].proxy_port
      /\ con'[p].proxy_port = 0
  BY <1>1 DEF Connection
<1>4. Owner' = [Owner EXCEPT ![p] = NoSock]
  BY <1>3 DEF Owner, InUse
<1> QED
  BY <1>2, <1>4 DEF Pool!Return

(* A step that leaves proxy_port and sock of every connection as they are  *)
(* leaves the pool as it is.                                               *)
LEMMA PoolStutters ==
    ASSUME \A q \in Ports : con'[q].proxy_port = con[q].proxy_port /\ con'[q].sock = con[q].sock
    PROVE  Owner' = Owner
BY DEF Owner, InUse

(* get_mut_or_insert of a client without a port is a grant of the pool.    *)
LEMMA AcceptStep ==
    ASSUME CMInv, NEW s \in Socks, Accept(s)
    PROVE  \E p \in Ports : Pool!Grant(s, p)
<1> DEFINE p == Head(free_ports)
<1>1. /\ free_ports \in Seq(Ports) /\ free_ports # << >> /\ sock2port[s] = 0
      /\ con \in [Ports -> Connection]
  BY DEF CMInv, CMTypeOK, Accept, NoPort
<1>2. p \in Ports /\ ~InUse(p)
  BY <1>1, InvFacts, ElementsTail DEF InUse
<1>3. \A q \in Ports : Owner[q] # s
  BY <1>1, SockAssumption, PortsArePositive DEF CMInv, SocksAndPortsAgree, Owner
<1>4. Owner[p] = NoSock
  BY <1>2 DEF Owner
<1>5. con' = [con EXCEPT ![p] = Scheduled([proxy_port |-> p, sock |-> s, slot |-> 0, index |-> 0])]
  BY DEF Accept
<1>6. con'[p].proxy_port = p /\ con'[p].sock = s /\ \A q \in Ports : q # p => con'[q] = con[q]
  BY <1>1, <1>2, <1>5 DEF Scheduled
<1>7. p # 0
  BY <1>2, PortsArePositive
<1>8. Owner' = [Owner EXCEPT ![p] = s]
  BY <1>2, <1>6, <1>7 DEF Owner, InUse
<1> QED
  BY <1>2, <1>3, <1>4, <1>8 DEF Pool!Grant

(* Every step of the manager is a step of the pool or leaves it alone.     *)
THEOREM StepSimulation == CMInv /\ [CMNext]_cmVars => [Pool!PoolNext]_Owner
<1> SUFFICES ASSUME CMInv, [CMNext]_cmVars
             PROVE  Pool!PoolNext \/ Owner' = Owner
  OBVIOUS
<1>1. ASSUME NEW s \in Socks, Accept(s) PROVE Pool!PoolNext
  BY <1>1, AcceptStep DEF Pool!PoolNext
<1>2. ASSUME NEW s \in Socks, TouchStale(s) PROVE Owner' = Owner
  BY <1>2 DEF TouchStale, Owner, InUse
<1>3. ASSUME NEW p \in Ports, Reschedule(p) PROVE Owner' = Owner
  <2>1. con \in [Ports -> Connection] /\ con' = [con EXCEPT ![p] = Scheduled(con[p])]
    BY <1>3 DEF CMInv, CMTypeOK, Reschedule
  <2>2. \A q \in Ports : con'[q].proxy_port = con[q].proxy_port /\ con'[q].sock = con[q].sock
    BY <2>1 DEF Scheduled
  <2> QED
    BY <2>2, PoolStutters
<1>4. ASSUME NEW p \in Ports, release_port(p) PROVE Pool!PoolNext
  BY <1>4, ReturnStep DEF release_port, Pool!PoolNext
<1>5. CASE Elapse
  BY <1>5 DEF Elapse, Owner, InUse
<1>6. ASSUME NEW fetch \in BOOLEAN, TimerTick(fetch) PROVE Pool!PoolNext \/ Owner' = Owner
  <2>1. CASE fetch
    <3>1. con' = [p \in Ports |-> [con[p] EXCEPT !.proxy_port = 0]]
      BY <1>6, <2>1 DEF TimerTick, fetch_c_records
    <3>2. con \in [Ports -> Connection]
      BY DEF CMInv, CMTypeOK
    <3>3. \A p \in Ports : con'[p].proxy_port = 0
      BY <3>1, <3>2 DEF Connection
    <3>4. Pool!RecallAll
      BY <3>3 DEF Pool!RecallAll, Owner, InUse
    <3> QED
      BY <3>4 DEF Pool!PoolNext
  <2>2. CASE ~fetch
    BY <1>6, <2>2 DEF TimerTick, Owner, InUse
  <2> QED
    BY <2>1, <2>2
<1>7. CASE TickSlot
  BY <1>7 DEF TickSlot, Owner, InUse
<1>8. CASE TickEntry
  <2> DEFINE p == Head(drain)
  <2>1. CASE get_mut_by_port(p)
    <3>1. p \in Ports /\ InUse(p) /\ con' = [con EXCEPT ![p].proxy_port = 0]
      BY <1>8, <2>1 DEF TickEntry, get_mut_by_port
    <3>2. Pool!Return(p)
      BY <3>1, ReturnStep
    <3> QED
      BY <3>1, <3>2 DEF Pool!PoolNext
  <2>2. CASE ~get_mut_by_port(p)
    BY <1>8, <2>2 DEF TickEntry, Owner, InUse
  <2> QED
    BY <2>1, <2>2
<1>9. CASE UNCHANGED cmVars
  BY <1>9 DEF cmVars, Owner, InUse
<1> QED
  BY <1>1, <1>2, <1>3, <1>4, <1>5, <1>6, <1>7, <1>8, <1>9 DEF CMNext, Tick

(* The queues, maps and timers of the manager implement the pool of ports: *)
(* through all timeouts, releases and fetches of the records a port has at *)
(* most one owner and a client at most one port.                           *)
THEOREM Refinement == CMSafeSpec => ImplementsPortPool
<1>1. CMInit => Pool!PoolInit
  BY DEF CMInit, Pool!PoolInit, Owner, InUse
<1>2. CMInv /\ [CMNext]_cmVars => [Pool!PoolNext]_Owner
  BY StepSimulation
<1> QED
  BY <1>1, <1>2, Invariance, PTL DEF CMSafeSpec, ImplementsPortPool, Pool!PoolSpec
=============================================================================
