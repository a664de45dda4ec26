---------------------- MODULE ConnectionManagerProofs ----------------------
(***************************************************************************)
(* Proofs about ConnectionManager, for all sets of sockets, port ranges,   *)
(* wheel sizes, timeouts and bounds.                                       *)
(***************************************************************************)
EXTENDS ConnectionManager, FiniteSetTheorems, TLAPS

(* No stale entry is in sock2port while the records are not fetched.       *)
NoStaleSock == ~Fetches => MappedSocksInUse

(* The inductive invariant.                                                *)
CMInv ==
    /\ CMTypeOK
    /\ FreePortsUnused
    /\ SocksAndPortsAgree
    /\ TimerArmed
    /\ NoPortLeak
    /\ NoPanic
    /\ NoStaleSock

(***************************************************************************)
(* Ports, slots and sequences                                              *)
(***************************************************************************)

(* 0 marks "no port" and is never a port.                                  *)
LEMMA PortsArePositive ==
    /\ Ports \subseteq Nat
    /\ 0 \notin Ports
    /\ MaxPort \in Ports
    /\ IsFiniteSet(Ports)
<1>1. PortBase \in Int /\ MaxPort \in Int /\ 0 =< PortBase /\ PortBase =< MaxPort /\ 0 < MaxPort
  <2>1. PortBase \in Nat /\ PortSpan \in Nat \ {0} /\ MaxPort > 0
    BY PortAssumption
  <2>2. MaxPort = PortBase + PortSpan - 1
    BY DEF MaxPort
  <2> QED
    BY <2>1, <2>2
<1>2. IsFiniteSet(PortBase..MaxPort)
  BY <1>1, FS_Interval
<1>3. IsFiniteSet(Ports)
  BY <1>2, FS_Subset DEF Ports
<1> QED
  BY <1>1, <1>3 DEF Ports

(* Division with remainder: a number is determined by quotient and rest.   *)
LEMMA RestOfMultiple ==
    ASSUME NEW n \in Nat \ {0}, NEW k \in Int, NEW r \in 0..(n - 1)
    PROVE  (n * k + r) % n = r
<1> DEFINE d == (n * k + r) \div n
           m == (n * k + r) % n
<1>1. d \in Int /\ m \in 0..(n - 1) /\ n * k + r = n * d + m
  OBVIOUS
<1> HIDE DEF d, m
<1>2. n * (k - d) = m - r
  BY <1>1
<1>3. ASSUME k - d >= 1 PROVE FALSE
  <2>1. n * (k - d) >= n
    BY <1>1, <1>3
  <2> QED
    BY <2>1, <1>1, <1>2
<1>4. ASSUME k - d =< -1 PROVE FALSE
  <2>1. n * (k - d) =< -n
    BY <1>1, <1>4
  <2> QED
    BY <2>1, <1>1, <1>2
<1>5. m = r
  BY <1>1, <1>2, <1>3, <1>4
<1> QED
  BY <1>5 DEF m

(* Every port of the range passes the mask comparison of owns_tcp_port.    *)
LEMMA PortsAreOwned == \A p \in Ports : owns_tcp_port(p)
<1> SUFFICES ASSUME NEW p \in Ports PROVE owns_tcp_port(p)
  OBVIOUS
<1> DEFINE r == p - PortBase
           k == PortBase \div PortSpan
<1>1. r \in 0..(PortSpan - 1) /\ p = PortBase + r
  <2>1. PortBase \in Nat /\ PortSpan \in Nat \ {0}
    BY PortAssumption
  <2>2. MaxPort = PortBase + PortSpan - 1
    BY DEF MaxPort
  <2>3. p \in PortBase..MaxPort
    BY DEF Ports
  <2> QED
    BY <2>1, <2>2, <2>3
<1>2. k \in Int /\ PortBase = PortSpan * k
  BY PortAssumption, MaskAssumption
<1> HIDE DEF r, k
<1>3. (PortSpan * k + r) % PortSpan = r
  <2>1. PortSpan \in Nat \ {0}
    BY PortAssumption
  <2> QED
    BY <2>1, <1>1, <1>2, RestOfMultiple, Zenon
<1>4. p % PortSpan = r
  BY <1>1, <1>2, <1>3
<1> QED
  BY <1>1, <1>4, PortAssumption DEF owns_tcp_port

(* The slot of a new timer entry exists.                                   *)
LEMMA ScheduleSlotExists ==
    ASSUME CMTypeOK PROVE ScheduleSlot \in 0..(Slots - 1)
BY WheelAssumption DEF CMTypeOK, ScheduleSlot

(* Elements of a sequence with one more element, or one less.              *)
LEMMA ElementsAppend ==
    ASSUME NEW S, NEW q \in Seq(S), NEW x \in S
    PROVE  Elements(Append(q, x)) = Elements(q) \cup {x}
<1>1. DOMAIN q = 1..Len(q) /\ DOMAIN Append(q, x) = 1..(Len(q) + 1)
  OBVIOUS
<1>2. ASSUME NEW i \in 1..Len(q) PROVE Append(q, x)[i] = q[i]
  OBVIOUS
<1>3. Append(q, x)[Len(q) + 1] = x
  OBVIOUS
<1> QED
  BY <1>1, <1>2, <1>3 DEF Elements

(* pop_front yields an element of the queue, and loses no other element.   *)
LEMMA ElementsTail ==
    ASSUME NEW S, NEW q \in Seq(S), q # << >>
    PROVE  /\ Head(q) \in S
           /\ Head(q) \in Elements(q)
           /\ Elements(Tail(q)) \subseteq Elements(q)
           /\ Elements(q) \subseteq Elements(Tail(q)) \cup {Head(q)}
<1>1. DOMAIN q = 1..Len(q) /\ DOMAIN Tail(q) = 1..(Len(q) - 1) /\ Len(q) > 0
  OBVIOUS
<1>2. Head(q) = q[1] /\ q[1] \in S
  OBVIOUS
<1>3. ASSUME NEW i \in 1..(Len(q) - 1) PROVE Tail(q)[i] = q[i + 1]
  OBVIOUS
<1>4. ASSUME NEW i \in 2..Len(q) PROVE q[i] = Tail(q)[i - 1] /\ i - 1 \in 1..(Len(q) - 1)
  BY <1>1, <1>3
<1>5. ASSUME NEW i \in DOMAIN q PROVE q[i] \in Elements(Tail(q)) \cup {Head(q)}
  <2>1. CASE i = 1
    BY <2>1, <1>2
  <2>2. CASE i # 1
    <3>1. i \in 2..Len(q)
      BY <2>2, <1>1
    <3>2. q[i] = Tail(q)[i - 1] /\ i - 1 \in DOMAIN Tail(q)
      BY <3>1, <1>1, <1>4
    <3> QED
      BY <3>2 DEF Elements
  <2> QED
    BY <2>1, <2>2
<1>6. ASSUME NEW i \in DOMAIN Tail(q) PROVE Tail(q)[i] \in Elements(q)
  BY <1>1, <1>3 DEF Elements
<1> QED
  BY <1>1, <1>2, <1>5, <1>6 DEF Elements

(* A queue that holds nothing twice.                                       *)
Distinct(q) == \A i, j \in DOMAIN q : q[i] = q[j] => i = j

(* push_back of an element the queue does not have keeps it free of        *)
(* duplicates.                                                             *)
LEMMA DistinctAppend ==
    ASSUME NEW S, NEW q \in Seq(S), NEW x \in S, Distinct(q), x \notin Elements(q)
    PROVE  Distinct(Append(q, x))
<1>1. DOMAIN q = 1..Len(q) /\ DOMAIN Append(q, x) = 1..(Len(q) + 1)
  OBVIOUS
<1>2. \A i \in 1..Len(q) : Append(q, x)[i] = q[i] /\ q[i] # x
  BY <1>1 DEF Elements
<1>3. Append(q, x)[Len(q) + 1] = x
  OBVIOUS
<1> QED
  BY <1>1, <1>2, <1>3 DEF Distinct

(* pop_front keeps a queue free of duplicates, and the popped element is   *)
(* no longer in it.                                                        *)
LEMMA DistinctTail ==
    ASSUME NEW S, NEW q \in Seq(S), q # << >>, Distinct(q)
    PROVE  Distinct(Tail(q)) /\ Head(q) \notin Elements(Tail(q))
<1>1. DOMAIN q = 1..Len(q) /\ DOMAIN Tail(q) = 1..(Len(q) - 1) /\ Len(q) > 0
  OBVIOUS
<1>2. \A i \in 1..(Len(q) - 1) : Tail(q)[i] = q[i + 1]
  OBVIOUS
<1>3. Head(q) = q[1]
  OBVIOUS
<1> QED
  BY <1>1, <1>2, <1>3 DEF Distinct, Elements

(***************************************************************************)
(* The initial states                                                      *)
(***************************************************************************)

(* shuffle_ports yields every port once.                                   *)
LEMMA ShufflesAreSequences ==
    ASSUME NEW S, IsFiniteSet(S), NEW f \in Shuffles(S)
    PROVE  f \in Seq(S) /\ Distinct(f) /\ Elements(f) = S
<1>1. Cardinality(S) \in Nat
  BY FS_CardinalityType
<1>2. f \in [1..Cardinality(S) -> S]
  BY DEF Shuffles
<1>3. f \in Seq(S)
  BY <1>1, <1>2
<1> QED
  BY <1>2, <1>3 DEF Shuffles, Distinct, Elements

(* ConnectionManager::new establishes the invariant: all ports are queued, *)
(* each of them once, and none is in use.                                  *)
LEMMA InitInv == CMInit => CMInv
<1> SUFFICES ASSUME CMInit PROVE CMInv
  OBVIOUS
<1> USE PortsArePositive
<1>1. PICK f \in Shuffles(ShuffledPorts) : free_ports = Append(f, MaxPort)
  BY DEF CMInit
<1>2. IsFiniteSet(ShuffledPorts)
  BY FS_Subset DEF ShuffledPorts
<1>3. f \in Seq(ShuffledPorts) /\ Distinct(f) /\ Elements(f) = ShuffledPorts
  BY <1>1, <1>2, ShufflesAreSequences
<1>4. f \in Seq(Ports) /\ MaxPort \notin Elements(f)
  <2>1. f \in Seq(Ports)
    BY <1>3 DEF ShuffledPorts
  <2> QED
    BY <2>1, <1>3 DEF ShuffledPorts
<1>5. free_ports \in Seq(Ports) /\ Distinct(free_ports) /\ Elements(free_ports) = Ports
  <2>1. free_ports \in Seq(Ports)
    BY <1>1, <1>4
  <2>2. Distinct(free_ports)
    BY <1>1, <1>3, <1>4, DistinctAppend
  <2>3. Elements(free_ports) = ShuffledPorts \cup {MaxPort}
    BY <1>1, <1>3, <1>4, ElementsAppend
  <2> QED
    BY <2>1, <2>2, <2>3 DEF ShuffledPorts
<1>6. CMTypeOK
  <2>1. con \in [Ports -> Connection]
    BY WheelAssumption DEF CMInit, Connection
  <2>2. wheel \in [0..(Slots - 1) -> Seq(Ports \cup {0})] /\ drain \in Seq(Ports \cup {0})
    BY DEF CMInit
  <2>3. sock2port \in [Socks -> Ports \cup {0}] /\ age \in [Ports -> 0..Timeout]
    BY WheelAssumption DEF CMInit
  <2>4. hand \in 0..(Slots - 1) /\ lag \in 0..MaxLag /\ due \in 0..MaxLag
    BY WheelAssumption DEF CMInit
  <2>5. panicked \in BOOLEAN /\ resched \in SUBSET Ports
    BY Zenon DEF CMInit
  <2> QED
    BY <1>5, <2>1, <2>2, <2>3, <2>4, <2>5 DEF CMTypeOK
<1>7. \A p \in Ports : ~InUse(p)
  BY DEF CMInit, InUse
<1>8. FreePortsUnused
  <2>1. \A i \in DOMAIN free_ports : free_ports[i] \in Ports
    BY <1>5
  <2> QED
    BY <1>5, <1>7, <2>1 DEF FreePortsUnused, Distinct
<1>9. SocksAndPortsAgree /\ NoStaleSock
  BY <1>7 DEF CMInit, SocksAndPortsAgree, NoStaleSock, MappedSocksInUse
<1> QED
  BY <1>5, <1>6, <1>7, <1>8, <1>9 DEF CMInit, CMInv, TimerArmed, NoPortLeak, NoPanic

(***************************************************************************)
(* Timer entries                                                           *)
(***************************************************************************)

(* The position kept for p holds p.                                        *)
Armed(p) == HasEntry(con[p]) /\ Entry(con[p]) = p

(* Scheduling p arms p and leaves every other timer as it is.              *)
LEMMA ScheduleArms ==
    ASSUME CMTypeOK, NEW p \in Ports, NEW c \in Connection,
           c.slot = ScheduleSlot, c.index = Len(wheel[ScheduleSlot]),
           wheel' = schedule(p), con' = [con EXCEPT ![p] = c]
    PROVE  /\ wheel' \in [0..(Slots - 1) -> Seq(Ports \cup {0})]
           /\ Armed(p)'
           /\ \A q \in Ports \ {p} : Armed(q) => Armed(q)'
<1> DEFINE S == ScheduleSlot
           w == wheel[S]
           w2 == Append(w, p)
<1>1. S \in 0..(Slots - 1)
  BY ScheduleSlotExists
<1>2. wheel \in [0..(Slots - 1) -> Seq(Ports \cup {0})] /\ con \in [Ports -> Connection]
  BY DEF CMTypeOK
<1>3. w \in Seq(Ports \cup {0}) /\ Len(w) \in Nat
  BY <1>1, <1>2
<1>4. wheel' = [wheel EXCEPT ![S] = w2]
  BY DEF schedule
<1> HIDE DEF S, w
<1>5. w2 \in Seq(Ports \cup {0}) /\ Len(w2) = Len(w) + 1 /\ w2[Len(w) + 1] = p
  BY <1>3
<1>6. \A i \in Nat : i < Len(w) => i < Len(w2) /\ w2[i + 1] = w[i + 1]
  BY <1>3
<1> HIDE DEF w2
<1>7. wheel' \in [0..(Slots - 1) -> Seq(Ports \cup {0})]
  BY <1>1, <1>2, <1>4, <1>5
<1>8. wheel'[S] = w2 /\ \A i \in 0..(Slots - 1) : i # S => wheel'[i] = wheel[i]
  BY <1>1, <1>2, <1>4
<1>9. con'[p] = c /\ c.slot = S /\ c.index = Len(w)
  BY <1>2 DEF S, w
<1>10. Armed(p)'
  BY <1>3, <1>5, <1>8, <1>9 DEF Armed, HasEntry, Entry
<1>11. ASSUME NEW q \in Ports \ {p}, Armed(q) PROVE Armed(q)'
  <2>1. con'[q] = con[q] /\ con[q].slot \in 0..(Slots - 1) /\ con[q].index \in Nat
    BY <1>2 DEF Connection
  <2>2. con[q].index < Len(wheel[con[q].slot]) /\ wheel[con[q].slot][con[q].index + 1] = q
    BY <1>11 DEF Armed, HasEntry, Entry
  <2>3. con[q].index < Len(wheel'[con[q].slot]) /\ wheel'[con[q].slot][con[q].index + 1] = q
    <3>1. CASE con[q].slot = S
      BY <3>1, <2>1, <2>2, <1>6, <1>8 DEF w
    <3>2. CASE con[q].slot # S
      BY <3>2, <2>1, <2>2, <1>8
    <3> QED
      BY <3>1, <3>2
  <2> QED
    BY <2>1, <2>3 DEF Armed, HasEntry, Entry
<1> QED
  BY <1>7, <1>10, <1>11

(* Overwriting the entry of p leaves every other timer as it is.           *)
LEMMA ReplaceKeepsOthers ==
    ASSUME CMTypeOK, NEW p \in Ports, Armed(p), wheel' = replace(con[p]),
           con' = [con EXCEPT ![p].proxy_port = 0]
    PROVE  /\ wheel' \in [0..(Slots - 1) -> Seq(Ports \cup {0})]
           /\ \A q \in Ports \ {p} : Armed(q) => Armed(q)'
<1> DEFINE S == con[p].slot
           k == con[p].index + 1
           w == wheel[S]
           w2 == [w EXCEPT ![k] = 0]
<1>1. wheel \in [0..(Slots - 1) -> Seq(Ports \cup {0})] /\ con \in [Ports -> Connection]
  BY DEF CMTypeOK
<1>2. S \in 0..(Slots - 1) /\ con[p].index \in Nat /\ con[p].index < Len(w) /\ w[k] = p
  BY <1>1 DEF Connection, Armed, HasEntry, Entry
<1>3. w \in Seq(Ports \cup {0}) /\ Len(w) \in Nat /\ k \in 1..Len(w)
  BY <1>1, <1>2
<1>4. wheel' = [wheel EXCEPT ![S] = w2]
  BY DEF replace, Armed
<1>5. \A q \in Ports \ {p} : con'[q] = con[q]
  BY <1>1
<1> HIDE DEF S, k, w
<1>6. w2 \in Seq(Ports \cup {0}) /\ Len(w2) = Len(w)
      /\ \A i \in 1..Len(w) : i # k => w2[i] = w[i]
  BY <1>3
<1> HIDE DEF w2
<1>7. wheel' \in [0..(Slots - 1) -> Seq(Ports \cup {0})]
  BY <1>1, <1>2, <1>4, <1>6
<1>8. wheel'[S] = w2 /\ \A i \in 0..(Slots - 1) : i # S => wheel'[i] = wheel[i]
  BY <1>1, <1>2, <1>4
<1>9. ASSUME NEW q \in Ports \ {p}, Armed(q) PROVE Armed(q)'
  <2>1. con'[q] = con[q] /\ con[q].slot \in 0..(Slots - 1) /\ con[q].index \in Nat
    BY <1>1, <1>5 DEF Connection
  <2>2. con[q].index < Len(wheel[con[q].slot]) /\ wheel[con[q].slot][con[q].index + 1] = q
    BY <1>9 DEF Armed, HasEntry, Entry
  <2>3. con[q].index < Len(wheel'[con[q].slot]) /\ wheel'[con[q].slot][con[q].index + 1] = q
    <3>1. CASE con[q].slot = S
      <4>1. con[q].index + 1 # k /\ con[q].index + 1 \in 1..Len(w)
        BY <3>1, <2>1, <2>2, <1>2, <1>3 DEF w
      <4> QED
        BY <4>1, <3>1, <2>1, <2>2, <1>6, <1>8 DEF w
    <3>2. CASE con[q].slot # S
      BY <3>2, <2>1, <2>2, <1>8
    <3> QED
      BY <3>1, <3>2
  <2> QED
    BY <2>1, <2>3 DEF Armed, HasEntry, Entry
<1> QED
  BY <1>7, <1>9

(***************************************************************************)
(* The actions preserve the invariant                                      *)
(***************************************************************************)

(* What the invariant says of a state in which the handler runs.           *)
LEMMA InvFacts ==
    ASSUME CMInv
    PROVE  /\ free_ports \in Seq(Ports) /\ Distinct(free_ports)
           /\ con \in [Ports -> Connection]
           /\ sock2port \in [Socks -> Ports \cup {0}]
           /\ \A p \in Elements(free_ports) : p \in Ports /\ con[p].proxy_port = 0
           /\ \A p \in Ports : con[p].proxy_port # 0 =>
                /\ con[p].proxy_port = p /\ con[p].sock \in Socks /\ sock2port[con[p].sock] = p
                /\ Armed(p) \/ p \in Elements(drain)
           /\ \A s \in Socks : sock2port[s] # 0 =>
                con[sock2port[s]].sock = s /\ sock2port[s] \notin Elements(free_ports)
<1>1. free_ports \in Seq(Ports) /\ con \in [Ports -> Connection]
      /\ sock2port \in [Socks -> Ports \cup {0}]
  BY DEF CMInv, CMTypeOK
<1>2. Distinct(free_ports)
  BY DEF CMInv, FreePortsUnused, Distinct
<1>3. \A i \in DOMAIN free_ports : free_ports[i] \in Ports /\ con[free_ports[i]].proxy_port = 0
  BY <1>1 DEF CMInv, FreePortsUnused, InUse
<1>4. \A p \in Elements(free_ports) : p \in Ports /\ con[p].proxy_port = 0
  BY <1>3 DEF Elements
<1>5. \A p \in Ports : con[p].proxy_port # 0 => Armed(p) \/ p \in Elements(drain)
  BY DEF CMInv, TimerArmed, Armed, InUse
<1>6. SocksAndPortsAgree
  BY DEF CMInv
<1> QED
  BY <1>1, <1>2, <1>4, <1>5, <1>6 DEF SocksAndPortsAgree, InUse

(* The parts from which the invariant of the next state is put together.   *)
LEMMA InvFromFacts ==
    ASSUME CMTypeOK', Distinct(free_ports'),
           \A p \in Elements(free_ports') : con'[p].proxy_port = 0,
           SocksAndPortsAgree',
           \A p \in Ports : con'[p].proxy_port # 0 => Armed(p)' \/ p \in Elements(drain'),
           NoPortLeak', NoPanic', NoStaleSock'
    PROVE  CMInv'
<1>1. FreePortsUnused'
  BY DEF FreePortsUnused, Distinct, Elements, InUse
<1>2. TimerArmed'
  BY DEF TimerArmed, Armed, InUse
<1> QED
  BY <1>1, <1>2 DEF CMInv

(* A new client gets a port that nobody has, and a timer.                  *)
LEMMA AcceptInv ==
    ASSUME CMInv, NEW s \in Socks, Accept(s)
    PROVE  CMInv'
<1> USE PortsArePositive
<1>1. CMTypeOK
  BY DEF CMInv
<1>2. free_ports \in Seq(Ports) /\ free_ports # << >> /\ Distinct(free_ports)
  BY InvFacts DEF Accept
<1>p. PICK p \in Ports : p = Head(free_ports)
  BY <1>2, ElementsTail
<1>3. /\ p \in Elements(free_ports) /\ p \notin Elements(Tail(free_ports))
      /\ Elements(Tail(free_ports)) \subseteq Elements(free_ports)
      /\ Elements(free_ports) \subseteq Elements(Tail(free_ports)) \cup {p}
      /\ Distinct(Tail(free_ports)) /\ Tail(free_ports) \in Seq(Ports)
  BY <1>p, <1>2, ElementsTail, DistinctTail
<1>4. con[p].proxy_port = 0
  BY <1>3, InvFacts
<1>5. sock2port[s] = 0 /\ sock2port' = [sock2port EXCEPT ![s] = p]
  BY <1>p DEF Accept, NoPort
<1>c. PICK c \in Connection : c = [proxy_port |-> p, sock |-> s, slot |-> ScheduleSlot,
                                   index |-> Len(wheel[ScheduleSlot])]
  <2>1. ScheduleSlot \in 0..(Slots - 1) /\ wheel[ScheduleSlot] \in Seq(Ports \cup {0})
    BY <1>1, ScheduleSlotExists DEF CMTypeOK
  <2>2. Len(wheel[ScheduleSlot]) \in Nat
    BY <2>1
  <2> QED
    BY <2>1, <2>2 DEF Connection
<1>6. /\ con' = [con EXCEPT ![p] = c] /\ free_ports' = Tail(free_ports)
      /\ wheel' = schedule(p) /\ drain' = drain
  <2>1. Scheduled([proxy_port |-> p, sock |-> s, slot |-> 0, index |-> 0]) = c
    BY <1>c DEF Scheduled
  <2> QED
    BY <1>p, <2>1 DEF Accept
<1>7. /\ c.proxy_port = p /\ c.sock = s /\ c.slot = ScheduleSlot
      /\ c.index = Len(wheel[ScheduleSlot])
  BY <1>c
<1>8. panicked' = FALSE
  <2>1. panicked' = (con[p].proxy_port # 0)
    BY <1>p DEF Accept, InUse
  <2> QED
    BY <2>1, <1>4
<1>9. /\ age' = [age EXCEPT ![p] = 0] /\ hand' = hand /\ lag' = lag /\ due' = due
      /\ resched' = resched
  BY <1>p DEF Accept
<1>10. /\ wheel' \in [0..(Slots - 1) -> Seq(Ports \cup {0})]
       /\ Armed(p)'
       /\ \A q \in Ports \ {p} : Armed(q) => Armed(q)'
  BY <1>1, <1>3, <1>6, <1>7, ScheduleArms, Zenon
<1>11. /\ con \in [Ports -> Connection] /\ sock2port \in [Socks -> Ports \cup {0}]
       /\ con' \in [Ports -> Connection] /\ sock2port' \in [Socks -> Ports \cup {0}]
  BY <1>3, <1>5, <1>6, <1>7, InvFacts
<1>12. CMTypeOK'
  <2>1. age' \in [Ports -> 0..Timeout]
    BY <1>1, <1>3, <1>9, WheelAssumption DEF CMTypeOK
  <2>2. panicked' \in BOOLEAN
    BY <1>8
  <2>3. /\ hand' \in 0..(Slots - 1) /\ lag' \in 0..MaxLag /\ due' \in 0..MaxLag
        /\ drain' \in Seq(Ports \cup {0}) /\ resched' \in SUBSET Ports
    BY <1>1, <1>6, <1>9 DEF CMTypeOK
  <2> QED
    BY <1>3, <1>6, <1>10, <1>11, <2>1, <2>2, <2>3 DEF CMTypeOK
<1>13. con'[p] = c /\ \A q \in Ports \ {p} : con'[q] = con[q]
  BY <1>3, <1>6, <1>11
<1>14. \A q \in Elements(free_ports') : con'[q].proxy_port = 0
  BY <1>3, <1>6, <1>13, InvFacts
<1>15. ASSUME NEW q \in Ports, con'[q].proxy_port # 0
       PROVE  con'[q].proxy_port = q /\ con'[q].sock \in Socks /\ sock2port'[con'[q].sock] = q
  <2>1. CASE q = p
    BY <2>1, <1>5, <1>7, <1>11, <1>13
  <2>2. CASE q # p
    <3>1. /\ con'[q] = con[q]
          /\ con[q].proxy_port = q /\ con[q].sock \in Socks /\ sock2port[con[q].sock] = q
      BY <2>2, <1>13, <1>15, InvFacts
    <3> QED
      BY <3>1, <1>5, <1>11
  <2> QED
    BY <2>1, <2>2
<1>16. ASSUME NEW t \in Socks, sock2port'[t] # 0
       PROVE  con'[sock2port'[t]].sock = t /\ sock2port'[t] \notin Elements(free_ports')
  <2>1. CASE t = s
    BY <2>1, <1>3, <1>5, <1>6, <1>7, <1>11, <1>13
  <2>2. CASE t # s
    <3>1. sock2port'[t] = sock2port[t]
      BY <2>2, <1>5, <1>11
    <3>2. con[sock2port[t]].sock = t /\ sock2port[t] \notin Elements(free_ports)
      BY <3>1, <1>16, InvFacts
    <3>3. sock2port[t] # p /\ sock2port[t] \in Ports
      BY <3>1, <3>2, <1>3, <1>11, <1>16
    <3> QED
      BY <3>1, <3>2, <3>3, <1>3, <1>6, <1>13
  <2> QED
    BY <2>1, <2>2
<1>17. SocksAndPortsAgree'
  BY <1>15, <1>16 DEF SocksAndPortsAgree, InUse
<1>18. ASSUME NEW q \in Ports, con'[q].proxy_port # 0
       PROVE  Armed(q)' \/ q \in Elements(drain')
  <2>1. CASE q = p
    BY <2>1, <1>10
  <2>2. CASE q # p
    <3>1. Armed(q) \/ q \in Elements(drain)
      BY <2>2, <1>13, <1>18, InvFacts
    <3> QED
      BY <3>1, <2>2, <1>6, <1>10
  <2> QED
    BY <2>1, <2>2
<1>19. NoPortLeak'
  BY <1>3, <1>6, <1>7, <1>13 DEF CMInv, NoPortLeak, InUse
<1>20. NoStaleSock'
  <2>1. ASSUME ~Fetches, NEW t \in Socks, sock2port'[t] # 0
        PROVE  con'[sock2port'[t]].proxy_port # 0
    <3>1. CASE t = s
      BY <3>1, <1>3, <1>5, <1>7, <1>11, <1>13
    <3>2. CASE t # s
      <4>1. sock2port'[t] = sock2port[t] /\ sock2port[t] \in Ports
        BY <3>2, <2>1, <1>5, <1>11
      <4>2. con[sock2port[t]].proxy_port # 0
        BY <4>1, <2>1 DEF CMInv, NoStaleSock, MappedSocksInUse, InUse
      <4> QED
        BY <4>1, <4>2, <1>3, <1>7, <1>13
    <3> QED
      BY <3>1, <3>2
  <2> QED
    BY <2>1 DEF NoStaleSock, MappedSocksInUse, InUse
<1>21. Distinct(free_ports') /\ NoPanic'
  BY <1>3, <1>6, <1>8 DEF NoPanic
<1> QED
  BY <1>12, <1>14, <1>17, <1>18, <1>19, <1>20, <1>21, InvFromFacts

(* Arming a second timer leaves the connection with a timer.               *)
LEMMA RescheduleInv ==
    ASSUME CMInv, NEW p \in Ports, Reschedule(p)
    PROVE  CMInv'
<1>1. CMTypeOK
  BY DEF CMInv
<1>2. con[p].proxy_port # 0 /\ con \in [Ports -> Connection]
  BY InvFacts DEF Reschedule, InUse
<1>c. PICK c \in Connection : c = Scheduled(con[p])
  <2>1. ScheduleSlot \in 0..(Slots - 1) /\ wheel[ScheduleSlot] \in Seq(Ports \cup {0})
    BY <1>1, ScheduleSlotExists DEF CMTypeOK
  <2>2. Len(wheel[ScheduleSlot]) \in Nat
    BY <2>1
  <2>3. con[p].proxy_port \in Ports \cup {0} /\ con[p].sock \in Socks \cup {NoSock}
    BY <1>2 DEF Connection
  <2> QED
    BY <2>1, <2>2, <2>3 DEF Connection, Scheduled
<1>3. /\ c.proxy_port = con[p].proxy_port /\ c.sock = con[p].sock
      /\ c.slot = ScheduleSlot /\ c.index = Len(wheel[ScheduleSlot])
  BY <1>c DEF Scheduled
<1>4. /\ con' = [con EXCEPT ![p] = c] /\ wheel' = schedule(p)
      /\ free_ports' = free_ports /\ sock2port' = sock2port /\ drain' = drain
      /\ panicked' = panicked
  BY <1>c, <1>2 DEF Reschedule
<1>5. /\ wheel' \in [0..(Slots - 1) -> Seq(Ports \cup {0})]
      /\ Armed(p)'
      /\ \A q \in Ports \ {p} : Armed(q) => Armed(q)'
  BY <1>1, <1>3, <1>4, ScheduleArms, Zenon
<1>6. /\ con' \in [Ports -> Connection]
      /\ \A q \in Ports : con'[q].proxy_port = con[q].proxy_port /\ con'[q].sock = con[q].sock
  BY <1>2, <1>3, <1>4
<1>7. CMTypeOK'
  <2>1. age' \in [Ports -> 0..Timeout] /\ resched' \in SUBSET Ports
    BY <1>1, WheelAssumption DEF Reschedule, CMTypeOK
  <2>2. /\ hand' \in 0..(Slots - 1) /\ lag' \in 0..MaxLag /\ due' \in 0..MaxLag
    BY <1>1 DEF Reschedule, CMTypeOK
  <2> QED
    BY <1>1, <1>4, <1>5, <1>6, <2>1, <2>2 DEF CMTypeOK
<1>8. Distinct(free_ports') /\ \A q \in Elements(free_ports') : con'[q].proxy_port = 0
  BY <1>4, <1>6, InvFacts
<1>9. SocksAndPortsAgree'
  BY <1>1, <1>4, <1>6 DEF CMInv, SocksAndPortsAgree, InUse, CMTypeOK
<1>10. ASSUME NEW q \in Ports, con'[q].proxy_port # 0
       PROVE  Armed(q)' \/ q \in Elements(drain')
  <2>1. CASE q = p
    BY <2>1, <1>5
  <2>2. CASE q # p
    <3>1. Armed(q) \/ q \in Elements(drain)
      BY <1>6, <1>10, InvFacts
    <3> QED
      BY <3>1, <2>2, <1>4, <1>5
  <2> QED
    BY <2>1, <2>2
<1>11. NoPortLeak' /\ NoPanic'
  BY <1>4, <1>6 DEF CMInv, NoPortLeak, NoPanic, InUse
<1>12. NoStaleSock'
  BY <1>1, <1>4, <1>6 DEF CMInv, CMTypeOK, NoStaleSock, MappedSocksInUse, InUse
<1> QED
  BY <1>7, <1>8, <1>9, <1>10, <1>11, <1>12, InvFromFacts

(* A connection is taken off its port: the part of release_port and of     *)
(* timeout that has nothing to do with timers.                             *)
LEMMA Vacate ==
    ASSUME CMInv, NEW p \in Ports, con[p].proxy_port # 0,
           con' = [con EXCEPT ![p].proxy_port = 0],
           sock2port' = [sock2port EXCEPT ![con[p].sock] = 0],
           free_ports' = Append(free_ports, p)
    PROVE  /\ con' \in [Ports -> Connection]
           /\ sock2port' \in [Socks -> Ports \cup {0}]
           /\ free_ports' \in Seq(Ports) /\ Distinct(free_ports')
           /\ \A q \in Elements(free_ports') : con'[q].proxy_port = 0
           /\ con'[p].proxy_port = 0
           /\ \A q \in Ports \ {p} : con'[q] = con[q]
           /\ SocksAndPortsAgree' /\ NoPortLeak' /\ NoStaleSock'
<1> USE PortsArePositive
<1>1. /\ con \in [Ports -> Connection] /\ sock2port \in [Socks -> Ports \cup {0}]
      /\ free_ports \in Seq(Ports) /\ Distinct(free_ports)
  BY InvFacts
<1>2. con[p].sock \in Socks /\ sock2port[con[p].sock] = p
  BY InvFacts
<1>3. p \notin Elements(free_ports)
  BY InvFacts
<1>4. con' \in [Ports -> Connection]
  BY <1>1 DEF Connection
<1>5. /\ con'[p].proxy_port = 0
      /\ \A q \in Ports : con'[q].sock = con[q].sock
      /\ \A q \in Ports \ {p} : con'[q] = con[q]
  BY <1>1 DEF Connection
<1>6. sock2port' \in [Socks -> Ports \cup {0}]
  BY <1>1, <1>2
<1>7. \A t \in Socks : sock2port'[t] = IF t = con[p].sock THEN 0 ELSE sock2port[t]
  BY <1>1, <1>2
<1>8. free_ports' \in Seq(Ports) /\ Distinct(free_ports')
  BY <1>1, <1>3, DistinctAppend
<1>9. Elements(free_ports') = Elements(free_ports) \cup {p}
  BY <1>1, ElementsAppend
<1>10. \A q \in Elements(free_ports') : con'[q].proxy_port = 0
  BY <1>5, <1>9, InvFacts
<1>11. ASSUME NEW q \in Ports, con'[q].proxy_port # 0
       PROVE  con'[q].proxy_port = q /\ con'[q].sock \in Socks /\ sock2port'[con'[q].sock] = q
  <2>1. /\ q # p /\ con'[q] = con[q] /\ con[q].proxy_port = q
        /\ con[q].sock \in Socks /\ sock2port[con[q].sock] = q
    BY <1>5, <1>11, InvFacts
  <2>2. con[q].sock # con[p].sock
    BY <2>1, <1>2
  <2> QED
    BY <2>1, <2>2, <1>7
<1>12. ASSUME NEW t \in Socks, sock2port'[t] # 0
       PROVE  con'[sock2port'[t]].sock = t /\ sock2port'[t] \notin Elements(free_ports')
  <2>1. t # con[p].sock /\ sock2port'[t] = sock2port[t]
    BY <1>7, <1>12
  <2>2. con[sock2port[t]].sock = t /\ sock2port[t] \notin Elements(free_ports)
    BY <2>1, <1>12, InvFacts
  <2>3. sock2port[t] \in Ports \ {p}
    BY <2>1, <2>2, <1>1, <1>12
  <2> QED
    BY <2>1, <2>2, <2>3, <1>5, <1>9
<1>13. SocksAndPortsAgree'
  BY <1>11, <1>12 DEF SocksAndPortsAgree, InUse
<1>14. NoPortLeak'
  BY <1>5, <1>9 DEF CMInv, NoPortLeak, InUse
<1>15. NoStaleSock'
  <2>1. ASSUME ~Fetches, NEW t \in Socks, sock2port'[t] # 0
        PROVE  con'[sock2port'[t]].proxy_port # 0
    <3>1. t # con[p].sock /\ sock2port'[t] = sock2port[t]
      BY <1>7, <2>1
    <3>2. con[sock2port[t]].proxy_port # 0 /\ con[sock2port[t]].sock = t
      BY <3>1, <2>1, InvFacts DEF CMInv, NoStaleSock, MappedSocksInUse, InUse
    <3>3. sock2port[t] \in Ports \ {p}
      BY <3>1, <3>2, <1>1, <2>1
    <3> QED
      BY <3>1, <3>2, <3>3, <1>5
  <2> QED
    BY <2>1 DEF NoStaleSock, MappedSocksInUse, InUse
<1> QED
  BY <1>4, <1>5, <1>6, <1>8, <1>10, <1>13, <1>14, <1>15

(* release_port returns the port and overwrites no timer of another port.  *)
LEMMA ReleaseInv ==
    ASSUME CMInv, NEW p \in Ports, release_port(p)
    PROVE  CMInv'
<1>1. CMTypeOK
  BY DEF CMInv
<1>2. con[p].proxy_port # 0 /\ drain = << >>
  BY DEF release_port, InUse, Idle
<1>3. Armed(p) /\ sock2port[con[p].sock] = p
  BY <1>2, InvFacts DEF Elements
<1>4. /\ con' = [con EXCEPT ![p].proxy_port = 0]
      /\ sock2port' = [sock2port EXCEPT ![con[p].sock] = 0]
      /\ free_ports' = Append(free_ports, p)
      /\ wheel' = replace(con[p])
      /\ drain' = drain
  BY DEF release_port, Remove, PushBack
<1>5. panicked' = FALSE
  <2>1. panicked' = ((HasEntry(con[p]) /\ Entry(con[p]) # p) \/ sock2port[con[p].sock] \notin {0, p})
    BY DEF release_port
  <2> QED
    BY <2>1, <1>3 DEF Armed
<1>6. /\ con' \in [Ports -> Connection]
      /\ sock2port' \in [Socks -> Ports \cup {0}]
      /\ free_ports' \in Seq(Ports) /\ Distinct(free_ports')
      /\ \A q \in Elements(free_ports') : con'[q].proxy_port = 0
      /\ con'[p].proxy_port = 0
      /\ \A q \in Ports \ {p} : con'[q] = con[q]
      /\ SocksAndPortsAgree' /\ NoPortLeak' /\ NoStaleSock'
  BY <1>2, <1>4, Vacate
<1>7. /\ wheel' \in [0..(Slots - 1) -> Seq(Ports \cup {0})]
      /\ \A q \in Ports \ {p} : Armed(q) => Armed(q)'
  BY <1>1, <1>3, <1>4, ReplaceKeepsOthers
<1>8. CMTypeOK'
  <2>1. /\ hand' \in 0..(Slots - 1) /\ lag' \in 0..MaxLag /\ due' \in 0..MaxLag
        /\ drain' \in Seq(Ports \cup {0}) /\ resched' \in SUBSET Ports
        /\ age' \in [Ports -> 0..Timeout]
    BY <1>1 DEF release_port, CMTypeOK
  <2> QED
    BY <1>5, <1>6, <1>7, <2>1 DEF CMTypeOK
<1>9. ASSUME NEW q \in Ports, con'[q].proxy_port # 0
      PROVE  Armed(q)' \/ q \in Elements(drain')
  <2>1. q # p /\ con[q].proxy_port # 0
    BY <1>6, <1>9
  <2> QED
    BY <2>1, <1>2, <1>4, <1>7, InvFacts
<1>10. NoPanic'
  BY <1>5 DEF NoPanic
<1> QED
  BY <1>6, <1>8, <1>9, <1>10, InvFromFacts

(* The assertion fails only after the records were fetched.                *)
LEMMA TouchStaleInv ==
    ASSUME CMInv, NEW s \in Socks, TouchStale(s)
    PROVE  CMInv'
<1>1. Fetches
  BY DEF CMInv, TouchStale, StaleSock, NoStaleSock, MappedSocksInUse
<1>2. /\ panicked' = TRUE /\ free_ports' = free_ports /\ sock2port' = sock2port /\ con' = con
      /\ wheel' = wheel /\ hand' = hand /\ lag' = lag /\ due' = due /\ drain' = drain
      /\ age' = age /\ resched' = resched
  BY DEF TouchStale
<1>3. CMTypeOK'
  BY <1>2 DEF CMInv, CMTypeOK
<1>4. FreePortsUnused' /\ SocksAndPortsAgree'
  BY <1>2 DEF CMInv, FreePortsUnused, SocksAndPortsAgree, InUse
<1>5. TimerArmed'
  BY <1>2 DEF CMInv, TimerArmed, InUse, HasEntry, Entry
<1> QED
  BY <1>1, <1>3, <1>4, <1>5 DEF CMInv, NoPortLeak, NoPanic, NoStaleSock

(* The passing of time disturbs nothing.                                   *)
LEMMA ElapseInv ==
    ASSUME CMInv, Elapse
    PROVE  CMInv'
<1>1. /\ free_ports' = free_ports /\ sock2port' = sock2port /\ con' = con /\ wheel' = wheel
      /\ hand' = hand /\ due' = due /\ drain' = drain /\ panicked' = panicked
      /\ resched' = resched
  BY DEF Elapse
<1>2. lag' \in 0..MaxLag
  BY WheelAssumption DEF CMInv, CMTypeOK, Elapse
<1>3. age' \in [Ports -> 0..Timeout]
  <2>1. \A p \in Ports : age[p] \in 0..Timeout
    BY DEF CMInv, CMTypeOK
  <2> QED
    BY <2>1, WheelAssumption DEF Elapse
<1>4. CMTypeOK'
  BY <1>1, <1>2, <1>3 DEF CMInv, CMTypeOK
<1>5. FreePortsUnused' /\ SocksAndPortsAgree'
  BY <1>1 DEF CMInv, FreePortsUnused, SocksAndPortsAgree, InUse
<1>6. TimerArmed'
  BY <1>1 DEF CMInv, TimerArmed, InUse, HasEntry, Entry
<1>7. NoPortLeak' /\ NoPanic' /\ NoStaleSock'
  BY <1>1 DEF CMInv, NoPortLeak, NoPanic, NoStaleSock, MappedSocksInUse, InUse
<1> QED
  BY <1>4, <1>5, <1>6, <1>7 DEF CMInv

(* Fetching the records only takes connections off their ports.            *)
LEMMA TimerTickInv ==
    ASSUME CMInv, NEW fetch \in BOOLEAN, TimerTick(fetch)
    PROVE  CMInv'
<1>1. /\ free_ports' = free_ports /\ sock2port' = sock2port /\ wheel' = wheel
      /\ hand' = hand /\ drain' = drain /\ panicked' = panicked
      /\ resched' = resched /\ age' = age
  BY DEF TimerTick
<1>2. /\ con \in [Ports -> Connection]
      /\ con' = IF fetch THEN fetch_c_records ELSE con
      /\ fetch => Fetches
  BY DEF CMInv, CMTypeOK, TimerTick
<1>3. /\ con' \in [Ports -> Connection]
      /\ \A p \in Ports : con'[p].sock = con[p].sock /\ con'[p].slot = con[p].slot
                          /\ con'[p].index = con[p].index
      /\ \A p \in Ports : con'[p].proxy_port # 0 => con'[p] = con[p]
  <2>1. CASE fetch
    <3>1. con' = [p \in Ports |-> [con[p] EXCEPT !.proxy_port = 0]]
      BY <2>1, <1>2 DEF fetch_c_records
    <3> QED
      BY <3>1, <1>2 DEF Connection
  <2>2. CASE ~fetch
    BY <2>2, <1>2
  <2> QED
    BY <2>1, <2>2
<1>4. ~Fetches => con' = con
  BY <1>2
<1>5. CMTypeOK'
  <2>1. lag' \in 0..MaxLag /\ due' \in 0..MaxLag
    BY WheelAssumption DEF CMInv, CMTypeOK, TimerTick
  <2> QED
    BY <2>1, <1>1, <1>3 DEF CMInv, CMTypeOK
<1>6. Distinct(free_ports') /\ \A p \in Elements(free_ports') : con'[p].proxy_port = 0
  BY <1>1, <1>3, InvFacts
<1>7. SocksAndPortsAgree'
  <2>1. \A s \in Socks : sock2port[s] # 0 => sock2port[s] \in Ports
    BY InvFacts
  <2> QED
    BY <2>1, <1>1, <1>3, InvFacts DEF SocksAndPortsAgree, InUse
<1>8. \A p \in Ports : con'[p].proxy_port # 0 => Armed(p)' \/ p \in Elements(drain')
  BY <1>1, <1>3, InvFacts DEF Armed, HasEntry, Entry
<1>9. NoPortLeak' /\ NoPanic' /\ NoStaleSock'
  BY <1>1, <1>4 DEF CMInv, NoPortLeak, NoPanic, NoStaleSock, MappedSocksInUse, InUse
<1> QED
  BY <1>5, <1>6, <1>7, <1>8, <1>9, InvFromFacts

(* The timers of the drained slot are those the tick is about to visit.    *)
LEMMA TickSlotInv ==
    ASSUME CMInv, TickSlot
    PROVE  CMInv'
<1> DEFINE n == (hand + 1) % Slots
<1>1. /\ free_ports' = free_ports /\ sock2port' = sock2port /\ con' = con /\ lag' = lag
      /\ panicked' = panicked /\ age' = age /\ resched' = resched
      /\ hand' = n /\ drain' = wheel[n] /\ wheel' = [wheel EXCEPT ![n] = << >>]
      /\ due' = due - 1 /\ due > 0 /\ drain = << >>
  BY DEF TickSlot
<1>2. n \in 0..(Slots - 1)
  BY WheelAssumption DEF CMInv, CMTypeOK
<1> HIDE DEF n
<1>3. /\ wheel \in [0..(Slots - 1) -> Seq(Ports \cup {0})] /\ con \in [Ports -> Connection]
      /\ due \in 0..MaxLag
  BY DEF CMInv, CMTypeOK
<1>4. CMTypeOK'
  <2>1. /\ wheel' \in [0..(Slots - 1) -> Seq(Ports \cup {0})]
        /\ drain' \in Seq(Ports \cup {0}) /\ due' \in 0..MaxLag
    BY <1>1, <1>2, <1>3, WheelAssumption
  <2> QED
    BY <2>1, <1>1, <1>2 DEF CMInv, CMTypeOK
<1>5. FreePortsUnused' /\ SocksAndPortsAgree'
  BY <1>1 DEF CMInv, FreePortsUnused, SocksAndPortsAgree, InUse
<1>6. ASSUME NEW p \in Ports, con'[p].proxy_port # 0
      PROVE  Armed(p)' \/ p \in Elements(drain')
  <2>1. Armed(p)
    BY <1>1, <1>6, InvFacts DEF Elements
  <2>2. /\ con[p].slot \in 0..(Slots - 1) /\ con[p].index \in Nat
        /\ con[p].index < Len(wheel[con[p].slot]) /\ wheel[con[p].slot][con[p].index + 1] = p
    BY <2>1, <1>3 DEF Armed, HasEntry, Entry, Connection
  <2>3. CASE con[p].slot = n
    <3>1. wheel[n] \in Seq(Ports \cup {0}) /\ con[p].index + 1 \in DOMAIN wheel[n]
      BY <2>2, <2>3, <1>2, <1>3
    <3> QED
      BY <3>1, <2>2, <2>3, <1>1 DEF Elements
  <2>4. CASE con[p].slot # n
    BY <2>2, <2>4, <1>1, <1>2, <1>3 DEF Armed, HasEntry, Entry
  <2> QED
    BY <2>3, <2>4
<1>7. NoPortLeak' /\ NoPanic' /\ NoStaleSock'
  BY <1>1 DEF CMInv, NoPortLeak, NoPanic, NoStaleSock, MappedSocksInUse, InUse
<1>8. Distinct(free_ports') /\ \A p \in Elements(free_ports') : con'[p].proxy_port = 0
  BY <1>1, InvFacts
<1> QED
  BY <1>4, <1>5, <1>6, <1>7, <1>8, InvFromFacts

(* A visited port in use is taken off; other ports in use are armed or     *)
(* still to be visited.                                                    *)
LEMMA TickEntryInv ==
    ASSUME CMInv, TickEntry
    PROVE  CMInv'
<1> USE PortsArePositive
<1>1. drain \in Seq(Ports \cup {0}) /\ drain # << >>
  BY DEF CMInv, CMTypeOK, TickEntry
<1>p. PICK p \in Ports \cup {0} : p = Head(drain)
  BY <1>1, ElementsTail
<1>2. /\ drain' = Tail(drain) /\ wheel' = wheel /\ hand' = hand /\ lag' = lag /\ due' = due
      /\ panicked' = panicked /\ age' = age /\ resched' = resched
  BY DEF TickEntry
<1>3. drain' \in Seq(Ports \cup {0}) /\ Elements(drain) \subseteq Elements(drain') \cup {p}
  BY <1>1, <1>p, <1>2, ElementsTail
<1>4. CASE p \in Ports /\ con[p].proxy_port # 0
  <2>1. get_mut_by_port(p)
    BY <1>4, PortsAreOwned DEF get_mut_by_port, InUse
  <2>2. /\ con' = [con EXCEPT ![p].proxy_port = 0]
        /\ sock2port' = [sock2port EXCEPT ![con[p].sock] = 0]
        /\ free_ports' = Append(free_ports, p)
    BY <2>1, <1>p DEF TickEntry, Remove, PushBack
  <2>3. /\ con' \in [Ports -> Connection]
        /\ sock2port' \in [Socks -> Ports \cup {0}]
        /\ free_ports' \in Seq(Ports) /\ Distinct(free_ports')
        /\ \A q \in Elements(free_ports') : con'[q].proxy_port = 0
        /\ con'[p].proxy_port = 0
        /\ \A q \in Ports \ {p} : con'[q] = con[q]
        /\ SocksAndPortsAgree' /\ NoPortLeak' /\ NoStaleSock'
    BY <1>4, <2>2, Vacate
  <2>4. CMTypeOK'
    BY <1>2, <1>3, <2>3 DEF CMInv, CMTypeOK
  <2>5. ASSUME NEW q \in Ports, con'[q].proxy_port # 0
        PROVE  Armed(q)' \/ q \in Elements(drain')
    <3>1. q # p /\ con'[q] = con[q] /\ con[q].proxy_port # 0
      BY <2>3, <2>5
    <3>2. Armed(q) \/ q \in Elements(drain)
      BY <3>1, InvFacts
    <3> QED
      BY <3>1, <3>2, <1>2, <1>3 DEF Armed, HasEntry, Entry
  <2>6. NoPanic'
    BY <1>2 DEF CMInv, NoPanic
  <2> QED
    BY <2>3, <2>4, <2>5, <2>6, InvFromFacts
<1>5. CASE ~(p \in Ports /\ con[p].proxy_port # 0)
  <2>1. ~get_mut_by_port(p)
    BY <1>5 DEF get_mut_by_port, InUse
  <2>2. con' = con /\ sock2port' = sock2port /\ free_ports' = free_ports
    BY <2>1, <1>p DEF TickEntry
  <2>3. CMTypeOK'
    BY <1>2, <1>3, <2>2 DEF CMInv, CMTypeOK
  <2>4. SocksAndPortsAgree' /\ NoPortLeak' /\ NoPanic' /\ NoStaleSock'
    BY <1>2, <2>2 DEF CMInv, SocksAndPortsAgree, NoPortLeak, NoPanic, NoStaleSock,
                      MappedSocksInUse, InUse
  <2>5. ASSUME NEW q \in Ports, con'[q].proxy_port # 0
        PROVE  Armed(q)' \/ q \in Elements(drain')
    <3>1. q # p /\ (Armed(q) \/ q \in Elements(drain))
      BY <2>2, <2>5, <1>5, InvFacts
    <3> QED
      BY <3>1, <2>2, <1>2, <1>3 DEF Armed, HasEntry, Entry
  <2>6. Distinct(free_ports') /\ \A q \in Elements(free_ports') : con'[q].proxy_port = 0
    BY <2>2, InvFacts
  <2> QED
    BY <2>3, <2>4, <2>5, <2>6, InvFromFacts
<1> QED
  BY <1>4, <1>5

(* A step that changes none of the variables keeps the invariant.          *)
LEMMA StutterInv ==
    ASSUME CMInv, UNCHANGED cmVars
    PROVE  CMInv'
<1>1. /\ free_ports' = free_ports /\ sock2port' = sock2port /\ con' = con /\ wheel' = wheel
      /\ hand' = hand /\ lag' = lag /\ due' = due /\ drain' = drain /\ panicked' = panicked
      /\ age' = age /\ resched' = resched
  BY DEF cmVars
<1> QED
  BY <1>1 DEF CMInv, CMTypeOK, FreePortsUnused, SocksAndPortsAgree, TimerArmed, NoPortLeak,
              NoPanic, NoStaleSock, MappedSocksInUse, InUse, HasEntry, Entry

(* Every step of the manager, of the wheel and of time preserves the       *)
(* inductive invariant.                                                    *)
THEOREM NextInv == CMInv /\ [CMNext]_cmVars => CMInv'
<1> SUFFICES ASSUME CMInv, [CMNext]_cmVars PROVE CMInv'
  OBVIOUS
<1>1. ASSUME NEW s \in Socks, Accept(s) PROVE CMInv'
  BY <1>1, AcceptInv
<1>2. ASSUME NEW s \in Socks, TouchStale(s) PROVE CMInv'
  BY <1>2, TouchStaleInv
<1>3. ASSUME NEW p \in Ports, Reschedule(p) PROVE CMInv'
  BY <1>3, RescheduleInv
<1>4. ASSUME NEW p \in Ports, release_port(p) PROVE CMInv'
  BY <1>4, ReleaseInv
<1>5. CASE Elapse
  BY <1>5, ElapseInv
<1>6. CASE TimerTick(TRUE) \/ TimerTick(FALSE)
  BY <1>6, TimerTickInv
<1>7. CASE TickSlot
  BY <1>7, TickSlotInv
<1>8. CASE TickEntry
  BY <1>8, TickEntryInv
<1>9. CASE UNCHANGED cmVars
  BY <1>9, StutterInv
<1> QED
  BY <1>1, <1>2, <1>3, <1>4, <1>5, <1>6, <1>7, <1>8, <1>9 DEF CMNext, Tick

(* The inductive invariant holds in every reachable state.                 *)
THEOREM Invariance == CMSafeSpec => []CMInv
BY InitInv, NextInv, PTL DEF CMSafeSpec

(* The structures of the manager and the wheel always have their types.    *)
THEOREM TypeCorrect == CMSafeSpec => []CMTypeOK
<1>1. CMInv => CMTypeOK
  BY DEF CMInv
<1> QED
  BY <1>1, Invariance, PTL

(* No port is given to two clients at once: the queue of free ports has no *)
(* duplicates and no port in use, through all releases and timeouts.       *)
THEOREM PortsAreExclusive == CMSafeSpec => []FreePortsUnused
<1>1. CMInv => FreePortsUnused
  BY DEF CMInv
<1> QED
  BY <1>1, Invariance, PTL

(* sock2port and port2con stay inverse to each other.                      *)
THEOREM LookupsAgree == CMSafeSpec => []SocksAndPortsAgree
<1>1. CMInv => SocksAndPortsAgree
  BY DEF CMInv
<1> QED
  BY <1>1, Invariance, PTL

(* Every connection in use has its timer, whatever the order of arming,    *)
(* overwriting and draining entries of the wheel.                          *)
THEOREM TimersStayArmed == CMSafeSpec => []TimerArmed
<1>1. CMInv => TimerArmed
  BY DEF CMInv
<1> QED
  BY <1>1, Invariance, PTL

(* Without a fetch of the records no port is ever lost and none of the     *)
(* assertions of cmanager.rs fails.                                        *)
THEOREM NothingLost == CMSafeSpec => [](NoPortLeak /\ NoPanic)
<1>1. CMInv => NoPortLeak /\ NoPanic
  BY DEF CMInv
<1> QED
  BY <1>1, Invariance, PTL

(* Every port is in the queue or in use: timeouts and releases give each   *)
(* port back, and each of them once.                                       *)
THEOREM NoPortIsLost == CMSafeSpec => []NoPortLeak
<1>1. CMInv => NoPortLeak
  BY DEF CMInv
<1> QED
  BY <1>1, Invariance, PTL
=============================================================================
