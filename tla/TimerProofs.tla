---------------------------- MODULE TimerProofs ----------------------------
(***************************************************************************)
(* Proofs about the timer wheel of ConnectionManager: an entry of the      *)
(* wheel belongs to the connection that is on the port now, and no         *)
(* connection is timed out early as long as the timer ticks are not too    *)
(* late for the size of the wheel.                                         *)
(*                                                                         *)
(* TimersAreCurrent is not inductive as it stands, because it says nothing *)
(* of a port that is not in use, which the next client may get.  Current   *)
(* adds that such a port has no entry once it is in the queue of free      *)
(* ports, and none either while the running tick is about to visit it.     *)
(***************************************************************************)
EXTENDS ConnectionManagerProofs

(* The entry k of slot i belongs to the connection of p.                   *)
Current(i, k, p) ==
    /\ con[p].slot = i /\ con[p].index = k - 1
    /\ p \notin Elements(free_ports)
    /\ p \notin Elements(drain)

(* Every entry of a port whose timer was armed once is current.            *)
AllCurrent ==
    \A i \in 0..(Slots - 1) : \A k \in DOMAIN wheel[i] : \A p \in Ports \ resched :
        wheel[i][k] = p => Current(i, k, p)

(* The entry of p is d slots ahead of the hand, and no closer than the     *)
(* part of the timeout that is still to pass.                              *)
Ahead(p, d) ==
    /\ con[p].slot = (hand + d) % Slots
    /\ age[p] = Timeout \/ age[p] + d >= Timeout + due + lag

(* A connection that the running tick is about to visit is old enough, and *)
(* any other is due when it will be.                                       *)
OnTime ==
    \A p \in Ports \ resched : InUse(p) =>
        /\ p \in Elements(drain) => age[p] = Timeout
        /\ p \notin Elements(drain) => \E d \in 1..Slots : Ahead(p, d)

-----------------------------------------------------------------------------
(* Entries of the wheel after an entry was appended, and after one was     *)
(* overwritten.                                                            *)
LEMMA ScheduledEntries ==
    ASSUME CMTypeOK, NEW p \in Ports, wheel' = schedule(p),
           NEW i \in 0..(Slots - 1), NEW k \in DOMAIN wheel'[i]
    PROVE  \/ k \in DOMAIN wheel[i] /\ wheel'[i][k] = wheel[i][k]
           \/ i = ScheduleSlot /\ k - 1 = Len(wheel[i]) /\ wheel'[i][k] = p
<1>1. ScheduleSlot \in 0..(Slots - 1)
  BY ScheduleSlotExists
<1>2. wheel \in [0..(Slots - 1) -> Seq(Ports \cup {0})]
  BY DEF CMTypeOK
<1>3. CASE i = ScheduleSlot
  <2>1. wheel'[i] = Append(wheel[i], p) /\ wheel[i] \in Seq(Ports \cup {0})
    BY <1>1, <1>2, <1>3 DEF schedule
  <2> QED
    BY <2>1, <1>3
<1>4. CASE i # ScheduleSlot
  BY <1>1, <1>2, <1>4 DEF schedule
<1> QED
  BY <1>3, <1>4

(* replace changes no entry but the one that the connection remembers,     *)
(* which it removes.                                                       *)
LEMMA ReplacedEntries ==
    ASSUME CMTypeOK, NEW p \in Ports, Armed(p), wheel' = replace(con[p]),
           NEW i \in 0..(Slots - 1), NEW k \in DOMAIN wheel'[i]
    PROVE  /\ k \in DOMAIN wheel[i]
           /\ wheel'[i][k] = wheel[i][k] \/ wheel'[i][k] = 0
           /\ i = con[p].slot /\ k - 1 = con[p].index => wheel'[i][k] = 0
<1> DEFINE S == con[p].slot
           x == con[p].index
           w == wheel[S]
<1>1. wheel \in [0..(Slots - 1) -> Seq(Ports \cup {0})] /\ con[p] \in Connection
  BY DEF CMTypeOK
<1>2. S \in 0..(Slots - 1) /\ x \in Nat /\ x < Len(w) /\ w \in Seq(Ports \cup {0})
  BY <1>1 DEF Connection, Armed, HasEntry
<1>3. wheel' = [wheel EXCEPT ![S] = [w EXCEPT ![x + 1] = 0]]
  BY DEF replace, Armed
<1> HIDE DEF S, x, w
<1>4. CASE i = S
  <2>1. wheel'[i] = [w EXCEPT ![x + 1] = 0] /\ wheel[i] = w
    BY <1>1, <1>2, <1>3, <1>4 DEF w
  <2>2. DOMAIN wheel'[i] = 1..Len(w) /\ DOMAIN w = 1..Len(w)
    BY <1>2, <2>1
  <2>3. k \in 1..Len(w) /\ (k - 1 = x <=> k = x + 1)
    BY <1>2, <2>2
  <2> QED
    BY <1>2, <2>1, <2>2, <2>3 DEF S, x
<1>5. CASE i # S
  BY <1>1, <1>2, <1>3, <1>5 DEF S
<1> QED
  BY <1>4, <1>5

-----------------------------------------------------------------------------
(* At the start the wheel is empty.                                        *)
LEMMA AllCurrentInit == CMInit => AllCurrent /\ OnTime
BY DEF CMInit, AllCurrent, OnTime, InUse

(* A new client gets a port without an entry, and its entry is current.    *)
LEMMA AcceptCurrent ==
    ASSUME CMInv, AllCurrent, NEW s \in Socks, Accept(s)
    PROVE  AllCurrent'
<1>1. CMTypeOK /\ free_ports \in Seq(Ports) /\ free_ports # << >> /\ Distinct(free_ports)
  BY InvFacts DEF CMInv, Accept
<1>p. PICK p \in Ports : p = Head(free_ports)
  BY <1>1, ElementsTail
<1>2. /\ p \in Elements(free_ports) /\ p \notin Elements(Tail(free_ports))
      /\ Elements(Tail(free_ports)) \subseteq Elements(free_ports)
  BY <1>p, <1>1, ElementsTail, DistinctTail
<1>3. /\ wheel' = schedule(p) /\ free_ports' = Tail(free_ports)
      /\ resched' = resched /\ drain' = drain /\ drain = << >>
  BY <1>p DEF Accept, Idle
<1>4. /\ \A q \in Ports : q # p => con'[q] = con[q]
      /\ con'[p].slot = ScheduleSlot /\ con'[p].index = Len(wheel[ScheduleSlot])
  BY <1>1, <1>p DEF Accept, Scheduled, CMTypeOK
<1>5. Elements(drain) = {}
  BY <1>3 DEF Elements
<1> SUFFICES ASSUME NEW i \in 0..(Slots - 1), NEW k \in DOMAIN wheel'[i],
                    NEW q \in Ports \ resched, wheel'[i][k] = q
             PROVE  Current(i, k, q)'
  BY <1>3 DEF AllCurrent
<1>6. \/ k \in DOMAIN wheel[i] /\ wheel'[i][k] = wheel[i][k]
      \/ i = ScheduleSlot /\ k - 1 = Len(wheel[i]) /\ wheel'[i][k] = p
  BY <1>1, <1>3, ScheduledEntries
<1>7. CASE k \in DOMAIN wheel[i] /\ wheel[i][k] = q
  <2>1. Current(i, k, q)
    BY <1>7 DEF AllCurrent
  <2>2. q # p
    BY <2>1, <1>2 DEF Current
  <2> QED
    BY <2>1, <2>2, <1>2, <1>3, <1>4 DEF Current
<1>8. CASE i = ScheduleSlot /\ k - 1 = Len(wheel[i]) /\ q = p
  BY <1>8, <1>2, <1>3, <1>4, <1>5 DEF Current
<1> QED
  BY <1>6, <1>7, <1>8

(* A port that is armed again is excepted; the others keep their entries.  *)
LEMMA RescheduleCurrent ==
    ASSUME CMInv, AllCurrent, NEW p \in Ports, Reschedule(p)
    PROVE  AllCurrent'
<1>1. CMTypeOK
  BY DEF CMInv
<1>2. /\ wheel' = schedule(p) /\ free_ports' = free_ports
      /\ resched' = resched \cup {p} /\ drain' = drain
      /\ con' = [con EXCEPT ![p] = Scheduled(@)]
  BY DEF Reschedule
<1>3. \A q \in Ports : q # p => con'[q] = con[q]
  BY <1>1, <1>2 DEF CMTypeOK
<1> SUFFICES ASSUME NEW i \in 0..(Slots - 1), NEW k \in DOMAIN wheel'[i],
                    NEW q \in Ports \ resched', wheel'[i][k] = q
             PROVE  Current(i, k, q)'
  BY DEF AllCurrent
<1>4. k \in DOMAIN wheel[i] /\ wheel[i][k] = q /\ q # p /\ q \in Ports \ resched
  BY <1>1, <1>2, ScheduledEntries
<1>5. Current(i, k, q)
  BY <1>4 DEF AllCurrent
<1> QED
  BY <1>2, <1>3, <1>4, <1>5 DEF Current

(* The entry of a released port was its only one, and is overwritten.      *)
LEMMA ReleaseCurrent ==
    ASSUME CMInv, AllCurrent, NEW p \in Ports, release_port(p)
    PROVE  AllCurrent'
<1>1. CMTypeOK /\ free_ports \in Seq(Ports) /\ 0 \notin Ports
  BY PortsArePositive DEF CMInv, CMTypeOK
<1>2. /\ wheel' = replace(con[p]) /\ free_ports' = Append(free_ports, p)
      /\ resched' = resched /\ drain' = drain /\ drain = << >>
      /\ con' = [con EXCEPT ![p].proxy_port = 0]
  BY DEF release_port, Idle, PushBack
<1>3. \A q \in Ports : con'[q].slot = con[q].slot /\ con'[q].index = con[q].index
  BY <1>1, <1>2 DEF CMTypeOK, Connection
<1>4. Armed(p)
  BY <1>2, InvFacts DEF release_port, InUse, Elements
<1>5. Elements(free_ports') = Elements(free_ports) \cup {p}
  BY <1>1, <1>2, ElementsAppend
<1> SUFFICES ASSUME NEW i \in 0..(Slots - 1), NEW k \in DOMAIN wheel'[i],
                    NEW q \in Ports \ resched, wheel'[i][k] = q
             PROVE  Current(i, k, q)'
  BY <1>2 DEF AllCurrent
<1>6. /\ k \in DOMAIN wheel[i] /\ wheel[i][k] = q
      /\ ~(i = con[p].slot /\ k - 1 = con[p].index)
  BY <1>1, <1>2, <1>4, ReplacedEntries
<1>7. Current(i, k, q)
  BY <1>6 DEF AllCurrent
<1>8. q # p
  BY <1>6, <1>7 DEF Current
<1> QED
  BY <1>2, <1>3, <1>5, <1>7, <1>8 DEF Current

(* A drained slot takes the entries of its ports out of the wheel.         *)
LEMMA TickSlotCurrent ==
    ASSUME CMInv, AllCurrent, TickSlot
    PROVE  AllCurrent'
<1> DEFINE n == (hand + 1) % Slots
<1>1. /\ wheel \in [0..(Slots - 1) -> Seq(Ports \cup {0})]
      /\ n \in 0..(Slots - 1)
  BY WheelAssumption DEF CMInv, CMTypeOK
<1>2. /\ free_ports' = free_ports /\ con' = con /\ resched' = resched
      /\ drain' = wheel[n] /\ wheel' = [wheel EXCEPT ![n] = << >>]
  BY DEF TickSlot
<1> HIDE DEF n
<1> SUFFICES ASSUME NEW i \in 0..(Slots - 1), NEW k \in DOMAIN wheel'[i],
                    NEW q \in Ports \ resched, wheel'[i][k] = q
             PROVE  Current(i, k, q)'
  BY <1>2 DEF AllCurrent
<1>3. i # n /\ k \in DOMAIN wheel[i] /\ wheel[i][k] = q
  BY <1>1, <1>2
<1>4. Current(i, k, q)
  BY <1>3 DEF AllCurrent
<1>5. q \notin Elements(wheel[n])
  <2>1. ASSUME NEW j \in DOMAIN wheel[n], wheel[n][j] = q PROVE FALSE
    <3>1. Current(n, j, q)
      BY <2>1, <1>1 DEF AllCurrent
    <3> QED
      BY <3>1, <1>3, <1>4 DEF Current
  <2> QED
    BY <2>1 DEF Elements
<1> QED
  BY <1>2, <1>4, <1>5 DEF Current

(* A visited port has no entry left when it goes back to the queue.        *)
LEMMA TickEntryCurrent ==
    ASSUME CMInv, AllCurrent, TickEntry
    PROVE  AllCurrent'
<1>1. CMTypeOK /\ free_ports \in Seq(Ports) /\ drain \in Seq(Ports \cup {0}) /\ drain # << >>
  BY DEF CMInv, CMTypeOK, TickEntry
<1>p. PICK p \in Ports \cup {0} : p = Head(drain) /\ p \in Elements(drain)
  BY <1>1, ElementsTail
<1>2. wheel' = wheel /\ resched' = resched /\ drain' = Tail(drain)
  BY DEF TickEntry
<1>3. Elements(drain') \subseteq Elements(drain)
  BY <1>1, <1>2, ElementsTail
<1>4. /\ \A q \in Ports : con'[q].slot = con[q].slot /\ con'[q].index = con[q].index
      /\ Elements(free_ports') \subseteq Elements(free_ports) \cup {p}
  <2>1. CASE get_mut_by_port(p)
    <3>1. /\ p \in Ports /\ free_ports' = Append(free_ports, p)
          /\ con' = [con EXCEPT ![p].proxy_port = 0]
      BY <2>1, <1>p DEF TickEntry, PushBack, get_mut_by_port
    <3>2. Elements(free_ports') = Elements(free_ports) \cup {p}
      BY <3>1, <1>1, ElementsAppend
    <3> QED
      BY <3>1, <3>2, <1>1 DEF CMTypeOK, Connection
  <2>2. CASE ~get_mut_by_port(p)
    BY <2>2, <1>p DEF TickEntry
  <2> QED
    BY <2>1, <2>2
<1> QED
  BY <1>p, <1>2, <1>3, <1>4 DEF AllCurrent, Current

(* Every step keeps the entries current.                                   *)
LEMMA AllCurrentStep ==
    ASSUME CMInv, AllCurrent, [CMNext]_cmVars
    PROVE  AllCurrent'
<1>1. ASSUME NEW fetch \in BOOLEAN, TimerTick(fetch) PROVE AllCurrent'
  <2>1. \A q \in Ports : con'[q].slot = con[q].slot /\ con'[q].index = con[q].index
    BY <1>1 DEF CMInv, CMTypeOK, TimerTick, fetch_c_records, Connection
  <2> QED
    BY <1>1, <2>1 DEF TimerTick, AllCurrent, Current
<1>2. CASE Elapse \/ (\E s \in Socks : TouchStale(s)) \/ UNCHANGED cmVars
  BY <1>2 DEF Elapse, TouchStale, cmVars, AllCurrent, Current
<1> QED
  BY <1>1, <1>2, AcceptCurrent, RescheduleCurrent, ReleaseCurrent, TickSlotCurrent,
     TickEntryCurrent DEF CMNext, Tick

-----------------------------------------------------------------------------
(* Slots are counted around the wheel.                                     *)
LEMMA Around ==
    ASSUME NEW h \in 0..(Slots - 1), NEW d \in 1..Slots
    PROVE  (h + d) % Slots = IF h + d < Slots THEN h + d ELSE h + d - Slots
BY WheelAssumption

(* The hand moves one slot on: what was next is drained now, and all else  *)
(* is one slot closer.                                                     *)
LEMMA OneSlotOn ==
    ASSUME NEW h \in 0..(Slots - 1), NEW d \in 1..Slots
    PROVE  LET n == (h + 1) % Slots
           IN  /\ n \in 0..(Slots - 1)
               /\ (h + d) % Slots = n => d = 1
               /\ d # 1 => d - 1 \in 1..Slots /\ (n + (d - 1)) % Slots = (h + d) % Slots
<1>1. Slots \in Nat /\ Slots >= 1
  BY WheelAssumption
<1>n. PICK n : n = (h + 1) % Slots
  OBVIOUS
<1>2. n = IF h + 1 < Slots THEN h + 1 ELSE h + 1 - Slots
  BY <1>1, <1>n, Around
<1>3. n \in 0..(Slots - 1)
  BY <1>1, <1>2
<1>4. (h + d) % Slots = IF h + d < Slots THEN h + d ELSE h + d - Slots
  BY Around
<1>5. (h + d) % Slots = n => d = 1
  BY <1>1, <1>2, <1>4
<1>6. ASSUME d # 1 PROVE d - 1 \in 1..Slots /\ (n + (d - 1)) % Slots = (h + d) % Slots
  <2>1. d - 1 \in 1..Slots
    BY <1>1, <1>6
  <2>2. (n + (d - 1)) % Slots = IF n + (d - 1) < Slots THEN n + (d - 1) ELSE n + (d - 1) - Slots
    BY <1>3, <2>1, Around
  <2> QED
    BY <1>1, <1>2, <1>4, <2>1, <2>2
<1> QED
  BY <1>n, <1>3, <1>5, <1>6

-----------------------------------------------------------------------------
(* The wheel is large enough for the timeout of a connection that is       *)
(* accepted when the timer ticks are as late as they can be.               *)
WheelIsLargeEnough == Timeout + MaxLag <= Slots

(* The numbers that OnTime is about.                                       *)
LEMMA Counts ==
    ASSUME CMTypeOK
    PROVE  /\ Slots \in Nat /\ Timeout \in Nat \ {0} /\ MaxLag \in Nat
           /\ hand \in 0..(Slots - 1) /\ lag \in 0..MaxLag /\ due \in 0..MaxLag
           /\ \A p \in Ports : age[p] \in 0..Timeout
BY WheelAssumption DEF CMTypeOK

(* A step that leaves the connection of p, its age and the counters as     *)
(* they are leaves p on time.                                              *)
LEMMA AheadStays ==
    ASSUME NEW p, NEW d \in Nat, Ahead(p, d), age[p] \in Nat,
           con'[p].slot = con[p].slot, age'[p] = age[p], hand' = hand, due' + lag' = due + lag,
           Timeout \in Nat, due \in Nat, lag \in Nat, due' \in Nat, lag' \in Nat
    PROVE  Ahead(p, d)'
<1>1. age[p] = Timeout \/ age[p] + d >= Timeout + due + lag
  BY DEF Ahead
<1>2. Timeout + due + lag = Timeout + due' + lag'
  <2>1. PICK x \in Nat, y \in Nat : x = due' /\ y = lag'
    OBVIOUS
  <2>2. x + y = due + lag
    BY <2>1
  <2>3. Timeout + due + lag = Timeout + x + y
    BY <2>2
  <2> QED
    BY <2>1, <2>3
<1>3. con'[p].slot = (hand' + d) % Slots
  BY DEF Ahead
<1> QED
  BY <1>1, <1>2, <1>3 DEF Ahead

(* A new connection is due after its timeout, counted from now.            *)
LEMMA AcceptOnTime ==
    ASSUME WheelIsLargeEnough, CMInv, OnTime, NEW s \in Socks, Accept(s)
    PROVE  OnTime'
<1>1. CMTypeOK /\ free_ports \in Seq(Ports) /\ free_ports # << >>
  BY DEF CMInv, CMTypeOK, Accept
<1>p. PICK p \in Ports : p = Head(free_ports)
  BY <1>1, ElementsTail
<1>2. /\ resched' = resched /\ drain' = drain /\ Elements(drain) = {}
      /\ hand' = hand /\ lag' = lag /\ due' = due /\ due = 0
      /\ age' = [age EXCEPT ![p] = 0]
  BY <1>p DEF Accept, Idle, Elements
<1>3. /\ \A q \in Ports : q # p => con'[q] = con[q]
      /\ con'[p].slot = (hand + lag + Timeout) % Slots
  BY <1>1, <1>p DEF Accept, Scheduled, CMTypeOK, ScheduleSlot
<1>4. \A q \in Ports : q # p => age'[q] = age[q]
  BY <1>1, <1>2 DEF CMTypeOK
<1>5. age'[p] = 0
  BY <1>1, <1>2 DEF CMTypeOK
<1>6. lag + Timeout \in 1..Slots /\ Ahead(p, lag + Timeout)'
  <2>1. hand + (lag + Timeout) = hand + lag + Timeout /\ lag + Timeout \in 1..Slots
    BY <1>1, Counts DEF WheelIsLargeEnough
  <2> QED
    BY <1>1, <1>2, <1>3, <1>5, <2>1, Counts DEF Ahead
<1>7. ASSUME NEW q \in Ports \ resched, q # p, InUse(q)'
      PROVE  \E d \in 1..Slots : Ahead(q, d)'
  <2>1. PICK d \in 1..Slots : Ahead(q, d)
    BY <1>2, <1>3, <1>7 DEF OnTime, InUse
  <2> QED
    BY <2>1, <1>2, <1>3, <1>4, <1>7 DEF Ahead
<1> QED
  BY <1>2, <1>6, <1>7 DEF OnTime

(* A port that is armed again is excepted, a released one is not in use.   *)
LEMMA OthersOnTime ==
    ASSUME CMInv, OnTime, NEW p \in Ports, Reschedule(p) \/ release_port(p)
    PROVE  OnTime'
<1>1. con \in [Ports -> Connection] /\ age \in [Ports -> 0..Timeout]
  BY DEF CMInv, CMTypeOK
<1>2. /\ drain' = drain /\ hand' = hand /\ lag' = lag /\ due' = due
      /\ \A q \in Ports : q # p => con'[q] = con[q] /\ age'[q] = age[q]
      /\ resched \subseteq resched'
      /\ p \in resched' \/ ~InUse(p)'
  <2>1. CASE Reschedule(p)
    BY <1>1, <2>1 DEF Reschedule
  <2>2. CASE release_port(p)
    BY <1>1, <2>2 DEF release_port, InUse, Connection
  <2> QED
    BY <2>1, <2>2
<1>3. ASSUME NEW q \in Ports \ resched', InUse(q)'
      PROVE  /\ q # p /\ con'[q] = con[q] /\ age'[q] = age[q] /\ InUse(q)
             /\ q \in Ports \ resched
             /\ \A d \in 1..Slots : Ahead(q, d) => Ahead(q, d)'
  BY <1>2, <1>3 DEF InUse, Ahead
<1> QED
  BY <1>2, <1>3 DEF OnTime

(* With every interval the connections grow older and the slots are due    *)
(* one interval earlier.                                                   *)
LEMMA ElapseOnTime ==
    ASSUME CMInv, OnTime, Elapse
    PROVE  OnTime'
<1>1. CMTypeOK
  BY DEF CMInv
<1>2. /\ drain' = drain /\ hand' = hand /\ due' = due /\ con' = con /\ resched' = resched
      /\ lag' = lag + 1
      /\ \A p \in Ports :
            InUse(p) => age'[p] = IF age[p] < Timeout THEN age[p] + 1 ELSE age[p]
  BY DEF Elapse
<1>3. ASSUME NEW p \in Ports \ resched, InUse(p)' PROVE InUse(p)
  BY <1>2, <1>3 DEF InUse
<1>4. ASSUME NEW p \in Ports, InUse(p), NEW d \in 1..Slots, Ahead(p, d) PROVE Ahead(p, d)'
  BY <1>1, <1>2, <1>4, Counts DEF Ahead
<1>5. ASSUME NEW p \in Ports, InUse(p), age[p] = Timeout PROVE age'[p] = Timeout
  BY <1>1, <1>2, <1>5, Counts
<1> QED
  BY <1>2, <1>3, <1>4, <1>5 DEF OnTime

(* A timer tick turns the intervals that passed into slots to drain.       *)
LEMMA TimerTickOnTime ==
    ASSUME CMInv, OnTime, NEW fetch \in BOOLEAN, TimerTick(fetch)
    PROVE  OnTime'
<1>1. CMTypeOK
  BY DEF CMInv
<1>2. /\ drain' = drain /\ hand' = hand /\ resched' = resched /\ age' = age
      /\ due = 0 /\ due' = lag /\ lag' = 0
  BY DEF TimerTick, Idle
<1>3. \A p \in Ports : con'[p].slot = con[p].slot /\ (InUse(p)' => InUse(p))
  <2>1. CASE fetch
    BY <2>1, <1>1 DEF CMTypeOK, TimerTick, fetch_c_records, Connection, InUse
  <2>2. CASE ~fetch
    BY <2>2 DEF TimerTick, InUse
  <2> QED
    BY <2>1, <2>2
<1>4. ASSUME NEW p \in Ports, NEW d \in 1..Slots, Ahead(p, d) PROVE Ahead(p, d)'
  BY <1>1, <1>2, <1>3, <1>4, Counts, AheadStays
<1> QED
  BY <1>2, <1>3, <1>4 DEF OnTime

(* The connections of the drained slot are old enough.                     *)
LEMMA TickSlotOnTime ==
    ASSUME CMInv, AllCurrent, OnTime, TickSlot
    PROVE  OnTime'
<1>1. CMTypeOK
  BY DEF CMInv
<1>n. PICK n : n = (hand + 1) % Slots
  OBVIOUS
<1>2. /\ con' = con /\ resched' = resched /\ age' = age /\ lag' = lag
      /\ drain = << >> /\ due > 0 /\ due' = due - 1
      /\ hand' = n /\ drain' = wheel[n]
  BY <1>n DEF TickSlot
<1>3. hand \in 0..(Slots - 1) /\ n \in 0..(Slots - 1)
  BY <1>1, <1>n, Counts, WheelAssumption
<1> SUFFICES ASSUME NEW p \in Ports \ resched, InUse(p)
             PROVE  /\ p \in Elements(drain') => age'[p] = Timeout
                    /\ p \notin Elements(drain') => \E d \in 1..Slots : Ahead(p, d)'
  BY <1>2 DEF OnTime, InUse
<1>4. p \notin Elements(drain)
  BY <1>2 DEF Elements
<1>5. PICK d \in 1..Slots : Ahead(p, d)
  BY <1>4 DEF OnTime
<1>6. con[p].slot = (hand + d) % Slots /\ d \in Nat
      /\ (age[p] = Timeout \/ age[p] + d >= Timeout + due + lag)
  BY <1>1, <1>5, Counts DEF Ahead
<1>7. ASSUME p \in Elements(drain') PROVE age'[p] = Timeout
  <2>1. PICK k \in DOMAIN wheel[n] : wheel[n][k] = p
    BY <1>2, <1>7 DEF Elements
  <2>2. con[p].slot = n
    BY <2>1, <1>3 DEF AllCurrent, Current
  <2>3. d = 1
    BY <2>2, <1>n, <1>3, <1>6, OneSlotOn
  <2> QED
    BY <2>3, <1>1, <1>2, <1>6, Counts
<1>8. ASSUME p \notin Elements(drain') PROVE \E e \in 1..Slots : Ahead(p, e)'
  <2>1. Armed(p)
    BY <1>4, InvFacts DEF InUse
  <2>2. con[p].slot # n
    <3> SUFFICES ASSUME con[p].slot = n PROVE FALSE
      OBVIOUS
    <3>1. /\ con[p].index \in Nat /\ con[p].index < Len(wheel[n]) /\ wheel[n] \in Seq(Ports \cup {0})
          /\ wheel[n][con[p].index + 1] = p
      BY <2>1, <1>1, <1>3 DEF Armed, HasEntry, Entry, CMTypeOK, Connection
    <3>2. con[p].index + 1 \in DOMAIN wheel[n]
      BY <3>1
    <3> QED
      BY <3>1, <3>2, <1>2, <1>8 DEF Elements
  <2>3. d # 1
    BY <2>2, <1>n, <1>6
  <2>4. d - 1 \in 1..Slots /\ (n + (d - 1)) % Slots = con[p].slot
    BY <2>3, <1>n, <1>3, <1>6, OneSlotOn
  <2>5. age[p] = Timeout \/ age[p] + (d - 1) >= Timeout + (due - 1) + lag
    BY <1>1, <1>6, Counts
  <2> QED
    BY <2>4, <2>5, <1>2 DEF Ahead
<1> QED
  BY <1>7, <1>8

(* A visited connection is released, the others are still on time.         *)
LEMMA TickEntryOnTime ==
    ASSUME CMInv, OnTime, TickEntry
    PROVE  OnTime'
<1>1. con \in [Ports -> Connection] /\ drain \in Seq(Ports \cup {0}) /\ drain # << >>
  BY DEF CMInv, CMTypeOK, TickEntry
<1>p. PICK p \in Ports \cup {0} : p = Head(drain)
  BY <1>1, ElementsTail
<1>2. /\ drain' = Tail(drain) /\ hand' = hand /\ lag' = lag /\ due' = due /\ age' = age
      /\ resched' = resched
  BY DEF TickEntry
<1>3. /\ Elements(drain') \subseteq Elements(drain)
      /\ Elements(drain) \subseteq Elements(drain') \cup {p}
  BY <1>1, <1>p, <1>2, ElementsTail
<1>4. ASSUME NEW q \in Ports, InUse(q)'
      PROVE  q # p /\ InUse(q) /\ con'[q].slot = con[q].slot
  <2>1. CASE get_mut_by_port(p)
    <3>1. p \in Ports /\ con' = [con EXCEPT ![p].proxy_port = 0]
      BY <2>1, <1>p DEF TickEntry, get_mut_by_port
    <3> QED
      BY <3>1, <1>1, <1>4 DEF InUse, Connection
  <2>2. CASE ~get_mut_by_port(p)
    <3>1. con' = con
      BY <2>2, <1>p DEF TickEntry
    <3> QED
      BY <3>1, <2>2, <1>4, PortsAreOwned DEF InUse, get_mut_by_port
  <2> QED
    BY <2>1, <2>2
<1>5. ASSUME NEW q \in Ports, InUse(q)', NEW d \in 1..Slots, Ahead(q, d) PROVE Ahead(q, d)'
  BY <1>2, <1>4, <1>5 DEF Ahead
<1> QED
  BY <1>2, <1>3, <1>4, <1>5 DEF OnTime

(* Every step keeps the connections on time.                               *)
LEMMA OnTimeStep ==
    ASSUME WheelIsLargeEnough, CMInv, AllCurrent, OnTime, [CMNext]_cmVars
    PROVE  OnTime'
<1>1. CASE (\E s \in Socks : TouchStale(s)) \/ UNCHANGED cmVars
  <2>1. /\ con' = con /\ hand' = hand /\ lag' = lag /\ due' = due /\ drain' = drain
        /\ age' = age /\ resched' = resched
    BY <1>1 DEF TouchStale, cmVars
  <2> QED
    BY <2>1 DEF OnTime, Ahead, InUse
<1> QED
  BY <1>1, AcceptOnTime, OthersOnTime, ElapseOnTime, TimerTickOnTime, TickSlotOnTime,
     TickEntryOnTime DEF CMNext, Tick

-----------------------------------------------------------------------------
(* No timer entry is left behind in the wheel that would time out a later  *)
(* connection on the port: release_port overwrites the entry it finds at   *)
(* wheel_slot_and_index, and that entry is the only one.                   *)
THEOREM EntriesStayCurrent == CMSafeSpec => []TimersAreCurrent
<1>1. CMInit => AllCurrent
  BY AllCurrentInit
<1>2. CMInv /\ AllCurrent /\ [CMNext]_cmVars => AllCurrent'
  BY AllCurrentStep
<1>3. CMInv /\ AllCurrent => TimersAreCurrent
  <2> SUFFICES ASSUME CMInv, AllCurrent, NEW i \in 0..(Slots - 1), NEW k \in DOMAIN wheel[i],
                      wheel[i][k] # 0, wheel[i][k] \notin resched
               PROVE  con[wheel[i][k]].slot = i /\ con[wheel[i][k]].index = k - 1
    BY DEF TimersAreCurrent
  <2>1. wheel[i] \in Seq(Ports \cup {0})
    BY DEF CMInv, CMTypeOK
  <2>2. wheel[i][k] \in Ports \ resched
    BY <2>1
  <2> QED
    BY <2>2 DEF AllCurrent, Current
<1> QED
  BY <1>1, <1>2, <1>3, Invariance, PTL DEF CMSafeSpec

(* release_timeouts never ends a connection before its timeout has passed, *)
(* for every wheel that can hold the timeout and the lateness of the timer *)
(* ticks: NoEarlyTimeout holds of every step.                              *)
THEOREM TimeoutsAreNotEarly ==
    ASSUME WheelIsLargeEnough
    PROVE  CMSafeSpec => NoEarlyTimeout
<1>1. CMInit => AllCurrent /\ OnTime
  BY AllCurrentInit
<1>2. CMInv /\ AllCurrent /\ OnTime /\ [CMNext]_cmVars => AllCurrent' /\ OnTime'
  BY AllCurrentStep, OnTimeStep
<1>3. CMInv /\ OnTime /\ [CMNext]_cmVars =>
        [\A p \in Ports : InUse(p) /\ ~InUse(p)' /\ drain # << >> =>
            age[p] = Timeout \/ p \in resched]_cmVars
  <2> SUFFICES ASSUME CMInv, OnTime, CMNext,
                      NEW p \in Ports, InUse(p), ~InUse(p)', drain # << >>, p \notin resched
               PROVE  age[p] = Timeout
    OBVIOUS
  <2>1. con' # con
    BY DEF InUse
  <2>2. TickEntry
    BY <2>1 DEF CMNext, Accept, TouchStale, Reschedule, release_port, Elapse, TimerTick, Tick,
                TickSlot, Idle
  <2>3. p = Head(drain)
    <3>1. con' = [con EXCEPT ![Head(drain)].proxy_port = 0]
      BY <2>1, <2>2 DEF TickEntry
    <3> QED
      BY <3>1 DEF CMInv, CMTypeOK, InUse
  <2>4. p \in Elements(drain)
    BY <2>3, ElementsTail DEF CMInv, CMTypeOK
  <2> QED
    BY <2>4 DEF OnTime
<1> QED
  BY <1>1, <1>2, <1>3, Invariance, PTL DEF CMSafeSpec, NoEarlyTimeout
=============================================================================
