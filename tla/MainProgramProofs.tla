------------------------- MODULE MainProgramProofs -------------------------
(***************************************************************************)
(* Proofs about MainProgram, for any number of pipelines: the counters of  *)
(* a pipeline reach main before its records do, and main has the answers   *)
(* of every pipeline on which it did not give up too early.                *)
(*                                                                         *)
(* The channels are queues.  A request to a pipeline and the answer to it  *)
(* pass to_rt, to_pipe, to_rt again and to_main, so the invariant says     *)
(* where the request or answer about the counters is for every place where *)
(* the one about the records may be: further on, or earlier in the same    *)
(* queue.                                                                  *)
(***************************************************************************)
EXTENDS MainProgram, TLAPS

(***************************************************************************)
(* Queues                                                                  *)
(***************************************************************************)

(* m is in the queue q.                                                    *)
In(q, m) == \E i \in DOMAIN q : q[i] = m

(* Every b in the queue q has an a somewhere in front of it.               *)
Leads(q, a, b) ==
    \A j \in DOMAIN q : q[j] = b => \E i \in DOMAIN q : i < j /\ q[i] = a

(* No a in the queue q is behind a b.                                      *)
NotBehind(q, a, b) ==
    \A i, j \in DOMAIN q : q[i] = a /\ q[j] = b => i < j

(* What sending and receiving does to them.                                *)
LEMMA Sending ==
    ASSUME NEW M, NEW q \in Seq(M), NEW x \in M, NEW a, NEW b
    PROVE  /\ Append(q, x) \in Seq(M)
           /\ In(Append(q, x), a) <=> In(q, a) \/ x = a
           /\ Leads(q, a, b) /\ (x # b \/ In(q, a)) => Leads(Append(q, x), a, b)
           /\ NotBehind(q, a, b) /\ (x # a \/ ~In(q, b)) /\ a # b => NotBehind(Append(q, x), a, b)
<1> DEFINE r == Append(q, x)
<1>1. /\ r \in Seq(M) /\ Len(q) \in Nat /\ DOMAIN q = 1..Len(q) /\ DOMAIN r = 1..(Len(q) + 1)
      /\ \A i \in 1..Len(q) : r[i] = q[i]
      /\ r[Len(q) + 1] = x
  OBVIOUS
<1> HIDE DEF r
<1>2. In(r, a) <=> In(q, a) \/ x = a
  <2>1. ASSUME In(r, a) PROVE In(q, a) \/ x = a
    <3>1. PICK i \in 1..(Len(q) + 1) : r[i] = a
      BY <1>1, <2>1 DEF In
    <3>2. i \in 1..Len(q) \/ i = Len(q) + 1
      BY <1>1
    <3> QED
      BY <1>1, <3>1, <3>2 DEF In
  <2>2. ASSUME In(q, a) \/ x = a PROVE In(r, a)
    <3>1. CASE x = a
      BY <1>1, <3>1 DEF In
    <3>2. ASSUME NEW i \in 1..Len(q), q[i] = a PROVE In(r, a)
      <4>1. i \in 1..(Len(q) + 1)
        BY <1>1
      <4> QED
        BY <1>1, <3>2, <4>1 DEF In
    <3> QED
      BY <1>1, <2>2, <3>1, <3>2 DEF In
  <2> QED
    BY <2>1, <2>2
<1>3. ASSUME Leads(q, a, b), x # b \/ In(q, a) PROVE Leads(r, a, b)
  <2> SUFFICES ASSUME NEW j \in 1..(Len(q) + 1), r[j] = b
               PROVE  \E i \in 1..(Len(q) + 1) : i < j /\ r[i] = a
    BY <1>1 DEF Leads
  <2>1. CASE j \in 1..Len(q)
    <3>1. PICK i \in 1..Len(q) : i < j /\ q[i] = a
      BY <1>1, <1>3, <2>1 DEF Leads
    <3>2. i \in 1..(Len(q) + 1) /\ r[i] = a
      BY <1>1, <3>1
    <3> QED
      BY <3>1, <3>2
  <2>2. CASE j = Len(q) + 1
    <3>1. PICK i \in 1..Len(q) : q[i] = a
      BY <1>1, <1>3, <2>2 DEF In
    <3>2. i \in 1..(Len(q) + 1) /\ r[i] = a /\ i < j
      BY <1>1, <2>2, <3>1
    <3> QED
      BY <3>2
  <2>3. j \in 1..Len(q) \/ j = Len(q) + 1
    BY <1>1
  <2> QED
    BY <2>1, <2>2, <2>3
<1>4. ASSUME NotBehind(q, a, b), x # a \/ ~In(q, b), a # b PROVE NotBehind(r, a, b)
  <2> SUFFICES ASSUME NEW i \in 1..(Len(q) + 1), NEW j \in 1..(Len(q) + 1), r[i] = a, r[j] = b
               PROVE  i < j
    BY <1>1 DEF NotBehind
  <2>1. CASE i = Len(q) + 1
    <3>1. x = a /\ j # i
      BY <1>1, <1>4, <2>1
    <3>2. j \in 1..Len(q)
      BY <1>1, <2>1, <3>1
    <3>3. In(q, b)
      BY <1>1, <3>2 DEF In
    <3> QED
      BY <1>4, <3>1, <3>3
  <2>2. CASE i \in 1..Len(q) /\ j = Len(q) + 1
    BY <1>1, <2>2
  <2>3. CASE i \in 1..Len(q) /\ j \in 1..Len(q)
    BY <1>1, <1>4, <2>3 DEF NotBehind
  <2>4. (i \in 1..Len(q) \/ i = Len(q) + 1) /\ (j \in 1..Len(q) \/ j = Len(q) + 1)
    BY <1>1
  <2> QED
    BY <2>1, <2>2, <2>3, <2>4
<1> QED
  BY <1>1, <1>2, <1>3, <1>4 DEF r

(* What taking the first message does to them.                             *)
LEMMA Receiving ==
    ASSUME NEW M, NEW q \in Seq(M), q # << >>, NEW a, NEW b
    PROVE  /\ Tail(q) \in Seq(M) /\ Head(q) \in M
           /\ In(q, a) <=> In(Tail(q), a) \/ Head(q) = a
           /\ Leads(q, a, b) => Head(q) # b /\ (Head(q) # a => Leads(Tail(q), a, b))
           /\ NotBehind(q, a, b) =>
                NotBehind(Tail(q), a, b) /\ (Head(q) = b => ~In(q, a))
<1> DEFINE r == Tail(q)
           h == Head(q)
<1>1. /\ r \in Seq(M) /\ h \in M /\ h = q[1] /\ Len(q) \in Nat /\ Len(q) >= 1
      /\ DOMAIN q = 1..Len(q) /\ DOMAIN r = 1..(Len(q) - 1)
      /\ \A i \in 1..(Len(q) - 1) : r[i] = q[i + 1]
  OBVIOUS
<1> HIDE DEF r, h
<1>2. \A i \in 2..Len(q) : i - 1 \in 1..(Len(q) - 1) /\ r[i - 1] = q[i]
  BY <1>1
<1>3. \A i \in 1..(Len(q) - 1) : i + 1 \in 1..Len(q)
  BY <1>1
<1>4. \A i \in 1..Len(q) : i = 1 \/ i \in 2..Len(q)
  BY <1>1
<1>5. 1 \in 1..Len(q)
  BY <1>1
<1>6. In(q, a) <=> In(r, a) \/ h = a
  <2>1. ASSUME In(q, a) PROVE In(r, a) \/ h = a
    BY <1>1, <1>2, <1>4, <2>1 DEF In
  <2>2. ASSUME In(r, a) \/ h = a PROVE In(q, a)
    BY <1>1, <1>3, <1>5, <2>2 DEF In
  <2> QED
    BY <2>1, <2>2
<1>7. ASSUME Leads(q, a, b) PROVE h # b
  <2> SUFFICES ASSUME h = b PROVE FALSE
    OBVIOUS
  <2>1. PICK i \in 1..Len(q) : i < 1
    BY <1>1, <1>5, <1>7 DEF Leads
  <2> QED
    BY <2>1
<1>8. ASSUME Leads(q, a, b), h # a PROVE Leads(r, a, b)
  <2> SUFFICES ASSUME NEW j \in 1..(Len(q) - 1), r[j] = b
               PROVE  \E i \in 1..(Len(q) - 1) : i < j /\ r[i] = a
    BY <1>1 DEF Leads
  <2>1. j + 1 \in 1..Len(q) /\ q[j + 1] = b
    BY <1>1, <1>3
  <2>2. PICK i \in 1..Len(q) : i < j + 1 /\ q[i] = a
    BY <2>1, <1>1, <1>8 DEF Leads
  <2>3. i \in 2..Len(q)
    BY <2>2, <1>1, <1>4, <1>8
  <2>4. i - 1 \in 1..(Len(q) - 1) /\ r[i - 1] = a /\ i - 1 < j
    BY <2>2, <2>3, <1>2
  <2> QED
    BY <2>4
<1>9. ASSUME NotBehind(q, a, b) PROVE NotBehind(r, a, b)
  <2> SUFFICES ASSUME NEW i \in 1..(Len(q) - 1), NEW j \in 1..(Len(q) - 1), r[i] = a, r[j] = b
               PROVE  i < j
    BY <1>1 DEF NotBehind
  <2>1. i + 1 < j + 1
    BY <1>1, <1>3, <1>9 DEF NotBehind
  <2> QED
    BY <2>1
<1>10. ASSUME NotBehind(q, a, b), h = b PROVE ~In(q, a)
  <2> SUFFICES ASSUME NEW i \in 1..Len(q), q[i] = a PROVE FALSE
    BY <1>1 DEF In
  <2>1. i < 1
    BY <1>1, <1>5, <1>10 DEF NotBehind
  <2> QED
    BY <2>1
<1> QED
  BY <1>1, <1>6, <1>7, <1>8, <1>9, <1>10 DEF r, h

(***************************************************************************)
(* The invariant                                                           *)
(***************************************************************************)
FetchCounter == Request("FetchCounter")

FetchCRecords == Request("FetchCRecords")

Counter(p) == Message("Counter", p)

CRecords(p) == Message("CRecords", p)

Answers == {Message(type, p) : type \in {"Counter", "CRecords"}, p \in Pipelines}

Messages ==
    Answers \cup
    {Message(type, p) : type \in {"Channel", "Task"}, p \in Pipelines} \cup
    {Request(type) : type \in {"StartEngine", "PrintPerformance", "FetchCounter",
                               "FetchCRecords", "Exit"}}

(* The types of the channels and of the sets of pipelines.                 *)
ChannelTypes ==
    /\ to_rt \in Seq(Messages)
    /\ to_pipe \in [Pipelines -> Seq({FetchCounter, FetchCRecords})]
    /\ to_main \in Seq(Answers)
    /\ pipe \in [Pipelines -> {"none", "setup", "up", "dead"}]
    /\ senders \subseteq Pipelines /\ asked \subseteq senders

(* No request for records has been forwarded yet.                          *)
NoneForwarded ==
    /\ \A p \in Pipelines :
        /\ ~In(to_pipe[p], FetchCRecords)
        /\ ~In(to_rt, CRecords(p)) /\ ~In(to_main, CRecords(p))
    /\ con_records = {}

(* The two requests leave main in their order.                             *)
RequestsInOrder ==
    /\ main \in {"start", "loop", "printed", "records"} =>
        NoneForwarded /\ ~In(to_rt, FetchCRecords)
    /\ In(to_rt, FetchCounter) => NoneForwarded
    /\ NotBehind(to_rt, FetchCounter, FetchCRecords)

(* The counters of p are on their way back, or main has them.              *)
Arrived(p) == p \in tcp_counters

InMain(p) == Arrived(p) \/ In(to_main, Counter(p))

InRuntime(p) == InMain(p) \/ In(to_rt, Counter(p))

(* The counters of p are ahead of its records, wherever these are.         *)
CountersAhead(p) ==
    /\ p \in con_records => Arrived(p)
    /\ Arrived(p) \/ Leads(to_main, Counter(p), CRecords(p))
    /\ InMain(p) \/ Leads(to_rt, Counter(p), CRecords(p))
    /\ pipe[p] # "dead" =>
        /\ InRuntime(p) \/ Leads(to_pipe[p], FetchCounter, FetchCRecords)
        /\ InRuntime(p) \/ In(to_pipe[p], FetchCounter)

(* The request for the records follows the one for the counters.           *)
RecordsRequested == In(to_rt, FetchCRecords) \/ main \in {"records", "panicked"}

(* The records of p are requested, on their way back, or main has them.    *)
RecordsFollow(p) ==
    \/ p \in con_records
    \/ In(to_main, CRecords(p)) \/ In(to_rt, CRecords(p))
    \/ In(to_pipe[p], FetchCRecords)
    \/ RecordsRequested

(* main has all of p that it asked for.                                    *)
Complete(p) == Arrived(p) /\ (detailed_records => p \in con_records)

(* p will not be asked for its counters any more, and main has all of p,   *)
(* unless p does not run or is not asked.                                  *)
Settled(p) ==
    /\ ~In(to_rt, FetchCounter)
    /\ p \in asked /\ pipe[p] # "dead" => Complete(p)

MPInv ==
    /\ ChannelTypes
    /\ RequestsInOrder
    /\ \A p \in asked : CountersAhead(p)
    /\ detailed_records =>
        /\ In(to_rt, FetchCounter) => RecordsRequested
        /\ \A p \in asked : pipe[p] # "dead" => RecordsFollow(p)
    /\ main \in {"evaluate", "exiting", "done"} => \A p \in Pipelines \ early : Settled(p)

-----------------------------------------------------------------------------
(* Messages of different kinds differ, and so do those of two pipelines.   *)
LEMMA Kinds ==
    /\ FetchCounter # FetchCRecords
    /\ \A p, q : /\ Counter(p) # CRecords(q)
                 /\ Counter(p) # FetchCounter /\ Counter(p) # FetchCRecords
                 /\ CRecords(p) # FetchCounter /\ CRecords(p) # FetchCRecords
                 /\ Counter(p) = Counter(q) => p = q
                 /\ CRecords(p) = CRecords(q) => p = q
BY DEF FetchCounter, FetchCRecords, Counter, CRecords, Message, Request

(* A message is known by its type.                                         *)
LEMMA Types ==
    ASSUME NEW m \in Messages
    PROVE  /\ m.type = "FetchCounter" <=> m = FetchCounter
           /\ m.type = "FetchCRecords" <=> m = FetchCRecords
           /\ m.type = "Counter" <=> \E p \in Pipelines : m = Counter(p) /\ m.from = p
           /\ m.type = "CRecords" <=> \E p \in Pipelines : m = CRecords(p) /\ m.from = p
           /\ m.type \in {"Counter", "CRecords"} => m \in Answers
           /\ m.type = "Channel" => m.from \in Pipelines
BY DEF Messages, Answers, FetchCounter, FetchCRecords, Counter, CRecords, Message, Request

(* At the start nothing is under way.                                      *)
LEMMA MPInitInv == MPInit => MPInv
BY DEF MPInit, MPInv, ChannelTypes, RequestsInOrder, NoneForwarded, In, NotBehind

(* Messages that are neither requests nor answers do not matter.           *)
Plain(m) ==
    /\ m # FetchCounter /\ m # FetchCRecords
    /\ \A p \in Pipelines : m # Counter(p) /\ m # CRecords(p)

(* The messages of set-up, start and end are of that kind.                 *)
LEMMA PlainMessages ==
    /\ \A p \in Pipelines : /\ Message("Channel", p) \in Messages /\ Plain(Message("Channel", p))
                            /\ Message("Task", p) \in Messages /\ Plain(Message("Task", p))
    /\ \A type \in {"StartEngine", "PrintPerformance", "Exit"} :
        Request(type) \in Messages /\ Plain(Request(type))
<1>1. ASSUME NEW m, m.type \notin {"FetchCounter", "FetchCRecords", "Counter", "CRecords"}
      PROVE  Plain(m)
  BY <1>1 DEF Plain, FetchCounter, FetchCRecords, Counter, CRecords, Message, Request
<1>2. ASSUME NEW p \in Pipelines, NEW type \in {"Channel", "Task"}
      PROVE  Message(type, p) \in Messages /\ Message(type, p).type = type
  BY DEF Messages, Message
<1>3. ASSUME NEW type \in {"StartEngine", "PrintPerformance", "Exit"}
      PROVE  Request(type) \in Messages /\ Request(type).type = type
  BY DEF Messages, Request
<1> QED
  BY <1>1, <1>2, <1>3

(***************************************************************************)
(* Steps that move no request and no answer                                *)
(***************************************************************************)

(* A pipeline that has stopped stays so.                                   *)
DeadStaysDead ==
    /\ pipe' \in [Pipelines -> {"none", "setup", "up", "dead"}]
    /\ \A p \in Pipelines : pipe[p] = "dead" => pipe'[p] = "dead"

(* The queue to the runtime thread is the same up to plain messages.       *)
SameRequests ==
    /\ to_rt' \in Seq(Messages)
    /\ In(to_rt', FetchCounter) <=> In(to_rt, FetchCounter)
    /\ In(to_rt', FetchCRecords) <=> In(to_rt, FetchCRecords)
    /\ NotBehind(to_rt, FetchCounter, FetchCRecords) =>
        NotBehind(to_rt', FetchCounter, FetchCRecords)
    /\ \A p \in Pipelines :
        /\ In(to_rt', Counter(p)) <=> In(to_rt, Counter(p))
        /\ In(to_rt', CRecords(p)) <=> In(to_rt, CRecords(p))
        /\ Leads(to_rt, Counter(p), CRecords(p)) => Leads(to_rt', Counter(p), CRecords(p))

(* main takes no step that is about the requests.                          *)
MainGoesOn ==
    /\ main' \in {"start", "loop", "printed", "records"} =>
        main \in {"start", "loop", "printed", "records"}
    /\ main \in {"records", "panicked"} => main' \in {"records", "panicked"}
    /\ main' \in {"evaluate", "exiting", "done"} =>
        main \in {"evaluate", "exiting", "done"} /\ early' = early

(* Neither the channels to main and to the pipelines change, nor what main *)
(* has and the runtime thread knows.                                       *)
RestStays ==
    /\ to_pipe' = to_pipe /\ to_main' = to_main
    /\ tcp_counters' = tcp_counters /\ con_records' = con_records
    /\ asked' = asked /\ senders \subseteq senders' /\ senders' \subseteq Pipelines

(* A step that leaves the requests, the answers and what came of them      *)
(* where they are keeps the invariant.                                     *)
LEMMA PlainStep ==
    ASSUME MPInv, DeadStaysDead, SameRequests, MainGoesOn, RestStays
    PROVE  MPInv'
<1>1. ChannelTypes'
  BY DEF MPInv, ChannelTypes, DeadStaysDead, SameRequests, RestStays
<1>2. NoneForwarded => NoneForwarded'
  BY DEF NoneForwarded, SameRequests, RestStays
<1>3. RequestsInOrder'
  BY <1>2 DEF MPInv, RequestsInOrder, SameRequests, MainGoesOn
<1>4. ASSUME NEW p \in asked
      PROVE  CountersAhead(p)' /\ (pipe'[p] # "dead" => pipe[p] # "dead")
  <2>1. p \in Pipelines
    BY DEF MPInv, ChannelTypes
  <2>2. CountersAhead(p)
    BY DEF MPInv
  <2>3. Arrived(p)' = Arrived(p) /\ InMain(p)' = InMain(p) /\ (InRuntime(p) => InRuntime(p)')
    BY <2>1 DEF Arrived, InMain, InRuntime, RestStays, SameRequests
  <2> QED
    BY <2>1, <2>2, <2>3 DEF CountersAhead, RestStays, SameRequests, DeadStaysDead
<1>5. RecordsRequested => RecordsRequested'
  BY DEF RecordsRequested, SameRequests, MainGoesOn
<1>6. ASSUME NEW p \in asked, RecordsFollow(p) PROVE RecordsFollow(p)'
  <2>1. p \in Pipelines
    BY DEF MPInv, ChannelTypes
  <2> QED
    BY <1>5, <1>6, <2>1 DEF RecordsFollow, SameRequests, RestStays
<1>7. detailed_records =>
        /\ In(to_rt', FetchCounter) => RecordsRequested'
        /\ \A p \in asked' : pipe'[p] # "dead" => RecordsFollow(p)'
  BY <1>4, <1>5, <1>6 DEF MPInv, SameRequests, RestStays
<1>10. FetchCounter' = FetchCounter
  BY DEF FetchCounter, Request
<1>8. main' \in {"evaluate", "exiting", "done"} => \A p \in Pipelines \ early' : Settled(p)'
  BY <1>4, <1>10 DEF MPInv, MainGoesOn, SameRequests, RestStays, Settled, Complete, Arrived
<1>9. \A p \in asked' : CountersAhead(p)'
  BY <1>4 DEF RestStays
<1> QED
  BY <1>1, <1>3, <1>7, <1>8, <1>9, <1>10 DEF MPInv

(* Sending a plain message leaves the requests and answers in their order. *)
LEMMA PlainSent ==
    ASSUME MPInv, NEW m \in Messages, Plain(m), to_rt' = Append(to_rt, m)
    PROVE  SameRequests
<1>1. to_rt \in Seq(Messages)
  BY DEF MPInv, ChannelTypes
<1>2. ASSUME NEW a, NEW b, a # m, b # m, a # b
      PROVE  /\ to_rt' \in Seq(Messages)
             /\ In(to_rt', a) <=> In(to_rt, a)
             /\ In(to_rt', b) <=> In(to_rt, b)
             /\ Leads(to_rt, a, b) => Leads(to_rt', a, b)
             /\ NotBehind(to_rt, a, b) => NotBehind(to_rt', a, b)
  BY <1>1, <1>2, Sending
<1>3. /\ FetchCounter # m /\ FetchCRecords # m /\ FetchCounter # FetchCRecords
      /\ \A p \in Pipelines : Counter(p) # m /\ CRecords(p) # m /\ Counter(p) # CRecords(p)
  BY Kinds DEF Plain
<1> QED
  BY <1>2, <1>3 DEF SameRequests

(* Taking such a message leaves the requests and answers in their order.   *)
LEMMA PlainTaken ==
    ASSUME MPInv, to_rt # << >>, Plain(Head(to_rt)), to_rt' = Tail(to_rt)
    PROVE  SameRequests
<1>1. to_rt \in Seq(Messages)
  BY DEF MPInv, ChannelTypes
<1>2. ASSUME NEW a, NEW b, a # Head(to_rt), b # Head(to_rt)
      PROVE  /\ to_rt' \in Seq(Messages)
             /\ In(to_rt', a) <=> In(to_rt, a)
             /\ In(to_rt', b) <=> In(to_rt, b)
             /\ Leads(to_rt, a, b) => Leads(to_rt', a, b)
             /\ NotBehind(to_rt, a, b) => NotBehind(to_rt', a, b)
  BY <1>1, <1>2, Receiving
<1>3. /\ FetchCounter # Head(to_rt) /\ FetchCRecords # Head(to_rt)
      /\ \A p \in Pipelines : Counter(p) # Head(to_rt) /\ CRecords(p) # Head(to_rt)
  BY DEF Plain
<1> QED
  BY <1>2, <1>3 DEF SameRequests

(* So does a step that leaves the channel alone.                           *)
LEMMA NothingSent ==
    ASSUME MPInv, to_rt' = to_rt
    PROVE  SameRequests
BY DEF MPInv, ChannelTypes, SameRequests

(* A message of main other than the two requests keeps the invariant, sent *)
(* or not.                                                                 *)
LEMMA MainSendsPlain ==
    ASSUME MPInv, NEW type \in {"StartEngine", "PrintPerformance", "Exit"}, NEW next,
           MainSends(type, next),
           UNCHANGED <<rtVars, tcp_counters, con_records, early, pipe, to_pipe, to_main>>,
           <<main, next>> \in {<<"start", "loop">>, <<"loop", "printed">>,
                               <<"evaluate", "exiting">>}
    PROVE  MPInv'
<1>1. DeadStaysDead /\ RestStays
  BY DEF DeadStaysDead, RestStays, MPInv, ChannelTypes, rtVars
<1>2. main' = next \/ main' = "panicked"
  BY DEF MainSends
<1>3. main \in {"start", "loop", "evaluate"} /\ (main = "start" => next = "loop")
      /\ (main = "loop" => next = "printed") /\ (main = "evaluate" => next = "exiting")
  OBVIOUS
<1>4. MainGoesOn
  BY <1>2, <1>3 DEF MainGoesOn
<1>5. SameRequests
  BY PlainMessages, PlainSent, NothingSent DEF MainSends
<1> QED
  BY <1>1, <1>4, <1>5, PlainStep

(* Main before and after the requests, and ctrl-c.                         *)
LEMMA MainPlainInv ==
    ASSUME MPInv, MainStart \/ MainLeavesLoop \/ MainExits \/ MainDone \/ CtrlC
    PROVE  MPInv'
<1>1. CASE MainStart
  BY <1>1, MainSendsPlain DEF MainStart
<1>2. CASE MainLeavesLoop
  BY <1>2, MainSendsPlain DEF MainLeavesLoop
<1>3. CASE MainExits
  BY <1>3, MainSendsPlain DEF MainExits
<1>4. CASE MainDone \/ CtrlC
  <2>1. DeadStaysDead /\ RestStays /\ to_rt' = to_rt
    BY <1>4 DEF MainDone, CtrlC, DeadStaysDead, RestStays, MPInv, ChannelTypes, rtVars
  <2>2. MainGoesOn
    BY <1>4 DEF MainDone, CtrlC, MainGoesOn
  <2> QED
    BY <2>1, <2>2, NothingSent, PlainStep
<1> QED
  BY <1>1, <1>2, <1>3, <1>4

(* The set-up of a pipeline and its end, also by a failed send.            *)
LEMMA PipelinePlainInv ==
    ASSUME MPInv, NEW p \in Pipelines,
           PipelineSetup(p) \/ PipelineTasks(p) \/ PipelineDies(p)
    PROVE  MPInv'
<1>1. pipe \in [Pipelines -> {"none", "setup", "up", "dead"}] /\ senders \subseteq Pipelines
  BY DEF MPInv, ChannelTypes
<1>2. /\ main' = main /\ early' = early /\ to_pipe' = to_pipe /\ to_main' = to_main
      /\ tcp_counters' = tcp_counters /\ con_records' = con_records
      /\ asked' = asked /\ senders' = senders
  BY DEF PipelineSetup, PipelineTasks, PipelineDies, mainVars, rtVars
<1>3. MainGoesOn /\ RestStays
  BY <1>1, <1>2 DEF MainGoesOn, RestStays
<1>4. /\ pipe[p] # "dead"
      /\ \E s \in {"setup", "up", "dead"} : pipe' = [pipe EXCEPT ![p] = s]
  BY DEF PipelineSetup, PipelineTasks, PipelineDies, PipelineSends
<1>5. DeadStaysDead
  BY <1>1, <1>4 DEF DeadStaysDead
<1>6. SameRequests
  <2>1. \/ to_rt' = to_rt \/ to_rt' = Append(to_rt, Message("Channel", p))
        \/ to_rt' = Append(to_rt, Message("Task", p))
    BY DEF PipelineSetup, PipelineTasks, PipelineDies, PipelineSends
  <2> QED
    BY <2>1, PlainMessages, PlainSent, NothingSent
<1> QED
  BY <1>3, <1>5, <1>6, PlainStep

(* What the runtime thread only notes.                                     *)
LEMMA RuntimeNotesInv ==
    ASSUME MPInv, RuntimeNotes
    PROVE  MPInv'
<1>1. ChannelTypes /\ to_rt # << >> /\ to_rt' = Tail(to_rt)
      /\ Head(to_rt).type \in {"Channel", "Task", "StartEngine", "PrintPerformance", "Exit"}
  BY DEF MPInv, RuntimeNotes, RuntimeTakes
<1>2. Head(to_rt) \in Messages
  BY <1>1 DEF ChannelTypes
<1>3. Plain(Head(to_rt))
  BY <1>1 DEF Plain, FetchCounter, FetchCRecords, Counter, CRecords, Message, Request
<1>4. SameRequests
  BY <1>1, <1>3, PlainTaken
<1>5. DeadStaysDead /\ MainGoesOn
  BY <1>1 DEF RuntimeNotes, RuntimeTakes, DeadStaysDead, MainGoesOn, ChannelTypes, mainVars
<1>6. senders \subseteq senders' /\ senders' \subseteq Pipelines
  BY <1>1, <1>2, Types DEF RuntimeNotes, ChannelTypes
<1>7. RestStays
  BY <1>6 DEF RuntimeNotes, RuntimeTakes, RestStays, mainVars
<1> QED
  BY <1>4, <1>5, <1>7, PlainStep

(***************************************************************************)
(* Steps that move requests and answers                                    *)
(***************************************************************************)

(* An answer goes from the front of one queue to the end of the next.      *)
LEMMA RuntimeAnswersInv ==
    ASSUME MPInv, RuntimeAnswers
    PROVE  MPInv'
<1>m. PICK m : m = Head(to_rt)
  OBVIOUS
<1>1. ChannelTypes /\ RequestsInOrder /\ to_rt # << >> /\ to_rt' = Tail(to_rt)
      /\ m.type \in {"Counter", "CRecords"} /\ to_main' = Append(to_main, m)
  BY <1>m DEF MPInv, RuntimeAnswers, RuntimeTakes
<1>2. /\ main' = main /\ early' = early /\ pipe' = pipe /\ to_pipe' = to_pipe
      /\ tcp_counters' = tcp_counters /\ con_records' = con_records
      /\ asked' = asked /\ senders' = senders
  BY DEF RuntimeAnswers, RuntimeTakes, mainVars, rtVars
<1>3. to_rt \in Seq(Messages) /\ to_main \in Seq(Answers) /\ m \in Messages
  BY <1>1, <1>m DEF ChannelTypes
<1>4. m \in Answers /\ \E q \in Pipelines : m = Counter(q) \/ m = CRecords(q)
  BY <1>1, <1>3, Types
<1>5. ASSUME NEW a, NEW b
      PROVE  /\ to_rt' \in Seq(Messages) /\ to_main' \in Seq(Answers)
             /\ In(to_rt, a) <=> In(to_rt', a) \/ m = a
             /\ In(to_main', a) <=> In(to_main, a) \/ m = a
             /\ Leads(to_main, a, b) /\ (m # b \/ In(to_main, a)) => Leads(to_main', a, b)
             /\ Leads(to_rt, a, b) => m # b /\ (m # a => Leads(to_rt', a, b))
             /\ NotBehind(to_rt, a, b) => NotBehind(to_rt', a, b)
  BY <1>1, <1>3, <1>4, <1>m, Sending, Receiving
<1>6. ChannelTypes'
  BY <1>1, <1>2, <1>5 DEF ChannelTypes
<1>7. m # FetchCounter /\ m # FetchCRecords
  BY <1>4, Kinds
<1>8. NoneForwarded => NoneForwarded'
  BY <1>2, <1>5 DEF NoneForwarded
<1>9. RequestsInOrder'
  BY <1>1, <1>2, <1>5, <1>7, <1>8 DEF RequestsInOrder
<1>10. ASSUME NEW p \in asked PROVE CountersAhead(p)'
  <2>1. CountersAhead(p) /\ Counter(p) # CRecords(p)
    BY Kinds DEF MPInv
  <2>2. /\ Arrived(p)' = Arrived(p) /\ (InMain(p)' <=> InMain(p) \/ m = Counter(p))
        /\ InRuntime(p)' = InRuntime(p)
    BY <1>2, <1>5 DEF Arrived, InMain, InRuntime
  <2>3. InMain(p)' \/ Leads(to_rt', Counter(p), CRecords(p))
    BY <1>5, <2>1, <2>2 DEF CountersAhead
  <2>4. Arrived(p) \/ Leads(to_main', Counter(p), CRecords(p))
    <3>1. m = CRecords(p) => InMain(p)
      BY <1>5, <2>1 DEF CountersAhead
    <3> QED
      BY <3>1, <1>5, <2>1 DEF CountersAhead, InMain
  <2> QED
    BY <1>2, <2>1, <2>2, <2>3, <2>4 DEF CountersAhead
<1>11. (RecordsRequested => RecordsRequested')
       /\ \A p \in asked : RecordsFollow(p) => RecordsFollow(p)'
  BY <1>2, <1>5, <1>7 DEF RecordsRequested, RecordsFollow
<1>12. FetchCounter' = FetchCounter /\ (In(to_rt', FetchCounter) <=> In(to_rt, FetchCounter))
  BY <1>5, <1>7 DEF FetchCounter, Request
<1>13. \A p : Settled(p) => Settled(p)'
  BY <1>2, <1>12 DEF Settled, Complete, Arrived
<1> QED
  BY <1>2, <1>6, <1>9, <1>10, <1>11, <1>12, <1>13 DEF MPInv

(* main takes an answer: the counters of a pipeline it asked come first.   *)
LEMMA MainReceivesInv ==
    ASSUME MPInv, MainReceives
    PROVE  MPInv'
<1>m. PICK m : m = Head(to_main)
  OBVIOUS
<1>1. /\ ChannelTypes /\ RequestsInOrder /\ main = "collect" /\ main' = "collect"
      /\ to_main # << >> /\ to_main' = Tail(to_main)
      /\ tcp_counters' = IF m.type = "Counter" THEN tcp_counters \cup {m.from} ELSE tcp_counters
      /\ con_records' = IF m.type = "CRecords" THEN con_records \cup {m.from} ELSE con_records
  BY <1>m DEF MPInv, MainReceives, AfterAnswer
<1>2. /\ early' = early /\ pipe' = pipe /\ to_pipe' = to_pipe /\ to_rt' = to_rt
      /\ asked' = asked /\ senders' = senders
  BY DEF MainReceives, rtVars
<1>3. to_main \in Seq(Answers) /\ m \in Answers
  BY <1>1, <1>m DEF ChannelTypes
<1>4. PICK q \in Pipelines :
        /\ m.from = q
        /\ \/ m = Counter(q) /\ m.type = "Counter"
           \/ m = CRecords(q) /\ m.type = "CRecords"
  BY <1>3 DEF Answers, Message, Counter, CRecords
<1>5. ASSUME NEW a, NEW b
      PROVE  /\ to_main' \in Seq(Answers)
             /\ In(to_main, a) <=> In(to_main', a) \/ m = a
             /\ Leads(to_main, a, b) => m # b /\ (m # a => Leads(to_main', a, b))
  BY <1>1, <1>3, <1>m, Receiving
<1>6. ChannelTypes'
  BY <1>1, <1>2, <1>5 DEF ChannelTypes
<1>7. NoneForwarded => NoneForwarded'
  <2>1. NoneForwarded => m # CRecords(q)
    BY <1>5 DEF NoneForwarded
  <2> QED
    BY <1>1, <1>2, <1>4, <1>5, <2>1 DEF NoneForwarded
<1>8. RequestsInOrder'
  BY <1>1, <1>2, <1>7 DEF RequestsInOrder
<1>9. \A p \in Pipelines : /\ Arrived(p)' <=> Arrived(p) \/ m = Counter(p)
                           /\ p \in con_records' <=> p \in con_records \/ m = CRecords(p)
  BY <1>1, <1>4, Kinds DEF Arrived
<1>10. ASSUME NEW p \in asked PROVE CountersAhead(p)'
  <2>1. CountersAhead(p) /\ p \in Pipelines
    BY <1>1 DEF MPInv, ChannelTypes
  <2>2. InMain(p)' = InMain(p) /\ InRuntime(p)' = InRuntime(p)
    BY <1>2, <1>5, <1>9, <2>1 DEF InMain, InRuntime
  <2>3. p \in con_records' => Arrived(p)'
    BY <1>5, <1>9, <2>1 DEF CountersAhead
  <2>4. Arrived(p)' \/ Leads(to_main', Counter(p), CRecords(p))
    BY <1>5, <1>9, <2>1 DEF CountersAhead
  <2> QED
    BY <1>2, <2>1, <2>2, <2>3, <2>4 DEF CountersAhead
<1>11. (RecordsRequested => RecordsRequested')
       /\ \A p \in asked : RecordsFollow(p) => RecordsFollow(p)'
  <2>1. RecordsRequested => RecordsRequested'
    BY <1>1, <1>2 DEF RecordsRequested
  <2>2. \A p \in asked : p \in Pipelines
    BY <1>1 DEF ChannelTypes
  <2> QED
    BY <1>2, <1>5, <1>9, <2>1, <2>2 DEF RecordsFollow
<1> QED
  BY <1>1, <1>2, <1>6, <1>8, <1>10, <1>11 DEF MPInv

(* main stops waiting: if nothing was under way, it has everything.        *)
LEMMA MainGivesUpInv ==
    ASSUME MPInv, MainGivesUp
    PROVE  MPInv'
<1>1. /\ main = "collect" /\ main' = "evaluate" /\ to_main = << >> /\ early' = {p \in Pipelines : UnderWay(p)}
      /\ pipe' = pipe /\ to_pipe' = to_pipe /\ to_rt' = to_rt /\ to_main' = to_main
      /\ asked' = asked /\ senders' = senders
      /\ tcp_counters' = tcp_counters /\ con_records' = con_records
  BY DEF MainGivesUp, GivesUp, rtVars
<1>2. ChannelTypes' /\ RequestsInOrder' /\ \A p \in asked' : CountersAhead(p)'
  BY <1>1 DEF MPInv, ChannelTypes, RequestsInOrder, NoneForwarded, CountersAhead, Arrived,
              InMain, InRuntime
<1>3. (RecordsRequested => RecordsRequested')
      /\ \A p \in asked : RecordsFollow(p) => RecordsFollow(p)'
  BY <1>1 DEF RecordsRequested, RecordsFollow
<1>4. ASSUME NEW p \in Pipelines \ early' PROVE Settled(p)
  <2>1. ~UnderWay(p)
    BY <1>1, <1>4
  <2>2. /\ to_pipe[p] = << >>
        /\ ~In(to_rt, FetchCounter) /\ ~In(to_rt, FetchCRecords)
        /\ ~In(to_rt, Counter(p)) /\ ~In(to_rt, CRecords(p))
    BY <2>1 DEF UnderWay, In, FetchCounter, FetchCRecords, Counter, CRecords, Message, Request
  <2>3. \A a : ~In(<< >>, a)
    BY DEF In
  <2>4. ASSUME p \in asked, pipe[p] # "dead" PROVE Complete(p)
    <3>1. CountersAhead(p) /\ (detailed_records => RecordsFollow(p))
      BY <2>4 DEF MPInv
    <3> QED
      BY <3>1, <1>1, <2>2, <2>3, <2>4
         DEF Complete, CountersAhead, InMain, InRuntime, RecordsFollow, RecordsRequested
  <2> QED
    BY <2>2, <2>4 DEF Settled
<1>5. \A p : Settled(p) => Settled(p)'
  BY <1>1 DEF Settled, Complete, Arrived, FetchCounter, Request
<1> QED
  BY <1>1, <1>2, <1>3, <1>4, <1>5 DEF MPInv

(* The request for the counters makes the known pipelines the ones asked.  *)
LEMMA ForwardsCounter ==
    ASSUME MPInv, RuntimeForwards, Head(to_rt) = FetchCounter
    PROVE  MPInv'
<1>1. ChannelTypes /\ RequestsInOrder /\ to_rt # << >> /\ to_rt' = Tail(to_rt)
  BY DEF MPInv, RuntimeForwards, RuntimeTakes
<1>2. /\ main' = main /\ early' = early /\ pipe' = pipe /\ to_main' = to_main
      /\ tcp_counters' = tcp_counters /\ con_records' = con_records
      /\ senders' = senders /\ asked' = senders
      /\ to_pipe' = [p \in Pipelines |-> IF p \in senders THEN Append(to_pipe[p], FetchCounter)
                                         ELSE to_pipe[p]]
  BY DEF RuntimeForwards, RuntimeTakes, mainVars, FetchCounter, Request
<1>3. to_rt \in Seq(Messages)
      /\ \A p \in Pipelines : to_pipe[p] \in Seq({FetchCounter, FetchCRecords})
  BY <1>1 DEF ChannelTypes
<1>4. ASSUME NEW a, NEW b
      PROVE  /\ to_rt' \in Seq(Messages)
             /\ In(to_rt, a) <=> In(to_rt', a) \/ FetchCounter = a
             /\ NotBehind(to_rt, a, b) => NotBehind(to_rt', a, b)
  BY <1>1, <1>3, Receiving
<1>5. ASSUME NEW p \in Pipelines, NEW a
      PROVE  /\ to_pipe'[p] \in Seq({FetchCounter, FetchCRecords})
             /\ In(to_pipe[p], a) => In(to_pipe'[p], a)
             /\ In(to_pipe'[p], a) => In(to_pipe[p], a) \/ a = FetchCounter
             /\ p \in senders => In(to_pipe'[p], FetchCounter)
  <2>1. CASE p \in senders
    <3>1. to_pipe'[p] = Append(to_pipe[p], FetchCounter)
      BY <1>2, <2>1
    <3>2. /\ to_pipe[p] \in Seq({FetchCounter, FetchCRecords})
          /\ FetchCounter \in {FetchCounter, FetchCRecords}
      BY <1>3
    <3>3. ASSUME NEW c, NEW d
          PROVE  /\ Append(to_pipe[p], FetchCounter) \in Seq({FetchCounter, FetchCRecords})
                 /\ In(Append(to_pipe[p], FetchCounter), c) <=> In(to_pipe[p], c) \/ FetchCounter = c
                 /\ Leads(to_pipe[p], c, d) /\ (FetchCounter # d \/ In(to_pipe[p], c))
                      => Leads(Append(to_pipe[p], FetchCounter), c, d)
      BY <3>2, Sending
    <3> QED
      BY <2>1, <3>1, <3>3
  <2>2. CASE p \notin senders
    BY <1>2, <1>3, <2>2
  <2> QED
    BY <2>1, <2>2
<1>6. ChannelTypes'
  BY <1>1, <1>2, <1>4, <1>5 DEF ChannelTypes
<1>7. NoneForwarded /\ NoneForwarded'
  <2>1. NoneForwarded
    BY <1>1, <1>4 DEF RequestsInOrder
  <2> QED
    BY <1>2, <1>4, <1>5, <2>1, Kinds DEF NoneForwarded
<1>8. RequestsInOrder'
  BY <1>1, <1>2, <1>4, <1>7 DEF RequestsInOrder
<1>9. ASSUME NEW p \in senders PROVE CountersAhead(p)'
  <2>1. p \in Pipelines
    BY <1>1 DEF ChannelTypes
  <2>2. /\ p \notin con_records'
        /\ Leads(to_main', Counter(p), CRecords(p)) /\ Leads(to_rt', Counter(p), CRecords(p))
        /\ Leads(to_pipe'[p], FetchCounter, FetchCRecords)
    BY <1>7, <2>1 DEF NoneForwarded, Leads, In
  <2> QED
    BY <1>5, <2>1, <2>2 DEF CountersAhead
<1>10. detailed_records => RecordsRequested'
  <2>1. detailed_records => RecordsRequested
    BY <1>4 DEF MPInv
  <2> QED
    BY <1>2, <1>4, <2>1, Kinds DEF RecordsRequested
<1>11. \A p \in senders : RecordsRequested' => RecordsFollow(p)'
  BY DEF RecordsFollow
<1>12. main' \in {"evaluate", "exiting", "done"} => Pipelines \ early' = {}
  <2>1. In(to_rt, FetchCounter)
    BY <1>4
  <2> QED
    BY <1>2, <2>1 DEF MPInv, Settled
<1> QED
  BY <1>2, <1>6, <1>8, <1>9, <1>10, <1>11, <1>12 DEF MPInv

(* The request for the records finds the one for the counters ahead of it. *)
LEMMA ForwardsRecords ==
    ASSUME MPInv, RuntimeForwards, Head(to_rt) = FetchCRecords
    PROVE  MPInv'
<1>1. ChannelTypes /\ RequestsInOrder /\ to_rt # << >> /\ to_rt' = Tail(to_rt)
  BY DEF MPInv, RuntimeForwards, RuntimeTakes
<1>2. /\ main' = main /\ early' = early /\ pipe' = pipe /\ to_main' = to_main
      /\ tcp_counters' = tcp_counters /\ con_records' = con_records
      /\ senders' = senders /\ asked' = asked
      /\ to_pipe' = [p \in Pipelines |-> IF p \in senders THEN Append(to_pipe[p], FetchCRecords)
                                         ELSE to_pipe[p]]
  <2>1. Head(to_rt).type = "FetchCRecords"
    BY DEF FetchCRecords, Request
  <2> QED
    BY <2>1 DEF RuntimeForwards, RuntimeTakes, mainVars
<1>3. to_rt \in Seq(Messages)
      /\ \A p \in Pipelines : to_pipe[p] \in Seq({FetchCounter, FetchCRecords})
  BY <1>1 DEF ChannelTypes
<1>4. ASSUME NEW a, NEW b
      PROVE  /\ to_rt' \in Seq(Messages)
             /\ In(to_rt, a) <=> In(to_rt', a) \/ FetchCRecords = a
             /\ FetchCRecords # a /\ Leads(to_rt, a, b) => Leads(to_rt', a, b)
             /\ NotBehind(to_rt, a, b) =>
                    NotBehind(to_rt', a, b) /\ (FetchCRecords = b => ~In(to_rt, a))
  BY <1>1, <1>3, Receiving
<1>5. ASSUME NEW p \in Pipelines, NEW a
      PROVE  /\ to_pipe'[p] \in Seq({FetchCounter, FetchCRecords})
             /\ In(to_pipe[p], a) => In(to_pipe'[p], a)
             /\ p \in senders => In(to_pipe'[p], FetchCRecords)
             /\ Leads(to_pipe[p], FetchCounter, FetchCRecords) /\ In(to_pipe[p], FetchCounter)
                    => Leads(to_pipe'[p], FetchCounter, FetchCRecords)
  <2>1. CASE p \in senders
    <3>1. to_pipe'[p] = Append(to_pipe[p], FetchCRecords)
      BY <1>2, <2>1
    <3>2. /\ to_pipe[p] \in Seq({FetchCounter, FetchCRecords})
          /\ FetchCRecords \in {FetchCounter, FetchCRecords}
      BY <1>3
    <3>3. ASSUME NEW c, NEW d
          PROVE  /\ Append(to_pipe[p], FetchCRecords) \in Seq({FetchCounter, FetchCRecords})
                 /\ In(Append(to_pipe[p], FetchCRecords), c) <=> In(to_pipe[p], c) \/ FetchCRecords = c
                 /\ Leads(to_pipe[p], c, d) /\ (FetchCRecords # d \/ In(to_pipe[p], c))
                      => Leads(Append(to_pipe[p], FetchCRecords), c, d)
      BY <3>2, Sending
    <3> QED
      BY <2>1, <3>1, <3>3
  <2>2. CASE p \notin senders
    BY <1>2, <1>3, <2>2
  <2> QED
    BY <2>1, <2>2
<1>6. ChannelTypes'
  BY <1>1, <1>2, <1>4, <1>5 DEF ChannelTypes
<1>7. ~In(to_rt', FetchCounter) /\ main' \notin {"start", "loop", "printed", "records"}
  BY <1>1, <1>2, <1>4 DEF RequestsInOrder
<1>8. RequestsInOrder'
  BY <1>1, <1>4, <1>7 DEF RequestsInOrder
<1>9. ASSUME NEW p \in asked PROVE CountersAhead(p)'
  <2>1. CountersAhead(p) /\ p \in Pipelines
    BY <1>1 DEF MPInv, ChannelTypes
  <2>2. Arrived(p)' = Arrived(p) /\ InMain(p)' = InMain(p) /\ InRuntime(p)' = InRuntime(p)
    BY <1>2, <1>4, Kinds DEF Arrived, InMain, InRuntime
  <2>3. InMain(p) \/ Leads(to_rt', Counter(p), CRecords(p))
    BY <1>4, <2>1, Kinds DEF CountersAhead
  <2>4. pipe[p] # "dead" =>
            /\ InRuntime(p) \/ Leads(to_pipe'[p], FetchCounter, FetchCRecords)
            /\ InRuntime(p) \/ In(to_pipe'[p], FetchCounter)
    BY <1>5, <2>1 DEF CountersAhead
  <2> QED
    BY <1>2, <2>1, <2>2, <2>3, <2>4 DEF CountersAhead
<1>10. \A p \in asked : RecordsFollow(p)'
  BY <1>1, <1>5 DEF RecordsFollow, ChannelTypes
<1>11. \A p : Settled(p) => Settled(p)'
  BY <1>2, <1>7 DEF Settled, Complete, Arrived, FetchCounter, Request
<1> QED
  BY <1>2, <1>6, <1>7, <1>8, <1>9, <1>10, <1>11 DEF MPInv

(* A pipeline takes a request and answers it, or stops because there is no *)
(* runtime thread to answer to.                                            *)
LEMMA PipelineTickInv ==
    ASSUME MPInv, NEW q \in Pipelines, PipelineTick(q)
    PROVE  MPInv'
<1>m. PICK m : m = Head(to_pipe[q])
  OBVIOUS
<1>x. PICK x : x = IF m = FetchCounter THEN Counter(q) ELSE CRecords(q)
  OBVIOUS
<1>1. ChannelTypes /\ RequestsInOrder /\ pipe[q] = "up"
      /\ to_pipe[q] # << >> /\ to_pipe' = [to_pipe EXCEPT ![q] = Tail(@)]
  BY DEF MPInv, PipelineTick
<1>2. /\ main' = main /\ early' = early /\ to_main' = to_main
      /\ tcp_counters' = tcp_counters /\ con_records' = con_records
      /\ senders' = senders /\ asked' = asked
  BY DEF PipelineTick, mainVars, rtVars
<1>3. /\ to_rt \in Seq(Messages) /\ pipe \in [Pipelines -> {"none", "setup", "up", "dead"}]
      /\ to_pipe \in [Pipelines -> Seq({FetchCounter, FetchCRecords})]
      /\ m \in {FetchCounter, FetchCRecords}
  BY <1>1, <1>m DEF ChannelTypes
<1>4. x \in Messages
  BY <1>x DEF Messages, Answers, Counter, CRecords
<1>5. \/ to_rt' = Append(to_rt, x) /\ pipe' = pipe
      \/ to_rt' = to_rt /\ pipe' = [pipe EXCEPT ![q] = "dead"]
  <2>1. m.type = "FetchCounter" <=> m = FetchCounter
    BY <1>3 DEF FetchCounter, FetchCRecords, Request
  <2>2. [pipe EXCEPT ![q] = "up"] = pipe
    BY <1>1, <1>3
  <2> QED
    BY <1>m, <1>x, <2>1, <2>2 DEF PipelineTick, PipelineSends, Counter, CRecords
<1>6. /\ to_pipe' \in [Pipelines -> Seq({FetchCounter, FetchCRecords})]
      /\ \A p \in Pipelines : p # q => to_pipe'[p] = to_pipe[p]
      /\ to_pipe'[q] = Tail(to_pipe[q])
  BY <1>1, <1>3
<1>7. ASSUME NEW a, NEW b
      PROVE  /\ to_rt' \in Seq(Messages)
             /\ In(to_rt', a) => In(to_rt, a) \/ a = x
             /\ In(to_rt, a) => In(to_rt', a)
             /\ Leads(to_rt, a, b) /\ (x # b \/ In(to_rt, a)) => Leads(to_rt', a, b)
             /\ NotBehind(to_rt, a, b) /\ x # a /\ a # b => NotBehind(to_rt', a, b)
             /\ pipe' = pipe => In(to_rt', x)
  <2>1. pipe' = pipe => to_rt' = Append(to_rt, x)
    BY <1>1, <1>3, <1>5
  <2>2. CASE to_rt' = Append(to_rt, x)
    BY <1>3, <1>4, <2>2, Sending
  <2>3. CASE to_rt' = to_rt /\ pipe' # pipe
    BY <1>3, <2>3
  <2> QED
    BY <1>5, <2>1, <2>2, <2>3
<1>8. ASSUME NEW a, NEW b
      PROVE  /\ In(to_pipe[q], a) <=> In(to_pipe'[q], a) \/ m = a
             /\ Leads(to_pipe[q], a, b) => m # b /\ (m # a => Leads(to_pipe'[q], a, b))
  BY <1>1, <1>3, <1>6, <1>m, Receiving
<1>9. DeadStaysDead /\ (pipe'[q] # "dead" => pipe' = pipe)
  BY <1>1, <1>3, <1>5 DEF DeadStaysDead
<1>10. ChannelTypes'
  BY <1>1, <1>2, <1>6, <1>7, <1>9 DEF ChannelTypes, DeadStaysDead
<1>11. x # FetchCounter /\ x # FetchCRecords
  BY <1>x, Kinds
<1>12. NoneForwarded => NoneForwarded'
  <2>1. NoneForwarded => m = FetchCounter
    BY <1>3, <1>8 DEF NoneForwarded
  <2>2. NoneForwarded => \A p : x # CRecords(p)
    BY <1>x, <2>1, Kinds
  <2>3. \A p \in Pipelines : In(to_pipe'[p], FetchCRecords) => In(to_pipe[p], FetchCRecords)
    BY <1>6, <1>8
  <2> QED
    BY <1>2, <1>7, <2>2, <2>3 DEF NoneForwarded
<1>13. RequestsInOrder'
  BY <1>1, <1>2, <1>7, <1>11, <1>12, Kinds DEF RequestsInOrder
<1>14. ASSUME NEW p \in asked PROVE CountersAhead(p)'
  <2>1. CountersAhead(p) /\ p \in Pipelines
    BY <1>1 DEF MPInv, ChannelTypes
  <2>2. /\ Arrived(p)' = Arrived(p) /\ InMain(p)' = InMain(p)
        /\ InRuntime(p) => InRuntime(p)'
    BY <1>2, <1>7 DEF Arrived, InMain, InRuntime
  <2>3. InMain(p) \/ Leads(to_rt', Counter(p), CRecords(p))
    <3>1. CASE x = CRecords(p)
      <4>1. p = q /\ m = FetchCRecords
        BY <1>3, <1>x, <3>1, Kinds
      <4>2. InRuntime(p)
        BY <1>1, <1>8, <2>1, <4>1 DEF CountersAhead
      <4> QED
        BY <1>7, <2>1, <4>2 DEF CountersAhead, InRuntime
    <3>2. CASE x # CRecords(p)
      BY <1>7, <2>1, <3>2 DEF CountersAhead
    <3> QED
      BY <3>1, <3>2
  <2>4. ASSUME pipe'[p] # "dead"
        PROVE  /\ InRuntime(p)' \/ Leads(to_pipe'[p], FetchCounter, FetchCRecords)
               /\ InRuntime(p)' \/ In(to_pipe'[p], FetchCounter)
    <3>1. pipe[p] # "dead"
      BY <1>9, <2>1, <2>4 DEF DeadStaysDead
    <3>2. CASE p # q
      BY <1>6, <2>1, <2>2, <3>1, <3>2 DEF CountersAhead
    <3>3. CASE p = q /\ m = FetchCounter
      BY <1>7, <1>9, <1>x, <2>4, <3>3 DEF InRuntime
    <3>4. CASE p = q /\ m = FetchCRecords
      BY <1>8, <2>1, <2>2, <3>1, <3>4 DEF CountersAhead
    <3> QED
      BY <1>3, <3>2, <3>3, <3>4
  <2> QED
    BY <1>2, <2>1, <2>2, <2>3, <2>4 DEF CountersAhead
<1>15. RecordsRequested => RecordsRequested'
  BY <1>2, <1>7 DEF RecordsRequested
<1>16. ASSUME NEW p \in asked, pipe'[p] # "dead", RecordsFollow(p) PROVE RecordsFollow(p)'
  <2>1. p \in Pipelines
    BY <1>1 DEF ChannelTypes
  <2>2. In(to_pipe[p], FetchCRecords) => In(to_pipe'[p], FetchCRecords) \/ In(to_rt', CRecords(p))
    <3>1. CASE p # q
      BY <1>6, <2>1, <3>1
    <3>2. CASE p = q /\ m = FetchCounter
      BY <1>8, <3>2, Kinds
    <3>3. CASE p = q /\ m = FetchCRecords
      BY <1>7, <1>9, <1>x, <1>16, <3>3, Kinds
    <3> QED
      BY <1>3, <3>1, <3>2, <3>3
  <2> QED
    BY <1>2, <1>7, <1>15, <1>16, <2>2 DEF RecordsFollow
<1>17. \A p \in asked : /\ pipe'[p] # "dead" => pipe[p] # "dead"
                        /\ Complete(p) => Complete(p)'
  BY <1>1, <1>2, <1>9 DEF DeadStaysDead, Complete, Arrived, ChannelTypes
<1>18. In(to_rt', FetchCounter) => In(to_rt, FetchCounter)
  BY <1>7, <1>11
<1>19. detailed_records =>
        /\ In(to_rt', FetchCounter) => RecordsRequested'
        /\ \A p \in asked' : pipe'[p] # "dead" => RecordsFollow(p)'
  BY <1>2, <1>15, <1>16, <1>17, <1>18 DEF MPInv
<1>20. \A p : Settled(p) => Settled(p)'
  BY <1>2, <1>17, <1>18 DEF Settled, FetchCounter, Request
<1>21. \A p \in asked' : CountersAhead(p)'
  BY <1>2, <1>14
<1> QED
  BY <1>2, <1>10, <1>13, <1>19, <1>20, <1>21 DEF MPInv

(* main asks for the counters, and then for the records.                   *)
LEMMA MainFetchesInv ==
    ASSUME MPInv, MainFetches
    PROVE  MPInv'
<1>1. /\ ChannelTypes /\ RequestsInOrder /\ main = "printed"
      /\ early' = early /\ pipe' = pipe /\ to_main' = to_main /\ to_pipe' = to_pipe
      /\ tcp_counters' = tcp_counters /\ con_records' = con_records
      /\ senders' = senders /\ asked' = asked
  BY DEF MPInv, MainFetches, rtVars
<1>2. CASE main' = "panicked" /\ to_rt' = to_rt
  <2>1. DeadStaysDead /\ RestStays /\ MainGoesOn
    BY <1>1, <1>2 DEF DeadStaysDead, RestStays, MainGoesOn, ChannelTypes
  <2> QED
    BY <1>2, <2>1, NothingSent, PlainStep
<1>3. CASE /\ to_rt' = Append(to_rt, FetchCounter)
           /\ main' = IF detailed_records THEN "records" ELSE "collect"
  <2>1. to_rt \in Seq(Messages) /\ FetchCounter \in Messages
    BY <1>1 DEF ChannelTypes, Messages, FetchCounter
  <2>2. ASSUME NEW a, NEW b
        PROVE  /\ to_rt' \in Seq(Messages)
               /\ In(to_rt', a) <=> In(to_rt, a) \/ FetchCounter = a
               /\ Leads(to_rt, a, b) /\ FetchCounter # b => Leads(to_rt', a, b)
               /\ NotBehind(to_rt, a, b) /\ ~In(to_rt, b) /\ a # b => NotBehind(to_rt', a, b)
    BY <1>3, <2>1, Sending
  <2>3. ChannelTypes'
    BY <1>1, <2>2 DEF ChannelTypes
  <2>4. NoneForwarded /\ ~In(to_rt, FetchCRecords)
    BY <1>1 DEF RequestsInOrder
  <2>5. NoneForwarded' /\ ~In(to_rt', FetchCRecords)
    BY <1>1, <2>2, <2>4, Kinds DEF NoneForwarded
  <2>6. RequestsInOrder'
    BY <1>1, <2>2, <2>4, <2>5, Kinds DEF RequestsInOrder
  <2>7. ASSUME NEW p \in asked PROVE CountersAhead(p)'
    <3>1. CountersAhead(p) /\ p \in Pipelines
      BY <1>1 DEF MPInv, ChannelTypes
    <3>2. Arrived(p)' = Arrived(p) /\ InMain(p)' = InMain(p) /\ InRuntime(p)' = InRuntime(p)
      BY <1>1, <2>2, Kinds DEF Arrived, InMain, InRuntime
    <3> QED
      BY <1>1, <2>2, <3>1, <3>2, Kinds DEF CountersAhead
  <2>8. detailed_records => RecordsRequested' /\ \A p \in asked : RecordsFollow(p)'
    BY <1>3 DEF RecordsRequested, RecordsFollow
  <2>9. main' \notin {"evaluate", "exiting", "done"}
    BY <1>3
  <2> QED
    BY <1>1, <2>3, <2>6, <2>7, <2>8, <2>9 DEF MPInv
<1>4. Request(Requested.printed) = FetchCounter
  BY DEF Requested, FetchCounter
<1> QED
  BY <1>2, <1>3, <1>4 DEF MainFetches, MainSends

(* The second request is sent behind the first one.                        *)
LEMMA MainFetchesRecordsInv ==
    ASSUME MPInv, MainFetchesRecords
    PROVE  MPInv'
<1>1. /\ ChannelTypes /\ RequestsInOrder /\ main = "records"
      /\ early' = early /\ pipe' = pipe /\ to_main' = to_main /\ to_pipe' = to_pipe
      /\ tcp_counters' = tcp_counters /\ con_records' = con_records
      /\ senders' = senders /\ asked' = asked
  BY DEF MPInv, MainFetchesRecords, rtVars
<1>2. CASE main' = "panicked" /\ to_rt' = to_rt
  <2>1. DeadStaysDead /\ RestStays /\ MainGoesOn
    BY <1>1, <1>2 DEF DeadStaysDead, RestStays, MainGoesOn, ChannelTypes
  <2> QED
    BY <1>2, <2>1, NothingSent, PlainStep
<1>3. CASE to_rt' = Append(to_rt, FetchCRecords) /\ main' = "collect"
  <2>1. to_rt \in Seq(Messages) /\ FetchCRecords \in Messages
    BY <1>1 DEF ChannelTypes, Messages, FetchCRecords
  <2>2. ASSUME NEW a, NEW b
        PROVE  /\ to_rt' \in Seq(Messages)
               /\ In(to_rt', a) <=> In(to_rt, a) \/ FetchCRecords = a
               /\ Leads(to_rt, a, b) /\ FetchCRecords # b => Leads(to_rt', a, b)
               /\ NotBehind(to_rt, a, b) /\ FetchCRecords # a /\ a # b => NotBehind(to_rt', a, b)
    BY <1>3, <2>1, Sending
  <2>3. ChannelTypes'
    BY <1>1, <2>2 DEF ChannelTypes
  <2>4. NoneForwarded => NoneForwarded'
    BY <1>1, <2>2, Kinds DEF NoneForwarded
  <2>5. RequestsInOrder'
    BY <1>1, <1>3, <2>2, <2>4, Kinds DEF RequestsInOrder
  <2>6. ASSUME NEW p \in asked PROVE CountersAhead(p)'
    <3>1. CountersAhead(p) /\ p \in Pipelines
      BY <1>1 DEF MPInv, ChannelTypes
    <3>2. Arrived(p)' = Arrived(p) /\ InMain(p)' = InMain(p) /\ InRuntime(p)' = InRuntime(p)
      BY <1>1, <2>2, Kinds DEF Arrived, InMain, InRuntime
    <3> QED
      BY <1>1, <2>2, <3>1, <3>2, Kinds DEF CountersAhead
  <2>7. RecordsRequested' /\ \A p \in asked : RecordsFollow(p)'
    BY <2>2 DEF RecordsRequested, RecordsFollow
  <2>8. main' \notin {"evaluate", "exiting", "done"}
    BY <1>3
  <2> QED
    BY <1>1, <2>3, <2>5, <2>6, <2>7, <2>8 DEF MPInv
<1>4. Request(Requested.records) = FetchCRecords
  BY DEF Requested, FetchCRecords
<1> QED
  BY <1>2, <1>3, <1>4 DEF MainFetchesRecords, MainSends

(* Every step of every thread keeps the invariant.                         *)
LEMMA MPNextInv ==
    ASSUME MPInv, [MPNext]_mpVars
    PROVE  MPInv'
<1>1. CASE Main \/ CtrlC
  BY <1>1, MainPlainInv, MainFetchesInv, MainFetchesRecordsInv, MainReceivesInv, MainGivesUpInv
     DEF Main
<1>2. ASSUME RuntimeForwards PROVE MPInv'
  <2>1. Head(to_rt) \in Messages
    BY <1>2 DEF MPInv, ChannelTypes, RuntimeForwards, RuntimeTakes
  <2>2. Head(to_rt) = FetchCounter \/ Head(to_rt) = FetchCRecords
    BY <1>2, <2>1, Types DEF RuntimeForwards, RuntimeTakes
  <2> QED
    BY <1>2, <2>2, ForwardsCounter, ForwardsRecords
<1>3. CASE Runtime
  BY <1>2, <1>3, RuntimeNotesInv, RuntimeAnswersInv DEF Runtime
<1>4. CASE \E p \in Pipelines :
            PipelineSetup(p) \/ PipelineTasks(p) \/ PipelineTick(p) \/ PipelineDies(p)
  BY <1>4, PipelinePlainInv, PipelineTickInv
<1>5. CASE UNCHANGED mpVars
  <2>1. to_rt' = to_rt /\ MainGoesOn
    BY <1>5 DEF mpVars, mainVars, MainGoesOn
  <2>2. DeadStaysDead /\ RestStays
    BY <1>5 DEF mpVars, mainVars, rtVars, DeadStaysDead, RestStays, MPInv, ChannelTypes
  <2> QED
    BY <2>1, <2>2, NothingSent, PlainStep
<1> QED
  BY <1>1, <1>3, <1>4, <1>5 DEF MPNext

-----------------------------------------------------------------------------
(* The counters of every pipeline that was asked for them reach main       *)
(* before its records: neither main's two requests nor the answers to them *)
(* overtake each other, for any number of pipelines, whichever of them     *)
(* stop.                                                                   *)
THEOREM CountersComeFirst == MPSpec => []CountersBeforeRecords
<1>1. MPInv => CountersBeforeRecords
  BY DEF MPInv, CountersAhead, Arrived, CountersBeforeRecords
<1>2. MPInv /\ [MPNext]_mpVars => MPInv'
  BY MPNextInv
<1> QED
  BY <1>1, <1>2, MPInitInv, PTL DEF MPSpec

(* When main has stopped waiting, it evaluates the counters and records of *)
(* every pipeline that it asked, that still runs and that had nothing      *)
(* under way at that moment: that main gives up on a late pipeline costs   *)
(* it no answer of another one, and the runtime thread and the channels    *)
(* lose nothing.                                                           *)
THEOREM NoAnswerIsLost == MPSpec => []AnswersComplete
<1>1. MPInv => AnswersComplete
  BY DEF MPInv, Complete, Arrived, AnswersComplete, Settled, ChannelTypes
<1>2. MPInv /\ [MPNext]_mpVars => MPInv'
  BY MPNextInv
<1> QED
  BY <1>1, <1>2, MPInitInv, PTL DEF MPSpec
=============================================================================
