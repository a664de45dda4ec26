---------------------------- MODULE MainProgram ----------------------------
(***************************************************************************)
(* The threads of the program and their messages: main (src/src/bin.rs),   *)
(* the runtime thread, and one pipeline for each core and network port     *)
(* (set-up and timer packets of src/src/nftcp.rs).                         *)
(*                                                                         *)
(* main and the pipelines send to the runtime thread, which forwards the   *)
(* requests of main to the pipelines it knows and their answers to main.   *)
(* A pipeline looks for one request in each of its timer packets.  When    *)
(* the program is interrupted, main collects counters and connection       *)
(* records until no answer came for a second.                              *)
(*                                                                         *)
(* The runtime thread belongs to the crate netfcts and is modelled from    *)
(* the messages it is sent and the answers main waits for; a pipeline may  *)
(* stop at any time, as its assertions can fail.                           *)
(***************************************************************************)
EXTENDS Naturals, Sequences

CONSTANTS
    Pipelines,          \* pipelines that are set up
    detailed_records    \* configuration.engine.detailed_records

ASSUME RecordsAssumption == detailed_records \in BOOLEAN

VARIABLES
    main,           \* where main is
    running,        \* the flag that the handler of ctrl-c clears
    pipe,           \* pipeline -> "none", "setup", "up" or "dead"
    rt,             \* the runtime thread: "up", "ended" or "dead"
    to_rt,          \* channel of main and of the pipelines to the runtime
    to_pipe,        \* pipeline -> channel of the runtime to it
    to_main,        \* channel of the runtime to main (reply_mrx)
    senders,        \* pipelines whose channel the runtime knows
    ticking,        \* pipelines whose tick generator the runtime knows
    started,        \* the runtime was told to start the engine
    tcp_counters,   \* pipelines whose counters main has
    con_records,    \* pipelines whose records main has
    asked,          \* history: pipelines asked for their counters
    early           \* history: pipelines with something under way when main gave up

mainVars == <<main, running, tcp_counters, con_records, early>>

rtVars == <<rt, senders, ticking, started, asked>>

mpVars == <<mainVars, rtVars, pipe, to_rt, to_pipe, to_main>>

Message(type, p) == [type |-> type, from |-> p]

Request(type) == [type |-> type]

(* process::exit, or a panic of the main thread: no thread runs any more.  *)
Over == main \in {"done", "panicked"}

(***************************************************************************)
(* Pipelines                                                               *)
(***************************************************************************)

(* tx.send(..).unwrap() of a pipeline, which then goes on to next.         *)
PipelineSends(p, type, next) ==
    IF rt = "up"
    THEN to_rt' = Append(to_rt, Message(type, p)) /\ pipe' = [pipe EXCEPT ![p] = next]
    ELSE pipe' = [pipe EXCEPT ![p] = "dead"] /\ UNCHANGED to_rt

(* setup_delayed_proxy sends the reverse channel first.                    *)
PipelineSetup(p) ==
    /\ ~Over
    /\ pipe[p] = "none"
    /\ PipelineSends(p, "Channel", "setup")
    /\ UNCHANGED <<mainVars, rtVars, to_pipe, to_main>>

(* Its tasks follow; of these only the tick generator matters here.        *)
PipelineTasks(p) ==
    /\ ~Over
    /\ pipe[p] = "setup"
    /\ PipelineSends(p, "Task", "up")
    /\ UNCHANGED <<mainVars, rtVars, to_pipe, to_main>>

(* A timer packet with a request waiting; the records are always there, as *)
(* fetch_c_records first releases every reference to the store.            *)
PipelineTick(p) ==
    /\ ~Over
    /\ pipe[p] = "up" /\ started /\ p \in ticking
    /\ to_pipe[p] # << >>
    /\ LET request == Head(to_pipe[p]).type
       IN  PipelineSends(p, IF request = "FetchCounter" THEN "Counter" ELSE "CRecords", "up")
    /\ to_pipe' = [to_pipe EXCEPT ![p] = Tail(@)]
    /\ UNCHANGED <<mainVars, rtVars, to_main>>

PipelineDies(p) ==
    /\ ~Over
    /\ pipe[p] \in {"setup", "up"}
    /\ pipe' = [pipe EXCEPT ![p] = "dead"]
    /\ UNCHANGED <<mainVars, rtVars, to_rt, to_pipe, to_main>>

(***************************************************************************)
(* The runtime thread (external)                                           *)
(***************************************************************************)
RuntimeTakes(types) ==
    /\ ~Over
    /\ rt = "up"
    /\ to_rt # << >>
    /\ Head(to_rt).type \in types
    /\ to_rt' = Tail(to_rt)
    /\ UNCHANGED <<mainVars, pipe>>

(* Registration, start, and end.                                           *)
RuntimeNotes ==
    /\ RuntimeTakes({"Channel", "Task", "StartEngine", "PrintPerformance", "Exit"})
    /\ LET m == Head(to_rt)
       IN  /\ senders' = IF m.type = "Channel" THEN senders \cup {m.from} ELSE senders
           /\ ticking' = IF m.type = "Task" THEN ticking \cup {m.from} ELSE ticking
           /\ started' = (started \/ m.type = "StartEngine")
           /\ rt' = IF m.type = "Exit" THEN "ended" ELSE rt
    /\ UNCHANGED <<asked, to_pipe, to_main>>

(* A request goes to all known pipelines; the channel to a pipeline that   *)
(* stopped is closed, which the runtime may or may not survive.            *)
RuntimeForwards ==
    /\ RuntimeTakes({"FetchCounter", "FetchCRecords"})
    /\ to_pipe' = [p \in Pipelines |-> IF p \in senders THEN Append(to_pipe[p], Head(to_rt))
                                       ELSE to_pipe[p]]
    /\ asked' = IF Head(to_rt).type = "FetchCounter" THEN senders ELSE asked
    /\ \/ rt' = rt
       \/ rt' = "dead" /\ \E p \in senders : pipe[p] = "dead"
    /\ UNCHANGED <<senders, ticking, started, to_main>>

RuntimeAnswers ==
    /\ RuntimeTakes({"Counter", "CRecords"})
    /\ to_main' = Append(to_main, Head(to_rt))
    /\ UNCHANGED <<rtVars, to_pipe>>

(***************************************************************************)
(* main                                                                    *)
(***************************************************************************)

(* mtx.send(..).unwrap() of main, which then goes on to next.              *)
MainSends(type, next) ==
    IF rt = "up"
    THEN to_rt' = Append(to_rt, Request(type)) /\ main' = next
    ELSE main' = "panicked" /\ UNCHANGED to_rt

(* The engine is started, then main polls the flag.                        *)
MainStart ==
    /\ main = "start"
    /\ MainSends("StartEngine", "loop")
    /\ UNCHANGED <<rtVars, running, tcp_counters, con_records, early, pipe, to_pipe, to_main>>

CtrlC ==
    /\ ~Over
    /\ running
    /\ running' = FALSE
    /\ UNCHANGED <<rtVars, main, tcp_counters, con_records, early, pipe, to_rt, to_pipe, to_main>>

MainLeavesLoop ==
    /\ main = "loop"
    /\ ~running
    /\ MainSends("PrintPerformance", "printed")
    /\ UNCHANGED <<rtVars, running, tcp_counters, con_records, early, pipe, to_pipe, to_main>>

RequestedMutant == [printed |-> "FetchCRecords", records |-> "FetchCounter"]

(* What main asks for after the loop, and then if it wants the records.    *)
Requested == [printed |-> "FetchCounter", records |-> "FetchCRecords"]

MainFetches ==
    /\ main = "printed"
    /\ MainSends(Requested.printed, IF detailed_records THEN "records" ELSE "collect")
    /\ UNCHANGED <<rtVars, running, tcp_counters, con_records, early, pipe, to_pipe, to_main>>

MainFetchesRecords ==
    /\ main = "records"
    /\ MainSends(Requested.records, "collect")
    /\ UNCHANGED <<rtVars, running, tcp_counters, con_records, early, pipe, to_pipe, to_main>>

AfterAnswerMutant(m) == IF m.type = "CRecords" THEN "evaluate" ELSE "collect"

(* The loop goes on after every answer.                                    *)
AfterAnswer(m) == "collect"

MainReceives ==
    /\ main = "collect"
    /\ to_main # << >>
    /\ LET m == Head(to_main)
       IN  /\ tcp_counters' = IF m.type = "Counter" THEN tcp_counters \cup {m.from} ELSE tcp_counters
           /\ con_records' = IF m.type = "CRecords" THEN con_records \cup {m.from} ELSE con_records
           /\ main' = AfterAnswer(m)
    /\ to_main' = Tail(to_main)
    /\ UNCHANGED <<rtVars, running, early, pipe, to_rt, to_pipe>>

(* A request to p or an answer of p is still on its way.                   *)
UnderWay(p) ==
    \/ to_pipe[p] # << >>
    \/ \E i \in DOMAIN to_rt :
        \/ to_rt[i].type \in {"FetchCounter", "FetchCRecords"}
        \/ to_rt[i].type \in {"Counter", "CRecords"} /\ to_rt[i].from = p

GivesUpMutant == to_main = << >> /\ Pipelines \subseteq tcp_counters

(* recv_timeout: a second without an answer, or the channel is closed.     *)
GivesUp == to_main = << >>

MainGivesUp ==
    /\ main = "collect"
    /\ GivesUp
    /\ main' = "evaluate"
    /\ early' = {p \in Pipelines : UnderWay(p)}
    /\ UNCHANGED <<rtVars, running, tcp_counters, con_records, pipe, to_rt, to_pipe, to_main>>

(* write_and_evaluate_records, then Exit and some time for the threads.    *)
MainExits ==
    /\ main = "evaluate"
    /\ MainSends("Exit", "exiting")
    /\ UNCHANGED <<rtVars, running, tcp_counters, con_records, early, pipe, to_pipe, to_main>>

MainDone ==
    /\ main = "exiting"
    /\ main' = "done"
    /\ UNCHANGED <<rtVars, running, tcp_counters, con_records, early, pipe, to_rt, to_pipe, to_main>>

-----------------------------------------------------------------------------
Main == \/ MainStart \/ MainLeavesLoop \/ MainFetches \/ MainFetchesRecords
        \/ MainReceives \/ MainGivesUp
        \/ MainExits \/ MainDone

Runtime == RuntimeNotes \/ RuntimeForwards \/ RuntimeAnswers

MPInit ==
    /\ main = "start"
    /\ running = TRUE
    /\ pipe = [p \in Pipelines |-> "none"]
    /\ rt = "up"
    /\ to_rt = << >>
    /\ to_pipe = [p \in Pipelines |-> << >>]
    /\ to_main = << >>
    /\ senders = {} /\ ticking = {} /\ started = FALSE
    /\ tcp_counters = {} /\ con_records = {}
    /\ asked = {} /\ early = {}

MPNext ==
    \/ Main \/ CtrlC
    \/ Runtime
    \/ \E p \in Pipelines :
        PipelineSetup(p) \/ PipelineTasks(p) \/ PipelineTick(p) \/ PipelineDies(p)

(* Threads that do not wait run on.                                        *)
MPFairness == WF_mpVars(Main) /\ WF_mpVars(Runtime)

MPSpec == MPInit /\ [][MPNext]_mpVars /\ MPFairness

(***************************************************************************)
(* Properties                                                              *)
(***************************************************************************)

(* Ctrl-c ends the program, even if pipelines or the runtime thread have   *)
(* stopped, answer late or never: main waits for nobody for ever.          *)
CtrlCEndsProgram == ~running ~> Over

(* The counters of a pipeline are printed before its records are counted:  *)
(* requests and answers do not overtake each other on their way through    *)
(* the runtime thread.  A pipeline whose channel gets to the runtime       *)
(* between the two requests is asked for its records only.                 *)
CountersBeforeRecords == con_records \cap asked \subseteq tcp_counters

(* What main evaluates lacks only what was under way when it gave up: it   *)
(* has the counters and the records of every pipeline that it asked and    *)
(* that still runs, unless a request or an answer of this very pipeline    *)
(* was late.  A slow pipeline does not cost another one its answers.       *)
AnswersComplete ==
    main \in {"exiting", "done"} =>
        \A p \in asked \ early : pipe[p] # "dead" =>
            /\ p \in tcp_counters
            /\ detailed_records => p \in con_records
=============================================================================
