----------------------------- MODULE MCProxyNet -----------------------------
(***************************************************************************)
(* ProxyNet on small instances.                                            *)
(***************************************************************************)
EXTENDS ProxyNet

(* The callback of the main program: the server is named in the first      *)
(* payload, which is left as it is.                                        *)
f_by_payload(d) == IF d = << >> THEN {} ELSE [server : Servers, data : {d}]

(* A callback that adds a byte to the payload or removes one.              *)
Rewritten(d) ==
    [server : Servers, data : {<<"h">> \o d} \cup (IF d = << >> THEN {} ELSE {Tail(d)})]

(* A callback that overwrites the first payload.                           *)
Replaced(d) == [server : Servers, data : {[i \in DOMAIN d |-> "h"]}]

(* The callback of the main program for later payloads does nothing.       *)
Unprocessed(d) == d

Two == <<"a", "b">>

One == <<"x">>

(* out never influences a step.                                             *)
View == <<free_ports, sock2port, con, wheel, hand, lag, due, drain, panicked, age, resched,
          tcp, netVars>>
=============================================================================
