------------------------------ MODULE PortPool ------------------------------
(***************************************************************************)
(* What the connection manager promises its callers, without queues, maps  *)
(* and timers: a pool of ports, each of them owned by at most one client,  *)
(* and each client owning at most one of them.                             *)
(***************************************************************************)
CONSTANTS Ports, Socks, NoSock

VARIABLE owner      \* port -> client socket that owns it, or NoSock

PoolInit == owner = [p \in Ports |-> NoSock]

(* A client that owns no port gets one that nobody owns.                   *)
Grant(s, p) ==
    /\ \A q \in Ports : owner[q] # s
    /\ owner[p] = NoSock
    /\ owner' = [owner EXCEPT ![p] = s]

(* One owner gives its port back, or loses it by a timeout.                *)
Return(p) ==
    /\ owner[p] # NoSock
    /\ owner' = [owner EXCEPT ![p] = NoSock]

(* All owners lose their ports at once, when the records are fetched.      *)
RecallAll == owner' = [p \in Ports |-> NoSock]

PoolNext ==
    \/ \E p \in Ports : Return(p) \/ \E s \in Socks : Grant(s, p)
    \/ RecallAll

PoolSpec == PoolInit /\ [][PoolNext]_owner
=============================================================================
