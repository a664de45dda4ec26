--------------------------- MODULE MCDelayedProxy ---------------------------
(***************************************************************************)
(* DelayedProxy on small instances.                                        *)
(***************************************************************************)
EXTENDS DelayedProxy, TLC

CONSTANTS
    ClientSeqs, \* sequence numbers of client segments
    ServerSeqs, \* sequence numbers of server segments
    Ackns       \* acknowledgement numbers of all segments

(* A segment with the given flags.                                         *)
Seg(flags, q, a, d) ==
    [syn |-> "S" \in flags, ack |-> "A" \in flags, fin |-> "F" \in flags,
     rst |-> "R" \in flags, seq |-> q, ackn |-> a, data |-> d]

(* Every combination of flags that leads to a branch of its own.           *)
Flags == {{"S"}, {"A"}, {"F"}, {"F", "A"}, {"R"}, {"S", "A"}}

AllClientSegs == {Seg(f, q, a, << >>) : f \in Flags, q \in ClientSeqs, a \in Ackns}

AllServerSegs == {Seg(f, q, a, << >>) : f \in Flags, q \in ServerSeqs, a \in Ackns}

(* The segments of a client with initial sequence number 1 that sends one  *)
(* byte and then a FIN, with or without a last byte, to a proxy that chose *)
(* 8; a RST; and the SYN of its next connection from the same socket.      *)
PlainClientSegs ==
    {Seg({"S"}, 1, 0, << >>), Seg({"A"}, 2, 9, << >>), Seg({"A"}, 2, 9, <<"b">>),
     Seg({"F", "A"}, 3, 9, << >>), Seg({"F", "A"}, 3, 9, <<"b">>), Seg({"R"}, 4, 0, << >>),
     Seg({"S"}, 11, 0, << >>)}

(* The segments of a server with initial sequence number 4 that accepts    *)
(* the connection, closes it on its own after the first byte, and          *)
(* acknowledges the client's FIN.                                          *)
PlainServerSegs ==
    {Seg({"S", "A"}, 4, 2, << >>), Seg({"F", "A"}, 5, 3, << >>), Seg({"A"}, 6, 4, << >>)}

(* A callback that may select any server and leaves the payload as it is.  *)
AnyServer(d) == [server : Servers, data : {d}]

(* The callback of the main program for later payloads does nothing.       *)
Unprocessed(d) == d

(* No definition and no property tells one client socket from another.   *)
SockSymmetry == Permutations(Socks)

(* out never influences a step; of the states in a record only the last    *)
(* one is ever looked at.                                                  *)
TcpView == [p \in Ports |-> [tcp[p] EXCEPT !.s_states = last_state(tcp[p])]]

View == <<free_ports, sock2port, con, wheel, hand, lag, due, drain, panicked, age, resched,
          TcpView, seen>>
=============================================================================
