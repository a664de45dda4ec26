------------------------------ MODULE TcpState ------------------------------
(***************************************************************************)
(* TCP states, sequence numbers and segments, as far as the proxy looks at *)
(* them.                                                                   *)
(*                                                                         *)
(* The states are those of the enumeration TcpState of the crate netfcts,  *)
(* which is not in this repository.  nftcp.rs compares states with < and   *)
(* >=, so they are numbers here; the order is the one those comparisons    *)
(* rely on.                                                                *)
(***************************************************************************)
EXTENDS Integers, Sequences

CONSTANTS
    SeqMod,     \* number of sequence numbers, 2^32 in the code
    Bytes       \* bytes of payloads

ASSUME SeqAssumption == SeqMod \in Nat \ {0, 1}

Listen      == 0
SynReceived == 1
SynSent     == 2
Established == 3
CloseWait   == 4
LastAck     == 5
FinWait1    == 6
Closing     == 7
FinWait2    == 8
Closed      == 9

States == Listen..Closed

Seqns == 0..(SeqMod - 1)

wrapping_add(a, b) == (a + b) % SeqMod

WrappingSubMutant(a, b) == a - b

wrapping_sub(a, b) == (a - b) % SeqMod

(* The fields of a TCP segment that the packet handler reads or writes.    *)
Segments == [syn : BOOLEAN, ack : BOOLEAN, fin : BOOLEAN, rst : BOOLEAN,
             seq : Seqns, ackn : Seqns, data : Seq(Bytes)]

(* make_reply_packet(p, 1) of netfcts: the addresses are swapped and the   *)
(* segment acknowledges the one it is made from; flags and payload stay.   *)
make_reply_packet(seg) ==
    [seg EXCEPT !.ack = TRUE, !.ackn = wrapping_add(seg.seq, 1)]
=============================================================================
