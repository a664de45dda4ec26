-------------------------- MODULE MCPacketBuffers --------------------------
(***************************************************************************)
(* The handler with its packet buffers on a small instance.                *)
(***************************************************************************)
EXTENDS PacketBuffers, MCDelayedProxy

BufferView == <<View, pool, pdu_batch>>
=============================================================================
