-------------------------- MODULE MCPacketDispatch --------------------------
(* A small instance of PacketDispatch: one connection, the tick, and one     *)
(* thread that makes a packet of its own and posts it or sends it.           *)
EXTENDS PacketDispatch

CONSTANTS main, sender

PostsOfSender == [t \in {sender} |-> {StreamPackets + 2}]
=============================================================================
