--------------------------- MODULE MCPacketQueue ---------------------------
(* Small instances of PacketQueue. *)
EXTENDS PacketQueue
=============================================================================
