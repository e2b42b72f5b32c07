--------------------------- MODULE MCPacketQueue ---------------------------
(* Instances of PacketQueue for TLC. *)
EXTENDS PacketQueue

FiveAddrs == {"a", "b", "c", "d", "e"}
=============================================================================
