--------------------------- MODULE MCPacketManager ---------------------------
(* Instances of PacketManager for TLC. *)
EXTENDS PacketManager
=============================================================================
