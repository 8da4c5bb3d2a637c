--------------------------- MODULE MCPcapConsumer ---------------------------
(* Instances of PcapConsumer for TLC. *)
EXTENDS PcapConsumer

TwoSeconds == 0 .. 1
=============================================================================
