----------------------------- MODULE MCDelivery -----------------------------
(* An instance of Delivery for TLC. *)
EXTENDS Delivery

NotAnAddress == -1

(* A mirror call for a destination that may have a socket, and one that does not. *)
TwoPackets == {[ip |-> 1, port |-> 4], [ip |-> 3, port |-> 4]}
=============================================================================
