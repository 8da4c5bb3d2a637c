------------------------------ MODULE MCDDGen ------------------------------
(* Instances of DDGen, and of its refinement of TrafficPool, for TLC. *)
EXTENDS DDGenRefinement

(* Two --drlink options: each gives two ports of one address. *)
FourDestinations ==
    << [ip |-> 7, port |-> 4], [ip |-> 7, port |-> 5],
       [ip |-> 6, port |-> 4], [ip |-> 6, port |-> 5] >>

NoDestinations == << >>

(* One leg's rtp values: both counters are about to wrap. *)
OneRtp == {[timestamp |-> UintRange - 1, ssrc |-> 0, seq |-> ShortRange - 1]}
=============================================================================
