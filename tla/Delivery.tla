------------------------------ MODULE Delivery ------------------------------
(***************************************************************************)
(* From the command line to the line: main parses its options              *)
(* (CommandLine), has a consumer made of them (ConsumerFactory.cpp), and   *)
(* the calls give it packets for the destinations of those options         *)
(* (callleg.cpp).  Of the two consumers only the SocketConsumer is followed*)
(* here; PcapConsumer has a module of its own.                             *)
(***************************************************************************)
EXTENDS CommandLine, SocketConsumer

CONSTANT
    MirrorDestinations   \* where the legs of mirror calls go

ASSUME DeliveryAssumption ==
    /\ Addresses \cup {FallbackIp} \subseteq Nat
    /\ MirrorDestinations \subseteq IpPort

deliveryVars == << optionVars, vars >>

DeliveryInit == ParseInit /\ Init

Parse == ParseNext /\ UNCHANGED vars

CreateConsumer ==
    /\ walk = "parsed"
    /\ options.output = "Socket"
    /\ Construct(options.dstIpPortVector)
    /\ UNCHANGED optionVars

(* Where the legs of the calls go, of which there are as many as destinations *)
(* for a drlink call.                                                         *)
LegDestinations ==
    IF options.traffic = "DrLink" THEN ToSet(options.drlinkIpPortVector) ELSE MirrorDestinations

(* Only then does main ever create a call (ddgen.cpp:72). *)
CreatesCalls == options.shouldStart /\ options.numberOfCalls > 0

StepLeg ==
    /\ CreatesCalls
    /\ \E packet \in LegDestinations : Consume(packet)
    /\ UNCHANGED optionVars

Use == Opening /\ UNCHANGED optionVars

DestroyConsumer == Destroy /\ UNCHANGED optionVars

Over ==
    /\ walk = "parsed" => options.output = "Pcap" \/ pc \in {"crashed", "destroyed"}
    /\ walk # "parsing"
    /\ UNCHANGED deliveryVars

DeliveryNext == Parse \/ CreateConsumer \/ Use \/ StepLeg \/ DestroyConsumer \/ Over

DeliverySpec == DeliveryInit /\ [][DeliveryNext]_deliveryVars

-----------------------------------------------------------------------------
(* Whatever options came before, between and after the --drlinks, unless the  *)
(* constructor was cut short each packet of a drlink leg is sent to the leg's *)
(* own destination, over a socket of the consumer, and Consume returns TRUE   *)
(* exactly if the kernel accepted it; only where a socket did not get its     *)
(* option may what stands in for the socket be read past the end of the       *)
(* vector (consumer.cpp:49-54 and 68-116).                                    *)
LegsDelivered ==
    options.traffic = "DrLink" /\ last.packet # Nowhere /\ ~cutShort =>
        /\ last.to = last.packet
        /\ last.by \in Descriptors \/ (optionRefused /\ last.by = Stray)
        /\ last.success <=> last.accepted
=============================================================================
