--------------------------- MODULE SocketConsumer ---------------------------
(***************************************************************************)
(* SocketConsumer (src/consumer.cpp): a raw socket for each destination,   *)
(* opened by the constructor, closed by the destructor, and looked up by   *)
(* the destination of each packet in between.  Every call into the kernel  *)
(* may fail.                                                               *)
(*                                                                         *)
(* The sockets are raw and not connected: sendto names the receiver, so    *)
(* any of them can carry a packet to any destination.  What becomes of a   *)
(* packet that the kernel has accepted is not followed.                    *)
(***************************************************************************)
EXTENDS Integers, Sequences, SequencesExt

CONSTANTS
    Descriptors,  \* the file descriptors the kernel has to give
    Stray,        \* what is read for a descriptor past the end of the sockets
    Nowhere       \* the receiver, and socket, of what was not handed to sendto

IpPort == [ip : Nat, port : Nat]

ASSUME SocketConsumerAssumption ==
    /\ Descriptors \subseteq Nat
    /\ Stray \notin Descriptors
    /\ Nowhere \notin IpPort

VARIABLES
    pc,            \* "none", "opening", "serving", "crashed" or "destroyed"
    destinations,  \* the parameter dstIpPort of the constructor
    addresses,     \* m_dst_sockaddr_vector
    sockets,       \* m_dst_sock_vector
    open,          \* the descriptors the kernel has open for the process
    cutShort,      \* history: the constructor returned at a socket it did not get
    optionRefused, \* history: it closed a socket that did not get its option
    last           \* history: the last Consume that returned

vars == << pc, destinations, addresses, sockets, open, cutShort, optionRefused, last >>

(* What Consume was given, the receiver it named to sendto and the descriptor *)
(* it used, whether the kernel accepted the packet, and what Consume returned.*)
Outcome == [packet   : IpPort \cup {Nowhere},
            to       : IpPort \cup {Nowhere},
            by       : Descriptors \cup {Stray, Nowhere},
            accepted : BOOLEAN,
            success  : BOOLEAN]

NotSent(packet) ==
    [packet |-> packet, to |-> Nowhere, by |-> Nowhere, accepted |-> FALSE, success |-> FALSE]

Init ==
    /\ pc = "none"
    /\ destinations = << >>
    /\ addresses = << >>
    /\ sockets = << >>
    /\ open = {}
    /\ cutShort = FALSE
    /\ optionRefused = FALSE
    /\ last = NotSent(Nowhere)

-----------------------------------------------------------------------------
(* The constructor: one pass of its loop, with the outcomes of the two calls *)

Construct(dstIpPort) ==
    /\ pc = "none"
    /\ pc' = "opening"
    /\ destinations' = dstIpPort
    /\ UNCHANGED << addresses, sockets, open, cutShort, optionRefused, last >>

(* The address is stored before its socket is opened. *)
NextDestination ==
    /\ pc = "opening"
    /\ Len(addresses) < Len(destinations)
    /\ addresses' = Append(addresses, destinations[Len(addresses) + 1])
    /\ UNCHANGED << destinations, last >>

(* The kernel gives the lowest descriptor that is free. *)
OpenSocket ==
    /\ NextDestination
    /\ \E socket \in Descriptors \ open :
          /\ \A other \in Descriptors \ open : socket <= other
          /\ open' = open \cup {socket}
          /\ sockets' = Append(sockets, socket)
    /\ UNCHANGED << pc, cutShort, optionRefused >>

(* socket() fails: the constructor returns, whatever destinations are left. *)
SocketFails ==
    /\ NextDestination
    /\ cutShort' = TRUE
    /\ pc' = "serving"
    /\ UNCHANGED << sockets, open, optionRefused >>

(* Seeded fault: the socket without its option is not closed. *)
OptionFailsLeaking ==
    /\ NextDestination
    /\ \E socket \in Descriptors \ open : open' = open \cup {socket}
    /\ optionRefused' = TRUE
    /\ UNCHANGED << pc, sockets, cutShort >>

(* setsockopt() fails: the socket is closed at once and the loop goes on. *)
OptionFails ==
    /\ NextDestination
    /\ Descriptors \ open # {}
    /\ optionRefused' = TRUE
    /\ UNCHANGED << pc, sockets, open, cutShort >>

AllOpened ==
    /\ pc = "opening"
    /\ Len(addresses) = Len(destinations)
    /\ pc' = "serving"
    /\ UNCHANGED << destinations, addresses, sockets, open, cutShort, optionRefused, last >>

-----------------------------------------------------------------------------
(* Consume *)

(* Seeded fault: the port is not compared. *)
MatchesIp(address, packet) == address.ip = packet.ip

Matches(address, packet) == address.ip = packet.ip /\ address.port = packet.port

(* The lookup loop: the index of the first match, 0 if there is none. *)
FirstMatch(packet) == SelectInSeq(addresses, LAMBDA address : Matches(address, packet))

(* Seeded fault: what sendto returned is not looked at. *)
AlwaysReported(accepted) == TRUE

(* false if sendto returned -1 *)
Reported(accepted) == accepted

(* The kernel accepts the packet or refuses it. *)
SendTo(packet, address, socket) ==
    /\ \E accepted \in BOOLEAN :
          last' = [packet |-> packet, to |-> address, by |-> socket,
                   accepted |-> accepted, success |-> Reported(accepted)]
    /\ UNCHANGED << pc, destinations, addresses, sockets, open, cutShort, optionRefused >>

ConsumeMatched(packet) ==
    /\ pc = "serving"
    /\ FirstMatch(packet) \in 1 .. Len(sockets)
    /\ SendTo(packet, addresses[FirstMatch(packet)], sockets[FirstMatch(packet)])

(* The iterator over the sockets is past their end: undefined behaviour.  The *)
(* storage of an empty vector is null, so the read crashes; else it yields    *)
(* some number, and sendto fails or finds a socket that happens to have it.   *)
ConsumePastEnd(packet) ==
    /\ pc = "serving"
    /\ FirstMatch(packet) > Len(sockets)
    /\ \/ /\ sockets # << >>
          /\ SendTo(packet, addresses[FirstMatch(packet)], Stray)
       \/ /\ sockets = << >>
          /\ pc' = "crashed"
          /\ open' = {}
          /\ UNCHANGED << destinations, addresses, sockets, cutShort, optionRefused, last >>

(* No match: the first socket and the first address take the packet. *)
ConsumeByFirst(packet) ==
    /\ pc = "serving"
    /\ addresses # << >> /\ sockets # << >>
    /\ FirstMatch(packet) = 0
    /\ SendTo(packet, addresses[1], sockets[1])

ConsumeFails(packet) ==
    /\ pc = "serving"
    /\ addresses = << >> \/ sockets = << >>
    /\ FirstMatch(packet) = 0
    /\ last' = NotSent(packet)
    /\ UNCHANGED << pc, destinations, addresses, sockets, open, cutShort, optionRefused >>

Consume(packet) ==
    \/ ConsumeMatched(packet) \/ ConsumePastEnd(packet)
    \/ ConsumeByFirst(packet) \/ ConsumeFails(packet)

-----------------------------------------------------------------------------
Destroy ==
    /\ pc = "serving"
    /\ open' = open \ ToSet(sockets)
    /\ sockets' = << >>
    /\ addresses' = << >>
    /\ pc' = "destroyed"
    /\ UNCHANGED << destinations, cutShort, optionRefused, last >>

Opening == OpenSocket \/ SocketFails \/ OptionFails \/ AllOpened

(* Whatever destinations and packets main and its calls have. *)
Next ==
    \/ \E dstIpPort \in Seq(IpPort) : Construct(dstIpPort)
    \/ Opening
    \/ \E packet \in IpPort : Consume(packet)
    \/ Destroy

Spec == Init /\ [][Next]_vars

-----------------------------------------------------------------------------
(* Every variable keeps its type; there is never a socket without address,    *)
(* and the addresses are those of the destinations, in order.                 *)
TypeOK ==
    /\ pc \in {"none", "opening", "serving", "crashed", "destroyed"}
    /\ destinations \in Seq(IpPort)
    /\ addresses \in Seq(IpPort)
    /\ sockets \in Seq(Descriptors)
    /\ Len(sockets) <= Len(addresses)
    /\ Len(addresses) <= Len(destinations)
    /\ \A i \in DOMAIN addresses : addresses[i] = destinations[i]
    /\ open \subseteq Descriptors
    /\ cutShort \in BOOLEAN
    /\ optionRefused \in BOOLEAN
    /\ last \in Outcome

(* No descriptor leaks, whichever calls fail on the way: until a crash, the   *)
(* open ones are those in the vector, each of them once, and the destructor   *)
(* leaves none (consumer.cpp:42-56 and 60-66).                                *)
DescriptorsOwned ==
    pc # "crashed" =>
        /\ open = ToSet(sockets)
        /\ \A i, j \in DOMAIN sockets : sockets[i] = sockets[j] => i = j

(* A packet for a configured destination is handed to sendto for another one, *)
(* or for none, only if the constructor was cut short before it came to that  *)
(* one: a setsockopt that fails shifts the sockets, never the receivers       *)
(* (consumer.cpp:76-115).                                                     *)
RightReceiver ==
    last.packet \in ToSet(destinations) /\ last.to # last.packet => cutShort

-----------------------------------------------------------------------------
(* consumer.h:93 "@return indicates success of generation": with no socket at *)
(* all, as without root privileges, Consume reports failure.                  *)
ConsumeReturns == pc # "crashed"
=============================================================================
