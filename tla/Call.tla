-------------------------------- MODULE Call --------------------------------
(***************************************************************************)
(* Calls and their legs (src/callleg.cpp): the state a leg keeps between   *)
(* two packets, what one Step does to a leg and to a call, and the calls   *)
(* the two factories build.  Everything here is an operator on records;    *)
(* DDGen.tla holds the vector of calls and decides when they step.         *)
(*                                                                         *)
(* A leg carries the header fields that change from packet to packet       *)
(* (ipv4 id, rtp sequence number, rtp timestamp), each at its own width.   *)
(* The audio itself and the bytes of the headers are left out.             *)
(***************************************************************************)
EXTENDS Integers, Sequences

CONSTANTS
    PacketDuration,   \* ms of audio in one packet: GetPacketDuration() == 20
    PacketSize,       \* samples in one packet: GetPacketSize() == 160
    Second,           \* ms in the unit of --dc and --ds: 1000
    ShortRange,       \* 2^16, the values of an unsigned short
    UintRange,        \* 2^32, the values of an unsigned int
    AddressRange,     \* 2^32, the ipv4 addresses a factory's unsigned counter takes
    BasePort,         \* the first rtp port of a call: 32514
    Traffic,          \* "Mirror" or "DrLink"
    Destinations      \* the sequence of [ip, port] records given by --drlink

ASSUME CallAssumption ==
    /\ PacketDuration \in Nat \ {0}
    /\ PacketSize \in Nat
    /\ Second \in Nat \ {0}
    /\ ShortRange \in Nat \ {0}
    /\ UintRange \in Nat \ {0}
    /\ AddressRange \in Nat \ {0}
    /\ BasePort \in Nat
    /\ Traffic \in {"Mirror", "DrLink"}
    /\ Destinations \in Seq([ip : Nat, port : Nat])
    /\ Traffic = "DrLink" => Destinations # << >>

Short == 0 .. ShortRange - 1
Uint  == 0 .. UintRange - 1
Address == 0 .. AddressRange - 1

-----------------------------------------------------------------------------
(* Call legs *)

Flow == [srcIp : Nat, srcPort : Nat, dstIp : Nat, dstPort : Nat]

(* The rtp values the constructors of the calls draw at random. *)
Rtp == [timestamp : Uint, ssrc : Uint, seq : Short]

Leg == [flow : Flow, ssrc : Uint, id : Short, seq : Short, timestamp : Uint,
        accumulated : Nat, sent : Nat]

(* "sent" is history: the number of packets the leg has handed to the consumer. *)
NewLeg(flow, id, rtp) ==
    [flow |-> flow, ssrc |-> rtp.ssrc, id |-> id, seq |-> rtp.seq,
     timestamp |-> rtp.timestamp, accumulated |-> 0, sent |-> 0]

(* Seeded fault: the loop waits for more than a packet's time. *)
PacketsDueStrict(leg, step) == ((leg.accumulated + step) - 1) \div PacketDuration

(* How often the while loop of CallLeg::Step runs its body. *)
PacketsDue(leg, step) == (leg.accumulated + step) \div PacketDuration

(* Seeded fault: the rtp clock counts ms. *)
TimestampInMs(packets) == packets * PacketDuration

(* The rtp clock counts samples. *)
TimestampAdvance(packets) == packets * PacketSize

(* The result of Consume is ignored, so a packet counts as sent whatever     *)
(* became of it.  Generate, Encode and the WriteToBuffer calls only fail on  *)
(* null buffers, which a leg never passes them.                              *)
LegStep(leg, step) ==
    LET n == PacketsDue(leg, step)
    IN  [leg EXCEPT !.accumulated = (leg.accumulated + step) - n * PacketDuration,
                    !.seq         = (leg.seq + n) % ShortRange,
                    !.timestamp   = (leg.timestamp + TimestampAdvance(n)) % UintRange,
                    !.id          = (leg.id + n) % ShortRange,
                    !.sent        = leg.sent + n]

-----------------------------------------------------------------------------
(* Calls *)

(* The time a call really steps when it is asked to step for "step" ms. *)
StepGranted(call, step) ==
    IF call.remaining < step THEN call.remaining ELSE step

StillHasTime(call, step) == call.remaining >= step

(* Call::Step.  Its return value is StillHasTime(call, step). *)
CallStep(call, step) ==
    LET granted == StepGranted(call, step)
    IN  [call EXCEPT !.remaining = call.remaining - granted,
                     !.legs = [k \in DOMAIN call.legs |-> LegStep(call.legs[k], granted)]]

-----------------------------------------------------------------------------
(* The call factories *)

LegCount == IF Traffic = "DrLink" THEN Len(Destinations) ELSE 2

LegIndices == 1 .. LegCount

(* Seeded fault: the id space is divided by the gaps between the legs. *)
IdOffsetByGaps == (ShortRange - 1) \div (LegCount - 1)

(* Consecutive legs of a call start this far apart in the ipv4 id space. *)
IdOffset == (ShortRange - 1) \div LegCount

FirstId(k) == (1 + (k - 1) * IdOffset) % ShortRange

(* m_ip_pool and m_src_ip are unsigned int and wrap around. *)
PoolAdvance(pool, n) == (pool + n) % AddressRange

(* Seeded fault: a call advances a copy of the factory's counter. *)
NoAddressPerCall == 0

AddressesPerCall == IF Traffic = "DrLink" THEN 1 ELSE 2

(* Two legs, from one new address to the other and back. *)
MirrorFlows(pool) ==
    LET Between(src, dst) == [srcIp |-> src, srcPort |-> BasePort,
                              dstIp |-> dst, dstPort |-> BasePort]
        first  == pool
        second == PoolAdvance(pool, 1)
    IN  << Between(first, second), Between(second, first) >>

(* One leg per destination, all from one new address, on every other port. *)
DRLinkFlows(pool) ==
    [k \in 1 .. Len(Destinations) |->
        [srcIp   |-> pool,
         srcPort |-> (BasePort + 2 * (k - 1)) % ShortRange,
         dstIp   |-> Destinations[k].ip,
         dstPort |-> Destinations[k].port]]

NewFlows(pool) == IF Traffic = "DrLink" THEN DRLinkFlows(pool) ELSE MirrorFlows(pool)

(* The legs of the next call when the factory's pool stands at "pool" and    *)
(* the random generator yields rtp[k] for leg k.                             *)
NewLegs(pool, rtp) ==
    [k \in LegIndices |-> NewLeg(NewFlows(pool)[k], FirstId(k), rtp[k])]

(* What Call::Log writes about a leg when the call is constructed. *)
Stream == [flow : Flow, ssrc : Uint, seq : Short, timestamp : Uint]

StreamParameters(leg) ==
    [flow |-> leg.flow, ssrc |-> leg.ssrc, seq |-> leg.seq, timestamp |-> leg.timestamp]
=============================================================================
