------------------------------ MODULE Checksums ------------------------------
(***************************************************************************)
(* The ipv4 and udp checksums of the packets of one call leg               *)
(* (src/rawsocket.cpp), at their real width: how they are computed when a  *)
(* packet is written, how CheckIpv4Checksum and CheckUdpChecksum judge it, *)
(* and how a receiver that adds up all carries (RFC 1071) does.            *)
(*                                                                         *)
(* Only the sum of a header's 16-bit words enters a checksum, so a header  *)
(* is the sum of its words here, without its checksum.  A 32-bit field is  *)
(* << high word, low word >>.  All sizes are even.                         *)
(***************************************************************************)
EXTENDS Integers

CONSTANTS
    Src, Dst,        \* the addresses of the leg, as two words
    SrcPort, DstPort,
    Ssrc,            \* as two words
    FirstId,         \* the ipv4 id, sequence number and timestamp of the first packet
    FirstSeq,
    FirstTimestamp,  \* as two words
    PayloadSums,     \* the sums of the 80 words of audio in a packet
    MaxPackets       \* bound: packets sent

Base == 65536
Word == 0 .. Base - 1

ASSUME ChecksumsAssumption ==
    /\ Src \in Word \X Word /\ Dst \in Word \X Word
    /\ SrcPort \in Word /\ DstPort \in Word
    /\ Ssrc \in Word \X Word
    /\ FirstId \in Word /\ FirstSeq \in Word
    /\ FirstTimestamp \in Word \X Word
    /\ PayloadSums \subseteq 0 .. 80 * (Base - 1)
    /\ MaxPackets \in Nat

VARIABLES
    id,         \* m_ipv4_header.id
    seq,        \* m_rtp_header.seq_num
    timestamp,  \* m_rtp_header.timestamp
    packets,    \* history: packets sent
    sent        \* the last packet: the sums of its parts and its checksums

vars == << id, seq, timestamp, packets, sent >>

-----------------------------------------------------------------------------
(* Sums of words *)

Sum32(field) == field[1] + field[2]

(* Version 4, 5 words, service type 0xb8; 200 bytes; the id; no fragment;     *)
(* ttl 128, protocol 17; the addresses.                                       *)
Ipv4Sum(n) == 17848 + 200 + n + 0 + 32785 + Sum32(Src) + Sum32(Dst)

(* The addresses, protocol 17, 180 bytes. *)
PseudoSum == Sum32(Src) + Sum32(Dst) + 17 + 180

UdpHeaderSum == SrcPort + DstPort + 180

(* Version 2, payload type 8; the audio. *)
RtpSum(n, time, payload) == 32776 + n + Sum32(time) + Sum32(Ssrc) + payload

(* OnesComplementShortSummation, after its loop: the carry is added once.     *)
Folded(sum) == ((sum \div Base) + (sum % Base)) % Base

(* Seeded fault: the addresses do not count. *)
UdpSumBare(data) == Folded(data) + Folded(UdpHeaderSum)

(* Three separately folded sums are added up. *)
UdpSum(data) == Folded(PseudoSum) + Folded(data) + Folded(UdpHeaderSum)

(* "~", in an unsigned short *)
Complement(n) == Base - 1 - n

(* Seeded fault: the sum is not complemented. *)
Ipv4Plain(n) == Folded(Ipv4Sum(n))

Ipv4Checksum(n) == Complement(Folded(Ipv4Sum(n)))

UdpChecksum(data) == Complement(Folded(UdpSum(data)))

-----------------------------------------------------------------------------
(* The leg *)

NoPacket == [ipv4Sum |-> 0, ipv4Checksum |-> Base - 1, rtpSum |-> 0, udpChecksum |-> Base - 1]

Init ==
    /\ id = FirstId
    /\ seq = FirstSeq
    /\ timestamp = FirstTimestamp
    /\ packets = 0
    /\ sent = NoPacket

(* 160 samples further, modulo 2^32 *)
Later(time) ==
    LET low == time[2] + 160
    IN  << (time[1] + (low \div Base)) % Base, low % Base >>

(* One pass of the loop of CallLeg::Step. *)
SendPacket ==
    /\ packets < MaxPackets
    /\ packets' = packets + 1
    /\ \E payload \in PayloadSums :
          LET data == RtpSum(seq, timestamp, payload)
          IN  sent' = [ipv4Sum |-> Ipv4Sum(id), ipv4Checksum |-> Ipv4Checksum(id),
                       rtpSum |-> data, udpChecksum |-> UdpChecksum(data)]
    /\ seq' = (seq + 1) % Base
    /\ timestamp' = Later(timestamp)
    /\ id' = (id + 1) % Base

Over == packets = MaxPackets /\ UNCHANGED vars

Next == SendPacket \/ Over

Spec == Init /\ [][Next]_vars

-----------------------------------------------------------------------------
(* Receivers *)

CheckIpv4Checksum(packet) == Folded(packet.ipv4Sum + packet.ipv4Checksum) = Base - 1

UdpPacketSum(packet) == UdpHeaderSum + packet.udpChecksum + packet.rtpSum

CheckUdpChecksum(packet) ==
    Folded(Folded(PseudoSum) + Folded(UdpPacketSum(packet))) = Base - 1

(* RFC 1071: all carries are added, until the sum is a word. *)
StandardAccepts(sum) == sum # 0 /\ sum % (Base - 1) = 0

(* RFC 768: a udp checksum of 0 says that there is none. The code transmits a *)
(* 0 that it has computed as it is, not as 65535 (rawsocket.cpp:275-278).     *)
StandardAcceptsUdp(packet) ==
    packet.udpChecksum = 0 \/ StandardAccepts(PseudoSum + UdpPacketSum(packet))

(* Adding the carry has made another one, which is lost. *)
CarryLost(sum) == (sum \div Base) + (sum % Base) >= Base

-----------------------------------------------------------------------------
(* Every variable keeps its width. *)
TypeOK ==
    /\ id \in Word /\ seq \in Word
    /\ timestamp \in Word \X Word
    /\ packets \in 0 .. MaxPackets
    /\ sent.ipv4Sum \in 0 .. 9 * (Base - 1) /\ sent.rtpSum \in 0 .. 86 * (Base - 1)
    /\ sent.ipv4Checksum \in Word /\ sent.udpChecksum \in Word

(* The ipv4 header is wrong exactly if the sum of its words loses a carry,    *)
(* and then CheckIpv4Checksum, for all that it adds up the same way, agrees   *)
(* with a standard receiver in refusing it (rawsocket.cpp:21-24 and 163-167). *)
Ipv4WrongByLostCarry ==
    packets > 0 =>
        /\ CheckIpv4Checksum(sent) <=> ~CarryLost(sent.ipv4Sum)
        /\ CheckIpv4Checksum(sent) <=> StandardAccepts(sent.ipv4Sum + sent.ipv4Checksum)

NoCarryLost(packet) ==
    /\ ~CarryLost(PseudoSum)
    /\ ~CarryLost(UdpHeaderSum)
    /\ ~CarryLost(packet.rtpSum)
    /\ ~CarryLost(UdpSum(packet.rtpSum))

(* A udp packet adds up to what it should exactly if none of the four sums of *)
(* the sender loses a carry; a standard receiver also accepts one that does   *)
(* not, if its checksum has come out as 0 (rawsocket.cpp:259-278).            *)
UdpWrongByLostCarry ==
    packets > 0 =>
        /\ StandardAccepts(PseudoSum + UdpPacketSum(sent)) <=> NoCarryLost(sent)
        /\ StandardAcceptsUdp(sent) <=> NoCarryLost(sent) \/ sent.udpChecksum = 0

=============================================================================
