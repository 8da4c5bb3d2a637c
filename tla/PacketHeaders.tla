---------------------------- MODULE PacketHeaders ----------------------------
(***************************************************************************)
(* The headers that the leg of Checksums writes for its next packet, byte  *)
(* by byte.  Checksums takes a header for the sum of its words; here these *)
(* sums are those of the bytes on the line, and what a reader makes of the *)
(* bytes is what the leg has written.                                      *)
(***************************************************************************)
EXTENDS Checksums, Headers

PacketSize == 160

RtpHeader ==
    [version |-> 2, p |-> 0, x |-> 0, cc |-> 0, m |-> 0, payload |-> 8,
     seq_num |-> seq, timestamp |-> timestamp, ssrc |-> Ssrc]

UdpHeader(checksum) ==
    [src_port |-> SrcPort, dst_port |-> DstPort, tot_len |-> PacketSize + 12 + 8,
     checksum |-> checksum]

Ipv4Header(fragment, checksum) ==
    [version |-> 4, hdr_len |-> 5, service_type |-> 184,
     tot_len |-> UdpHeader(0).tot_len + 20,
     id |-> id, fragment |-> fragment, ttl |-> 128, protocol |-> 17, checksum |-> checksum,
     src_addr |-> Src, dst_addr |-> Dst]

PseudoIpv4Header ==
    [src_addr |-> Src, dst_addr |-> Dst, protocol |-> 17, data_len |-> UdpHeader(0).tot_len]

(* The first two bytes of the addresses are not initialised. *)
EthHeader(junk) ==
    [dst_mac |-> junk \o OnLine32(Dst), src_mac |-> junk \o OnLine32(Src), eth_type |-> 2048]

(* What Checksums adds up is what OnesComplementShortSummation finds on the   *)
(* line: headers without their checksums (rawsocket.cpp:9-19, 154-164, 259).  *)
SumsOfHeaders ==
    /\ LineSum(WriteIpv4(Ipv4Header(0, 0))) = Ipv4Sum(id)
    /\ LineSum(WritePseudoIpv4(PseudoIpv4Header)) = PseudoSum
    /\ LineSum(WriteUdp(UdpHeader(0))) = UdpHeaderSum
    /\ LineSum(WriteRtp(RtpHeader)) = RtpSum(seq, timestamp, 0)

(* Every header fits its structure, and what is read from the line is what    *)
(* was written; but the fragment field of an ipv4 header stays in network     *)
(* order.  The legs only write 0, which is the same in both orders            *)
(* (rawsocket.cpp:29-44, 121-137, 229-247, 336-349).                          *)
HeadersReadBack ==
    /\ RtpHeader \in RtpHeaderType
    /\ ReadRtp(WriteRtp(RtpHeader)) = RtpHeader
    /\ PseudoIpv4Header \in PseudoIpv4HeaderType
    /\ \A checksum \in {sent.udpChecksum, 0} :
          /\ UdpHeader(checksum) \in UdpHeaderType
          /\ ReadUdp(WriteUdp(UdpHeader(checksum))) = UdpHeader(checksum)
    /\ \A fragment \in {0, 16384}, checksum \in {sent.ipv4Checksum, 0} :
          /\ Ipv4Header(fragment, checksum) \in Ipv4HeaderType
          /\ ReadIpv4(WriteIpv4(Ipv4Header(fragment, checksum)))
                 = Ipv4Header(NetOrder(fragment), checksum)
    /\ \A junk \in {<< 0, 0 >>, << 255, 1 >>} :
          /\ EthHeader(junk) \in EthHeaderType
          /\ ReadEth(WriteEth(EthHeader(junk))) = EthHeader(junk)
=============================================================================
