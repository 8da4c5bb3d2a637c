----------------------------- MODULE MCChecksums -----------------------------
(***************************************************************************)
(* Instances of Checksums and PacketHeaders for TLC: a leg of a mirror     *)
(* call from 172.24.112.140 to 172.24.112.141 (--start) with the rtp       *)
(* header of include/test.h.  One of its packets loses a carry in the ipv4 *)
(* sum, and packets with certain audio lose one in the rtp or udp sum, or  *)
(* get the udp checksum 0.                                                 *)
(***************************************************************************)
EXTENDS PacketHeaders

SrcAddress == << 44056, 28812 >>
DstAddress == << 44056, 28813 >>
RtpSsrc == << 14085, 40987 >>
RtpTimestamp == << 34, 58536 >>

(* 80 equal words, one that loses the carry of the rtp sum, one that loses    *)
(* that of the udp sum, and one whose first packet has the checksum 0.        *)
Audio == {1747600, 1747601, 1795996, 2621440, 1736739}

(* The words of the packets in include/test.h, whose checksums 0x8437 and     *)
(* 0xa7f5 the unit tests expect.                                              *)
UnitTestIpv4   == 17848 + 200 + 55650 + 0 + 32785 + 44056 + 25910 + 44059 + 7785
UnitTestPseudo == 44056 + 25910 + 44059 + 7785 + 17 + 180
UnitTestUdp    == 58274 + 22698 + 180
UnitTestRtp    == 3948084

ASSUME UnitTestChecksums ==
    /\ Complement(Folded(UnitTestIpv4)) = 33847
    /\ Complement(Folded(Folded(UnitTestPseudo) + Folded(UnitTestRtp) + Folded(UnitTestUdp))) = 42997
=============================================================================
