------------------------------- MODULE Headers -------------------------------
(***************************************************************************)
(* The headers of a packet and how they are written to and read from the   *)
(* line (src/rawsocket.cpp, include/rawsocket.h), on a little-endian host: *)
(* a header is copied whole between the buffer and a structure, and its    *)
(* fields are swapped in the structure.                                    *)
(*                                                                         *)
(* A buffer is a sequence of bytes.  A 32-bit field is                     *)
(* << high word, low word >>.                                              *)
(***************************************************************************)
EXTENDS Integers, Sequences

-----------------------------------------------------------------------------
(* Memory and byte order *)

Octet == 0 .. 255

UShortMax == 65535
Short == 0 .. UShortMax

(* Seeded fault: nothing is swapped. *)
HostOrder(word) == word

(* htons and ntohs *)
NetOrder(word) == 256 * (word % 256) + (word \div 256)

(* htonl and ntohl *)
NetOrder32(field) == << NetOrder(field[2]), NetOrder(field[1]) >>

Stored(word) == << word % 256, word \div 256 >>

Stored32(field) == Stored(field[2]) \o Stored(field[1])

Loaded(buffer, i) == buffer[i] + 256 * buffer[i + 1]

(* Seeded fault: the high word first. *)
Loaded32Crossed(buffer, i) == << Loaded(buffer, i), Loaded(buffer, i + 2) >>

Loaded32(buffer, i) == << Loaded(buffer, i + 2), Loaded(buffer, i) >>

OnLine(word) == Stored(NetOrder(word))

OnLine32(field) == Stored32(NetOrder32(field))

(* OnesComplementShortSummation, its loop and the odd byte. *)
LineSum(buffer) ==
    LET words == Len(buffer) \div 2
        sum[i \in 0 .. words] ==
            IF i = 0 THEN 0 ELSE sum[i - 1] + NetOrder(Loaded(buffer, 2 * i - 1))
        odd == IF Len(buffer) % 2 = 1 THEN buffer[Len(buffer)] ELSE 0
    IN  sum[words] + odd

-----------------------------------------------------------------------------
(* RTP *)

RtpHeaderType ==
    [version : 0 .. 3, p : 0 .. 1, x : 0 .. 1, cc : 0 .. 15, m : 0 .. 1, payload : 0 .. 127,
     seq_num : Short, timestamp : Short \X Short, ssrc : Short \X Short]

WriteRtp(h) ==
    << 64 * h.version + 32 * h.p + 16 * h.x + h.cc, 128 * h.m + h.payload >>
        \o OnLine(h.seq_num) \o OnLine32(h.timestamp) \o OnLine32(h.ssrc)

ReadRtp(buffer) ==
    [version   |-> buffer[1] \div 64,
     p         |-> (buffer[1] \div 32) % 2,
     x         |-> (buffer[1] \div 16) % 2,
     cc        |-> buffer[1] % 16,
     m         |-> buffer[2] \div 128,
     payload   |-> buffer[2] % 128,
     seq_num   |-> NetOrder(Loaded(buffer, 3)),
     timestamp |-> NetOrder32(Loaded32(buffer, 5)),
     ssrc      |-> NetOrder32(Loaded32(buffer, 9))]

-----------------------------------------------------------------------------
(* UDP, and the pseudo header that its checksum covers *)

UdpHeaderType == [src_port : Short, dst_port : Short, tot_len : Short, checksum : Short]

PseudoIpv4HeaderType ==
    [src_addr : Short \X Short, dst_addr : Short \X Short, protocol : Octet, data_len : Short]

WriteUdp(h) ==
    OnLine(h.src_port) \o OnLine(h.dst_port) \o OnLine(h.tot_len) \o OnLine(h.checksum)

ReadUdp(buffer) ==
    [src_port |-> NetOrder(Loaded(buffer, 1)),
     dst_port |-> NetOrder(Loaded(buffer, 3)),
     tot_len  |-> NetOrder(Loaded(buffer, 5)),
     checksum |-> NetOrder(Loaded(buffer, 7))]

(* The padding is zero by the constructor. *)
WritePseudoIpv4(h) ==
    OnLine32(h.src_addr) \o OnLine32(h.dst_addr) \o << 0, h.protocol >> \o OnLine(h.data_len)

-----------------------------------------------------------------------------
(* Ipv4 *)

Ipv4HeaderType ==
    [version : 0 .. 15, hdr_len : 0 .. 15, service_type : Octet, tot_len : Short, id : Short,
     fragment : Short, ttl : Octet, protocol : Octet, checksum : Short,
     src_addr : Short \X Short, dst_addr : Short \X Short]

WriteIpv4(h) ==
    << 16 * h.version + h.hdr_len, h.service_type >>
        \o OnLine(h.tot_len) \o OnLine(h.id) \o OnLine(h.fragment)
        \o << h.ttl, h.protocol >> \o OnLine(h.checksum)
        \o OnLine32(h.src_addr) \o OnLine32(h.dst_addr)

(* All fields but "fragment" are converted. *)
ReadIpv4(buffer) ==
    [version      |-> buffer[1] \div 16,
     hdr_len      |-> buffer[1] % 16,
     service_type |-> buffer[2],
     tot_len      |-> NetOrder(Loaded(buffer, 3)),
     id           |-> NetOrder(Loaded(buffer, 5)),
     fragment     |-> Loaded(buffer, 7),
     ttl          |-> buffer[9],
     protocol     |-> buffer[10],
     checksum     |-> NetOrder(Loaded(buffer, 11)),
     src_addr     |-> NetOrder32(Loaded32(buffer, 13)),
     dst_addr     |-> NetOrder32(Loaded32(buffer, 17))]

-----------------------------------------------------------------------------
(* Ethernet *)

EthHeaderType == [dst_mac : [1 .. 6 -> Octet], src_mac : [1 .. 6 -> Octet], eth_type : Short]

WriteEth(h) == h.dst_mac \o h.src_mac \o OnLine(h.eth_type)

ReadEth(buffer) ==
    [dst_mac  |-> SubSeq(buffer, 1, 6),
     src_mac  |-> SubSeq(buffer, 7, 12),
     eth_type |-> NetOrder(Loaded(buffer, 13))]
=============================================================================
