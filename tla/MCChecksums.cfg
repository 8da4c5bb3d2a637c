CONSTANTS
    Src <- SrcAddress
    Dst <- DstAddress
    SrcPort = 32514
    DstPort = 32514
    Ssrc <- RtpSsrc
    FirstId = 1
    FirstSeq = 2821
    FirstTimestamp <- RtpTimestamp
    PayloadSums <- Audio
    MaxPackets = 64
SPECIFICATION Spec
INVARIANTS
    Ipv4WrongByLostCarry
    UdpWrongByLostCarry
    SumsOfHeaders
    HeadersReadBack
