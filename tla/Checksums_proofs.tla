--------------------------- MODULE Checksums_proofs ---------------------------
(***************************************************************************)
(* Proofs about Checksums and PacketHeaders, for any addresses, ports,     *)
(* audio and number of packets: the checksums first, then what is written  *)
(* to the line and read from it.                                           *)
(***************************************************************************)
EXTENDS PacketHeaders, TLAPS, SequenceTheorems, WellFoundedInduction

(* All the arithmetic needs to know about 2^16. *)
LEMMA BaseType == Base \in Nat /\ Base > 300
  BY SMT DEF Base

(* The fixed words of the headers are words. *)
LEMMA FixedWords ==
    17848 <= Base - 1 /\ 32785 <= Base - 1 /\ 32776 <= Base - 1
  BY SMT DEF Base

(* Quotient and remainder exist, *)
LEMMA Quotient ==
    ASSUME NEW d \in Nat, d > 0, NEW x \in Nat
    PROVE  /\ x \div d \in Nat
           /\ x % d \in 0 .. d - 1
           /\ x = d * (x \div d) + (x % d)
<1>1. x % d \in 0 .. d - 1 /\ x \div d \in Int /\ x = d * (x \div d) + (x % d)
  BY Z3
<1>2. ASSUME NEW q \in Int, NEW r \in 0 .. d - 1, x = d * q + r
      PROVE  q >= 0
  BY <1>2, Z3
<1> QED
  BY <1>1, <1>2

(* ... and are unique. *)
LEMMA QuotientUnique ==
    ASSUME NEW d \in Nat, d > 0, NEW q \in Nat, NEW r \in 0 .. d - 1, NEW x \in Nat, x = d * q + r
    PROVE  x \div d = q /\ x % d = r
<1> DEFINE p == x \div d
           s == x % d
<1>1. p \in Nat /\ s \in 0 .. d - 1 /\ x = d * p + s
  BY Quotient
<1> HIDE DEF p, s
<1>2. d * (p - q) = r - s
  BY <1>1, Z3
<1>3. p - q \in Int /\ r - s < d /\ r - s > -d
  BY <1>1
<1>4. ASSUME NEW n \in Int, d * n < d, d * n > -d
      PROVE  n = 0
  <2>1. ~(n >= 1)
    <3>1. n >= 1 => d * n >= d
      BY Z3
    <3> QED
      BY <3>1, <1>4
  <2>2. ~(n <= -1)
    <3>1. n <= -1 => d * n <= -d
      BY Z3
    <3> QED
      BY <3>1, <1>4
  <2> QED
    BY <2>1, <2>2
<1>5. p - q = 0
  BY <1>2, <1>3, <1>4
<1>6. p = q /\ r = s
  BY <1>1, <1>5, Z3
<1> QED
  BY <1>6 DEF p, s

-----------------------------------------------------------------------------
(* Folding *)

(* The carries a fold loses: none or one. *)
Lost(sum) == IF CarryLost(sum) THEN 1 ELSE 0

(* A sum of at most 100 words has few carries. *)
LEMMA FewCarries ==
    ASSUME NEW sum \in Nat, sum <= 100 * (Base - 1)
    PROVE  /\ sum \div Base \in 0 .. 99
           /\ sum % Base \in 0 .. Base - 1
           /\ sum = Base * (sum \div Base) + (sum % Base)
<1> DEFINE high == sum \div Base
           low  == sum % Base
<1>1. high \in Nat /\ low \in 0 .. Base - 1 /\ sum = Base * high + low
  BY BaseType, Quotient
<1> HIDE DEF high, low
<1>2. high >= 100 => Base * high >= Base * 100
  BY <1>1, BaseType, Z3
<1>3. ~(high >= 100)
  BY <1>1, <1>2, BaseType
<1> QED
  BY <1>1, <1>3 DEF high, low

(* What is left of a sum of words when it is folded. *)
LEMMA FoldedSum ==
    ASSUME NEW sum \in Nat, sum <= 100 * (Base - 1)
    PROVE  /\ Lost(sum) \in 0 .. 1
           /\ Folded(sum) \in 0 .. Base - 1
           /\ Folded(sum) = ((sum \div Base) + (sum % Base)) - Base * Lost(sum)
<1> DEFINE high == sum \div Base
           low  == sum % Base
<1>1. high \in 0 .. 99 /\ low \in 0 .. Base - 1
  BY FewCarries
<1>2. /\ Folded(sum) = (high + low) % Base
      /\ CarryLost(sum) <=> high + low >= Base
  BY DEF Folded, CarryLost
<1> HIDE DEF high, low
<1>3. CASE high + low >= Base
  <2>1. /\ high + low = Base * 1 + ((high + low) - Base)
        /\ (high + low) - Base \in 0 .. Base - 1
        /\ high + low \in Nat
    BY <1>1, <1>3, BaseType
  <2>2. (high + low) % Base = (high + low) - Base
    BY <2>1, BaseType, QuotientUnique
  <2> QED
    BY <1>1, <1>2, <1>3, <2>1, <2>2, BaseType DEF Lost, high, low
<1>4. CASE high + low < Base
  <2>1. /\ high + low = Base * 0 + (high + low)
        /\ high + low \in 0 .. Base - 1
    BY <1>1, <1>4, BaseType
  <2>2. (high + low) % Base = high + low
    BY <2>1, BaseType, QuotientUnique
  <2> QED
    BY <1>1, <1>2, <1>4, <2>1, <2>2, BaseType DEF Lost, high, low
<1> QED
  BY <1>1, <1>3, <1>4, BaseType

(* An ipv4 header written and judged with a single fold each. *)
LEMMA Ipv4Fold ==
    ASSUME NEW sum \in Nat, sum <= 9 * (Base - 1)
    PROVE  /\ Folded(sum + Complement(Folded(sum))) = Base - 1 <=> ~CarryLost(sum)
           /\ StandardAccepts(sum + Complement(Folded(sum))) <=> ~CarryLost(sum)
<1> DEFINE high == sum \div Base
           low == sum % Base
           total == sum + Complement(Folded(sum))
<1>0. sum <= 100 * (Base - 1)
  BY BaseType
<1>1. /\ high \in 0 .. 99 /\ low \in 0 .. Base - 1
      /\ sum = Base * high + low
      /\ Folded(sum) = (high + low) - Base * Lost(sum)
      /\ Lost(sum) \in 0 .. 1
  BY <1>0, FewCarries, FoldedSum
<1>2. total = (sum + (Base - 1)) - Folded(sum)
  <2>1. Folded(sum) \in Int
    BY <1>0, FoldedSum, BaseType
  <2> QED
    BY <2>1, BaseType DEF Complement
<1> HIDE DEF high, low, total
<1>3. CASE CarryLost(sum)
  <2>1. Lost(sum) = 1
    BY <1>3 DEF Lost
  <2>2. total = Base * (high + 1) + ((Base - 1) - high)
    BY <1>1, <1>2, <2>1, BaseType, Z3
  <2>3. /\ high + 1 \in Nat /\ (Base - 1) - high \in 0 .. Base - 1
        /\ Base * (high + 1) \in Nat
    BY <1>1, BaseType, Z3
  <2>4. total \div Base = high + 1 /\ total % Base = (Base - 1) - high
    BY <1>1, <2>2, <2>3, BaseType, QuotientUnique
  <2>5. Folded(total) = 0
    <3>1. Folded(total) = Base % Base
      BY <1>1, <2>4, BaseType DEF Folded
    <3>2. Base = Base * 1 + 0 /\ 0 \in 0 .. Base - 1
      BY BaseType
    <3> QED
      BY <3>1, <3>2, BaseType, QuotientUnique
  <2>6. total = (Base - 1) * (high + 2) + 1
    BY <1>1, <2>2, BaseType, Z3
  <2>7. total % (Base - 1) = 1
    BY <1>1, <2>2, <2>3, <2>6, BaseType, QuotientUnique
  <2> QED
    BY <1>3, <2>5, <2>7, BaseType DEF StandardAccepts, total
<1>4. CASE ~CarryLost(sum)
  <2>1. Lost(sum) = 0
    BY <1>4 DEF Lost
  <2>2. total = Base * high + ((Base - 1) - high)
    BY <1>1, <1>2, <2>1, BaseType, Z3
  <2>3. /\ (Base - 1) - high \in 0 .. Base - 1
        /\ Base * high \in Nat
    BY <1>1, BaseType, Z3
  <2>4. total \div Base = high /\ total % Base = (Base - 1) - high
    BY <1>1, <2>2, <2>3, BaseType, QuotientUnique
  <2>5. Folded(total) = Base - 1
    <3>1. Folded(total) = (Base - 1) % Base
      BY <1>1, <2>4, BaseType DEF Folded
    <3>2. Base - 1 = Base * 0 + (Base - 1) /\ Base - 1 \in 0 .. Base - 1
      BY BaseType
    <3> QED
      BY <3>1, <3>2, BaseType, QuotientUnique
  <2>6. total = (Base - 1) * (high + 1) + 0
    BY <1>1, <2>2, BaseType, Z3
  <2>7. total % (Base - 1) = 0
    BY <1>1, <2>2, <2>3, <2>6, BaseType, QuotientUnique
  <2>8. total # 0
    BY <1>1, <2>2, <2>3, BaseType
  <2> QED
    BY <1>4, <2>5, <2>7, <2>8, BaseType DEF StandardAccepts, total
<1> QED
  BY <1>3, <1>4

(* Modulo 65535 a folded sum is the sum, less the carry that is lost. *)
LEMMA FoldedModulo ==
    ASSUME NEW sum \in Nat, sum <= 100 * (Base - 1)
    PROVE  \E k \in Nat : sum = ((Base - 1) * k + Folded(sum)) + Lost(sum)
<1> DEFINE high == sum \div Base
           low == sum % Base
<1>1. /\ high \in Nat /\ low \in Nat
      /\ sum = Base * high + low
      /\ Folded(sum) = (high + low) - Base * Lost(sum)
      /\ Lost(sum) \in 0 .. 1
  <2>1. high \in 0 .. 99 /\ low \in 0 .. Base - 1 /\ sum = Base * high + low
    BY FewCarries
  <2>2. Folded(sum) = (high + low) - Base * Lost(sum) /\ Lost(sum) \in 0 .. 1
    BY FoldedSum
  <2> HIDE DEF high, low
  <2> QED
    BY <2>1, <2>2, BaseType
<1> HIDE DEF high, low
<1>2. CASE Lost(sum) = 0
  <2>1. sum = ((Base - 1) * high + Folded(sum)) + Lost(sum)
    BY <1>1, <1>2, BaseType, Z3
  <2> QED
    BY <1>1, <2>1
<1>3. CASE Lost(sum) = 1
  <2>1. sum = ((Base - 1) * (high + 1) + Folded(sum)) + Lost(sum)
    BY <1>1, <1>3, BaseType, Z3
  <2>2. high + 1 \in Nat
    BY <1>1
  <2> QED
    BY <2>1, <2>2
<1> QED
  BY <1>1, <1>2, <1>3

(* A udp packet whose three parts are folded one by one, and their sum again. *)
LEMMA UdpFold ==
    ASSUME NEW p \in Nat, p <= 100 * (Base - 1),
           NEW h \in Nat, h <= 100 * (Base - 1),
           NEW d \in Nat, d <= 100 * (Base - 1),
           NEW u, u = Folded(p) + Folded(d) + Folded(h)
    PROVE  StandardAccepts(p + (h + Complement(Folded(u)) + d)) <=>
             ~CarryLost(p) /\ ~CarryLost(h) /\ ~CarryLost(d) /\ ~CarryLost(u)
<1>1. /\ Folded(p) \in 0 .. Base - 1 /\ Lost(p) \in 0 .. 1
      /\ Folded(h) \in 0 .. Base - 1 /\ Lost(h) \in 0 .. 1
      /\ Folded(d) \in 0 .. Base - 1 /\ Lost(d) \in 0 .. 1
  BY FoldedSum
<1>2. u \in Nat /\ u <= 100 * (Base - 1)
  BY <1>1, BaseType
<1>3. Folded(u) \in 0 .. Base - 1 /\ Lost(u) \in 0 .. 1
  BY <1>2, FoldedSum
<1>4. PICK kp \in Nat : p = ((Base - 1) * kp + Folded(p)) + Lost(p)
  BY FoldedModulo
<1>5. PICK kh \in Nat : h = ((Base - 1) * kh + Folded(h)) + Lost(h)
  BY FoldedModulo
<1>6. PICK kd \in Nat : d = ((Base - 1) * kd + Folded(d)) + Lost(d)
  BY FoldedModulo
<1>7. PICK ku \in Nat : u = ((Base - 1) * ku + Folded(u)) + Lost(u)
  BY <1>2, FoldedModulo
<1> DEFINE total == p + (h + Complement(Folded(u)) + d)
           lost == Lost(p) + Lost(h) + Lost(d) + Lost(u)
           k == kp + kh + kd + ku + 1
<1>8. lost \in 0 .. (Base - 1) - 1 /\ lost \in Nat /\ k \in Nat /\ k >= 1
  BY <1>1, <1>3, <1>4, <1>5, <1>6, <1>7, BaseType
<1>9. total = (Base - 1) * k + lost
  <2>1. total = (((p + h) + d) + (Base - 1)) - Folded(u)
    BY <1>3, BaseType DEF Complement
  <2> DEFINE mp == (Base - 1) * kp
             mh == (Base - 1) * kh
             md == (Base - 1) * kd
             mu == (Base - 1) * ku
  <2>2. (Base - 1) * k = (((mp + mh) + md) + mu) + (Base - 1)
    BY BaseType, Z3
  <2>3. mp \in Int /\ mh \in Int /\ md \in Int /\ mu \in Int
    BY BaseType
  <2>4. /\ p = (mp + Folded(p)) + Lost(p)
        /\ h = (mh + Folded(h)) + Lost(h)
        /\ d = (md + Folded(d)) + Lost(d)
        /\ u = (mu + Folded(u)) + Lost(u)
    BY <1>4, <1>5, <1>6, <1>7
  <2> HIDE DEF mp, mh, md, mu, k, total
  <2>5. /\ Folded(p) \in Int /\ Folded(h) \in Int /\ Folded(d) \in Int /\ Folded(u) \in Int
        /\ Lost(p) \in Int /\ Lost(h) \in Int /\ Lost(d) \in Int /\ Lost(u) \in Int
    BY <1>1, <1>3, BaseType
  <2>6. (p + h) + d = (((mp + mh) + md) + u) + ((Lost(p) + Lost(h)) + Lost(d))
    BY <2>3, <2>4, <2>5
  <2>7. u - Folded(u) = mu + Lost(u) /\ u \in Int /\ Base - 1 \in Int
    BY <1>2, <2>3, <2>4, <2>5, BaseType
  <2>8. total = ((((mp + mh) + md) + mu) + (Base - 1)) + (((Lost(p) + Lost(h)) + Lost(d)) + Lost(u))
    BY <2>1, <2>3, <2>5, <2>6, <2>7
  <2> QED
    BY <2>2, <2>3, <2>5, <2>7, <2>8
<1>10. total \in Nat /\ total > 0
  <2>1. (Base - 1) * k >= Base - 1 /\ (Base - 1) * k \in Int
    BY <1>8, BaseType, Z3
  <2> QED
    BY <1>8, <1>9, <2>1, BaseType
<1>11. lost = 0 <=> ~CarryLost(p) /\ ~CarryLost(h) /\ ~CarryLost(d) /\ ~CarryLost(u)
  BY DEF Lost
<1> HIDE DEF total, lost, k
<1>12. total % (Base - 1) = lost
  BY <1>8, <1>9, <1>10, BaseType, QuotientUnique
<1> QED
  BY <1>10, <1>11, <1>12, BaseType DEF StandardAccepts, total

-----------------------------------------------------------------------------
(* The packets of a leg *)

LEMMA WordType ==
    /\ Word \subseteq Nat
    /\ \A x \in Nat : x % Base \in Word
    /\ \A w \in Word : Complement(w) \in Word
<1>1. \A x \in Nat : x % Base \in Word
  BY BaseType, Quotient DEF Word
<1> QED
  BY <1>1, BaseType DEF Word, Complement

LEMMA Sum32Type ==
    ASSUME NEW field \in Word \X Word
    PROVE  Sum32(field) \in Nat /\ Sum32(field) <= 2 * (Base - 1)
<1>1. field[1] \in 0 .. Base - 1 /\ field[2] \in 0 .. Base - 1
  BY DEF Word
<1> QED
  BY <1>1, BaseType DEF Sum32

(* Each sum stays below that of as many words as it has. *)
LEMMA SumBounds ==
    /\ \A n \in Word : Ipv4Sum(n) \in Nat /\ Ipv4Sum(n) <= 9 * (Base - 1)
    /\ PseudoSum \in Nat /\ PseudoSum <= 6 * (Base - 1)
    /\ UdpHeaderSum \in Nat /\ UdpHeaderSum <= 3 * (Base - 1)
    /\ \A n \in Word, time \in Word \X Word, payload \in PayloadSums :
          RtpSum(n, time, payload) \in Nat /\ RtpSum(n, time, payload) <= 86 * (Base - 1)
<1>1. /\ Sum32(Src) \in Nat /\ Sum32(Src) <= 2 * (Base - 1)
      /\ Sum32(Dst) \in Nat /\ Sum32(Dst) <= 2 * (Base - 1)
      /\ Sum32(Ssrc) \in Nat /\ Sum32(Ssrc) <= 2 * (Base - 1)
  BY ChecksumsAssumption, Sum32Type
<1>2. ASSUME NEW n \in Word
      PROVE  Ipv4Sum(n) \in Nat /\ Ipv4Sum(n) <= 9 * (Base - 1)
  <2>1. n \in Nat /\ n <= Base - 1
    BY BaseType DEF Word
  <2> QED
    BY <1>1, <2>1, BaseType, FixedWords, SMT DEF Ipv4Sum
<1>3. PseudoSum \in Nat /\ PseudoSum <= 6 * (Base - 1)
  BY <1>1, BaseType, SMT DEF PseudoSum
<1>4. UdpHeaderSum \in Nat /\ UdpHeaderSum <= 3 * (Base - 1)
  <2>1. SrcPort \in 0 .. Base - 1 /\ DstPort \in 0 .. Base - 1
    BY ChecksumsAssumption DEF Word
  <2> QED
    BY <2>1, BaseType, SMT DEF UdpHeaderSum
<1>5. ASSUME NEW n \in Word, NEW time \in Word \X Word, NEW payload \in PayloadSums
      PROVE  RtpSum(n, time, payload) \in Nat /\ RtpSum(n, time, payload) <= 86 * (Base - 1)
  <2>1. Sum32(time) \in Nat /\ Sum32(time) <= 2 * (Base - 1)
    BY Sum32Type
  <2>2. payload \in 0 .. 80 * (Base - 1)
    BY ChecksumsAssumption
  <2>3. n \in Nat /\ n <= Base - 1
    BY BaseType DEF Word
  <2> QED
    BY <1>1, <2>1, <2>2, <2>3, BaseType, FixedWords, SMT DEF RtpSum
<1> QED
  BY <1>2, <1>3, <1>4, <1>5

LEMMA ChecksumType ==
    ASSUME NEW n \in Word, NEW data \in Nat, data <= 86 * (Base - 1)
    PROVE  Ipv4Checksum(n) \in Word /\ UdpChecksum(data) \in Word
<1>1. /\ Folded(Ipv4Sum(n)) \in 0 .. Base - 1
      /\ Folded(PseudoSum) \in 0 .. Base - 1
      /\ Folded(UdpHeaderSum) \in 0 .. Base - 1
      /\ Folded(data) \in 0 .. Base - 1
  <2>1. 9 * (Base - 1) <= 100 * (Base - 1) /\ 86 * (Base - 1) <= 100 * (Base - 1)
        /\ 6 * (Base - 1) <= 100 * (Base - 1) /\ 3 * (Base - 1) <= 100 * (Base - 1)
    BY BaseType
  <2>2. /\ Ipv4Sum(n) \in Nat /\ Ipv4Sum(n) <= 100 * (Base - 1)
        /\ PseudoSum \in Nat /\ PseudoSum <= 100 * (Base - 1)
        /\ UdpHeaderSum \in Nat /\ UdpHeaderSum <= 100 * (Base - 1)
        /\ data <= 100 * (Base - 1)
    BY <2>1, SumBounds, BaseType
  <2> QED
    BY <2>2, FoldedSum
<1>2. UdpSum(data) \in Nat /\ UdpSum(data) <= 100 * (Base - 1)
  BY <1>1, BaseType DEF UdpSum
<1>3. Folded(UdpSum(data)) \in 0 .. Base - 1
  BY <1>2, FoldedSum
<1> QED
  BY <1>1, <1>3, WordType DEF Ipv4Checksum, UdpChecksum, Word

(* The checksums are those of the sums that were sent. *)
SentAsComputed ==
    packets > 0 =>
        /\ sent.ipv4Checksum = Complement(Folded(sent.ipv4Sum))
        /\ sent.udpChecksum = UdpChecksum(sent.rtpSum)

LEMMA SendPacketEffect ==
    ASSUME TypeOK, SendPacket
    PROVE  /\ sent'.ipv4Sum = Ipv4Sum(id) /\ sent'.ipv4Checksum = Ipv4Checksum(id)
           /\ sent'.rtpSum \in Nat /\ sent'.rtpSum <= 86 * (Base - 1)
           /\ sent'.udpChecksum = UdpChecksum(sent'.rtpSum)
<1>1. PICK payload \in PayloadSums :
        sent' = [ipv4Sum |-> Ipv4Sum(id), ipv4Checksum |-> Ipv4Checksum(id),
                 rtpSum |-> RtpSum(seq, timestamp, payload),
                 udpChecksum |-> UdpChecksum(RtpSum(seq, timestamp, payload))]
  BY DEF SendPacket
<1>2. /\ RtpSum(seq, timestamp, payload) \in Nat
      /\ RtpSum(seq, timestamp, payload) <= 86 * (Base - 1)
  BY SumBounds DEF TypeOK
<1> QED
  BY <1>1, <1>2

LEMMA LaterType ==
    ASSUME NEW time \in Word \X Word
    PROVE  Later(time) \in Word \X Word
<1> DEFINE low == time[2] + 160
<1>1. time[1] \in Nat /\ low \in Nat
  <2>1. time[1] \in Word /\ time[2] \in Word
    OBVIOUS
  <2>2. time[1] \in Nat /\ time[2] \in Nat
    BY <2>1, WordType
  <2> QED
    BY <2>2
<1>2. low \div Base \in Nat
  BY <1>1, BaseType, Quotient
<1>3. (time[1] + (low \div Base)) % Base \in Word /\ low % Base \in Word
  BY <1>1, <1>2, WordType
<1> QED
  BY <1>3 DEF Later

LEMMA NextType == TypeOK /\ [Next]_vars => TypeOK'
<1> SUFFICES ASSUME TypeOK, [Next]_vars PROVE TypeOK'
  OBVIOUS
<1>1. CASE SendPacket
  <2>1. id \in Word /\ seq \in Word /\ timestamp \in Word \X Word
    BY DEF TypeOK
  <2>2. id' \in Word /\ seq' \in Word
    BY <1>1, <2>1, WordType DEF SendPacket
  <2>3. timestamp' \in Word \X Word
    BY <1>1, <2>1, LaterType DEF SendPacket
  <2>4. packets' \in 0 .. MaxPackets
    BY <1>1, ChecksumsAssumption DEF SendPacket, TypeOK
  <2>5. sent'.ipv4Sum \in 0 .. 9 * (Base - 1) /\ sent'.rtpSum \in 0 .. 86 * (Base - 1)
    BY <1>1, <2>1, SendPacketEffect, SumBounds, BaseType
  <2>6. sent'.ipv4Checksum \in Word /\ sent'.udpChecksum \in Word
    BY <1>1, <2>1, SendPacketEffect, ChecksumType
  <2> QED
    BY <2>2, <2>3, <2>4, <2>5, <2>6 DEF TypeOK
<1>2. CASE UNCHANGED vars
  BY <1>2 DEF vars, TypeOK
<1> QED
  BY <1>1, <1>2 DEF Next, Over

(* Ids, sequence numbers, timestamps and checksums keep their widths. *)
THEOREM TypeCorrect == Spec => []TypeOK
<1>1. Init => TypeOK
  <2> SUFFICES ASSUME Init PROVE TypeOK
    OBVIOUS
  <2>1. /\ sent.ipv4Sum = 0 /\ sent.rtpSum = 0
        /\ sent.ipv4Checksum = Base - 1 /\ sent.udpChecksum = Base - 1
    BY DEF Init, NoPacket
  <2>2. 0 \in 0 .. 9 * (Base - 1) /\ 0 \in 0 .. 86 * (Base - 1) /\ Base - 1 \in Word
    BY BaseType DEF Word
  <2>3. packets \in 0 .. MaxPackets
    BY ChecksumsAssumption DEF Init
  <2> QED
    BY <2>1, <2>2, <2>3, ChecksumsAssumption DEF Init, TypeOK
<1> QED
  BY <1>1, NextType, PTL DEF Spec

(* Every packet carries the checksums of what it carries. *)
LEMMA SentAsComputedAlways == Spec => []SentAsComputed
<1>1. Init => SentAsComputed
  BY DEF Init, SentAsComputed
<1>2. TypeOK /\ SentAsComputed /\ [Next]_vars => SentAsComputed'
  <2> SUFFICES ASSUME TypeOK, SentAsComputed, [Next]_vars PROVE SentAsComputed'
    OBVIOUS
  <2>1. CASE SendPacket
    BY <2>1, SendPacketEffect DEF SentAsComputed, Ipv4Checksum
  <2>2. CASE UNCHANGED vars
    BY <2>2 DEF vars, SentAsComputed, UdpChecksum
  <2> QED
    BY <2>1, <2>2 DEF Next, Over
<1> QED
  BY <1>1, <1>2, TypeCorrect, PTL DEF Spec

(* An ipv4 header is refused, by the program's own check as by a standard     *)
(* receiver, exactly if the single fold of its sum lost a carry.              *)
THEOREM Ipv4HeadersWrongByLostCarry == Spec => []Ipv4WrongByLostCarry
<1>1. TypeOK /\ SentAsComputed => Ipv4WrongByLostCarry
  <2> SUFFICES ASSUME TypeOK, SentAsComputed, packets > 0
               PROVE  /\ CheckIpv4Checksum(sent) <=> ~CarryLost(sent.ipv4Sum)
                      /\ CheckIpv4Checksum(sent)
                            <=> StandardAccepts(sent.ipv4Sum + sent.ipv4Checksum)
    BY DEF Ipv4WrongByLostCarry
  <2> DEFINE sum == sent.ipv4Sum
  <2>1. sum \in Nat /\ sum <= 9 * (Base - 1)
    BY BaseType DEF TypeOK
  <2>2. sent.ipv4Checksum = Complement(Folded(sum))
    BY DEF SentAsComputed
  <2> HIDE DEF sum
  <2>3. /\ Folded(sum + Complement(Folded(sum))) = Base - 1 <=> ~CarryLost(sum)
        /\ StandardAccepts(sum + Complement(Folded(sum))) <=> ~CarryLost(sum)
    BY <2>1, Ipv4Fold
  <2> QED
    BY <2>2, <2>3 DEF CheckIpv4Checksum, sum
<1> QED
  BY <1>1, TypeCorrect, SentAsComputedAlways, PTL

(* A standard receiver refuses a udp packet exactly if one of the four folds  *)
(* of the sender lost a carry and the checksum has not come out as 0          *)
(* (rawsocket.cpp:259-278).                                                   *)
THEOREM UdpPacketsWrongByLostCarry == Spec => []UdpWrongByLostCarry
<1>1. TypeOK /\ SentAsComputed => UdpWrongByLostCarry
  <2> SUFFICES ASSUME TypeOK, SentAsComputed, packets > 0 PROVE UdpWrongByLostCarry
    BY DEF UdpWrongByLostCarry
  <2> DEFINE p == PseudoSum
             h == UdpHeaderSum
             d == sent.rtpSum
             u == UdpSum(sent.rtpSum)
  <2>1. /\ p \in Nat /\ p <= 100 * (Base - 1)
        /\ h \in Nat /\ h <= 100 * (Base - 1)
        /\ d \in Nat /\ d <= 100 * (Base - 1)
    BY SumBounds, BaseType DEF TypeOK
  <2>2. u = Folded(p) + Folded(d) + Folded(h)
    BY DEF UdpSum
  <2>3. UdpPacketSum(sent) = h + Complement(Folded(u)) + d
    BY DEF UdpPacketSum, SentAsComputed, UdpChecksum
  <2> HIDE DEF p, h, d, u
  <2>4. StandardAccepts(p + (h + Complement(Folded(u)) + d)) <=>
          ~CarryLost(p) /\ ~CarryLost(h) /\ ~CarryLost(d) /\ ~CarryLost(u)
    BY <2>1, <2>2, UdpFold
  <2>5. StandardAccepts(PseudoSum + UdpPacketSum(sent)) <=> NoCarryLost(sent)
    BY <2>3, <2>4 DEF NoCarryLost, p, h, d, u
  <2> QED
    BY <2>5 DEF UdpWrongByLostCarry, StandardAcceptsUdp
<1> QED
  BY <1>1, TypeCorrect, SentAsComputedAlways, PTL
-----------------------------------------------------------------------------
(* The bytes on the line *)

(* The 16-bit word that a reader finds at byte i. *)
WordAt(buffer, i) == NetOrder(Loaded(buffer, i))

WordOf(high, low) == 256 * high + low

TwoBytes(x, y) == << x, y >>

(* The bound of a word stays a name: the provers unfold an interval of numbers. *)
LEMMA UShortMaxType == UShortMax \in Nat /\ UShortMax >= 65535 /\ UShortMax <= 65535
  BY DEF UShortMax

(* A word is its two bytes. *)
LEMMA WordBytes ==
    ASSUME NEW w \in Short
    PROVE  /\ w \div 256 \in Octet /\ w % 256 \in Octet
           /\ w = 256 * (w \div 256) + (w % 256)
<1>1. /\ w \div 256 \in Nat
      /\ w % 256 \in 0 .. 255
      /\ w = 256 * (w \div 256) + (w % 256)
  BY Quotient, UShortMaxType DEF Short
<1>2. w <= 65535 /\ w \in Nat
  BY UShortMaxType DEF Short
<1> HIDE DEF Short
<1>3. PICK q \in Nat : q = w \div 256
  BY <1>1
<1>4. PICK r \in 0 .. 255 : r = w % 256
  BY <1>1
<1>5. w = 256 * q + r
  BY <1>1, <1>3, <1>4
<1>6. q <= 255
  BY <1>2, <1>5
<1>7. q \in Octet /\ r \in Octet
  BY <1>6 DEF Octet
<1> QED
  BY <1>1, <1>3, <1>4, <1>7, Zenon

(* Two bytes are those of their word. *)
LEMMA OctetsOfWord ==
    ASSUME NEW x \in Octet, NEW y \in Octet
    PROVE  /\ 256 * x + y \in Short
           /\ (256 * x + y) \div 256 = x
           /\ (256 * x + y) % 256 = y
<1>1. x \in Nat /\ y \in 0 .. 255 /\ x <= 255 /\ 256 * x + y \in Nat
  BY DEF Octet
<1>2. PICK w \in Nat : w = 256 * x + y
  BY <1>1
<1>3. w \div 256 = x /\ w % 256 = y
  BY <1>1, <1>2, QuotientUnique
<1>4. w <= 65535
  BY <1>1, <1>2
<1>5. w \in Short
  BY <1>4, UShortMaxType DEF Short
<1> QED
  BY <1>2, <1>3, <1>5, Zenon

(* To swap twice is to do nothing. *)
LEMMA NetOrderInverse ==
    ASSUME NEW w \in Short
    PROVE  NetOrder(w) \in Short /\ NetOrder(NetOrder(w)) = w
<1>1. PICK q \in Octet : q = w \div 256
  BY WordBytes
<1>2. PICK r \in Octet : r = w % 256
  BY WordBytes
<1>3. w = 256 * q + r
  BY <1>1, <1>2, WordBytes
<1>4. NetOrder(w) = 256 * r + q
  BY <1>1, <1>2 DEF NetOrder
<1>5. NetOrder(w) \in Short /\ NetOrder(w) \div 256 = r /\ NetOrder(w) % 256 = q
  BY <1>4, OctetsOfWord
<1> QED
  BY <1>3, <1>5 DEF NetOrder

(* The line carries the high byte first. *)
LEMMA OnLineBytes ==
    ASSUME NEW w \in Short
    PROVE  OnLine(w) = << w \div 256, w % 256 >>
<1>1. PICK q \in Octet : q = w \div 256
  BY WordBytes
<1>2. PICK r \in Octet : r = w % 256
  BY WordBytes
<1>3. NetOrder(w) = 256 * r + q
  BY <1>1, <1>2 DEF NetOrder
<1>4. NetOrder(w) \div 256 = r /\ NetOrder(w) % 256 = q
  BY <1>3, OctetsOfWord
<1> QED
  BY <1>1, <1>2, <1>4 DEF OnLine, Stored

(* What is found at byte i is made of the two bytes there. *)
LEMMA WordFound ==
    ASSUME NEW buffer, NEW i, NEW x \in Octet, NEW y \in Octet,
           buffer[i] = x, buffer[i + 1] = y
    PROVE  WordAt(buffer, i) = WordOf(x, y)
<1>1. Loaded(buffer, i) = 256 * y + x
  BY DEF Loaded, Octet
<1>2. Loaded(buffer, i) \div 256 = y /\ Loaded(buffer, i) % 256 = x
  BY <1>1, OctetsOfWord
<1> QED
  BY <1>2 DEF WordAt, NetOrder, WordOf

(* A 32-bit field is its two words, in their order. *)
LEMMA FieldFound ==
    ASSUME NEW buffer, NEW i \in Nat
    PROVE  NetOrder32(Loaded32(buffer, i)) = << WordAt(buffer, i), WordAt(buffer, i + 2) >>
  BY DEF NetOrder32, Loaded32, WordAt

(* What a sequence of bytes gains by two, by a word and by a 32-bit field. *)
Lengthened(s, t, n, m) ==
    /\ t \in Seq(Octet)
    /\ Len(t) = n + m
    /\ \A i \in 1 .. n : t[i] = s[i]
    /\ \A i \in 1 .. n - 1 : WordAt(t, i) = WordAt(s, i)

Paired(s, t, n, x, y) ==
    /\ Lengthened(s, t, n, 2)
    /\ t[n + 1] = x /\ t[n + 2] = y
    /\ WordAt(t, n + 1) = WordOf(x, y)

LEMMA OctetsAdded ==
    ASSUME NEW n \in Nat, NEW s \in Seq(Octet), Len(s) = n, NEW x \in Octet, NEW y \in Octet
    PROVE  Paired(s, s \o TwoBytes(x, y), n, x, y)
<1> DEFINE t == s \o TwoBytes(x, y)
<1>1. TwoBytes(x, y) \in Seq(Octet) /\ TwoBytes(x, y) = << x, y >>
  BY DEF TwoBytes
<1>2. t \in Seq(Octet) /\ Len(t) = n + 2
  BY <1>1
<1>3. t[n + 1] = x /\ t[n + 2] = y /\ \A i \in 1 .. n : t[i] = s[i]
  BY <1>1
<1> HIDE DEF t
<1>4. n + 2 = (n + 1) + 1
  OBVIOUS
<1>5. WordAt(t, n + 1) = WordOf(x, y)
  BY <1>3, <1>4, WordFound
<1>6. ASSUME NEW i \in 1 .. n - 1
      PROVE  WordAt(t, i) = WordAt(s, i)
  <2>1. t[i] = s[i] /\ t[i + 1] = s[i + 1]
    BY <1>3
  <2> QED
    BY <2>1 DEF WordAt, Loaded
<1>7. Lengthened(s, t, n, 2)
  BY <1>2, <1>3, <1>6 DEF Lengthened
<1> QED
  BY <1>3, <1>5, <1>7 DEF Paired, t

LEMMA WordAdded ==
    ASSUME NEW n \in Nat, NEW s \in Seq(Octet), Len(s) = n, NEW w \in Short
    PROVE  /\ Lengthened(s, s \o OnLine(w), n, 2)
           /\ WordAt(s \o OnLine(w), n + 1) = w
<1>1. PICK q \in Octet : q = w \div 256
  BY WordBytes
<1>2. PICK r \in Octet : r = w % 256
  BY WordBytes
<1>3. w = WordOf(q, r)
  BY <1>1, <1>2, WordBytes DEF WordOf
<1>4. OnLine(w) = TwoBytes(q, r)
  BY <1>1, <1>2, OnLineBytes DEF TwoBytes
<1>5. Paired(s, s \o TwoBytes(q, r), n, q, r)
  BY OctetsAdded
<1> QED
  BY <1>3, <1>4, <1>5 DEF Paired

LEMMA OctetsAssociate ==
    ASSUME NEW s \in Seq(Octet), NEW u \in Seq(Octet), NEW v \in Seq(Octet)
    PROVE  s \o (u \o v) = (s \o u) \o v
  BY ConcatAssociative

LEMMA FieldAdded ==
    ASSUME NEW n \in Nat, NEW s \in Seq(Octet), Len(s) = n, NEW f \in Short \X Short
    PROVE  /\ Lengthened(s, s \o OnLine32(f), n, 4)
           /\ WordAt(s \o OnLine32(f), n + 1) = f[1]
           /\ WordAt(s \o OnLine32(f), n + 3) = f[2]
<1>1. PICK a \in Short : a = f[1]
  OBVIOUS
<1>2. PICK b \in Short : b = f[2]
  OBVIOUS
<1> DEFINE t == s \o OnLine(a)
<1>3. OnLine32(f) = OnLine(a) \o OnLine(b)
  BY <1>1, <1>2 DEF OnLine32, Stored32, NetOrder32, OnLine
<1>4. OnLine(a) \in Seq(Octet) /\ OnLine(b) \in Seq(Octet)
  <2>1. ASSUME NEW w \in Short PROVE OnLine(w) \in Seq(Octet)
    <3>1. w \div 256 \in Octet /\ w % 256 \in Octet
      BY WordBytes
    <3>2. << w \div 256, w % 256 >> \in Seq(Octet)
      BY <3>1
    <3> QED
      BY <3>2, OnLineBytes, Zenon
  <2> QED
    BY <2>1
<1>5. s \o OnLine32(f) = t \o OnLine(b)
  <2>1. s \o (OnLine(a) \o OnLine(b)) = t \o OnLine(b)
    BY <1>4, OctetsAssociate, Zenon
  <2> QED
    BY <1>3, <2>1, Zenon
<1>6. Lengthened(s, t, n, 2) /\ WordAt(t, n + 1) = a
  BY WordAdded
<1>7. t \in Seq(Octet) /\ Len(t) = n + 2
  BY <1>6 DEF Lengthened
<1> HIDE DEF t
<1>8. PICK k \in Nat : k = n + 2
  OBVIOUS
<1>9. Lengthened(t, t \o OnLine(b), k, 2) /\ WordAt(t \o OnLine(b), k + 1) = b
  BY <1>7, <1>8, WordAdded
<1>10. k + 1 = n + 3 /\ k + 2 = n + 4 /\ n + 1 \in 1 .. k - 1
  BY <1>8
<1>11. WordAt(t \o OnLine(b), n + 1) = a
  BY <1>6, <1>9, <1>10 DEF Lengthened
<1> DEFINE u == t \o OnLine(b)
<1> HIDE DEF u
<1>12. Lengthened(s, u, n, 4)
  <2>1. u \in Seq(Octet) /\ Len(u) = n + 4
    BY <1>8, <1>9 DEF Lengthened, u
  <2>2. ASSUME NEW i \in 1 .. n
        PROVE  u[i] = s[i]
    <3>1. i \in 1 .. k /\ t[i] = s[i]
      BY <1>6, <1>8 DEF Lengthened
    <3> QED
      BY <1>9, <3>1, Zenon DEF Lengthened, u
  <2>3. ASSUME NEW i \in 1 .. n - 1
        PROVE  WordAt(u, i) = WordAt(s, i)
    <3>1. i \in 1 .. k - 1 /\ WordAt(t, i) = WordAt(s, i)
      BY <1>6, <1>8 DEF Lengthened
    <3> QED
      BY <1>9, <3>1, Zenon DEF Lengthened, u
  <2> QED
    BY <2>1, <2>2, <2>3 DEF Lengthened
<1> QED
  BY <1>1, <1>2, <1>5, <1>9, <1>10, <1>11, <1>12 DEF u

(* A header begins with two bytes. *)
LEMMA TwoOctets ==
    ASSUME NEW x \in Octet, NEW y \in Octet, NEW s, s = << x, y >>
    PROVE  /\ s \in Seq(Octet) /\ Len(s) = 2
           /\ s[1] = x /\ s[2] = y
           /\ WordAt(s, 1) = WordOf(x, y)
<1>1. s \in Seq(Octet) /\ Len(s) = 2 /\ s[1] = x /\ s[1 + 1] = y
  OBVIOUS
<1>2. WordAt(s, 1) = WordOf(x, y)
  BY <1>1, WordFound
<1> QED
  BY <1>1, <1>2

(* A header that begins with a word. *)
LEMMA FirstWord ==
    ASSUME NEW w \in Short
    PROVE  /\ OnLine(w) \in Seq(Octet) /\ Len(OnLine(w)) = 2
           /\ WordAt(OnLine(w), 1) = w
<1>1. PICK q \in Octet : q = w \div 256
  BY WordBytes
<1>2. PICK r \in Octet : r = w % 256
  BY WordBytes
<1>3. w = WordOf(q, r) /\ OnLine(w) = << q, r >>
  BY <1>1, <1>2, WordBytes, OnLineBytes DEF WordOf
<1> QED
  BY <1>3, TwoOctets

-----------------------------------------------------------------------------
(* What the reader of a header finds, for any header. *)

LEMMA UdpLine ==
    ASSUME NEW h \in UdpHeaderType
    PROVE  /\ Len(WriteUdp(h)) = 8
           /\ WordAt(WriteUdp(h), 1) = h.src_port
           /\ WordAt(WriteUdp(h), 3) = h.dst_port
           /\ WordAt(WriteUdp(h), 5) = h.tot_len
           /\ WordAt(WriteUdp(h), 7) = h.checksum
<1>1. PICK a \in Short : a = h.src_port
  BY DEF UdpHeaderType
<1>2. PICK b \in Short : b = h.dst_port
  BY DEF UdpHeaderType
<1>3. PICK c \in Short : c = h.tot_len
  BY DEF UdpHeaderType
<1>4. PICK d \in Short : d = h.checksum
  BY DEF UdpHeaderType
<1> DEFINE s1 == OnLine(a)
           s2 == s1 \o OnLine(b)
           s3 == s2 \o OnLine(c)
           s4 == s3 \o OnLine(d)
<1>5. WriteUdp(h) = s4
  BY <1>1, <1>2, <1>3, <1>4 DEF WriteUdp
<1>6. s1 \in Seq(Octet) /\ Len(s1) = 2 /\ WordAt(s1, 1) = a
  BY FirstWord
<1> HIDE DEF s1
<1>7. Lengthened(s1, s2, 2, 2) /\ WordAt(s2, 2 + 1) = b
  BY <1>6, WordAdded
<1> HIDE DEF s2
<1>8. s2 \in Seq(Octet) /\ Len(s2) = 4 /\ WordAt(s2, 1) = a /\ WordAt(s2, 3) = b
  BY <1>6, <1>7 DEF Lengthened
<1>9. Lengthened(s2, s3, 4, 2) /\ WordAt(s3, 4 + 1) = c
  BY <1>8, WordAdded
<1> HIDE DEF s3
<1>10. /\ s3 \in Seq(Octet) /\ Len(s3) = 6
       /\ WordAt(s3, 1) = a /\ WordAt(s3, 3) = b /\ WordAt(s3, 5) = c
  BY <1>8, <1>9 DEF Lengthened
<1>11. Lengthened(s3, s4, 6, 2) /\ WordAt(s4, 6 + 1) = d
  BY <1>10, WordAdded
<1> HIDE DEF s4
<1>12. /\ Len(s4) = 8
       /\ WordAt(s4, 1) = a /\ WordAt(s4, 3) = b /\ WordAt(s4, 5) = c /\ WordAt(s4, 7) = d
  BY <1>10, <1>11 DEF Lengthened
<1> QED
  BY <1>1, <1>2, <1>3, <1>4, <1>5, <1>12

LEMMA UdpReadBack ==
    ASSUME NEW h \in UdpHeaderType
    PROVE  ReadUdp(WriteUdp(h)) = h
<1> DEFINE line == WriteUdp(h)
<1>1. ReadUdp(line) = [src_port |-> WordAt(line, 1), dst_port |-> WordAt(line, 3),
                       tot_len |-> WordAt(line, 5), checksum |-> WordAt(line, 7)]
  BY DEF ReadUdp, WordAt
<1>2. h = [src_port |-> h.src_port, dst_port |-> h.dst_port,
           tot_len |-> h.tot_len, checksum |-> h.checksum]
  BY DEF UdpHeaderType
<1> HIDE DEF line
<1> QED
  BY <1>1, <1>2, UdpLine DEF line

LEMMA PseudoIpv4Line ==
    ASSUME NEW h \in PseudoIpv4HeaderType
    PROVE  /\ Len(WritePseudoIpv4(h)) = 12
           /\ WordAt(WritePseudoIpv4(h), 1) = h.src_addr[1]
           /\ WordAt(WritePseudoIpv4(h), 3) = h.src_addr[2]
           /\ WordAt(WritePseudoIpv4(h), 5) = h.dst_addr[1]
           /\ WordAt(WritePseudoIpv4(h), 7) = h.dst_addr[2]
           /\ WordAt(WritePseudoIpv4(h), 9) = h.protocol
           /\ WordAt(WritePseudoIpv4(h), 11) = h.data_len
<1>1. PICK a \in Short \X Short : a = h.src_addr
  BY DEF PseudoIpv4HeaderType
<1>2. PICK b \in Short \X Short : b = h.dst_addr
  BY DEF PseudoIpv4HeaderType
<1>3. PICK c \in Octet : c = h.protocol
  BY DEF PseudoIpv4HeaderType
<1>4. PICK d \in Short : d = h.data_len
  BY DEF PseudoIpv4HeaderType
<1>5. << >> \in Seq(Octet) /\ Len(<< >>) = 0 /\ 0 \in Octet /\ c \in Nat
  BY DEF Octet
<1> DEFINE s1 == << >> \o OnLine32(a)
           s2 == s1 \o OnLine32(b)
           s3 == s2 \o TwoBytes(0, c)
           s4 == s3 \o OnLine(d)
<1>6. Lengthened(<< >>, s1, 0, 4) /\ WordAt(s1, 0 + 1) = a[1] /\ WordAt(s1, 0 + 3) = a[2]
  BY <1>5, FieldAdded
<1>7. WritePseudoIpv4(h) = s4
  <2>1. OnLine32(a) = s1
    <3>1. PICK x \in Short : x = a[1]
      OBVIOUS
    <3>2. PICK y \in Short : y = a[2]
      OBVIOUS
    <3>3. OnLine32(a) = OnLine(x) \o OnLine(y)
      BY <3>1, <3>2 DEF OnLine32, Stored32, NetOrder32, OnLine
    <3>4. OnLine32(a) \in Seq(Octet)
      BY <3>3, FirstWord
    <3> QED
      BY <3>4, ConcatSimplifications
  <2> HIDE DEF s1
  <2> QED
    BY <1>1, <1>2, <1>3, <1>4, <2>1 DEF WritePseudoIpv4, TwoBytes
<1> HIDE DEF s1
<1>8. s1 \in Seq(Octet) /\ Len(s1) = 4 /\ WordAt(s1, 1) = a[1] /\ WordAt(s1, 3) = a[2]
  BY <1>6 DEF Lengthened
<1>9. Lengthened(s1, s2, 4, 4) /\ WordAt(s2, 4 + 1) = b[1] /\ WordAt(s2, 4 + 3) = b[2]
  BY <1>8, FieldAdded
<1> HIDE DEF s2
<1>10. /\ s2 \in Seq(Octet) /\ Len(s2) = 8
       /\ WordAt(s2, 1) = a[1] /\ WordAt(s2, 3) = a[2]
       /\ WordAt(s2, 5) = b[1] /\ WordAt(s2, 7) = b[2]
  BY <1>8, <1>9 DEF Lengthened
<1>11. Lengthened(s2, s3, 8, 2) /\ WordAt(s3, 8 + 1) = c
  <2>1. Paired(s2, s3, 8, 0, c)
    BY <1>5, <1>10, OctetsAdded
  <2>2. WordOf(0, c) = c
    BY <1>5 DEF WordOf
  <2> QED
    BY <2>1, <2>2 DEF Paired
<1> HIDE DEF s3
<1>12. /\ s3 \in Seq(Octet) /\ Len(s3) = 10
       /\ WordAt(s3, 1) = a[1] /\ WordAt(s3, 3) = a[2]
       /\ WordAt(s3, 5) = b[1] /\ WordAt(s3, 7) = b[2] /\ WordAt(s3, 9) = c
  BY <1>5, <1>10, <1>11 DEF Lengthened
<1>13. Lengthened(s3, s4, 10, 2) /\ WordAt(s4, 10 + 1) = d
  BY <1>12, WordAdded
<1> HIDE DEF s4
<1>14. /\ Len(s4) = 12
       /\ WordAt(s4, 1) = a[1] /\ WordAt(s4, 3) = a[2]
       /\ WordAt(s4, 5) = b[1] /\ WordAt(s4, 7) = b[2]
       /\ WordAt(s4, 9) = c /\ WordAt(s4, 11) = d
  BY <1>12, <1>13 DEF Lengthened
<1> QED
  BY <1>1, <1>2, <1>3, <1>4, <1>7, <1>14

LEMMA RtpLine ==
    ASSUME NEW h \in RtpHeaderType
    PROVE  LET line == WriteRtp(h)
           IN  /\ Len(line) = 12
               /\ line[1] = 64 * h.version + 32 * h.p + 16 * h.x + h.cc
               /\ line[2] = 128 * h.m + h.payload
               /\ WordAt(line, 1) = WordOf(line[1], line[2])
               /\ WordAt(line, 3) = h.seq_num
               /\ WordAt(line, 5) = h.timestamp[1] /\ WordAt(line, 7) = h.timestamp[2]
               /\ WordAt(line, 9) = h.ssrc[1] /\ WordAt(line, 11) = h.ssrc[2]
<1>1. PICK a \in Octet : a = 64 * h.version + 32 * h.p + 16 * h.x + h.cc
  BY DEF RtpHeaderType, Octet
<1>2. PICK b \in Octet : b = 128 * h.m + h.payload
  BY DEF RtpHeaderType, Octet
<1>3. PICK c \in Short : c = h.seq_num
  BY DEF RtpHeaderType
<1>4. PICK d \in Short \X Short : d = h.timestamp
  BY DEF RtpHeaderType
<1>5. PICK e \in Short \X Short : e = h.ssrc
  BY DEF RtpHeaderType
<1> DEFINE s1 == << a, b >>
           s2 == s1 \o OnLine(c)
           s3 == s2 \o OnLine32(d)
           s4 == s3 \o OnLine32(e)
<1>6. WriteRtp(h) = s4
  BY <1>1, <1>2, <1>3, <1>4, <1>5 DEF WriteRtp
<1>7. /\ s1 \in Seq(Octet) /\ Len(s1) = 2
      /\ s1[1] = a /\ s1[2] = b /\ WordAt(s1, 1) = WordOf(a, b)
  <2>1. s1 = << a, b >>
    OBVIOUS
  <2> HIDE DEF s1
  <2> QED
    BY <2>1, TwoOctets
<1> HIDE DEF s1
<1>8. Lengthened(s1, s2, 2, 2) /\ WordAt(s2, 2 + 1) = c
  BY <1>7, WordAdded
<1> HIDE DEF s2
<1>9. /\ s2 \in Seq(Octet) /\ Len(s2) = 4
      /\ s2[1] = a /\ s2[2] = b /\ WordAt(s2, 1) = WordOf(a, b) /\ WordAt(s2, 3) = c
  BY <1>7, <1>8 DEF Lengthened
<1>10. Lengthened(s2, s3, 4, 4) /\ WordAt(s3, 4 + 1) = d[1] /\ WordAt(s3, 4 + 3) = d[2]
  BY <1>9, FieldAdded
<1> HIDE DEF s3
<1>11. /\ s3 \in Seq(Octet) /\ Len(s3) = 8
       /\ s3[1] = a /\ s3[2] = b /\ WordAt(s3, 1) = WordOf(a, b) /\ WordAt(s3, 3) = c
       /\ WordAt(s3, 5) = d[1] /\ WordAt(s3, 7) = d[2]
  BY <1>9, <1>10 DEF Lengthened
<1>12. Lengthened(s3, s4, 8, 4) /\ WordAt(s4, 8 + 1) = e[1] /\ WordAt(s4, 8 + 3) = e[2]
  BY <1>11, FieldAdded
<1> HIDE DEF s4
<1>13. /\ Len(s4) = 12
       /\ s4[1] = a /\ s4[2] = b /\ WordAt(s4, 1) = WordOf(a, b) /\ WordAt(s4, 3) = c
       /\ WordAt(s4, 5) = d[1] /\ WordAt(s4, 7) = d[2]
       /\ WordAt(s4, 9) = e[1] /\ WordAt(s4, 11) = e[2]
  BY <1>11, <1>12 DEF Lengthened
<1> QED
  BY <1>1, <1>2, <1>3, <1>4, <1>5, <1>6, <1>13

LEMMA Ipv4Line ==
    ASSUME NEW h \in Ipv4HeaderType
    PROVE  LET line == WriteIpv4(h)
           IN  /\ Len(line) = 20 /\ line \in Seq(Octet)
               /\ line[1] = 16 * h.version + h.hdr_len /\ line[2] = h.service_type
               /\ WordAt(line, 1) = WordOf(line[1], line[2])
               /\ WordAt(line, 3) = h.tot_len
               /\ WordAt(line, 5) = h.id
               /\ WordAt(line, 7) = h.fragment
               /\ line[9] = h.ttl /\ line[10] = h.protocol
               /\ WordAt(line, 9) = WordOf(line[9], line[10])
               /\ WordAt(line, 11) = h.checksum
               /\ WordAt(line, 13) = h.src_addr[1] /\ WordAt(line, 15) = h.src_addr[2]
               /\ WordAt(line, 17) = h.dst_addr[1] /\ WordAt(line, 19) = h.dst_addr[2]
<1>1. PICK a \in Octet : a = 16 * h.version + h.hdr_len
  BY DEF Ipv4HeaderType, Octet
<1>2. PICK b \in Octet : b = h.service_type
  BY DEF Ipv4HeaderType
<1>3. PICK c \in Short : c = h.tot_len
  BY DEF Ipv4HeaderType
<1>4. PICK d \in Short : d = h.id
  BY DEF Ipv4HeaderType
<1>5. PICK e \in Short : e = h.fragment
  BY DEF Ipv4HeaderType
<1>6. PICK f \in Octet : f = h.ttl
  BY DEF Ipv4HeaderType
<1>7. PICK g \in Octet : g = h.protocol
  BY DEF Ipv4HeaderType
<1>8. PICK k \in Short : k = h.checksum
  BY DEF Ipv4HeaderType
<1>9. PICK l \in Short \X Short : l = h.src_addr
  BY DEF Ipv4HeaderType
<1>10. PICK m \in Short \X Short : m = h.dst_addr
  BY DEF Ipv4HeaderType
<1> DEFINE s1 == << a, b >>
           s2 == s1 \o OnLine(c)
           s3 == s2 \o OnLine(d)
           s4 == s3 \o OnLine(e)
           s5 == s4 \o TwoBytes(f, g)
           s6 == s5 \o OnLine(k)
           s7 == s6 \o OnLine32(l)
           s8 == s7 \o OnLine32(m)
           head(s) == /\ s[1] = a /\ s[2] = b
                      /\ WordAt(s, 1) = WordOf(a, b) /\ WordAt(s, 3) = c /\ WordAt(s, 5) = d
           middle(s) == /\ WordAt(s, 7) = e
                        /\ s[9] = f /\ s[10] = g /\ WordAt(s, 9) = WordOf(f, g)
                        /\ WordAt(s, 11) = k
<1>11. WriteIpv4(h) = s8
  BY <1>1, <1>2, <1>3, <1>4, <1>5, <1>6, <1>7, <1>8, <1>9, <1>10 DEF WriteIpv4, TwoBytes
<1>12. /\ s1 \in Seq(Octet) /\ Len(s1) = 2
       /\ s1[1] = a /\ s1[2] = b /\ WordAt(s1, 1) = WordOf(a, b)
  <2>1. s1 = << a, b >>
    OBVIOUS
  <2> HIDE DEF s1
  <2> QED
    BY <2>1, TwoOctets
<1> HIDE DEF s1
<1>13. Lengthened(s1, s2, 2, 2) /\ WordAt(s2, 2 + 1) = c
  BY <1>12, WordAdded
<1> HIDE DEF s2
<1>14. /\ s2 \in Seq(Octet) /\ Len(s2) = 4
       /\ s2[1] = a /\ s2[2] = b /\ WordAt(s2, 1) = WordOf(a, b) /\ WordAt(s2, 3) = c
  BY <1>12, <1>13 DEF Lengthened
<1>15. Lengthened(s2, s3, 4, 2) /\ WordAt(s3, 4 + 1) = d
  BY <1>14, WordAdded
<1> HIDE DEF s3
<1>16. s3 \in Seq(Octet) /\ Len(s3) = 6 /\ head(s3)
  BY <1>14, <1>15 DEF Lengthened
<1>17. Lengthened(s3, s4, 6, 2) /\ WordAt(s4, 6 + 1) = e
  BY <1>16, WordAdded
<1> HIDE DEF s4
<1>18. s4 \in Seq(Octet) /\ Len(s4) = 8 /\ head(s4) /\ WordAt(s4, 7) = e
  BY <1>16, <1>17 DEF Lengthened
<1>19. Paired(s4, s5, 8, f, g)
  BY <1>18, OctetsAdded
<1> HIDE DEF s5
<1>20. /\ s5 \in Seq(Octet) /\ Len(s5) = 10 /\ head(s5)
       /\ WordAt(s5, 7) = e /\ s5[9] = f /\ s5[10] = g /\ WordAt(s5, 9) = WordOf(f, g)
  BY <1>18, <1>19 DEF Lengthened, Paired
<1>21. Lengthened(s5, s6, 10, 2) /\ WordAt(s6, 10 + 1) = k
  BY <1>20, WordAdded
<1> HIDE DEF s6
<1>22. s6 \in Seq(Octet) /\ Len(s6) = 12 /\ head(s6) /\ middle(s6)
  BY <1>20, <1>21 DEF Lengthened
<1>23. Lengthened(s6, s7, 12, 4) /\ WordAt(s7, 12 + 1) = l[1] /\ WordAt(s7, 12 + 3) = l[2]
  BY <1>22, FieldAdded
<1> HIDE DEF s7
<1>24. /\ s7 \in Seq(Octet) /\ Len(s7) = 16 /\ head(s7) /\ middle(s7)
       /\ WordAt(s7, 13) = l[1] /\ WordAt(s7, 15) = l[2]
  BY <1>22, <1>23 DEF Lengthened
<1>25. Lengthened(s7, s8, 16, 4) /\ WordAt(s8, 16 + 1) = m[1] /\ WordAt(s8, 16 + 3) = m[2]
  BY <1>24, FieldAdded
<1> HIDE DEF s8
<1>26. /\ Len(s8) = 20 /\ s8 \in Seq(Octet) /\ head(s8) /\ middle(s8)
       /\ WordAt(s8, 13) = l[1] /\ WordAt(s8, 15) = l[2]
       /\ WordAt(s8, 17) = m[1] /\ WordAt(s8, 19) = m[2]
  BY <1>24, <1>25 DEF Lengthened
<1> QED
  BY <1>1, <1>2, <1>3, <1>4, <1>5, <1>6, <1>7, <1>8, <1>9, <1>10, <1>11, <1>26

LEMMA Ipv4ReadBack ==
    ASSUME NEW h \in Ipv4HeaderType
    PROVE  ReadIpv4(WriteIpv4(h)) = [h EXCEPT !.fragment = NetOrder(h.fragment)]
<1> DEFINE line == WriteIpv4(h)
<1>1. ReadIpv4(line)
        = [version |-> line[1] \div 16, hdr_len |-> line[1] % 16, service_type |-> line[2],
           tot_len |-> WordAt(line, 3), id |-> WordAt(line, 5), fragment |-> Loaded(line, 7),
           ttl |-> line[9], protocol |-> line[10], checksum |-> WordAt(line, 11),
           src_addr |-> << WordAt(line, 13), WordAt(line, 15) >>,
           dst_addr |-> << WordAt(line, 17), WordAt(line, 19) >>]
  BY FieldFound DEF ReadIpv4, WordAt
<1>2. line[1] \div 16 = h.version /\ line[1] % 16 = h.hdr_len
  <2>1. PICK q \in Nat : q = h.version
    BY DEF Ipv4HeaderType
  <2>2. PICK r \in Nat : r = h.hdr_len /\ r < 16
    BY DEF Ipv4HeaderType
  <2>3. line[1] = 16 * q + r
    BY <2>1, <2>2, Ipv4Line
  <2> HIDE DEF line
  <2> QED
    BY <2>1, <2>2, <2>3, Z3
<1>3. Loaded(line, 7) = NetOrder(h.fragment)
  <2>1. Len(line) = 20 /\ line \in Seq(Octet) /\ WordAt(line, 7) = h.fragment
    BY Ipv4Line
  <2> HIDE DEF line
  <2> DEFINE n == Len(line)
  <2>a. 7 \in 1 .. n /\ 8 \in 1 .. n
    BY <2>1
  <2> HIDE DEF n
  <2>2. PICK x \in Octet : x = line[7]
    BY <2>1, <2>a, ElementOfSeq, Zenon DEF n
  <2>3. PICK y \in Octet : y = line[8]
    BY <2>1, <2>a, ElementOfSeq, Zenon DEF n
  <2>4. Loaded(line, 7) = 256 * y + x
    BY <2>2, <2>3 DEF Loaded, Octet
  <2>5. Loaded(line, 7) \in Short
    BY <2>4, OctetsOfWord
  <2> QED
    BY <2>1, <2>5, NetOrderInverse DEF WordAt
<1>4. /\ line[2] = h.service_type
      /\ WordAt(line, 3) = h.tot_len /\ WordAt(line, 5) = h.id
      /\ line[9] = h.ttl /\ line[10] = h.protocol /\ WordAt(line, 11) = h.checksum
      /\ << WordAt(line, 13), WordAt(line, 15) >> = h.src_addr
      /\ << WordAt(line, 17), WordAt(line, 19) >> = h.dst_addr
  <2>1. h.src_addr \in Short \X Short /\ h.dst_addr \in Short \X Short
    BY DEF Ipv4HeaderType
  <2> QED
    BY <2>1, Ipv4Line
<1> HIDE DEF line
<1>5. ReadIpv4(line)
        = [version |-> h.version, hdr_len |-> h.hdr_len, service_type |-> h.service_type,
           tot_len |-> h.tot_len, id |-> h.id, fragment |-> NetOrder(h.fragment),
           ttl |-> h.ttl, protocol |-> h.protocol, checksum |-> h.checksum,
           src_addr |-> h.src_addr, dst_addr |-> h.dst_addr]
  BY <1>1, <1>2, <1>3, <1>4, Zenon
<1> QED
  BY <1>5 DEF line, Ipv4HeaderType

LEMMA RtpReadBack ==
    ASSUME NEW h \in RtpHeaderType
    PROVE  ReadRtp(WriteRtp(h)) = h
<1> DEFINE line == WriteRtp(h)
<1>1. ReadRtp(line)
        = [version |-> line[1] \div 64, p |-> (line[1] \div 32) % 2,
           x |-> (line[1] \div 16) % 2, cc |-> line[1] % 16,
           m |-> line[2] \div 128, payload |-> line[2] % 128,
           seq_num |-> WordAt(line, 3),
           timestamp |-> << WordAt(line, 5), WordAt(line, 7) >>,
           ssrc |-> << WordAt(line, 9), WordAt(line, 11) >>]
  BY FieldFound DEF ReadRtp, WordAt
<1>2. PICK v \in 0 .. 3 : v = h.version
  BY DEF RtpHeaderType
<1>3. PICK p \in 0 .. 1 : p = h.p
  BY DEF RtpHeaderType
<1>4. PICK x \in 0 .. 1 : x = h.x
  BY DEF RtpHeaderType
<1>5. PICK c \in 0 .. 15 : c = h.cc
  BY DEF RtpHeaderType
<1>6. PICK m \in 0 .. 1 : m = h.m
  BY DEF RtpHeaderType
<1>7. PICK n \in 0 .. 127 : n = h.payload
  BY DEF RtpHeaderType
<1>8. line[1] = 64 * v + 32 * p + 16 * x + c /\ line[2] = 128 * m + n
  BY <1>2, <1>3, <1>4, <1>5, <1>6, <1>7, RtpLine
<1>9. /\ WordAt(line, 3) = h.seq_num
      /\ << WordAt(line, 5), WordAt(line, 7) >> = h.timestamp
      /\ << WordAt(line, 9), WordAt(line, 11) >> = h.ssrc
  <2>1. h.timestamp \in Short \X Short /\ h.ssrc \in Short \X Short
    BY DEF RtpHeaderType
  <2> QED
    BY <2>1, RtpLine
<1> HIDE DEF line
<1>10. line[1] \div 64 = v
  BY <1>8, Z3
<1>11. (line[1] \div 32) % 2 = p
  BY <1>8, Z3
<1>12. (line[1] \div 16) % 2 = x
  BY <1>8, Z3
<1>13. line[1] % 16 = c
  BY <1>8, Z3
<1>14. line[2] \div 128 = m /\ line[2] % 128 = n
  BY <1>8, Z3
<1>15. ReadRtp(line)
         = [version |-> h.version, p |-> h.p, x |-> h.x, cc |-> h.cc, m |-> h.m,
            payload |-> h.payload, seq_num |-> h.seq_num, timestamp |-> h.timestamp,
            ssrc |-> h.ssrc]
  BY <1>1, <1>2, <1>3, <1>4, <1>5, <1>6, <1>7, <1>9, <1>10, <1>11, <1>12, <1>13, <1>14, Zenon
<1> QED
  BY <1>15 DEF line, RtpHeaderType

LEMMA MacsJoined ==
    ASSUME NEW d \in Seq(Octet), Len(d) = 6, NEW s \in Seq(Octet), Len(s) = 6
    PROVE  /\ d \o s \in Seq(Octet) /\ Len(d \o s) = 12
           /\ \A i \in 1 .. 6 : (d \o s)[i] = d[i] /\ (d \o s)[i + 6] = s[i]
<1>1. d \o s \in Seq(Octet) /\ Len(d \o s) = Len(d) + Len(s)
  BY ConcatProperties
<1>2. \A i \in 1 .. Len(d) + Len(s) :
         (d \o s)[i] = IF i <= Len(d) THEN d[i] ELSE s[i - Len(d)]
  BY ConcatProperties
<1> DEFINE u == d \o s
<1> HIDE DEF u
<1>3. ASSUME NEW i \in 1 .. 6
      PROVE  u[i] = d[i] /\ u[i + 6] = s[i]
  <2>1. /\ i \in 1 .. Len(d) + Len(s) /\ i <= Len(d)
        /\ i + 6 \in 1 .. Len(d) + Len(s) /\ ~ (i + 6 <= Len(d)) /\ (i + 6) - Len(d) = i
    OBVIOUS
  <2>2. u[i] = d[i]
    BY <1>2, <2>1 DEF u
  <2>3. u[i + 6] = s[(i + 6) - Len(d)]
    BY <1>2, <2>1 DEF u
  <2> QED
    BY <2>1, <2>2, <2>3
<1> QED
  BY <1>1, <1>3 DEF u

LEMMA EthReadBack ==
    ASSUME NEW h \in EthHeaderType
    PROVE  ReadEth(WriteEth(h)) = h
<1>1. PICK d \in [1 .. 6 -> Octet] : d = h.dst_mac
  BY DEF EthHeaderType
<1>2. PICK s \in [1 .. 6 -> Octet] : s = h.src_mac
  BY DEF EthHeaderType
<1>3. PICK e \in Short : e = h.eth_type
  BY DEF EthHeaderType
<1>4. d \in Seq(Octet) /\ Len(d) = 6 /\ s \in Seq(Octet) /\ Len(s) = 6
  <2>1. ASSUME NEW n \in Nat, NEW f \in [1 .. n -> Octet]
        PROVE  f \in Seq(Octet) /\ Len(f) = n
    OBVIOUS
  <2> QED
    BY <2>1
<1> DEFINE u == d \o s
           line == u \o OnLine(e)
<1>5. WriteEth(h) = line
  BY <1>1, <1>2, <1>3 DEF WriteEth
<1>6. /\ u \in Seq(Octet) /\ Len(u) = 12
      /\ \A i \in 1 .. 6 : u[i] = d[i] /\ u[i + 6] = s[i]
  BY <1>4, MacsJoined
<1> HIDE DEF u
<1>7. Lengthened(u, line, 12, 2) /\ WordAt(line, 12 + 1) = e
  BY <1>6, WordAdded
<1> HIDE DEF line
<1>8. /\ line \in Seq(Octet) /\ Len(line) = 14 /\ WordAt(line, 13) = e
      /\ \A i \in 1 .. 6 : line[i] = d[i] /\ line[i + 6] = s[i]
  BY <1>6, <1>7 DEF Lengthened
<1>9. SubSeq(line, 1, 6) = d
  BY <1>8
<1>10. SubSeq(line, 7, 12) = s
  BY <1>8
<1>11. ReadEth(line) = [dst_mac |-> d, src_mac |-> s, eth_type |-> e]
  BY <1>8, <1>9, <1>10 DEF ReadEth, WordAt
<1> QED
  BY <1>1, <1>2, <1>3, <1>5, <1>11 DEF EthHeaderType

-----------------------------------------------------------------------------
(* The sum of the words on the line *)

(* A nonempty set of natural numbers has a least element. *)
LEMMA LeastNumber ==
    ASSUME NEW S \in SUBSET Nat, S # {}
    PROVE  \E x \in S : \A y \in S : x <= y
<1> DEFINE R == {ss \in Nat \X Nat : ss[1] < ss[2]}
<1>1. IsWellFoundedOn(R, Nat)
  BY NatLessThanWellFounded DEF OpToRel
<1>2. PICK x \in S : \A y \in S : ~ (<< y, x >> \in R)
  <2> HIDE DEF R
  <2> QED
    BY <1>1, WFMin
<1>3. ASSUME NEW y \in S
      PROVE  x <= y
  <2>1. << y, x >> \in Nat \X Nat /\ ~ (<< y, x >> \in R)
    BY <1>2
  <2>2. ~ (y < x)
    BY <2>1
  <2> QED
    BY <2>2
<1> QED
  BY <1>3

(* The partial sums of the loop exist, *)
PartialSums(f, buffer, n) ==
    f = [i \in 0 .. n |-> IF i = 0 THEN 0 ELSE f[i - 1] + WordAt(buffer, 2 * i - 1)]

LEMMA PartialSumsExist ==
    ASSUME NEW buffer, NEW n \in Nat
    PROVE  \E f : PartialSums(f, buffer, n)
<1> DEFINE w(i) == WordAt(buffer, 2 * i - 1)
           Missing == {m \in Nat : ~ \E f : PartialSums(f, buffer, m)}
<1>1. SUFFICES ASSUME Missing # {} PROVE FALSE
  OBVIOUS
<1>2. PICK m \in Missing : \A y \in Missing : m <= y
  BY <1>1, LeastNumber
<1>3. m # 0
  <2>1. PartialSums([i \in 0 .. 0 |-> 0], buffer, 0)
    BY DEF PartialSums
  <2> QED
    BY <2>1
<1>4. m - 1 \in Nat /\ m - 1 \notin Missing /\ m \in Nat
  BY <1>2, <1>3
<1>5. PICK f : PartialSums(f, buffer, m - 1)
  BY <1>4
<1> DEFINE g == [i \in 0 .. m |-> IF i = m THEN f[m - 1] + w(m) ELSE f[i]]
<1>6. ASSUME NEW i \in 0 .. m
      PROVE  g[i] = IF i = 0 THEN 0 ELSE g[i - 1] + w(i)
  <2>1. CASE i = m
    BY <1>3, <1>4, <2>1
  <2>2. CASE i # m
    <3>1. i \in 0 .. m - 1 /\ g[i] = f[i]
      BY <1>4, <2>2
    <3>2. f[i] = IF i = 0 THEN 0 ELSE f[i - 1] + w(i)
      BY <1>5, <3>1, Zenon DEF PartialSums
    <3>3. i # 0 => i - 1 \in 0 .. m /\ i - 1 # m /\ g[i - 1] = f[i - 1]
      BY <1>4, <3>1
    <3> QED
      BY <3>1, <3>2, <3>3
  <2> QED
    BY <2>1, <2>2
<1>7. g = [i \in 0 .. m |-> IF i = 0 THEN 0 ELSE g[i - 1] + w(i)]
  <2>1. g = [i \in 0 .. m |-> g[i]]
    OBVIOUS
  <2> HIDE DEF g, w
  <2> QED
    BY <1>6, <2>1, Zenon
<1>8. PartialSums(g, buffer, m)
  <2> HIDE DEF g
  <2> QED
    BY <1>7, Zenon DEF PartialSums
<1> QED
  BY <1>8

(* ... and the last one is the sum of a header, which has no odd byte. *)
LEMMA LineSumSteps ==
    ASSUME NEW buffer, NEW n \in Nat, Len(buffer) = 2 * n
    PROVE  \E f : PartialSums(f, buffer, n) /\ LineSum(buffer) = f[n] + 0
<1> DEFINE f == CHOOSE sum :
                  sum = [i \in 0 .. n |->
                           IF i = 0 THEN 0
                           ELSE sum[i - 1] + NetOrder(Loaded(buffer, 2 * i - 1))]
<1>1. PartialSums(f, buffer, n)
  <2>1. \E sum : sum = [i \in 0 .. n |->
                          IF i = 0 THEN 0
                          ELSE sum[i - 1] + NetOrder(Loaded(buffer, 2 * i - 1))]
    BY PartialSumsExist, Zenon DEF PartialSums, WordAt
  <2> QED
    BY <2>1, Zenon DEF PartialSums, WordAt
<1>2. Len(buffer) \div 2 = n /\ Len(buffer) % 2 = 0 /\ Len(buffer) % 2 # 1
  BY Z3
<1>3. LineSum(buffer) = f[n] + 0
  BY <1>2, Zenon DEF LineSum
<1> QED
  BY <1>1, <1>3, Zenon

LEMMA SumUnrolled ==
    ASSUME NEW buffer, NEW n \in Nat, NEW f, PartialSums(f, buffer, n)
    PROVE  /\ f[0] = 0
           /\ \A i \in 1 .. n : f[i] = f[i - 1] + WordAt(buffer, 2 * i - 1)
<1>1. \A i \in 0 .. n : f[i] = IF i = 0 THEN 0 ELSE f[i - 1] + WordAt(buffer, 2 * i - 1)
  BY Zenon DEF PartialSums
<1>2. 0 \in 0 .. n /\ \A i \in 1 .. n : i \in 0 .. n /\ i # 0
  OBVIOUS
<1> QED
  BY <1>1, <1>2, Zenon

(* Headers are of 4, 6 and 10 words. *)
LEMMA SumOfFour ==
    ASSUME NEW buffer, Len(buffer) = 8,
           \A i \in 1 .. 4 : WordAt(buffer, 2 * i - 1) \in Int
    PROVE  LineSum(buffer) = WordAt(buffer, 1) + WordAt(buffer, 3) + WordAt(buffer, 5)
                                 + WordAt(buffer, 7)
<1>1. PICK f : PartialSums(f, buffer, 4) /\ LineSum(buffer) = f[4] + 0
  <2>1. PICK n \in Nat : n = 4
    OBVIOUS
  <2>2. Len(buffer) = 2 * n
    BY <2>1
  <2>3. PICK f : PartialSums(f, buffer, n) /\ LineSum(buffer) = f[n] + 0
    BY <2>2, LineSumSteps
  <2> QED
    BY <2>1, <2>3
<1>2. f[0] = 0 /\ \A i \in 1 .. 4 : f[i] = f[i - 1] + WordAt(buffer, 2 * i - 1)
  BY <1>1, SumUnrolled
<1>3. /\ WordAt(buffer, 1) \in Int /\ WordAt(buffer, 3) \in Int
      /\ WordAt(buffer, 5) \in Int /\ WordAt(buffer, 7) \in Int
  OBVIOUS
<1>4. f[1] = WordAt(buffer, 1)
  BY <1>2, <1>3
<1>5. f[2] = f[1] + WordAt(buffer, 3)
  BY <1>2
<1>6. f[3] = f[2] + WordAt(buffer, 5)
  BY <1>2
<1>7. f[4] = f[3] + WordAt(buffer, 7)
  BY <1>2
<1> QED
  BY <1>1, <1>3, <1>4, <1>5, <1>6, <1>7

LEMMA SumOfSix ==
    ASSUME NEW buffer, Len(buffer) = 12,
           \A i \in 1 .. 6 : WordAt(buffer, 2 * i - 1) \in Int
    PROVE  LineSum(buffer) = WordAt(buffer, 1) + WordAt(buffer, 3) + WordAt(buffer, 5)
                                 + WordAt(buffer, 7) + WordAt(buffer, 9) + WordAt(buffer, 11)
<1>1. PICK f : PartialSums(f, buffer, 6) /\ LineSum(buffer) = f[6] + 0
  <2>1. PICK n \in Nat : n = 6
    OBVIOUS
  <2>2. Len(buffer) = 2 * n
    BY <2>1
  <2>3. PICK f : PartialSums(f, buffer, n) /\ LineSum(buffer) = f[n] + 0
    BY <2>2, LineSumSteps
  <2> QED
    BY <2>1, <2>3
<1>2. f[0] = 0 /\ \A i \in 1 .. 6 : f[i] = f[i - 1] + WordAt(buffer, 2 * i - 1)
  BY <1>1, SumUnrolled
<1>3. /\ WordAt(buffer, 1) \in Int /\ WordAt(buffer, 3) \in Int
      /\ WordAt(buffer, 5) \in Int /\ WordAt(buffer, 7) \in Int
      /\ WordAt(buffer, 9) \in Int /\ WordAt(buffer, 11) \in Int
  OBVIOUS
<1>4. f[1] = WordAt(buffer, 1)
  BY <1>2, <1>3
<1>5. f[2] = f[1] + WordAt(buffer, 3)
  BY <1>2
<1>6. f[3] = f[2] + WordAt(buffer, 5)
  BY <1>2
<1>7. f[4] = f[3] + WordAt(buffer, 7)
  BY <1>2
<1>8. f[5] = f[4] + WordAt(buffer, 9)
  BY <1>2
<1>9. f[6] = f[5] + WordAt(buffer, 11)
  BY <1>2
<1> QED
  BY <1>1, <1>3, <1>4, <1>5, <1>6, <1>7, <1>8, <1>9

LEMMA SumOfTen ==
    ASSUME NEW buffer, Len(buffer) = 20,
           \A i \in 1 .. 10 : WordAt(buffer, 2 * i - 1) \in Int
    PROVE  LineSum(buffer) = WordAt(buffer, 1) + WordAt(buffer, 3) + WordAt(buffer, 5)
                                 + WordAt(buffer, 7) + WordAt(buffer, 9) + WordAt(buffer, 11)
                                 + WordAt(buffer, 13) + WordAt(buffer, 15)
                                 + WordAt(buffer, 17) + WordAt(buffer, 19)
<1>1. PICK f : PartialSums(f, buffer, 10) /\ LineSum(buffer) = f[10] + 0
  <2>1. PICK n \in Nat : n = 10
    OBVIOUS
  <2>2. Len(buffer) = 2 * n
    BY <2>1
  <2>3. PICK f : PartialSums(f, buffer, n) /\ LineSum(buffer) = f[n] + 0
    BY <2>2, LineSumSteps
  <2> QED
    BY <2>1, <2>3
<1>2. f[0] = 0 /\ \A i \in 1 .. 10 : f[i] = f[i - 1] + WordAt(buffer, 2 * i - 1)
  BY <1>1, SumUnrolled
<1>3. /\ WordAt(buffer, 1) \in Int /\ WordAt(buffer, 3) \in Int
      /\ WordAt(buffer, 5) \in Int /\ WordAt(buffer, 7) \in Int
      /\ WordAt(buffer, 9) \in Int /\ WordAt(buffer, 11) \in Int
      /\ WordAt(buffer, 13) \in Int /\ WordAt(buffer, 15) \in Int
      /\ WordAt(buffer, 17) \in Int /\ WordAt(buffer, 19) \in Int
  OBVIOUS
<1>4. f[1] = WordAt(buffer, 1)
  BY <1>2, <1>3
<1>5. f[2] = f[1] + WordAt(buffer, 3)
  BY <1>2
<1>6. f[3] = f[2] + WordAt(buffer, 5)
  BY <1>2
<1>7. f[4] = f[3] + WordAt(buffer, 7)
  BY <1>2
<1>8. f[5] = f[4] + WordAt(buffer, 9)
  BY <1>2
<1>9. f[6] = f[5] + WordAt(buffer, 11)
  BY <1>2
<1>10. f[7] = f[6] + WordAt(buffer, 13)
  BY <1>2
<1>11. f[8] = f[7] + WordAt(buffer, 15)
  BY <1>2
<1>12. f[9] = f[8] + WordAt(buffer, 17)
  BY <1>2
<1>13. f[10] = f[9] + WordAt(buffer, 19)
  BY <1>2
<1> QED
  BY <1>1, <1>3, <1>4, <1>5, <1>6, <1>7, <1>8, <1>9, <1>10, <1>11, <1>12, <1>13

LEMMA UdpLineSum ==
    ASSUME NEW h \in UdpHeaderType
    PROVE  LineSum(WriteUdp(h)) = h.src_port + h.dst_port + h.tot_len + h.checksum
<1> DEFINE line == WriteUdp(h)
<1>1. /\ Len(line) = 8 /\ WordAt(line, 1) = h.src_port /\ WordAt(line, 3) = h.dst_port
      /\ WordAt(line, 5) = h.tot_len /\ WordAt(line, 7) = h.checksum
  BY UdpLine
<1>2. h.src_port \in Int /\ h.dst_port \in Int /\ h.tot_len \in Int /\ h.checksum \in Int
  BY UShortMaxType DEF UdpHeaderType, Short
<1> HIDE DEF line
<1>3. \A i \in 1 .. 4 : WordAt(line, 2 * i - 1) \in Int
  <2>1. \A i \in 1 .. 4 : i = 1 \/ i = 2 \/ i = 3 \/ i = 4
    OBVIOUS
  <2> QED
    BY <1>1, <1>2, <2>1
<1> QED
  BY <1>1, <1>3, SumOfFour DEF line

LEMMA PseudoIpv4LineSum ==
    ASSUME NEW h \in PseudoIpv4HeaderType
    PROVE  LineSum(WritePseudoIpv4(h)) = h.src_addr[1] + h.src_addr[2] + h.dst_addr[1]
                                             + h.dst_addr[2] + h.protocol + h.data_len
<1> DEFINE line == WritePseudoIpv4(h)
<1>1. /\ Len(line) = 12
      /\ WordAt(line, 1) = h.src_addr[1] /\ WordAt(line, 3) = h.src_addr[2]
      /\ WordAt(line, 5) = h.dst_addr[1] /\ WordAt(line, 7) = h.dst_addr[2]
      /\ WordAt(line, 9) = h.protocol /\ WordAt(line, 11) = h.data_len
  BY PseudoIpv4Line
<1>2. /\ h.src_addr[1] \in Int /\ h.src_addr[2] \in Int
      /\ h.dst_addr[1] \in Int /\ h.dst_addr[2] \in Int
      /\ h.protocol \in Int /\ h.data_len \in Int
  BY UShortMaxType DEF PseudoIpv4HeaderType, Short, Octet
<1> HIDE DEF line
<1>3. \A i \in 1 .. 6 : WordAt(line, 2 * i - 1) \in Int
  <2>1. \A i \in 1 .. 6 : i = 1 \/ i = 2 \/ i = 3 \/ i = 4 \/ i = 5 \/ i = 6
    OBVIOUS
  <2> QED
    BY <1>1, <1>2, <2>1
<1> QED
  BY <1>1, <1>3, SumOfSix DEF line

LEMMA RtpLineSum ==
    ASSUME NEW h \in RtpHeaderType
    PROVE  LineSum(WriteRtp(h))
               = WordOf(64 * h.version + 32 * h.p + 16 * h.x + h.cc, 128 * h.m + h.payload)
                     + h.seq_num + h.timestamp[1] + h.timestamp[2] + h.ssrc[1] + h.ssrc[2]
<1> DEFINE line == WriteRtp(h)
           a == 64 * h.version + 32 * h.p + 16 * h.x + h.cc
           b == 128 * h.m + h.payload
<1>1. /\ Len(line) = 12
      /\ WordAt(line, 1) = WordOf(a, b)
      /\ WordAt(line, 3) = h.seq_num
      /\ WordAt(line, 5) = h.timestamp[1] /\ WordAt(line, 7) = h.timestamp[2]
      /\ WordAt(line, 9) = h.ssrc[1] /\ WordAt(line, 11) = h.ssrc[2]
  BY RtpLine
<1>2. /\ h.seq_num \in Int /\ h.timestamp[1] \in Int /\ h.timestamp[2] \in Int
      /\ h.ssrc[1] \in Int /\ h.ssrc[2] \in Int
  BY UShortMaxType DEF RtpHeaderType, Short
<1>3. a \in Int /\ b \in Int
  BY DEF RtpHeaderType
<1> HIDE DEF line, a, b
<1>4. WordOf(a, b) \in Int
  BY <1>3 DEF WordOf
<1>5. \A i \in 1 .. 6 : WordAt(line, 2 * i - 1) \in Int
  <2>1. \A i \in 1 .. 6 : i = 1 \/ i = 2 \/ i = 3 \/ i = 4 \/ i = 5 \/ i = 6
    OBVIOUS
  <2> QED
    BY <1>1, <1>2, <1>4, <2>1
<1>6. LineSum(line) = WordOf(a, b) + h.seq_num + h.timestamp[1] + h.timestamp[2]
                          + h.ssrc[1] + h.ssrc[2]
  BY <1>1, <1>5, SumOfSix
<1> QED
  BY <1>6, Zenon DEF line, a, b

LEMMA Ipv4LineSum ==
    ASSUME NEW h \in Ipv4HeaderType
    PROVE  LineSum(WriteIpv4(h))
               = WordOf(16 * h.version + h.hdr_len, h.service_type)
                     + h.tot_len + h.id + h.fragment + WordOf(h.ttl, h.protocol) + h.checksum
                     + h.src_addr[1] + h.src_addr[2] + h.dst_addr[1] + h.dst_addr[2]
<1> DEFINE line == WriteIpv4(h)
           a == 16 * h.version + h.hdr_len
<1>1. /\ Len(line) = 20
      /\ WordAt(line, 1) = WordOf(a, h.service_type)
      /\ WordAt(line, 3) = h.tot_len /\ WordAt(line, 5) = h.id /\ WordAt(line, 7) = h.fragment
      /\ WordAt(line, 9) = WordOf(h.ttl, h.protocol) /\ WordAt(line, 11) = h.checksum
      /\ WordAt(line, 13) = h.src_addr[1] /\ WordAt(line, 15) = h.src_addr[2]
      /\ WordAt(line, 17) = h.dst_addr[1] /\ WordAt(line, 19) = h.dst_addr[2]
  BY Ipv4Line
<1>2. /\ h.tot_len \in Int /\ h.id \in Int /\ h.fragment \in Int /\ h.checksum \in Int
      /\ h.src_addr[1] \in Int /\ h.src_addr[2] \in Int
      /\ h.dst_addr[1] \in Int /\ h.dst_addr[2] \in Int
  BY UShortMaxType DEF Ipv4HeaderType, Short
<1>3. a \in Int /\ h.service_type \in Int /\ h.ttl \in Int /\ h.protocol \in Int
  BY DEF Ipv4HeaderType, Octet
<1> HIDE DEF line, a
<1>4. WordOf(a, h.service_type) \in Int /\ WordOf(h.ttl, h.protocol) \in Int
  BY <1>3 DEF WordOf
<1>5. \A i \in 1 .. 10 : WordAt(line, 2 * i - 1) \in Int
  <2>1. \A i \in 1 .. 10 : \/ i = 1 \/ i = 2 \/ i = 3 \/ i = 4 \/ i = 5
                           \/ i = 6 \/ i = 7 \/ i = 8 \/ i = 9 \/ i = 10
    OBVIOUS
  <2> QED
    BY <1>1, <1>2, <1>4, <2>1
<1>6. LineSum(line) = WordOf(a, h.service_type) + h.tot_len + h.id + h.fragment
                          + WordOf(h.ttl, h.protocol) + h.checksum
                          + h.src_addr[1] + h.src_addr[2] + h.dst_addr[1] + h.dst_addr[2]
  BY <1>1, <1>5, SumOfTen
<1> QED
  BY <1>6, Zenon DEF line, a

-----------------------------------------------------------------------------
(* The headers of the leg *)

(* Words of the sums and of the line are the same. *)
LEMMA WordIsShort == Word = Short /\ Word \subseteq Int
<1>1. Base - 1 = UShortMax
  BY DEF Base, UShortMax
<1> QED
  BY <1>1, BaseType DEF Word, Short

(* The fields that are written are words: *)
LEMMA WrittenWords ==
    /\ Src \in Short \X Short /\ Dst \in Short \X Short /\ Ssrc \in Short \X Short
    /\ SrcPort \in Short /\ DstPort \in Short
    /\ 180 \in Short /\ 200 \in Short /\ 0 \in Short /\ 2048 \in Short /\ 16384 \in Short
    /\ 0 \in Octet /\ 8 \in Octet /\ 17 \in Octet /\ 128 \in Octet /\ 184 \in Octet
<1>1. /\ Src \in Short \X Short /\ Dst \in Short \X Short /\ Ssrc \in Short \X Short
      /\ SrcPort \in Short /\ DstPort \in Short
  BY ChecksumsAssumption, WordIsShort, Zenon
<1>2. 180 \in Short /\ 200 \in Short /\ 0 \in Short /\ 2048 \in Short /\ 16384 \in Short
  BY UShortMaxType DEF Short
<1>3. 0 \in Octet /\ 8 \in Octet /\ 17 \in Octet /\ 128 \in Octet /\ 184 \in Octet
  BY DEF Octet
<1> QED
  BY <1>1, <1>2, <1>3

LEMMA UdpHeaderFits ==
    ASSUME NEW checksum \in Short
    PROVE  UdpHeader(checksum) \in UdpHeaderType /\ UdpHeader(checksum).tot_len = 180
<1>1. PacketSize + 12 + 8 = 180
  BY DEF PacketSize
<1> QED
  BY <1>1, WrittenWords DEF UdpHeader, UdpHeaderType

LEMMA PseudoIpv4HeaderFits == PseudoIpv4Header \in PseudoIpv4HeaderType
<1>1. UdpHeader(0).tot_len = 180
  BY WrittenWords, UdpHeaderFits
<1> QED
  BY <1>1, WrittenWords DEF PseudoIpv4Header, PseudoIpv4HeaderType

LEMMA Ipv4HeaderFits ==
    ASSUME NEW fragment \in Short, NEW checksum \in Short, id \in Short
    PROVE  Ipv4Header(fragment, checksum) \in Ipv4HeaderType
<1>1. UdpHeader(0).tot_len + 20 = 200
  BY WrittenWords, UdpHeaderFits
<1>2. 4 \in 0 .. 15 /\ 5 \in 0 .. 15
  OBVIOUS
<1> QED
  BY <1>1, <1>2, WrittenWords DEF Ipv4Header, Ipv4HeaderType

LEMMA RtpHeaderFits ==
    ASSUME seq \in Short, timestamp \in Short \X Short
    PROVE  RtpHeader \in RtpHeaderType
  BY WrittenWords DEF RtpHeader, RtpHeaderType

(* The first two bytes of a mac may be any. *)
LEMMA EthHeaderFits ==
    ASSUME NEW junk \in Seq(Octet), Len(junk) = 2
    PROVE  EthHeader(junk) \in EthHeaderType
<1>1. ASSUME NEW f \in Short \X Short
      PROVE  junk \o OnLine32(f) \in [1 .. 6 -> Octet]
  <2>1. Lengthened(junk, junk \o OnLine32(f), 2, 4)
    BY FieldAdded
  <2>2. PICK t \in Seq(Octet) : t = junk \o OnLine32(f) /\ Len(t) = 2 + 4
    BY <2>1, Zenon DEF Lengthened
  <2>3. PICK n \in Nat : n = 6 /\ Len(t) = n
    BY <2>2
  <2>4. t \in [1 .. n -> Octet]
    BY <2>3, LenProperties
  <2> QED
    BY <2>2, <2>3, <2>4, Zenon
<1> QED
  BY <1>1, WrittenWords DEF EthHeader, EthHeaderType

(* In every state, the headers that the leg writes are read back as they      *)
(* were, except for the order of the fragment field (rawsocket.cpp:29-44,     *)
(* 121-137, 229-247, 336-349).                                                *)
THEOREM HeadersAreReadBack == Spec => []HeadersReadBack
<1>1. TypeOK => HeadersReadBack
  <2> SUFFICES ASSUME TypeOK PROVE HeadersReadBack
    OBVIOUS
  <2>1. /\ seq \in Short /\ id \in Short /\ timestamp \in Short \X Short
        /\ sent.udpChecksum \in Short /\ sent.ipv4Checksum \in Short
    BY WordIsShort, Zenon DEF TypeOK
  <2>2. RtpHeader \in RtpHeaderType /\ ReadRtp(WriteRtp(RtpHeader)) = RtpHeader
    BY <2>1, RtpHeaderFits, RtpReadBack
  <2>3. ASSUME NEW checksum \in {sent.udpChecksum, 0}
        PROVE  /\ UdpHeader(checksum) \in UdpHeaderType
               /\ ReadUdp(WriteUdp(UdpHeader(checksum))) = UdpHeader(checksum)
    <3>1. checksum \in Short
      BY <2>1, WrittenWords
    <3> QED
      BY <3>1, UdpHeaderFits, UdpReadBack
  <2>4. ASSUME NEW fragment \in {0, 16384}, NEW checksum \in {sent.ipv4Checksum, 0}
        PROVE  /\ Ipv4Header(fragment, checksum) \in Ipv4HeaderType
               /\ ReadIpv4(WriteIpv4(Ipv4Header(fragment, checksum)))
                      = Ipv4Header(NetOrder(fragment), checksum)
    <3>1. fragment \in Short /\ checksum \in Short
      BY <2>1, WrittenWords
    <3>2. Ipv4Header(fragment, checksum) \in Ipv4HeaderType
      BY <2>1, <3>1, Ipv4HeaderFits
    <3>3. [Ipv4Header(fragment, checksum) EXCEPT
              !.fragment = NetOrder(Ipv4Header(fragment, checksum).fragment)]
            = Ipv4Header(NetOrder(fragment), checksum)
      BY DEF Ipv4Header
    <3> QED
      BY <3>2, <3>3, Ipv4ReadBack
  <2>5. ASSUME NEW junk \in {<< 0, 0 >>, << 255, 1 >>}
        PROVE  /\ EthHeader(junk) \in EthHeaderType
               /\ ReadEth(WriteEth(EthHeader(junk))) = EthHeader(junk)
    <3>1. junk \in Seq(Octet) /\ Len(junk) = 2
      <4>1. 0 \in Octet /\ 255 \in Octet /\ 1 \in Octet
        BY DEF Octet
      <4> QED
        BY <4>1, TwoOctets
    <3> QED
      BY <3>1, EthHeaderFits, EthReadBack
  <2> QED
    BY <2>2, <2>3, <2>4, <2>5, PseudoIpv4HeaderFits DEF HeadersReadBack
<1> QED
  BY <1>1, TypeCorrect, PTL

(* In every state, the sums of Checksums are those of the bytes on the line   *)
(* (rawsocket.cpp:9-19, 154-164, 259).                                        *)
THEOREM SumsAreOfHeaders == Spec => []SumsOfHeaders
<1>1. TypeOK => SumsOfHeaders
  <2> SUFFICES ASSUME TypeOK PROVE SumsOfHeaders
    OBVIOUS
  <2>1. seq \in Short /\ id \in Short /\ timestamp \in Short \X Short
    BY WordIsShort, Zenon DEF TypeOK
  <2>2. /\ seq \in Int /\ id \in Int /\ timestamp[1] \in Int /\ timestamp[2] \in Int
        /\ Src[1] \in Int /\ Src[2] \in Int /\ Dst[1] \in Int /\ Dst[2] \in Int
        /\ Ssrc[1] \in Int /\ Ssrc[2] \in Int /\ SrcPort \in Int /\ DstPort \in Int
    BY <2>1, WrittenWords, UShortMaxType DEF Short
  <2>3. UdpHeader(0) \in UdpHeaderType /\ UdpHeader(0).tot_len = 180
    BY WrittenWords, UdpHeaderFits
  <2>4. LineSum(WriteIpv4(Ipv4Header(0, 0))) = Ipv4Sum(id)
    <3> DEFINE h == Ipv4Header(0, 0)
    <3>1. h \in Ipv4HeaderType
      BY <2>1, WrittenWords, Ipv4HeaderFits
    <3>2. /\ h.version = 4 /\ h.hdr_len = 5 /\ h.service_type = 184
          /\ h.tot_len = 200 /\ h.id = id /\ h.fragment = 0 /\ h.ttl = 128
          /\ h.protocol = 17 /\ h.checksum = 0 /\ h.src_addr = Src /\ h.dst_addr = Dst
      BY <2>3 DEF Ipv4Header
    <3> HIDE DEF h
    <3>3. LineSum(WriteIpv4(h))
            = WordOf(16 * h.version + h.hdr_len, h.service_type)
                  + h.tot_len + h.id + h.fragment + WordOf(h.ttl, h.protocol) + h.checksum
                  + h.src_addr[1] + h.src_addr[2] + h.dst_addr[1] + h.dst_addr[2]
      BY <3>1, Ipv4LineSum
    <3>4. WordOf(16 * 4 + 5, 184) = 17848 /\ WordOf(128, 17) = 32785
      BY DEF WordOf
    <3> QED
      BY <2>2, <3>2, <3>3, <3>4 DEF h, Ipv4Sum, Sum32
  <2>5. LineSum(WritePseudoIpv4(PseudoIpv4Header)) = PseudoSum
    <3> DEFINE h == PseudoIpv4Header
    <3>1. h.src_addr = Src /\ h.dst_addr = Dst /\ h.protocol = 17 /\ h.data_len = 180
      BY <2>3 DEF PseudoIpv4Header
    <3> HIDE DEF h
    <3>2. LineSum(WritePseudoIpv4(h)) = h.src_addr[1] + h.src_addr[2] + h.dst_addr[1]
                                            + h.dst_addr[2] + h.protocol + h.data_len
      BY PseudoIpv4HeaderFits, PseudoIpv4LineSum DEF h
    <3> QED
      BY <2>2, <3>1, <3>2 DEF h, PseudoSum, Sum32
  <2>6. LineSum(WriteUdp(UdpHeader(0))) = UdpHeaderSum
    <3> DEFINE h == UdpHeader(0)
    <3>1. h.src_port = SrcPort /\ h.dst_port = DstPort /\ h.checksum = 0
      BY DEF UdpHeader
    <3> HIDE DEF h
    <3>2. LineSum(WriteUdp(h)) = h.src_port + h.dst_port + h.tot_len + h.checksum
      BY <2>3, UdpLineSum DEF h
    <3> QED
      BY <2>2, <2>3, <3>1, <3>2 DEF h, UdpHeaderSum
  <2>7. LineSum(WriteRtp(RtpHeader)) = RtpSum(seq, timestamp, 0)
    <3> DEFINE h == RtpHeader
    <3>1. /\ h.version = 2 /\ h.p = 0 /\ h.x = 0 /\ h.cc = 0 /\ h.m = 0 /\ h.payload = 8
          /\ h.seq_num = seq /\ h.timestamp = timestamp /\ h.ssrc = Ssrc
      BY DEF RtpHeader
    <3> HIDE DEF h
    <3>2. LineSum(WriteRtp(h))
            = WordOf(64 * h.version + 32 * h.p + 16 * h.x + h.cc, 128 * h.m + h.payload)
                  + h.seq_num + h.timestamp[1] + h.timestamp[2] + h.ssrc[1] + h.ssrc[2]
      BY <2>1, RtpHeaderFits, RtpLineSum DEF h
    <3>3. WordOf(64 * 2 + 32 * 0 + 16 * 0 + 0, 128 * 0 + 8) = 32776
      BY DEF WordOf
    <3> QED
      BY <2>2, <3>1, <3>2, <3>3 DEF h, RtpSum, Sum32
  <2> QED
    BY <2>4, <2>5, <2>6, <2>7 DEF SumsOfHeaders
<1> QED
  BY <1>1, TypeCorrect, PTL
=============================================================================
