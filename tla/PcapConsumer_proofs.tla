------------------------- MODULE PcapConsumer_proofs -------------------------
(***************************************************************************)
(* Proofs about PcapConsumer, for any number of runs and packets, wherever *)
(* the process is killed and whatever the disk refuses.                    *)
(***************************************************************************)
EXTENDS PcapConsumer, SequenceTheorems, TLAPS

-----------------------------------------------------------------------------
(* The inductive invariant *)

(* Nothing is of a run to come, on the disk or pending.                       *)
NothingFromLater ==
    /\ \A name \in Seconds : \A i \in 1 .. Len(disk[name]) : disk[name][i].run <= run
    /\ \A i \in 1 .. Len(buffer) : buffer[i].run <= run

(* What is pending when so much was when the last Consume began. *)
Unflushed(before) == IF consuming = "written" THEN Append(before, ThisPacket) ELSE before

(* A run of which the disk has refused nothing has its header pending and     *)
(* nothing on the disk before its first packet, and nothing pending after it  *)
(* but the packet Consume is about to flush.                                  *)
RunInv ==
    /\ consuming # "no" => reported < MaxPackets
    /\ up /\ consuming # "no" => stream # "closed"
    /\ up /\ ~refused =>
        /\ stream = "good"
        /\ PacketsFlushed > 0 => buffer = Unflushed(<< >>)
        /\ PacketsFlushed = 0 =>
            /\ buffer = Unflushed(<< Header(run) >>)
            /\ \A i \in 1 .. Len(disk[fileName]) : disk[fileName][i].run # run
    /\ ReportedSurvivesKill
    /\ UploadComplete

(* The last run that has left anything is r. *)
EndsIn(content, r) ==
    /\ HeaderPerRun(content)
    /\ content # << >>
    /\ content[Len(content)].run = r

(* What an open stream will write first into an empty file is a file header,  *)
(* unless Consume has opened it; and the file with all that is pending has a  *)
(* header for each run, unless a write to it was refused.                     *)
HeadInv ==
    /\ HeaderFirst
    /\ up /\ stream # "closed" /\ fileName \notin headless =>
        /\ disk[fileName] = << >> => buffer # << >> /\ buffer[1].kind = "header"
        /\ fileName \notin scarred => EndsIn(disk[fileName] \o buffer, run)

IInv == TypeOK /\ NothingFromLater /\ RunInv /\ HeadInv

-----------------------------------------------------------------------------
(* The stream and the disk *)

LEMMA ChunkTypes ==
    ASSUME NEW r \in Nat, NEW n \in Nat
    PROVE  Header(r) \in Chunk /\ Packet(r, n) \in Chunk
  BY DEF Header, Packet, Chunk

(* What a refused write leaves is a beginning of what was pending, of which   *)
(* the last chunk may be a piece.                                             *)
LEMMA RemnantIsBeginning ==
    ASSUME NEW pending \in Seq(Chunk), NEW remnant \in Remnants(pending)
    PROVE  /\ remnant \in Seq(Chunk) /\ Len(remnant) <= Len(pending)
           /\ \A i \in 1 .. Len(remnant) :
                  remnant[i].run = pending[i].run /\ remnant[i].kind = pending[i].kind
<1>1. PICK k \in 0 .. Len(pending) - 1 :
         \/ remnant = SubSeq(pending, 1, k)
         \/ remnant = Append(SubSeq(pending, 1, k), [pending[k + 1] EXCEPT !.whole = FALSE])
  BY DEF Remnants
<1>2. /\ Len(pending) \in Nat /\ k \in Nat /\ k + 1 <= Len(pending)
      /\ \A i \in 1 .. Len(pending) : pending[i] \in Chunk
  BY ElementOfSeq, LenProperties
<1> DEFINE begin == SubSeq(pending, 1, k)
           piece == [pending[k + 1] EXCEPT !.whole = FALSE]
<1>3. /\ begin \in Seq(Chunk) /\ Len(begin) = k
      /\ \A i \in 1 .. k : begin[i] = pending[i]
  <2>1. \A i \in 1 .. k : pending[i] \in Chunk
    BY <1>2
  <2>2. /\ SubSeq(pending, 1, k) \in Seq(Chunk)
        /\ Len(SubSeq(pending, 1, k)) = IF 1 <= k THEN k - 1 + 1 ELSE 0
        /\ \A i \in 1 .. k - 1 + 1 : SubSeq(pending, 1, k)[i] = pending[1 + i - 1]
    BY <1>2, <2>1, SubSeqProperties
  <2> HIDE DEF begin
  <2>3. begin = SubSeq(pending, 1, k)
    BY DEF begin
  <2> QED
    BY <1>2, <2>2, <2>3
<1>4. piece \in Chunk /\ piece.run = pending[k + 1].run /\ piece.kind = pending[k + 1].kind
  <2>1. pending[k + 1] \in Chunk
    BY <1>2
  <2> QED
    BY <2>1 DEF Chunk
<1> HIDE DEF begin, piece
<1>5. CASE remnant = begin
  BY <1>2, <1>3, <1>5
<1>6. CASE remnant = Append(begin, piece)
  <2>1. /\ remnant \in Seq(Chunk) /\ Len(remnant) = k + 1
        /\ \A i \in 1 .. k : remnant[i] = begin[i]
        /\ remnant[k + 1] = piece
    BY <1>3, <1>4, <1>6, AppendProperties
  <2>2. \A i \in 1 .. k + 1 : i \in 1 .. k \/ i = k + 1
    BY <1>2
  <2> QED
    BY <1>2, <1>3, <1>4, <2>1, <2>2
<1> QED
  BY <1>1, <1>5, <1>6 DEF begin, piece

(* What a write makes of the pending chunks: some are added to the file, all  *)
(* of them unless it is refused.                                              *)
PendingGoes(pending) ==
    \E added \in Seq(Chunk) :
        /\ disk' = [disk EXCEPT ![fileName] = @ \o added]
        /\ Len(added) <= Len(pending)
        /\ \A i \in 1 .. Len(added) :
               added[i].run = pending[i].run /\ added[i].kind = pending[i].kind
        /\ \/ /\ added = pending /\ buffer' = << >>
              /\ refused' = refused /\ scarred' = scarred
           \/ /\ pending # << >> /\ buffer' = pending
              /\ refused' = TRUE /\ scarred' = scarred \cup {fileName}

LEMMA WriteAdds ==
    ASSUME NEW pending \in Seq(Chunk), Written(pending) \/ Refused(pending)
    PROVE  PendingGoes(pending)
<1>1. CASE Written(pending)
  <2>1. /\ disk' = [disk EXCEPT ![fileName] = @ \o pending]
        /\ buffer' = << >> /\ refused' = refused /\ scarred' = scarred
    BY <1>1 DEF Written
  <2>2. Len(pending) <= Len(pending)
    BY LenProperties
  <2> QED
    BY <2>1, <2>2 DEF PendingGoes
<1>2. CASE Refused(pending)
  <2>1. PICK remnant \in Remnants(pending) : disk' = [disk EXCEPT ![fileName] = @ \o remnant]
    BY <1>2 DEF Refused
  <2> QED
    BY <1>2, <2>1, RemnantIsBeginning DEF Refused, PendingGoes
<1> QED
  BY <1>1, <1>2

(* Only the file of this run grows.                                           *)
LEMMA FileGrows ==
    ASSUME TypeOK, NEW added \in Seq(Chunk), disk' = [disk EXCEPT ![fileName] = @ \o added]
    PROVE  /\ disk' \in [Seconds -> Seq(Chunk)]
           /\ \A name \in Seconds : name # fileName => disk'[name] = disk[name]
           /\ disk'[fileName] = disk[fileName] \o added
           /\ Len(disk'[fileName]) = Len(disk[fileName]) + Len(added)
           /\ \A i \in 1 .. Len(disk[fileName]) + Len(added) :
                  disk'[fileName][i] = IF i <= Len(disk[fileName]) THEN disk[fileName][i]
                                                                ELSE added[i - Len(disk[fileName])]
<1>1. fileName \in Seconds /\ disk \in [Seconds -> Seq(Chunk)] /\ disk[fileName] \in Seq(Chunk)
  BY DEF TypeOK
<1>2. disk'[fileName] = disk[fileName] \o added
  BY <1>1
<1>3. /\ disk[fileName] \o added \in Seq(Chunk)
      /\ Len(disk[fileName] \o added) = Len(disk[fileName]) + Len(added)
      /\ \A i \in 1 .. Len(disk[fileName]) + Len(added) :
             (disk[fileName] \o added)[i] = IF i <= Len(disk[fileName]) THEN disk[fileName][i]
                                                   ELSE added[i - Len(disk[fileName])]
  BY <1>1, ConcatProperties
<1> QED
  BY <1>1, <1>2, <1>3

-----------------------------------------------------------------------------
(* What a run leaves in its file *)

LEMMA EndsWithRunIf ==
    ASSUME NEW content, NEW r, NEW packets \in Nat, NEW before \in Nat,
           Len(content) - packets - 1 = before,
           \A i \in 1 .. before : content[i].run # r,
           content[before + 1] = Header(r),
           \A n \in 1 .. packets : content[before + 1 + n] = Packet(r, n)
    PROVE  EndsWithRun(content, r, packets)
<1>1. before >= 0
  OBVIOUS
<1> QED
  BY <1>1, Zenon DEF EndsWithRun

(* The header is written with the first packet, or with the close. *)
LEMMA HeaderWritten ==
    ASSUME NEW content \in Seq(Chunk), NEW r \in Nat,
           \A i \in 1 .. Len(content) : content[i].run # r
    PROVE  /\ EndsWithRun(content \o << Header(r) >>, r, 0)
           /\ EndsWithRun(content \o Append(<< Header(r) >>, Packet(r, 1)), r, 1)
<1>1. Header(r) \in Chunk /\ Packet(r, 1) \in Chunk
  BY ChunkTypes
<1>2. ASSUME NEW added \in Seq(Chunk), NEW n \in Nat, Len(added) = n + 1,
             added[1] = Header(r), \A k \in 1 .. n : added[1 + k] = Packet(r, k)
      PROVE  EndsWithRun(content \o added, r, n)
  <2>1. /\ Len(content \o added) = Len(content) + (n + 1)
        /\ \A i \in 1 .. Len(content) + (n + 1) :
               (content \o added)[i] = IF i <= Len(content) THEN content[i]
                                                            ELSE added[i - Len(content)]
    <3>1. /\ Len(content \o added) = Len(content) + Len(added)
          /\ \A i \in 1 .. Len(content) + Len(added) :
                 (content \o added)[i] = IF i <= Len(content) THEN content[i]
                                                              ELSE added[i - Len(content)]
      BY <1>2, ConcatProperties
    <3> QED
      BY <1>2, <3>1, Zenon
  <2>2. Len(content) \in Nat /\ Len(content \o added) - n - 1 = Len(content)
    BY <2>1, LenProperties
  <2>3. \A i \in 1 .. Len(content) : (content \o added)[i].run # r
    BY <2>1, <2>2
  <2>4. (content \o added)[Len(content) + 1] = Header(r)
    <3>1. Len(content) + 1 - Len(content) = 1 /\ ~(Len(content) + 1 <= Len(content))
          /\ Len(content) + 1 \in 1 .. Len(content) + (n + 1)
      BY <2>2
    <3> QED
      BY <1>2, <2>1, <3>1
  <2>5. ASSUME NEW k \in 1 .. n
        PROVE  (content \o added)[Len(content) + 1 + k] = Packet(r, k)
    <3>1. /\ Len(content) + 1 + k - Len(content) = 1 + k
          /\ ~(Len(content) + 1 + k <= Len(content))
          /\ Len(content) + 1 + k \in 1 .. Len(content) + (n + 1)
      BY <2>2
    <3> QED
      BY <1>2, <2>1, <3>1
  <2> QED
    BY <1>2, <2>2, <2>3, <2>4, <2>5, EndsWithRunIf, Zenon
<1>3. EndsWithRun(content \o << Header(r) >>, r, 0)
  <2>1. << Header(r) >> \in Seq(Chunk) /\ Len(<< Header(r) >>) = 0 + 1
        /\ << Header(r) >>[1] = Header(r)
    BY <1>1
  <2>2. \A k \in 1 .. 0 : << Header(r) >>[1 + k] = Packet(r, k)
    OBVIOUS
  <2> QED
    BY <1>2, <2>1, <2>2, Zenon
<1>4. EndsWithRun(content \o Append(<< Header(r) >>, Packet(r, 1)), r, 1)
  <2> DEFINE both == Append(<< Header(r) >>, Packet(r, 1))
  <2>1. both \in Seq(Chunk) /\ Len(both) = 1 + 1 /\ both[1] = Header(r) /\ both[1 + 1] = Packet(r, 1)
    BY <1>1
  <2>2. \A k \in 1 .. 1 : both[1 + k] = Packet(r, k)
    BY <2>1
  <2> HIDE DEF both
  <2>3. EndsWithRun(content \o both, r, 1)
    BY <1>2, <2>1, <2>2
  <2> QED
    BY <2>3 DEF both
<1> QED
  BY <1>3, <1>4

(* Each later packet is written alone. *)
LEMMA PacketWritten ==
    ASSUME NEW content \in Seq(Chunk), NEW r \in Nat, NEW n \in Nat,
           EndsWithRun(content, r, n)
    PROVE  EndsWithRun(content \o Append(<< >>, Packet(r, n + 1)), r, n + 1)
<1> DEFINE longer == content \o Append(<< >>, Packet(r, n + 1))
           before == Len(content) - n - 1
<1>1. n + 1 \in Nat /\ Packet(r, n + 1) \in Chunk
  BY ChunkTypes
<1>2. /\ Append(<< >>, Packet(r, n + 1)) \in Seq(Chunk)
      /\ Len(Append(<< >>, Packet(r, n + 1))) = 1
      /\ Append(<< >>, Packet(r, n + 1))[1] = Packet(r, n + 1)
  BY <1>1
<1>3. /\ Len(longer) = Len(content) + 1
      /\ \A i \in 1 .. Len(content) + 1 :
             longer[i] = IF i <= Len(content) THEN content[i]
                         ELSE Append(<< >>, Packet(r, n + 1))[i - Len(content)]
  BY <1>2, ConcatProperties
<1>4. /\ before \in Nat /\ Len(content) \in Nat /\ Len(content) = before + n + 1
      /\ \A i \in 1 .. before : content[i].run # r
      /\ content[before + 1] = Header(r)
      /\ \A k \in 1 .. n : content[before + 1 + k] = Packet(r, k)
  BY LenProperties DEF EndsWithRun
<1> HIDE DEF longer, before
<1>5. \A i \in 1 .. Len(content) : longer[i] = content[i]
  BY <1>3, <1>4
<1>6. longer[Len(content) + 1] = Packet(r, n + 1)
  <2>1. Len(content) + 1 - Len(content) = 1 /\ ~(Len(content) + 1 <= Len(content))
        /\ Len(content) + 1 \in 1 .. Len(content) + 1
    BY <1>4
  <2> QED
    BY <1>2, <1>3, <2>1
<1>7. Len(longer) - (n + 1) - 1 = before
  BY <1>3, <1>4
<1>8. \A i \in 1 .. before : longer[i].run # r
  BY <1>4, <1>5
<1>9. longer[before + 1] = Header(r)
  BY <1>4, <1>5
<1>10. ASSUME NEW k \in 1 .. n + 1
       PROVE  longer[before + 1 + k] = Packet(r, k)
  <2>1. CASE k \in 1 .. n
    BY <1>4, <1>5, <2>1
  <2>2. CASE k = n + 1
    <3>1. before + 1 + k = Len(content) + 1
      BY <1>4, <2>2
    <3> QED
      BY <1>6, <2>2, <3>1
  <2> QED
    BY <2>1, <2>2
<1>11. EndsWithRun(longer, r, n + 1)
  BY <1>1, <1>4, <1>7, <1>8, <1>9, <1>10, EndsWithRunIf
<1> QED
  BY <1>11 DEF longer

LEMMA AppendToPending ==
    ASSUME NEW content \in Seq(Chunk), NEW pending \in Seq(Chunk), NEW chunk \in Chunk
    PROVE  content \o Append(pending, chunk) = (content \o pending) \o << chunk >>
<1>1. Append(pending, chunk) = pending \o << chunk >>
  BY AppendIsConcat
<1>2. ASSUME NEW one \in Seq(Chunk)
      PROVE  (content \o pending) \o one = content \o (pending \o one)
  BY ConcatAssociative
<1>3. << chunk >> \in Seq(Chunk)
  OBVIOUS
<1> QED
  BY <1>1, <1>2, <1>3, Zenon

(* A chunk more: a header if it is the first of its run, a packet if it is    *)
(* not.                                                                       *)
LEMMA ChunkAdded ==
    ASSUME NEW content \in Seq(Chunk), NEW chunk \in Chunk, chunk.whole, HeaderPerRun(content),
           chunk.kind = "header" <=> content = << >> \/ content[Len(content)].run # chunk.run
    PROVE  EndsIn(content \o << chunk >>, chunk.run)
<1> DEFINE n == Len(content)
<1>1. n \in Nat /\ (content = << >> <=> n = 0)
  BY LenProperties, EmptySeq
<1>2. ASSUME NEW added \in Seq(Chunk), Len(added) = 1, added[1] = chunk
      PROVE  /\ Len(content \o added) = n + 1
             /\ \A i \in 1 .. n : (content \o added)[i] = content[i]
             /\ (content \o added)[n + 1] = chunk
  <2>1. /\ Len(content \o added) = Len(content) + Len(added)
        /\ \A i \in 1 .. Len(content) + Len(added) :
               (content \o added)[i] = IF i <= Len(content) THEN content[i]
                                                            ELSE added[i - Len(content)]
    BY ConcatProperties
  <2> HIDE DEF n
  <2>2. /\ n + 1 \in 1 .. n + Len(added) /\ ~(n + 1 <= n) /\ n + 1 - n = 1
        /\ n + Len(added) = n + 1
        /\ \A i \in 1 .. n : i \in 1 .. n + Len(added) /\ i <= n
    BY <1>1, <1>2
  <2> DEFINE whole == content \o added
  <2>3. /\ Len(whole) = n + Len(added)
        /\ \A i \in 1 .. n + Len(added) : whole[i] = IF i <= n THEN content[i] ELSE added[i - n]
    BY <2>1 DEF n
  <2> HIDE DEF whole
  <2>4. whole[n + 1] = added[n + 1 - n]
    BY <1>1, <2>2, <2>3
  <2>5. \A i \in 1 .. n : whole[i] = content[i]
    BY <1>1, <2>2, <2>3
  <2> QED
    BY <1>2, <2>2, <2>3, <2>4, <2>5 DEF whole
<1> DEFINE longer == content \o << chunk >>
<1>3. << chunk >> \in Seq(Chunk) /\ Len(<< chunk >>) = 1 /\ << chunk >>[1] = chunk
  OBVIOUS
<1>4. longer \in Seq(Chunk)
  BY <1>3, ConcatProperties
<1> HIDE DEF n
<1>5. /\ Len(longer) = n + 1
      /\ \A i \in 1 .. n : longer[i] = content[i]
      /\ longer[n + 1] = chunk
  BY <1>2, <1>3
<1> HIDE DEF longer
<1>6. ASSUME NEW i \in 1 .. n + 1
      PROVE  /\ longer[i].whole
             /\ longer[i].kind = "header" <=> i = 1 \/ longer[i - 1].run # longer[i].run
  <2>1. CASE i \in 1 .. n
    <3>1. longer[i] = content[i] /\ (i # 1 => longer[i - 1] = content[i - 1])
      BY <1>1, <1>5, <2>1
    <3>2. /\ content[i].whole
          /\ content[i].kind = "header" <=> i = 1 \/ content[i - 1].run # content[i].run
      BY <2>1 DEF HeaderPerRun, n
    <3> QED
      BY <3>1, <3>2
  <2>2. CASE i = n + 1
    <3>1. i - 1 = n /\ (i = 1 <=> n = 0) /\ (n # 0 => longer[n] = content[n])
      BY <1>1, <1>5, <2>2
    <3>2. chunk.kind = "header" <=> n = 0 \/ content[n].run # chunk.run
      BY <1>1 DEF n
    <3> QED
      BY <1>5, <2>2, <3>1, <3>2
  <2> QED
    BY <1>1, <2>1, <2>2
<1>7. HeaderPerRun(longer)
  BY <1>5, <1>6 DEF HeaderPerRun
<1>8. longer # << >> /\ longer[Len(longer)].run = chunk.run
  BY <1>1, <1>4, <1>5, EmptySeq
<1> QED
  BY <1>7, <1>8 DEF EndsIn, longer

-----------------------------------------------------------------------------
(* Every step keeps the invariant *)

UploadRecord == [run : Nat, name : Seconds, refused : BOOLEAN, content : Seq(Chunk), packets : Nat]

LEMMA InitIInv == Init => IInv
<1> SUFFICES ASSUME Init PROVE IInv
  OBVIOUS
<1> USE PcapConsumerAssumption DEF Init
<1>1. TypeOK
  <2>1. buffer \in Seq(Chunk) /\ Len(buffer) = 0
    BY EmptySeq
  <2>2. uploads \in Seq([run : Nat, name : Seconds, refused : BOOLEAN, content : Seq(Chunk),
                         packets : Nat])
    BY EmptySeq
  <2>3. disk \in [Seconds -> Seq(Chunk)]
    BY EmptySeq
  <2>4. /\ up = FALSE /\ refused = FALSE /\ stream = "closed" /\ buffer = << >>
        /\ second \in Seconds /\ fileName \in Seconds /\ headless \subseteq Seconds
        /\ run \in 0 .. MaxRuns /\ reported \in 0 .. MaxPackets
        /\ scarred \subseteq Seconds /\ consuming \in {"no", "written", "flushed"}
    OBVIOUS
  <2> QED
    BY <2>1, <2>2, <2>3, <2>4, Zenon DEF TypeOK
<1>2. NothingFromLater
  BY DEF NothingFromLater
<1>3. RunInv
  BY DEF RunInv, PacketsFlushed, ReportedSurvivesKill, UploadComplete
<1>4. HeadInv
  <2>1. HeaderPerRun(<< >>)
    BY DEF HeaderPerRun
  <2> QED
    BY <2>1 DEF HeadInv, HeaderFirst
<1> QED
  BY <1>1, <1>2, <1>3, <1>4 DEF IInv

(* A write keeps the types, *)
LEMMA WriteType ==
    ASSUME TypeOK, NEW pending \in Seq(Chunk), PendingGoes(pending)
    PROVE  /\ disk' \in [Seconds -> Seq(Chunk)]
           /\ buffer' \in Seq(Chunk) /\ refused' \in BOOLEAN /\ scarred' \subseteq Seconds
<1>1. PICK added \in Seq(Chunk) :
         /\ disk' = [disk EXCEPT ![fileName] = @ \o added]
         /\ buffer' = << >> \/ buffer' = pending
         /\ refused' = refused \/ refused' = TRUE
         /\ scarred' = scarred \/ scarred' = scarred \cup {fileName}
  BY DEF PendingGoes
<1>2. disk' \in [Seconds -> Seq(Chunk)]
  BY <1>1, FileGrows
<1>3. buffer' \in Seq(Chunk)
  BY <1>1, EmptySeq
<1> QED
  BY <1>1, <1>2, <1>3 DEF TypeOK

(* ... writes nothing of a later run if none is pending, *)
LEMMA WriteKeepsOrder ==
    ASSUME TypeOK, NothingFromLater, NEW pending \in Seq(Chunk), PendingGoes(pending),
           run' = run, \A i \in 1 .. Len(pending) : pending[i].run <= run
    PROVE  NothingFromLater'
<1>1. PICK added \in Seq(Chunk) :
         /\ disk' = [disk EXCEPT ![fileName] = @ \o added]
         /\ Len(added) <= Len(pending)
         /\ \A i \in 1 .. Len(added) : added[i].run = pending[i].run
         /\ buffer' = << >> \/ buffer' = pending
  BY DEF PendingGoes
<1>2. Len(added) \in Nat /\ Len(pending) \in Nat /\ Len(disk[fileName]) \in Nat
  BY LenProperties DEF TypeOK
<1>3. /\ \A name \in Seconds : name # fileName => disk'[name] = disk[name]
      /\ Len(disk'[fileName]) = Len(disk[fileName]) + Len(added)
      /\ \A i \in 1 .. Len(disk[fileName]) + Len(added) :
             disk'[fileName][i] = IF i <= Len(disk[fileName]) THEN disk[fileName][i]
                                                         ELSE added[i - Len(disk[fileName])]
  BY <1>1, FileGrows
<1>4. ASSUME NEW i \in 1 .. Len(disk'[fileName])
      PROVE  disk'[fileName][i].run <= run
  <2>0. i \in 1 .. Len(disk[fileName]) + Len(added)
    BY <1>3
  <2>1. CASE i <= Len(disk[fileName])
    <3>1. i \in 1 .. Len(disk[fileName]) /\ disk'[fileName][i] = disk[fileName][i]
      BY <1>2, <1>3, <2>0, <2>1
    <3>2. fileName \in Seconds
      BY DEF TypeOK
    <3>3. disk[fileName][i].run <= run
      BY <3>1, <3>2 DEF NothingFromLater
    <3> QED
      BY <3>1, <3>3
  <2>2. CASE ~(i <= Len(disk[fileName]))
    <3>1. i - Len(disk[fileName]) \in 1 .. Len(added) /\ i - Len(disk[fileName]) \in 1 .. Len(pending)
      BY <1>1, <1>2, <2>0, <2>2
    <3>2. disk'[fileName][i] = added[i - Len(disk[fileName])]
      BY <1>3, <2>0, <2>2
    <3>3. added[i - Len(disk[fileName])].run <= run
      BY <1>1, <3>1
    <3> QED
      BY <3>2, <3>3
  <2> QED
    BY <2>1, <2>2
<1>5. \A name \in Seconds : \A i \in 1 .. Len(disk'[name]) : disk'[name][i].run <= run'
  <2> SUFFICES ASSUME NEW name \in Seconds, NEW i \in 1 .. Len(disk'[name])
               PROVE  disk'[name][i].run <= run
    OBVIOUS
  <2>1. CASE name = fileName
    BY <1>4, <2>1
  <2>2. CASE name # fileName
    BY <1>3, <2>2 DEF NothingFromLater
  <2> QED
    BY <2>1, <2>2
<1>6. \A i \in 1 .. Len(buffer') : buffer'[i].run <= run'
  BY <1>1
<1> QED
  BY <1>5, <1>6 DEF NothingFromLater

(* ... and gives an empty file a header first if that is pending first, or    *)
(* leaves it pending; without a refusal all that is pending goes.             *)
LEMMA WriteKeepsHead ==
    ASSUME TypeOK, HeadInv, up, stream # "closed", PendingGoes(buffer),
           UNCHANGED << fileName, run, headless >>
    PROVE  HeadInv'
<1>1. PICK added \in Seq(Chunk) :
         /\ disk' = [disk EXCEPT ![fileName] = @ \o added]
         /\ Len(added) <= Len(buffer)
         /\ \A i \in 1 .. Len(added) : added[i].kind = buffer[i].kind
         /\ \/ added = buffer /\ buffer' = << >> /\ scarred' = scarred
            \/ buffer # << >> /\ buffer' = buffer /\ scarred' = scarred \cup {fileName}
  BY DEF PendingGoes
<1>2. Len(added) \in Nat /\ Len(buffer) \in Nat /\ Len(disk[fileName]) \in Nat
      /\ fileName \in Seconds /\ disk[fileName] \in Seq(Chunk) /\ buffer \in Seq(Chunk)
  BY LenProperties DEF TypeOK
<1>3. /\ \A name \in Seconds : name # fileName => disk'[name] = disk[name]
      /\ disk'[fileName] \in Seq(Chunk)
      /\ disk'[fileName] = disk[fileName] \o added
      /\ Len(disk'[fileName]) = Len(disk[fileName]) + Len(added)
      /\ \A i \in 1 .. Len(disk[fileName]) + Len(added) :
             disk'[fileName][i] = IF i <= Len(disk[fileName]) THEN disk[fileName][i]
                                                         ELSE added[i - Len(disk[fileName])]
  BY <1>1, <1>2, FileGrows
<1>4. ASSUME fileName \notin headless, disk'[fileName] # << >>
      PROVE  disk'[fileName][1].kind = "header"
  <2>1. CASE disk[fileName] = << >>
    <3>1. Len(disk[fileName]) = 0 /\ Len(disk'[fileName]) # 0
      BY <1>3, <1>4, <2>1, EmptySeq
    <3>2. 1 \in 1 .. Len(added) /\ ~(1 <= Len(disk[fileName])) /\ 1 - Len(disk[fileName]) = 1
      BY <1>2, <1>3, <3>1
    <3>3. disk'[fileName][1] = added[1]
      BY <1>2, <1>3, <3>1, <3>2
    <3>4. buffer[1].kind = "header"
      BY <1>4, <2>1 DEF HeadInv
    <3> QED
      BY <1>1, <3>2, <3>3, <3>4
  <2>2. CASE disk[fileName] # << >>
    <3>1. Len(disk[fileName]) # 0
      BY <1>2, <2>2, EmptySeq
    <3>2. disk'[fileName][1] = disk[fileName][1]
      <4>1. 1 \in 1 .. Len(disk[fileName]) + Len(added) /\ 1 <= Len(disk[fileName])
        BY <1>2, <3>1
      <4> QED
        BY <1>3, <4>1
    <3>3. fileName \in Seconds \ headless
      BY <1>2, <1>4
    <3> QED
      BY <2>2, <3>2, <3>3 DEF HeadInv, HeaderFirst
  <2> QED
    BY <2>1, <2>2
<1>5. ASSUME fileName \notin headless, fileName \notin scarred'
      PROVE  EndsIn(disk'[fileName], run) /\ disk'[fileName] \o buffer' = disk'[fileName]
  <2>1. added = buffer /\ buffer' = << >> /\ scarred' = scarred
    BY <1>1, <1>5
  <2>2. EndsIn(disk[fileName] \o buffer, run)
    BY <1>5, <2>1 DEF HeadInv
  <2>3. disk'[fileName] \o << >> = disk'[fileName]
    BY <1>3, ConcatEmptySeq
  <2> QED
    BY <1>3, <2>1, <2>2, <2>3
<1>6. HeaderFirst'
  <2> SUFFICES ASSUME NEW name \in Seconds \ headless
               PROVE  /\ disk'[name] # << >> => disk'[name][1].kind = "header"
                      /\ name \notin scarred' => HeaderPerRun(disk'[name])
    BY DEF HeaderFirst, HeaderPerRun
  <2>1. CASE name = fileName
    BY <1>4, <1>5, <2>1 DEF EndsIn
  <2>2. CASE name # fileName
    <3>1. disk'[name] = disk[name] /\ (name \notin scarred' => name \notin scarred)
      BY <1>1, <1>3, <2>2
    <3> QED
      BY <3>1 DEF HeadInv, HeaderFirst
  <2> QED
    BY <2>1, <2>2
<1>7. ASSUME fileName \notin headless, disk'[fileName] = << >>
      PROVE  buffer' # << >> /\ buffer'[1].kind = "header"
  <2>1. Len(disk'[fileName]) = 0
    BY <1>7, EmptySeq
  <2>2. Len(disk[fileName]) = 0 /\ Len(added) = 0
    BY <1>2, <1>3, <2>1
  <2>3. disk[fileName] = << >> /\ added = << >>
    BY <1>2, <2>2, EmptySeq
  <2>4. buffer # << >> /\ buffer[1].kind = "header"
    BY <1>7, <2>3 DEF HeadInv
  <2> QED
    BY <1>1, <2>3, <2>4
<1>8. fileName \notin headless /\ fileName \notin scarred' =>
          EndsIn(disk'[fileName] \o buffer', run)
  BY <1>5
<1> QED
  BY <1>6, <1>7, <1>8 DEF HeadInv, EndsIn, HeaderPerRun

(* A step that touches neither the file, nor what is pending, nor the         *)
(* histories keeps the headers, whatever becomes of the stream.               *)
LEMMA NoWriteKeepsHead ==
    ASSUME HeadInv, UNCHANGED << fileName, run, disk, buffer, headless, scarred >>,
           up' /\ stream' # "closed" => up /\ stream # "closed"
    PROVE  HeadInv'
<1>1. HeaderFirst'
  BY DEF HeadInv, HeaderFirst, HeaderPerRun
<1>2. EndsIn(disk[fileName] \o buffer, run)' <=> EndsIn(disk[fileName] \o buffer, run)
  BY DEF EndsIn, HeaderPerRun
<1> QED
  BY <1>1, <1>2 DEF HeadInv

(* What is pending when a packet is flushed completes its run, if nothing was *)
(* refused.                                                                   *)
LEMMA FlushCompletesRun ==
    ASSUME IInv, up, consuming = "written", PendingGoes(buffer), ~refused'
    PROVE  ~refused /\ buffer' = << >> /\ EndsWithRun(disk'[fileName], run, reported + 1)
<1>1. /\ run \in Nat /\ reported \in Nat /\ buffer \in Seq(Chunk)
      /\ fileName \in Seconds /\ disk[fileName] \in Seq(Chunk)
  BY PcapConsumerAssumption DEF IInv, TypeOK
<1>2. ThisPacket = Packet(run, reported + 1) /\ PacketsFlushed = reported
  BY DEF ThisPacket, PacketsFlushed
<1>3. /\ disk' = [disk EXCEPT ![fileName] = @ \o buffer]
      /\ buffer' = << >> /\ refused' = refused
  BY DEF PendingGoes
<1>4. disk'[fileName] = disk[fileName] \o buffer
  BY <1>1, <1>3, FileGrows DEF IInv
<1>5. CASE reported = 0
  <2>1. /\ buffer = Append(<< Header(run) >>, ThisPacket)
        /\ \A i \in 1 .. Len(disk[fileName]) : disk[fileName][i].run # run
    BY <1>2, <1>3, <1>5 DEF IInv, RunInv, Unflushed
  <2>2. EndsWithRun(disk[fileName] \o Append(<< Header(run) >>, Packet(run, 1)), run, 1)
    BY <1>1, <2>1, HeaderWritten
  <2>3. ThisPacket = Packet(run, 1) /\ reported + 1 = 1
    BY <1>2, <1>5
  <2> QED
    BY <1>3, <1>4, <2>1, <2>2, <2>3
<1>6. CASE reported # 0
  <2>1. /\ buffer = Append(<< >>, ThisPacket)
        /\ EndsWithRun(disk[fileName], run, reported)
    BY <1>1, <1>2, <1>3, <1>6 DEF IInv, RunInv, Unflushed, ReportedSurvivesKill
  <2>2. EndsWithRun(disk[fileName] \o Append(<< >>, Packet(run, reported + 1)), run, reported + 1)
    BY <1>1, <2>1, PacketWritten
  <2> QED
    BY <1>2, <1>3, <1>4, <2>1, <2>2
<1> QED
  BY <1>5, <1>6

(* Making a consumer. *)
LEMMA ConstructKeeps ==
    ASSUME IInv, Construct \/ ConstructClosed
    PROVE  IInv'
<1>1. /\ up' = TRUE /\ run' = run + 1 /\ fileName' = second /\ reported' = 0
      /\ consuming' = "no" /\ UNCHANGED << second, disk, scarred, uploads, headless >>
      /\ run \in Nat /\ run' \in 0 .. MaxRuns /\ reported' \in 0 .. MaxPackets
      /\ second \in Seconds
  BY PcapConsumerAssumption DEF Construct, ConstructClosed, StartRun, IInv, TypeOK
<1>2. \/ stream' = "good" /\ buffer' = << Header(run + 1) >> /\ refused' = FALSE
      \/ stream' = "closed" /\ buffer' = << >> /\ refused' = TRUE
  BY DEF Construct, ConstructClosed
<1>3. /\ buffer' \in Seq(Chunk)
      /\ buffer' # << >> => buffer' = << Header(run + 1) >>
      /\ Header(run + 1) \in Chunk /\ << Header(run + 1) >> # << >>
      /\ Len(<< Header(run + 1) >>) = 1 /\ << Header(run + 1) >>[1] = Header(run + 1)
      /\ Header(run + 1).run = run + 1 /\ Header(run + 1).kind = "header"
  <2>1. Header(run + 1) \in Chunk
    BY <1>1, ChunkTypes
  <2>2. Header(run + 1).run = run + 1 /\ Header(run + 1).kind = "header"
    BY DEF Header
  <2>3. /\ << Header(run + 1) >> \in Seq(Chunk) /\ << Header(run + 1) >> # << >>
        /\ Len(<< Header(run + 1) >>) = 1 /\ << Header(run + 1) >>[1] = Header(run + 1)
    BY <2>1
  <2>4. buffer' \in Seq(Chunk) /\ (buffer' # << >> => buffer' = << Header(run + 1) >>)
    BY <1>2, <2>3, EmptySeq, Zenon
  <2> QED
    BY <2>1, <2>2, <2>3, <2>4, Zenon
<1>4. TypeOK'
  BY <1>1, <1>2, <1>3 DEF IInv, TypeOK
<1>5. NothingFromLater'
  <2>1. \A name \in Seconds : \A i \in 1 .. Len(disk[name]) : disk[name][i].run <= run + 1
    <3> SUFFICES ASSUME NEW name \in Seconds, NEW i \in 1 .. Len(disk[name])
                 PROVE  disk[name][i].run <= run + 1
      OBVIOUS
    <3>1. disk[name][i].run <= run /\ disk[name][i] \in Chunk
      BY ElementOfSeq DEF IInv, NothingFromLater, TypeOK
    <3> QED
      BY <1>1, <3>1 DEF Chunk
  <2>2. \A i \in 1 .. Len(buffer') : buffer'[i].run <= run + 1
    BY <1>1, <1>2, <1>3
  <2> QED
    BY <1>1, <2>1, <2>2 DEF NothingFromLater
<1>6. RunInv'
  <2>1. \A i \in 1 .. Len(disk[second]) : disk[second][i].run # run + 1
    <3> SUFFICES ASSUME NEW i \in 1 .. Len(disk[second])
                 PROVE  disk[second][i].run # run + 1
      OBVIOUS
    <3>1. disk[second][i].run <= run /\ disk[second][i] \in Chunk
      BY <1>1, ElementOfSeq DEF IInv, NothingFromLater, TypeOK
    <3> QED
      BY <1>1, <3>1 DEF Chunk
  <2>2. UploadComplete'
    BY <1>1 DEF IInv, RunInv, UploadComplete, EndsWithRun
  <2>3. ReportedSurvivesKill'
    BY <1>1 DEF ReportedSurvivesKill, PacketsFlushed
  <2>4. ASSUME ~refused'
        PROVE  /\ stream' = "good" /\ buffer' = << Header(run') >>
               /\ \A i \in 1 .. Len(disk'[fileName']) : disk'[fileName'][i].run # run'
    BY <1>1, <1>2, <2>1, <2>4
  <2>5. PacketsFlushed' = 0 /\ ~(0 > 0) /\ Unflushed(<< Header(run) >>)' = << Header(run') >>
    BY <1>1 DEF PacketsFlushed, Unflushed
  <2> QED
    BY <1>1, <2>2, <2>3, <2>4, <2>5, Zenon DEF RunInv
<1>7. HeadInv'
  <2>1. HeaderFirst'
    BY <1>1 DEF IInv, HeadInv, HeaderFirst, HeaderPerRun
  <2>2. ASSUME stream' # "closed"
        PROVE  buffer' # << >> /\ buffer'[1].kind = "header"
    BY <1>2, <1>3, <2>2
  <2>3. ASSUME stream' # "closed", second \notin headless, second \notin scarred
        PROVE  EndsIn(disk[second] \o buffer', run + 1)
    <3>1. disk[second] \in Seq(Chunk) /\ HeaderPerRun(disk[second])
      BY <1>1, <2>3 DEF IInv, TypeOK, HeadInv, HeaderFirst
    <3>2. ASSUME disk[second] # << >>
          PROVE  disk[second][Len(disk[second])].run # run + 1
      <4>1. Len(disk[second]) \in 1 .. Len(disk[second])
        <5>1. Len(disk[second]) \in Nat /\ Len(disk[second]) # 0
          BY <3>1, <3>2, LenProperties, EmptySeq
        <5> QED
          BY <5>1
      <4>2. disk[second][Len(disk[second])].run <= run
        BY <1>1, <4>1 DEF IInv, NothingFromLater
      <4>3. disk[second][Len(disk[second])] \in Chunk
        BY <3>1, <4>1, ElementOfSeq
      <4> QED
        BY <1>1, <4>2, <4>3 DEF Chunk
    <3>3. Header(run + 1).whole
      BY DEF Header
    <3>4. EndsIn(disk[second] \o << Header(run + 1) >>, run + 1)
      BY <1>3, <3>1, <3>2, <3>3, ChunkAdded
    <3> QED
      BY <1>2, <2>3, <3>4
  <2> QED
    BY <1>1, <2>1, <2>2, <2>3 DEF HeadInv, EndsIn, HeaderPerRun
<1> QED
  BY <1>4, <1>5, <1>6, <1>7 DEF IInv

(* Consume writes the packet, which goes behind what is pending. *)
LEMMA ConsumeWritesKeeps ==
    ASSUME IInv, ConsumeWrites \/ ConsumeOnBadStream \/ ConsumeOpens
    PROVE  IInv'
<1>1. /\ up = TRUE /\ consuming = "no" /\ consuming' = "written" /\ reported < MaxPackets
      /\ UNCHANGED << up, second, fileName, disk, run, reported, refused, scarred, uploads >>
      /\ fileName \in Seconds /\ reported \in Nat /\ run \in Nat /\ buffer \in Seq(Chunk)
      /\ disk[fileName] \in Seq(Chunk) /\ headless' \subseteq Seconds
  <2>1. ConsumeBegins /\ (headless' = headless \/ headless' = headless \cup {fileName})
    BY DEF ConsumeWrites, ConsumeOnBadStream, ConsumeOpens
  <2>2. /\ fileName \in Seconds /\ reported \in Nat /\ run \in Nat /\ buffer \in Seq(Chunk)
        /\ disk \in [Seconds -> Seq(Chunk)] /\ headless \subseteq Seconds /\ up \in BOOLEAN
    BY PcapConsumerAssumption DEF IInv, TypeOK
  <2> QED
    BY <2>1, <2>2 DEF ConsumeBegins
<1>2. \/ /\ stream \in {"good", "closed"} /\ stream' = "good" /\ buffer' = Append(buffer, ThisPacket)
         /\ \/ stream = "good" /\ headless' = headless
            \/ headless' = headless \cup {fileName}
      \/ stream = "bad" /\ UNCHANGED << stream, buffer, headless >>
  BY DEF ConsumeWrites, ConsumeOnBadStream, ConsumeOpens
<1>3. ThisPacket \in Chunk /\ ThisPacket.run = run /\ ThisPacket.whole /\ ThisPacket.kind # "header"
  <2>1. reported + 1 \in Nat
    BY <1>1
  <2> QED
    BY <1>1, <2>1, ChunkTypes DEF ThisPacket, Packet
<1>4. /\ Append(buffer, ThisPacket) \in Seq(Chunk)
      /\ Append(buffer, ThisPacket) # << >>
      /\ Len(Append(buffer, ThisPacket)) = Len(buffer) + 1
      /\ \A i \in 1 .. Len(buffer) : Append(buffer, ThisPacket)[i] = buffer[i]
      /\ Append(buffer, ThisPacket)[Len(buffer) + 1] = ThisPacket
      /\ Append(buffer, ThisPacket) = buffer \o << ThisPacket >>
      /\ Len(buffer) \in Nat
  BY <1>1, <1>3, AppendProperties, AppendIsConcat, LenProperties
<1>5. TypeOK'
  <2>1. buffer' \in Seq(Chunk) /\ stream' \in {"closed", "good", "bad"} /\ ~(stream' = "closed")
        /\ consuming' \in {"no", "written", "flushed"}
    BY <1>1, <1>2, <1>4
  <2> QED
    BY <1>1, <2>1, Zenon DEF IInv, TypeOK
<1>6. NothingFromLater'
  <2>1. \A i \in 1 .. Len(buffer) + 1 : Append(buffer, ThisPacket)[i].run <= run
    <3> SUFFICES ASSUME NEW i \in 1 .. Len(buffer) + 1
                 PROVE  Append(buffer, ThisPacket)[i].run <= run
      OBVIOUS
    <3>1. CASE i \in 1 .. Len(buffer)
      BY <1>4, <3>1 DEF IInv, NothingFromLater
    <3>2. CASE i = Len(buffer) + 1
      BY <1>1, <1>3, <1>4, <3>2
    <3> QED
      BY <1>4, <3>1, <3>2
  <2>2. \A i \in 1 .. Len(buffer') : buffer'[i].run <= run
    BY <1>2, <1>4, <2>1 DEF IInv, NothingFromLater
  <2> QED
    BY <1>1, <2>2 DEF IInv, NothingFromLater
<1>7. RunInv'
  <2>1. PacketsFlushed' = PacketsFlushed /\ ThisPacket' = ThisPacket
    BY <1>1 DEF PacketsFlushed, ThisPacket
  <2>2. UploadComplete' /\ ReportedSurvivesKill'
    BY <1>1, <2>1 DEF IInv, RunInv, UploadComplete, ReportedSurvivesKill, EndsWithRun
  <2>3. ASSUME ~refused
        PROVE  stream' = "good" /\ buffer' = Append(buffer, ThisPacket)
    BY <1>1, <1>2, <2>3 DEF IInv, RunInv
  <2>4. ASSUME NEW before, buffer = Unflushed(before), ~refused
        PROVE  buffer' = IF consuming' = "written" THEN Append(before, ThisPacket') ELSE before
    BY <1>1, <2>1, <2>3, <2>4 DEF Unflushed
  <2>5. ASSUME ~refused, PacketsFlushed > 0
        PROVE  buffer' = Unflushed(<< >>)'
    BY <1>1, <2>4, <2>5 DEF IInv, RunInv, Unflushed
  <2>6. ASSUME ~refused, PacketsFlushed = 0
        PROVE  /\ buffer' = Unflushed(<< Header(run) >>)'
               /\ \A i \in 1 .. Len(disk'[fileName']) : disk'[fileName'][i].run # run'
    <3>1. /\ buffer = Unflushed(<< Header(run) >>)
          /\ \A i \in 1 .. Len(disk[fileName]) : disk[fileName][i].run # run
      BY <1>1, <2>6 DEF IInv, RunInv
    <3>2. buffer' = IF consuming' = "written" THEN Append(<< Header(run) >>, ThisPacket')
                                              ELSE << Header(run) >>
      BY <2>4, <2>6, <3>1
    <3>3. Header(run') = Header(run)
      BY <1>1
    <3> QED
      BY <1>1, <3>1, <3>2, <3>3 DEF Unflushed
  <2>7. stream' # "closed"
    BY <1>2
  <2> QED
    BY <1>1, <2>1, <2>2, <2>3, <2>5, <2>6, <2>7, Zenon DEF RunInv
<1>8. HeadInv'
  <2>1. HeaderFirst'
    BY <1>1, <1>2 DEF IInv, HeadInv, HeaderFirst, HeaderPerRun
  <2>2. ASSUME fileName \notin headless'
        PROVE  fileName \notin headless /\ stream # "closed"
    BY <1>2, <2>2
  <2>3. ASSUME fileName \notin headless', disk[fileName] = << >>
        PROVE  buffer' # << >> /\ buffer'[1].kind = "header"
    <3>1. buffer # << >> /\ buffer[1].kind = "header"
      BY <1>1, <2>2, <2>3 DEF IInv, HeadInv
    <3>2. 1 \in 1 .. Len(buffer)
      BY <1>1, <1>4, <3>1, EmptySeq
    <3> QED
      BY <1>2, <1>4, <3>1, <3>2
  <2>4. ASSUME fileName \notin headless', fileName \notin scarred
        PROVE  EndsIn(disk[fileName] \o buffer', run)
    <3> DEFINE content == disk[fileName] \o buffer
    <3>1. EndsIn(content, run)
      BY <1>1, <2>2, <2>4 DEF IInv, HeadInv
    <3>2. content \in Seq(Chunk)
      BY <1>1, ConcatProperties
    <3>3. disk[fileName] \o Append(buffer, ThisPacket) = content \o << ThisPacket >>
      BY <1>1, <1>3, AppendToPending
    <3> HIDE DEF content
    <3>4. EndsIn(content \o << ThisPacket >>, run)
      BY <1>3, <3>1, <3>2, ChunkAdded DEF EndsIn
    <3> QED
      BY <1>2, <3>1, <3>3, <3>4 DEF content
  <2> QED
    BY <1>1, <2>1, <2>3, <2>4 DEF HeadInv, EndsIn, HeaderPerRun
<1> QED
  BY <1>5, <1>6, <1>7, <1>8 DEF IInv

(* Consume flushes: all that is pending goes to the disk, or some is refused, *)
(* or the stream is bad already and does not try.                             *)
LEMMA ConsumeFlushesKeeps ==
    ASSUME IInv, ConsumeFlushes
    PROVE  IInv'
<1>1. /\ up = TRUE /\ consuming = "written" /\ consuming' = "flushed"
      /\ UNCHANGED << up, second, fileName, run, reported, headless, uploads >>
      /\ reported \in Nat /\ run \in Nat /\ buffer \in Seq(Chunk) /\ reported < MaxPackets
      /\ stream # "closed" /\ stream' # "closed" /\ stream' \in {"closed", "good", "bad"}
  <2>1. stream # "closed"
    BY DEF ConsumeFlushes, IInv, RunInv
  <2> QED
    BY <2>1, PcapConsumerAssumption DEF ConsumeFlushes, IInv, TypeOK, RunInv
<1>2. PacketsFlushed' = reported + 1 /\ PacketsFlushed' > 0
  BY <1>1 DEF PacketsFlushed
<1>3. ASSUME TypeOK', NothingFromLater', HeadInv',
             ~refused' => /\ stream' = "good" /\ buffer' = << >>
                          /\ EndsWithRun(disk'[fileName], run, reported + 1)
      PROVE  IInv'
  <2>1. UploadComplete'
    BY <1>1 DEF IInv, RunInv, UploadComplete, EndsWithRun
  <2>2. ReportedSurvivesKill'
    BY <1>1, <1>2, <1>3 DEF ReportedSurvivesKill
  <2>3. Unflushed(<< >>)' = << >> /\ ~(PacketsFlushed' = 0)
    BY <1>1, <1>2 DEF Unflushed
  <2>4. reported' < MaxPackets /\ stream' # "closed"
    BY <1>1
  <2>5. RunInv'
    BY <1>3, <2>1, <2>2, <2>3, <2>4, Zenon DEF RunInv
  <2> QED
    BY <1>3, <2>5 DEF IInv
<1>4. CASE (Written(buffer) /\ UNCHANGED stream) \/ (Refused(buffer) /\ stream' = "bad")
  <2>1. PendingGoes(buffer)
    BY <1>1, <1>4, WriteAdds
  <2>2. TypeOK'
    <3>1. /\ disk' \in [Seconds -> Seq(Chunk)] /\ scarred' \subseteq Seconds
          /\ buffer' \in Seq(Chunk) /\ refused' \in BOOLEAN
      BY <1>1, <2>1, WriteType DEF IInv
    <3> QED
      BY <1>1, <3>1, Zenon DEF IInv, TypeOK
  <2>3. NothingFromLater'
    BY <1>1, <2>1, WriteKeepsOrder DEF IInv, NothingFromLater
  <2>4. HeadInv'
    BY <1>1, <2>1, WriteKeepsHead DEF IInv
  <2>5. ASSUME ~refused'
        PROVE  /\ stream' = "good" /\ buffer' = << >>
               /\ EndsWithRun(disk'[fileName], run, reported + 1)
    <3>1. ~refused /\ buffer' = << >> /\ EndsWithRun(disk'[fileName], run, reported + 1)
      BY <1>1, <2>1, <2>5, FlushCompletesRun
    <3>2. UNCHANGED stream /\ stream = "good"
      BY <1>1, <1>4, <2>5, <3>1 DEF Refused, IInv, RunInv
    <3> QED
      BY <3>1, <3>2
  <2> QED
    BY <1>3, <2>2, <2>3, <2>4, <2>5
<1>5. CASE stream = "bad" /\ UNCHANGED << stream, disk, buffer, refused, scarred >>
  <2>1. TypeOK' /\ NothingFromLater'
    BY <1>1, <1>5 DEF IInv, TypeOK, NothingFromLater
  <2>2. HeadInv'
    BY <1>1, <1>5, NoWriteKeepsHead DEF IInv
  <2>3. refused' = TRUE
    BY <1>1, <1>5 DEF IInv, RunInv, TypeOK
  <2> QED
    BY <1>3, <2>1, <2>2, <2>3
<1> QED
  BY <1>4, <1>5 DEF ConsumeFlushes, Flushed

(* Consume returns: the packet it has flushed counts as reported.             *)
LEMMA ConsumeReturnsKeeps ==
    ASSUME IInv, ConsumeReturns
    PROVE  IInv'
<1>1. /\ consuming = "flushed" /\ consuming' = "no" /\ reported' = reported + 1
      /\ UNCHANGED << up, second, fileName, stream, buffer, disk, run, refused, scarred, headless,
                      uploads >>
      /\ reported \in Nat /\ reported < MaxPackets
  BY PcapConsumerAssumption DEF ConsumeReturns, IInv, TypeOK, RunInv
<1>2. PacketsFlushed' = PacketsFlushed /\ PacketsFlushed = reported + 1
      /\ reported + 1 \in 0 .. MaxPackets
  BY <1>1, PcapConsumerAssumption DEF PacketsFlushed
<1>3. TypeOK' /\ NothingFromLater'
  BY <1>1, <1>2 DEF IInv, TypeOK, NothingFromLater
<1>4. RunInv'
  <2>1. UploadComplete' /\ ReportedSurvivesKill'
    BY <1>1, <1>2 DEF IInv, RunInv, UploadComplete, ReportedSurvivesKill, EndsWithRun
  <2>2. Unflushed(<< >>)' = Unflushed(<< >>) /\ ~(PacketsFlushed' = 0)
    BY <1>1, <1>2 DEF Unflushed
  <2> QED
    BY <1>1, <1>2, <2>1, <2>2 DEF IInv, RunInv
<1>5. HeadInv'
  BY <1>1, NoWriteKeepsHead DEF IInv
<1> QED
  BY <1>3, <1>4, <1>5 DEF IInv

(* What is uploaded joins the uploads. *)
LEMMA DestroyKeepsRun ==
    ASSUME IInv, Destroy,
           disk' \in [Seconds -> Seq(Chunk)], buffer' \in Seq(Chunk), refused' \in BOOLEAN,
           scarred' \subseteq Seconds, NothingFromLater', HeadInv', ~refused' => EndsWithRun(disk'[fileName], run, reported)
    PROVE  IInv'
<1> DEFINE upload == [run |-> run, name |-> fileName, refused |-> refused',
                      content |-> disk'[fileName], packets |-> reported]
<1>1. /\ up' = FALSE /\ stream' = "closed" /\ consuming = "no"
      /\ UNCHANGED << second, fileName, run, consuming, reported, headless >>
      /\ uploads' = Append(uploads, upload)
      /\ fileName \in Seconds /\ run \in Nat /\ reported \in Nat
      /\ uploads \in Seq(UploadRecord)
  BY PcapConsumerAssumption DEF Destroy, Stored, IInv, TypeOK, UploadRecord
<1>2. /\ upload \in UploadRecord /\ upload.run = run /\ upload.refused = refused'
      /\ upload.content = disk'[fileName] /\ upload.packets = reported
  BY <1>1 DEF UploadRecord
<1> HIDE DEF upload
<1>3. /\ uploads' \in Seq(UploadRecord) /\ Len(uploads') = Len(uploads) + 1
      /\ \A i \in 1 .. Len(uploads) : uploads'[i] = uploads[i]
      /\ uploads'[Len(uploads) + 1] = upload
  BY <1>1, <1>2, AppendProperties
<1>4. Len(uploads) \in Nat /\ DOMAIN uploads = 1 .. Len(uploads)
      /\ DOMAIN uploads' = 1 .. Len(uploads) + 1
  BY <1>1, <1>3, LenProperties
<1>5. TypeOK'
  BY <1>1, <1>3, Zenon DEF IInv, TypeOK, UploadRecord
<1>6. UploadComplete'
  <2> SUFFICES ASSUME NEW i \in DOMAIN uploads', ~uploads'[i].refused
               PROVE  EndsWithRun(uploads'[i].content, uploads'[i].run, uploads'[i].packets)
    BY DEF UploadComplete
  <2>1. CASE i \in 1 .. Len(uploads)
    BY <1>3, <1>4, <2>1 DEF IInv, RunInv, UploadComplete
  <2>2. CASE i = Len(uploads) + 1
    BY <1>2, <1>3, <2>2
  <2> QED
    BY <1>4, <2>1, <2>2
<1>7. RunInv'
  <2>1. ReportedSurvivesKill'
    <3>1. PacketsFlushed' = reported
      BY <1>1 DEF PacketsFlushed
    <3> QED
      BY <1>1, <3>1 DEF ReportedSurvivesKill
  <2> QED
    BY <1>1, <1>6, <2>1 DEF RunInv
<1> QED
  BY <1>5, <1>7 DEF IInv

(* The destructor: what it uploads is what it has closed.                     *)
LEMMA DestroyKeeps ==
    ASSUME IInv, Destroy
    PROVE  IInv'
<1> DEFINE upload == [run |-> run, name |-> fileName, refused |-> refused',
                      content |-> disk'[fileName], packets |-> reported]
<1>1. /\ up = TRUE /\ up' = FALSE /\ stream' = "closed" /\ consuming = "no"
      /\ UNCHANGED << second, fileName, run, consuming, reported, headless >>
      /\ uploads' = Append(uploads, upload)
      /\ fileName \in Seconds /\ run \in Nat /\ reported \in Nat /\ buffer \in Seq(Chunk)
      /\ disk[fileName] \in Seq(Chunk) /\ uploads \in Seq(UploadRecord)
  BY PcapConsumerAssumption DEF Destroy, Stored, IInv, TypeOK, UploadRecord
<1>2. CASE stream = "closed" /\ UNCHANGED << disk, buffer, refused, scarred >>
  <2>1. refused' = TRUE /\ refused = TRUE
    BY <1>1, <1>2 DEF IInv, RunInv, TypeOK
  <2>2. /\ disk' \in [Seconds -> Seq(Chunk)] /\ buffer' \in Seq(Chunk) /\ refused' \in BOOLEAN
        /\ scarred' \subseteq Seconds /\ NothingFromLater'
    BY <1>1, <1>2 DEF IInv, TypeOK, NothingFromLater
  <2>4. HeadInv'
    BY <1>1, <1>2 DEF IInv, HeadInv, HeaderFirst, HeaderPerRun
  <2>3. ~refused' => EndsWithRun(disk'[fileName], run, reported)
    BY <2>1
  <2> QED
    BY <2>2, <2>3, <2>4, DestroyKeepsRun
<1>3. CASE stream # "closed" /\ (Written(buffer) \/ Refused(buffer))
  <2>1. PendingGoes(buffer)
    BY <1>1, <1>3, WriteAdds
  <2>2. disk' \in [Seconds -> Seq(Chunk)] /\ buffer' \in Seq(Chunk) /\ refused' \in BOOLEAN
        /\ scarred' \subseteq Seconds
    BY <1>1, <2>1, WriteType DEF IInv
  <2>3. NothingFromLater'
    BY <1>1, <2>1, WriteKeepsOrder DEF IInv, NothingFromLater
  <2>4. HeadInv'
    BY <1>1, <1>3, <2>1, WriteKeepsHead DEF IInv
  <2>5. ASSUME ~refused'
        PROVE  EndsWithRun(disk'[fileName], run, reported)
    <3>1. /\ disk' = [disk EXCEPT ![fileName] = @ \o buffer]
          /\ refused' = refused
      BY <2>1, <2>5 DEF PendingGoes
    <3>2. disk'[fileName] = disk[fileName] \o buffer
      BY <1>1, <3>1, FileGrows DEF IInv
    <3>3. PacketsFlushed = reported /\ Unflushed(<< >>) = << >>
          /\ Unflushed(<< Header(run) >>) = << Header(run) >>
      BY <1>1 DEF PacketsFlushed, Unflushed
    <3>4. CASE reported = 0
      <4>1. /\ buffer = << Header(run) >>
            /\ \A i \in 1 .. Len(disk[fileName]) : disk[fileName][i].run # run
        BY <1>1, <2>5, <3>1, <3>3, <3>4 DEF IInv, RunInv
      <4> QED
        BY <1>1, <3>2, <3>4, <4>1, HeaderWritten
    <3>5. CASE reported # 0
      <4>1. /\ buffer = << >>
            /\ EndsWithRun(disk[fileName], run, reported)
        BY <1>1, <2>5, <3>1, <3>3, <3>5 DEF IInv, RunInv, ReportedSurvivesKill
      <4> QED
        BY <1>1, <3>2, <4>1, ConcatEmptySeq
    <3> QED
      BY <3>4, <3>5
  <2> QED
    BY <2>2, <2>3, <2>4, <2>5, DestroyKeepsRun
<1> QED
  BY <1>2, <1>3 DEF Destroy

(* A kill loses what is pending, and time passes. *)
LEMMA KillKeeps ==
    ASSUME IInv, Kill \/ SecondPasses
    PROVE  IInv'
<1>1. /\ UNCHANGED << fileName, disk, run, consuming, reported, refused, scarred, headless, uploads >>
      /\ \/ up' = FALSE /\ stream' = "closed" /\ buffer' = << >> /\ second' = second
         \/ UNCHANGED << up, stream, buffer >> /\ second' \in Seconds
  BY DEF Kill, SecondPasses, histories
<1>2. TypeOK'
  <2>1. buffer' \in Seq(Chunk) /\ second' \in Seconds /\ up' \in BOOLEAN
        /\ stream' \in {"closed", "good", "bad"}
    BY <1>1, EmptySeq DEF IInv, TypeOK
  <2>2. up' /\ stream' = "closed" => buffer' = << >>
    BY <1>1 DEF IInv, TypeOK
  <2> QED
    BY <1>1, <2>1, <2>2, Zenon DEF IInv, TypeOK
<1>3. NothingFromLater'
  BY <1>1 DEF IInv, NothingFromLater
<1>4. RunInv'
  <2>1. PacketsFlushed' = PacketsFlushed
    BY <1>1 DEF PacketsFlushed
  <2>2. \A before : up' => Unflushed(before)' = Unflushed(before)
    BY <1>1 DEF Unflushed, ThisPacket
  <2>3. UploadComplete' /\ ReportedSurvivesKill'
    BY <1>1, <2>1 DEF IInv, RunInv, ReportedSurvivesKill, UploadComplete, EndsWithRun
  <2> QED
    BY <1>1, <2>1, <2>3 DEF IInv, RunInv, Unflushed, ThisPacket
<1>5. HeadInv'
  <2>1. CASE up' = FALSE
    <3>1. HeaderFirst'
      BY <1>1 DEF IInv, HeadInv, HeaderFirst, HeaderPerRun
    <3> QED
      BY <2>1, <3>1 DEF HeadInv
  <2>2. CASE UNCHANGED << up, stream, buffer >>
    BY <1>1, <2>2, NoWriteKeepsHead DEF IInv
  <2> QED
    BY <1>1, <2>1, <2>2
<1> QED
  BY <1>2, <1>3, <1>4, <1>5 DEF IInv

LEMMA NextIInv == IInv /\ [Next]_vars => IInv'
<1> SUFFICES ASSUME IInv, [Next]_vars PROVE IInv'
  OBVIOUS
<1>1. CASE Construct \/ ConstructClosed
  BY <1>1, ConstructKeeps
<1>2. CASE ConsumeWrites \/ ConsumeOnBadStream \/ ConsumeOpens
  BY <1>2, ConsumeWritesKeeps
<1>3. CASE ConsumeFlushes
  BY <1>3, ConsumeFlushesKeeps
<1>7. CASE ConsumeReturns
  BY <1>7, ConsumeReturnsKeeps
<1>4. CASE Destroy
  BY <1>4, DestroyKeeps
<1>5. CASE Kill \/ SecondPasses
  BY <1>5, KillKeeps
<1>6. CASE UNCHANGED vars
  <2>1. TypeOK' /\ NothingFromLater'
    BY <1>6 DEF IInv, TypeOK, NothingFromLater, vars, histories
  <2>2. RunInv'
    BY <1>6 DEF IInv, RunInv, Unflushed, ThisPacket, PacketsFlushed, ReportedSurvivesKill,
       UploadComplete, EndsWithRun, vars, histories
  <2>3. HeadInv'
    BY <1>6, NoWriteKeepsHead DEF IInv, vars, histories
  <2> QED
    BY <2>1, <2>2, <2>3 DEF IInv
<1> QED
  BY <1>1, <1>2, <1>3, <1>4, <1>5, <1>6, <1>7 DEF Next, ConsumeFails, Over

LEMMA AlwaysIInv == Spec => []IInv
  BY InitIInv, NextIInv, PTL DEF Spec

(* Every variable keeps its type; only an open stream has anything pending.   *)
THEOREM TypeCorrect == Spec => []TypeOK
  BY AlwaysIInv, PTL DEF IInv

(* Wherever the process is killed, in the middle of a Consume too, the packets*)
(* of a run that Consume has flushed are at the end of its file, whole and in *)
(* order after the header of the run, as long as the disk has taken all that  *)
(* run gave it (consumer.cpp:176-204).                                        *)
THEOREM ReportedSurvives == Spec => []ReportedSurvivesKill
  BY AlwaysIInv, PTL DEF IInv, RunInv

(* However many runs share a file and wherever they were killed, unless       *)
(* Consume had to open it the file begins with a header, of which there may   *)
(* be only a piece if the disk refused a write to it. If it never did, all is *)
(* whole, and there is a header exactly where each run begins, the further    *)
(* ones in the middle of the file (consumer.cpp:122-131).                     *)
THEOREM FilesHeaded == Spec => []HeaderFirst
  BY AlwaysIInv, PTL DEF IInv, HeadInv

(* What the destructor gives to Store is the complete run, if the disk took   *)
(* all of it (consumer.cpp:134-139).                                          *)
THEOREM UploadsComplete == Spec => []UploadComplete
  BY AlwaysIInv, PTL DEF IInv, RunInv
=============================================================================
