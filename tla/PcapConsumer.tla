---------------------------- MODULE PcapConsumer ----------------------------
(***************************************************************************)
(* PcapConsumer (src/consumer.cpp) across runs of the program: the file it *)
(* names after the second it starts in and opens for appending, the packets*)
(* it writes and flushes, the upload of the file in the destructor, and    *)
(* what is left when the process is killed or the disk refuses a write.    *)
(*                                                                         *)
(* A file is a sequence of chunks: the file header, packets (each with its *)
(* packet header), and pieces of either that a failed write has left.      *)
(***************************************************************************)
EXTENDS Integers, Sequences, SequencesExt

CONSTANTS
    Seconds,      \* the seconds the clock shows, 0 .. n
    MaxRuns,      \* bound: how often the program is started
    MaxPackets    \* bound: packets consumed in a run

ASSUME PcapConsumerAssumption ==
    /\ Seconds \subseteq Nat
    /\ 0 \in Seconds
    /\ MaxRuns \in Nat
    /\ MaxPackets \in Nat

VARIABLES
    up,        \* a PcapConsumer exists
    second,    \* the wall clock, in seconds
    fileName,  \* _fileName: the second the consumer was made in
    stream,    \* _fileStream: "closed", "good" or "bad"
    buffer,    \* what the stream has not handed to the disk yet
    disk,      \* what the disk holds under each name
    run,       \* history: runs of the program so far
    consuming, \* how far Consume is: "no", "written" (to the stream) or "flushed"
    reported,  \* history: packets of this run that Consume returned true for
    refused,   \* history: the disk has refused something in this run
    scarred,   \* history: names under which the disk has ever refused a write
    headless,  \* history: names that were opened by Consume, not the constructor
    uploads    \* history: what Store found in the file of each run, by run

histories == << reported, refused, scarred, headless, uploads >>

vars == << up, second, fileName, stream, buffer, disk, run, consuming, histories >>

Chunk == [kind : {"header", "packet"}, run : Nat, number : Nat, whole : BOOLEAN]

Header(r)    == [kind |-> "header", run |-> r, number |-> 0, whole |-> TRUE]
Packet(r, n) == [kind |-> "packet", run |-> r, number |-> n, whole |-> TRUE]

Init ==
    /\ up = FALSE
    /\ second = 0
    /\ fileName = 0
    /\ stream = "closed"
    /\ buffer = << >>
    /\ disk = [name \in Seconds |-> << >>]
    /\ run = 0
    /\ consuming = "no"
    /\ reported = 0
    /\ refused = FALSE
    /\ scarred = {}
    /\ headless = {}
    /\ uploads = << >>

-----------------------------------------------------------------------------
(* The stream (external: std::fstream) *)

(* What a failed write may leave of the pending chunks: some whole ones, and  *)
(* a piece of the next.                                                       *)
Remnants(pending) ==
    {SubSeq(pending, 1, k) : k \in 0 .. Len(pending) - 1} \cup
    {Append(SubSeq(pending, 1, k), [pending[k + 1] EXCEPT !.whole = FALSE])
        : k \in 0 .. Len(pending) - 1}

(* The disk takes all that is pending, *)
Written(pending) ==
    /\ disk' = [disk EXCEPT ![fileName] = @ \o pending]
    /\ buffer' = << >>
    /\ UNCHANGED << refused, scarred >>

(* ... or it refuses some, which stays pending: a later flush or close may    *)
(* write it once more.                                                        *)
Refused(pending) ==
    /\ pending # << >>
    /\ \E remnant \in Remnants(pending) : disk' = [disk EXCEPT ![fileName] = @ \o remnant]
    /\ buffer' = pending
    /\ refused' = TRUE
    /\ scarred' = scarred \cup {fileName}

-----------------------------------------------------------------------------
(* The constructor *)

StartRun ==
    /\ ~up
    /\ run < MaxRuns
    /\ up' = TRUE
    /\ run' = run + 1
    /\ fileName' = second
    /\ consuming' = "no"
    /\ reported' = 0
    /\ UNCHANGED << second, disk, scarred, headless, uploads >>

(* Seeded fault: no file header. *)
ConstructBare ==
    /\ StartRun
    /\ stream' = "good"
    /\ buffer' = << >>
    /\ refused' = FALSE

(* The file header goes into the buffer; nothing flushes it yet. *)
Construct ==
    /\ StartRun
    /\ stream' = "good"
    /\ buffer' = << Header(run + 1) >>
    /\ refused' = FALSE

(* The file cannot be opened: the consumer exists all the same. *)
ConstructClosed ==
    /\ StartRun
    /\ stream' = "closed"
    /\ buffer' = << >>
    /\ refused' = TRUE

-----------------------------------------------------------------------------
(* Consume: it writes the packet to the stream, flushes, and returns *)

ThisPacket == Packet(run, reported + 1)

ConsumeBegins ==
    /\ up
    /\ consuming = "no"
    /\ reported < MaxPackets
    /\ consuming' = "written"
    /\ UNCHANGED << up, second, fileName, disk, run, reported, refused, scarred, uploads >>

(* The packet and its header are shorter than the buffer of the stream.       *)
ConsumeWrites ==
    /\ ConsumeBegins
    /\ stream = "good"
    /\ buffer' = Append(buffer, ThisPacket)
    /\ UNCHANGED << stream, headless >>

(* The writes into a bad stream do nothing. *)
ConsumeOnBadStream ==
    /\ ConsumeBegins
    /\ stream = "bad"
    /\ UNCHANGED << stream, buffer, headless >>

(* The constructor could not open the file: Consume tries again.              *)
ConsumeOpens ==
    /\ ConsumeBegins
    /\ stream = "closed"
    /\ stream' = "good"
    /\ buffer' = Append(buffer, ThisPacket)
    /\ headless' = headless \cup {fileName}

(* It fails again, and this is the only case Consume reports. *)
ConsumeFails ==
    /\ up
    /\ consuming = "no"
    /\ stream = "closed"
    /\ UNCHANGED vars

(* Seeded fault: packets stay in the buffer until the file is closed. *)
WrittenAtClose(pending) ==
    /\ buffer' = pending
    /\ UNCHANGED << disk, refused, scarred >>

(* _fileStream.flush() *)
Flushed(pending) == Written(pending)

(* The flush of a bad stream may still try to get rid of what is pending.     *)
ConsumeFlushes ==
    /\ up
    /\ consuming = "written"
    /\ consuming' = "flushed"
    /\ \/ Flushed(buffer) /\ UNCHANGED stream
       \/ Refused(buffer) /\ stream' = "bad"
       \/ stream = "bad" /\ UNCHANGED << stream, disk, buffer, refused, scarred >>
    /\ UNCHANGED << up, second, fileName, run, reported, headless, uploads >>

(* The result does not depend on what has become of the packet.               *)
ConsumeReturns ==
    /\ up
    /\ consuming = "flushed"
    /\ consuming' = "no"
    /\ reported' = reported + 1
    /\ UNCHANGED << up, second, fileName, stream, buffer, disk, run, refused, scarred, headless,
                    uploads >>

-----------------------------------------------------------------------------
(* The destructor *)

(* Seeded fault: the file is uploaded before it is closed. *)
StoredEarly == disk[fileName]

(* What Store reads once the stream is closed. *)
Stored == disk'[fileName]

Destroy ==
    /\ up
    /\ consuming = "no"
    /\ \/ stream = "closed" /\ UNCHANGED << disk, buffer, refused, scarred >>
       \/ stream # "closed" /\ Written(buffer)
       \/ stream # "closed" /\ Refused(buffer)
    /\ uploads' = Append(uploads, [run |-> run, name |-> fileName, refused |-> refused',
                                   content |-> Stored, packets |-> reported])
    /\ up' = FALSE
    /\ stream' = "closed"
    /\ UNCHANGED << second, fileName, run, consuming, reported, headless >>

-----------------------------------------------------------------------------
(* The environment *)

(* The process is killed, in the middle of a Consume too: the buffer is lost.  *)
Kill ==
    /\ up
    /\ up' = FALSE
    /\ stream' = "closed"
    /\ buffer' = << >>
    /\ UNCHANGED << second, fileName, disk, run, consuming, histories >>

SecondPasses ==
    /\ second + 1 \in Seconds
    /\ second' = second + 1
    /\ UNCHANGED << up, fileName, stream, buffer, disk, run, consuming, histories >>

Over == ~up /\ run = MaxRuns /\ UNCHANGED vars

Next ==
    \/ Construct \/ ConstructClosed
    \/ ConsumeWrites \/ ConsumeOnBadStream \/ ConsumeOpens \/ ConsumeFails
    \/ ConsumeFlushes \/ ConsumeReturns
    \/ Destroy \/ Kill \/ SecondPasses \/ Over

Spec == Init /\ [][Next]_vars

-----------------------------------------------------------------------------
(* Every variable keeps its type; only an open stream has anything pending.   *)
TypeOK ==
    /\ up \in BOOLEAN
    /\ second \in Seconds /\ fileName \in Seconds
    /\ stream \in {"closed", "good", "bad"}
    /\ buffer \in Seq(Chunk)
    /\ up /\ stream = "closed" => buffer = << >>
    /\ disk \in [Seconds -> Seq(Chunk)]
    /\ run \in 0 .. MaxRuns
    /\ consuming \in {"no", "written", "flushed"}
    /\ reported \in 0 .. MaxPackets
    /\ refused \in BOOLEAN
    /\ scarred \subseteq Seconds
    /\ headless \subseteq Seconds
    /\ uploads \in Seq([run : Nat, name : Seconds, refused : BOOLEAN,
                        content : Seq(Chunk), packets : Nat])

(* A file ends with what a run contributes, its header and its packets in     *)
(* order, and holds nothing else of that run.                                 *)
EndsWithRun(content, r, packets) ==
    LET before == Len(content) - packets - 1
    IN  /\ before >= 0
        /\ \A i \in 1 .. before : content[i].run # r
        /\ content[before + 1] = Header(r)
        /\ \A n \in 1 .. packets : content[before + 1 + n] = Packet(r, n)

(* The packets of a run that have been flushed: one more than Consume has     *)
(* reported between its flush and its return.                                 *)
PacketsFlushed == IF consuming = "flushed" THEN reported + 1 ELSE reported

(* As long as the disk takes everything, what Consume has flushed is in the   *)
(* file, whole and in order, even if the process is killed before Consume     *)
(* returns or in the middle of the next: the flush of each packet takes the   *)
(* file header along (consumer.cpp:176-204).                                  *)
ReportedSurvivesKill ==
    ~refused /\ PacketsFlushed > 0 => EndsWithRun(disk[fileName], run, PacketsFlushed)

(* All chunks are whole, and each run of the program that has left any begins *)
(* with a file header and has no other.                                       *)
HeaderPerRun(content) ==
    \A i \in 1 .. Len(content) :
        /\ content[i].whole
        /\ content[i].kind = "header" <=> i = 1 \/ content[i - 1].run # content[i].run

(* A file begins with a file header, whatever runs share it and wherever they *)
(* were killed, unless the constructor could not open it (consumer.cpp:122).  *)
(* If the disk has never refused a write to it, that header is whole, and so  *)
(* is everything else; but each further run that the file is opened in adds a *)
(* header in its middle, where a reader of the file expects a packet          *)
(* (consumer.cpp:130). A refused write may leave a piece of the header.       *)
HeaderFirst ==
    \A name \in Seconds \ headless :
        /\ disk[name] # << >> => disk[name][1].kind = "header"
        /\ name \notin scarred => HeaderPerRun(disk[name])

(* The upload holds the whole run, the header of a run without packets too:   *)
(* the stream is closed before Store reads the file (consumer.cpp:134-139).   *)
UploadComplete ==
    \A i \in DOMAIN uploads :
        ~uploads[i].refused =>
            EndsWithRun(uploads[i].content, uploads[i].run, uploads[i].packets)
=============================================================================
