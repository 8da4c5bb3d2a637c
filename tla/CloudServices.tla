--------------------------- MODULE CloudServices ---------------------------
(***************************************************************************)
(* The calls table in DynamoDB (src/CallLogger.cpp) and the pcap bucket in *)
(* S3 (src/CallStorage.cpp), from main's construction of the two clients   *)
(* to their destruction.  Both bring the AWS SDK up in their constructors  *)
(* and shut it down in their destructors; the SDK does not count.          *)
(*                                                                         *)
(* A call is logged by a put of its own, in a thread of its own, which may *)
(* be anywhere when main goes on, and when main ends.                      *)
(***************************************************************************)
EXTENDS Integers, Sequences

CONSTANTS
    Settings,    \* the [useDb, useS3, output] that the program is started with
    MaxRetries,  \* DefaultRetryStrategy(maxRetries): 6
    MaxCalls     \* bound: calls created

ASSUME CloudServicesAssumption ==
    /\ Settings \subseteq [useDb : BOOLEAN, useS3 : BOOLEAN, output : {"Pcap", "Socket"}]
    /\ MaxRetries \in Nat
    /\ MaxCalls \in Nat

VARIABLES
    pc,         \* where main is
    settings,   \* what main has been started with
    sdk,        \* the SDK is up: s_monitors and s_HttpClientFactory are set
    table,      \* the calls table exists
    bucket,     \* the pcap bucket exists
    puts,       \* the put of each call logged
    uploaded,   \* the pcap file is in the bucket
    crashedIn   \* history: where main was when the process crashed, or "nowhere"

vars == << pc, settings, sdk, table, bucket, puts, uploaded, crashedIn >>

(* "submitted" puts make their http request next, "sent" ones wait for the    *)
(* answer.                                                                    *)
Put == [state : {"submitted", "sent", "written", "failed"}, retries : 0 .. MaxRetries]

Init ==
    /\ pc = "logger"
    /\ settings \in Settings
    /\ sdk = FALSE
    /\ table \in BOOLEAN
    /\ bucket \in BOOLEAN
    /\ puts = << >>
    /\ uploaded = FALSE
    /\ crashedIn = "nowhere"

(* exit(0): the threads of the puts end with the process. *)
ExitEarly == pc' = "quit"

-----------------------------------------------------------------------------
(* Construction *)

MakeNullLogger ==
    /\ pc = "logger"
    /\ ~settings.useDb
    /\ pc' = "storage"
    /\ UNCHANGED << settings, sdk, table, bucket, puts, uploaded, crashedIn >>

(* DescribeTable: there is a table, the network is down, or something else is *)
(* wrong and CreateTable is tried; that it fails is only printed.             *)
MakeLogger ==
    /\ pc = "logger"
    /\ settings.useDb
    /\ sdk' = TRUE
    /\ \/ table /\ pc' = "storage" /\ UNCHANGED table
       \/ ExitEarly /\ UNCHANGED table
       \/ pc' = "storage" /\ table' \in {table, TRUE}
    /\ UNCHANGED << settings, bucket, puts, uploaded, crashedIn >>

MakeNullStorage ==
    /\ pc = "storage"
    /\ ~settings.useS3
    /\ pc' = "running"
    /\ UNCHANGED << settings, sdk, table, bucket, puts, uploaded, crashedIn >>

(* ListBuckets or CreateBucket fails. *)
StorageFails ==
    /\ pc = "storage"
    /\ settings.useS3
    /\ sdk' = TRUE
    /\ ExitEarly
    /\ UNCHANGED << settings, table, bucket, puts, uploaded, crashedIn >>

(* Seeded fault: a PcapConsumer does not keep the storage either. *)
MakeStorageUnheld ==
    /\ pc = "storage"
    /\ settings.useS3
    /\ bucket' = TRUE
    /\ sdk' = FALSE
    /\ pc' = "running"
    /\ UNCHANGED << settings, table, puts, uploaded, crashedIn >>

(* CreateConsumer hands the storage to a PcapConsumer; no one takes it for a  *)
(* SocketConsumer, and its destructor shuts the SDK down at once.             *)
MakeStorage ==
    /\ pc = "storage"
    /\ settings.useS3
    /\ bucket' = TRUE
    /\ sdk' = (settings.output = "Pcap")
    /\ pc' = "running"
    /\ UNCHANGED << settings, table, puts, uploaded, crashedIn >>

-----------------------------------------------------------------------------
(* The loop *)

(* Call::Log has the NullCallLogger do nothing, or the other one a put. *)
LogCall ==
    /\ pc = "running"
    /\ settings.useDb
    /\ Len(puts) < MaxCalls
    /\ puts' = Append(puts, [state |-> "submitted", retries |-> 0])
    /\ UNCHANGED << pc, settings, sdk, table, bucket, uploaded, crashedIn >>

(* Seeded fault: main declares the consumer before the logger. *)
EndLoopLoggerFirst ==
    /\ pc = "running"
    /\ pc' = "closing"
    /\ sdk' = (sdk /\ ~settings.useDb)
    /\ UNCHANGED << settings, table, bucket, puts, uploaded, crashedIn >>

(* main returns: the web interface stops and the calls are destroyed. *)
EndLoop ==
    /\ pc = "running"
    /\ pc' = "closing"
    /\ UNCHANGED << settings, sdk, table, bucket, puts, uploaded, crashedIn >>

-----------------------------------------------------------------------------
(* Destruction, in the reverse order of main's variables: the consumer goes   *)
(* first.                                                                     *)

Stores == settings.useS3 /\ settings.output = "Pcap"

CloseWithoutStore ==
    /\ pc = "closing"
    /\ ~Stores
    /\ pc' = "stopping"
    /\ UNCHANGED << settings, sdk, table, bucket, puts, uploaded, crashedIn >>

(* ~PcapConsumer uploads the file, and ~S3CallStorage shuts the SDK down. *)
Store ==
    /\ pc = "closing"
    /\ Stores /\ sdk
    /\ uploaded' = TRUE
    /\ sdk' = FALSE
    /\ pc' = "stopping"
    /\ UNCHANGED << settings, table, bucket, puts, crashedIn >>

(* Seeded fault: the error is only printed. *)
StoreFailsQuietly ==
    /\ pc = "closing"
    /\ Stores /\ sdk
    /\ sdk' = FALSE
    /\ pc' = "stopping"
    /\ UNCHANGED << settings, table, bucket, puts, uploaded, crashedIn >>

StoreFails ==
    /\ pc = "closing"
    /\ Stores /\ sdk
    /\ ExitEarly
    /\ UNCHANGED << settings, sdk, table, bucket, puts, uploaded, crashedIn >>

(* ~DynamoDBCallLogger shuts the SDK down; its client is a member and goes    *)
(* after that.                                                                *)
DestroyLogger ==
    /\ pc = "stopping"
    /\ sdk' = (sdk /\ ~settings.useDb)
    /\ pc' = "joining"
    /\ UNCHANGED << settings, table, bucket, puts, uploaded, crashedIn >>

Settled(put) == put.state \in {"written", "failed"}

(* ~DynamoDBClient waits for the threads of the puts; PutThreads shows how.    *)
JoinPuts ==
    /\ pc = "joining"
    /\ \A c \in DOMAIN puts : Settled(puts[c])
    /\ pc' = "exited"
    /\ UNCHANGED << settings, sdk, table, bucket, puts, uploaded, crashedIn >>

Main ==
    \/ MakeNullLogger \/ MakeLogger \/ MakeNullStorage \/ StorageFails \/ MakeStorage
    \/ EndLoop \/ CloseWithoutStore \/ Store \/ StoreFails \/ DestroyLogger \/ JoinPuts

-----------------------------------------------------------------------------
(* The threads of the puts; PutThreads is their detail *)

Up == pc \notin {"exited", "quit", "crashed"}

SendPut(c) ==
    /\ Up
    /\ puts[c].state = "submitted"
    /\ sdk
    /\ puts' = [puts EXCEPT ![c].state = "sent"]
    /\ UNCHANGED << pc, settings, sdk, table, bucket, uploaded, crashedIn >>

(* CreateHttpRequest finds no factory, or OnRequestSucceeded, OnRequestFailed *)
(* and OnFinish find no monitors, when the answer has come.                   *)
PutCrashes(c) ==
    /\ Up
    /\ puts[c].state \in {"submitted", "sent"}
    /\ ~sdk
    /\ crashedIn' = pc
    /\ pc' = "crashed"
    /\ UNCHANGED << settings, sdk, table, bucket, puts, uploaded >>

Retried(put) == [state |-> "submitted", retries |-> put.retries + 1]

(* The answer, or none in time: the put is done, has failed or is retried.    *)
AnswerPut(c) ==
    /\ Up
    /\ puts[c].state = "sent"
    /\ sdk
    /\ \/ table /\ puts' = [puts EXCEPT ![c].state = "written"]
       \/ puts' = [puts EXCEPT ![c].state = "failed"]
       \/ puts[c].retries < MaxRetries /\ puts' = [puts EXCEPT ![c] = Retried(@)]
    /\ UNCHANGED << pc, settings, sdk, table, bucket, uploaded, crashedIn >>

PutSteps(c) == SendPut(c) \/ PutCrashes(c) \/ AnswerPut(c)

PutThreads == \E c \in DOMAIN puts : PutSteps(c)

Ended == ~Up /\ UNCHANGED vars

Next == Main \/ LogCall \/ PutThreads \/ Ended

Spec == Init /\ [][Next]_vars

-----------------------------------------------------------------------------
(* Every variable keeps its type; only the DynamoDB logger puts.              *)
TypeOK ==
    /\ pc \in {"logger", "storage", "running", "closing", "stopping", "joining",
               "exited", "quit", "crashed"}
    /\ settings \in Settings
    /\ sdk \in BOOLEAN /\ table \in BOOLEAN /\ bucket \in BOOLEAN /\ uploaded \in BOOLEAN
    /\ puts \in Seq(Put)
    /\ Len(puts) <= MaxCalls
    /\ puts # << >> => settings.useDb /\ pc \notin {"logger", "storage"}
    /\ crashedIn \in {"nowhere", "running", "closing", "stopping", "joining"}
    /\ crashedIn = "nowhere" <=> pc # "crashed"

(* The upload in ~PcapConsumer finds the SDK up, although the logger shares   *)
(* it: main destroys the consumer first (ddgen.cpp:42-50, consumer.cpp:139).  *)
UploadFindsSdk == pc = "closing" /\ Stores => sdk

(* While the loop runs, no put crashes the program, unless the storage of a   *)
(* SocketConsumer has taken the SDK down (ConsumerFactory.cpp:9-15).          *)
RunsOnLiveSdk ==
    crashedIn = "running" => settings.useS3 /\ settings.output = "Socket"

(* main runs to its end only with the file uploaded, if it was to be.         *)
ExitMeansUploaded == pc = "exited" /\ Stores => uploaded

-----------------------------------------------------------------------------
(* An assertion of the SDK that the program does not keep *)

(* HttpClientFactory.cpp:205 (3rdParty/aws-sdk) "assert(s_HttpClientFactory);" *)
(* in CreateHttpRequest: a put that makes its request finds the SDK up.       *)
FactoryThere == crashedIn = "nowhere"
=============================================================================
