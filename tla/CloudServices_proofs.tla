------------------------ MODULE CloudServices_proofs ------------------------
(***************************************************************************)
(* Proofs about CloudServices, for any settings, calls and retries.        *)
(***************************************************************************)
EXTENDS CloudServices, SequenceTheorems, TLAPS

(* A step is one of main, of a logged call, of a put, or none. *)
LEMMA StepCases ==
    ASSUME TypeOK, [Next]_vars
    PROVE  \/ Main
           \/ LogCall
           \/ \E c \in DOMAIN puts : SendPut(c)
           \/ \E c \in DOMAIN puts : PutCrashes(c)
           \/ \E c \in DOMAIN puts : AnswerPut(c)
           \/ UNCHANGED vars
  BY DEF Next, PutThreads, PutSteps, Ended

-----------------------------------------------------------------------------
(* Type correctness *)

LEMMA InitType == Init => TypeOK
<1> SUFFICES ASSUME Init PROVE TypeOK
  OBVIOUS
<1>1. puts \in Seq(Put) /\ Len(puts) = 0
  BY DEF Init
<1>2. puts = << >> /\ Len(puts) <= MaxCalls
  BY <1>1, CloudServicesAssumption DEF Init
<1>3. /\ settings \in Settings
      /\ sdk \in BOOLEAN /\ table \in BOOLEAN /\ bucket \in BOOLEAN /\ uploaded \in BOOLEAN
      /\ pc = "logger" /\ crashedIn = "nowhere"
  BY DEF Init
<1> QED
  BY <1>1, <1>2, <1>3 DEF TypeOK

(* Replacing a put by another one. *)
LEMMA PutReplaced ==
    ASSUME TypeOK, NEW c \in DOMAIN puts, NEW put \in Put,
           puts' = [puts EXCEPT ![c] = put]
    PROVE  puts' \in Seq(Put) /\ Len(puts') = Len(puts) /\ puts' # << >>
<1>1. puts \in Seq(Put) /\ c \in 1 .. Len(puts)
  BY DEF TypeOK
<1>2. puts' \in Seq(Put) /\ Len(puts') = Len(puts)
  BY <1>1, ExceptSeq
<1>3. Len(puts') # 0
  BY <1>1, <1>2
<1> QED
  BY <1>2, <1>3, EmptySeq

(* What the thread of a put makes of it is a put. *)
LEMMA PutStepType ==
    ASSUME TypeOK, NEW c \in DOMAIN puts, SendPut(c) \/ AnswerPut(c)
    PROVE  /\ puts' \in Seq(Put) /\ Len(puts') = Len(puts)
           /\ puts # << >>
<1> DEFINE put == puts[c]
<1>1. put \in Put /\ puts # << >> /\ MaxRetries \in Nat
  <2>1. puts \in Seq(Put) /\ c \in 1 .. Len(puts)
    BY DEF TypeOK
  <2>2. puts[c] \in Put
    BY <2>1, ElementOfSeq
  <2>3. Len(puts) # 0
    BY <2>1
  <2> QED
    BY <2>2, <2>3, EmptySeq, CloudServicesAssumption
<1>2. \A state \in {"submitted", "sent", "written", "failed"} :
          [put EXCEPT !.state = state] \in Put
  BY <1>1 DEF Put
<1>3. put.retries < MaxRetries => Retried(put) \in Put
  <2>1. put.retries \in 0 .. MaxRetries
    BY <1>1 DEF Put
  <2>2. put.retries < MaxRetries => put.retries + 1 \in 0 .. MaxRetries
    BY <1>1, <2>1
  <2> QED
    BY <1>1, <2>2 DEF Put, Retried
<1>4. PICK new \in Put : puts' = [puts EXCEPT ![c] = new]
  <2>1. CASE SendPut(c)
    BY <1>2, <2>1 DEF SendPut
  <2>2. CASE AnswerPut(c)
    BY <1>2, <1>3, <2>2 DEF AnswerPut
  <2> QED
    BY <2>1, <2>2
<1> QED
  BY <1>1, <1>4, PutReplaced

LEMMA NextType == TypeOK /\ [Next]_vars => TypeOK'
<1> SUFFICES ASSUME TypeOK, [Next]_vars PROVE TypeOK'
  OBVIOUS
<1>1. CASE Main
  BY <1>1 DEF TypeOK, Main, MakeNullLogger, MakeLogger, MakeNullStorage, StorageFails,
              MakeStorage, EndLoop, CloseWithoutStore, Store, StoreFails, DestroyLogger,
              JoinPuts, ExitEarly
<1>2. CASE LogCall
  <2> DEFINE put == [state |-> "submitted", retries |-> 0]
  <2>1. put \in Put /\ puts \in Seq(Put)
    BY CloudServicesAssumption DEF Put, TypeOK
  <2>2. puts' \in Seq(Put) /\ Len(puts') = Len(puts) + 1
    BY <1>2, <2>1, AppendProperties DEF LogCall
  <2>3. Len(puts') <= MaxCalls
    BY <1>2, <2>1, <2>2, CloudServicesAssumption DEF LogCall
  <2> QED
    BY <1>2, <2>2, <2>3 DEF TypeOK, LogCall
<1>3. CASE \E c \in DOMAIN puts : SendPut(c)
  BY <1>3, PutStepType DEF TypeOK, SendPut
<1>4. CASE \E c \in DOMAIN puts : PutCrashes(c)
  <2>1. pc \in {"running", "closing", "stopping", "joining"}
    <3>1. puts # << >>
      BY <1>4 DEF TypeOK
    <3> QED
      BY <1>4, <3>1 DEF TypeOK, PutCrashes, Up
  <2> QED
    BY <1>4, <2>1 DEF TypeOK, PutCrashes
<1>5. CASE \E c \in DOMAIN puts : AnswerPut(c)
  BY <1>5, PutStepType DEF TypeOK, AnswerPut
<1>6. CASE UNCHANGED vars
  BY <1>6 DEF TypeOK, vars
<1> QED
  BY <1>1, <1>2, <1>3, <1>4, <1>5, <1>6, StepCases

(* Every variable keeps its type, whatever the settings and the answers.     *)
THEOREM TypeCorrect == Spec => []TypeOK
  BY InitType, NextType, PTL DEF Spec

-----------------------------------------------------------------------------
(* Who holds the SDK up *)

(* The storage of a PcapConsumer holds it up until it has uploaded the file;  *)
(* the logger holds it up for the loop, unless a dropped storage ends that.   *)
SdkHeld ==
    /\ pc = "storage" /\ settings.useDb => sdk
    /\ pc \in {"running", "closing"} /\ Stores => sdk
    /\ pc = "running" /\ settings.useDb => sdk \/ (settings.useS3 /\ settings.output = "Socket")
    /\ pc \in {"stopping", "joining", "exited"} /\ Stores => uploaded
    /\ RunsOnLiveSdk

LEMMA InitHeld == Init => SdkHeld
  BY DEF Init, SdkHeld, RunsOnLiveSdk

(* The only other output is Pcap. *)
LEMMA TwoOutputs ==
    TypeOK => settings.output \in {"Pcap", "Socket"} /\ settings.useDb \in BOOLEAN
                /\ settings.useS3 \in BOOLEAN
  BY CloudServicesAssumption DEF TypeOK

LEMMA NextHeld == TypeOK /\ SdkHeld /\ [Next]_vars => SdkHeld'
<1> SUFFICES ASSUME TypeOK, SdkHeld, [Next]_vars PROVE SdkHeld'
  OBVIOUS
<1> USE DEF SdkHeld, Stores, RunsOnLiveSdk
<1>1. CASE Main
  <2>1. CASE MakeNullLogger
    BY <2>1 DEF MakeNullLogger
  <2>2. CASE MakeLogger
    BY <2>2 DEF MakeLogger, ExitEarly
  <2>3. CASE MakeNullStorage
    BY <2>3 DEF MakeNullStorage
  <2>4. CASE StorageFails
    BY <2>4 DEF StorageFails, ExitEarly
  <2>5. CASE MakeStorage
    BY <2>5, TwoOutputs DEF MakeStorage
  <2>6. CASE EndLoop
    BY <2>6 DEF EndLoop
  <2>7. CASE CloseWithoutStore
    BY <2>7 DEF CloseWithoutStore
  <2>8. CASE Store
    BY <2>8 DEF Store
  <2>9. CASE StoreFails
    BY <2>9 DEF StoreFails, ExitEarly
  <2>10. CASE DestroyLogger
    BY <2>10 DEF DestroyLogger
  <2>11. CASE JoinPuts
    BY <2>11 DEF JoinPuts
  <2> QED
    BY <1>1, <2>1, <2>2, <2>3, <2>4, <2>5, <2>6, <2>7, <2>8, <2>9, <2>10, <2>11 DEF Main
<1>2. CASE LogCall
  BY <1>2 DEF LogCall
<1>3. CASE \E c \in DOMAIN puts : SendPut(c)
  BY <1>3 DEF SendPut
<1>4. CASE \E c \in DOMAIN puts : PutCrashes(c)
  <2>1. PICK c \in DOMAIN puts : PutCrashes(c)
    BY <1>4
  <2>2. settings.useDb
    BY DEF TypeOK
  <2> QED
    BY <2>1, <2>2 DEF PutCrashes
<1>5. CASE \E c \in DOMAIN puts : AnswerPut(c)
  BY <1>5 DEF AnswerPut
<1>6. CASE UNCHANGED vars
  BY <1>6 DEF vars
<1> QED
  BY <1>1, <1>2, <1>3, <1>4, <1>5, <1>6, StepCases

LEMMA AlwaysHeld == Spec => [](TypeOK /\ SdkHeld)
  BY InitType, NextType, InitHeld, NextHeld, PTL DEF Spec

(* The upload in ~PcapConsumer finds the SDK up, whatever was configured and  *)
(* answered before.                                                           *)
THEOREM UploadIsSafe == Spec => []UploadFindsSdk
<1>1. SdkHeld => UploadFindsSdk
  BY DEF SdkHeld, UploadFindsSdk
<1> QED
  BY <1>1, AlwaysHeld, PTL

(* No put crashes the running loop unless the storage of a SocketConsumer has *)
(* been dropped.                                                              *)
THEOREM SdkOutlivesLoop == Spec => []RunsOnLiveSdk
<1>1. SdkHeld => RunsOnLiveSdk
  BY DEF SdkHeld
<1> QED
  BY <1>1, AlwaysHeld, PTL

(* main runs to its end only with the file uploaded, if it was to be.         *)
THEOREM ExitsUploaded == Spec => []ExitMeansUploaded
<1>1. SdkHeld => ExitMeansUploaded
  BY DEF SdkHeld, ExitMeansUploaded
<1> QED
  BY <1>1, AlwaysHeld, PTL
=============================================================================
