-------------------------- MODULE WebServer_proofs --------------------------
(***************************************************************************)
(* Proofs about the web server, for any number of workers and listeners,   *)
(* any size of the ring and any number of connections: the context is      *)
(* freed after the threads, and the ring keeps what ConnectionQueue        *)
(* promises.                                                               *)
(***************************************************************************)
EXTENDS WebServer, SequenceTheorems, TLAPS

-----------------------------------------------------------------------------
(* The inductive invariant *)

WorkerStates == { "none", "consume", "waiting", "returns", "serving", "ended" }
MasterStates == { "none", "check", "scan", "produce", "waiting", "joining", "ended" }
MainStates == { "starting", "creating", "loop", "serverless", "stopping", "exited" }

TypeOK ==
    /\ main \in MainStates /\ masterId \in BOOLEAN /\ created \in 0 .. NumThreads
    /\ freed \in BOOLEAN
    /\ status \in { "RUNNING", "STOPPING", "TERMINATED" }
    /\ master \in MasterStates /\ listener \in Nat /\ accepted \in Nat
    /\ worker \in [Workers -> WorkerStates]
    /\ client \in [Workers -> Nat]
    /\ queue \in [0 .. QueueSize - 1 -> Nat]
    /\ sqHead \in Nat /\ sqTail \in 0 .. QueueSize
    /\ closed \in SUBSET Nat

(* Who has ended when: main starts the workers one after the other and stops  *)
(* only when it is done with that, and the master thread is the last to end.  *)
ThreadsInv ==
    /\ \A w \in Workers : w > created => worker[w] = "none"
    /\ main \in { "starting", "creating" } => status = "RUNNING"
    /\ master \in { "joining", "ended" } => status # "RUNNING"
    /\ status = "TERMINATED" => master = "ended" /\ Joined
    /\ freed => main \in { "serverless", "exited" }
    /\ main = "starting" => master = "none"
    /\ main \in { "starting", "serverless" } => created = 0
    /\ FreedAfterThreads

(* How far the head is ahead of the tail, and what is between them.           *)
RingInv ==
    /\ sqTail <= sqHead /\ sqHead - sqTail <= QueueSize
    /\ \A i \in 1 .. sqHead - sqTail : Line[i] # 0
    /\ master \in { "produce", "waiting" } => accepted # 0

(* What a worker has in its hands at each place: one that is serving has a    *)
(* connection, because the status does not become RUNNING again.              *)
ClientInv ==
    \A w \in Workers :
        /\ worker[w] \in { "none", "consume", "waiting" } => client[w] = 0
        /\ worker[w] = "returns" => client[w] # 0 \/ status # "RUNNING"
        /\ worker[w] = "serving" => client[w] # 0

IInv == TypeOK /\ ThreadsInv /\ RingInv /\ ClientInv

-----------------------------------------------------------------------------
(* The ring *)

(* Euclid's division, for a positive divisor. *)
LEMMA Division ==
    ASSUME NEW x \in Int, NEW d \in Int, d > 0
    PROVE  /\ x = d * (x \div d) + (x % d)
           /\ x \div d \in Int /\ x % d \in 0 .. d - 1
  BY Z3

(* A multiple of d that is neither negative nor as large as d is zero. *)
LEMMA SmallMultiple ==
    ASSUME NEW d \in Int, d > 0, NEW q \in Int, d * q < d, -d < d * q
    PROVE  d * q = 0
<1>1. CASE q >= 1
  <2>1. d * q >= d
    BY <1>1
  <2> QED
    BY <2>1
<1>2. CASE q <= -1
  <2>1. d * q <= -d
    BY <1>2
  <2> QED
    BY <2>1
<1>3. CASE q = 0
  BY <1>3
<1> QED
  BY <1>1, <1>2, <1>3

(* Places of the ring that are fewer than its size apart are different ones,  *)
(* and those that are its size apart the same.                                *)
LEMMA Places ==
    ASSUME NEW x \in Nat, NEW y \in Nat
    PROVE  /\ x % QueueSize \in 0 .. QueueSize - 1
           /\ x < y /\ y - x < QueueSize => x % QueueSize # y % QueueSize
           /\ y = x + QueueSize => x % QueueSize = y % QueueSize
<1> DEFINE p == x \div QueueSize
           q == y \div QueueSize
           r == x % QueueSize
           s == y % QueueSize
<1>1. QueueSize \in Int /\ QueueSize > 0
  BY WebServerAssumption
<1>2. /\ x = QueueSize * p + r /\ y = QueueSize * q + s
      /\ p \in Int /\ q \in Int /\ r \in 0 .. QueueSize - 1 /\ s \in 0 .. QueueSize - 1
  BY <1>1, Division
<1> HIDE DEF p, q, r, s
<1>3. QueueSize * (q - p) = QueueSize * q - QueueSize * p /\ q - p \in Int
  BY <1>1, <1>2
<1>4. QueueSize * q \in Int /\ QueueSize * p \in Int
  BY <1>1, <1>2
<1>5. ASSUME x < y, y - x < QueueSize, r = s
      PROVE  FALSE
  <2>1. QueueSize * (q - p) = y - x
    BY <1>2, <1>3, <1>4, <1>5
  <2>2. QueueSize * (q - p) = 0
    BY <1>1, <1>3, <1>5, <2>1, SmallMultiple
  <2> QED
    BY <1>5, <2>1, <2>2
<1>6. ASSUME y = x + QueueSize
      PROVE  r = s
  <2> DEFINE k == q - p - 1
  <2>1. k \in Int /\ QueueSize * k = QueueSize * q - QueueSize * p - QueueSize
    BY <1>1, <1>2
  <2>2. QueueSize * k = r - s
    BY <1>1, <1>2, <1>4, <1>6, <2>1
  <2>3. -QueueSize < QueueSize * k /\ QueueSize * k < QueueSize
    BY <1>1, <1>2, <2>2
  <2> HIDE DEF k
  <2>4. QueueSize * k = 0
    BY <1>1, <2>1, <2>3, SmallMultiple
  <2> QED
    BY <1>2, <2>2, <2>4
<1> QED
  BY <1>2, <1>5, <1>6 DEF r, s

(* What is between a tail and a head of a ring, as a sequence. *)
LEMMA LineIsSeq ==
    ASSUME NEW q \in [0 .. QueueSize - 1 -> Nat], NEW h \in Nat, NEW t \in 0 .. QueueSize,
           t <= h
    PROVE  LET line == [i \in 1 .. h - t |-> q[(t + i - 1) % QueueSize]]
           IN  line \in Seq(Nat) /\ Len(line) = h - t
<1>1. h - t \in Nat /\ t \in Nat
  BY WebServerAssumption
<1>2. ASSUME NEW i \in 1 .. h - t
      PROVE  q[(t + i - 1) % QueueSize] \in Nat
  <2>1. t + i - 1 \in Nat
    BY <1>1
  <2>2. (t + i - 1) % QueueSize \in 0 .. QueueSize - 1
    BY <2>1, Places
  <2> QED
    BY <2>2
<1> QED
  BY <1>1, <1>2, IsASeq, LenProperties

LEMMA LineType ==
    ASSUME TypeOK, RingInv
    PROVE  Line \in Seq(Nat) /\ Len(Line) = sqHead - sqTail
<1>1. LET line == [i \in 1 .. sqHead - sqTail |-> queue[(sqTail + i - 1) % QueueSize]]
      IN  line \in Seq(Nat) /\ Len(line) = sqHead - sqTail
  BY LineIsSeq DEF TypeOK, RingInv
<1> QED
  BY <1>1 DEF Line

(* A connection that is put at the head is appended to the line. *)
LEMMA LineGrows ==
    ASSUME TypeOK, RingInv, ~Full,
           queue' = [queue EXCEPT ![sqHead % QueueSize] = accepted],
           sqHead' = sqHead + 1, sqTail' = sqTail
    PROVE  Line' = Append(Line, accepted)
<1> DEFINE n == sqHead - sqTail
           longer == [i \in 1 .. n + 1 |-> queue'[(sqTail + i - 1) % QueueSize]]
<1>1. /\ n \in Nat /\ n < QueueSize /\ sqHead = sqTail + n
      /\ sqHead \in Nat /\ sqTail \in 0 .. QueueSize /\ sqTail \in Nat
      /\ QueueSize \in Nat /\ accepted \in Nat
  BY WebServerAssumption DEF TypeOK, Full, RingInv
<1>2. queue \in [0 .. QueueSize - 1 -> Nat] /\ queue' \in [0 .. QueueSize - 1 -> Nat]
  BY DEF TypeOK
<1>3. Line' = longer
  <2>1. sqHead' - sqTail' = n + 1
    BY <1>1
  <2> HIDE DEF n
  <2> QED
    BY <2>1 DEF Line
<1>4. Line \in Seq(Nat) /\ Len(Line) = n
  BY LineType
<1>5. longer \in Seq(Nat) /\ Len(longer) = n + 1
  <2>1. LET line == [i \in 1 .. (sqHead + 1) - sqTail |-> queue'[(sqTail + i - 1) % QueueSize]]
        IN  line \in Seq(Nat) /\ Len(line) = (sqHead + 1) - sqTail
    <3>1. sqHead + 1 \in Nat /\ sqTail <= sqHead + 1
      BY <1>1
    <3> QED
      BY <1>1, <1>2, <3>1, LineIsSeq
  <2>2. (sqHead + 1) - sqTail = n + 1
    BY <1>1
  <2> HIDE DEF n
  <2> QED
    BY <2>1, <2>2
<1>6. ASSUME NEW i \in 1 .. n
      PROVE  longer[i] = Line[i]
  <2>1. sqTail + i - 1 \in Nat /\ sqTail + i - 1 < sqHead /\ sqHead - (sqTail + i - 1) < QueueSize
    BY <1>1
  <2>2. /\ (sqTail + i - 1) % QueueSize # sqHead % QueueSize
        /\ (sqTail + i - 1) % QueueSize \in 0 .. QueueSize - 1
    BY <1>1, <2>1, Places
  <2>3. queue'[(sqTail + i - 1) % QueueSize] = queue[(sqTail + i - 1) % QueueSize]
    BY <1>2, <2>2
  <2>4. i \in 1 .. n + 1 /\ i \in 1 .. sqHead - sqTail
    BY <1>1
  <2> QED
    BY <2>3, <2>4 DEF Line
<1>7. longer[n + 1] = accepted
  <2>1. sqTail + (n + 1) - 1 = sqHead /\ n + 1 \in 1 .. n + 1
    BY <1>1
  <2>2. sqHead % QueueSize \in 0 .. QueueSize - 1
    BY <1>1, Places
  <2> HIDE DEF n
  <2> QED
    BY <1>2, <2>1, <2>2
<1> HIDE DEF longer, n
<1>8. /\ Append(Line, accepted) \in Seq(Nat) /\ Len(Append(Line, accepted)) = n + 1
      /\ \A i \in 1 .. n : Append(Line, accepted)[i] = Line[i]
      /\ Append(Line, accepted)[n + 1] = accepted
  BY <1>1, <1>4, AppendProperties
<1>9. \A i \in 1 .. n + 1 : longer[i] = Append(Line, accepted)[i]
  <2>1. \A i \in 1 .. n + 1 : i \in 1 .. n \/ i = n + 1
    BY <1>1
  <2> QED
    BY <1>6, <1>7, <1>8, <2>1
<1> QED
  BY <1>3, <1>5, <1>8, <1>9, SeqEqual

(* A connection that is taken is the first of the line, and the others stay,  *)
(* whether or not the pointers are wrapped.                                   *)
LEMMA LineShrinks ==
    ASSUME TypeOK, RingInv, sqHead > sqTail,
           sqHead' = Wrapped[1], sqTail' = Wrapped[2], queue' = queue
    PROVE  /\ Line # << >>
           /\ queue[sqTail % QueueSize] = Head(Line)
           /\ Line' = Tail(Line)
           /\ sqHead' \in Nat /\ sqTail' \in 0 .. QueueSize
           /\ sqHead' - sqTail' = sqHead - sqTail - 1
<1> DEFINE n == sqHead - sqTail
<1>1. /\ n \in Nat /\ n >= 1 /\ n <= QueueSize /\ sqHead = sqTail + n
      /\ sqHead \in Nat /\ sqTail \in 0 .. QueueSize /\ sqTail \in Nat
      /\ QueueSize \in Nat /\ QueueSize >= 1
  BY WebServerAssumption DEF TypeOK, RingInv
<1>2. queue \in [0 .. QueueSize - 1 -> Nat] /\ queue' \in [0 .. QueueSize - 1 -> Nat]
  BY DEF TypeOK
<1>3. \/ sqHead' = sqHead /\ sqTail' = sqTail + 1
      \/ sqHead' = sqHead - QueueSize /\ sqTail' = sqTail + 1 - QueueSize
  BY DEF Wrapped
<1>4. sqHead' \in Nat /\ sqTail' \in 0 .. QueueSize /\ sqHead' - sqTail' = n - 1
  BY <1>1, <1>3 DEF Wrapped
<1>5. Line \in Seq(Nat) /\ Len(Line) = n
  BY LineType
<1>6. Line' \in Seq(Nat) /\ Len(Line') = n - 1
  <2>1. sqTail' <= sqHead'
    BY <1>1, <1>4
  <2>2. LET line == [i \in 1 .. sqHead' - sqTail' |-> queue'[(sqTail' + i - 1) % QueueSize]]
        IN  line \in Seq(Nat) /\ Len(line) = sqHead' - sqTail'
    BY <1>2, <1>4, <2>1, LineIsSeq
  <2> QED
    BY <1>4, <2>2 DEF Line
<1>7. ASSUME NEW i \in 1 .. n - 1
      PROVE  Line'[i] = Line[i + 1]
  <2>1. i \in 1 .. sqHead' - sqTail' /\ i + 1 \in 1 .. sqHead - sqTail
    BY <1>1, <1>4
  <2>2. Line'[i] = queue'[(sqTail' + i - 1) % QueueSize]
    BY <2>1 DEF Line
  <2>3. Line[i + 1] = queue[(sqTail + i) % QueueSize]
    <3>1. sqTail + (i + 1) - 1 = sqTail + i
      BY <1>1
    <3> QED
      BY <2>1, <3>1 DEF Line
  <2>4. (sqTail' + i - 1) % QueueSize = (sqTail + i) % QueueSize
    <3>1. CASE sqTail' = sqTail + 1
      <4>1. sqTail' + i - 1 = sqTail + i
        BY <1>1, <3>1
      <4> QED
        BY <4>1
    <3>2. CASE sqTail' = sqTail + 1 - QueueSize
      <4>1. /\ sqTail' + i - 1 \in Nat /\ sqTail + i \in Nat
            /\ sqTail + i = (sqTail' + i - 1) + QueueSize
        BY <1>1, <1>4, <3>2
      <4> QED
        BY <4>1, Places
    <3> QED
      BY <1>3, <3>1, <3>2
  <2> QED
    BY <2>2, <2>3, <2>4
<1>8. Line[1] = queue[sqTail % QueueSize]
  <2>1. 1 \in 1 .. sqHead - sqTail /\ sqTail + 1 - 1 = sqTail
    BY <1>1
  <2> QED
    BY <2>1 DEF Line
<1> HIDE DEF n
<1>9. Line # << >>
  BY <1>1, <1>5, EmptySeq
<1>10. /\ Tail(Line) \in Seq(Nat) /\ Len(Tail(Line)) = n - 1
       /\ \A i \in 1 .. n - 1 : Tail(Line)[i] = Line[i + 1]
  BY <1>5, <1>9, HeadTailProperties
<1>11. Line' = Tail(Line)
  BY <1>6, <1>7, <1>10, SeqEqual
<1>12. Head(Line) = Line[1]
  BY <1>5, <1>9
<1> QED
  BY <1>4, <1>8, <1>9, <1>11, <1>12 DEF n

-----------------------------------------------------------------------------
(* Every step keeps the invariant *)

LEMMA InitIInv == Init => IInv
<1> SUFFICES ASSUME Init PROVE IInv
  OBVIOUS
<1> USE WebServerAssumption DEF Init
<1>1. TypeOK
  <2>1. worker \in [Workers -> WorkerStates] /\ client \in [Workers -> Nat]
    BY DEF WorkerStates
  <2>2. queue \in [0 .. QueueSize - 1 -> Nat]
    OBVIOUS
  <2>3. /\ created \in 0 .. NumThreads /\ listener \in Nat /\ accepted \in Nat
        /\ sqHead \in Nat /\ sqTail \in 0 .. QueueSize
    OBVIOUS
  <2>4. closed \in SUBSET Nat
    OBVIOUS
  <2> QED
    BY <2>1, <2>2, <2>3, <2>4 DEF TypeOK, MainStates, MasterStates
<1>2. ThreadsInv
  BY DEF ThreadsInv, FreedAfterThreads
<1>3. RingInv
  BY DEF RingInv
<1>4. ClientInv
  BY DEF ClientInv
<1> QED
  BY <1>1, <1>2, <1>3, <1>4 DEF IInv

(* A signal or a broadcast moves workers from waiting to consume, no others.  *)
Woken ==
    /\ worker' \in [Workers -> WorkerStates]
    /\ \A w \in Workers : \/ worker'[w] = worker[w]
                          \/ worker[w] = "waiting" /\ worker'[w] = "consume"

LEMMA WakeUps ==
    ASSUME TypeOK, SignalFull \/ BroadcastFull \/ WakeSpuriously \/ UNCHANGED worker
    PROVE  Woken
<1>1. worker \in [Workers -> WorkerStates]
  BY DEF TypeOK
<1>2. CASE SignalFull
  BY <1>1, <1>2 DEF SignalFull, Woken, WorkerStates
<1>3. CASE BroadcastFull
  BY <1>1, <1>3 DEF BroadcastFull, Woken, WorkerStates
<1>4. CASE WakeSpuriously
  BY <1>1, <1>4 DEF WakeSpuriously, Woken, WorkerStates
<1>5. CASE UNCHANGED worker
  BY <1>1, <1>5 DEF Woken
<1> QED
  BY <1>2, <1>3, <1>4, <1>5

(* The steps of main. *)
LEMMA MainKeeps ==
    ASSUME IInv, Starting \/ NothingToStop \/ Stop \/ Terminated
    PROVE  IInv'
<1> USE DEF IInv, mainVars, masterVars, queueVars, workerVars
<1>1. CASE AbortStart
  <2>1. TypeOK'
    BY <1>1, WebServerAssumption DEF TypeOK, AbortStart, MainStates, MasterStates,
      WorkerStates, Workers
  <2>2. ThreadsInv'
    BY <1>1, WebServerAssumption DEF TypeOK, AbortStart, ThreadsInv, FreedAfterThreads,
      Joined, Workers
  <2>3. RingInv'
    BY <1>1 DEF AbortStart, RingInv, Line
  <2>4. ClientInv'
    BY <1>1, WebServerAssumption DEF TypeOK, AbortStart, ClientInv, ThreadsInv, Workers
  <2> QED
    BY <2>1, <2>2, <2>3, <2>4
<1>2. CASE StartMaster
  <2>1. TypeOK'
    BY <1>2, WebServerAssumption DEF TypeOK, StartMaster, MainStates, MasterStates,
      WorkerStates, Workers
  <2>2. ThreadsInv'
    BY <1>2, WebServerAssumption DEF TypeOK, StartMaster, ThreadsInv, FreedAfterThreads,
      Joined, Workers
  <2>3. RingInv'
    BY <1>2 DEF StartMaster, RingInv, Line
  <2>4. ClientInv'
    BY <1>2, WebServerAssumption DEF TypeOK, StartMaster, ClientInv, ThreadsInv, Workers
  <2> QED
    BY <2>1, <2>2, <2>3, <2>4
<1>3. CASE StartWorker
  <2>1. TypeOK'
    BY <1>3, WebServerAssumption DEF TypeOK, StartWorker, MainStates, MasterStates,
      WorkerStates, Workers
  <2>2. ThreadsInv'
    BY <1>3, WebServerAssumption DEF TypeOK, StartWorker, ThreadsInv, FreedAfterThreads,
      Joined, Workers
  <2>3. RingInv'
    BY <1>3 DEF StartWorker, RingInv, Line
  <2>4. ClientInv'
    BY <1>3, WebServerAssumption DEF TypeOK, StartWorker, ClientInv, ThreadsInv, Workers
  <2> QED
    BY <2>1, <2>2, <2>3, <2>4
<1>4. CASE WorkerNotStarted
  <2>1. TypeOK'
    BY <1>4, WebServerAssumption DEF TypeOK, WorkerNotStarted, MainStates, MasterStates,
      WorkerStates, Workers
  <2>2. ThreadsInv'
    BY <1>4, WebServerAssumption DEF TypeOK, WorkerNotStarted, ThreadsInv,
      FreedAfterThreads, Joined, Workers
  <2>3. RingInv'
    BY <1>4 DEF WorkerNotStarted, RingInv, Line
  <2>4. ClientInv'
    BY <1>4, WebServerAssumption DEF TypeOK, WorkerNotStarted, ClientInv, ThreadsInv, Workers
  <2> QED
    BY <2>1, <2>2, <2>3, <2>4
<1>5. CASE Started
  <2>1. TypeOK'
    BY <1>5, WebServerAssumption DEF TypeOK, Started, MainStates, MasterStates,
      WorkerStates, Workers
  <2>2. ThreadsInv'
    BY <1>5, WebServerAssumption DEF TypeOK, Started, ThreadsInv, FreedAfterThreads, Joined, Workers
  <2>3. RingInv'
    BY <1>5 DEF Started, RingInv, Line
  <2>4. ClientInv'
    BY <1>5, WebServerAssumption DEF TypeOK, Started, ClientInv, ThreadsInv, Workers
  <2> QED
    BY <2>1, <2>2, <2>3, <2>4
<1>6. CASE NothingToStop
  <2>1. TypeOK'
    BY <1>6, WebServerAssumption DEF TypeOK, NothingToStop, MainStates, MasterStates,
      WorkerStates, Workers
  <2>2. ThreadsInv'
    BY <1>6, WebServerAssumption DEF TypeOK, NothingToStop, ThreadsInv, FreedAfterThreads,
      Joined, Workers
  <2>3. RingInv'
    BY <1>6 DEF NothingToStop, RingInv, Line
  <2>4. ClientInv'
    BY <1>6, WebServerAssumption DEF TypeOK, NothingToStop, ClientInv, ThreadsInv, Workers
  <2> QED
    BY <2>1, <2>2, <2>3, <2>4
<1>7. CASE Stop
  <2>1. TypeOK'
    BY <1>7, WebServerAssumption DEF TypeOK, Stop, MainStates, MasterStates, WorkerStates, Workers
  <2>2. ThreadsInv'
    BY <1>7, WebServerAssumption DEF TypeOK, Stop, ThreadsInv, FreedAfterThreads, Joined, Workers
  <2>3. RingInv'
    BY <1>7 DEF Stop, RingInv, Line
  <2>4. ClientInv'
    BY <1>7, WebServerAssumption DEF TypeOK, Stop, ClientInv, ThreadsInv, Workers
  <2> QED
    BY <2>1, <2>2, <2>3, <2>4
<1>8. CASE Terminated
  <2>1. TypeOK'
    BY <1>8, WebServerAssumption DEF TypeOK, Terminated, MainStates, MasterStates,
      WorkerStates, Workers
  <2>2. ThreadsInv'
    BY <1>8, WebServerAssumption DEF TypeOK, Terminated, ThreadsInv, FreedAfterThreads,
      Joined, Workers
  <2>3. RingInv'
    BY <1>8 DEF Terminated, RingInv, Line
  <2>4. ClientInv'
    BY <1>8, WebServerAssumption DEF TypeOK, Terminated, ClientInv, ThreadsInv, Workers
  <2> QED
    BY <2>1, <2>2, <2>3, <2>4
<1> QED
  BY <1>1, <1>2, <1>3, <1>4, <1>5, <1>6, <1>7, <1>8 DEF Starting

(* The steps of the master thread, and the wakeups. *)
LEMMA MasterKeeps ==
    ASSUME IInv, Master \/ WakeSpuriously
    PROVE  IInv'
<1> USE DEF IInv, mainVars, masterVars, queueVars, workerVars
<1>1. CASE Poll
  <2>1. TypeOK'
    BY <1>1, WebServerAssumption DEF TypeOK, Poll, MasterStates
  <2>2. ThreadsInv'
    BY <1>1, WebServerAssumption DEF TypeOK, Poll, ThreadsInv, FreedAfterThreads,
       Joined, Running, Workers
  <2>3. RingInv'
    BY <1>1, WebServerAssumption DEF TypeOK, Poll, RingInv, Line
  <2>4. ClientInv'
    BY <1>1 DEF TypeOK, Poll, ClientInv, ThreadsInv
  <2> QED
    BY <2>1, <2>2, <2>3, <2>4
<1>2. CASE SkipListener
  <2>1. TypeOK'
    BY <1>2, WebServerAssumption DEF TypeOK, SkipListener, MasterStates
  <2>2. ThreadsInv'
    BY <1>2, WebServerAssumption DEF TypeOK, SkipListener, ThreadsInv, FreedAfterThreads,
       Joined, Running, Workers
  <2>3. RingInv'
    BY <1>2, WebServerAssumption DEF TypeOK, SkipListener, RingInv, Line
  <2>4. ClientInv'
    BY <1>2 DEF TypeOK, SkipListener, ClientInv, ThreadsInv
  <2> QED
    BY <2>1, <2>2, <2>3, <2>4
<1>3. CASE Accept
  <2>1. TypeOK'
    BY <1>3, WebServerAssumption DEF TypeOK, Accept, MasterStates
  <2>2. ThreadsInv'
    BY <1>3, WebServerAssumption DEF TypeOK, Accept, ThreadsInv, FreedAfterThreads,
       Joined, Running, Workers
  <2>3. RingInv'
    BY <1>3, WebServerAssumption DEF TypeOK, Accept, RingInv, Line
  <2>4. ClientInv'
    BY <1>3 DEF TypeOK, Accept, ClientInv, ThreadsInv
  <2> QED
    BY <2>1, <2>2, <2>3, <2>4
<1>4. CASE EndOfListeners
  <2>1. TypeOK'
    BY <1>4, WebServerAssumption DEF TypeOK, EndOfListeners, MasterStates
  <2>2. ThreadsInv'
    BY <1>4, WebServerAssumption DEF TypeOK, EndOfListeners, ThreadsInv, FreedAfterThreads,
       Joined, Running, Workers
  <2>3. RingInv'
    BY <1>4, WebServerAssumption DEF TypeOK, EndOfListeners, RingInv, Line
  <2>4. ClientInv'
    BY <1>4 DEF TypeOK, EndOfListeners, ClientInv, ThreadsInv
  <2> QED
    BY <2>1, <2>2, <2>3, <2>4
<1>5. CASE WaitForRoom
  <2>1. TypeOK'
    BY <1>5, WebServerAssumption DEF TypeOK, WaitForRoom, MasterStates
  <2>2. ThreadsInv'
    BY <1>5, WebServerAssumption DEF TypeOK, WaitForRoom, ThreadsInv, FreedAfterThreads,
       Joined, Running, Workers
  <2>3. RingInv'
    BY <1>5, WebServerAssumption DEF TypeOK, WaitForRoom, RingInv, Line
  <2>4. ClientInv'
    BY <1>5 DEF TypeOK, WaitForRoom, ClientInv, ThreadsInv
  <2> QED
    BY <2>1, <2>2, <2>3, <2>4
<1>6. CASE Produce
  <2>0. Woken
    BY <1>6, WakeUps DEF Produce
  <2>1. TypeOK'
    <3>1. queue' \in [0 .. QueueSize - 1 -> Nat] /\ sqHead' \in Nat
      BY <1>6 DEF TypeOK, Produce
    <3> QED
      BY <1>6, <2>0, <3>1 DEF TypeOK, Produce, MasterStates, Woken
  <2>2. ThreadsInv'
    BY <1>6, <2>0, WebServerAssumption DEF TypeOK, Produce, ThreadsInv, FreedAfterThreads,
       Joined, Running, Workers, Woken
  <2>3. RingInv'
    <3>1. CASE Full
      BY <1>6, <3>1, WebServerAssumption DEF TypeOK, Produce, RingInv, Line
    <3>2. CASE ~Full
      <4>1. /\ queue' = [queue EXCEPT ![sqHead % QueueSize] = accepted]
            /\ sqHead' = sqHead + 1 /\ sqTail' = sqTail /\ accepted # 0
            /\ master' = "scan" /\ sqTail <= sqHead /\ sqHead - sqTail < QueueSize
        BY <1>6, <3>2, WebServerAssumption DEF TypeOK, Produce, RingInv, Full
      <4>2. Line' = Append(Line, accepted)
        BY <3>2, <4>1, LineGrows
      <4>3. Line \in Seq(Nat) /\ Len(Line) = sqHead - sqTail
        BY LineType
      <4>4. \A i \in 1 .. (sqHead - sqTail) + 1 : Line'[i] # 0
        <5>1. /\ \A i \in 1 .. Len(Line) : Line'[i] = Line[i]
              /\ Line'[Len(Line) + 1] = accepted
          BY <4>2, <4>3, AppendProperties DEF TypeOK
        <5>2. \A i \in 1 .. Len(Line) : Line[i] # 0
          BY <4>3 DEF RingInv
        <5>3. \A i \in 1 .. Len(Line) + 1 : i \in 1 .. Len(Line) \/ i = Len(Line) + 1
          BY <4>3
        <5> QED
          BY <4>1, <4>3, <5>1, <5>2, <5>3
      <4>5. sqHead' - sqTail' = (sqHead - sqTail) + 1
        BY <4>1, WebServerAssumption DEF TypeOK
      <4> QED
        BY <4>1, <4>4, <4>5, WebServerAssumption DEF RingInv, TypeOK
    <3> QED
      BY <3>1, <3>2
  <2>4. ClientInv'
    BY <1>6, <2>0 DEF TypeOK, Produce, ClientInv, ThreadsInv, Woken
  <2> QED
    BY <2>1, <2>2, <2>3, <2>4
<1>7. CASE Shutdown
  <2>0. Woken
    BY <1>7, WakeUps DEF Shutdown
  <2>1. TypeOK'
    BY <1>7, <2>0, WebServerAssumption DEF TypeOK, Shutdown, MasterStates, Woken
  <2>2. ThreadsInv'
    BY <1>7, <2>0, WebServerAssumption DEF TypeOK, Shutdown, ThreadsInv, FreedAfterThreads,
       Joined, Running, Workers, Woken
  <2>3. RingInv'
    BY <1>7, WebServerAssumption DEF TypeOK, Shutdown, RingInv, Line
  <2>4. ClientInv'
    BY <1>7, <2>0 DEF TypeOK, Shutdown, ClientInv, ThreadsInv, Woken
  <2> QED
    BY <2>1, <2>2, <2>3, <2>4
<1>8. CASE Terminate
  <2>1. TypeOK'
    BY <1>8, WebServerAssumption DEF TypeOK, Terminate, MasterStates
  <2>2. ThreadsInv'
    BY <1>8, WebServerAssumption DEF TypeOK, Terminate, ThreadsInv, FreedAfterThreads,
       Joined, Running, Workers
  <2>3. RingInv'
    BY <1>8, WebServerAssumption DEF TypeOK, Terminate, RingInv, Line
  <2>4. ClientInv'
    BY <1>8 DEF TypeOK, Terminate, ClientInv, ThreadsInv
  <2> QED
    BY <2>1, <2>2, <2>3, <2>4
<1>9. CASE WakeSpuriously
  <2>0. Woken
    BY <1>9, WakeUps DEF WakeSpuriously
  <2>1. TypeOK'
    BY <1>9, <2>0, WebServerAssumption DEF TypeOK, WakeSpuriously, MasterStates, Woken
  <2>2. ThreadsInv'
    BY <1>9, <2>0, WebServerAssumption DEF TypeOK, WakeSpuriously, ThreadsInv, FreedAfterThreads,
       Joined, Running, Workers, Woken
  <2>3. RingInv'
    BY <1>9, WebServerAssumption DEF TypeOK, WakeSpuriously, RingInv, Line
  <2>4. ClientInv'
    BY <1>9, <2>0 DEF TypeOK, WakeSpuriously, ClientInv, ThreadsInv, Woken
  <2> QED
    BY <2>1, <2>2, <2>3, <2>4
<1> QED
  BY <1>1, <1>2, <1>3, <1>4, <1>5, <1>6, <1>7, <1>8, <1>9 DEF Master

(* The steps of a worker. *)
LEMMA WorkerKeeps ==
    ASSUME IInv, NEW w \in Workers, Worker(w)
    PROVE  IInv'
<1> USE DEF IInv, mainVars, masterVars, queueVars, workerVars
<1>1. CASE WaitForConnection(w)
  <2>1. TypeOK'
    BY <1>1, WebServerAssumption DEF TypeOK, WaitForConnection, WorkerStates
  <2>2. ThreadsInv'
    BY <1>1, WebServerAssumption DEF TypeOK, WaitForConnection, ThreadsInv, FreedAfterThreads,
       Joined, Running, Workers
  <2>3. RingInv'
    BY <1>1 DEF WaitForConnection, RingInv, Line
  <2>4. ClientInv'
    BY <1>1 DEF TypeOK, WaitForConnection, ClientInv
  <2> QED
    BY <2>1, <2>2, <2>3, <2>4
<1>2. CASE Consume(w)
  <2>1. CASE sqHead > sqTail /\ sqHead' = Wrapped[1] /\ sqTail' = Wrapped[2]
    <3>1. /\ Line # << >>
          /\ queue[sqTail % QueueSize] = Head(Line)
          /\ Line' = Tail(Line)
          /\ sqHead' \in Nat /\ sqTail' \in 0 .. QueueSize
          /\ sqHead' - sqTail' = sqHead - sqTail - 1
      BY <1>2, <2>1, LineShrinks DEF Consume
    <3>2. Line \in Seq(Nat) /\ Len(Line) = sqHead - sqTail
      BY LineType
    <3>3. Head(Line) \in Nat /\ Head(Line) # 0
      <4>1. Head(Line) = Line[1] /\ Head(Line) \in Nat
        BY <3>1, <3>2, HeadTailProperties
      <4>2. 1 \in 1 .. sqHead - sqTail
        BY <2>1, WebServerAssumption DEF TypeOK
      <4> QED
        BY <4>1, <4>2 DEF RingInv
    <3>4. \A i \in 1 .. sqHead' - sqTail' : Line'[i] # 0
      <4>1. \A i \in 1 .. Len(Tail(Line)) : Tail(Line)[i] = Line[i + 1]
        BY <3>1, <3>2, HeadTailProperties
      <4> QED
        BY <2>1, <3>1, <3>2, <4>1, WebServerAssumption DEF RingInv, TypeOK
    <3>5. client' = [client EXCEPT ![w] = Head(Line)]
      BY <1>2, <2>1, <3>1, WebServerAssumption DEF Consume, TypeOK
    <3>6. TypeOK'
      BY <1>2, <3>1, <3>3, <3>5 DEF TypeOK, Consume, WorkerStates, MasterStates, SignalEmpty
    <3>7. ThreadsInv'
      BY <1>2, WebServerAssumption DEF TypeOK, Consume, ThreadsInv, FreedAfterThreads,
         Joined, Running, Workers, SignalEmpty
    <3>8. RingInv'
      <4>1. sqTail' <= sqHead' /\ sqHead' - sqTail' <= QueueSize
        <5>1. PICK waiting \in Int : waiting = sqHead - sqTail
          BY WebServerAssumption DEF TypeOK
        <5>2. PICK size \in Int : size = QueueSize
          BY WebServerAssumption
        <5>3. PICK head \in Int, tail \in Int : head = sqHead' /\ tail = sqTail'
          BY <3>1, <5>2
        <5>4. 0 < waiting /\ waiting <= size
          BY <2>1, <5>1, <5>2 DEF RingInv, TypeOK
        <5>5. head - tail = waiting - 1
          BY <3>1, <5>1, <5>3
        <5>6. tail <= head /\ head - tail <= size
          BY <5>4, <5>5
        <5> QED
          BY <5>2, <5>3, <5>6
      <4>2. master' \in { "produce", "waiting" } => accepted' # 0
        BY <1>2 DEF Consume, SignalEmpty, RingInv
      <4> QED
        BY <3>4, <4>1, <4>2 DEF RingInv
    <3>9. ClientInv'
      BY <1>2, <3>3, <3>5 DEF TypeOK, Consume, ClientInv
    <3> QED
      BY <3>6, <3>7, <3>8, <3>9
  <2>2. CASE status # "RUNNING" /\ UNCHANGED << client, sqHead, sqTail >>
    <3>1. TypeOK'
      BY <1>2, <2>2 DEF TypeOK, Consume, WorkerStates, MasterStates, SignalEmpty
    <3>2. ThreadsInv'
      BY <1>2, <2>2, WebServerAssumption DEF TypeOK, Consume, ThreadsInv, FreedAfterThreads,
         Joined, Running, Workers, SignalEmpty
    <3>3. RingInv'
      BY <1>2, <2>2 DEF Consume, RingInv, Line, SignalEmpty
    <3>4. ClientInv'
      BY <1>2, <2>2 DEF TypeOK, Consume, ClientInv
    <3> QED
      BY <3>1, <3>2, <3>3, <3>4
  <2> QED
    BY <1>2, <2>1, <2>2 DEF Consume
<1>3. CASE ConsumeReturns(w)
  <2>1. TypeOK'
    BY <1>3, WebServerAssumption DEF TypeOK, ConsumeReturns, WorkerStates
  <2>2. ThreadsInv'
    BY <1>3, WebServerAssumption DEF TypeOK, ConsumeReturns, ThreadsInv, FreedAfterThreads,
       Joined, Running, Workers
  <2>3. RingInv'
    BY <1>3 DEF ConsumeReturns, RingInv, Line
  <2>4. ClientInv'
    BY <1>3 DEF TypeOK, ConsumeReturns, ClientInv
  <2> QED
    BY <2>1, <2>2, <2>3, <2>4
<1>4. CASE Serve(w)
  <2>1. TypeOK'
    BY <1>4, WebServerAssumption DEF TypeOK, Serve, WorkerStates
  <2>2. ThreadsInv'
    BY <1>4, WebServerAssumption DEF TypeOK, Serve, ThreadsInv, FreedAfterThreads,
       Joined, Running, Workers
  <2>3. RingInv'
    BY <1>4 DEF Serve, RingInv, Line
  <2>4. ClientInv'
    BY <1>4 DEF TypeOK, Serve, ClientInv
  <2> QED
    BY <2>1, <2>2, <2>3, <2>4
<1> QED
  BY <1>1, <1>2, <1>3, <1>4 DEF Worker

LEMMA NextIInv == IInv /\ [Next]_vars => IInv'
<1> SUFFICES ASSUME IInv, [Next]_vars PROVE IInv'
  OBVIOUS
<1>1. CASE Starting \/ NothingToStop \/ Stop \/ Terminated
  BY <1>1, MainKeeps
<1>2. CASE Master \/ WakeSpuriously
  BY <1>2, MasterKeeps
<1>3. CASE \E w \in Workers : Worker(w)
  BY <1>3, WorkerKeeps
<1>4. CASE UNCHANGED vars
  BY <1>4 DEF IInv, TypeOK, ThreadsInv, FreedAfterThreads, Joined, RingInv, Line, ClientInv,
     vars, mainVars, masterVars, queueVars, workerVars
<1> QED
  BY <1>1, <1>2, <1>3, <1>4 DEF Next, Exited

LEMMA AlwaysIInv == Spec => []IInv
  BY InitIInv, NextIInv, PTL DEF Spec

(* Every variable keeps its type, for any number of threads and any ring: the *)
(* tail never leaves the ring by more than its wrap.                          *)
THEOREM TypeCorrect == Spec => []TypeOK
  BY AlwaysIInv, PTL DEF IInv

(* The context is freed only when all threads have ended, unless not even the *)
(* first worker could be created (httplib_free_context.c:49).                 *)
THEOREM FreedSafely == Spec => []FreedAfterThreads
  BY AlwaysIInv, PTL DEF IInv, ThreadsInv

-----------------------------------------------------------------------------
(* The ring keeps what ConnectionQueue promises *)

(* The connections that have come: one the master thread has in its hands is  *)
(* still to arrive.                                                           *)
Arrived == IF master \in {"produce", "waiting"} THEN accepted - 1 ELSE accepted

Mapped == << Arrived, Line, client, closed >>

LEMMA MapInit == Init => Queue!Init
<1> SUFFICES ASSUME Init PROVE Queue!Init
  OBVIOUS
<1>1. Line = << >>
  <2>1. Line \in Seq(Nat) /\ Len(Line) = sqHead - sqTail
    BY InitIInv, LineType DEF IInv
  <2> QED
    BY <2>1, EmptySeq DEF Init
<1> QED
  BY <1>1 DEF Init, Queue!Init

(* What neither touches the ring nor the clients is a stutter.                *)
LEMMA SameStutters ==
    ASSUME UNCHANGED << queueVars, client, closed >>, Arrived' = Arrived
    PROVE  UNCHANGED Mapped
  BY DEF Mapped, Line, queueVars

(* Produce is the arrival of a connection.                                    *)
LEMMA ProduceMaps ==
    ASSUME IInv, Produce
    PROVE  Queue!Arrive
<1>1. /\ master = "produce" /\ master' = "scan" /\ accepted' = accepted /\ accepted \in Nat
      /\ accepted # 0 /\ UNCHANGED << client, closed >>
  BY DEF Produce, IInv, TypeOK, RingInv
<1>2. Arrived' = Arrived + 1 /\ Arrived + 1 = accepted
  BY <1>1 DEF Arrived
<1>3. Line \in Seq(Nat) /\ Len(Line) = sqHead - sqTail
  BY LineType DEF IInv
<1>4. CASE Full
  <2>1. Len(Line) = QueueSize
    BY <1>3, <1>4, WebServerAssumption DEF Full, IInv, RingInv, TypeOK
  <2>2. Line' = Line
    BY <1>4 DEF Produce, Line
  <2> QED
    BY <1>1, <1>2, <2>1, <2>2 DEF Queue!Arrive, Arrived
<1>5. CASE ~Full
  <2>1. Len(Line) < QueueSize
    BY <1>3, <1>5, WebServerAssumption DEF Full, IInv, TypeOK
  <2>2. Line' = Append(Line, accepted)
    BY <1>5, LineGrows DEF Produce, IInv
  <2> QED
    BY <1>1, <1>2, <2>1, <2>2 DEF Queue!Arrive, Arrived
<1> QED
  BY <1>4, <1>5

(* A worker takes the first of the line, or finds none and nothing happens.   *)
LEMMA ConsumeMaps ==
    ASSUME IInv, NEW w \in Workers, Consume(w)
    PROVE  Queue!Take(w) \/ UNCHANGED Mapped
<1>1. client[w] = 0 /\ client \in [Workers -> Nat]
  BY DEF Consume, IInv, ClientInv, TypeOK
<1>2. Arrived' = Arrived /\ closed' = closed /\ queue' = queue
  BY DEF Consume, SignalEmpty, Arrived
<1>3. CASE sqHead > sqTail /\ sqHead' = Wrapped[1] /\ sqTail' = Wrapped[2]
  <2>1. Line # << >> /\ queue[sqTail % QueueSize] = Head(Line) /\ Line' = Tail(Line)
    BY <1>2, <1>3, LineShrinks DEF IInv
  <2>2. client' = [client EXCEPT ![w] = Head(Line)]
    BY <1>3, <2>1, WebServerAssumption DEF Consume, IInv, TypeOK
  <2> QED
    BY <1>1, <1>2, <2>1, <2>2 DEF Queue!Take, Arrived
<1>4. CASE UNCHANGED << client, sqHead, sqTail >>
  BY <1>2, <1>4 DEF Mapped, Line
<1> QED
  BY <1>3, <1>4 DEF Consume

LEMMA NextMaps ==
    ASSUME IInv, [Next]_vars
    PROVE  Queue!Next \/ UNCHANGED Mapped
<1>1. CASE Starting \/ NothingToStop \/ Stop \/ Terminated
  <2>1. UNCHANGED << queueVars, client, closed >>
    BY <1>1 DEF Starting, AbortStart, StartMaster, StartWorker, WorkerNotStarted, Started,
       NothingToStop, Stop, Terminated, workerVars
  <2>2. Arrived' = Arrived
    BY <1>1 DEF Starting, AbortStart, StartMaster, StartWorker, WorkerNotStarted, Started,
       NothingToStop, Stop, Terminated, masterVars, Arrived, IInv, ThreadsInv
  <2> QED
    BY <2>1, <2>2, SameStutters
<1>2. CASE WakeSpuriously
  <2>1. UNCHANGED << queueVars, client, closed >> /\ Arrived' = Arrived
    BY <1>2 DEF WakeSpuriously, Arrived
  <2> QED
    BY <2>1, SameStutters
<1>3. CASE Poll \/ SkipListener \/ EndOfListeners \/ WaitForRoom \/ Accept
  <2>1. UNCHANGED << queueVars, client, closed >>
    BY <1>3 DEF Poll, SkipListener, EndOfListeners, WaitForRoom, Accept, workerVars
  <2>2. Arrived' = Arrived
    BY <1>3 DEF Poll, SkipListener, EndOfListeners, WaitForRoom, Accept, Arrived, IInv, TypeOK
  <2> QED
    BY <2>1, <2>2, SameStutters
<1>4. CASE Shutdown \/ Terminate
  <2>1. UNCHANGED << queueVars, client, closed >> /\ Arrived' = Arrived
    BY <1>4 DEF Shutdown, Terminate, Arrived, workerVars
  <2> QED
    BY <2>1, SameStutters
<1>5. CASE Produce
  BY <1>5, ProduceMaps DEF Queue!Next
<1>6. ASSUME NEW w \in Workers, Worker(w)
      PROVE  Queue!Next \/ UNCHANGED Mapped
  <2>1. CASE WaitForConnection(w) \/ ConsumeReturns(w)
    <3>1. UNCHANGED << queueVars, client, closed >> /\ Arrived' = Arrived
      BY <2>1 DEF WaitForConnection, ConsumeReturns, Arrived, masterVars
    <3> QED
      BY <3>1, SameStutters
  <2>2. CASE Consume(w)
    BY <2>2, ConsumeMaps DEF Queue!Next
  <2>3. CASE Serve(w)
    <3>1. client[w] # 0 /\ Arrived' = Arrived /\ Line' = Line
      BY <2>3 DEF Serve, IInv, ClientInv, Arrived, Line, masterVars, queueVars
    <3>2. Queue!Close(w)
      BY <2>3, <3>1 DEF Serve, Queue!Close, Arrived
    <3> QED
      BY <3>2 DEF Queue!Next
  <2> QED
    BY <1>6, <2>1, <2>2, <2>3 DEF Worker
<1>7. CASE UNCHANGED vars
  BY <1>7 DEF Mapped, Arrived, Line, vars, masterVars, queueVars, workerVars
<1> QED
  BY <1>1, <1>2, <1>3, <1>4, <1>5, <1>6, <1>7 DEF Next, Master, Exited

(* No connection is lost from the ring, passed over, taken twice, or served   *)
(* after one that came later, for any number of workers and any ring: the     *)
(* ring, its wrapped pointers, the waits and the wakeups implement the line.  *)
THEOREM RingImplementsQueue == Spec => ImplementsConnectionQueue
<1>1. IInv /\ [Next]_vars
          => [Queue!Next]_<< IF master \in {"produce", "waiting"} THEN accepted - 1 ELSE accepted,
                             Line, client, closed >>
  BY NextMaps DEF Mapped, Arrived
<1> QED
  BY MapInit, <1>1, AlwaysIInv, PTL DEF Spec, ImplementsConnectionQueue, Queue!Spec
=============================================================================
