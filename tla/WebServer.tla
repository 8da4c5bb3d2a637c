----------------------------- MODULE WebServer -----------------------------
(***************************************************************************)
(* The web interface: WebInterface (src/webinterface.cpp) starts a server  *)
(* of libhttp and stops it when main returns.  Its master thread accepts   *)
(* connections and puts them into a ring of QueueSize places, from which   *)
(* the worker threads take them.                                           *)
(*                                                                         *)
(* thread_mutex guards the ring, so what is done under it is one action;   *)
(* status is read and written without it.  A request and its reply are one *)
(* step of a worker: without keep-alive, which is off, a connection has    *)
(* one, and request_timeout ends it.                                       *)
(***************************************************************************)
EXTENDS Integers, Sequences

CONSTANTS
    NumThreads,         \* num_threads: 50
    QueueSize,          \* MGSQLEN: 20
    NumListeners,       \* ports listened to: 1, and 1 more with --secure
    MaxConnections      \* bound: connections accepted

ASSUME WebServerAssumption ==
    /\ NumThreads \in Nat \ {0} /\ QueueSize \in Nat \ {0}
    /\ NumListeners \in Nat \ {0} /\ MaxConnections \in Nat

VARIABLES
    main,       \* where main is
    masterId,   \* masterthreadid is set
    created,    \* worker threads created
    freed,      \* the context is freed
    status,     \* ctx->status
    master,     \* where the master thread is
    listener,   \* the listening socket it looks at
    accepted,   \* connections accepted; the last one is in its hands until produced
    worker,     \* where each worker thread is
    client,     \* conn->client of each worker, 0 for none
    queue,      \* the ring
    sqHead, sqTail,
    closed      \* the connections that were closed

mainVars == << main, masterId, created, freed >>
masterVars == << master, listener, accepted >>
queueVars == << queue, sqHead, sqTail >>
workerVars == << worker, client, closed >>
vars == << mainVars, status, masterVars, queueVars, workerVars >>

Workers == 1 .. NumThreads

Init ==
    /\ main = "starting" /\ masterId = FALSE /\ created = 0 /\ freed = FALSE
    /\ status = "RUNNING"
    /\ master = "none" /\ listener = 1 /\ accepted = 0
    /\ worker = [w \in Workers |-> "none"]
    /\ client = [w \in Workers |-> 0]
    /\ queue = [i \in 0 .. QueueSize - 1 |-> 0] /\ sqHead = 0 /\ sqTail = 0
    /\ closed = {}

(* What the threads do once the context is gone has no meaning.               *)
Running == main # "exited" /\ ~freed

-----------------------------------------------------------------------------
(* main: httplib_start *)

(* Something fails before there are threads: httplib_start returns NULL.      *)
AbortStart ==
    /\ main = "starting"
    /\ main' = "serverless"
    /\ freed' = TRUE
    /\ UNCHANGED << masterId, created, status, masterVars, queueVars, workerVars >>

(* What starting the master thread returns is not looked at.                  *)
StartMaster ==
    /\ main = "starting"
    /\ main' = "creating"
    /\ \/ master' = "check" /\ masterId' = TRUE
       \/ UNCHANGED << master, masterId >>
    /\ UNCHANGED << created, freed, status, listener, accepted, queueVars, workerVars >>

StartWorker ==
    /\ main = "creating"
    /\ created < NumThreads
    /\ created' = created + 1
    /\ worker' = [worker EXCEPT ![created + 1] = "consume"]
    /\ UNCHANGED << main, masterId, freed, status, masterVars, queueVars, client, closed >>

(* A worker thread is not created: with no worker at all the start is aborted *)
(* and the context freed, whatever the master thread does; else it goes on.   *)
WorkerNotStarted ==
    /\ main = "creating"
    /\ created < NumThreads
    /\ \/ created = 0 /\ main' = "serverless" /\ freed' = TRUE
       \/ created > 0 /\ main' = "loop" /\ UNCHANGED freed
    /\ UNCHANGED << masterId, created, status, masterVars, queueVars, workerVars >>

Started ==
    /\ main = "creating"
    /\ created = NumThreads
    /\ main' = "loop"
    /\ UNCHANGED << masterId, created, freed, status, masterVars, queueVars, workerVars >>

-----------------------------------------------------------------------------
(* main: httplib_stop, when its loop has ended *)

(* Without a context, or a master thread to end it, nothing is stopped.       *)
NothingToStop ==
    /\ main = "serverless" \/ (main = "loop" /\ ~masterId)
    /\ main' = "exited"
    /\ UNCHANGED << masterId, created, freed, status, masterVars, queueVars, workerVars >>

Stop ==
    /\ main = "loop" /\ masterId
    /\ masterId' = FALSE
    /\ status' = "STOPPING"
    /\ main' = "stopping"
    /\ UNCHANGED << created, freed, masterVars, queueVars, workerVars >>

Terminated ==
    /\ main = "stopping"
    /\ status = "TERMINATED"
    /\ freed' = TRUE
    /\ main' = "exited"
    /\ UNCHANGED << masterId, created, status, masterVars, queueVars, workerVars >>

-----------------------------------------------------------------------------
(* The condition variables *)

(* Seeded fault: nobody is told of a connection. *)
TellNobody == UNCHANGED worker

(* pthread_cond_signal(sq_full): one of the waiting workers looks again.      *)
SignalFull ==
    \/ \E w \in Workers : worker[w] = "waiting" /\ worker' = [worker EXCEPT ![w] = "consume"]
    \/ (\A w \in Workers : worker[w] # "waiting") /\ UNCHANGED worker

(* Seeded fault: one worker is woken for all of them. *)
BroadcastToOne == SignalFull

(* pthread_cond_broadcast(sq_full) *)
BroadcastFull ==
    worker' = [w \in Workers |-> IF worker[w] = "waiting" THEN "consume" ELSE worker[w]]

(* pthread_cond_signal(sq_empty): only the master thread waits for it.        *)
SignalEmpty == master' = IF master = "waiting" THEN "produce" ELSE master

WakeSpuriously ==
    /\ Running
    /\ \/ /\ master = "waiting" /\ master' = "produce"
          /\ UNCHANGED worker
       \/ /\ \E w \in Workers :
                worker[w] = "waiting" /\ worker' = [worker EXCEPT ![w] = "consume"]
          /\ UNCHANGED master
    /\ UNCHANGED << mainVars, status, listener, accepted, queueVars, client, closed >>

-----------------------------------------------------------------------------
(* The master thread *)

(* The status is looked at and the listening sockets are polled for 200 ms.   *)
Poll ==
    /\ Running /\ master = "check"
    /\ status = "RUNNING"
    /\ master' \in {"check", "scan"}
    /\ listener' = 1
    /\ UNCHANGED << mainVars, status, accepted, queueVars, workerVars >>

(* Nothing comes of this listening socket, or the server is stopping.         *)
SkipListener ==
    /\ Running /\ master = "scan"
    /\ listener <= NumListeners
    /\ listener' = listener + 1
    /\ UNCHANGED << mainVars, status, master, accepted, queueVars, workerVars >>

Accept ==
    /\ Running /\ master = "scan"
    /\ listener <= NumListeners
    /\ status = "RUNNING"
    /\ accepted < MaxConnections
    /\ accepted' = accepted + 1
    /\ master' = "produce"
    /\ UNCHANGED << mainVars, status, listener, queueVars, workerVars >>

EndOfListeners ==
    /\ Running /\ master = "scan"
    /\ listener > NumListeners
    /\ master' = "check"
    /\ UNCHANGED << mainVars, status, listener, accepted, queueVars, workerVars >>

Full == sqHead - sqTail >= QueueSize

WaitForRoom ==
    /\ Running /\ master = "produce"
    /\ status = "RUNNING" /\ Full
    /\ master' = "waiting"
    /\ UNCHANGED << mainVars, status, listener, accepted, queueVars, workerVars >>

(* A server that is stopping does not wait for room: the connection is left.  *)
Produce ==
    /\ Running /\ master = "produce"
    /\ ~(status = "RUNNING" /\ Full)
    /\ \/ Full /\ UNCHANGED << queue, sqHead >>
       \/ /\ ~Full
          /\ queue' = [queue EXCEPT ![sqHead % QueueSize] = accepted]
          /\ sqHead' = sqHead + 1
    /\ SignalFull
    /\ master' = "scan" /\ listener' = listener + 1
    /\ UNCHANGED << mainVars, status, accepted, sqTail, client, closed >>

(* The listening sockets are closed and the workers woken.                    *)
Shutdown ==
    /\ Running /\ master = "check"
    /\ status # "RUNNING"
    /\ BroadcastFull
    /\ master' = "joining"
    /\ UNCHANGED << mainVars, status, listener, accepted, queueVars, client, closed >>

(* Seeded fault: the workers are not waited for. *)
NoneToJoin == TRUE

Joined == \A w \in Workers : worker[w] \in {"none", "ended"}

Terminate ==
    /\ Running /\ master = "joining"
    /\ Joined
    /\ status' = "TERMINATED"
    /\ master' = "ended"
    /\ UNCHANGED << mainVars, listener, accepted, queueVars, workerVars >>

-----------------------------------------------------------------------------
(* A worker thread: httplib_consume_socket *)

(* Seeded fault: only the tail is wrapped. *)
WrappedTail == << sqHead, IF sqTail + 1 > QueueSize THEN sqTail + 1 - QueueSize ELSE sqTail + 1 >>

(* Head and tail after a connection was taken.                                *)
Wrapped ==
    IF sqTail + 1 > QueueSize
    THEN << sqHead - QueueSize, sqTail + 1 - QueueSize >>
    ELSE << sqHead, sqTail + 1 >>

WaitForConnection(w) ==
    /\ Running /\ worker[w] = "consume"
    /\ sqHead = sqTail /\ status = "RUNNING"
    /\ worker' = [worker EXCEPT ![w] = "waiting"]
    /\ UNCHANGED << mainVars, status, masterVars, queueVars, client, closed >>

(* A connection is taken even from a server that is stopping.                 *)
Consume(w) ==
    /\ Running /\ worker[w] = "consume"
    /\ \/ /\ sqHead > sqTail
          /\ client' = [client EXCEPT ![w] = queue[sqTail % QueueSize]]
          /\ sqHead' = Wrapped[1] /\ sqTail' = Wrapped[2]
       \/ /\ sqHead = sqTail /\ status # "RUNNING"
          /\ UNCHANGED << client, sqHead, sqTail >>
    /\ SignalEmpty
    /\ worker' = [worker EXCEPT ![w] = "returns"]
    /\ UNCHANGED << mainVars, status, listener, accepted, queue, closed >>

(* The status is looked at again, after the lock was given back: a connection *)
(* taken from a server that is stopping is neither served nor closed.         *)
ConsumeReturns(w) ==
    /\ Running /\ worker[w] = "returns"
    /\ worker' = [worker EXCEPT ![w] = IF status = "RUNNING" THEN "serving" ELSE "ended"]
    /\ UNCHANGED << mainVars, status, masterVars, queueVars, client, closed >>

(* The request is read, the handler called and the connection closed; or the  *)
(* client was silent for too long, or the server is stopping.                 *)
Serve(w) ==
    /\ Running /\ worker[w] = "serving"
    /\ closed' = closed \cup {client[w]}
    /\ client' = [client EXCEPT ![w] = 0]
    /\ worker' = [worker EXCEPT ![w] = "consume"]
    /\ UNCHANGED << mainVars, status, masterVars, queueVars >>

-----------------------------------------------------------------------------
Starting == AbortStart \/ StartMaster \/ StartWorker \/ WorkerNotStarted \/ Started
Master ==
    \/ Poll \/ SkipListener \/ Accept \/ EndOfListeners
    \/ WaitForRoom \/ Produce \/ Shutdown \/ Terminate
Worker(w) == WaitForConnection(w) \/ Consume(w) \/ ConsumeReturns(w) \/ Serve(w)
Exited == main = "exited" /\ UNCHANGED vars

Next ==
    \/ Starting \/ NothingToStop \/ Stop \/ Terminated
    \/ Master \/ (\E w \in Workers : Worker(w)) \/ WakeSpuriously
    \/ Exited

(* The threads are scheduled, and get the lock in the end.  When main's loop  *)
(* ends is not owed here, nor are spurious wakeups.                           *)
Spec ==
    /\ Init /\ [][Next]_vars
    /\ WF_vars(Starting) /\ WF_vars(Terminated) /\ WF_vars(Master)
    /\ \A w \in Workers : WF_vars(Worker(w))

-----------------------------------------------------------------------------
(* The context is freed, and with it the lock and the ring, only when all     *)
(* threads have ended (httplib_free_context.c:49), unless not even the first  *)
(* worker could be created: then it is taken from a master thread at work.    *)
FreedAfterThreads ==
    freed =>
        /\ \A w \in Workers : worker[w] \in {"none", "ended"}
        /\ master \in {"none", "ended"} \/ created = 0

(* The ring, its wrapped pointers, the waits and the wakeups keep what        *)
(* ConnectionQueue promises: no connection is lost from the ring, passed      *)
(* over, taken twice, or served after one that came later.                    *)
Line == [i \in 1 .. sqHead - sqTail |-> queue[(sqTail + i - 1) % QueueSize]]

Queue == INSTANCE ConnectionQueue WITH
    Servers <- Workers, Capacity <- QueueSize,
    arrived <- IF master \in {"produce", "waiting"} THEN accepted - 1 ELSE accepted,
    line <- Line, serving <- client, closed <- closed

ImplementsConnectionQueue == Queue!Spec

(* No wakeup is lost: as long as the server runs, a connection in the ring    *)
(* finds a worker, though it is signalled to one thread only.                 *)
Queued(c) == \E i \in DOMAIN Line : Line[i] = c

QueuedIsTaken ==
    \A c \in 1 .. MaxConnections :
        Queued(c) ~> ~Queued(c) \/ status # "RUNNING" \/ freed

(* A server that is told to stop does, and main gets past ~WebInterface,      *)
(* unless the master thread waits for room in the ring and every worker left  *)
(* on the status it found after it had taken its last connection.             *)
LeftWaiting == master = "waiting" /\ Joined

StopsUnlessLeftWaiting == main = "stopping" ~> main = "exited" \/ LeftWaiting

(* httplib_worker_thread.c:112-114 "Call XX_httplib_consume_socket() even     *)
(* when ctx->stop_flag > 0, to let it signal sq_empty condvar to wake up the  *)
(* master waiting in produce_socket()".                                       *)
MasterWoken == main = "stopping" /\ master = "waiting" ~> master # "waiting"
=============================================================================
