----------------------------- MODULE PutThreads -----------------------------
(***************************************************************************)
(* The puts of the DynamoDB logger inside the SDK: PutItemAsync submits    *)
(* each to a thread of its own (Executor.cpp), whose request is tried and  *)
(* retried (AWSClient.cpp) on a connection of the shared pool; main asks   *)
(* for the table in the same way before its loop, and joins what is left   *)
(* of the threads when the client is destroyed.  This is the detail of the *)
(* puts of CloudServices, for a program with --useDb and no --useS3.       *)
(***************************************************************************)
EXTENDS CurlHandleContainer, Sequences

CONSTANTS
    MaxPuts,        \* bound: calls logged
    MaxRetries,     \* DefaultRetryStrategy(maxRetries): 6
    TransfersFail   \* curl_easy_perform may fail

ASSUME PutThreadsAssumption ==
    /\ MaxPuts \in Nat /\ MaxRetries \in Nat
    /\ TransfersFail \in BOOLEAN
    /\ Threads = 0 .. MaxPuts

Main == 0
Puts == 1 .. MaxPuts

VARIABLES
    pc,         \* where main is
    sdk,        \* the SDK is up
    executor,   \* m_state of the executor
    threads,    \* m_threads of the executor
    submitted,  \* how many puts have been submitted
    retries,    \* retries of the request of each thread
    outcome,    \* what became of its last attempt
    crashedIn   \* history: where main was when the process crashed, or "nowhere"

clientVars == << pc, sdk, executor, threads, submitted, retries, outcome, crashedIn >>
vars == << poolVars, clientVars >>

(* "busy" and "network" errors are retryable, and what the service "refused"  *)
(* is not.                                                                    *)
Retryable == {"busy", "network"}
Outcomes == {"none", "ok", "refused"} \cup Retryable

Init ==
    /\ PoolInit
    /\ at = [t \in Threads |-> IF t = Main THEN "new" ELSE "idle"]
    /\ pc = "describing"
    /\ sdk = TRUE
    /\ executor = "Free"
    /\ threads = {}
    /\ submitted = 0
    /\ retries = [t \in Threads |-> 0]
    /\ outcome = [t \in Threads |-> "none"]
    /\ crashedIn = "nowhere"

Up == pc \notin {"exited", "quit", "crashed"}

-----------------------------------------------------------------------------
(* A request: AttemptExhaustively *)

(* CreateHttpRequest. *)
CreateRequest(t) ==
    /\ at[t] = "new"
    /\ sdk
    /\ at' = [at EXCEPT ![t] = "asks"]
    /\ UNCHANGED << held, resources, poolSize, containerLock, toAdd, added, shutdown >>
    /\ UNCHANGED clientVars

(* The factory of requests, or the monitors of their answers, are gone.       *)
Crash(t) ==
    /\ at[t] \in {"new", "answered"}
    /\ ~sdk
    /\ crashedIn' = pc
    /\ pc' = "crashed"
    /\ UNCHANGED << poolVars, sdk, executor, threads, submitted, retries, outcome >>

(* curl_easy_perform has an answer, if not always of the length promised.     *)
Transfer(t) ==
    /\ Release(t)
    /\ \E result \in Outcomes \ {"none"} : outcome' = [outcome EXCEPT ![t] = result]
    /\ UNCHANGED << pc, sdk, executor, threads, submitted, retries, crashedIn >>

(* curl_easy_perform has none, the timeout of 1000 ms included.               *)
TransferFails(t) ==
    /\ TransfersFail
    /\ Destroy(t)
    /\ outcome' = [outcome EXCEPT ![t] = "network"]
    /\ UNCHANGED << pc, sdk, executor, threads, submitted, retries, crashedIn >>

ShouldRetry(t) == outcome[t] \in Retryable /\ retries[t] < MaxRetries

(* OnRequestFailed, and a sleep before the next attempt.                      *)
Retry(t) ==
    /\ at[t] = "answered"
    /\ sdk
    /\ ShouldRetry(t)
    /\ retries' = [retries EXCEPT ![t] = @ + 1]
    /\ at' = [at EXCEPT ![t] = "new"]
    /\ UNCHANGED << held, resources, poolSize, containerLock, toAdd, added, shutdown >>
    /\ UNCHANGED << pc, sdk, executor, threads, submitted, outcome, crashedIn >>

(* OnRequestSucceeded or OnRequestFailed, OnFinish, and the handler.          *)
Return(t) ==
    /\ at[t] = "answered"
    /\ sdk
    /\ ~ShouldRetry(t)
    /\ at' = [at EXCEPT ![t] = "returned"]
    /\ UNCHANGED << held, resources, poolSize, containerLock, toAdd, added, shutdown >>
    /\ UNCHANGED clientVars

-----------------------------------------------------------------------------
(* The thread of a put: fx, then Detach *)

TakeExecutor(t) ==
    /\ t # Main /\ at[t] = "returned"
    /\ executor = "Free"
    /\ executor' = "Locked"
    /\ at' = [at EXCEPT ![t] = "detaching"]
    /\ UNCHANGED << held, resources, poolSize, containerLock, toAdd, added, shutdown >>
    /\ UNCHANGED << pc, sdk, threads, submitted, retries, outcome, crashedIn >>

Detach(t) ==
    /\ at[t] = "detaching"
    /\ threads' = threads \ {t}
    /\ executor' = "Free"
    /\ at' = [at EXCEPT ![t] = "ended"]
    /\ UNCHANGED << held, resources, poolSize, containerLock, toAdd, added, shutdown >>
    /\ UNCHANGED << pc, sdk, submitted, retries, outcome, crashedIn >>

(* The executor is being destroyed, and joins the thread. *)
LeaveToJoin(t) ==
    /\ t # Main /\ at[t] = "returned"
    /\ executor = "Shutdown"
    /\ at' = [at EXCEPT ![t] = "ended"]
    /\ UNCHANGED << held, resources, poolSize, containerLock, toAdd, added, shutdown >>
    /\ UNCHANGED clientVars

ThreadStep(t) ==
    \/ PoolStep(t) /\ UNCHANGED clientVars
    \/ CreateRequest(t) \/ Crash(t) \/ Transfer(t) \/ TransferFails(t) \/ Retry(t) \/ Return(t)
    \/ TakeExecutor(t) \/ Detach(t) \/ LeaveToJoin(t)

-----------------------------------------------------------------------------
(* main: the table *)

(* DescribeTable has returned: there is a table, or no network.               *)
TableAnswered ==
    /\ pc = "describing" /\ at[Main] = "returned"
    /\ \/ outcome[Main] = "ok" /\ pc' = "storage"
       \/ outcome[Main] = "network" /\ pc' = "quit"
    /\ at' = [at EXCEPT ![Main] = "ended"]
    /\ UNCHANGED << held, resources, poolSize, containerLock, toAdd, added, shutdown >>
    /\ UNCHANGED << sdk, executor, threads, submitted, retries, outcome, crashedIn >>

(* Another error: CreateTable. *)
CreateTable ==
    /\ pc = "describing" /\ at[Main] = "returned"
    /\ outcome[Main] \notin {"ok", "network"}
    /\ pc' = "creating"
    /\ at' = [at EXCEPT ![Main] = "new"]
    /\ retries' = [retries EXCEPT ![Main] = 0]
    /\ UNCHANGED << held, resources, poolSize, containerLock, toAdd, added, shutdown >>
    /\ UNCHANGED << sdk, executor, threads, submitted, outcome, crashedIn >>

(* Whatever became of it. *)
TableCreated ==
    /\ pc = "creating" /\ at[Main] = "returned"
    /\ pc' = "storage"
    /\ at' = [at EXCEPT ![Main] = "ended"]
    /\ UNCHANGED << held, resources, poolSize, containerLock, toAdd, added, shutdown >>
    /\ UNCHANGED << sdk, executor, threads, submitted, retries, outcome, crashedIn >>

-----------------------------------------------------------------------------
(* main: the loop and the end *)

MainGoes(from, to) ==
    /\ pc = from
    /\ pc' = to
    /\ UNCHANGED << poolVars, executor, threads, submitted, retries, outcome, crashedIn >>

StartLoop == MainGoes("storage", "running") /\ UNCHANGED sdk

(* Seeded fault: the thread is started before the executor is locked. *)
SubmitUnlocked ==
    /\ pc = "running"
    /\ submitted < MaxPuts
    /\ pc' = "submitting"
    /\ submitted' = submitted + 1
    /\ at' = [at EXCEPT ![submitted + 1] = "new"]
    /\ UNCHANGED << held, resources, poolSize, containerLock, toAdd, added, shutdown >>
    /\ UNCHANGED << sdk, executor, threads, retries, outcome, crashedIn >>

(* SubmitToThread, up to the start of the thread. *)
Submit ==
    /\ pc = "running"
    /\ submitted < MaxPuts
    /\ executor = "Free"
    /\ executor' = "Locked"
    /\ pc' = "submitting"
    /\ submitted' = submitted + 1
    /\ at' = [at EXCEPT ![submitted + 1] = "new"]
    /\ UNCHANGED << held, resources, poolSize, containerLock, toAdd, added, shutdown >>
    /\ UNCHANGED << sdk, threads, retries, outcome, crashedIn >>

Submitted ==
    /\ pc = "submitting"
    /\ threads' = threads \cup {submitted}
    /\ executor' = "Free"
    /\ pc' = "running"
    /\ UNCHANGED << poolVars, sdk, submitted, retries, outcome, crashedIn >>

EndLoop == MainGoes("running", "closing") /\ UNCHANGED sdk

DestroyConsumer == MainGoes("closing", "stopping") /\ UNCHANGED sdk

(* ~DynamoDBCallLogger: ShutdownAPI. *)
ShutdownAPI == MainGoes("stopping", "joining") /\ sdk' = FALSE

(* ~DefaultExecutor, of the last member of the client. *)
ShutDownExecutor ==
    /\ pc = "joining"
    /\ executor = "Free"
    /\ executor' = "Shutdown"
    /\ pc' = "awaiting"
    /\ UNCHANGED << poolVars, sdk, threads, submitted, retries, outcome, crashedIn >>

(* All are joined, in whichever order. *)
JoinThread ==
    /\ pc = "awaiting"
    /\ \E p \in threads : at[p] = "ended" /\ threads' = threads \ {p}
    /\ UNCHANGED << poolVars, pc, sdk, executor, submitted, retries, outcome, crashedIn >>

(* Seeded fault: the pool is destroyed before the threads are joined. *)
DestroyPoolEarly ==
    /\ pc = "awaiting"
    /\ pc' = "draining"
    /\ ShutDown
    /\ UNCHANGED << sdk, executor, threads, submitted, retries, outcome, crashedIn >>

(* ~CurlHandleContainer, of the http client in the base class. *)
DestroyPool ==
    /\ pc = "awaiting"
    /\ threads = {}
    /\ pc' = "draining"
    /\ ShutDown
    /\ UNCHANGED << sdk, executor, threads, submitted, retries, outcome, crashedIn >>

PoolDrained ==
    /\ pc = "draining"
    /\ Drain
    /\ pc' = "exited"
    /\ UNCHANGED << sdk, executor, threads, submitted, retries, outcome, crashedIn >>

Submits == Submit \/ Submitted
Starts == TableAnswered \/ CreateTable \/ TableCreated \/ StartLoop
Ends ==
    \/ DestroyConsumer \/ ShutdownAPI \/ ShutDownExecutor \/ JoinThread \/ DestroyPool
    \/ PoolDrained

Ended == ~Up /\ UNCHANGED vars

Spurious(t) == WakeSpuriously(t) /\ UNCHANGED clientVars

Next ==
    \/ Starts \/ Submits \/ EndLoop \/ Ends
    \/ Up /\ \E t \in Threads : ThreadStep(t) \/ Spurious(t)
    \/ Ended

(* Threads are scheduled, transfers time out, and main goes on; when its loop *)
(* ends is up to the clock or to a signal.                                    *)
Fairness ==
    /\ WF_vars(Starts) /\ WF_vars(Submitted) /\ WF_vars(Ends)
    /\ \A t \in Threads : WF_vars(Up /\ ThreadStep(t))

Spec == Init /\ [][Next]_vars /\ Fairness

-----------------------------------------------------------------------------
Places == InPool \cup {"idle", "new", "answered", "returned", "detaching", "ended"}

(* Every variable keeps its type; m_poolSize, an unsigned, stays in range.    *)
TypeOK ==
    /\ at \in [Threads -> Places]
    /\ held \in [Threads -> Handles \cup {NoHandle}]
    /\ resources \subseteq Handles
    /\ poolSize \in 0 .. MaxPoolSize
    /\ containerLock \in Threads \cup {NoThread}
    /\ toAdd \in 0 .. MaxPoolSize /\ added \in 0 .. MaxPoolSize
    /\ shutdown \in BOOLEAN
    /\ pc \in {"describing", "creating", "storage", "running", "submitting", "closing",
               "stopping", "joining", "awaiting", "draining", "exited", "quit", "crashed"}
    /\ sdk \in BOOLEAN
    /\ executor \in {"Free", "Locked", "Shutdown"}
    /\ threads \subseteq Puts
    /\ submitted \in 0 .. MaxPuts
    /\ retries \in [Threads -> 0 .. MaxRetries]
    /\ outcome \in [Threads -> Outcomes]
    /\ crashedIn \in {"nowhere", "running", "submitting", "closing", "stopping", "joining",
                      "awaiting", "draining"}

(* Executor.cpp:58, an assertion: a thread that detaches itself is in the map,*)
(* although it may be through before its submission is.                       *)
DetachFindsThread == \A p \in Puts : at[p] = "detaching" => p \in threads

(* When the pool is destroyed, every put has ended and every handle is back:  *)
(* nobody is in Acquire (ResourceManager.h:33, 55), nor has to be waited for. *)
PoolOutlivesThreads ==
    shutdown => /\ \A p \in Puts : at[p] \in {"idle", "ended"}
                /\ pc = "draining" => Cardinality(resources) = poolSize

(* No connection is left, and the pool that may grow anew for the next thread  *)
(* does not for one that waits (CurlHandleContainer.cpp:81-86 wakes nobody).   *)
Starved == Alive = {} /\ \E t \in Threads : at[t] \in {"acquires", "waits"}

(* Once its loop is over the program ends, by itself or by the crash of a      *)
(* thread, unless the pool is starved for ever: a handle released wakes a      *)
(* thread that waits for it, and main joins threads that end.                  *)
ProgramEnds == pc = "closing" ~> (~Up \/ []Starved)

-----------------------------------------------------------------------------
(* The puts of CloudServices *)

MainAt ==
    CASE pc \in {"describing", "creating"} -> "logger"
      [] pc = "submitting" -> "running"
      [] pc \in {"awaiting", "draining"} -> "joining"
      [] OTHER -> pc

PutState(p) ==
    CASE at[p] = "new" -> "submitted"
      [] at[p] \in InPool \cup {"answered"} -> "sent"
      [] OTHER -> IF outcome[p] = "ok" THEN "written" ELSE "failed"

CrashedAt ==
    CASE crashedIn = "submitting" -> "running"
      [] crashedIn \in {"awaiting", "draining"} -> "joining"
      [] OTHER -> crashedIn

PutRecords == [p \in 1 .. submitted |-> [state |-> PutState(p), retries |-> retries[p]]]

SdkUp == sdk /\ pc \notin {"describing", "creating"}

DbOnly == [useDb |-> TRUE, useS3 |-> FALSE, output |-> "Socket"]

Cloud == INSTANCE CloudServices WITH
    Settings <- {DbOnly}, MaxCalls <- MaxPuts,
    pc <- MainAt, settings <- DbOnly, sdk <- SdkUp, table <- TRUE, bucket <- FALSE,
    puts <- PutRecords, uploaded <- FALSE, crashedIn <- CrashedAt

(* The executor, the pool and the retries of a request do what CloudServices  *)
(* says of a put: main goes on only when all puts have ended.                 *)
ImplementsCloudServices == Cloud!Spec
=============================================================================
