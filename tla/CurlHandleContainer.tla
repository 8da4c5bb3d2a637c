------------------------ MODULE CurlHandleContainer ------------------------
(***************************************************************************)
(* The pool of connections that the threads of an SDK client share         *)
(* (CurlHandleContainer.cpp) and the resource manager below it             *)
(* (ResourceManager.h): one critical section of either mutex, or one step  *)
(* outside of them, is one action.                                         *)
(*                                                                         *)
(* A thread "asks" for a handle, "grows" the pool (it "adds" a handle and  *)
(* "tells" a waiting thread), "acquires" one or "waits" for it, "holds" it *)
(* for a transfer, and is "answered" after it has "released" or            *)
(* "destroyed" the handle.  A client puts a thread where it asks.          *)
(***************************************************************************)
EXTENDS Integers, FiniteSets

CONSTANTS
    Threads,      \* the threads of the client
    Handles,      \* what curl_easy_init may return
    NoHandle,     \* nullptr
    NoThread,     \* nobody
    MaxPoolSize,  \* m_maxPoolSize, ClientConfiguration::maxConnections: 100
    InitFails     \* curl_easy_init may run out of memory

ASSUME PoolAssumption ==
    /\ NoHandle \notin Handles /\ NoThread \notin Threads
    /\ IsFiniteSet(Threads) /\ IsFiniteSet(Handles)
    /\ MaxPoolSize \in Nat \ {0}
    /\ Cardinality(Handles) > MaxPoolSize
    /\ InitFails \in BOOLEAN

VARIABLES
    at,             \* where each thread is
    held,           \* the handle each thread owns
    resources,      \* m_resources; which of them is at the back makes no difference
    poolSize,       \* m_poolSize
    containerLock,  \* the thread inside of CheckAndGrowPool, or NoThread
    toAdd, added,   \* amountToAdd and actuallyAdded in there
    shutdown        \* m_shutdown

poolVars == << at, held, resources, poolSize, containerLock, toAdd, added, shutdown >>

(* Where a thread is inside of AcquireCurlHandle, or in possession of a handle. *)
Acquiring == {"asks", "grows", "adds", "tells", "acquires", "waits"}
InPool == Acquiring \cup {"holds", "released", "destroyed"}

Holders == {t \in Threads : held[t] # NoHandle}
Alive == resources \cup {held[t] : t \in Holders}

PoolInit ==
    /\ held = [t \in Threads |-> NoHandle]
    /\ resources = {}
    /\ poolSize = 0
    /\ containerLock = NoThread
    /\ toAdd = 0 /\ added = 0
    /\ shutdown = FALSE

-----------------------------------------------------------------------------
(* AcquireCurlHandle *)

(* HasResourcesAvailable: only a hint once the lock is free again. *)
Ask(t) ==
    /\ at[t] = "asks"
    /\ at' = [at EXCEPT ![t] = IF resources # {} /\ ~shutdown THEN "acquires" ELSE "grows"]
    /\ UNCHANGED << held, resources, poolSize, containerLock, toAdd, added, shutdown >>

AmountToAdd ==
    LET wanted == 2 * (IF poolSize > 0 THEN poolSize ELSE 1)
        room == MaxPoolSize - poolSize
    IN  IF wanted < room THEN wanted ELSE room

(* Seeded fault: CheckAndGrowPool takes no lock. *)
StartGrowingUnlocked(t) ==
    /\ at[t] = "grows"
    /\ poolSize < MaxPoolSize
    /\ containerLock' = t
    /\ toAdd' = AmountToAdd
    /\ added' = 0
    /\ at' = [at EXCEPT ![t] = "adds"]
    /\ UNCHANGED << held, resources, poolSize, shutdown >>

StartGrowing(t) ==
    /\ at[t] = "grows"
    /\ containerLock = NoThread
    /\ poolSize < MaxPoolSize
    /\ containerLock' = t
    /\ toAdd' = AmountToAdd
    /\ added' = 0
    /\ at' = [at EXCEPT ![t] = "adds"]
    /\ UNCHANGED << held, resources, poolSize, shutdown >>

CannotGrow(t) ==
    /\ at[t] = "grows"
    /\ containerLock = NoThread
    /\ poolSize >= MaxPoolSize
    /\ at' = [at EXCEPT ![t] = "acquires"]
    /\ UNCHANGED << held, resources, poolSize, containerLock, toAdd, added, shutdown >>

(* curl_easy_init, which of the addresses it returns makes no difference, and  *)
(* the push_back of Release.                                                   *)
AddHandle(t) ==
    /\ at[t] = "adds"
    /\ added < toAdd
    /\ Handles \ Alive # {}
    /\ resources' = resources \cup {CHOOSE handle \in Handles \ Alive : TRUE}
    /\ added' = added + 1
    /\ at' = [at EXCEPT ![t] = "tells"]
    /\ UNCHANGED << held, poolSize, containerLock, toAdd, shutdown >>

(* All have been added, or curl_easy_init has failed. *)
FinishGrowing(t) ==
    /\ at[t] = "adds"
    /\ added = toAdd \/ InitFails
    /\ poolSize' = poolSize + added
    /\ containerLock' = NoThread
    /\ toAdd' = 0 /\ added' = 0
    /\ at' = [at EXCEPT ![t] = "acquires"]
    /\ UNCHANGED << held, resources, shutdown >>

(* Acquire, whose thread has the lock, for the first time or after a wait. *)
Acquire(t) ==
    /\ at[t] = "acquires"
    /\ \E handle \in resources :
          /\ held' = [held EXCEPT ![t] = handle]
          /\ resources' = resources \ {handle}
    /\ at' = [at EXCEPT ![t] = "holds"]
    /\ UNCHANGED << poolSize, containerLock, toAdd, added, shutdown >>

Wait(t) ==
    /\ at[t] = "acquires"
    /\ resources = {}
    /\ at' = [at EXCEPT ![t] = "waits"]
    /\ UNCHANGED << held, resources, poolSize, containerLock, toAdd, added, shutdown >>

(* A condition variable may wake a thread without reason. *)
WakeSpuriously(t) ==
    /\ at[t] = "waits"
    /\ at' = [at EXCEPT ![t] = "acquires"]
    /\ UNCHANGED << held, resources, poolSize, containerLock, toAdd, added, shutdown >>

-----------------------------------------------------------------------------
(* ReleaseCurlHandle and DestroyCurlHandle *)

(* notify_one, with t on its way from one place to the next. *)
NotifyOne(t, from, next) ==
    LET waiting == {w \in Threads : at[w] = "waits"}
    IN  /\ at[t] = from
        /\ IF waiting = {}
           THEN at' = [at EXCEPT ![t] = next]
           ELSE \E w \in waiting : at' = [at EXCEPT ![t] = next, ![w] = "acquires"]
        /\ UNCHANGED << held, resources, poolSize, containerLock, toAdd, added, shutdown >>

TellAdded(t) == NotifyOne(t, "tells", "adds")

(* Seeded fault: the last line of Release is lost. *)
TellNobody(t) ==
    /\ at[t] = "released"
    /\ at' = [at EXCEPT ![t] = "answered"]
    /\ UNCHANGED << held, resources, poolSize, containerLock, toAdd, added, shutdown >>

TellReleased(t) == NotifyOne(t, "released", "answered")

(* The part of Release under the lock. *)
Release(t) ==
    /\ at[t] = "holds"
    /\ resources' = resources \cup {held[t]}
    /\ held' = [held EXCEPT ![t] = NoHandle]
    /\ at' = [at EXCEPT ![t] = "released"]
    /\ UNCHANGED << poolSize, containerLock, toAdd, added, shutdown >>

(* curl_easy_cleanup. *)
Destroy(t) ==
    /\ at[t] = "holds"
    /\ held' = [held EXCEPT ![t] = NoHandle]
    /\ at' = [at EXCEPT ![t] = "destroyed"]
    /\ UNCHANGED << resources, poolSize, containerLock, toAdd, added, shutdown >>

(* No one is notified, though the pool may grow again. *)
CountDown(t) ==
    /\ at[t] = "destroyed"
    /\ containerLock = NoThread
    /\ poolSize' = poolSize - 1
    /\ at' = [at EXCEPT ![t] = "answered"]
    /\ UNCHANGED << held, resources, containerLock, toAdd, added, shutdown >>

(* ~CurlHandleContainer: ShutdownAndWait(m_poolSize), and what it waits for.  *)
ShutDown ==
    /\ shutdown' = TRUE
    /\ UNCHANGED << at, held, resources, poolSize, containerLock, toAdd, added >>

Drain ==
    /\ shutdown
    /\ Cardinality(resources) = poolSize
    /\ resources' = {}
    /\ UNCHANGED << at, held, poolSize, containerLock, toAdd, added, shutdown >>

(* What a thread does without the client. *)
PoolStep(t) ==
    \/ Ask(t) \/ StartGrowing(t) \/ CannotGrow(t) \/ AddHandle(t) \/ TellAdded(t)
    \/ FinishGrowing(t) \/ Acquire(t) \/ Wait(t) \/ TellReleased(t) \/ CountDown(t)

-----------------------------------------------------------------------------
(* A handle has one owner: a thread, or the vector of released ones.          *)
HandlesExclusive ==
    /\ \A t \in Holders : held[t] \notin resources
    /\ \A s, t \in Holders : held[s] = held[t] => s = t

(* There are never more connections than ClientConfiguration::maxConnections  *)
(* allows, whoever grows the pool while others destroy their handles.         *)
ConnectionsWithinMax == Cardinality(Alive) <= MaxPoolSize

(* m_poolSize is the number of handles, but for those just added or just      *)
(* closed, whose count waits for the lock: the unsigned never wraps.          *)
Destroying == {t \in Threads : at[t] = "destroyed"}
PoolSizeCounts ==
    ~shutdown => poolSize + added = Cardinality(Alive) + Cardinality(Destroying)
=============================================================================
