------------------------- MODULE PutThreads_proofs -------------------------
(***************************************************************************)
(* Proofs about PutThreads and the pool of connections below it, for any   *)
(* number of puts, retries and connections.                                *)
(*                                                                         *)
(* PoolInv is about the pool, whatever its threads do elsewhere;           *)
(* ClientInv is about the executor and the phases of main, whatever the    *)
(* threads do inside of the pool.  With both, every step is one of         *)
(* CloudServices, or none that it sees.                                    *)
(***************************************************************************)
EXTENDS PutThreads, FiniteSetTheorems, SequenceTheorems, TLAPS

(* The pool's members keep their types, without the bound of m_poolSize.      *)
PoolTyped ==
    /\ at \in [Threads -> Places]
    /\ held \in [Threads -> Handles \cup {NoHandle}]
    /\ resources \subseteq Handles
    /\ poolSize \in Nat
    /\ containerLock \in Threads \cup {NoThread}
    /\ toAdd \in Nat /\ added \in Nat
    /\ shutdown \in BOOLEAN

HolderHolds == \A t \in Threads : held[t] # NoHandle <=> at[t] = "holds"

(* The lock is held by the thread that grows the pool, up to its maximum.     *)
LockHeld ==
    /\ \A t \in Threads : containerLock = t <=> at[t] \in {"adds", "tells"}
    /\ containerLock = NoThread => toAdd = 0 /\ added = 0
    /\ added <= toAdd
    /\ poolSize + toAdd <= MaxPoolSize

PoolInv == PoolTyped /\ HolderHolds /\ HandlesExclusive /\ LockHeld /\ PoolSizeCounts

-----------------------------------------------------------------------------
(* The pool *)

(* A step that changes neither who has which handle nor who has the lock.     *)
Quiet ==
    /\ at' \in [Threads -> Places]
    /\ \A t \in Threads :
          /\ at'[t] = "holds" <=> at[t] = "holds"
          /\ at'[t] = "destroyed" <=> at[t] = "destroyed"
          /\ at'[t] \in {"adds", "tells"} <=> at[t] \in {"adds", "tells"}
    /\ UNCHANGED << held, resources, poolSize, containerLock, toAdd, added, shutdown >>

(* A thread goes from one such place to another. *)
LEMMA MoveIsQuiet ==
    ASSUME PoolTyped, NEW t \in Threads, NEW place \in Places,
           at' = [at EXCEPT ![t] = place],
           at[t] \notin {"holds", "destroyed", "adds", "tells"},
           place \notin {"holds", "destroyed", "adds", "tells"},
           UNCHANGED << held, resources, poolSize, containerLock, toAdd, added, shutdown >>
    PROVE  Quiet
  BY DEF Quiet, PoolTyped

LEMMA StayIsQuiet == PoolTyped /\ UNCHANGED poolVars => Quiet
  BY DEF Quiet, PoolTyped, poolVars

LEMMA NotifyIsQuiet ==
    ASSUME PoolTyped, NEW t \in Threads, NEW from, NEW next \in Places, NotifyOne(t, from, next),
           from # "waits",
           from = "holds" <=> next = "holds",
           from = "destroyed" <=> next = "destroyed",
           from \in {"adds", "tells"} <=> next \in {"adds", "tells"}
    PROVE  Quiet
<1> DEFINE waiting == {w \in Threads : at[w] = "waits"}
<1>1. "acquires" \in Places
  BY DEF Places, InPool, Acquiring
<1>2. CASE waiting = {}
  <2>1. at' = [at EXCEPT ![t] = next] /\ at[t] = from
    BY <1>2 DEF NotifyOne
  <2> QED
    BY <2>1 DEF NotifyOne, Quiet, PoolTyped
<1>3. CASE waiting # {}
  <2>1. PICK w \in waiting : at' = [at EXCEPT ![t] = next, ![w] = "acquires"]
    BY <1>3 DEF NotifyOne
  <2>2. at[t] = from /\ w # t
    BY DEF NotifyOne
  <2> QED
    BY <1>1, <2>1, <2>2 DEF NotifyOne, Quiet, PoolTyped
<1> QED
  BY <1>2, <1>3

(* What threads do to the pool, but for the quiet steps.                      *)
PoolChange(t) ==
    \/ StartGrowing(t) \/ AddHandle(t) \/ FinishGrowing(t) \/ Acquire(t)
    \/ Release(t) \/ Destroy(t) \/ CountDown(t)

LEMMA PoolStepKinds ==
    ASSUME PoolTyped, NEW t \in Threads, PoolStep(t) \/ WakeSpuriously(t)
    PROVE  PoolChange(t) \/ Quiet
<1> USE DEF Places, InPool, Acquiring
<1>1. CASE Ask(t)
  BY <1>1, MoveIsQuiet DEF Ask
<1>2. CASE CannotGrow(t)
  BY <1>2, MoveIsQuiet DEF CannotGrow
<1>3. CASE TellAdded(t)
  BY <1>3, NotifyIsQuiet DEF TellAdded
<1>4. CASE Wait(t)
  BY <1>4, MoveIsQuiet DEF Wait
<1>5. CASE TellReleased(t)
  BY <1>5, NotifyIsQuiet DEF TellReleased
<1>6. CASE WakeSpuriously(t)
  BY <1>6, MoveIsQuiet DEF WakeSpuriously
<1> QED
  BY <1>1, <1>2, <1>3, <1>4, <1>5, <1>6 DEF PoolStep, PoolChange

(* Handles and threads are finitely many. *)
LEMMA Finite ==
    ASSUME PoolTyped
    PROVE  /\ IsFiniteSet(Alive) /\ Cardinality(Alive) \in Nat
           /\ IsFiniteSet(Destroying) /\ Cardinality(Destroying) \in Nat
<1>1. Alive \subseteq Handles
  BY DEF Alive, Holders, PoolTyped
<1>2. Destroying \subseteq Threads
  BY DEF Destroying
<1> QED
  BY <1>1, <1>2, PoolAssumption, FS_Subset, FS_CardinalityType

LEMMA QuietKeepsPool == PoolInv /\ Quiet => PoolInv'
<1> SUFFICES ASSUME PoolInv, Quiet PROVE PoolInv'
  OBVIOUS
<1>1. PoolTyped' /\ HolderHolds' /\ HandlesExclusive' /\ LockHeld'
  BY DEF PoolInv, Quiet, PoolTyped, HolderHolds, HandlesExclusive, LockHeld, Holders
<1>2. Destroying' = Destroying /\ Alive' = Alive
  BY DEF Quiet, Destroying, Alive, Holders
<1>3. PoolSizeCounts'
  BY <1>2 DEF PoolInv, Quiet, PoolSizeCounts
<1> QED
  BY <1>1, <1>3 DEF PoolInv

LEMMA StartGrowingKeeps ==
    ASSUME PoolInv, NEW t \in Threads, StartGrowing(t)
    PROVE  PoolInv'
<1> USE DEF PoolInv
<1>1. AmountToAdd \in Nat /\ poolSize + AmountToAdd <= MaxPoolSize
  BY PoolAssumption DEF StartGrowing, AmountToAdd, PoolTyped
<1>2. PoolTyped'
  BY <1>1 DEF StartGrowing, PoolTyped, Places, InPool, Acquiring
<1>3. HolderHolds' /\ HandlesExclusive'
  BY DEF StartGrowing, PoolTyped, HolderHolds, HandlesExclusive, Holders
<1>4. LockHeld'
  BY <1>1, PoolAssumption DEF StartGrowing, PoolTyped, LockHeld
<1>5. Alive' = Alive /\ Destroying' = Destroying /\ added = 0
  BY DEF StartGrowing, PoolTyped, LockHeld, Alive, Holders, Destroying
<1>6. PoolSizeCounts'
  BY <1>5 DEF StartGrowing, PoolSizeCounts
<1> QED
  BY <1>2, <1>3, <1>4, <1>6

LEMMA AddHandleKeeps ==
    ASSUME PoolInv, NEW t \in Threads, AddHandle(t)
    PROVE  PoolInv'
<1> USE DEF PoolInv
<1>1. PICK handle \in Handles \ Alive : resources' = resources \cup {handle}
  BY DEF AddHandle
<1>2. PoolTyped'
  BY <1>1 DEF AddHandle, PoolTyped, Places, InPool, Acquiring
<1>3. HolderHolds' /\ LockHeld'
  BY DEF AddHandle, PoolTyped, HolderHolds, LockHeld
<1>4. HandlesExclusive'
  BY <1>1 DEF AddHandle, HandlesExclusive, Holders, Alive
<1>5. Alive' = Alive \cup {handle} /\ Destroying' = Destroying
  BY <1>1 DEF AddHandle, PoolTyped, Alive, Holders, Destroying
<1>6. Cardinality(Alive') = Cardinality(Alive) + 1
  BY <1>1, <1>5, Finite, FS_AddElement
<1>7. PoolSizeCounts'
  <2>1. PICK pool \in Int, new \in Int, alive \in Int, destroying \in Int :
           /\ pool = poolSize /\ new = added
           /\ alive = Cardinality(Alive) /\ destroying = Cardinality(Destroying)
    BY Finite DEF PoolTyped
  <2>2. poolSize' = pool /\ added' = new + 1 /\ shutdown' = shutdown
    BY <2>1 DEF AddHandle
  <2>3. Cardinality(Alive') = alive + 1 /\ Cardinality(Destroying') = destroying
    BY <1>5, <1>6, <2>1
  <2>4. ~shutdown => pool + new = alive + destroying
    BY <2>1 DEF PoolSizeCounts
  <2>5. ~shutdown => pool + (new + 1) = (alive + 1) + destroying
    BY <2>4
  <2> QED
    BY <2>2, <2>3, <2>5 DEF PoolSizeCounts
<1> QED
  BY <1>2, <1>3, <1>4, <1>7

LEMMA FinishGrowingKeeps ==
    ASSUME PoolInv, NEW t \in Threads, FinishGrowing(t)
    PROVE  PoolInv'
<1> USE DEF PoolInv
<1>1. PoolTyped' /\ HolderHolds' /\ HandlesExclusive'
  BY DEF FinishGrowing, PoolTyped, HolderHolds, HandlesExclusive, Holders, Places, InPool, Acquiring
<1>2. containerLock = t
  BY DEF FinishGrowing, LockHeld
<1>3. LockHeld'
  BY <1>2, PoolAssumption DEF FinishGrowing, PoolTyped, LockHeld
<1>4. Alive' = Alive /\ Destroying' = Destroying
  BY DEF FinishGrowing, PoolTyped, Alive, Holders, Destroying
<1>5. PoolSizeCounts'
  BY <1>4 DEF FinishGrowing, PoolTyped, PoolSizeCounts
<1> QED
  BY <1>1, <1>3, <1>5

LEMMA AcquireKeeps ==
    ASSUME PoolInv, NEW t \in Threads, Acquire(t)
    PROVE  PoolInv'
<1> USE DEF PoolInv
<1>1. PICK handle \in resources :
          held' = [held EXCEPT ![t] = handle] /\ resources' = resources \ {handle}
  BY DEF Acquire
<1>2. handle \in Handles /\ handle # NoHandle /\ held[t] = NoHandle
  BY <1>1, PoolAssumption DEF Acquire, PoolTyped, HolderHolds
<1>3. PoolTyped'
  BY <1>1, <1>2 DEF Acquire, PoolTyped, Places, InPool
<1>4. HolderHolds'
  BY <1>1, <1>2 DEF Acquire, PoolTyped, HolderHolds
<1>5. LockHeld'
  BY DEF Acquire, PoolTyped, LockHeld
<1>6. Holders' = Holders \cup {t} /\ t \notin Holders
  BY <1>1, <1>2 DEF PoolTyped, Holders
<1>7. HandlesExclusive'
  BY <1>1, <1>6 DEF PoolTyped, HandlesExclusive, Holders
<1>8. Alive' = Alive
  BY <1>1, <1>6 DEF PoolTyped, Alive
<1>9. Destroying' = Destroying
  BY DEF Acquire, PoolTyped, Destroying
<1>10. PoolSizeCounts'
  BY <1>8, <1>9 DEF Acquire, PoolSizeCounts
<1> QED
  BY <1>3, <1>4, <1>5, <1>7, <1>10

LEMMA ReleaseKeeps ==
    ASSUME PoolInv, NEW t \in Threads, Release(t)
    PROVE  PoolInv'
<1> USE DEF PoolInv
<1>1. held[t] \in Handles /\ held[t] # NoHandle
  BY PoolAssumption DEF Release, PoolTyped, HolderHolds
<1>2. PoolTyped'
  BY <1>1 DEF Release, PoolTyped, Places, InPool
<1>3. HolderHolds' /\ LockHeld'
  BY DEF Release, PoolTyped, HolderHolds, LockHeld
<1>4. Holders' = Holders \ {t} /\ t \in Holders
  BY <1>1 DEF Release, PoolTyped, Holders
<1>5. HandlesExclusive'
  BY <1>4 DEF Release, PoolTyped, HandlesExclusive, Holders
<1>6. Alive' = Alive
  BY <1>4 DEF Release, PoolTyped, Alive
<1>7. Destroying' = Destroying
  BY DEF Release, PoolTyped, Destroying
<1>8. PoolSizeCounts'
  BY <1>6, <1>7 DEF Release, PoolSizeCounts
<1> QED
  BY <1>2, <1>3, <1>5, <1>8

LEMMA DestroyKeeps ==
    ASSUME PoolInv, NEW t \in Threads, Destroy(t)
    PROVE  PoolInv'
<1> USE DEF PoolInv
<1>1. held[t] \in Handles /\ held[t] # NoHandle
  BY PoolAssumption DEF Destroy, PoolTyped, HolderHolds
<1>2. PoolTyped'
  BY DEF Destroy, PoolTyped, Places, InPool
<1>3. HolderHolds' /\ LockHeld'
  BY DEF Destroy, PoolTyped, HolderHolds, LockHeld
<1>4. Holders' = Holders \ {t} /\ t \in Holders
  BY <1>1 DEF Destroy, PoolTyped, Holders
<1>5. HandlesExclusive'
  BY <1>4 DEF Destroy, PoolTyped, HandlesExclusive, Holders
<1>6. Alive' = Alive \ {held[t]} /\ held[t] \in Alive
  BY <1>4 DEF Destroy, PoolTyped, Alive, HandlesExclusive
<1>7. Cardinality(Alive') = Cardinality(Alive) - 1
  BY <1>6, Finite, FS_RemoveElement
<1>8. Destroying' = Destroying \cup {t} /\ t \notin Destroying
  BY DEF Destroy, PoolTyped, Destroying
<1>9. Cardinality(Destroying') = Cardinality(Destroying) + 1
  BY <1>8, Finite, FS_AddElement
<1>10. PoolSizeCounts'
  <2>1. PICK pool \in Int, new \in Int, alive \in Int, destroying \in Int :
           /\ pool = poolSize /\ new = added
           /\ alive = Cardinality(Alive) /\ destroying = Cardinality(Destroying)
    BY Finite DEF PoolTyped
  <2>2. poolSize' = pool /\ added' = new /\ shutdown' = shutdown
    BY <2>1 DEF Destroy
  <2>3. Cardinality(Alive') = alive - 1 /\ Cardinality(Destroying') = destroying + 1
    BY <1>7, <1>9, <2>1
  <2>4. ~shutdown => pool + new = alive + destroying
    BY <2>1 DEF PoolSizeCounts
  <2>5. ~shutdown => pool + new = (alive - 1) + (destroying + 1)
    BY <2>4
  <2> QED
    BY <2>2, <2>3, <2>5 DEF PoolSizeCounts
<1> QED
  BY <1>2, <1>3, <1>5, <1>10

(* The unsigned count does not wrap: the handle it is taken down for counted. *)
LEMMA CountDownKeeps ==
    ASSUME PoolInv, NEW t \in Threads, CountDown(t), ~shutdown
    PROVE  PoolInv'
<1> USE DEF PoolInv
<1>1. Destroying' = Destroying \ {t} /\ t \in Destroying /\ Alive' = Alive
  BY DEF CountDown, PoolTyped, Destroying, Alive, Holders
<1>2. Cardinality(Destroying') = Cardinality(Destroying) - 1 /\ Cardinality(Destroying) > 0
  <2>1. IsFiniteSet(Destroying) /\ Cardinality(Destroying) \in Nat
    BY Finite
  <2>2. Cardinality(Destroying') = Cardinality(Destroying) - 1
    BY <1>1, <2>1, FS_RemoveElement
  <2>3. Cardinality(Destroying) # 0
    BY <1>1, <2>1, FS_EmptySet
  <2> QED
    BY <2>1, <2>2, <2>3
<1>3. poolSize > 0
  BY <1>2, Finite DEF CountDown, PoolTyped, LockHeld, PoolSizeCounts
<1>4. PoolTyped'
  BY <1>3 DEF CountDown, PoolTyped, Places
<1>5. HolderHolds' /\ HandlesExclusive'
  BY DEF CountDown, PoolTyped, HolderHolds, HandlesExclusive, Holders
<1>6. LockHeld'
  BY <1>3, PoolAssumption DEF CountDown, PoolTyped, LockHeld
<1>7. PoolSizeCounts'
  BY <1>1, <1>2, Finite DEF CountDown, PoolTyped, PoolSizeCounts
<1> QED
  BY <1>4, <1>5, <1>6, <1>7

LEMMA PoolChangeKeepsPool ==
    ASSUME PoolInv, NEW t \in Threads, PoolChange(t), ~shutdown
    PROVE  PoolInv'
  BY StartGrowingKeeps, AddHandleKeeps, FinishGrowingKeeps, AcquireKeeps, ReleaseKeeps,
     DestroyKeeps, CountDownKeeps DEF PoolChange

-----------------------------------------------------------------------------
(* The threads, the executor and main *)

ClientTyped ==
    /\ pc \in {"describing", "creating", "storage", "running", "submitting", "closing",
               "stopping", "joining", "awaiting", "draining", "exited", "quit", "crashed"}
    /\ sdk \in BOOLEAN
    /\ executor \in {"Free", "Locked", "Shutdown"}
    /\ threads \subseteq Puts
    /\ submitted \in 0 .. MaxPuts
    /\ retries \in [Threads -> 0 .. MaxRetries]
    /\ outcome \in [Threads -> Outcomes]
    /\ crashedIn \in {"nowhere", "running", "submitting", "closing", "stopping", "joining",
                      "awaiting", "draining"}

(* A thread that is under way is in the map, but for the one main is about to *)
(* enter.                                                                     *)
ThreadsKnown ==
    /\ \A p \in Puts : at[p] = "idle" <=> p > submitted
    /\ \A p \in Puts :
          at[p] \notin {"idle", "ended"} => p \in threads \/ (pc = "submitting" /\ p = submitted)
    /\ \A p \in Puts : at[p] = "idle" => retries[p] = 0

(* The lock of the executor is with main or with one thread that detaches.    *)
ExecutorHeld ==
    /\ pc = "submitting" => executor = "Locked" /\ submitted > 0
    /\ \A p \in Puts : at[p] = "detaching" =>
          /\ executor = "Locked" /\ pc # "submitting"
          /\ \A q \in Puts : at[q] = "detaching" => q = p
    /\ pc \in {"awaiting", "draining", "exited"} => executor = "Shutdown"
    /\ executor = "Shutdown" => pc \in {"awaiting", "draining", "exited", "crashed"}

(* Main's own requests end before its loop, and its pool last of all.         *)
Phases ==
    /\ at[Main] \notin {"idle", "detaching"}
    /\ pc \notin {"describing", "creating"} => at[Main] = "ended"
    /\ pc \in {"describing", "creating"} => submitted = 0
    /\ ~sdk => pc \in {"joining", "awaiting", "draining", "exited", "crashed"}
    /\ shutdown <=> pc \in {"draining", "exited"}
    /\ shutdown => threads = {}
    /\ pc = "draining" => Cardinality(resources) = poolSize
    /\ pc = "exited" => resources = {}

ClientInv == ClientTyped /\ ThreadsKnown /\ ExecutorHeld /\ Phases

IInv == PoolInv /\ ClientInv

LEMMA ThreadSet ==
    /\ Main \in Threads /\ Puts \subseteq Threads /\ Main \notin Puts
    /\ \A t \in Threads : t = Main \/ t \in Puts
    /\ MaxPuts \in Nat /\ MaxRetries \in Nat
  BY PutThreadsAssumption DEF Main, Puts

LEMMA InitIInv == Init => IInv
<1> SUFFICES ASSUME Init PROVE IInv
  OBVIOUS
<1>1. \A t \in Threads : at[t] \in {"new", "idle"} /\ held[t] = NoHandle
  BY DEF Init, PoolInit
<1>2. PoolTyped /\ HolderHolds /\ HandlesExclusive /\ LockHeld
  <2>1. PoolTyped
    BY PoolAssumption DEF Init, PoolInit, PoolTyped, Places
  <2>2. HolderHolds /\ HandlesExclusive
    BY <1>1 DEF HolderHolds, HandlesExclusive, Holders
  <2>3. LockHeld
    BY <1>1, PoolAssumption DEF Init, PoolInit, LockHeld
  <2> QED
    BY <2>1, <2>2, <2>3
<1>3. Alive = {} /\ Destroying = {}
  BY <1>1 DEF Init, PoolInit, Alive, Holders, Destroying
<1>4. PoolSizeCounts
  BY <1>3, FS_EmptySet DEF Init, PoolInit, PoolSizeCounts
<1>5. ClientTyped
  BY ThreadSet DEF Init, ClientTyped, Outcomes
<1>6. ThreadsKnown /\ ExecutorHeld /\ Phases
  <2>1. \A p \in Puts : at[p] = "idle" /\ p > 0 /\ retries[p] = 0
    BY ThreadSet DEF Init, Puts
  <2>2. at[Main] = "new"
    BY ThreadSet DEF Init
  <2> QED
    BY <2>1, <2>2 DEF Init, PoolInit, ThreadsKnown, ExecutorHeld, Phases
<1> QED
  BY <1>2, <1>4, <1>5, <1>6 DEF IInv, PoolInv, ClientInv

(* When the pool goes, no thread is left to use it. *)
LEMMA NobodyLeft ==
    ASSUME IInv, shutdown
    PROVE  \A t \in Threads : at[t] \in {"idle", "ended"}
  BY ThreadSet DEF IInv, ClientInv, ThreadsKnown, Phases

(* Nothing but a place under way is left or taken in a step that only the     *)
(* pool and the answer of a request are about.                                *)
Underway == InPool \cup {"new", "answered", "returned"}

BusyMove ==
    /\ \A t \in Threads : at'[t] = at[t] \/ (at[t] \in Underway /\ at'[t] \in Underway)
    /\ ~shutdown
    /\ retries' \in [Threads -> 0 .. MaxRetries] /\ outcome' \in [Threads -> Outcomes]
    /\ \A t \in Threads : at[t] = "idle" => retries'[t] = retries[t]
    /\ UNCHANGED << pc, sdk, executor, threads, submitted, crashedIn, shutdown >>

LEMMA BusyKeepsClient == IInv /\ BusyMove => ClientInv'
<1> SUFFICES ASSUME IInv, BusyMove PROVE ClientInv'
  OBVIOUS
<1> USE DEF IInv, ClientInv
<1>1. \A t \in Threads, place \in {"idle", "detaching", "ended"} : at'[t] = place <=> at[t] = place
  BY DEF BusyMove, Underway, InPool, Acquiring
<1>2. ClientTyped'
  BY DEF BusyMove, ClientTyped
<1>3. ThreadsKnown'
  BY <1>1, ThreadSet DEF BusyMove, ThreadsKnown
<1>4. ExecutorHeld'
  BY <1>1, ThreadSet DEF BusyMove, ExecutorHeld
<1>5. Phases'
  BY <1>1, ThreadSet DEF BusyMove, Phases
<1> QED
  BY <1>2, <1>3, <1>4, <1>5

(* Each step of a thread as the pool sees it. *)
LEMMA ThreadStepOfPool ==
    ASSUME IInv, NEW t \in Threads, ThreadStep(t) \/ Spurious(t)
    PROVE  ~shutdown /\ (PoolChange(t) \/ Quiet)
<1> USE DEF IInv, PoolInv
<1>1. PoolTyped
  OBVIOUS
<1>2. CASE PoolStep(t) \/ WakeSpuriously(t)
  <2>1. at[t] \notin {"idle", "ended"}
    BY <1>2 DEF PoolStep, Ask, StartGrowing, CannotGrow, AddHandle, TellAdded, FinishGrowing,
                Acquire, Wait, TellReleased, CountDown, WakeSpuriously, NotifyOne
  <2> QED
    BY <1>1, <1>2, <2>1, NobodyLeft, PoolStepKinds
<1>3. CASE CreateRequest(t)
  BY <1>1, <1>3, NobodyLeft, MoveIsQuiet DEF CreateRequest, Places, InPool, Acquiring
<1>4. CASE Crash(t)
  BY <1>1, <1>4, NobodyLeft, StayIsQuiet DEF Crash
<1>5. CASE Transfer(t)
  BY <1>5, NobodyLeft DEF Transfer, PoolChange, Release
<1>6. CASE TransferFails(t)
  BY <1>6, NobodyLeft DEF TransferFails, PoolChange, Destroy
<1>7. CASE Retry(t)
  BY <1>1, <1>7, NobodyLeft, MoveIsQuiet DEF Retry, Places
<1>8. CASE Return(t)
  BY <1>1, <1>8, NobodyLeft, MoveIsQuiet DEF Return, Places
<1>9. CASE TakeExecutor(t)
  BY <1>1, <1>9, NobodyLeft, MoveIsQuiet DEF TakeExecutor, Places
<1>10. CASE Detach(t)
  BY <1>1, <1>10, NobodyLeft, MoveIsQuiet DEF Detach, Places
<1>11. CASE LeaveToJoin(t)
  BY <1>1, <1>11, NobodyLeft, MoveIsQuiet DEF LeaveToJoin, Places
<1> QED
  BY <1>2, <1>3, <1>4, <1>5, <1>6, <1>7, <1>8, <1>9, <1>10, <1>11 DEF ThreadStep, Spurious

LEMMA ThreadKeepsPool ==
    ASSUME IInv, NEW t \in Threads, ThreadStep(t) \/ Spurious(t)
    PROVE  PoolInv'
  BY ThreadStepOfPool, PoolChangeKeepsPool, QuietKeepsPool DEF IInv

(* A request that is retried, or not, stays under way. *)
LEMMA BusySteps ==
    ASSUME IInv, NEW t \in Threads,
           \/ PoolStep(t) /\ UNCHANGED clientVars
           \/ WakeSpuriously(t) /\ UNCHANGED clientVars
           \/ CreateRequest(t) \/ Transfer(t) \/ TransferFails(t) \/ Retry(t) \/ Return(t)
    PROVE  BusyMove
<1> USE DEF IInv, PoolInv, ClientInv, PoolTyped, ClientTyped, Underway, InPool, Acquiring
<1>1. ~shutdown
  BY ThreadStepOfPool DEF ThreadStep, Spurious
<1>2. CASE (PoolStep(t) \/ WakeSpuriously(t)) /\ UNCHANGED clientVars
  <2>1. UNCHANGED << pc, sdk, executor, threads, submitted, crashedIn, retries, outcome, shutdown >>
    BY <1>2 DEF clientVars, PoolStep, Ask, StartGrowing, CannotGrow, AddHandle, TellAdded,
                FinishGrowing, Acquire, Wait, TellReleased, CountDown, WakeSpuriously, NotifyOne
  <2>2. CASE TellAdded(t) \/ TellReleased(t)
    <3>1. \A w \in Threads : at'[w] = at[w] \/ (at[w] \in Underway /\ at'[w] \in Underway)
      BY <2>2 DEF TellAdded, TellReleased, NotifyOne
    <3> QED
      BY <1>1, <2>1, <3>1 DEF BusyMove
  <2>3. CASE ~(TellAdded(t) \/ TellReleased(t))
    <3>1. PICK place \in Underway : at' = [at EXCEPT ![t] = place] /\ at[t] \in Underway
      BY <1>2, <2>3 DEF PoolStep, Ask, StartGrowing, CannotGrow, AddHandle, FinishGrowing,
                        Acquire, Wait, CountDown, WakeSpuriously
    <3>2. \A w \in Threads : at'[w] = at[w] \/ (at[w] \in Underway /\ at'[w] \in Underway)
      BY <3>1
    <3> QED
      BY <1>1, <2>1, <3>2 DEF BusyMove
  <2> QED
    BY <2>2, <2>3
<1>3. CASE CreateRequest(t)
  BY <1>1, <1>3 DEF CreateRequest, clientVars, BusyMove
<1>4. CASE Transfer(t)
  BY <1>1, <1>4 DEF Transfer, Release, BusyMove
<1>5. CASE TransferFails(t)
  <2>1. outcome' \in [Threads -> Outcomes]
    BY <1>5 DEF TransferFails, Outcomes, Retryable
  <2> QED
    BY <1>1, <1>5, <2>1 DEF TransferFails, Destroy, BusyMove
<1>6. CASE Retry(t)
  <2>1. retries' \in [Threads -> 0 .. MaxRetries]
    BY <1>6, ThreadSet DEF Retry, ShouldRetry
  <2> QED
    BY <1>1, <1>6, <2>1 DEF Retry, BusyMove
<1>7. CASE Return(t)
  BY <1>1, <1>7 DEF Return, clientVars, BusyMove
<1> QED
  BY <1>2, <1>3, <1>4, <1>5, <1>6, <1>7

(* What crashes is a put: main's requests end while the SDK is up.            *)
LEMMA CrashKeepsClient ==
    ASSUME IInv, Up, NEW t \in Threads, Crash(t)
    PROVE  ClientInv'
<1> USE DEF IInv, ClientInv
<1>1. ~shutdown
  BY ThreadStepOfPool DEF ThreadStep
<1>2. pc \in {"joining", "awaiting"}
  BY <1>1 DEF Crash, Up, Phases
<1>3. ClientTyped' /\ ThreadsKnown' /\ ExecutorHeld' /\ Phases'
  BY <1>1, <1>2 DEF Crash, poolVars, ClientTyped, ThreadsKnown, ExecutorHeld, Phases
<1> QED
  BY <1>3

(* "detaching" is the place of the holder of the lock, who is in the map.     *)
LEMMA ExecutorStepsKeepClient ==
    ASSUME IInv, NEW t \in Threads, TakeExecutor(t) \/ Detach(t) \/ LeaveToJoin(t)
    PROVE  ClientInv'
<1> USE DEF IInv, ClientInv, PoolInv, PoolTyped
<1>1. t \in Puts
  BY ThreadSet DEF TakeExecutor, Detach, LeaveToJoin, Phases
<1>2. ~shutdown
  BY ThreadStepOfPool DEF ThreadStep
<1>3. CASE TakeExecutor(t)
  <2>1. ClientTyped'
    BY <1>3 DEF TakeExecutor, ClientTyped
  <2>2. ThreadsKnown'
    BY <1>1, <1>3, ThreadSet DEF TakeExecutor, ThreadsKnown
  <2>3. ExecutorHeld'
    BY <1>1, <1>3, ThreadSet DEF TakeExecutor, ExecutorHeld
  <2>4. Phases'
    BY <1>1, <1>2, <1>3, ThreadSet DEF TakeExecutor, Phases
  <2> QED
    BY <2>1, <2>2, <2>3, <2>4
<1>4. CASE Detach(t)
  <2>1. ClientTyped'
    BY <1>4 DEF Detach, ClientTyped
  <2>2. ThreadsKnown'
    BY <1>1, <1>4, ThreadSet DEF Detach, ThreadsKnown
  <2>3. ExecutorHeld'
    BY <1>1, <1>4, ThreadSet DEF Detach, ExecutorHeld
  <2>4. Phases'
    BY <1>1, <1>2, <1>4, ThreadSet DEF Detach, Phases
  <2> QED
    BY <2>1, <2>2, <2>3, <2>4
<1>5. CASE LeaveToJoin(t)
  <2>1. ClientTyped'
    BY <1>5 DEF LeaveToJoin, clientVars, ClientTyped
  <2>2. ThreadsKnown'
    BY <1>1, <1>5, ThreadSet DEF LeaveToJoin, clientVars, ThreadsKnown
  <2>3. ExecutorHeld'
    BY <1>1, <1>5, ThreadSet DEF LeaveToJoin, clientVars, ExecutorHeld
  <2>4. Phases'
    BY <1>1, <1>2, <1>5, ThreadSet DEF LeaveToJoin, clientVars, Phases
  <2> QED
    BY <2>1, <2>2, <2>3, <2>4
<1> QED
  BY <1>3, <1>4, <1>5

LEMMA ThreadKeepsClient ==
    ASSUME IInv, Up, NEW t \in Threads, ThreadStep(t) \/ Spurious(t)
    PROVE  ClientInv'
  BY BusySteps, BusyKeepsClient, CrashKeepsClient, ExecutorStepsKeepClient
  DEF ThreadStep, Spurious

-----------------------------------------------------------------------------
(* The steps of main *)

(* Main's own requests are threads of the pool like any other. *)
LEMMA TableKeeps ==
    ASSUME IInv, TableAnswered \/ CreateTable \/ TableCreated
    PROVE  IInv'
<1> USE DEF IInv, PoolInv, ClientInv, PoolTyped
<1>1. at[Main] = "returned" /\ Main \in Threads /\ ~shutdown /\ sdk
  BY ThreadSet DEF TableAnswered, CreateTable, TableCreated, Phases
<1>2. PICK place \in {"ended", "new"} : at' = [at EXCEPT ![Main] = place]
  BY DEF TableAnswered, CreateTable, TableCreated
<1>3. Quiet
  BY <1>1, <1>2, MoveIsQuiet DEF TableAnswered, CreateTable, TableCreated, Places
<1>4. \A p \in Puts : at'[p] = at[p]
  BY <1>2, ThreadSet
<1>5. /\ pc \in {"describing", "creating"} /\ pc' \in {"storage", "quit", "creating"}
      /\ retries' \in [Threads -> 0 .. MaxRetries]
      /\ UNCHANGED << sdk, executor, threads, submitted, outcome, crashedIn >>
  <2>1. CASE TableAnswered \/ TableCreated
    BY <2>1 DEF TableAnswered, TableCreated, ClientTyped
  <2>2. CASE CreateTable
    <3>1. 0 \in 0 .. MaxRetries
      BY ThreadSet
    <3>2. retries' \in [Threads -> 0 .. MaxRetries]
      BY <2>2, <3>1 DEF CreateTable, ClientTyped
    <3> QED
      BY <2>2, <3>2 DEF CreateTable
  <2> QED
    BY <2>1, <2>2
<1>6. ClientTyped' /\ ThreadsKnown' /\ ExecutorHeld'
  <2>1. ClientTyped'
    BY <1>5 DEF ClientTyped
  <2>2. \A p \in Puts : retries'[p] = retries[p]
    BY ThreadSet DEF TableAnswered, CreateTable, TableCreated, ClientTyped
  <2>3. ThreadsKnown'
    BY <1>4, <1>5, <2>2 DEF ThreadsKnown
  <2>4. ExecutorHeld'
    BY <1>4, <1>5 DEF ExecutorHeld
  <2> QED
    BY <2>1, <2>3, <2>4
<1>7. Phases'
  <2>1. at'[Main] \in {"ended", "new"} /\ (pc' # "creating" => at'[Main] = "ended")
    BY <1>1 DEF TableAnswered, CreateTable, TableCreated
  <2>2. ~shutdown'
    BY <1>1 DEF TableAnswered, CreateTable, TableCreated
  <2> QED
    BY <1>1, <1>5, <2>1, <2>2 DEF Phases
<1> QED
  BY <1>3, <1>6, <1>7, QuietKeepsPool

LEMMA SubmitKeeps ==
    ASSUME IInv, Submit
    PROVE  IInv'
<1> USE DEF IInv, PoolInv, ClientInv, PoolTyped
<1> DEFINE p == submitted + 1
<1>1. p \in Puts /\ p \in Threads /\ p # Main /\ submitted \in Nat
  BY ThreadSet DEF Submit, ClientTyped, Puts, Main
<1>2. at[p] = "idle" /\ at' = [at EXCEPT ![p] = "new"]
  BY <1>1 DEF Submit, ThreadsKnown
<1>3. Quiet
  BY <1>1, <1>2, MoveIsQuiet DEF Submit, Places
<1>4. ClientTyped'
  BY <1>1, ThreadSet DEF Submit, ClientTyped, Puts
<1>5. ThreadsKnown'
  BY <1>1, <1>2, ThreadSet DEF Submit, ThreadsKnown, Puts
<1>6. ExecutorHeld'
  BY <1>1, <1>2, ThreadSet DEF Submit, ExecutorHeld
<1>7. Phases'
  BY <1>1, <1>2, ThreadSet DEF Submit, Phases
<1> QED
  BY <1>3, <1>4, <1>5, <1>6, <1>7, QuietKeepsPool

LEMMA SubmittedKeeps ==
    ASSUME IInv, Submitted
    PROVE  IInv'
<1> USE DEF IInv, PoolInv, ClientInv
<1>1. Quiet
  BY StayIsQuiet DEF Submitted
<1>2. submitted \in Puts /\ at' = at
  BY ThreadSet DEF Submitted, ClientTyped, ExecutorHeld, Puts, poolVars
<1>3. ClientTyped' /\ ThreadsKnown'
  BY <1>2 DEF Submitted, ClientTyped, ThreadsKnown
<1>4. ExecutorHeld' /\ Phases'
  BY <1>2 DEF Submitted, poolVars, ExecutorHeld, Phases
<1> QED
  BY <1>1, <1>3, <1>4, QuietKeepsPool

(* Steps of main that no thread notices. *)
LEMMA MainGoesKeeps ==
    ASSUME IInv,
           StartLoop \/ EndLoop \/ DestroyConsumer \/ ShutdownAPI \/ ShutDownExecutor \/ JoinThread
    PROVE  IInv'
<1> USE DEF IInv, PoolInv, ClientInv
<1> USE DEF StartLoop, EndLoop, DestroyConsumer, ShutdownAPI, ShutDownExecutor, JoinThread, MainGoes
<1>1. UNCHANGED poolVars
  OBVIOUS
<1>2. Quiet
  BY <1>1, StayIsQuiet
<1>3. ClientTyped'
  BY DEF ClientTyped
<1>4. ThreadsKnown'
  BY <1>1 DEF poolVars, ThreadsKnown
<1>5. ExecutorHeld'
  BY <1>1 DEF poolVars, ExecutorHeld
<1>6. Phases'
  BY <1>1 DEF poolVars, Phases
<1> QED
  BY <1>2, <1>3, <1>4, <1>5, <1>6, QuietKeepsPool

(* All threads have been joined: every handle is back, and counted. *)
LEMMA DestroyPoolKeeps ==
    ASSUME IInv, DestroyPool
    PROVE  IInv'
<1> USE DEF IInv, PoolInv, ClientInv
<1>1. \A t \in Threads : at[t] \in {"idle", "ended"}
  BY ThreadSet DEF DestroyPool, ThreadsKnown, Phases
<1>2. Holders = {} /\ Destroying = {} /\ containerLock = NoThread
  BY <1>1 DEF Holders, Destroying, HolderHolds, LockHeld, PoolTyped
<1>3. Alive = resources /\ added = 0 /\ ~shutdown
  BY <1>2 DEF Alive, LockHeld, DestroyPool, Phases
<1>4. Cardinality(resources) = poolSize
  BY <1>2, <1>3, Finite, FS_EmptySet DEF PoolSizeCounts, PoolTyped
<1>5. PoolInv'
  <2>1. PoolTyped' /\ HolderHolds' /\ HandlesExclusive' /\ LockHeld'
    BY DEF DestroyPool, ShutDown, PoolTyped, HolderHolds, HandlesExclusive, Holders, LockHeld
  <2> QED
    BY <2>1 DEF DestroyPool, ShutDown, PoolSizeCounts
<1>6. ClientTyped' /\ ThreadsKnown' /\ ExecutorHeld'
  BY DEF DestroyPool, ShutDown, ClientTyped, ThreadsKnown, ExecutorHeld
<1>7. Phases'
  BY <1>4 DEF DestroyPool, ShutDown, Phases
<1> QED
  BY <1>5, <1>6, <1>7

LEMMA PoolDrainedKeeps ==
    ASSUME IInv, PoolDrained
    PROVE  IInv'
<1> USE DEF IInv, PoolInv, ClientInv, PoolDrained, Drain
<1>1. PoolTyped' /\ HolderHolds' /\ HandlesExclusive' /\ LockHeld'
  BY DEF PoolTyped, HolderHolds, HandlesExclusive, Holders, LockHeld
<1>2. PoolSizeCounts'
  BY DEF PoolSizeCounts
<1>3. ClientTyped' /\ ThreadsKnown' /\ ExecutorHeld' /\ Phases'
  BY DEF ClientTyped, ThreadsKnown, ExecutorHeld, Phases
<1> QED
  BY <1>1, <1>2, <1>3

LEMMA NextIInv == IInv /\ [Next]_vars => IInv'
<1> SUFFICES ASSUME IInv, [Next]_vars PROVE IInv'
  OBVIOUS
<1>1. CASE Starts
  BY <1>1, TableKeeps, MainGoesKeeps DEF Starts
<1>2. CASE Submits
  BY <1>2, SubmitKeeps, SubmittedKeeps DEF Submits
<1>3. CASE EndLoop
  BY <1>3, MainGoesKeeps
<1>4. CASE Ends
  BY <1>4, MainGoesKeeps, DestroyPoolKeeps, PoolDrainedKeeps DEF Ends
<1>5. CASE Up /\ \E t \in Threads : ThreadStep(t) \/ Spurious(t)
  BY <1>5, ThreadKeepsPool, ThreadKeepsClient DEF IInv
<1>6. CASE UNCHANGED vars
  <2>1. PoolInv'
    BY <1>6, StayIsQuiet, QuietKeepsPool DEF vars, IInv, PoolInv
  <2>2. ClientInv'
    BY <1>6 DEF vars, poolVars, clientVars, IInv, ClientInv, ClientTyped, ThreadsKnown,
                ExecutorHeld, Phases
  <2> QED
    BY <2>1, <2>2 DEF IInv
<1> QED
  BY <1>1, <1>2, <1>3, <1>4, <1>5, <1>6 DEF Next, Ended

LEMMA AlwaysIInv == Spec => []IInv
  BY InitIInv, NextIInv, PTL DEF Spec

-----------------------------------------------------------------------------
(* The theorems *)

(* Every variable keeps its type, and the unsigned m_poolSize its range.      *)
THEOREM TypeCorrect == Spec => []TypeOK
<1>1. IInv => TypeOK
  <2> SUFFICES ASSUME IInv PROVE TypeOK
    OBVIOUS
  <2>1. poolSize \in 0 .. MaxPoolSize /\ toAdd \in 0 .. MaxPoolSize /\ added \in 0 .. MaxPoolSize
    BY PoolAssumption DEF IInv, PoolInv, PoolTyped, LockHeld
  <2> QED
    BY <2>1 DEF IInv, PoolInv, PoolTyped, ClientInv, ClientTyped, TypeOK
<1> QED
  BY <1>1, AlwaysIInv, PTL

(* A handle has one owner at a time, and m_poolSize is the number of handles  *)
(* but for what is being added or taken down.                                 *)
THEOREM HandlesCounted == Spec => [](HandlesExclusive /\ PoolSizeCounts)
<1>1. IInv => HandlesExclusive /\ PoolSizeCounts
  BY DEF IInv, PoolInv
<1> QED
  BY <1>1, AlwaysIInv, PTL

(* There are never more connections than maxConnections, whichever threads    *)
(* grow the pool, destroy their handles and count them in between.            *)
THEOREM ConnectionsBounded == Spec => []ConnectionsWithinMax
<1>1. IInv => ConnectionsWithinMax
  <2> SUFFICES ASSUME IInv PROVE ConnectionsWithinMax
    OBVIOUS
  <2> USE DEF IInv, PoolInv
  <2>1. poolSize + added <= MaxPoolSize /\ poolSize \in Nat /\ added \in Nat /\ MaxPoolSize \in Nat
    BY PoolAssumption DEF PoolTyped, LockHeld
  <2>2. CASE ~shutdown
    BY <2>1, <2>2, Finite DEF PoolSizeCounts, ConnectionsWithinMax
  <2>3. CASE shutdown
    <3>1. Holders = {}
      BY <2>3, NobodyLeft DEF Holders, HolderHolds
    <3>2. Alive = resources
      BY <3>1 DEF Alive
    <3>3. Cardinality(resources) \in {poolSize, 0}
      BY <2>3, FS_EmptySet DEF ClientInv, Phases
    <3> QED
      BY <2>1, <3>2, <3>3 DEF ConnectionsWithinMax
  <2> QED
    BY <2>2, <2>3
<1> QED
  BY <1>1, AlwaysIInv, PTL

(* A thread that detaches itself finds itself in the map of the executor,     *)
(* though it may be through before SubmitToThread is.                         *)
THEOREM DetachSafe == Spec => []DetachFindsThread
<1>1. IInv => DetachFindsThread
  BY DEF IInv, ClientInv, ThreadsKnown, ExecutorHeld, DetachFindsThread
<1> QED
  BY <1>1, AlwaysIInv, PTL

(* The pool is destroyed when every put has ended and every handle is back.   *)
THEOREM PoolOutlives == Spec => []PoolOutlivesThreads
<1>1. IInv => PoolOutlivesThreads
  <2> SUFFICES ASSUME IInv, shutdown
               PROVE  /\ \A p \in Puts : at[p] \in {"idle", "ended"}
                      /\ pc = "draining" => Cardinality(resources) = poolSize
    BY DEF PoolOutlivesThreads
  <2> QED
    BY NobodyLeft, ThreadSet DEF IInv, ClientInv, Phases
<1> QED
  BY <1>1, AlwaysIInv, PTL

-----------------------------------------------------------------------------
(* The puts implement those of CloudServices *)

Mapped == << MainAt, SdkUp, PutRecords, CrashedAt >>

LEMMA SameStutters == UNCHANGED Mapped => UNCHANGED Cloud!vars
  BY DEF Mapped, Cloud!vars

(* The record of each put that was submitted. *)
LEMMA RecordsOfPuts ==
    ASSUME IInv
    PROVE  /\ DOMAIN PutRecords = 1 .. submitted /\ Len(PutRecords) = submitted
           /\ 1 .. submitted \subseteq Puts
           /\ \A p \in 1 .. submitted :
                 PutRecords[p] = [state |-> PutState(p), retries |-> retries[p]]
  BY ThreadSet DEF IInv, ClientInv, ClientTyped, PutRecords, Puts

(* A put that is not idle has a record. *)
LEMMA RecordThere ==
    ASSUME IInv, NEW p \in Puts, at[p] # "idle"
    PROVE  p \in 1 .. submitted
  BY ThreadSet DEF IInv, ClientInv, ClientTyped, ThreadsKnown, Puts

(* Nothing happens to a put that stays where it is, in the eyes of            *)
(* CloudServices.                                                             *)
LEMMA RecordsStay ==
    ASSUME IInv, submitted' = submitted,
           \A p \in Puts : PutState(p)' = PutState(p) /\ retries'[p] = retries[p]
    PROVE  PutRecords' = PutRecords
  BY RecordsOfPuts DEF PutRecords

(* One put gets another record. *)
LEMMA OneRecord ==
    ASSUME IInv, submitted' = submitted, NEW c \in 1 .. submitted,
           \A p \in Puts \ {c} : PutState(p)' = PutState(p) /\ retries'[p] = retries[p]
    PROVE  PutRecords' =
              [PutRecords EXCEPT ![c] = [state |-> PutState(c)', retries |-> retries'[c]]]
  BY RecordsOfPuts DEF PutRecords

LEMMA MapInit == Init => Cloud!Init
<1> SUFFICES ASSUME Init PROVE Cloud!Init
  OBVIOUS
<1>1. PutRecords = << >>
  BY DEF Init, PutRecords
<1>2. MainAt = "logger" /\ ~SdkUp /\ CrashedAt = "nowhere"
  BY DEF Init, MainAt, SdkUp, CrashedAt
<1> QED
  BY <1>1, <1>2 DEF Cloud!Init

(* The pool is a matter of "sent" puts. *)
LEMMA PoolStutters ==
    ASSUME IInv, NEW t \in Threads,
           \/ (PoolStep(t) \/ WakeSpuriously(t)) /\ UNCHANGED clientVars
           \/ Transfer(t) \/ TransferFails(t)
    PROVE  UNCHANGED Mapped
<1> USE DEF IInv, PoolInv, PoolTyped, ClientInv, ClientTyped
<1>1. UNCHANGED << pc, sdk, crashedIn, submitted, retries >>
  BY DEF clientVars, Transfer, TransferFails
<1>2. \A p \in Puts : at'[p] = at[p] \/ (at[p] \in InPool /\ at'[p] \in InPool \cup {"answered"})
  BY ThreadSet
  DEF PoolStep, Ask, StartGrowing, CannotGrow, AddHandle, TellAdded, FinishGrowing, Acquire, Wait,
      TellReleased, CountDown, WakeSpuriously, NotifyOne, Transfer, TransferFails, Release, Destroy,
      InPool, Acquiring
<1>3. \A p \in Puts : at[p] \notin InPool => outcome'[p] = outcome[p]
  BY ThreadSet DEF clientVars, Transfer, TransferFails, Release, Destroy, InPool
<1>4. \A p \in Puts : PutState(p)' = PutState(p)
  BY <1>2, <1>3 DEF PutState, InPool, Acquiring
<1>5. PutRecords' = PutRecords
  BY <1>1, <1>4, RecordsStay
<1> QED
  BY <1>1, <1>5 DEF Mapped, MainAt, SdkUp, CrashedAt

(* A request of main is part of the construction of the logger. *)
LEMMA PutsAsBefore ==
    ASSUME IInv, NEW place, at' = [at EXCEPT ![Main] = place],
           UNCHANGED << submitted, outcome >>, \A p \in Puts : retries'[p] = retries[p]
    PROVE  PutRecords' = PutRecords
<1>1. \A p \in Puts : PutState(p)' = PutState(p)
  BY ThreadSet DEF IInv, PoolInv, PoolTyped, PutState
<1> QED
  BY <1>1, RecordsStay

LEMMA RequestMaps ==
    ASSUME IInv, Up, NEW t \in Threads, CreateRequest(t) \/ Retry(t) \/ Return(t)
    PROVE  Cloud!PutThreads \/ UNCHANGED Mapped
<1>1. /\ sdk /\ UNCHANGED << pc, sdk, crashedIn, submitted, outcome >>
      /\ at \in [Threads -> Places] /\ retries \in [Threads -> 0 .. MaxRetries]
      /\ \E place : at' = [at EXCEPT ![t] = place]
      /\ retries' \in {retries, [retries EXCEPT ![t] = @ + 1]}
  BY DEF CreateRequest, Retry, Return, clientVars, IInv, PoolInv, PoolTyped, ClientInv, ClientTyped
<1>2. UNCHANGED << MainAt, SdkUp, CrashedAt >>
  BY <1>1 DEF MainAt, SdkUp, CrashedAt
<1>3. CASE t = Main
  <2>1. \A p \in Puts : retries'[p] = retries[p]
    BY <1>1, <1>3, ThreadSet
  <2>2. PICK place : at' = [at EXCEPT ![Main] = place]
    BY <1>1, <1>3
  <2>3. PutRecords' = PutRecords
    BY <1>1, <2>1, <2>2, PutsAsBefore
  <2> QED
    BY <1>2, <2>3 DEF Mapped
<1>4. CASE t \in Puts
  <2>1. t \in 1 .. submitted /\ at[t] # "idle"
    BY <1>4, RecordThere DEF CreateRequest, Retry, Return
  <2>2. SdkUp /\ Cloud!Up
    BY <1>1, <2>1 DEF SdkUp, Cloud!Up, MainAt, Up, IInv, ClientInv, Phases
  <2>3. \A p \in Puts \ {t} : PutState(p)' = PutState(p) /\ retries'[p] = retries[p]
    BY <1>1, ThreadSet DEF PutState
  <2>4. PutRecords' =
           [PutRecords EXCEPT ![t] = [state |-> PutState(t)', retries |-> retries'[t]]]
    BY <1>1, <2>1, <2>3, OneRecord
  <2>5. /\ PutRecords[t] = [state |-> PutState(t), retries |-> retries[t]]
        /\ t \in DOMAIN PutRecords /\ retries[t] \in Nat
    BY <1>1, <2>1, ThreadSet, RecordsOfPuts
  <2>6. CASE CreateRequest(t)
    <3>1. PutState(t) = "submitted" /\ PutState(t)' = "sent" /\ retries' = retries
      BY <1>1, <2>6 DEF CreateRequest, clientVars, PutState, InPool, Acquiring
    <3>2. PutRecords' = [PutRecords EXCEPT ![t].state = "sent"]
      <4>1. [PutRecords[t] EXCEPT !.state = "sent"] = [state |-> "sent", retries |-> retries[t]]
        BY <2>5
      <4> QED
        BY <2>4, <3>1, <4>1
    <3>3. PutRecords[t].state = "submitted"
      BY <2>5, <3>1
    <3>4. Cloud!SendPut(t)
      BY <1>2, <2>2, <3>2, <3>3 DEF Cloud!SendPut, DbOnly
    <3> QED
      BY <2>5, <3>4 DEF Cloud!PutSteps, Cloud!PutThreads
  <2>7. CASE Retry(t)
    <3>1. /\ PutState(t) = "sent" /\ PutState(t)' = "submitted"
          /\ retries'[t] = retries[t] + 1 /\ retries[t] < MaxRetries
      BY <1>1, <2>7 DEF Retry, PutState, InPool, Acquiring, ShouldRetry
    <3>2. PutRecords' = [PutRecords EXCEPT ![t] = Cloud!Retried(@)]
      BY <2>4, <2>5, <3>1 DEF Cloud!Retried
    <3>3. PutRecords[t].state = "sent" /\ PutRecords[t].retries < MaxRetries
      BY <2>5, <3>1
    <3>4. Cloud!AnswerPut(t)
      BY <1>2, <2>2, <3>2, <3>3 DEF Cloud!AnswerPut, DbOnly
    <3> QED
      BY <2>5, <3>4 DEF Cloud!PutSteps, Cloud!PutThreads
  <2>8. CASE Return(t)
    <3>1. PutState(t) = "sent" /\ PutState(t)' \in {"written", "failed"} /\ retries' = retries
      BY <1>1, <2>8 DEF Return, clientVars, PutState, InPool, Acquiring
    <3>2. PutRecords' = [PutRecords EXCEPT ![t].state = PutState(t)']
      <4>1. [PutRecords[t] EXCEPT !.state = PutState(t)'] = [state |-> PutState(t)', retries |-> retries[t]]
        BY <2>5
      <4> QED
        BY <2>4, <3>1, <4>1
    <3>3. PutRecords[t].state = "sent"
      BY <2>5, <3>1
    <3>4. Cloud!AnswerPut(t)
      BY <1>2, <2>2, <3>1, <3>2, <3>3 DEF Cloud!AnswerPut, DbOnly
    <3> QED
      BY <2>5, <3>4 DEF Cloud!PutSteps, Cloud!PutThreads
  <2> QED
    BY <2>6, <2>7, <2>8
<1> QED
  BY <1>3, <1>4, ThreadSet

LEMMA CrashMaps ==
    ASSUME IInv, Up, NEW t \in Threads, Crash(t)
    PROVE  Cloud!PutThreads
<1>1. t \in Puts /\ pc \in {"joining", "awaiting", "draining"} /\ at[t] \in {"new", "answered"}
  BY ThreadSet DEF Crash, Up, IInv, ClientInv, Phases
<1>2. t \in 1 .. submitted
  BY <1>1, RecordThere
<1>3. PutRecords[t].state \in {"submitted", "sent"} /\ t \in DOMAIN PutRecords
  BY <1>1, <1>2, RecordsOfPuts DEF PutState
<1>4. /\ MainAt = "joining" /\ MainAt' = "crashed" /\ CrashedAt' = "joining"
      /\ SdkUp = FALSE /\ SdkUp' = FALSE
  BY <1>1 DEF Crash, MainAt, CrashedAt, SdkUp
<1>5. PutRecords' = PutRecords
  BY RecordsStay DEF Crash, poolVars, PutState
<1>6. Cloud!PutCrashes(t)
  BY <1>3, <1>4, <1>5 DEF Cloud!PutCrashes, Cloud!Up, DbOnly
<1> QED
  BY <1>3, <1>6 DEF Cloud!PutSteps, Cloud!PutThreads

(* How a thread leaves the executor makes no difference to its put. *)
LEMMA ExecutorStutters ==
    ASSUME IInv, NEW t \in Threads, TakeExecutor(t) \/ Detach(t) \/ LeaveToJoin(t)
    PROVE  UNCHANGED Mapped
<1>1. /\ UNCHANGED << pc, sdk, submitted, retries, outcome, crashedIn >>
      /\ at[t] \in {"returned", "detaching"}
      /\ at' = [at EXCEPT ![t] = "detaching"] \/ at' = [at EXCEPT ![t] = "ended"]
  BY DEF TakeExecutor, Detach, LeaveToJoin, clientVars
<1>2. \A p \in Puts : PutState(p)' = PutState(p)
  BY <1>1, ThreadSet DEF IInv, PoolInv, PoolTyped, PutState, InPool, Acquiring
<1>3. PutRecords' = PutRecords
  BY <1>1, <1>2, RecordsStay
<1> QED
  BY <1>1, <1>3 DEF Mapped, MainAt, SdkUp, CrashedAt

LEMMA ThreadMaps ==
    ASSUME IInv, Up, NEW t \in Threads, ThreadStep(t) \/ Spurious(t)
    PROVE  Cloud!PutThreads \/ UNCHANGED Mapped
  BY PoolStutters, RequestMaps, CrashMaps, ExecutorStutters DEF ThreadStep, Spurious

(* The table is asked for, and perhaps created, in one step of CloudServices. *)
LEMMA TableMaps ==
    ASSUME IInv, TableAnswered \/ CreateTable \/ TableCreated
    PROVE  Cloud!MakeLogger \/ UNCHANGED Mapped
<1>1. /\ pc \in {"describing", "creating"} /\ sdk
      /\ UNCHANGED << sdk, submitted, outcome, crashedIn >>
      /\ \E place : at' = [at EXCEPT ![Main] = place]
      /\ \A p \in Puts : retries'[p] = retries[p]
  BY ThreadSet DEF TableAnswered, CreateTable, TableCreated, IInv, ClientInv, Phases, ClientTyped
<1>2. PutRecords' = PutRecords
  BY <1>1, PutsAsBefore
<1>3. CASE CreateTable
  BY <1>1, <1>2, <1>3 DEF CreateTable, Mapped, MainAt, SdkUp, CrashedAt
<1>4. CASE TableAnswered \/ TableCreated
  <2>1. /\ MainAt = "logger" /\ MainAt' \in {"storage", "quit"} /\ SdkUp'
        /\ CrashedAt' = CrashedAt
    BY <1>1, <1>4 DEF TableAnswered, TableCreated, MainAt, SdkUp, CrashedAt
  <2> QED
    BY <1>2, <2>1 DEF Cloud!MakeLogger, Cloud!ExitEarly, DbOnly
<1> QED
  BY <1>3, <1>4

LEMMA AppendOfFunction ==
    ASSUME NEW S, NEW n \in Nat, NEW f \in [1 .. n -> S], NEW e \in S
    PROVE  Append(f, e) = [q \in 1 .. n + 1 |-> IF q = n + 1 THEN e ELSE f[q]]
<1> DEFINE g == [q \in 1 .. n + 1 |-> IF q = n + 1 THEN e ELSE f[q]]
<1>1. f \in Seq(S) /\ Len(f) = n
  OBVIOUS
<1>2. g \in Seq(S) /\ Len(g) = n + 1
  OBVIOUS
<1>3. /\ Append(f, e) \in Seq(S) /\ Len(Append(f, e)) = n + 1
      /\ \A q \in 1 .. n : Append(f, e)[q] = f[q]
      /\ Append(f, e)[n + 1] = e
  BY <1>1, AppendProperties
<1>4. \A q \in 1 .. n + 1 : g[q] = Append(f, e)[q]
  BY <1>3
<1> HIDE DEF g
<1> QED
  BY <1>2, <1>3, <1>4, SeqEqual DEF g

LEMMA SubmitMaps ==
    ASSUME IInv, Submit
    PROVE  Cloud!LogCall
<1> PICK p : p = submitted + 1
  OBVIOUS
<1>1. p \in Puts /\ submitted \in Nat /\ submitted < MaxPuts
  BY ThreadSet DEF Submit, Puts, IInv, ClientInv, ClientTyped
<1>2. /\ at' = [at EXCEPT ![p] = "new"] /\ at \in [Threads -> Places]
      /\ submitted' = p /\ UNCHANGED << retries, outcome, sdk, crashedIn >>
      /\ pc = "running" /\ pc' = "submitting"
  BY DEF Submit, IInv, PoolInv, PoolTyped
<1>3. retries[p] = 0
  BY <1>1 DEF IInv, ClientInv, ThreadsKnown
<1>4. PutState(p)' = "submitted"
  <2>1. at'[p] = "new"
    BY <1>1, <1>2, ThreadSet
  <2> QED
    BY <2>1 DEF PutState, InPool, Acquiring
<1>5. \A q \in 1 .. submitted : PutState(q)' = PutState(q)
  BY <1>1, <1>2, ThreadSet DEF PutState, Puts
<1>6. PutRecords' = Append(PutRecords, [state |-> "submitted", retries |-> 0])
  <2>1. PutRecords' =
           [q \in 1 .. p |-> IF q = p THEN [state |-> "submitted", retries |-> 0] ELSE PutRecords[q]]
    <3>1. p \notin 1 .. submitted /\ \A q \in 1 .. p : q = p \/ q \in 1 .. submitted
      BY <1>1
    <3>2. \A q \in 1 .. submitted :
             [state |-> PutState(q)', retries |-> retries'[q]] = PutRecords[q]
      BY <1>2, <1>5, RecordsOfPuts
    <3>3. [state |-> PutState(p)', retries |-> retries'[p]] = [state |-> "submitted", retries |-> 0]
      BY <1>2, <1>3, <1>4
    <3>4. PutRecords' = [q \in 1 .. p |-> [state |-> PutState(q)', retries |-> retries'[q]]]
      BY <1>2 DEF PutRecords
    <3> QED
      BY <3>1, <3>2, <3>3, <3>4
  <2>2. PutRecords \in [1 .. submitted -> Cloud!Put]
    BY ThreadSet, RecordsOfPuts DEF PutRecords, PutState, Cloud!Put, IInv, ClientInv, ClientTyped
  <2>3. [state |-> "submitted", retries |-> 0] \in Cloud!Put
    BY ThreadSet DEF Cloud!Put
  <2> QED
    BY <1>1, <2>1, <2>2, <2>3, AppendOfFunction
<1>7. Len(PutRecords) = submitted
  BY RecordsOfPuts
<1>8. MainAt = "running" /\ UNCHANGED << MainAt, SdkUp, CrashedAt >>
  BY <1>2 DEF MainAt, SdkUp, CrashedAt
<1> QED
  BY <1>1, <1>6, <1>7, <1>8 DEF Cloud!LogCall, DbOnly

(* What moves only main, or is no matter of CloudServices. *)
LEMMA MainMaps ==
    ASSUME IInv,
           \/ Submitted \/ StartLoop \/ EndLoop \/ DestroyConsumer \/ ShutdownAPI
           \/ ShutDownExecutor \/ JoinThread \/ DestroyPool
    PROVE  Cloud!Main \/ UNCHANGED Mapped
<1>1. UNCHANGED << at, submitted, retries, outcome, crashedIn >>
  BY DEF Submitted, StartLoop, EndLoop, DestroyConsumer, ShutdownAPI, ShutDownExecutor,
         JoinThread, DestroyPool, MainGoes, ShutDown, poolVars
<1>2. UNCHANGED << PutRecords, CrashedAt >>
  BY <1>1 DEF PutRecords, PutState, CrashedAt
<1>3. CASE Submitted \/ ShutDownExecutor \/ JoinThread \/ DestroyPool
  BY <1>2, <1>3
  DEF Submitted, ShutDownExecutor, JoinThread, DestroyPool, ShutDown, Mapped, MainAt, SdkUp
<1>4. CASE StartLoop
  <2>1. MainAt = "storage" /\ MainAt' = "running" /\ SdkUp' = SdkUp
    BY <1>4 DEF StartLoop, MainGoes, MainAt, SdkUp
  <2> QED
    BY <1>2, <2>1 DEF Cloud!MakeNullStorage, Cloud!Main, DbOnly
<1>5. CASE EndLoop
  <2>1. MainAt = "running" /\ MainAt' = "closing" /\ SdkUp' = SdkUp
    BY <1>5 DEF EndLoop, MainGoes, MainAt, SdkUp
  <2> QED
    BY <1>2, <2>1 DEF Cloud!EndLoop, Cloud!Main, DbOnly
<1>6. CASE DestroyConsumer
  <2>1. MainAt = "closing" /\ MainAt' = "stopping" /\ SdkUp' = SdkUp
    BY <1>6 DEF DestroyConsumer, MainGoes, MainAt, SdkUp
  <2> QED
    BY <1>2, <2>1 DEF Cloud!CloseWithoutStore, Cloud!Stores, Cloud!Main, DbOnly
<1>7. CASE ShutdownAPI
  <2>1. MainAt = "stopping" /\ MainAt' = "joining" /\ SdkUp' = FALSE
    BY <1>7 DEF ShutdownAPI, MainGoes, MainAt, SdkUp
  <2> QED
    BY <1>2, <2>1 DEF Cloud!DestroyLogger, Cloud!Main, DbOnly
<1> QED
  BY <1>3, <1>4, <1>5, <1>6, <1>7

(* The pool drains when all threads have been joined: their puts are settled. *)
LEMMA PoolDrainedMaps ==
    ASSUME IInv, PoolDrained
    PROVE  Cloud!Main
<1>1. MainAt = "joining" /\ MainAt' = "exited" /\ SdkUp' = SdkUp
  BY DEF PoolDrained, MainAt, SdkUp
<1>2. UNCHANGED << PutRecords, CrashedAt >>
  BY DEF PoolDrained, Drain, PutRecords, PutState, CrashedAt
<1>3. \A p \in 1 .. submitted : at[p] = "ended"
  BY NobodyLeft, ThreadSet, RecordsOfPuts
  DEF PoolDrained, IInv, ClientInv, ThreadsKnown, ClientTyped, Phases
<1>4. \A p \in DOMAIN PutRecords : Cloud!Settled(PutRecords[p])
  BY <1>3, RecordsOfPuts DEF Cloud!Settled, PutState, InPool, Acquiring
<1> QED
  BY <1>1, <1>2, <1>4 DEF Cloud!JoinPuts, Cloud!Main, DbOnly

LEMMA NextMaps == IInv /\ [Next]_vars => [Cloud!Next]_(Cloud!vars)
<1> SUFFICES ASSUME IInv, [Next]_vars PROVE Cloud!Next \/ UNCHANGED Cloud!vars
  OBVIOUS
<1>1. CASE Starts
  BY <1>1, TableMaps, MainMaps, SameStutters DEF Starts, Cloud!Next, Cloud!Main
<1>2. CASE Submits
  BY <1>2, SubmitMaps, MainMaps, SameStutters DEF Submits, Cloud!Next
<1>3. CASE EndLoop
  BY <1>3, MainMaps, SameStutters DEF Cloud!Next
<1>4. CASE Ends
  BY <1>4, MainMaps, PoolDrainedMaps, SameStutters DEF Ends, Cloud!Next
<1>5. CASE Up /\ \E t \in Threads : ThreadStep(t) \/ Spurious(t)
  BY <1>5, ThreadMaps, SameStutters DEF Cloud!Next
<1>6. CASE UNCHANGED vars
  <2>1. UNCHANGED Mapped
    BY <1>6 DEF vars, poolVars, clientVars, Mapped, MainAt, SdkUp, PutRecords, PutState, CrashedAt
  <2> QED
    BY <2>1, SameStutters
<1> QED
  BY <1>1, <1>2, <1>3, <1>4, <1>5, <1>6 DEF Next, Ended

(* A thread for each put, on a pool of connections, with an executor that     *)
(* joins what is left of them, does what CloudServices says of the puts: none *)
(* is forgotten, answered twice or under way when main has joined them.       *)
THEOREM PutsImplementCloud == Spec => ImplementsCloudServices
  BY MapInit, NextMaps, AlwaysIInv, PTL DEF Spec, ImplementsCloudServices, Cloud!Spec
=============================================================================
