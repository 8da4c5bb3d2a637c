------------------------------- MODULE DDGen -------------------------------
(***************************************************************************)
(* The simulation loop of DDGen (main in src/ddgen.cpp) with the calls it  *)
(* creates, steps and erases, the steady clock it reads, the nanosleep it  *)
(* waits in, and the signals that may arrive between any two of its steps. *)
(*                                                                         *)
(* One pass of the loop is  create -> clock -> (stepping | sleep) -> check.*)
(* Stepping visits the vector of calls one element at a time and erases    *)
(* the calls that have timed out while it iterates: the body of the for    *)
(* loop is one step and its ++it another, so that what the iterator is in  *)
(* between is a state.                                                     *)
(*                                                                         *)
(* Time is in the unit of Step and Second; the clock advances on its own,  *)
(* so any delay may fall between two steps of the loop.  What the loop     *)
(* makes of a duration is truncated to the microsecond or millisecond.     *)
(***************************************************************************)
EXTENDS Call, SequencesExt

CONSTANTS
    Step,                \* the tick of the loop: Step(20), 20000 us
    Millisecond,         \* std::chrono::milliseconds(1)
    Microsecond,         \* std::chrono::microseconds(1)
    NumberOfCalls,       \* --nc
    CallDuration,        \* --dc, in seconds
    SimulationDuration,  \* --ds, in seconds
    StartIp,             \* --start
    ShouldStart,         \* FALSE under --webConfig
    InitialRtp,          \* the random rtp values a new leg may draw
    MaxLag,              \* bound: how late, beyond Step, a pass may read the clock
    MaxHups              \* bound: how many SIGHUPs arrive

(* The duration of a call is drawn uniformly between 75% and 125% of --dc. *)
ShortestCall  == (3 * CallDuration) \div 4
LongestCall   == (5 * CallDuration) \div 4
CallDurations == ShortestCall .. LongestCall

ASSUME DDGenAssumption ==
    /\ Step \in Nat \ {0}
    /\ Second % Step = 0             \* 1000 % 20
    /\ Second % PacketDuration = 0   \* 1000 % 20
    /\ Millisecond \in Nat \ {0}
    /\ Microsecond \in Nat \ {0}
    /\ Second % Millisecond = 0
    /\ NumberOfCalls \in Nat
    /\ CallDuration \in Nat
    /\ LongestCall < ShortRange      \* the distribution is over unsigned short
    /\ SimulationDuration \in Nat
    /\ StartIp \in Address
    /\ ShouldStart \in BOOLEAN
    /\ InitialRtp \subseteq Rtp
    /\ MaxLag \in Nat \ {0}
    /\ MaxHups \in Nat

VARIABLES
    pc,            \* where the loop is
    calls,         \* call_ptr_vector
    it,            \* the iterator over call_ptr_vector, as an index
    advancing,     \* the body of the for loop has run and its ++it is next
    ipPool,        \* the factory's next address
    now,           \* the steady clock, counted from start_time
    currentTime,   \* current_time, the reading of this pass
    lastTime,      \* last_time, the reading of the last pass that stepped
    sleepLeft,     \* what nanosleep is asked to sleep
    wake,          \* when the nanosleep in progress is over
    shallStop,     \* SignalHandler::_shallStop
    shallConfigurationUpdate,   \* SignalHandler::_shallConfigurationUpdate
    hups,          \* history: SIGHUPs received
    created,       \* history: calls created
    ticks,         \* history: passes that stepped the calls
    lateTicks      \* history: ... and began after the time or the order to stop

itVars     == << it, advancing >>
clockVars  == << now >>
passVars   == << currentTime, lastTime >>
sleepVars  == << sleepLeft, wake >>
signalVars == << shallStop, shallConfigurationUpdate, hups >>
tallyVars  == << ticks, lateTicks >>
vars == << pc, calls, itVars, ipPool, created, clockVars, passVars,
           sleepVars, signalVars, tallyVars >>

(* duration_cast<std::chrono::microseconds>, back in the unit of time. *)
InMicroseconds(t) == t - (t % Microsecond)

(* unsigned simulationDuration = program_options.simulationDuration * 1000 *)
SimulationMs == (SimulationDuration * (Second \div Millisecond)) % UintRange

(* Seeded fault: over as soon as the last millisecond begins. *)
TimeIsNearlyOver(t) == t \div Millisecond >= SimulationMs

(* duration_cast<std::chrono::milliseconds> of it is past the simulation time. *)
TimeIsOver(t) == t \div Millisecond > SimulationMs

(* "serial", "born", "createdAt", "duration" and "logged" are history: which *)
(* call it is, the tick and the time it was created at, the duration drawn   *)
(* for it, and what Call::Log recorded of it.                                *)
NewCall(duration, legs) ==
    [remaining |-> duration * Second,
     legs      |-> legs,
     serial    |-> created,
     born      |-> ticks,
     createdAt |-> now,
     duration  |-> duration,
     logged    |-> [duration |-> duration * Second,
                    streams  |-> [k \in DOMAIN legs |-> StreamParameters(legs[k])]]]

Init ==
    /\ pc = "create"
    /\ calls = << >>
    /\ it = 1
    /\ advancing = FALSE
    /\ ipPool = StartIp
    /\ now = 0
    /\ currentTime = 0
    /\ lastTime = 0
    /\ sleepLeft = 0
    /\ wake = 0
    /\ shallStop = FALSE
    /\ shallConfigurationUpdate = FALSE
    /\ hups = 0
    /\ created = 0
    /\ ticks = 0
    /\ lateTicks = 0

-----------------------------------------------------------------------------
(* The loop *)

(* Seeded fault: one call too many. *)
HasRoomForOneMore == ShouldStart /\ Len(calls) <= NumberOfCalls

HasRoom == ShouldStart /\ Len(calls) < NumberOfCalls

(* At most one call is created in a pass. *)
CreateCall ==
    /\ pc = "create"
    /\ HasRoom
    /\ \E duration \in CallDurations, rtp \in [LegIndices -> InitialRtp] :
          calls' = Append(calls, NewCall(duration, NewLegs(ipPool, rtp)))
    /\ ipPool' = PoolAdvance(ipPool, AddressesPerCall)
    /\ created' = created + 1
    /\ pc' = "clock"
    /\ UNCHANGED << itVars, clockVars, passVars, sleepVars, signalVars, tallyVars >>

SkipCreate ==
    /\ pc = "create"
    /\ ~HasRoom
    /\ pc' = "clock"
    /\ UNCHANGED << calls, itVars, ipPool, created, clockVars, passVars, sleepVars,
                    signalVars, tallyVars >>

(* More than Step since the last tick: the calls step. *)
StartTick ==
    /\ pc = "clock"
    /\ InMicroseconds(now - lastTime) > Step
    /\ currentTime' = now
    /\ it' = 1
    /\ ticks' = ticks + 1
    /\ lateTicks' = IF shallStop \/ TimeIsOver(now) THEN lateTicks + 1 ELSE lateTicks
    /\ pc' = "stepping"
    /\ UNCHANGED << calls, advancing, ipPool, created, lastTime, clockVars,
                    sleepVars, signalVars >>

(* Otherwise the loop sleeps for the rest of the tick. *)
StartSleep ==
    /\ pc = "clock"
    /\ InMicroseconds(now - lastTime) <= Step
    /\ currentTime' = now
    /\ sleepLeft' = Step - InMicroseconds(now - lastTime)
    /\ pc' = "sleep"
    /\ UNCHANGED << calls, itVars, ipPool, created, lastTime, wake, clockVars,
                    signalVars, tallyVars >>

StepCall ==
    /\ pc = "stepping"
    /\ ~advancing
    /\ it <= Len(calls)
    /\ StillHasTime(calls[it], Step)
    /\ calls' = [calls EXCEPT ![it] = CallStep(calls[it], Step)]
    /\ advancing' = TRUE
    /\ UNCHANGED << pc, it, ipPool, created, clockVars, passVars, sleepVars,
                    signalVars, tallyVars >>

(* Seeded fault: nothing is erased. *)
NotErased(v, i) == v

(* vector::erase *)
Erased(v, i) == RemoveAt(v, i)

(* Seeded fault: erase without --it. *)
NotSteppedBack(i) == i

(* --it.  For the first call of the vector this is the element before         *)
(* begin(), which is no iterator of the vector.                               *)
SteppedBack(i) == i - 1

(* The last, possibly shorter, step of a call; the call is destroyed with it. *)
(* erase(it) returns the place of the call behind the one that went, and the  *)
(* loop steps back from there.                                                *)
EraseTimedOutCall ==
    /\ pc = "stepping"
    /\ ~advancing
    /\ it <= Len(calls)
    /\ ~StillHasTime(calls[it], Step)
    /\ calls' = Erased(calls, it)
    /\ it' = SteppedBack(it)
    /\ advancing' = TRUE
    /\ UNCHANGED << pc, ipPool, created, clockVars, passVars, sleepVars,
                    signalVars, tallyVars >>

(* ++it *)
Advance ==
    /\ pc = "stepping"
    /\ advancing
    /\ it' = it + 1
    /\ advancing' = FALSE
    /\ UNCHANGED << pc, calls, ipPool, created, clockVars, passVars, sleepVars,
                    signalVars, tallyVars >>

(* Seeded fault: ticks are owed for the time lost to lag. *)
NextTickDue == lastTime + Step

(* Time lost to lag is forgotten. *)
TickTime == currentTime

FinishTick ==
    /\ pc = "stepping"
    /\ ~advancing
    /\ it > Len(calls)
    /\ lastTime' = TickTime
    /\ it' = 1
    /\ pc' = "check"
    /\ UNCHANGED << calls, advancing, ipPool, created, currentTime, clockVars,
                    sleepVars, signalVars, tallyVars >>

(* SleepSystemUsec: nanosleep is called again with what was left of the sleep *)
(* each time a signal has interrupted it (see InterruptSleep).                *)
Nanosleep ==
    /\ pc = "sleep"
    /\ wake' = now + sleepLeft
    /\ sleepLeft' = 0
    /\ pc' = "sleeping"
    /\ UNCHANGED << calls, itVars, ipPool, created, clockVars, passVars, signalVars,
                    tallyVars >>

NanosleepReturns ==
    /\ pc = "sleeping"
    /\ now >= wake
    /\ wake' = 0
    /\ pc' = "check"
    /\ UNCHANGED << calls, itVars, ipPool, created, sleepLeft, clockVars, passVars,
                    signalVars, tallyVars >>

(* Seeded fault: the stop flag is not looked at. *)
MustQuitOnTime == TimeIsOver(currentTime)

MustQuit == TimeIsOver(currentTime) \/ shallStop

NextPass ==
    /\ pc = "check"
    /\ ~MustQuit
    /\ pc' = "create"
    /\ UNCHANGED << calls, itVars, ipPool, created, clockVars, passVars, sleepVars, signalVars,
                    tallyVars >>

(* break and return 0: the vector is destroyed with every call still in it. *)
Quit ==
    /\ pc = "check"
    /\ MustQuit
    /\ calls' = << >>
    /\ it' = 1
    /\ pc' = "exited"
    /\ UNCHANGED << advancing, ipPool, created, clockVars, passVars, sleepVars, signalVars,
                    tallyVars >>

-----------------------------------------------------------------------------
(* The environment: the clock, and signals between any two steps of the loop *)

(* The clock may always run to the end of a nanosleep, and MaxLag further.   *)
ClockAdvances ==
    /\ pc # "exited"
    /\ now < wake \/ now - currentTime < Step + MaxLag
    /\ now' = now + 1
    /\ UNCHANGED << pc, calls, itVars, ipPool, created, passVars, sleepVars, signalVars,
                    tallyVars >>

(* Seeded fault: an interrupted sleep is over. *)
AbandonSleep ==
    /\ pc = "sleeping"
    /\ now < wake
    /\ wake' = 0
    /\ pc' = "check"
    /\ UNCHANGED sleepLeft

(* EINTR: nanosleep hands back the time that was left. *)
InterruptSleep ==
    /\ pc = "sleeping"
    /\ now < wake
    /\ sleepLeft' = wake - now
    /\ wake' = 0
    /\ pc' = "sleep"

(* A handler runs.  nanosleep is interrupted if the signal is delivered to    *)
(* the thread of the loop; the web interface has a thread too.                *)
Delivered ==
    /\ pc # "exited"
    /\ InterruptSleep \/ UNCHANGED << pc, sleepVars >>
    /\ UNCHANGED << calls, itVars, ipPool, created, clockVars, passVars, tallyVars >>

Sigterm ==
    /\ ~shallStop
    /\ shallStop' = TRUE
    /\ Delivered
    /\ UNCHANGED << shallConfigurationUpdate, hups >>

Sighup ==
    /\ hups < MaxHups
    /\ hups' = hups + 1
    /\ shallConfigurationUpdate' = TRUE
    /\ Delivered
    /\ UNCHANGED shallStop

Exited == pc = "exited" /\ UNCHANGED vars

-----------------------------------------------------------------------------
Loop ==
    \/ CreateCall \/ SkipCreate
    \/ StartTick \/ StepCall \/ EraseTimedOutCall \/ Advance \/ FinishTick
    \/ StartSleep \/ Nanosleep \/ NanosleepReturns
    \/ NextPass \/ Quit

Next == Loop \/ ClockAdvances \/ Sigterm \/ Sighup \/ Exited

Spec == Init /\ [][Next]_vars

(* The loop's thread is scheduled and the clock does not stand still.  No     *)
(* signal is ever owed.                                                       *)
FairSpec == Spec /\ WF_vars(Loop) /\ WF_vars(ClockAdvances)

-----------------------------------------------------------------------------
(* Type correctness *)

CallRecord == [remaining : Nat, legs : Seq(Leg), serial : Nat, born : Nat, createdAt : Nat,
               duration : CallDurations, logged : [duration : Nat, streams : Seq(Stream)]]

(* Every variable keeps its type and the vector its capacity.  Wherever the   *)
(* loop compares, steps or erases at its iterator, the iterator is in         *)
(* begin() to end(), and ++it never starts from end(); it leaves that range   *)
(* in one place, between the --it and the ++it that follow the erasure of the *)
(* first call (ddgen.cpp:94-95 and 90).                                       *)
TypeOK ==
    /\ pc \in {"create", "clock", "stepping", "sleep", "sleeping", "check", "exited"}
    /\ calls \in Seq(CallRecord)
    /\ Len(calls) <= NumberOfCalls
    /\ it \in 0 .. NumberOfCalls + 1
    /\ advancing \in BOOLEAN
    /\ IF advancing THEN it <= Len(calls) ELSE it \in 1 .. Len(calls) + 1
    /\ pc # "stepping" => it = 1 /\ ~advancing
    /\ ipPool \in Address
    /\ now \in Nat
    /\ currentTime \in 0 .. now
    /\ lastTime \in 0 .. currentTime
    /\ sleepLeft \in 0 .. Step
    /\ wake \in 0 .. now + Step
    /\ shallStop \in BOOLEAN
    /\ shallConfigurationUpdate \in BOOLEAN
    /\ hups \in 0 .. MaxHups
    /\ created \in Nat
    /\ ticks \in Nat
    /\ lateTicks \in 0 .. ticks

-----------------------------------------------------------------------------
(* Safety *)

LiveCalls == {calls[i] : i \in DOMAIN calls}

(* The media time a call has used up. *)
Played(call) == call.duration * Second - call.remaining

(* The next call a tick steps: the one at the iterator, or behind it when its *)
(* ++it is due.                                                               *)
NextToStep == IF advancing THEN it + 1 ELSE it

(* Ticks the call at index i has taken part in: those begun since it was      *)
(* created, but for the one in progress if it is still to reach the call.     *)
TicksTaken(i) ==
    ticks - calls[i].born - (IF pc = "stepping" /\ i >= NextToStep THEN 1 ELSE 0)

(* Every call in the vector steps exactly once in every tick of its life,     *)
(* whichever others the tick erases while it iterates (ddgen.cpp:90-97).      *)
SteppedOncePerTick == \A i \in DOMAIN calls : Played(calls[i]) = Step * TicksTaken(i)

(* Erasing keeps the calls in the order they were created in, so no call is   *)
(* in the vector twice.                                                       *)
CreationOrder ==
    \A i, j \in DOMAIN calls : i < j => calls[i].serial < calls[j].serial

(* No audio is lost or made up: what a leg has sent, with what it has         *)
(* accumulated towards the next packet, is the time its call has played       *)
(* (callleg.cpp:91-138 and 161-176).                                          *)
MediaConserved ==
    \A call \in LiveCalls : \A k \in DOMAIN call.legs :
        /\ call.legs[k].sent * PacketDuration + call.legs[k].accumulated = Played(call)
        /\ call.legs[k].accumulated < PacketDuration

(* A call never runs ahead of real time by more than the tick it may be       *)
(* granted in the very pass that creates it; time lost to lag is not caught   *)
(* up by faster ticks (ddgen.cpp:89 and 99).                                  *)
NotAheadOfClock ==
    \A call \in LiveCalls : Played(call) <= (now - call.createdAt) + Step

(* Two legs alive at the same time never share a flow (addresses and ports),  *)
(* even after the unsigned address pool of the factory has wrapped.           *)
FlowsDistinct ==
    \A i, j \in DOMAIN calls :
        \A k \in DOMAIN calls[i].legs, l \in DOMAIN calls[j].legs :
            calls[i].legs[k].flow = calls[j].legs[l].flow => i = j /\ k = l

(* The legs of a call stay at least IdOffset apart, either way round the      *)
(* 16-bit ipv4 id space, so that the legs that share a source address use     *)
(* the same id only IdOffset packets apart (callleg.cpp:217, 253 and 136).    *)
IdsApart ==
    \A call \in LiveCalls : \A k, l \in DOMAIN call.legs :
        k # l => (call.legs[k].id - call.legs[l].id) % ShortRange >= IdOffset

(* What Call::Log recorded of a stream when the call was created locates each *)
(* of its later packets: sequence number and timestamp are the logged ones    *)
(* moved on by the packets sent, each modulo its width.                       *)
LogLocatesStream ==
    \A call \in LiveCalls : \A k \in DOMAIN call.legs :
        LET leg == call.legs[k]
            log == call.logged.streams[k]
        IN  /\ leg.seq = (log.seq + leg.sent) % ShortRange
            /\ leg.timestamp = (log.timestamp + PacketSize * leg.sent) % UintRange

(* At most one tick begins after SIGTERM has been handled or the simulation   *)
(* time is over (ddgen.cpp:105-114).                                          *)
StopsWithinATick == lateTicks <= 1

(* Without SIGTERM the loop does not end before the seconds of --ds are over. *)
NotCutShort == pc = "exited" /\ ~shallStop => now > SimulationDuration * Second

-----------------------------------------------------------------------------
(* What a step may never do *)

(* The calls the loop drops other than by ending. *)
Dropped == {call \in LiveCalls : \A i \in DOMAIN calls' : calls'[i].serial # call.serial}

(* A call times out no sooner, by the clock the loop reads, than its duration *)
(* after its creation: the step for no time that precedes its end makes up    *)
(* for the tick it may get at once.                                           *)
NeverEndsEarly ==
    [][pc' # "exited" => \A call \in Dropped :
            currentTime - call.createdAt >= call.duration * Second]_vars

(* A call that times out has sent its whole duration on every leg.            *)
EndsComplete ==
    [][pc' # "exited" => \A call \in Dropped : \A k \in DOMAIN call.legs :
            LegStep(call.legs[k], StepGranted(call, Step)).sent * PacketDuration
                = call.duration * Second]_vars

(* Signals do not cut a sleep short: the loop leaves it only when a tick has  *)
(* passed since last_time (ddgen.cpp:18-34 and 101).                          *)
SleepsToTheTick ==
    [][(pc \in {"sleep", "sleeping"} /\ pc' = "check") => now - lastTime >= Step]_vars

-----------------------------------------------------------------------------
(* Liveness *)

(* The program ends, whatever the lag, the signals and the interrupted sleeps. *)
SimulationEnds == <>(pc = "exited")
=============================================================================
