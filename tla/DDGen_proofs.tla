---------------------------- MODULE DDGen_proofs ----------------------------
(***************************************************************************)
(* Proofs about the simulation loop of DDGen, for every value of its       *)
(* constants that satisfies CallAssumption and DDGenAssumption.  After     *)
(* what is needed of arithmetic, of calls and of the vector:               *)
(*   - the types, and the order of the vector;                             *)
(*   - each call steps once in each tick;                                  *)
(*   - the calls, the sleeps and the end of the loop against the clock;    *)
(*   - what the legs have sent, and where that leaves their counters;      *)
(*   - the ids and the flows of legs that are on at the same time;         *)
(*   - the loop implements TrafficPool.                                    *)
(***************************************************************************)
EXTENDS DDGenRefinement, SequenceTheorems, FiniteSetTheorems, TLAPS

-----------------------------------------------------------------------------
(* Quotients and remainders *)

(* Euclid's division, for a positive divisor. *)
LEMMA Division ==
    ASSUME NEW x \in Int, NEW d \in Int, d > 0
    PROVE  x = d * (x \div d) + (x % d)
  BY Z3

(* Dividing by a packet's duration leaves less than a packet's duration. *)
LEMMA DivisionRemainder ==
    ASSUME NEW x \in Nat, NEW d \in Nat \ {0}
    PROVE  /\ x \div d \in Nat
           /\ x - (x \div d) * d \in 0 .. d - 1
<1>1. x % d \in 0 .. d - 1 /\ x \div d \in Int
  BY Z3
<1>2. x = d * (x \div d) + (x % d)
  BY Division
<1>3. ASSUME NEW q \in Int, NEW r \in 0 .. d - 1, x = d * q + r
      PROVE  q >= 0 /\ x - q * d = r
  BY <1>3, Z3
<1> QED
  BY <1>1, <1>2, <1>3

(* A multiple of d that is neither negative nor as large as d is zero. *)
LEMMA SmallMultiple ==
    ASSUME NEW d \in Int, d > 0, NEW q \in Int, 0 <= d * q, d * q < d
    PROVE  d * q = 0
<1>1. CASE q >= 1
  <2>1. d * q >= d
    BY <1>1
  <2> QED
    BY <2>1
<1>2. CASE q <= -1
  <2>1. d * q < 0
    BY <1>2
  <2> QED
    BY <2>1
<1>3. CASE q = 0
  BY <1>3
<1> QED
  BY <1>1, <1>2, <1>3

(* What is reduced modulo a width fits in it. *)
LEMMA ModuloType ==
    ASSUME NEW x \in Int, NEW d \in Nat \ {0}
    PROVE  x % d \in 0 .. d - 1
  BY Z3

-----------------------------------------------------------------------------
(* Counters that wrap around *)

(* A remainder is the only one. *)
LEMMA ModuloUnique ==
    ASSUME NEW d \in Nat \ {0}, NEW q \in Int, NEW r \in 0 .. d - 1, NEW x \in Int, x = d * q + r
    PROVE  x % d = r
<1> DEFINE p == x \div d
           s == x % d
<1>1. s \in 0 .. d - 1
  BY ModuloType
<1>2. p \in Int /\ x = d * p + s
  BY Division
<1> HIDE DEF p, s
<1>3. d * (q - p) = s - r /\ d * (p - q) = r - s
  <2>1. d * (q - p) = d * q - d * p /\ d * (p - q) = d * p - d * q
    BY <1>2
  <2>2. d * q \in Int /\ d * p \in Int
    BY <1>2
  <2> QED
    BY <1>1, <1>2, <2>1, <2>2
<1>4. CASE s >= r
  <2>1. 0 <= d * (q - p) /\ d * (q - p) < d
    BY <1>1, <1>3, <1>4
  <2>2. d * (q - p) = 0
    BY <1>2, <2>1, SmallMultiple
  <2> QED
    BY <1>1, <1>3, <2>2 DEF s
<1>5. CASE s < r
  <2>1. 0 <= d * (p - q) /\ d * (p - q) < d
    BY <1>1, <1>3, <1>5
  <2>2. d * (p - q) = 0
    BY <1>2, <2>1, SmallMultiple
  <2> QED
    BY <1>1, <1>3, <2>2 DEF s
<1> QED
  BY <1>1, <1>4, <1>5

(* What already fits a width is left as it is. *)
LEMMA ModuloSmall ==
    ASSUME NEW d \in Nat \ {0}, NEW x \in 0 .. d - 1
    PROVE  x % d = x
<1>1. x \in Int /\ x = d * 0 + x
  OBVIOUS
<1> QED
  BY <1>1, ModuloUnique

(* Whole turns around the width do not count. *)
LEMMA ModuloTurns ==
    ASSUME NEW d \in Nat \ {0}, NEW x \in Int, NEW q \in Int
    PROVE  (x + d * q) % d = x % d
<1> DEFINE p == x \div d
           s == x % d
<1>1. s \in 0 .. d - 1
  BY ModuloType
<1>2. p \in Int /\ x = d * p + s
  BY Division
<1> HIDE DEF p, s
<1>3. x + d * q = d * (p + q) + s
  <2>1. d * (p + q) = d * p + d * q
    BY <1>2
  <2>2. d * q \in Int /\ d * p \in Int
    BY <1>2
  <2> QED
    BY <1>1, <1>2, <2>1, <2>2
<1>4. x + d * q \in Int /\ p + q \in Int
  <2>1. d * q \in Int
    OBVIOUS
  <2> QED
    BY <1>2, <2>1
<1>5. (x + d * q) % d = s
  <2>1. PICK y \in Int, m \in Int : y = x + d * q /\ m = p + q
    BY <1>4
  <2>2. y = d * m + s
    BY <1>3, <2>1
  <2>3. y % d = s
    BY <1>1, <2>2, ModuloUnique
  <2> QED
    BY <2>1, <2>3
<1> QED
  BY <1>5 DEF s

(* A counter that has wrapped counts on as if it had not. *)
LEMMA ModuloAdd ==
    ASSUME NEW d \in Nat \ {0}, NEW x \in Int, NEW n \in Int
    PROVE  ((x % d) + n) % d = (x + n) % d
<1> DEFINE p == x \div d
           s == x % d
<1>1. s \in Int /\ p \in Int /\ x = d * p + s
  BY ModuloType, Division
<1> HIDE DEF p, s
<1>2. x + n = (s + n) + d * p
  <2>1. d * p \in Int
    BY <1>1
  <2> QED
    BY <1>1, <2>1
<1>3. (x + n) % d = (s + n) % d
  <2>1. PICK y \in Int : y = s + n
    BY <1>1
  <2>2. (y + d * p) % d = y % d
    BY <1>1, ModuloTurns
  <2> QED
    BY <1>2, <2>1, <2>2
<1> QED
  BY <1>3 DEF s

(* Two counters that have wrapped are as far apart as if they had not. *)
LEMMA ModuloDifference ==
    ASSUME NEW d \in Nat \ {0}, NEW x \in Int, NEW y \in Int
    PROVE  ((x % d) - (y % d)) % d = (x - y) % d
<1> DEFINE p == y \div d
           s == y % d
<1>1. s \in Int /\ p \in Int /\ y = d * p + s /\ x % d \in Int
  BY ModuloType, Division
<1> HIDE DEF p, s
<1>2. (x % d) - s = (x % d) + (-s) /\ x - y = (x + (-s)) + d * (-p)
  <2>1. d * (-p) = -(d * p) /\ d * p \in Int
    BY <1>1
  <2> QED
    BY <1>1, <2>1
<1>3. ((x % d) + (-s)) % d = (x + (-s)) % d
  <2>1. PICK n \in Int : n = -s
    BY <1>1
  <2>2. ((x % d) + n) % d = (x + n) % d
    BY ModuloAdd
  <2> QED
    BY <2>1, <2>2
<1>4. ((x + (-s)) + d * (-p)) % d = (x + (-s)) % d
  <2>1. PICK z \in Int, m \in Int : z = x + (-s) /\ m = -p
    BY <1>1
  <2>2. (z + d * m) % d = z % d
    BY ModuloTurns
  <2> QED
    BY <2>1, <2>2
<1>5. ((x % d) - s) % d = (x - y) % d
  BY <1>2, <1>3, <1>4
<1> QED
  BY <1>5 DEF s

(* Counters less than a turn apart have different values. *)
LEMMA ModuloDistinct ==
    ASSUME NEW d \in Nat \ {0}, NEW x \in Int, NEW y \in Int, 0 < y - x, y - x < d
    PROVE  x % d # y % d
<1>1. SUFFICES ASSUME x % d = y % d PROVE FALSE
  OBVIOUS
<1>2. y % d \in Int /\ (y % d) - (x % d) = 0
  BY <1>1, ModuloType
<1>3. 0 % d = 0
  <2>1. 0 \in 0 .. d - 1
    OBVIOUS
  <2> QED
    BY <2>1, ModuloSmall
<1>4. ((y % d) - (x % d)) % d = (y - x) % d
  BY ModuloDifference
<1>5. (y - x) % d = y - x
  <2>1. y - x \in 0 .. d - 1
    OBVIOUS
  <2> QED
    BY <2>1, ModuloSmall
<1> QED
  BY <1>2, <1>3, <1>4, <1>5

-----------------------------------------------------------------------------
(* Calls and their legs *)

(* The packet loop of a leg ends with less than a packet's time left over. *)
LEMMA PacketsDueBounds ==
    ASSUME NEW leg \in Leg, NEW step \in Nat
    PROVE  /\ PacketsDue(leg, step) \in Nat
           /\ (leg.accumulated + step) - PacketsDue(leg, step) * PacketDuration
                  \in 0 .. PacketDuration - 1
<1> DEFINE time == leg.accumulated + step
<1>1. time \in Nat
  BY DEF Leg
<1>2. PacketDuration \in Nat \ {0}
  BY CallAssumption
<1>3. PacketsDue(leg, step) = time \div PacketDuration
  BY DEF PacketsDue
<1> HIDE DEF time
<1>4. /\ time \div PacketDuration \in Nat
      /\ time - (time \div PacketDuration) * PacketDuration \in 0 .. PacketDuration - 1
  BY <1>1, <1>2, DivisionRemainder
<1>5. /\ PacketsDue(leg, step) \in Nat
      /\ time - PacketsDue(leg, step) * PacketDuration \in 0 .. PacketDuration - 1
  BY <1>3, <1>4, Zenon
<1> QED
  BY <1>5 DEF time

(* A leg stays a leg when it steps. *)
LEMMA LegStepType ==
    ASSUME NEW leg \in Leg, NEW step \in Nat
    PROVE  LegStep(leg, step) \in Leg
<1> DEFINE n == PacketsDue(leg, step)
<1>1. n \in Nat /\ (leg.accumulated + step) - n * PacketDuration \in Nat
  <2>1. \A x : x \in 0 .. PacketDuration - 1 => x \in Nat
    BY CallAssumption
  <2> QED
    BY <2>1, PacketsDueBounds
<1>2. TimestampAdvance(n) \in Nat
  BY <1>1, CallAssumption DEF TimestampAdvance
<1>3. /\ leg.seq + n \in Int
      /\ leg.id + n \in Int
      /\ leg.timestamp + TimestampAdvance(n) \in Int
      /\ leg.sent + n \in Nat
  BY <1>1, <1>2 DEF Leg, Short, Uint
<1>4. /\ (leg.seq + n) % ShortRange \in Short
      /\ (leg.id + n) % ShortRange \in Short
      /\ (leg.timestamp + TimestampAdvance(n)) % UintRange \in Uint
  BY <1>3, ModuloType, CallAssumption DEF Short, Uint
<1> HIDE DEF n
<1> QED
  BY <1>1, <1>3, <1>4 DEF LegStep, Leg, n

(* A call stays a call when it steps, with what it had left to play or less. *)
LEMMA CallStepType ==
    ASSUME NEW call \in CallRecord
    PROVE  CallStep(call, Step) \in CallRecord
<1> DEFINE granted == StepGranted(call, Step)
<1>1. granted \in Nat /\ call.remaining - granted \in Nat
  BY DDGenAssumption DEF StepGranted, CallRecord
<1>2. call.legs \in Seq(Leg)
  BY DEF CallRecord
<1>3. [k \in DOMAIN call.legs |-> LegStep(call.legs[k], granted)] \in Seq(Leg)
  BY <1>1, <1>2, LegStepType
<1> QED
  BY <1>1, <1>3 DEF CallStep, CallRecord

-----------------------------------------------------------------------------
(* New calls *)

(* The durations drawn are natural numbers. *)
LEMMA CallDurationsType == CallDurations \subseteq Nat
  BY DDGenAssumption DEF CallDurations, ShortestCall, LongestCall

(* A call has at least one leg. *)
LEMMA LegCountType == LegCount \in Nat \ {0}
<1>1. Traffic = "DrLink" => Len(Destinations) \in Nat \ {0}
  BY CallAssumption, EmptySeq, LenProperties
<1> QED
  BY <1>1 DEF LegCount

(* The legs a factory builds are legs. *)
LEMMA NewLegsType ==
    ASSUME NEW pool \in Address, NEW rtp \in [LegIndices -> InitialRtp]
    PROVE  NewLegs(pool, rtp) \in Seq(Leg)
<1>1. LegCount \in Nat \ {0}
  BY LegCountType
<1>2. PoolAdvance(pool, 1) \in Nat
  BY CallAssumption DEF PoolAdvance, Address
<1>3. ASSUME NEW k \in LegIndices PROVE NewFlows(pool)[k] \in Flow
  <2>1. CASE Traffic = "DrLink"
    <3>1. k \in 1 .. Len(Destinations)
      BY <2>1 DEF LegIndices, LegCount
    <3>2. Destinations[k] \in [ip : Nat, port : Nat]
      <4>1. Destinations \in Seq([ip : Nat, port : Nat])
        BY CallAssumption
      <4> QED
        BY <3>1, <4>1, ElementOfSeq
    <3>3. (BasePort + 2 * (k - 1)) % ShortRange \in Nat
      BY <3>1, CallAssumption
    <3> QED
      BY <2>1, <3>1, <3>2, <3>3 DEF NewFlows, DRLinkFlows, Flow, Address
  <2>2. CASE Traffic # "DrLink"
    <3>1. k \in {1, 2}
      BY <2>2 DEF LegIndices, LegCount
    <3> QED
      BY <2>2, <3>1, <1>2, CallAssumption DEF NewFlows, MirrorFlows, Flow, Address
  <2> QED
    BY <2>1, <2>2
<1>4. IdOffset \in Nat
  BY <1>1, CallAssumption DEF IdOffset
<1>5. ASSUME NEW k \in LegIndices PROVE FirstId(k) \in Short
  <2>1. (k - 1) * IdOffset \in Nat
    BY <1>1, <1>4 DEF LegIndices
  <2> QED
    BY <2>1, CallAssumption DEF FirstId, Short
<1>6. ASSUME NEW k \in LegIndices PROVE rtp[k] \in Rtp
  BY DDGenAssumption
<1>7. ASSUME NEW k \in LegIndices
      PROVE  NewLeg(NewFlows(pool)[k], FirstId(k), rtp[k]) \in Leg
  BY <1>3, <1>5, <1>6 DEF NewLeg, Leg, Rtp
<1> QED
  BY <1>1, <1>7 DEF NewLegs, LegIndices

(* A new call is a call record. *)
LEMMA NewCallType ==
    ASSUME TypeOK,
           NEW duration \in CallDurations,
           NEW rtp \in [LegIndices -> InitialRtp]
    PROVE  NewCall(duration, NewLegs(ipPool, rtp)) \in CallRecord
<1> DEFINE legs == NewLegs(ipPool, rtp)
<1>1. legs \in Seq(Leg)
  BY NewLegsType DEF TypeOK
<1>2. duration * Second \in Nat
  BY CallDurationsType, CallAssumption
<1> HIDE DEF legs
<1>3. [k \in DOMAIN legs |-> StreamParameters(legs[k])] \in Seq(Stream)
  <2>1. \A k \in DOMAIN legs : legs[k] \in Leg
    BY <1>1
  <2>2. \A k \in DOMAIN legs : StreamParameters(legs[k]) \in Stream
    BY <2>1 DEF StreamParameters, Stream, Leg
  <2> QED
    BY <1>1, <2>2
<1>4. NewCall(duration, legs) \in CallRecord
  BY <1>1, <1>2, <1>3 DEF NewCall, CallRecord, TypeOK
<1> QED
  BY <1>4 DEF legs

-----------------------------------------------------------------------------
(* The vector of calls *)

(* Erasing one element shifts those behind it and keeps the rest. *)
LEMMA ErasedProperties ==
    ASSUME NEW S, NEW v \in Seq(S), NEW i \in 1 .. Len(v)
    PROVE  /\ Erased(v, i) \in Seq(S)
           /\ Len(Erased(v, i)) = Len(v) - 1
           /\ \A j \in 1 .. Len(v) - 1 :
                 Erased(v, i)[j] = IF j < i THEN v[j] ELSE v[j + 1]
<1> DEFINE before == SubSeq(v, 1, i - 1)
           after  == SubSeq(v, i + 1, Len(v))
<1>1. /\ before \in Seq(S)
      /\ Len(before) = i - 1
      /\ \A j \in 1 .. i - 1 : before[j] = v[j]
  BY SubSeqProperties
<1>2. /\ after \in Seq(S)
      /\ Len(after) = Len(v) - i
      /\ \A j \in 1 .. Len(v) - i : after[j] = v[i + j]
  BY SubSeqProperties
<1> HIDE DEF before, after
<1>3. /\ before \o after \in Seq(S)
      /\ Len(before \o after) = Len(v) - 1
      /\ \A j \in 1 .. Len(v) - 1 :
            (before \o after)[j] = IF j < i THEN v[j] ELSE v[j + 1]
  <2>1. /\ before \o after \in Seq(S)
        /\ Len(before \o after) = Len(before) + Len(after)
        /\ \A j \in 1 .. Len(before) + Len(after) :
              (before \o after)[j] = IF j <= Len(before) THEN before[j]
                                                        ELSE after[j - Len(before)]
    BY <1>1, <1>2, ConcatProperties
  <2>2. ASSUME NEW j \in 1 .. Len(v) - 1, j >= i
        PROVE  after[j - (i - 1)] = v[j + 1]
    <3>1. j - (i - 1) \in 1 .. Len(v) - i
      BY <2>2
    <3>2. after[j - (i - 1)] = v[i + (j - (i - 1))]
      BY <1>2, <3>1
    <3> QED
      BY <3>2
  <2>3. Len(before \o after) = Len(v) - 1
    BY <1>1, <1>2, <2>1
  <2>4. ASSUME NEW j \in 1 .. Len(v) - 1
        PROVE  (before \o after)[j] = IF j < i THEN v[j] ELSE v[j + 1]
    <3>1. j \in 1 .. Len(before) + Len(after)
      BY <1>1, <1>2
    <3>2. (before \o after)[j] = IF j <= i - 1 THEN before[j] ELSE after[j - (i - 1)]
      BY <1>1, <2>1, <3>1
    <3>3. CASE j < i
      BY <1>1, <3>2, <3>3
    <3>4. CASE ~(j < i)
      BY <2>2, <3>2, <3>4
    <3> QED
      BY <3>3, <3>4
  <2> QED
    BY <2>1, <2>3, <2>4
<1> QED
  BY <1>3 DEF Erased, RemoveAt, before, after

-----------------------------------------------------------------------------
(* Type correctness *)

(* Truncating to the microsecond makes no duration longer. *)
LEMMA InMicrosecondsBounds ==
    ASSUME NEW t \in Nat
    PROVE  InMicroseconds(t) \in Nat /\ InMicroseconds(t) <= t
<1> DEFINE q == t \div Microsecond
           r == t % Microsecond
<1>1. Microsecond \in Nat \ {0}
  BY DDGenAssumption
<1>2. r \in 0 .. Microsecond - 1 /\ q \in Nat /\ t = Microsecond * q + r
  <2>1. t \in Int /\ Microsecond \in Int /\ Microsecond > 0
    BY <1>1
  <2>2. r \in 0 .. Microsecond - 1
    BY <1>1, <2>1, ModuloType
  <2>3. q \in Nat
    BY <1>1, DivisionRemainder
  <2>4. t = Microsecond * q + r
    BY <2>1, Division
  <2> QED
    BY <2>2, <2>3, <2>4
<1> HIDE DEF q, r
<1>3. Microsecond * q \in Nat
  BY <1>1, <1>2
<1>4. t - r \in Nat /\ t - r <= t
  BY <1>1, <1>2, <1>3
<1> QED
  BY <1>4 DEF InMicroseconds, r

(* The loop starts in a state of the right type. *)
LEMMA InitType == Init => TypeOK
<1> SUFFICES ASSUME Init PROVE TypeOK
  OBVIOUS
<1>1. calls \in Seq(CallRecord) /\ Len(calls) = 0
  BY EmptySeq DEF Init
<1>2. /\ Len(calls) <= NumberOfCalls
      /\ it \in 0 .. NumberOfCalls + 1
      /\ it \in 1 .. Len(calls) + 1
      /\ sleepLeft \in 0 .. Step
      /\ wake \in 0 .. now + Step
      /\ hups \in 0 .. MaxHups
  BY <1>1, DDGenAssumption DEF Init
<1>3. /\ ipPool \in Address
      /\ now \in Nat
      /\ currentTime \in 0 .. now
      /\ lastTime \in 0 .. currentTime
        /\ created \in Nat
      /\ ticks \in Nat
      /\ lateTicks \in 0 .. ticks
  BY DDGenAssumption DEF Init
<1>4. /\ advancing \in BOOLEAN /\ ~advancing
      /\ pc \in {"create", "clock", "stepping", "sleep", "sleeping", "check", "exited"}
      /\ pc # "stepping" => it = 1 /\ ~advancing
      /\ shallStop \in BOOLEAN
      /\ shallConfigurationUpdate \in BOOLEAN
  BY DEF Init
<1> QED
  BY <1>1, <1>2, <1>3, <1>4, Zenon DEF TypeOK

(* No step of the loop, the clock or a signal leaves the type. *)
LEMMA NextType == TypeOK /\ [Next]_vars => TypeOK'
<1> SUFFICES ASSUME TypeOK, [Next]_vars PROVE TypeOK'
  OBVIOUS
<1> USE DDGenAssumption DEF TypeOK, itVars, clockVars, passVars, sleepVars, signalVars, tallyVars
<1>1. CASE CreateCall
  <2>1. PICK duration \in CallDurations, rtp \in [LegIndices -> InitialRtp] :
           calls' = Append(calls, NewCall(duration, NewLegs(ipPool, rtp)))
    BY <1>1 DEF CreateCall
  <2>2. calls' \in Seq(CallRecord) /\ Len(calls') = Len(calls) + 1
    BY <2>1, NewCallType
  <2>3. Len(calls') <= NumberOfCalls
    BY <1>1, <2>2 DEF CreateCall, HasRoom
  <2>4. ipPool' \in Address
    <3>1. ipPool + AddressesPerCall \in Int
      BY DEF AddressesPerCall, Address
    <3> QED
      BY <1>1, <3>1, ModuloType, CallAssumption DEF CreateCall, PoolAdvance, Address
  <2> QED
    BY <1>1, <2>2, <2>3, <2>4 DEF CreateCall
<1>2. CASE SkipCreate
  BY <1>2 DEF SkipCreate
<1>3. CASE StartTick
  BY <1>3 DEF StartTick
<1>4. CASE StepCall
  <2>1. it \in DOMAIN calls /\ calls[it] \in CallRecord
    BY <1>4 DEF StepCall
  <2>2. CallStep(calls[it], Step) \in CallRecord
    BY <2>1, CallStepType
  <2>3. calls' \in Seq(CallRecord) /\ Len(calls') = Len(calls)
    BY <1>4, <2>1, <2>2 DEF StepCall
  <2> QED
    BY <1>4, <2>3 DEF StepCall
<1>5. CASE EraseTimedOutCall
  <2>1. it \in 1 .. Len(calls)
    BY <1>5 DEF EraseTimedOutCall
  <2>2. calls' \in Seq(CallRecord) /\ Len(calls') = Len(calls) - 1
    BY <1>5, <2>1, ErasedProperties DEF EraseTimedOutCall
  <2> QED
    BY <1>5, <2>1, <2>2 DEF EraseTimedOutCall, SteppedBack
<1>6. CASE FinishTick
  BY <1>6 DEF FinishTick, TickTime
<1>7. CASE StartSleep
  <2>1. now - lastTime \in Nat
    BY DEF TypeOK
  <2>2. InMicroseconds(now - lastTime) \in Nat
    BY <2>1, InMicrosecondsBounds
  <2>3. sleepLeft' \in 0 .. Step
    BY <1>7, <2>2 DEF StartSleep
  <2> QED
    BY <1>7, <2>3 DEF StartSleep
<1>8. CASE Nanosleep
  BY <1>8 DEF Nanosleep
<1>9. CASE NanosleepReturns
  BY <1>9 DEF NanosleepReturns
<1>10. CASE NextPass
  BY <1>10 DEF NextPass
<1>11. CASE Quit
  BY <1>11 DEF Quit
<1>12. CASE ClockAdvances
  BY <1>12 DEF ClockAdvances
<1>13. CASE Sigterm
  BY <1>13 DEF Sigterm, Delivered, InterruptSleep
<1>14. CASE Sighup
  BY <1>14 DEF Sighup, Delivered, InterruptSleep
<1>15. CASE UNCHANGED vars
  BY <1>15 DEF vars
<1>16. CASE Advance
  <2>1. it \in Nat /\ it <= Len(calls) /\ Len(calls) \in Nat
    BY <1>16 DEF Advance
  <2>2. it' \in 1 .. Len(calls) + 1 /\ it' \in 0 .. NumberOfCalls + 1
    BY <1>16, <2>1 DEF Advance
  <2> QED
    BY <1>16, <2>2 DEF Advance
<1> QED
  BY <1>1, <1>2, <1>3, <1>4, <1>5, <1>6, <1>7, <1>8, <1>9, <1>10, <1>11, <1>12, <1>13,
     <1>14, <1>15, <1>16 DEF Next, Loop, Exited

(* Every reachable state is well typed: however calls are created and erased, *)
(* the vector never holds more than NumberOfCalls calls, and the iterator is  *)
(* in begin() to end() wherever the loop compares, steps or erases at it; it  *)
(* is before begin() at most between a --it and its ++it.                     *)
THEOREM TypeCorrect == Spec => []TypeOK
<1>1. Init => TypeOK
  BY InitType
<1>2. TypeOK /\ [Next]_vars => TypeOK'
  BY NextType
<1> QED
  BY <1>1, <1>2, PTL DEF Spec

(* What the later proofs need of the type of the vector, before and after. *)
LEMMA VectorType ==
    ASSUME TypeOK, [Next]_vars
    PROVE  /\ Len(calls) \in Nat
           /\ DOMAIN calls = 1 .. Len(calls)
           /\ \A i \in 1 .. Len(calls) : calls[i] \in CallRecord
           /\ Len(calls') \in Nat
           /\ DOMAIN calls' = 1 .. Len(calls')
           /\ \A i \in 1 .. Len(calls') : calls'[i] \in CallRecord
<1>1. calls \in Seq(CallRecord)
  BY DEF TypeOK
<1>2. calls' \in Seq(CallRecord)
  <2>1. TypeOK'
    BY NextType
  <2> QED
    BY <2>1, Zenon DEF TypeOK
<1> QED
  BY <1>1, <1>2

-----------------------------------------------------------------------------
(* What the actions do to the vector *)

(* CreateCall appends a call that has played nothing yet. *)
LEMMA CreateCallEffect ==
    ASSUME TypeOK, CreateCall
    PROVE  /\ Len(calls') = Len(calls) + 1
           /\ \A i \in 1 .. Len(calls) : calls'[i] = calls[i]
           /\ \E duration \in CallDurations, rtp \in [LegIndices -> InitialRtp] :
                 /\ NewCall(duration, NewLegs(ipPool, rtp)) \in CallRecord
                 /\ calls'[Len(calls) + 1] = NewCall(duration, NewLegs(ipPool, rtp))
<1>1. PICK duration \in CallDurations, rtp \in [LegIndices -> InitialRtp] :
         calls' = Append(calls, NewCall(duration, NewLegs(ipPool, rtp)))
  BY DEF CreateCall
<1>2. NewCall(duration, NewLegs(ipPool, rtp)) \in CallRecord
  BY NewCallType
<1> DEFINE new == NewCall(duration, NewLegs(ipPool, rtp))
<1> HIDE DEF new
<1>3. /\ Len(calls') = Len(calls) + 1
      /\ \A i \in 1 .. Len(calls) : calls'[i] = calls[i]
      /\ calls'[Len(calls) + 1] = new
  <2>1. calls' = Append(calls, new) /\ new \in CallRecord
    BY <1>1, <1>2 DEF new
  <2>2. calls \in Seq(CallRecord)
    BY DEF TypeOK
  <2> QED
    BY <2>1, <2>2, AppendProperties
<1> QED
  BY <1>2, <1>3 DEF new

(* StepCall takes one step of the tick from the call that is next. *)
LEMMA StepCallEffect ==
    ASSUME TypeOK, StepCall
    PROVE  /\ NextToStep \in 1 .. Len(calls)
           /\ NextToStep' = NextToStep + 1
           /\ Len(calls') = Len(calls)
           /\ \A i \in 1 .. Len(calls) : i # NextToStep => calls'[i] = calls[i]
           /\ calls'[NextToStep] = CallStep(calls[NextToStep], Step)
           /\ calls[NextToStep] \in CallRecord
           /\ StepGranted(calls[NextToStep], Step) = Step
           /\ calls'[NextToStep].remaining = calls[NextToStep].remaining - Step
           /\ Played(calls'[NextToStep]) = Played(calls[NextToStep]) + Step
<1>1. NextToStep = it /\ it \in 1 .. Len(calls) /\ calls[it] \in CallRecord
  BY DEF StepCall, TypeOK, NextToStep
<1>2. /\ NextToStep' = NextToStep + 1
      /\ Len(calls') = Len(calls)
      /\ \A i \in 1 .. Len(calls) : i # NextToStep => calls'[i] = calls[i]
      /\ calls'[NextToStep] = CallStep(calls[NextToStep], Step)
  BY <1>1 DEF StepCall, NextToStep, TypeOK
<1>3. StepGranted(calls[NextToStep], Step) = Step
  BY <1>1, DDGenAssumption DEF StepCall, StillHasTime, StepGranted, CallRecord
<1>4. /\ calls'[NextToStep].remaining = calls[NextToStep].remaining - Step
      /\ calls'[NextToStep].duration = calls[NextToStep].duration
  BY <1>1, <1>2, <1>3 DEF CallStep, CallRecord
<1>5. calls[NextToStep].duration * Second \in Nat /\ calls[NextToStep].remaining \in Nat
  <2>1. calls[NextToStep].duration \in Nat /\ calls[NextToStep].remaining \in Nat
    BY <1>1, CallDurationsType DEF CallRecord
  <2> QED
    BY <2>1, CallAssumption
<1>6. Played(calls'[NextToStep]) = Played(calls[NextToStep]) + Step
  BY <1>4, <1>5, DDGenAssumption DEF Played
<1> QED
  BY <1>1, <1>2, <1>3, <1>4, <1>6

(* The next call to step is then the one behind the erased one, in its place. *)
LEMMA EraseTimedOutCallEffect ==
    ASSUME TypeOK, EraseTimedOutCall
    PROVE  /\ NextToStep \in 1 .. Len(calls)
           /\ NextToStep' = NextToStep
           /\ Len(calls') = Len(calls) - 1
           /\ \A i \in 1 .. Len(calls) - 1 :
                 calls'[i] = IF i < NextToStep THEN calls[i] ELSE calls[i + 1]
<1>1. NextToStep = it /\ it \in 1 .. Len(calls)
  BY DEF EraseTimedOutCall, TypeOK, NextToStep
<1>2. /\ Len(Erased(calls, NextToStep)) = Len(calls) - 1
      /\ \A i \in 1 .. Len(calls) - 1 :
            Erased(calls, NextToStep)[i] = IF i < NextToStep THEN calls[i] ELSE calls[i + 1]
  BY <1>1, ErasedProperties DEF TypeOK
<1> QED
  BY <1>1, <1>2 DEF EraseTimedOutCall, NextToStep, SteppedBack

(* Advance moves the iterator to the call that is next anyway. *)
LEMMA AdvanceEffect ==
    ASSUME TypeOK, Advance
    PROVE  /\ NextToStep' = NextToStep
           /\ UNCHANGED << pc, calls, ipPool, created, now, currentTime, lastTime, sleepLeft,
                           wake, shallStop, shallConfigurationUpdate, hups, ticks, lateTicks >>
  BY DEF Advance, NextToStep, TypeOK, clockVars, passVars, sleepVars, signalVars, tallyVars

(* A tick begins with the first call, when more than Step has gone by. *)
LEMMA StartTickEffect ==
    ASSUME TypeOK, StartTick
    PROVE  /\ pc = "clock" /\ pc' = "stepping"
           /\ NextToStep' = 1
           /\ now - lastTime > Step
           /\ currentTime' = now /\ ticks' = ticks + 1
           /\ UNCHANGED << calls, ipPool, created, lastTime, now, sleepLeft, wake >>
<1>1. now - lastTime \in Nat /\ Step \in Nat
  BY DDGenAssumption DEF TypeOK
<1>2. now - lastTime > Step
  BY <1>1, InMicrosecondsBounds DEF StartTick
<1>3. NextToStep' = 1
  BY DEF StartTick, NextToStep, TypeOK
<1> QED
  BY <1>2, <1>3 DEF StartTick, clockVars, sleepVars

(* The sleep that is asked for reaches to the end of the tick, or beyond it   *)
(* by what the truncation drops.                                              *)
LEMMA StartSleepEffect ==
    ASSUME TypeOK, StartSleep
    PROVE  sleepLeft' \in Nat /\ now + sleepLeft' >= lastTime + Step
<1>1. /\ now \in Nat /\ lastTime \in Nat /\ Step \in Nat
      /\ now - lastTime \in Nat
  BY DDGenAssumption DEF TypeOK
<1>2. /\ InMicroseconds(now - lastTime) \in Nat
      /\ InMicroseconds(now - lastTime) <= now - lastTime
  BY <1>1, InMicrosecondsBounds
<1> QED
  BY <1>1, <1>2 DEF StartSleep

(* A tick ends when no call is left to step. *)
LEMMA FinishTickEffect ==
    ASSUME TypeOK, FinishTick
    PROVE  /\ pc = "stepping" /\ pc' = "check"
           /\ NextToStep > Len(calls)
           /\ lastTime' = currentTime
           /\ UNCHANGED << calls, ipPool, created, now, currentTime, sleepLeft, wake, ticks >>
  BY DEF FinishTick, NextToStep, TypeOK, TickTime, clockVars, sleepVars, tallyVars

(* While the calls step, the next one is in the vector or just behind it. *)
LEMMA NextToStepType ==
    ASSUME TypeOK
    PROVE  /\ NextToStep \in Nat /\ NextToStep > 0
           /\ ~advancing => NextToStep = it
  BY DEF TypeOK, NextToStep

(* A call only leaves the vector, other than by the end of the program, when  *)
(* it is erased at the iterator.                                              *)
LEMMA DroppedIsErased ==
    ASSUME TypeOK, [Next]_vars, pc' # "exited", NEW call \in Dropped
    PROVE  EraseTimedOutCall /\ call = calls[NextToStep]
<1> USE DEF itVars, clockVars, passVars, sleepVars, signalVars, tallyVars
<1>1. PICK j \in 1 .. Len(calls) : call = calls[j]
  BY VectorType DEF Dropped, LiveCalls
<1>2. \A i \in 1 .. Len(calls') : calls'[i].serial # calls[j].serial
  BY <1>1, VectorType DEF Dropped
<1>3. Len(calls) \in Nat
  BY DEF TypeOK
<1>4. CASE EraseTimedOutCall
  <2>1. CASE j < NextToStep
    <3>1. j \in 1 .. Len(calls') /\ calls'[j] = calls[j]
      BY <1>3, <1>4, <2>1, EraseTimedOutCallEffect
    <3> QED
      BY <1>2, <3>1
  <2>2. CASE j > NextToStep
    <3>1. j - 1 \in 1 .. Len(calls') /\ calls'[j - 1] = calls[j]
      BY <1>3, <1>4, <2>2, EraseTimedOutCallEffect
    <3> QED
      BY <1>2, <3>1
  <2> QED
    BY <1>1, <1>4, <2>1, <2>2, EraseTimedOutCallEffect
<1>5. CASE CreateCall
  BY <1>2, <1>3, <1>5, CreateCallEffect
<1>6. CASE StepCall
  <2>1. calls'[NextToStep].serial = calls[NextToStep].serial
    BY <1>6, StepCallEffect DEF CallStep, CallRecord
  <2> QED
    BY <1>2, <1>6, <2>1, StepCallEffect
<1>7. CASE UNCHANGED calls
  BY <1>2, <1>7
<1> QED
  BY <1>4, <1>5, <1>6, <1>7
     DEF Next, Loop, Exited, SkipCreate, StartTick, Advance, FinishTick, StartSleep,
         Nanosleep, NanosleepReturns, NextPass, Quit, ClockAdvances, Sigterm, Sighup, Delivered, vars

-----------------------------------------------------------------------------
(* Each call steps once in each tick *)

(* No step of the system makes a call miss a tick or take one twice. *)
LEMMA SteppedOnceStep ==
    TypeOK /\ SteppedOncePerTick /\ [Next]_vars => SteppedOncePerTick'
<1> SUFFICES ASSUME TypeOK, SteppedOncePerTick, [Next]_vars
             PROVE  SteppedOncePerTick'
  OBVIOUS
<1> USE DEF itVars, clockVars, passVars, sleepVars, signalVars, tallyVars
<1> DEFINE Fair(i) == Played(calls[i]) = Step * TicksTaken(i)
<1>1. \A i \in 1 .. Len(calls) : Fair(i)
  BY VectorType DEF SteppedOncePerTick
<1>2. SUFFICES ASSUME NEW i \in 1 .. Len(calls') PROVE Fair(i)'
  BY VectorType DEF SteppedOncePerTick
<1>3. ticks \in Nat /\ Step \in Nat /\ Len(calls) \in Nat /\ NextToStep \in Nat
  BY NextToStepType, DDGenAssumption DEF TypeOK
<1>4. \A j \in 1 .. Len(calls) : calls[j].born \in Nat /\ calls[j] \in CallRecord
  BY VectorType DEF CallRecord
<1>5. CASE CreateCall
  <2>1. PICK duration \in CallDurations, rtp \in [LegIndices -> InitialRtp] :
           calls'[Len(calls) + 1] = NewCall(duration, NewLegs(ipPool, rtp))
    BY <1>5, CreateCallEffect
  <2>2. CASE i \in 1 .. Len(calls)
    BY <1>1, <1>5, <2>2, CreateCallEffect DEF CreateCall, Played, TicksTaken
  <2>3. CASE i = Len(calls) + 1
    <3>1. duration * Second \in Nat
      BY CallDurationsType, CallAssumption
    <3>2. Played(calls'[i]) = 0
      BY <2>1, <2>3, <3>1 DEF Played, NewCall
    <3>3. calls'[i].born = ticks
      BY <2>1, <2>3 DEF NewCall
    <3>4. TicksTaken(i)' = 0
      BY <1>3, <1>5, <3>3 DEF CreateCall, TicksTaken
    <3> QED
      BY <1>3, <1>5, <3>2, <3>4 DEF CreateCall
  <2> QED
    BY <1>3, <1>5, <2>2, <2>3, CreateCallEffect
<1>6. CASE StartTick
  <2>1. UNCHANGED calls /\ i \in 1 .. Len(calls)
    BY <1>6 DEF StartTick
  <2>2. calls[i].born \in Nat
    BY <1>4, <2>1
  <2>3. TicksTaken(i) = ticks - calls[i].born
    BY <1>3, <1>6, <2>2 DEF StartTick, TicksTaken
  <2>4. TicksTaken(i)' = (ticks + 1) - calls[i].born - 1
    BY <1>6, <2>1, StartTickEffect DEF TicksTaken
  <2> QED
    BY <1>1, <1>3, <2>1, <2>2, <2>3, <2>4 DEF Played
<1>7. CASE StepCall
  <2>1. i \in 1 .. Len(calls)
    BY <1>7, StepCallEffect
  <2>2. CASE i = NextToStep
    <3>1. Played(calls'[i]) = Played(calls[i]) + Step
      BY <1>7, <2>2, StepCallEffect
    <3>2. calls'[i].born = calls[i].born
      BY <1>7, <2>2, StepCallEffect DEF CallStep, CallRecord
    <3>3. TicksTaken(i)' = TicksTaken(i) + 1 /\ TicksTaken(i) \in Int
      <4>1. calls[i].born \in Nat
        BY <1>4, <2>1
      <4>2. TicksTaken(i) = ticks - calls[i].born - 1
        BY <1>3, <1>7, <2>2 DEF StepCall, TicksTaken
      <4>3. TicksTaken(i)' = ticks - calls[i].born
        <5>1. ~(i >= NextToStep')
          BY <1>3, <1>7, <2>2, StepCallEffect
        <5> QED
          BY <1>3, <1>7, <3>2, <4>1, <5>1 DEF StepCall, TicksTaken
      <4> QED
        BY <1>3, <4>1, <4>2, <4>3
    <3> QED
      BY <1>1, <1>3, <2>1, <3>1, <3>3
  <2>3. CASE i # NextToStep
    <3>1. calls'[i] = calls[i]
      BY <1>7, <2>1, <2>3, StepCallEffect
    <3>2. TicksTaken(i)' = TicksTaken(i)
      <4>1. NextToStep' = NextToStep + 1 /\ (i >= NextToStep' <=> i >= NextToStep)
        BY <1>3, <1>7, <2>1, <2>3, StepCallEffect
      <4> QED
        BY <1>7, <3>1, <4>1 DEF StepCall, TicksTaken
    <3> QED
      BY <1>1, <2>1, <3>1, <3>2 DEF Played
  <2> QED
    BY <2>2, <2>3
<1>8. CASE EraseTimedOutCall
  <2>1. PICK j \in 1 .. Len(calls) :
          /\ calls'[i] = calls[j]
          /\ j >= NextToStep <=> i >= NextToStep
    BY <1>3, <1>8, EraseTimedOutCallEffect
  <2>2. TicksTaken(i)' = TicksTaken(j)
    BY <1>3, <1>8, <2>1, EraseTimedOutCallEffect DEF EraseTimedOutCall, TicksTaken
  <2> QED
    BY <1>1, <1>8, <2>1, <2>2 DEF Played
<1>9. CASE FinishTick
  BY <1>1, <1>3, <1>9, FinishTickEffect DEF TicksTaken, Played
<1>10. CASE Quit
  BY <1>10 DEF Quit
<1>11. ASSUME UNCHANGED << calls, ticks >>, pc # "stepping", pc' # "stepping"
       PROVE  Fair(i)'
  BY <1>1, <1>11 DEF TicksTaken, Played
<1>12. ASSUME UNCHANGED << calls, ticks, itVars, pc >>
       PROVE  Fair(i)'
  BY <1>1, <1>12 DEF TicksTaken, Played, NextToStep
<1>16. CASE Advance
  BY <1>1, <1>16, AdvanceEffect DEF TicksTaken, Played
<1>13. CASE SkipCreate \/ StartSleep \/ Nanosleep \/ NanosleepReturns \/ NextPass
  BY <1>11, <1>13 DEF SkipCreate, StartSleep, Nanosleep, NanosleepReturns, NextPass
<1>14. CASE ClockAdvances \/ UNCHANGED vars
  BY <1>12, <1>14 DEF ClockAdvances, vars
<1>15. CASE Sigterm \/ Sighup
  BY <1>11, <1>12, <1>15 DEF Sigterm, Sighup, Delivered, InterruptSleep
<1> QED
  BY <1>5, <1>6, <1>7, <1>8, <1>9, <1>10, <1>13, <1>14, <1>15, <1>16 DEF Next, Loop, Exited

(* Whichever calls a tick erases while it walks the vector, each call in the  *)
(* vector has stepped exactly once in every tick since it was created.        *)
THEOREM SteppedOnce == Spec => []SteppedOncePerTick
<1>1. Init => SteppedOncePerTick
  BY EmptySeq DEF Init, SteppedOncePerTick
<1>2. TypeOK /\ SteppedOncePerTick /\ [Next]_vars => SteppedOncePerTick'
  BY SteppedOnceStep
<1> QED
  BY <1>1, <1>2, TypeCorrect, PTL DEF Spec

-----------------------------------------------------------------------------
(* The vector keeps the order of creation *)

(* CreationOrder is not inductive by itself: a new call comes last because    *)
(* the serial numbers in the vector are all below the next one.               *)
SerialsTaken == \A i \in DOMAIN calls : calls[i].serial < created

(* No step of the system brings two calls of the vector out of order. *)
LEMMA CreationOrderStep ==
    TypeOK /\ SerialsTaken /\ CreationOrder /\ [Next]_vars => SerialsTaken' /\ CreationOrder'
<1> SUFFICES ASSUME TypeOK, SerialsTaken, CreationOrder, [Next]_vars
             PROVE  SerialsTaken' /\ CreationOrder'
  OBVIOUS
<1> USE DEF itVars, clockVars, passVars, sleepVars, signalVars, tallyVars
<1>1. /\ \A i \in 1 .. Len(calls) : calls[i].serial \in Nat /\ calls[i].serial < created
      /\ \A i, j \in 1 .. Len(calls) : i < j => calls[i].serial < calls[j].serial
  BY VectorType DEF SerialsTaken, CreationOrder, CallRecord
<1>2. created \in Nat /\ Len(calls) \in Nat
  BY DEF TypeOK
<1>3. SUFFICES /\ \A i \in 1 .. Len(calls') : calls'[i].serial < created'
               /\ \A i, j \in 1 .. Len(calls') : i < j => calls'[i].serial < calls'[j].serial
  BY VectorType DEF SerialsTaken, CreationOrder
<1>4. CASE CreateCall
  <2>1. PICK duration \in CallDurations, rtp \in [LegIndices -> InitialRtp] :
           calls'[Len(calls) + 1] = NewCall(duration, NewLegs(ipPool, rtp))
    BY <1>4, CreateCallEffect
  <2>2. calls'[Len(calls) + 1].serial = created /\ created' = created + 1
    BY <1>4, <2>1 DEF NewCall, CreateCall
  <2>3. /\ Len(calls') = Len(calls) + 1
        /\ \A i \in 1 .. Len(calls) : calls'[i] = calls[i]
    BY <1>4, CreateCallEffect
  <2> DEFINE last == Len(calls) + 1
  <2>4. \A i \in 1 .. Len(calls) : calls'[i].serial < created
    BY <1>1, <2>3
  <2>5. \A i \in 1 .. Len(calls') : i \in 1 .. Len(calls) \/ i = last
    BY <1>2, <2>3
  <2>6. calls'[last].serial = created /\ created < created' /\ created \in Nat
    BY <1>2, <2>2
  <2>7. ASSUME NEW i \in 1 .. Len(calls')
        PROVE  calls'[i].serial < created'
    <3>1. CASE i = last
      BY <2>6, <3>1
    <3>2. CASE i \in 1 .. Len(calls)
      <4>1. calls'[i].serial = calls[i].serial
        BY <2>3, <3>2
      <4> QED
        BY <1>1, <1>2, <2>2, <3>2, <4>1
    <3> QED
      BY <2>5, <3>1, <3>2
  <2>8. ASSUME NEW i \in 1 .. Len(calls'), NEW j \in 1 .. Len(calls'), i < j
        PROVE  calls'[i].serial < calls'[j].serial
    <3>1. i \in 1 .. Len(calls)
      BY <1>2, <2>3, <2>8
    <3>2. CASE j = last
      BY <2>4, <2>6, <3>1, <3>2
    <3>3. CASE j \in 1 .. Len(calls)
      BY <1>1, <2>3, <2>8, <3>1, <3>3
    <3> QED
      BY <2>5, <3>2, <3>3
  <2> QED
    BY <2>7, <2>8
<1>5. CASE StepCall
  <2>1. \A i \in 1 .. Len(calls) : calls'[i].serial = calls[i].serial
    BY <1>5, StepCallEffect DEF CallStep, CallRecord
  <2> QED
    BY <1>1, <1>5, <2>1, StepCallEffect DEF StepCall
<1>6. CASE EraseTimedOutCall
  <2> DEFINE Old(i) == IF i < NextToStep THEN i ELSE i + 1
  <2>1. created' = created
    BY <1>6 DEF EraseTimedOutCall
  <2>2. \A i \in 1 .. Len(calls') : Old(i) \in 1 .. Len(calls) /\ calls'[i] = calls[Old(i)]
    BY <1>2, <1>6, EraseTimedOutCallEffect
  <2>3. \A i, j \in 1 .. Len(calls') : i < j => Old(i) < Old(j)
    BY <1>2, <1>6, EraseTimedOutCallEffect
  <2> HIDE DEF Old
  <2> QED
    BY <1>1, <2>1, <2>2, <2>3
<1>7. CASE Quit
  BY <1>7 DEF Quit
<1>8. CASE UNCHANGED << calls, created >>
  BY <1>1, <1>8
<1> QED
  BY <1>4, <1>5, <1>6, <1>7, <1>8
     DEF Next, Loop, Exited, SkipCreate, StartTick, Advance, FinishTick, StartSleep,
         Nanosleep, NanosleepReturns, NextPass, ClockAdvances, Sigterm, Sighup, Delivered, vars

(* The calls in the vector are always in the order they were created in, so   *)
(* that none of them is in it twice.                                          *)
THEOREM OrderKept == Spec => []CreationOrder
<1>1. Init => SerialsTaken /\ CreationOrder
  BY EmptySeq DEF Init, SerialsTaken, CreationOrder
<1>2. TypeOK /\ SerialsTaken /\ CreationOrder /\ [Next]_vars => SerialsTaken' /\ CreationOrder'
  BY CreationOrderStep
<1> QED
  BY <1>1, <1>2, TypeCorrect, PTL DEF Spec

-----------------------------------------------------------------------------
(* Calls and the clock *)

(* A tick only begins when more than Step has passed since the last one. *)
TicksApart == pc = "stepping" => currentTime - lastTime > Step

(* Calls are created no later than the clock is read for their first tick. *)
CreatedBefore ==
    \A i \in DOMAIN calls : calls[i].createdAt <= IF pc = "stepping" THEN currentTime ELSE now

(* The reading of the clock at the last tick the call at index i took part in. *)
TickOf(i) == IF pc = "stepping" /\ i < NextToStep THEN currentTime ELSE lastTime

(* What makes NotAheadOfClock inductive: a call that has played anything is   *)
(* bounded by the reading of its own last tick.                               *)
PacedByTicks ==
    \A i \in DOMAIN calls :
        \/ Played(calls[i]) = 0
        \/ Played(calls[i]) <= (TickOf(i) - calls[i].createdAt) + Step

(* The times that matter are numbers in the order they were read in. *)
LEMMA ClockType ==
    ASSUME TypeOK
    PROVE  /\ now \in Nat /\ currentTime \in Nat /\ lastTime \in Nat
           /\ lastTime <= currentTime /\ currentTime <= now
           /\ Step \in Nat /\ Step > 0
           /\ NextToStep \in Nat /\ Len(calls) \in Nat
  BY NextToStepType, DDGenAssumption DEF TypeOK

(* What a call has played is a number. *)
LEMMA PlayedType ==
    ASSUME NEW call \in CallRecord
    PROVE  Played(call) \in Int /\ call.createdAt \in Nat
<1>1. call.duration \in Nat /\ call.remaining \in Nat /\ call.createdAt \in Nat
  BY CallDurationsType DEF CallRecord
<1>2. call.duration * Second \in Nat
  BY <1>1, CallAssumption
<1> QED
  BY <1>1, <1>2 DEF Played

(* One more step after a tick leaves a call within a step of the clock. *)
LEMMA BehindTheClock ==
    ASSUME NEW played \in Int, NEW start \in Nat, NEW last \in Nat, NEW current \in Nat,
           NEW step \in Nat,
           start <= current, current - last > step,
           played <= 0 \/ played <= (last - start) + step
    PROVE  played + step <= (current - start) + step
  OBVIOUS

(* No step of the system begins a tick too soon or backdates a call. *)
LEMMA CreatedBeforeStep ==
    TypeOK /\ TicksApart /\ CreatedBefore /\ [Next]_vars => TicksApart' /\ CreatedBefore'
<1> SUFFICES ASSUME TypeOK, TicksApart, CreatedBefore, [Next]_vars
             PROVE  TicksApart' /\ CreatedBefore'
  OBVIOUS
<1> USE DEF itVars, clockVars, passVars, sleepVars, signalVars, tallyVars
<1>1. \A i \in 1 .. Len(calls) :
          /\ calls[i].createdAt \in Nat
          /\ calls[i].createdAt <= IF pc = "stepping" THEN currentTime ELSE now
  BY VectorType DEF CreatedBefore, CallRecord
<1>2. TicksApart'
  BY ClockType, StartTickEffect
     DEF TicksApart, Next, Loop, CreateCall, SkipCreate, StepCall, EraseTimedOutCall, Advance,
         FinishTick, StartSleep, Nanosleep, NanosleepReturns, NextPass, Quit, ClockAdvances,
         Sigterm, Sighup, Delivered, InterruptSleep, Exited, vars
<1>3. SUFFICES ASSUME NEW i \in 1 .. Len(calls')
               PROVE  calls'[i].createdAt <= IF pc' = "stepping" THEN currentTime' ELSE now'
  BY <1>2, VectorType DEF CreatedBefore
<1>4. CASE CreateCall
  <2>1. PICK duration \in CallDurations, rtp \in [LegIndices -> InitialRtp] :
           calls'[Len(calls) + 1] = NewCall(duration, NewLegs(ipPool, rtp))
    BY <1>4, CreateCallEffect
  <2>2. calls'[Len(calls) + 1].createdAt = now
    BY <2>1 DEF NewCall
  <2>3. pc # "stepping" /\ pc' # "stepping" /\ now' = now
    BY <1>4 DEF CreateCall
  <2>4. i \in 1 .. Len(calls) \/ i = Len(calls) + 1
    BY <1>4, ClockType, CreateCallEffect
  <2>5. i \in 1 .. Len(calls) => calls'[i] = calls[i]
    BY <1>4, CreateCallEffect
  <2> QED
    BY <1>1, <2>2, <2>3, <2>4, <2>5, ClockType
<1>5. CASE StepCall
  <2>1. calls'[NextToStep].createdAt = calls[NextToStep].createdAt
    BY <1>5, StepCallEffect DEF CallStep, CallRecord
  <2>2. UNCHANGED << pc, now, currentTime >>
    BY <1>5 DEF StepCall
  <2>3. i \in 1 .. Len(calls) /\ (i # NextToStep => calls'[i] = calls[i])
    BY <1>5, StepCallEffect
  <2>4. calls'[i].createdAt = calls[i].createdAt
    BY <2>1, <2>3
  <2> QED
    BY <1>1, <2>2, <2>3, <2>4
<1>6. CASE EraseTimedOutCall
  <2>1. \E j \in 1 .. Len(calls) : calls'[i] = calls[j]
    <3>1. Len(calls) \in Nat /\ NextToStep \in Nat
      BY ClockType
    <3> QED
      BY <1>6, <3>1, EraseTimedOutCallEffect
  <2>2. UNCHANGED << pc, now, currentTime >>
    BY <1>6 DEF EraseTimedOutCall
  <2> QED
    BY <1>1, <2>1, <2>2
<1>7. CASE StartTick \/ FinishTick
  BY <1>1, <1>7, ClockType DEF StartTick, FinishTick
<1>8. CASE Quit
  BY <1>8 DEF Quit
<1>9. CASE UNCHANGED << calls, pc, now, currentTime >>
  BY <1>1, <1>9
<1>10. CASE ClockAdvances
  BY <1>1, <1>10, ClockType DEF ClockAdvances
<1>11. CASE SkipCreate \/ StartSleep \/ Nanosleep \/ NanosleepReturns \/ NextPass
  BY <1>1, <1>11 DEF SkipCreate, StartSleep, Nanosleep, NanosleepReturns, NextPass
<1>12. CASE Sigterm \/ Sighup
  BY <1>1, <1>12 DEF Sigterm, Sighup, Delivered, InterruptSleep
<1>13. CASE Advance
  BY <1>9, <1>13, AdvanceEffect
<1> QED
  BY <1>4, <1>5, <1>6, <1>7, <1>8, <1>9, <1>10, <1>11, <1>12, <1>13 DEF Next, Loop, Exited, vars

(* No step of the system takes a call ahead of the ticks. *)
LEMMA PacedByTicksStep ==
    TypeOK /\ TicksApart /\ CreatedBefore /\ PacedByTicks /\ [Next]_vars => PacedByTicks'
<1> SUFFICES ASSUME TypeOK, TicksApart, CreatedBefore, PacedByTicks, [Next]_vars
             PROVE  PacedByTicks'
  OBVIOUS
<1> USE DEF itVars, clockVars, passVars, sleepVars, signalVars, tallyVars
<1> DEFINE Paced(i) == \/ Played(calls[i]) = 0
                       \/ Played(calls[i]) <= (TickOf(i) - calls[i].createdAt) + Step
<1>1. \A i \in 1 .. Len(calls) : Paced(i)
  BY VectorType DEF PacedByTicks
<1>2. \A i \in 1 .. Len(calls) : Played(calls[i]) \in Int /\ calls[i].createdAt \in Nat
  BY VectorType, PlayedType
<1>3. SUFFICES ASSUME NEW i \in 1 .. Len(calls') PROVE Paced(i)'
  BY VectorType DEF PacedByTicks
<1>4. CASE CreateCall
  <2>1. PICK duration \in CallDurations, rtp \in [LegIndices -> InitialRtp] :
           calls'[Len(calls) + 1] = NewCall(duration, NewLegs(ipPool, rtp))
    BY <1>4, CreateCallEffect
  <2>2. CASE i \in 1 .. Len(calls)
    BY <1>1, <1>4, <2>2, CreateCallEffect DEF CreateCall, Played, TickOf
  <2>3. CASE i = Len(calls) + 1
    <3>1. duration * Second \in Nat
      BY CallDurationsType, CallAssumption
    <3>2. Played(calls'[i]) = 0
      BY <2>1, <2>3, <3>1 DEF Played, NewCall
    <3> QED
      BY <3>2 DEF Played
  <2> QED
    BY <1>4, <2>2, <2>3, ClockType, CreateCallEffect
<1>5. CASE StartTick
  <2>1. TickOf(i) = lastTime /\ TickOf(i)' = lastTime
    <3>1. i \in Nat /\ i > 0
      BY ClockType, VectorType
    <3> QED
      BY <1>5, <3>1, StartTickEffect DEF TickOf
  <2>2. UNCHANGED calls /\ i \in 1 .. Len(calls)
    BY <1>5, StartTickEffect
  <2> QED
    BY <1>1, <2>1, <2>2 DEF Played
<1>6. CASE StepCall
  <2>1. UNCHANGED << pc, now, currentTime, lastTime >> /\ pc = "stepping"
    BY <1>6 DEF StepCall
  <2>2. i \in 1 .. Len(calls) /\ NextToStep \in 1 .. Len(calls) /\ NextToStep' = NextToStep + 1
    BY <1>6, StepCallEffect
  <2>3. CASE i = NextToStep
    <3>1. /\ calls'[i].createdAt = calls[i].createdAt
          /\ Played(calls'[i]) = Played(calls[i]) + Step
      BY <1>6, <2>3, StepCallEffect DEF CallStep, CallRecord
    <3>2. TickOf(i) = lastTime
      BY <2>3, ClockType DEF TickOf
    <3>3. i < NextToStep'
      BY <2>2, <2>3, ClockType
    <3>4. TickOf(i)' = currentTime
      BY <2>1, <3>3 DEF TickOf
    <3>5. calls[i].createdAt <= currentTime /\ currentTime - lastTime > Step
      BY <2>1, <2>2, VectorType DEF CreatedBefore, TicksApart
    <3>6. Played(calls[i]) \in Int /\ calls[i].createdAt \in Nat
      BY <1>2, <2>2
    <3>7. Played(calls[i]) <= 0 \/ Played(calls[i]) <= (lastTime - calls[i].createdAt) + Step
      <4>1. Paced(i)
        BY <1>1, <2>2
      <4>2. Played(calls[i]) = 0 => Played(calls[i]) <= 0
        BY <3>6
      <4> QED
        BY <3>2, <4>1, <4>2
    <3>8. Played(calls[i]) + Step <= (currentTime - calls[i].createdAt) + Step
      <4>1. currentTime \in Nat /\ lastTime \in Nat /\ Step \in Nat
        BY ClockType
      <4> QED
        BY <3>5, <3>6, <3>7, <4>1, BehindTheClock
    <3>9. Played(calls'[i]) <= (TickOf(i)' - calls'[i].createdAt) + Step
      BY <3>1, <3>4, <3>8
    <3> QED
      BY <3>9 DEF Played
  <2>4. CASE i # NextToStep
    <3>1. calls'[i] = calls[i]
      BY <1>6, <2>2, <2>4, StepCallEffect
    <3>2. i < NextToStep' <=> i < NextToStep
      BY <2>2, <2>4, ClockType
    <3>3. TickOf(i)' = TickOf(i)
      BY <2>1, <3>2 DEF TickOf
    <3> QED
      BY <1>1, <2>2, <3>1, <3>3 DEF Played
  <2> QED
    BY <2>3, <2>4
<1>7. CASE EraseTimedOutCall
  <2>1. UNCHANGED << pc, now, currentTime, lastTime >> /\ NextToStep' = NextToStep /\ pc = "stepping"
    BY <1>7, EraseTimedOutCallEffect DEF EraseTimedOutCall
  <2>2. PICK j \in 1 .. Len(calls) : calls'[i] = calls[j] /\ (j < NextToStep <=> i < NextToStep)
    <3>1. Len(calls) \in Nat /\ NextToStep \in Nat
      BY ClockType
    <3> QED
      BY <1>7, <3>1, EraseTimedOutCallEffect
  <2>3. TickOf(i)' = TickOf(j)
    BY <2>1, <2>2 DEF TickOf
  <2>4. Played(calls[j]) = 0 \/ Played(calls[j]) <= (TickOf(j) - calls[j].createdAt) + Step
    BY <1>1
  <2> QED
    BY <2>2, <2>3, <2>4 DEF Played
<1>8. CASE FinishTick
  <2>1. TickOf(i) = currentTime /\ TickOf(i)' = currentTime
    BY <1>8, ClockType, FinishTickEffect DEF TickOf
  <2>2. UNCHANGED calls
    BY <1>8 DEF FinishTick
  <2> QED
    BY <1>1, <2>1, <2>2 DEF Played
<1>9. CASE Quit
  BY <1>9 DEF Quit
<1>10. CASE UNCHANGED << calls, lastTime >> /\ pc # "stepping" /\ pc' # "stepping"
  BY <1>1, <1>10 DEF TickOf, Played
<1>11. CASE UNCHANGED << calls, lastTime, currentTime, pc, itVars >>
  BY <1>1, <1>11 DEF TickOf, Played, NextToStep
<1>12. CASE SkipCreate \/ StartSleep \/ Nanosleep \/ NanosleepReturns \/ NextPass
  BY <1>10, <1>12 DEF SkipCreate, StartSleep, Nanosleep, NanosleepReturns, NextPass
<1>13. CASE ClockAdvances \/ UNCHANGED vars
  BY <1>11, <1>13 DEF ClockAdvances, vars
<1>14. CASE Sigterm \/ Sighup
  BY <1>10, <1>11, <1>14 DEF Sigterm, Sighup, Delivered, InterruptSleep
<1>15. CASE Advance
  BY <1>1, <1>15, AdvanceEffect DEF TickOf, Played
<1> QED
  BY <1>4, <1>5, <1>6, <1>7, <1>8, <1>9, <1>12, <1>13, <1>14, <1>15 DEF Next, Loop, Exited

(* A call never runs ahead of the clock by more than the tick it may be       *)
(* granted in the pass that creates it, whatever the lag of the loop.         *)
THEOREM ClockKept == Spec => []NotAheadOfClock
<1>1. Init => TicksApart /\ CreatedBefore /\ PacedByTicks
  BY EmptySeq DEF Init, TicksApart, CreatedBefore, PacedByTicks
<1>2. TypeOK /\ TicksApart /\ CreatedBefore /\ [Next]_vars => TicksApart' /\ CreatedBefore'
  BY CreatedBeforeStep
<1>3. TypeOK /\ TicksApart /\ CreatedBefore /\ PacedByTicks /\ [Next]_vars => PacedByTicks'
  BY PacedByTicksStep
<1>4. TypeOK /\ TicksApart /\ CreatedBefore /\ PacedByTicks => NotAheadOfClock
  <2> SUFFICES ASSUME TypeOK, TicksApart, CreatedBefore, PacedByTicks, NEW i \in DOMAIN calls
               PROVE  Played(calls[i]) <= (now - calls[i].createdAt) + Step
    BY DEF NotAheadOfClock, LiveCalls
  <2>1. Played(calls[i]) \in Int /\ calls[i].createdAt \in Nat
    BY PlayedType DEF TypeOK
  <2>2. calls[i].createdAt <= now
    BY <2>1, ClockType DEF CreatedBefore
  <2>3. TickOf(i) \in Nat /\ TickOf(i) <= now
    BY ClockType DEF TickOf
  <2>4. now \in Nat /\ Step \in Nat
    BY ClockType
  <2>5. \/ Played(calls[i]) = 0
        \/ Played(calls[i]) <= (TickOf(i) - calls[i].createdAt) + Step
    BY DEF PacedByTicks
  <2> QED
    BY <2>1, <2>2, <2>3, <2>4, <2>5
<1> QED
  BY <1>1, <1>2, <1>3, <1>4, TypeCorrect, PTL DEF Spec

-----------------------------------------------------------------------------
(* No call ends early *)

(* A whole number of seconds is a whole number of ticks, so a call with less  *)
(* than a tick to play before its last step has nothing left to play.         *)
LEMMA NothingLeft ==
    ASSUME NEW seconds \in Nat, NEW left \in Nat, left < Step,
           NEW taken \in Int, seconds * Second - left = Step * taken
    PROVE  left = 0
<1> DEFINE perSecond == Second \div Step
<1>1. /\ Step \in Int /\ Step > 0
      /\ Second \in Int
      /\ Second % Step = 0
  BY CallAssumption, DDGenAssumption
<1>2. perSecond \in Int /\ Second = Step * perSecond
  BY <1>1, Division
<1> HIDE DEF perSecond
<1> DEFINE due == seconds * perSecond
<1>3. due \in Int /\ Step * due = seconds * Second
  BY <1>1, <1>2
<1> HIDE DEF due
<1>4. /\ Step * (due - taken) = Step * due - Step * taken
      /\ Step * due \in Int /\ Step * taken \in Int
      /\ due - taken \in Int
  BY <1>1, <1>3
<1>5. Step * (due - taken) = left
  BY <1>3, <1>4
<1>6. 0 <= Step * (due - taken) /\ Step * (due - taken) < Step
  BY <1>5
<1> QED
  BY <1>1, <1>4, <1>5, <1>6, SmallMultiple

(* A call that is dropped by a step has lasted its whole duration. *)
LEMMA NeverEndsEarlyStep ==
    ASSUME TypeOK, SteppedOncePerTick, TicksApart, CreatedBefore, PacedByTicks,
           [Next]_vars, pc' # "exited", NEW call \in Dropped
    PROVE  currentTime - call.createdAt >= call.duration * Second
<1>1. EraseTimedOutCall /\ call = calls[NextToStep] /\ NextToStep \in 1 .. Len(calls)
  BY DroppedIsErased, EraseTimedOutCallEffect
<1>2. call \in CallRecord /\ NextToStep \in DOMAIN calls
  BY <1>1, VectorType
<1>3. call.duration \in Nat /\ call.remaining \in Nat /\ call.createdAt \in Nat /\ call.born \in Nat
  BY <1>2, CallDurationsType DEF CallRecord
<1>4. pc = "stepping" /\ call.remaining < Step
  BY <1>1, <1>3, NextToStepType, DDGenAssumption DEF EraseTimedOutCall, StillHasTime
<1>5. TicksTaken(NextToStep) \in Int /\ Played(call) = Step * TicksTaken(NextToStep)
  <2>1. ticks \in Nat
    BY DEF TypeOK
  <2>2. TicksTaken(NextToStep) \in Int
    BY <1>1, <1>3, <2>1 DEF TicksTaken
  <2> QED
    BY <1>1, <1>2, <2>2 DEF SteppedOncePerTick
<1>6. call.remaining = 0
  BY <1>3, <1>4, <1>5, NothingLeft DEF Played
<1>7. call.duration * Second \in Nat
  BY <1>3, CallAssumption
<1>8. Played(call) = call.duration * Second
  BY <1>6, <1>7 DEF Played
<1>9. Played(call) = 0 \/ Played(call) <= (lastTime - call.createdAt) + Step
  <2>1. TickOf(NextToStep) = lastTime
    BY ClockType DEF TickOf
  <2> QED
    BY <1>1, <1>2, <2>1 DEF PacedByTicks
<1>10. call.createdAt <= currentTime /\ currentTime - lastTime > Step
  BY <1>1, <1>2, <1>4 DEF CreatedBefore, TicksApart
<1>11. currentTime \in Nat /\ lastTime \in Nat /\ Step \in Nat
  BY ClockType
<1> QED
  BY <1>3, <1>7, <1>8, <1>9, <1>10, <1>11

(* Whatever tick a call is created in and whatever the lag, it does not time  *)
(* out before its duration has passed on the loop's clock.                    *)
THEOREM NoCallEndsEarly == Spec => NeverEndsEarly
<1>1. Init => TicksApart /\ CreatedBefore /\ PacedByTicks
  BY EmptySeq DEF Init, TicksApart, CreatedBefore, PacedByTicks
<1>2. TypeOK /\ TicksApart /\ CreatedBefore /\ [Next]_vars => TicksApart' /\ CreatedBefore'
  BY CreatedBeforeStep
<1>3. TypeOK /\ TicksApart /\ CreatedBefore /\ PacedByTicks /\ [Next]_vars => PacedByTicks'
  BY PacedByTicksStep
<1>4. TypeOK /\ SteppedOncePerTick /\ TicksApart /\ CreatedBefore /\ PacedByTicks /\ [Next]_vars
        => [pc' # "exited" => \A call \in Dropped :
               currentTime - call.createdAt >= call.duration * Second]_vars
  BY NeverEndsEarlyStep
<1> QED
  BY <1>1, <1>2, <1>3, <1>4, TypeCorrect, SteppedOnce, PTL DEF Spec, NeverEndsEarly

-----------------------------------------------------------------------------
(* The loop stops in time *)

(* Once a late tick has begun, the loop can only finish it and quit. *)
LateTickIsLast ==
    /\ lateTicks \in {0, 1}
    /\ lateTicks = 1 => pc \in {"stepping", "check", "exited"} /\ MustQuit

(* No step of the system begins a second late tick. *)
LEMMA LateTickIsLastStep == LateTickIsLast /\ [Next]_vars => LateTickIsLast'
<1> SUFFICES ASSUME LateTickIsLast, [Next]_vars PROVE LateTickIsLast'
  OBVIOUS
<1> USE DEF LateTickIsLast, MustQuit, clockVars, passVars, sleepVars, signalVars, tallyVars
<1> USE DEF TimeIsOver
<1>1. CASE StartTick
  BY <1>1 DEF StartTick
<1>2. CASE CreateCall \/ SkipCreate \/ StartSleep
  BY <1>2 DEF CreateCall, SkipCreate, StartSleep
<1>3. CASE StepCall \/ EraseTimedOutCall \/ Advance \/ FinishTick
  BY <1>3 DEF StepCall, EraseTimedOutCall, Advance, FinishTick
<1>4. CASE Nanosleep \/ NanosleepReturns \/ NextPass \/ Quit
  BY <1>4 DEF Nanosleep, NanosleepReturns, NextPass, Quit
<1>5. CASE ClockAdvances \/ UNCHANGED vars
  BY <1>5 DEF ClockAdvances, vars
<1>6. CASE Sigterm \/ Sighup
  BY <1>6 DEF Sigterm, Sighup, Delivered, InterruptSleep
<1> QED
  BY <1>1, <1>2, <1>3, <1>4, <1>5, <1>6 DEF Next, Loop, Exited

(* At most one tick begins after SIGTERM or after the simulation's time. *)
THEOREM StopsInTime == Spec => []StopsWithinATick
<1>1. Init => LateTickIsLast
  BY DEF Init, LateTickIsLast
<1>2. LateTickIsLast /\ [Next]_vars => LateTickIsLast'
  BY LateTickIsLastStep
<1>3. LateTickIsLast => StopsWithinATick
  BY DEF LateTickIsLast, StopsWithinATick
<1> QED
  BY <1>1, <1>2, <1>3, PTL DEF Spec

-----------------------------------------------------------------------------
(* The loop does not stop too soon *)

(* The loop only exits on its own at a reading of the clock past the end. *)
ExitsOverTime == pc = "exited" /\ ~shallStop => TimeIsOver(currentTime)

(* No step of the system ends the loop before its time. *)
LEMMA ExitsOverTimeStep == ExitsOverTime /\ [Next]_vars => ExitsOverTime'
<1> SUFFICES ASSUME ExitsOverTime, [Next]_vars PROVE ExitsOverTime'
  OBVIOUS
<1> USE DEF ExitsOverTime, MustQuit, clockVars, passVars, sleepVars, signalVars, tallyVars
<1>1. CASE Quit
  BY <1>1 DEF Quit, TimeIsOver
<1>2. CASE UNCHANGED << pc, shallStop, currentTime >>
  BY <1>2 DEF TimeIsOver
<1>3. CASE pc' # "exited"
  BY <1>3
<1> QED
  BY <1>1, <1>2, <1>3
     DEF Next, Loop, CreateCall, SkipCreate, StartTick, StepCall, EraseTimedOutCall, Advance,
         FinishTick, StartSleep, Nanosleep, NanosleepReturns, NextPass, ClockAdvances, Sigterm, Sighup,
         Delivered, InterruptSleep, Exited, vars

(* A reading whose milliseconds are past the end is itself past the end. *)
LEMMA PastTheEnd ==
    ASSUME SimulationDuration * (Second \div Millisecond) < UintRange,
           NEW t \in Nat, TimeIsOver(t)
    PROVE  t > SimulationDuration * Second
<1> DEFINE perSecond == Second \div Millisecond
           q == t \div Millisecond
           r == t % Millisecond
<1>1. /\ Millisecond \in Nat \ {0} /\ Second \in Nat /\ SimulationDuration \in Nat
      /\ Second % Millisecond = 0 /\ UintRange \in Nat
  BY CallAssumption, DDGenAssumption
<1>2. perSecond \in Nat /\ Second = Millisecond * perSecond
  <2>1. Second \in Int /\ Millisecond \in Int /\ Millisecond > 0
    BY <1>1
  <2>2. Second = Millisecond * perSecond + (Second % Millisecond)
    BY <2>1, Division
  <2>3. perSecond \in Nat
    BY <1>1, DivisionRemainder
  <2> HIDE DEF perSecond
  <2>4. PICK n \in Int : n = Millisecond * perSecond
    BY <1>1, <2>3
  <2> QED
    BY <1>1, <2>2, <2>3, <2>4
<1>3. q \in Int /\ r \in Nat /\ t = Millisecond * q + r
  <2>1. t \in Int /\ Millisecond \in Int /\ Millisecond > 0
    BY <1>1
  <2>2. r \in 0 .. Millisecond - 1
    BY <1>1, <2>1, ModuloType
  <2>3. q \in Nat
    BY <1>1, DivisionRemainder
  <2>4. t = Millisecond * q + r
    BY <2>1, Division
  <2> HIDE DEF q, r
  <2> QED
    BY <1>1, <2>2, <2>3, <2>4
<1>4. PICK ms \in Nat : ms = SimulationDuration * perSecond
  <2> HIDE DEF perSecond
  <2> QED
    BY <1>1, <1>2
<1>5. SimulationMs = ms
  <2>1. ms < UintRange
    BY <1>4
  <2>2. ms \in 0 .. UintRange - 1 /\ UintRange \in Nat \ {0}
    BY <1>1, <2>1
  <2>3. ms % UintRange = ms
    BY <2>2, ModuloSmall
  <2> QED
    BY <1>4, <2>3 DEF SimulationMs
<1>6. q > ms
  BY <1>5 DEF TimeIsOver
<1> HIDE DEF perSecond, q, r
<1>7. SimulationDuration * Second = Millisecond * ms
  BY <1>1, <1>2, <1>4
<1>8. Millisecond * q > Millisecond * ms
  <2>1. PICK n \in Nat : n > 0 /\ q = ms + n
    <3>1. q - ms \in Nat /\ q - ms > 0 /\ q = ms + (q - ms)
      BY <1>3, <1>6
    <3> QED
      BY <3>1
  <2>2. Millisecond * q = Millisecond * ms + Millisecond * n /\ Millisecond * n > 0
    BY <1>1, <2>1
  <2>3. Millisecond * ms \in Int /\ Millisecond * n \in Int
    BY <1>1, <2>1
  <2> QED
    BY <2>2, <2>3
<1>9. Millisecond * q \in Int /\ Millisecond * ms \in Int
  BY <1>1, <1>3
<1> QED
  BY <1>3, <1>7, <1>8, <1>9

(* Without SIGTERM the program lasts as long as --ds says, as long as the     *)
(* number of ms fits in an unsigned int.                                      *)
THEOREM RunsItsTime ==
    ASSUME SimulationDuration * (Second \div Millisecond) < UintRange
    PROVE  Spec => []NotCutShort
<1>1. Init => ExitsOverTime
  BY DEF Init, ExitsOverTime
<1>2. ExitsOverTime /\ [Next]_vars => ExitsOverTime'
  BY ExitsOverTimeStep
<1>3. TypeOK /\ ExitsOverTime => NotCutShort
  <2> SUFFICES ASSUME TypeOK, ExitsOverTime, pc = "exited", ~shallStop
               PROVE  now > SimulationDuration * Second
    BY DEF NotCutShort
  <2>1. currentTime > SimulationDuration * Second
    BY ClockType, PastTheEnd DEF ExitsOverTime
  <2>2. SimulationDuration * Second \in Int
    BY CallAssumption, DDGenAssumption
  <2> QED
    BY <2>1, <2>2, ClockType
<1> QED
  BY <1>1, <1>2, <1>3, TypeCorrect, PTL DEF Spec

-----------------------------------------------------------------------------
(* The loop sleeps to the end of its tick *)

(* However often it was interrupted, a sleep has the rest of the tick to go. *)
SleepsOn ==
    /\ pc = "sleep" => now + sleepLeft >= lastTime + Step
    /\ pc = "sleeping" => wake >= lastTime + Step

(* No interruption shortens the sleep. *)
LEMMA SleepsOnStep == TypeOK /\ SleepsOn /\ [Next]_vars => SleepsOn'
<1> SUFFICES ASSUME TypeOK, SleepsOn, [Next]_vars PROVE SleepsOn'
  OBVIOUS
<1> USE DEF SleepsOn, clockVars, passVars, sleepVars, signalVars, tallyVars
<1>1. /\ now \in Nat /\ lastTime \in Nat /\ Step \in Nat
      /\ sleepLeft \in Nat /\ wake \in Nat
  BY DDGenAssumption DEF TypeOK
<1>2. CASE StartSleep
  BY <1>1, <1>2, StartSleepEffect DEF StartSleep
<1>3. CASE Nanosleep
  BY <1>1, <1>3 DEF Nanosleep
<1>4. CASE ClockAdvances
  BY <1>1, <1>4 DEF ClockAdvances
<1>5. CASE Sigterm \/ Sighup
  BY <1>1, <1>5 DEF Sigterm, Sighup, Delivered, InterruptSleep
<1>6. CASE UNCHANGED vars
  BY <1>6 DEF vars
<1>7. CASE pc' \notin {"sleep", "sleeping"}
  BY <1>7
<1> QED
  BY <1>2, <1>3, <1>4, <1>5, <1>6, <1>7
     DEF Next, Loop, CreateCall, SkipCreate, StartTick, StepCall, EraseTimedOutCall, Advance,
         FinishTick, NanosleepReturns, NextPass, Quit, Exited

(* Signals never make the loop leave its sleep before the tick is over. *)
THEOREM SleepsThrough == Spec => SleepsToTheTick
<1>1. Init => SleepsOn
  BY DEF Init, SleepsOn
<1>2. TypeOK /\ SleepsOn /\ [Next]_vars => SleepsOn'
  BY SleepsOnStep
<1>3. TypeOK /\ SleepsOn /\ [Next]_vars
        => [(pc \in {"sleep", "sleeping"} /\ pc' = "check") => now - lastTime >= Step]_vars
  <2> SUFFICES ASSUME TypeOK, SleepsOn, Next, pc \in {"sleep", "sleeping"}, pc' = "check"
               PROVE  now - lastTime >= Step
    OBVIOUS
  <2>1. NanosleepReturns
    BY DEF Next, Loop, CreateCall, SkipCreate, StartTick, StepCall, EraseTimedOutCall,
           Advance, FinishTick, StartSleep, Nanosleep, NextPass, Quit, ClockAdvances, Sigterm, Sighup,
           Delivered, InterruptSleep, sleepVars, Exited, vars
  <2>2. now \in Nat /\ lastTime \in Nat /\ Step \in Nat /\ wake \in Nat
    BY DDGenAssumption DEF TypeOK
  <2> QED
    BY <2>1, <2>2 DEF NanosleepReturns, SleepsOn
<1> QED
  BY <1>1, <1>2, <1>3, TypeCorrect, PTL DEF Spec, SleepsToTheTick

-----------------------------------------------------------------------------
(* What the legs of the calls have sent *)

(* The balance of one leg of a call: packets sent and time accumulated make   *)
(* up what the call has played.                                               *)
Balanced(leg, played) ==
    /\ leg.sent * PacketDuration + leg.accumulated = played
    /\ leg.accumulated < PacketDuration

(* Stepping a balanced leg for some time moves its balance on by that time. *)
LEMMA LegStepBalance ==
    ASSUME NEW leg \in Leg, NEW step \in Nat, NEW played \in Int,
           Balanced(leg, played)
    PROVE  Balanced(LegStep(leg, step), played + step)
<1> DEFINE n == PacketsDue(leg, step)
<1>1. n \in Nat /\ (leg.accumulated + step) - n * PacketDuration \in 0 .. PacketDuration - 1
  BY PacketsDueBounds
<1>2. /\ leg.sent \in Nat /\ leg.accumulated \in Nat
      /\ PacketDuration \in Nat
  BY CallAssumption DEF Leg
<1>3. /\ LegStep(leg, step).sent = leg.sent + n
      /\ LegStep(leg, step).accumulated = (leg.accumulated + step) - n * PacketDuration
  BY DEF LegStep, Leg
<1>4. leg.sent * PacketDuration + leg.accumulated = played
  BY DEF Balanced
<1> HIDE DEF n
<1>5. (leg.sent + n) * PacketDuration = leg.sent * PacketDuration + n * PacketDuration
  BY <1>1, <1>2
<1>6. leg.sent * PacketDuration \in Int /\ n * PacketDuration \in Int
  BY <1>1, <1>2
<1>7. (leg.sent + n) * PacketDuration + ((leg.accumulated + step) - n * PacketDuration)
        = played + step
  BY <1>2, <1>4, <1>5, <1>6
<1>8. (leg.accumulated + step) - n * PacketDuration < PacketDuration
  BY <1>1, <1>2
<1> QED
  BY <1>3, <1>7, <1>8 DEF Balanced

(* The balance of all legs of a call. *)
CallBalanced(call) == \A k \in DOMAIN call.legs : Balanced(call.legs[k], Played(call))

(* A call that plays "granted" ms more stays balanced. *)
LEMMA CallStepBalance ==
    ASSUME NEW call \in CallRecord, CallBalanced(call)
    PROVE  /\ CallBalanced(CallStep(call, Step))
           /\ \A k \in DOMAIN call.legs :
                 Balanced(LegStep(call.legs[k], StepGranted(call, Step)),
                          Played(call) + StepGranted(call, Step))
<1> DEFINE granted == StepGranted(call, Step)
           next    == CallStep(call, Step)
<1>1. granted \in Nat
  BY DDGenAssumption DEF StepGranted, CallRecord
<1>2. call.duration * Second \in Nat /\ call.remaining \in Nat
  <2>1. call.duration \in Nat /\ call.remaining \in Nat
    BY CallDurationsType DEF CallRecord
  <2> QED
    BY <2>1, CallAssumption
<1>3. Played(call) \in Int
  BY <1>2 DEF Played
<1>4. \A k \in DOMAIN call.legs : call.legs[k] \in Leg
  BY DEF CallRecord
<1>5. /\ next.legs = [k \in DOMAIN call.legs |-> LegStep(call.legs[k], granted)]
      /\ next.remaining = call.remaining - granted
      /\ next.duration = call.duration
  BY DEF CallStep, CallRecord
<1>6. Played(next) = Played(call) + granted
  BY <1>1, <1>2, <1>5 DEF Played
<1> HIDE DEF granted, next
<1>7. \A k \in DOMAIN call.legs : Balanced(LegStep(call.legs[k], granted), Played(call) + granted)
  BY <1>1, <1>3, <1>4, LegStepBalance DEF CallBalanced
<1>8. CallBalanced(next)
  BY <1>5, <1>6, <1>7 DEF CallBalanced
<1> QED
  BY <1>7, <1>8 DEF granted, next

(* MediaConserved says that the calls of the vector are balanced. *)
LEMMA MediaConservedIsBalance ==
    MediaConserved <=> \A i \in DOMAIN calls : CallBalanced(calls[i])
  BY DEF MediaConserved, LiveCalls, CallBalanced, Balanced

(* The same of the next state. *)
LEMMA MediaConservedIsBalancePrimed ==
    MediaConserved' <=> \A i \in DOMAIN calls' : CallBalanced(calls'[i])
  BY DEF MediaConserved, LiveCalls, CallBalanced, Balanced, Played

(* A new leg has sent nothing of a call that has played nothing. *)
LEMMA NewCallBalance ==
    ASSUME TypeOK,
           NEW duration \in CallDurations,
           NEW rtp \in [LegIndices -> InitialRtp]
    PROVE  CallBalanced(NewCall(duration, NewLegs(ipPool, rtp)))
<1> DEFINE call == NewCall(duration, NewLegs(ipPool, rtp))
<1>1. duration * Second \in Nat
  BY CallDurationsType, CallAssumption
<1>2. Played(call) = 0
  BY <1>1 DEF NewCall, Played
<1>3. call.legs = NewLegs(ipPool, rtp)
  BY DEF NewCall
<1>4. \A k \in DOMAIN NewLegs(ipPool, rtp) :
         /\ NewLegs(ipPool, rtp)[k].sent = 0
         /\ NewLegs(ipPool, rtp)[k].accumulated = 0
  BY DEF NewLegs, NewLeg
<1> HIDE DEF call
<1> QED
  BY <1>2, <1>3, <1>4, CallAssumption DEF CallBalanced, Balanced, call

(* No step of the system unbalances a call. *)
LEMMA MediaStep == TypeOK /\ MediaConserved /\ [Next]_vars => MediaConserved'
<1> SUFFICES ASSUME TypeOK, MediaConserved, [Next]_vars PROVE MediaConserved'
  OBVIOUS
<1> USE DEF itVars, clockVars, passVars, sleepVars, signalVars, tallyVars
<1>1. \A i \in 1 .. Len(calls) : CallBalanced(calls[i])
  BY VectorType, MediaConservedIsBalance
<1>2. SUFFICES ASSUME NEW i \in 1 .. Len(calls') PROVE CallBalanced(calls'[i])
  BY VectorType, MediaConservedIsBalancePrimed
<1>3. Len(calls) \in Nat
  BY DEF TypeOK
<1>4. CASE CreateCall
  <2>1. PICK duration \in CallDurations, rtp \in [LegIndices -> InitialRtp] :
           calls'[Len(calls) + 1] = NewCall(duration, NewLegs(ipPool, rtp))
    BY <1>4, CreateCallEffect
  <2>2. CallBalanced(calls'[Len(calls) + 1])
    BY <2>1, NewCallBalance
  <2> QED
    BY <1>1, <1>3, <1>4, <2>2, CreateCallEffect
<1>5. CASE StepCall
  <2>1. CallBalanced(calls'[NextToStep])
    BY <1>1, <1>5, StepCallEffect, CallStepBalance
  <2> QED
    BY <1>1, <1>5, <2>1, StepCallEffect
<1>6. CASE EraseTimedOutCall
  <2>1. PICK j \in 1 .. Len(calls) : calls'[i] = calls[j]
    BY <1>3, <1>6, EraseTimedOutCallEffect
  <2> QED
    BY <1>1, <2>1
<1>7. CASE Quit
  BY <1>7 DEF Quit
<1>8. CASE UNCHANGED calls
  BY <1>1, <1>8
<1> QED
  BY <1>4, <1>5, <1>6, <1>7, <1>8
     DEF Next, Loop, Exited, SkipCreate, StartTick, Advance, FinishTick, StartSleep,
         Nanosleep, NanosleepReturns, NextPass, ClockAdvances, Sigterm, Sighup, Delivered, vars

(* Each leg has always sent exactly the audio its call has played, but for    *)
(* less than a packet that is still accumulating.                             *)
THEOREM MediaIsConserved == Spec => []MediaConserved
<1>1. Init => MediaConserved
  BY EmptySeq DEF Init, MediaConserved, LiveCalls
<1>2. TypeOK /\ MediaConserved /\ [Next]_vars => MediaConserved'
  BY MediaStep
<1> QED
  BY <1>1, <1>2, TypeCorrect, PTL DEF Spec

-----------------------------------------------------------------------------
(* A call that times out has sent everything *)

(* A whole number of seconds is a whole number of packets, so a leg balanced  *)
(* at that time has nothing accumulated.                                      *)
LEMMA BalancedAtSeconds ==
    ASSUME NEW leg, leg.sent \in Nat, leg.accumulated \in Nat,
           NEW seconds \in Nat,
           Balanced(leg, seconds * Second)
    PROVE  leg.sent * PacketDuration = seconds * Second
<1> DEFINE perSecond == Second \div PacketDuration
<1>1. /\ PacketDuration \in Int /\ PacketDuration > 0
      /\ Second \in Int
      /\ Second % PacketDuration = 0
  BY CallAssumption, DDGenAssumption
<1>2. perSecond \in Int /\ Second = PacketDuration * perSecond
  BY <1>1, Division
<1> HIDE DEF perSecond
<1> DEFINE sent == leg.sent
           left == leg.accumulated
<1>3. /\ sent * PacketDuration + left = seconds * Second
      /\ left < PacketDuration
      /\ sent \in Nat /\ left \in Nat
  BY DEF Balanced
<1> HIDE DEF sent, left
<1> DEFINE surplus == seconds * perSecond - sent
<1>4. surplus \in Int /\ PacketDuration * surplus = left
  <2> DEFINE packets == seconds * perSecond
  <2>1. packets \in Int
    BY <1>2
  <2>2. PacketDuration * packets = seconds * Second
    BY <1>1, <1>2
  <2> HIDE DEF packets
  <2>3. PacketDuration * (packets - sent) = PacketDuration * packets - sent * PacketDuration
    BY <1>1, <1>3, <2>1
  <2>4. sent * PacketDuration \in Int /\ PacketDuration * packets \in Int
    BY <1>1, <1>3, <2>1
  <2>5. packets - sent \in Int /\ PacketDuration * (packets - sent) = left
    BY <1>3, <2>1, <2>2, <2>3, <2>4
  <2> QED
    BY <2>5 DEF packets
<1> HIDE DEF surplus
<1>5. left = 0
  <2>1. 0 <= PacketDuration * surplus /\ PacketDuration * surplus < PacketDuration
    BY <1>3, <1>4
  <2>2. PacketDuration * surplus = 0
    BY <1>1, <1>4, <2>1, SmallMultiple
  <2> QED
    BY <1>4, <2>2
<1> QED
  BY <1>3, <1>5, <1>1 DEF sent

(* A call that is dropped by a step has sent its whole duration. *)
LEMMA EndsCompleteStep ==
    ASSUME TypeOK, MediaConserved, [Next]_vars, pc' # "exited",
           NEW call \in Dropped, NEW k \in DOMAIN call.legs
    PROVE  LegStep(call.legs[k], StepGranted(call, Step)).sent * PacketDuration
             = call.duration * Second
<1> DEFINE last == LegStep(call.legs[k], StepGranted(call, Step))
<1>1. EraseTimedOutCall /\ call = calls[NextToStep] /\ NextToStep \in 1 .. Len(calls)
  BY DroppedIsErased, EraseTimedOutCallEffect
<1>2. call \in CallRecord /\ CallBalanced(call)
  BY <1>1, VectorType, MediaConservedIsBalance
<1>3. call.duration \in Nat /\ call.remaining \in Nat /\ call.legs[k] \in Leg
  <2>1. call.duration \in Nat /\ call.remaining \in Nat /\ call.legs \in Seq(Leg)
    BY <1>2, CallDurationsType DEF CallRecord
  <2> QED
    BY <2>1
<1>4. StepGranted(call, Step) = call.remaining
  BY <1>1, <1>3, NextToStepType, DDGenAssumption DEF EraseTimedOutCall, StillHasTime, StepGranted
<1>5. Balanced(last, Played(call) + call.remaining)
  BY <1>2, <1>4, CallStepBalance
<1>6. Played(call) + call.remaining = call.duration * Second
  <2>1. call.duration * Second \in Nat
    BY <1>3, CallAssumption
  <2> QED
    BY <1>3, <2>1 DEF Played
<1>7. last \in Leg
  BY <1>3, <1>4, LegStepType
<1>8. last.sent \in Nat /\ last.accumulated \in Nat
  BY <1>7 DEF Leg
<1> HIDE DEF last
<1>9. last.sent * PacketDuration = call.duration * Second
  BY <1>3, <1>5, <1>6, <1>8, BalancedAtSeconds
<1> QED
  BY <1>9 DEF last

(* No leg of a call that times out is short of a packet or has sent one more. *)
THEOREM CallsEndComplete == Spec => EndsComplete
<1>1. TypeOK /\ MediaConserved /\ [Next]_vars =>
        [pc' # "exited" => \A call \in Dropped : \A k \in DOMAIN call.legs :
            LegStep(call.legs[k], StepGranted(call, Step)).sent * PacketDuration
                = call.duration * Second]_vars
  BY EndsCompleteStep
<1> QED
  BY <1>1, TypeCorrect, MediaIsConserved, PTL DEF Spec, EndsComplete

-----------------------------------------------------------------------------
(* Where the legs of the calls stand *)

(* The factory's pool after n calls. *)
PoolAt(n) == (StartIp + n * AddressesPerCall) % AddressRange

(* A leg stands where its first values and the packets it has sent put it.    *)
LegLocated(leg, log, k, flow) ==
    /\ leg.flow = flow
    /\ leg.id = (FirstId(k) + leg.sent) % ShortRange
    /\ leg.seq = (log.seq + leg.sent) % ShortRange
    /\ leg.timestamp = (log.timestamp + PacketSize * leg.sent) % UintRange

(* Every leg of a call does, with the flow of a call of that serial number.   *)
CallLocated(call) ==
    /\ DOMAIN call.legs = LegIndices
    /\ DOMAIN call.logged.streams = LegIndices
    /\ \A k \in LegIndices :
          LegLocated(call.legs[k], call.logged.streams[k], k, NewFlows(PoolAt(call.serial))[k])

AllLocated == \A i \in DOMAIN calls : CallLocated(calls[i])

PoolCounts == ipPool = PoolAt(created)

(* The ids of the legs are a whole number apart. *)
LEMMA IdOffsetType == IdOffset \in Nat
<1>1. PICK x \in Nat, n \in Nat \ {0} : x = ShortRange - 1 /\ n = LegCount
  BY LegCountType, CallAssumption
<1>2. x \div n \in Nat
  BY DivisionRemainder
<1> QED
  BY <1>1, <1>2 DEF IdOffset

(* The first ids fit their width. *)
LEMMA FirstIdType ==
    ASSUME NEW k \in LegIndices
    PROVE  FirstId(k) \in 0 .. ShortRange - 1
<1>1. LegCount \in Nat \ {0}
  BY LegCountType
<1>2. IdOffset \in Nat
  BY IdOffsetType
<1>3. (k - 1) * IdOffset \in Nat
  BY <1>1, <1>2 DEF LegIndices
<1>4. PICK x \in Int : x = 1 + (k - 1) * IdOffset
  BY <1>3
<1>5. x % ShortRange \in 0 .. ShortRange - 1
  BY CallAssumption, ModuloType
<1> QED
  BY <1>4, <1>5 DEF FirstId

(* A counter at its first value plus n, moved on by m, is at it plus n + m.   *)
LEMMA CounterMoves ==
    ASSUME NEW d \in Nat \ {0}, NEW first \in Int, NEW n \in Int, NEW m \in Int
    PROVE  (((first + n) % d) + m) % d = (first + (n + m)) % d
<1>1. PICK y \in Int : y = first + n
  OBVIOUS
<1>2. ((y % d) + m) % d = (y + m) % d
  BY ModuloAdd
<1>3. y + m = first + (n + m)
  BY <1>1
<1> QED
  BY <1>1, <1>2, <1>3

(* A leg that stands where it should still does after a step. *)
LEMMA LegStepLocated ==
    ASSUME NEW leg \in Leg, NEW log \in Stream, NEW k \in LegIndices, NEW flow, NEW step \in Nat,
           LegLocated(leg, log, k, flow)
    PROVE  LegLocated(LegStep(leg, step), log, k, flow)
<1> DEFINE n == PacketsDue(leg, step)
<1>1. n \in Nat
  BY PacketsDueBounds
<1>2. /\ LegStep(leg, step).flow = leg.flow
      /\ LegStep(leg, step).id = (leg.id + n) % ShortRange
      /\ LegStep(leg, step).seq = (leg.seq + n) % ShortRange
      /\ LegStep(leg, step).timestamp = (leg.timestamp + n * PacketSize) % UintRange
      /\ LegStep(leg, step).sent = leg.sent + n
  BY DEF LegStep, Leg, TimestampAdvance
<1> HIDE DEF n
<1>3. leg.sent \in Nat /\ log.seq \in Int /\ log.timestamp \in Int
  BY DEF Leg, Stream, Short, Uint
<1>4. /\ FirstId(k) \in Int /\ PacketSize \in Nat
      /\ ShortRange \in Nat \ {0} /\ UintRange \in Nat \ {0}
  BY FirstIdType, CallAssumption
<1>5. LegStep(leg, step).id = (FirstId(k) + LegStep(leg, step).sent) % ShortRange
  <2>1. (((FirstId(k) + leg.sent) % ShortRange) + n) % ShortRange
          = (FirstId(k) + (leg.sent + n)) % ShortRange
    BY <1>1, <1>3, <1>4, CounterMoves
  <2> QED
    BY <1>2, <2>1, Zenon DEF LegLocated
<1>6. LegStep(leg, step).seq = (log.seq + LegStep(leg, step).sent) % ShortRange
  <2>1. (((log.seq + leg.sent) % ShortRange) + n) % ShortRange
          = (log.seq + (leg.sent + n)) % ShortRange
    BY <1>1, <1>3, <1>4, CounterMoves
  <2> QED
    BY <1>2, <2>1, Zenon DEF LegLocated
<1>7. LegStep(leg, step).timestamp
        = (log.timestamp + PacketSize * LegStep(leg, step).sent) % UintRange
  <2>1. PICK a \in Int, b \in Int : a = PacketSize * leg.sent /\ b = n * PacketSize
    BY <1>1, <1>3, <1>4
  <2>2. PacketSize * (leg.sent + n) = a + b
    BY <1>1, <1>3, <1>4, <2>1
  <2>3. (leg.timestamp + b) % UintRange = (log.timestamp + (a + b)) % UintRange
    <3>1. leg.timestamp = (log.timestamp + a) % UintRange
      BY <2>1 DEF LegLocated
    <3>2. (((log.timestamp + a) % UintRange) + b) % UintRange
            = (log.timestamp + (a + b)) % UintRange
      BY <1>3, <1>4, CounterMoves
    <3> QED
      BY <3>1, <3>2, Zenon
  <2> QED
    BY <1>2, <2>1, <2>2, <2>3
<1> QED
  BY <1>2, <1>5, <1>6, <1>7 DEF LegLocated

(* So do all legs of a call. *)
LEMMA CallStepLocated ==
    ASSUME NEW call \in CallRecord, CallLocated(call)
    PROVE  CallLocated(CallStep(call, Step))
<1> DEFINE granted == StepGranted(call, Step)
           next    == CallStep(call, Step)
<1>1. granted \in Nat
  BY DDGenAssumption DEF StepGranted, CallRecord
<1>2. /\ next.legs = [k \in DOMAIN call.legs |-> LegStep(call.legs[k], granted)]
      /\ next.logged = call.logged
      /\ next.serial = call.serial
  BY DEF CallStep, CallRecord
<1> HIDE DEF granted, next
<1>3. /\ \A k \in LegIndices : call.legs[k] \in Leg /\ call.logged.streams[k] \in Stream
      /\ DOMAIN call.legs = LegIndices
      /\ DOMAIN call.logged.streams = LegIndices
  BY DEF CallLocated, CallRecord
<1>4. \A k \in LegIndices : next.legs[k] = LegStep(call.legs[k], granted)
  BY <1>2, <1>3
<1>5. ASSUME NEW k \in LegIndices
      PROVE  LegLocated(next.legs[k], next.logged.streams[k], k, NewFlows(PoolAt(next.serial))[k])
  <2>1. LegLocated(call.legs[k], call.logged.streams[k], k, NewFlows(PoolAt(call.serial))[k])
    BY DEF CallLocated
  <2>2. LegLocated(LegStep(call.legs[k], granted), call.logged.streams[k], k,
                   NewFlows(PoolAt(call.serial))[k])
    BY <1>1, <1>3, <2>1, LegStepLocated
  <2> QED
    BY <1>2, <1>4, <2>2
<1>6. DOMAIN next.legs = LegIndices /\ DOMAIN next.logged.streams = LegIndices
  BY <1>2, <1>3
<1>7. CallLocated(next)
  BY <1>5, <1>6 DEF CallLocated
<1> QED
  BY <1>7 DEF next

(* The legs of a new call stand where they should. *)
LEMMA NewCallLocated ==
    ASSUME TypeOK, PoolCounts,
           NEW duration \in CallDurations,
           NEW rtp \in [LegIndices -> InitialRtp]
    PROVE  CallLocated(NewCall(duration, NewLegs(ipPool, rtp)))
<1> DEFINE legs == NewLegs(ipPool, rtp)
           call == NewCall(duration, legs)
<1>1. /\ call.legs = legs
      /\ call.serial = created
      /\ call.logged.streams = [k \in DOMAIN legs |-> StreamParameters(legs[k])]
  BY DEF NewCall
<1>2. DOMAIN legs = LegIndices
  BY DEF NewLegs
<1>3. ASSUME NEW k \in LegIndices
      PROVE  LegLocated(legs[k], StreamParameters(legs[k]), k, NewFlows(PoolAt(created))[k])
  <2>1. legs[k] = NewLeg(NewFlows(PoolAt(created))[k], FirstId(k), rtp[k])
    BY DEF NewLegs, PoolCounts
  <2>2. rtp[k].seq \in 0 .. ShortRange - 1 /\ rtp[k].timestamp \in 0 .. UintRange - 1
    <3>1. rtp[k] \in Rtp
      BY DDGenAssumption
    <3> QED
      BY <3>1 DEF Rtp, Short, Uint
  <2>3. PacketSize * 0 = 0 /\ rtp[k].seq + 0 = rtp[k].seq /\ rtp[k].timestamp + 0 = rtp[k].timestamp
        /\ FirstId(k) + 0 = FirstId(k)
    BY <2>2, FirstIdType, CallAssumption
  <2>4. /\ FirstId(k) % ShortRange = FirstId(k)
        /\ rtp[k].seq % ShortRange = rtp[k].seq
        /\ rtp[k].timestamp % UintRange = rtp[k].timestamp
    BY <2>2, FirstIdType, ModuloSmall, CallAssumption
  <2> QED
    BY <2>1, <2>3, <2>4 DEF LegLocated, NewLeg, StreamParameters
<1> HIDE DEF legs, call
<1>4. CallLocated(call)
  BY <1>1, <1>2, <1>3 DEF CallLocated
<1> QED
  BY <1>4 DEF legs, call
(* No step of the system moves a leg from where it should stand. *)
LEMMA AllLocatedStep ==
    TypeOK /\ PoolCounts /\ AllLocated /\ [Next]_vars => PoolCounts' /\ AllLocated'
<1> SUFFICES ASSUME TypeOK, PoolCounts, AllLocated, [Next]_vars
             PROVE  PoolCounts' /\ AllLocated'
  OBVIOUS
<1> USE DEF itVars, clockVars, passVars, sleepVars, signalVars, tallyVars
<1>1. \A i \in 1 .. Len(calls) : CallLocated(calls[i])
  BY VectorType DEF AllLocated
<1>2. Len(calls) \in Nat /\ created \in Nat
  BY DEF TypeOK
<1>3. ASSUME UNCHANGED << ipPool, created >> PROVE PoolCounts'
  BY <1>3 DEF PoolCounts, PoolAt
<1>4. SUFFICES /\ PoolCounts'
               /\ \A i \in 1 .. Len(calls') : CallLocated(calls'[i])
  BY VectorType DEF AllLocated, CallLocated, LegLocated, PoolAt
<1>5. CASE CreateCall
  <2>1. PICK duration \in CallDurations, rtp \in [LegIndices -> InitialRtp] :
           calls'[Len(calls) + 1] = NewCall(duration, NewLegs(ipPool, rtp))
    BY <1>5, CreateCallEffect
  <2>2. CallLocated(calls'[Len(calls) + 1])
    BY <2>1, NewCallLocated
  <2>3. PoolCounts'
    <3>1. /\ ipPool' = (PoolAt(created) + AddressesPerCall) % AddressRange
          /\ created' = created + 1
      BY <1>5 DEF CreateCall, PoolAdvance, PoolCounts
    <3>2. AddressesPerCall \in Nat /\ StartIp \in Int /\ AddressRange \in Nat \ {0}
      BY CallAssumption, DDGenAssumption DEF AddressesPerCall, Address
    <3>3. PICK a \in Int : a = created * AddressesPerCall
      BY <1>2, <3>2
    <3>4. (((StartIp + a) % AddressRange) + AddressesPerCall) % AddressRange
             = (StartIp + (a + AddressesPerCall)) % AddressRange
      <4>1. PICK range \in Nat \ {0}, first \in Int, n \in Int :
               range = AddressRange /\ first = StartIp /\ n = AddressesPerCall
        BY <3>2
      <4>2. (((first + a) % range) + n) % range = (first + (a + n)) % range
        BY CounterMoves
      <4> QED
        BY <4>1, <4>2
    <3>5. a + AddressesPerCall = (created + 1) * AddressesPerCall
      BY <1>2, <3>2, <3>3
    <3>6. ipPool' = PoolAt(created + 1)
      BY <3>1, <3>3, <3>4, <3>5, Zenon DEF PoolAt
    <3> QED
      BY <3>1, <3>6 DEF PoolCounts, PoolAt
  <2> QED
    BY <1>1, <1>2, <1>5, <2>2, <2>3, CreateCallEffect
<1>6. CASE StepCall
  <2>1. CallLocated(calls'[NextToStep])
    BY <1>1, <1>6, StepCallEffect, CallStepLocated
  <2>2. PoolCounts'
    BY <1>3, <1>6 DEF StepCall
  <2> QED
    BY <1>1, <1>6, <2>1, <2>2, StepCallEffect
<1>7. CASE EraseTimedOutCall
  <2>1. \A i \in 1 .. Len(calls') : \E j \in 1 .. Len(calls) : calls'[i] = calls[j]
    <3>1. Len(calls) \in Nat /\ NextToStep \in Nat
      BY ClockType
    <3> QED
      BY <1>7, <3>1, EraseTimedOutCallEffect
  <2>2. PoolCounts'
    BY <1>3, <1>7 DEF EraseTimedOutCall
  <2> QED
    BY <1>1, <2>1, <2>2
<1>8. CASE Quit
  BY <1>3, <1>8 DEF Quit
<1>9. CASE UNCHANGED << calls, ipPool, created >>
  BY <1>1, <1>3, <1>9
<1> QED
  BY <1>5, <1>6, <1>7, <1>8, <1>9
     DEF Next, Loop, Exited, SkipCreate, StartTick, Advance, FinishTick, StartSleep,
         Nanosleep, NanosleepReturns, NextPass, ClockAdvances, Sigterm, Sighup, Delivered, vars

(* Every leg always stands where its first values and its packets put it. *)
LEMMA AllLocatedAlways == Spec => [](PoolCounts /\ AllLocated)
<1>1. Init => PoolCounts /\ AllLocated
  <2> SUFFICES ASSUME Init PROVE PoolCounts /\ AllLocated
    OBVIOUS
  <2>1. AllLocated
    BY EmptySeq DEF Init, AllLocated
  <2>2. PoolCounts
    <3>1. 0 * AddressesPerCall = 0 /\ StartIp + 0 = StartIp /\ StartIp \in 0 .. AddressRange - 1
      BY DDGenAssumption DEF AddressesPerCall, Address
    <3>2. StartIp % AddressRange = StartIp
      BY <3>1, ModuloSmall, CallAssumption
    <3>3. PoolAt(0) = StartIp
      BY <3>1, <3>2, Zenon DEF PoolAt
    <3> QED
      BY <3>3 DEF Init, PoolCounts
  <2> QED
    BY <2>1, <2>2
<1>2. TypeOK /\ (PoolCounts /\ AllLocated) /\ [Next]_vars => (PoolCounts /\ AllLocated)'
  BY AllLocatedStep
<1> QED
  BY <1>1, <1>2, TypeCorrect, PTL DEF Spec

(* What was logged of a stream locates all its packets, however often its     *)
(* sequence number and timestamp have wrapped.                                *)
THEOREM StreamsAreLocated == Spec => []LogLocatesStream
<1>1. AllLocated => LogLocatesStream
  BY DEF AllLocated, CallLocated, LegLocated, LogLocatesStream, LiveCalls
<1> QED
  BY <1>1, AllLocatedAlways, PTL

-----------------------------------------------------------------------------
(* The ids of the legs of a call *)

(* Two legs that have accumulated less than a packet each on the same time    *)
(* have sent as many packets.                                                 *)
LEMMA SentAlike ==
    ASSUME NEW leg \in Leg, NEW other \in Leg, NEW played \in Int,
           Balanced(leg, played), Balanced(other, played)
    PROVE  leg.sent = other.sent
<1>1. PICK m \in Nat, n \in Nat, a \in Nat, b \in Nat :
         m = leg.sent /\ n = other.sent /\ a = leg.accumulated /\ b = other.accumulated
  BY DEF Leg
<1>2. PICK d \in Nat \ {0} : d = PacketDuration
  BY CallAssumption
<1>3. m * d + a = n * d + b /\ a < d /\ b < d
  BY <1>1, <1>2 DEF Balanced
<1>4. d * (m - n) = b - a /\ d * (n - m) = a - b
  <2>1. d * (m - n) = m * d - n * d /\ d * (n - m) = n * d - m * d
    OBVIOUS
  <2>2. m * d \in Int /\ n * d \in Int
    OBVIOUS
  <2> QED
    BY <1>3, <2>1, <2>2
<1>5. a = b
  <2>1. CASE b >= a
    <3>1. d * (m - n) = 0
      BY <1>3, <1>4, <2>1, SmallMultiple
    <3> QED
      BY <1>4, <3>1
  <2>2. CASE b < a
    <3>1. d * (n - m) = 0
      BY <1>3, <1>4, <2>2, SmallMultiple
    <3> QED
      BY <1>4, <3>1
  <2> QED
    BY <2>1, <2>2
<1>6. d * (m - n) = 0
  BY <1>4, <1>5
<1>7. m - n = 0
  BY <1>6
<1> QED
  BY <1>1, <1>7

(* The first ids of the legs of a call are IdOffset apart, all around.        *)
LEMMA FirstIdsApart ==
    ASSUME NEW k \in LegIndices, NEW l \in LegIndices, k # l
    PROVE  ((k - l) * IdOffset) % ShortRange >= IdOffset
<1>1. PICK n \in Nat \ {0} : n = LegCount
  BY LegCountType
<1>2. PICK range \in Nat \ {0} : range = ShortRange
  BY CallAssumption
<1>3. PICK offset \in Nat : offset = IdOffset /\ n * offset <= range - 1
  <2>1. IdOffset = (range - 1) \div n
    BY <1>1, <1>2 DEF IdOffset
  <2>2. PICK x \in Nat : x = range - 1
    OBVIOUS
  <2>3. x \div n \in Nat /\ x - (x \div n) * n \in 0 .. n - 1
    BY <2>2, DivisionRemainder
  <2>4. PICK q \in Nat : q = x \div n
    BY <2>3
  <2>5. n * q <= x
    <3>1. n * q = q * n /\ n * q \in Int
      OBVIOUS
    <3> QED
      BY <2>3, <2>4, <3>1
  <2> QED
    BY <2>1, <2>2, <2>4, <2>5
<1>4. k \in 1 .. n /\ l \in 1 .. n
  BY <1>1 DEF LegIndices
<1>5. CASE k > l
  <2>1. PICK m \in Nat : m = k - l /\ 1 <= m /\ m <= n - 1
    BY <1>4, <1>5
  <2>2. m * offset >= offset /\ m * offset <= n * offset
    BY <1>3, <2>1
  <2>3. PICK x \in Nat : x = m * offset /\ offset <= x /\ x <= range - 1
    BY <1>3, <2>2
  <2>4. x % range = x
    BY <2>3, ModuloSmall
  <2> QED
    BY <1>2, <1>3, <2>1, <2>3, <2>4
<1>6. CASE k < l
  <2>1. PICK m \in Nat : m = l - k /\ 1 <= m /\ m <= n - 1
    BY <1>4, <1>6
  <2>2. m * offset >= 0 /\ m * offset <= (n - 1) * offset
    BY <1>3, <2>1
  <2>3. (n - 1) * offset = n * offset - offset /\ n * offset \in Int
    BY <1>3
  <2>4. PICK x \in Nat : x = m * offset /\ x <= (range - 1) - offset
    BY <1>3, <2>2, <2>3
  <2>5. (k - l) * offset = -x
    <3>1. k - l = -m
      BY <1>4, <2>1
    <3>2. (-m) * offset = -(m * offset)
      BY <1>3
    <3> QED
      BY <2>4, <3>1, <3>2
  <2>6. CASE x = 0
    <3>1. offset = 0
      BY <2>1, <2>4, <2>6, <1>3
    <3>2. 0 % range \in 0 .. range - 1
      BY ModuloType
    <3> QED
      BY <1>2, <1>3, <2>5, <2>6, <3>1, <3>2
  <2>7. CASE x > 0
    <3>1. PICK y \in Int : y = range - x /\ y >= offset /\ y \in 0 .. range - 1
      BY <1>3, <2>4, <2>7
    <3>2. y % range = y
      BY <3>1, ModuloSmall
    <3>3. PICK z \in Int : z = -x
      OBVIOUS
    <3>4. (y + range * (-1)) % range = y % range
      <4>1. PICK turns \in Int : turns = -1
        OBVIOUS
      <4>2. (y + range * turns) % range = y % range
        BY ModuloTurns, Zenon
      <4> QED
        BY <4>1, <4>2
    <3>5. y + range * (-1) = z
      BY <3>1, <3>3
    <3> QED
      BY <1>2, <1>3, <2>5, <3>1, <3>2, <3>3, <3>4, <3>5
  <2> QED
    BY <2>6, <2>7
<1> QED
  BY <1>4, <1>5, <1>6

(* The legs of a call never come closer in the ipv4 id space than they were   *)
(* at its beginning, as they send their packets alike.                        *)
THEOREM IdsStayApart == Spec => []IdsApart
<1>1. TypeOK /\ AllLocated /\ MediaConserved => IdsApart
  <2> SUFFICES ASSUME TypeOK, AllLocated, MediaConserved,
                      NEW i \in DOMAIN calls,
                      NEW k \in DOMAIN calls[i].legs, NEW l \in DOMAIN calls[i].legs, k # l
               PROVE  (calls[i].legs[k].id - calls[i].legs[l].id) % ShortRange >= IdOffset
    BY DEF IdsApart, LiveCalls
  <2> DEFINE leg == calls[i].legs[k]
             other == calls[i].legs[l]
  <2>1. calls[i] \in CallRecord
    BY DEF TypeOK
  <2>2. leg \in Leg /\ other \in Leg
    BY <2>1 DEF CallRecord
  <2>3. k \in LegIndices /\ l \in LegIndices
    BY DEF AllLocated, CallLocated
  <2>4. /\ leg.id = (FirstId(k) + leg.sent) % ShortRange
        /\ other.id = (FirstId(l) + other.sent) % ShortRange
    BY <2>3 DEF AllLocated, CallLocated, LegLocated
  <2>5. Balanced(leg, Played(calls[i])) /\ Balanced(other, Played(calls[i]))
    BY MediaConservedIsBalance DEF CallBalanced
  <2>6. leg.sent = other.sent
    BY <2>1, <2>2, <2>5, PlayedType, SentAlike
  <2>7. PICK n \in Int, range \in Nat \ {0} : n = leg.sent /\ range = ShortRange
    BY <2>2, CallAssumption DEF Leg
  <2> HIDE DEF leg, other
  <2>8. PICK offset \in Nat : offset = IdOffset
    BY IdOffsetType
  <2>9. PICK a \in Int, b \in Int : a = (k - 1) * offset /\ b = (l - 1) * offset
    BY <2>3, LegCountType DEF LegIndices
  <2>10. FirstId(k) = (1 + a) % range /\ FirstId(l) = (1 + b) % range
    BY <2>7, <2>8, <2>9 DEF FirstId
  <2>11. leg.id = ((1 + a) + n) % range /\ other.id = ((1 + b) + n) % range
    <3>1. PICK x \in Int, y \in Int : x = 1 + a /\ y = 1 + b
      OBVIOUS
    <3>2. ((x % range) + n) % range = (x + n) % range
      BY ModuloAdd, Zenon
    <3>3. ((y % range) + n) % range = (y + n) % range
      BY ModuloAdd, Zenon
    <3> QED
      BY <2>4, <2>6, <2>7, <2>10, <3>1, <3>2, <3>3
  <2>12. (leg.id - other.id) % range = (a - b) % range
    <3>1. PICK x \in Int, y \in Int : x = (1 + a) + n /\ y = (1 + b) + n
      OBVIOUS
    <3>2. ((x % range) - (y % range)) % range = (x - y) % range
      BY ModuloDifference
    <3>3. x - y = a - b
      BY <3>1
    <3> QED
      BY <2>11, <3>1, <3>2, <3>3
  <2>13. a - b = (k - l) * IdOffset
    BY <2>3, <2>8, <2>9, LegCountType DEF LegIndices
  <2>14. ((k - l) * IdOffset) % ShortRange >= IdOffset
    BY <2>3, FirstIdsApart
  <2>15. (leg.id - other.id) % ShortRange >= IdOffset
    BY <2>7, <2>12, <2>13, <2>14
  <2> QED
    BY <2>15 DEF leg, other
<1> QED
  BY <1>1, AllLocatedAlways, TypeCorrect, MediaIsConserved, PTL
-----------------------------------------------------------------------------
(* The flows of the calls that are on *)

(* How many calls there may be from the creation of one to its end: no more   *)
(* than the vector holds in each tick of the longest call.                    *)
CallsInALife == NumberOfCalls * (LongestCall * (Second \div Step) + 1)

(* What bounds the calls created since the one at index i: those behind it in *)
(* the vector, and as many as the vector holds for each tick begun since.     *)
Recent(i) ==
    created + i <= calls[i].serial + 1 + (IF pc = "stepping" THEN 0 ELSE Len(calls))
                       + NumberOfCalls * (ticks - calls[i].born)

SerialsRecent == \A i \in DOMAIN calls : Recent(i)

(* No step of the system makes a call older than that. *)
LEMMA SerialsRecentStep == TypeOK /\ SerialsRecent /\ [Next]_vars => SerialsRecent'
<1> SUFFICES ASSUME TypeOK, SerialsRecent, [Next]_vars PROVE SerialsRecent'
  OBVIOUS
<1> USE DEF itVars, clockVars, passVars, sleepVars, signalVars, tallyVars
<1>1. \A i \in 1 .. Len(calls) : Recent(i)
  BY VectorType DEF SerialsRecent
<1>2. /\ created \in Nat /\ ticks \in Nat /\ Len(calls) \in Nat /\ NextToStep \in Nat
      /\ NumberOfCalls \in Nat /\ Len(calls) <= NumberOfCalls
  BY ClockType, DDGenAssumption DEF TypeOK
<1>3. \A i \in 1 .. Len(calls) :
         /\ calls[i].serial \in Nat /\ calls[i].born \in Nat
         /\ NumberOfCalls * (ticks - calls[i].born) \in Int
  <2>1. \A i \in 1 .. Len(calls) : calls[i].serial \in Nat /\ calls[i].born \in Nat
    BY VectorType DEF CallRecord
  <2> QED
    BY <1>2, <2>1
<1>4. SUFFICES ASSUME NEW i \in 1 .. Len(calls') PROVE Recent(i)'
  BY VectorType DEF SerialsRecent
<1>5. CASE CreateCall
  <2>1. PICK duration \in CallDurations, rtp \in [LegIndices -> InitialRtp] :
           calls'[Len(calls) + 1] = NewCall(duration, NewLegs(ipPool, rtp))
    BY <1>5, CreateCallEffect
  <2>2. /\ calls'[Len(calls) + 1].serial = created
        /\ calls'[Len(calls) + 1].born = ticks
    BY <2>1 DEF NewCall
  <2>3. pc = "create" /\ pc' = "clock" /\ created' = created + 1 /\ ticks' = ticks
    BY <1>5 DEF CreateCall
  <2>4. /\ Len(calls') = Len(calls) + 1
        /\ \A j \in 1 .. Len(calls) : calls'[j] = calls[j]
    BY <1>5, CreateCallEffect
  <2>5. CASE i = Len(calls) + 1
    <3>1. NumberOfCalls * (ticks - ticks) = 0
      BY <1>2
    <3> QED
      BY <1>2, <2>2, <2>3, <2>4, <2>5, <3>1 DEF Recent
  <2>6. CASE i \in 1 .. Len(calls)
    <3>1. PICK n \in Int : n = NumberOfCalls * (ticks - calls[i].born)
      BY <1>3, <2>6
    <3>2. created + i <= calls[i].serial + 1 + Len(calls) + n
      BY <1>1, <2>3, <2>6, <3>1 DEF Recent
    <3>3. (created + 1) + i <= calls[i].serial + 1 + (Len(calls) + 1) + n
      BY <1>2, <1>3, <2>6, <3>2, SMTT(30)
    <3>4. /\ calls'[i] = calls[i] /\ Len(calls') = Len(calls) + 1
          /\ created' = created + 1 /\ ticks' = ticks /\ pc' # "stepping"
      BY <2>3, <2>4, <2>6
    <3>5. PICK late \in Int :
             /\ late = calls[i].serial + 1 + (Len(calls) + 1) + n
             /\ (created + 1) + i <= late
      BY <1>2, <1>3, <2>6, <3>3
    <3>6. calls'[i].serial + 1 + Len(calls') + NumberOfCalls * (ticks' - calls'[i].born) = late
      BY <3>1, <3>4, <3>5
    <3> QED
      BY <3>4, <3>5, <3>6 DEF Recent
  <2> QED
    BY <1>2, <2>4, <2>5, <2>6
<1>6. CASE StartTick
  <2>1. UNCHANGED << calls, created >> /\ pc = "clock" /\ pc' = "stepping" /\ ticks' = ticks + 1
    BY <1>6 DEF StartTick
  <2>2. PICK b \in Int : b = ticks - calls[i].born
    BY <1>2, <1>3, <2>1
  <2>3. (ticks + 1) - calls[i].born = b + 1
    <3>1. PICK born \in Nat : born = calls[i].born
      BY <1>3, <2>1
    <3>2. PICK n \in Nat : n = ticks
      BY <1>2
    <3>3. b = n - born
      BY <2>2, <3>1, <3>2
    <3>4. (n + 1) - born = b + 1
      BY <3>3
    <3> QED
      BY <3>1, <3>2, <3>4
  <2>4. PICK n \in Int : n = NumberOfCalls * b
    <3>1. NumberOfCalls \in Nat
      BY <1>2
    <3>2. NumberOfCalls * b \in Int
      BY <3>1
    <3> QED
      BY <3>2
  <2>5. NumberOfCalls * (b + 1) = n + NumberOfCalls
    BY <1>2, <2>4
  <2>6. created + i <= calls[i].serial + 1 + Len(calls) + n
    BY <1>1, <2>1, <2>2, <2>4 DEF Recent
  <2>7. created + i <= calls[i].serial + 1 + 0 + (n + NumberOfCalls)
    BY <1>2, <1>3, <2>1, <2>6
  <2> QED
    BY <2>1, <2>3, <2>5, <2>7 DEF Recent
<1>7. CASE StepCall
  <2>1. calls'[NextToStep].serial = calls[NextToStep].serial /\ calls'[NextToStep].born = calls[NextToStep].born
    BY <1>7, StepCallEffect DEF CallStep, CallRecord
  <2>2. UNCHANGED << pc, created, ticks >>
    BY <1>7 DEF StepCall
  <2>3. i \in 1 .. Len(calls) /\ Len(calls') = Len(calls) /\ (i # NextToStep => calls'[i] = calls[i])
    BY <1>7, StepCallEffect
  <2>4. calls'[i].serial = calls[i].serial /\ calls'[i].born = calls[i].born
    BY <2>1, <2>3
  <2> QED
    BY <1>1, <2>2, <2>3, <2>4 DEF Recent
<1>8. CASE EraseTimedOutCall
  <2>1. PICK j \in 1 .. Len(calls) : calls'[i] = calls[j] /\ i <= j
    BY <1>2, <1>8, EraseTimedOutCallEffect
  <2>2. UNCHANGED << pc, created, ticks >> /\ pc = "stepping"
    BY <1>8 DEF EraseTimedOutCall
  <2>3. PICK n \in Int : n = NumberOfCalls * (ticks - calls[j].born)
    BY <1>3
  <2>4. created + j <= calls[j].serial + 1 + 0 + n
    BY <1>1, <2>2, <2>3 DEF Recent
  <2>5. i \in Nat
    BY VectorType
  <2>6. created + i <= calls[j].serial + 1 + 0 + n
    BY <1>2, <1>3, <2>1, <2>4, <2>5
  <2> QED
    BY <2>1, <2>2, <2>3, <2>6 DEF Recent
<1>9. CASE FinishTick
  <2>1. UNCHANGED << calls, created, ticks >> /\ pc = "stepping" /\ pc' = "check"
    BY <1>9 DEF FinishTick
  <2>2. PICK n \in Int : n = NumberOfCalls * (ticks - calls[i].born)
    BY <1>3, <2>1
  <2>3. created + i <= calls[i].serial + 1 + 0 + n
    BY <1>1, <2>1, <2>2 DEF Recent
  <2>4. created + i <= calls[i].serial + 1 + Len(calls) + n
    BY <1>2, <1>3, <2>1, <2>3
  <2> QED
    BY <2>1, <2>2, <2>4 DEF Recent
<1>10. CASE Quit
  BY <1>10 DEF Quit
<1>11. CASE UNCHANGED << calls, created, ticks >> /\ pc # "stepping" /\ pc' # "stepping"
  BY <1>1, <1>11 DEF Recent
<1>12. CASE UNCHANGED << calls, created, ticks, pc >>
  BY <1>1, <1>12 DEF Recent
<1>13. CASE SkipCreate \/ StartSleep \/ Nanosleep \/ NanosleepReturns \/ NextPass
  BY <1>11, <1>13 DEF SkipCreate, StartSleep, Nanosleep, NanosleepReturns, NextPass
<1>14. CASE ClockAdvances \/ UNCHANGED vars
  BY <1>12, <1>14 DEF ClockAdvances, vars
<1>15. CASE Sigterm \/ Sighup
  BY <1>11, <1>12, <1>15 DEF Sigterm, Sighup, Delivered, InterruptSleep
<1>16. CASE Advance
  BY <1>12, <1>16 DEF Advance
<1> QED
  BY <1>5, <1>6, <1>7, <1>8, <1>9, <1>10, <1>13, <1>14, <1>15, <1>16 DEF Next, Loop, Exited

(* A call that is on is one of the last CallsInALife created.                 *)
LEMMA LivesAreShort ==
    ASSUME TypeOK, SteppedOncePerTick, SerialsRecent, NEW i \in 1 .. Len(calls)
    PROVE  created - calls[i].serial <= CallsInALife
<1> DEFINE call == calls[i]
<1>1. call \in CallRecord
  BY DEF TypeOK
<1>2. /\ call.serial \in Nat /\ call.born \in Nat /\ call.remaining \in Nat
      /\ call.duration \in CallDurations
  BY <1>1 DEF CallRecord
<1>3. /\ created \in Nat /\ ticks \in Nat /\ Len(calls) \in Nat /\ NextToStep \in Nat
      /\ Len(calls) <= NumberOfCalls
  BY ClockType DEF TypeOK
<1>4. PICK capacity \in Nat, step \in Nat \ {0}, second \in Nat :
         capacity = NumberOfCalls /\ step = Step /\ second = Second /\ second % step = 0
  BY CallAssumption, DDGenAssumption
<1>5. PICK longest \in Nat, duration \in Nat :
         longest = LongestCall /\ duration = call.duration /\ duration <= longest
  BY <1>2, CallDurationsType, DDGenAssumption DEF CallDurations, LongestCall
<1>6. PICK b \in Int, taken \in Int :
         /\ b = ticks - call.born
         /\ taken = TicksTaken(i)
         /\ taken = b - (IF pc = "stepping" /\ i >= NextToStep THEN 1 ELSE 0)
  <2>1. ticks - call.born \in Int
    BY <1>2, <1>3
  <2>2. TicksTaken(i) = ticks - call.born - (IF pc = "stepping" /\ i >= NextToStep THEN 1 ELSE 0)
    BY DEF TicksTaken
  <2>3. PICK b \in Int : b = ticks - call.born
    BY <2>1
  <2>4. TicksTaken(i) = b - (IF pc = "stepping" /\ i >= NextToStep THEN 1 ELSE 0)
    BY <2>2, <2>3
  <2>5. TicksTaken(i) \in Int
    BY <2>4
  <2> QED
    BY <2>3, <2>4, <2>5
<1>7. duration * second - call.remaining = step * taken
  <2>1. Played(call) = Step * TicksTaken(i)
    BY DEF SteppedOncePerTick, TypeOK
  <2> QED
    BY <1>4, <1>5, <1>6, <2>1 DEF Played
<1>8. created + i <= call.serial + 1 + (IF pc = "stepping" THEN 0 ELSE Len(calls)) + capacity * b
  BY <1>4, <1>6 DEF SerialsRecent, Recent, TypeOK
<1> HIDE DEF call
<1>9. PICK perSecond \in Nat : perSecond = Second \div Step /\ second = step * perSecond
  <2>1. second \div step \in Nat
    BY DivisionRemainder
  <2>2. second = step * (second \div step) + (second % step)
    BY Division
  <2>3. PICK q \in Nat : q = second \div step
    BY <2>1
  <2>4. second = step * q
    BY <1>4, <2>2, <2>3
  <2> QED
    BY <1>4, <2>3, <2>4
<1>10. PICK life \in Nat : life = longest * perSecond
  OBVIOUS
<1>11. taken <= life
  <2>1. PICK a \in Nat, c \in Nat : a = duration * perSecond /\ c = longest * perSecond /\ a <= c
    BY <1>5
  <2>2. duration * second = step * a
    BY <1>9, <2>1
  <2>3. step * taken <= step * a
    BY <1>2, <1>7, <2>2, SMTT(30)
  <2>4. taken <= a
    BY <2>3
  <2> QED
    BY <1>10, <2>1, <2>4
<1>12. PICK most \in Nat : most = capacity * (life + 1)
  OBVIOUS
<1>13. most = CallsInALife
  BY <1>4, <1>5, <1>9, <1>10, <1>12 DEF CallsInALife
<1>14. PICK n \in Int : n = capacity * b
  OBVIOUS
<1>15. n + (IF pc = "stepping" THEN 0 ELSE Len(calls)) <= most
  <2>1. CASE pc = "stepping"
    <3>1. b <= life + 1
      BY <1>6, <1>11
    <3>2. capacity * b <= capacity * (life + 1)
      BY <3>1
    <3> QED
      BY <1>12, <1>14, <2>1, <3>2
  <2>2. CASE pc # "stepping"
    <3>1. b <= life
      BY <1>6, <1>11, <2>2
    <3>2. capacity * b <= capacity * life /\ capacity * (life + 1) = capacity * life + capacity
      BY <3>1
    <3>3. capacity * life \in Int
      OBVIOUS
    <3> QED
      BY <1>3, <1>4, <1>12, <1>14, <2>2, <3>2, <3>3
  <2> QED
    BY <2>1, <2>2
<1>16. created - call.serial <= most
  <2>1. PICK waiting \in Nat : waiting = IF pc = "stepping" THEN 0 ELSE Len(calls)
    BY <1>3
  <2>2. i \in Nat /\ i >= 1
    BY <1>3
  <2>3. created + i <= call.serial + 1 + waiting + n /\ n + waiting <= most
    BY <1>8, <1>14, <1>15, <2>1
  <2> QED
    BY <1>2, <1>3, <2>2, <2>3, SMTT(30)
<1> QED
  BY <1>13, <1>16 DEF call
(* How far behind the pool the source address of leg k is. *)
Behind(k) == IF Traffic = "DrLink" THEN 0 ELSE k - 1

(* The source address of a leg, as a counter that wraps. *)
LEMMA SourceAddress ==
    ASSUME NEW n \in Nat, NEW k \in LegIndices
    PROVE  /\ Behind(k) \in 0 .. AddressesPerCall - 1
           /\ AddressesPerCall \in {1, 2}
           /\ NewFlows(PoolAt(n))[k].srcIp
                = (StartIp + (n * AddressesPerCall + Behind(k))) % AddressRange
<1>1. PICK a \in Int, first \in Int, range \in Nat \ {0} :
         a = n * AddressesPerCall /\ first = StartIp /\ range = AddressRange
  BY CallAssumption, DDGenAssumption DEF AddressesPerCall, Address
<1>2. PoolAt(n) = (first + a) % range
  BY <1>1 DEF PoolAt
<1>3. CASE Traffic = "DrLink"
  <2>1. NewFlows(PoolAt(n))[k].srcIp = PoolAt(n)
    BY <1>3 DEF NewFlows, DRLinkFlows, LegIndices, LegCount
  <2>2. Behind(k) = 0 /\ AddressesPerCall = 1 /\ a + 0 = a
    BY <1>3 DEF Behind, AddressesPerCall
  <2>3. Behind(k) \in 0 .. AddressesPerCall - 1
    BY <2>2
  <2> QED
    BY <1>1, <1>2, <2>1, <2>2, <2>3
<1>4. CASE Traffic # "DrLink"
  <2>1. k \in {1, 2} /\ AddressesPerCall = 2 /\ Behind(k) = k - 1
    BY <1>4 DEF LegIndices, LegCount, AddressesPerCall, Behind
  <2>2. Behind(k) \in 0 .. AddressesPerCall - 1
    BY <2>1
  <2>3. /\ NewFlows(PoolAt(n))[1].srcIp = PoolAt(n)
        /\ NewFlows(PoolAt(n))[2].srcIp = PoolAdvance(PoolAt(n), 1)
    BY <1>4 DEF NewFlows, MirrorFlows
  <2>4. PoolAdvance(PoolAt(n), 1) = (first + (a + 1)) % range
    <3>1. (((first + a) % range) + 1) % range = (first + (a + 1)) % range
      <4>1. PICK one \in Int : one = 1
        OBVIOUS
      <4>2. (((first + a) % range) + one) % range = (first + (a + one)) % range
        BY CounterMoves, Zenon
      <4> QED
        BY <4>1, <4>2
    <3> QED
      BY <1>1, <1>2, <3>1 DEF PoolAdvance
  <2>5. CASE k = 1
    BY <1>1, <1>2, <2>1, <2>2, <2>3, <2>5
  <2>6. CASE k = 2
    BY <1>1, <2>1, <2>2, <2>3, <2>4, <2>6
  <2> QED
    BY <2>1, <2>5, <2>6
<1> QED
  BY <1>3, <1>4

(* Counters of addresses that differ by less than the range differ.           *)
LEMMA AddressesDiffer ==
    ASSUME NEW a \in Int, NEW b \in Int, 0 < b - a, b - a < AddressRange
    PROVE  (StartIp + a) % AddressRange # (StartIp + b) % AddressRange
<1>1. PICK first \in Int, range \in Nat \ {0} : first = StartIp /\ range = AddressRange
  BY CallAssumption, DDGenAssumption DEF Address
<1>2. PICK x \in Int, y \in Int : x = first + a /\ y = first + b
  OBVIOUS
<1>3. 0 < y - x /\ y - x < range
  BY <1>1, <1>2
<1>4. x % range # y % range
  BY <1>3, ModuloDistinct
<1> QED
  BY <1>1, <1>2, <1>4

(* A call and a later one have no source address in common, as long as fewer  *)
(* calls than there are addresses for are created from one to the other.      *)
LEMMA CallsHaveOwnFlows ==
    ASSUME NEW m \in Nat, NEW n \in Nat, m < n,
           NEW most \in Nat, n - m < most, AddressesPerCall * most <= AddressRange,
           NEW k \in LegIndices, NEW l \in LegIndices
    PROVE  NewFlows(PoolAt(m))[k] # NewFlows(PoolAt(n))[l]
<1>1. PICK per \in {1, 2}, s \in Int, t \in Int :
         /\ per = AddressesPerCall
         /\ s = Behind(k) /\ s \in 0 .. per - 1
         /\ t = Behind(l) /\ t \in 0 .. per - 1
  <2>1. /\ Behind(k) \in 0 .. AddressesPerCall - 1
        /\ Behind(l) \in 0 .. AddressesPerCall - 1
        /\ AddressesPerCall \in {1, 2}
    BY SourceAddress
  <2> QED
    BY <2>1
<1>2. PICK a \in Int, b \in Int : a = m * per + s /\ b = n * per + t
  BY <1>1
<1>3. 0 < b - a /\ b - a < AddressRange
  <2>1. AddressRange \in Nat
    BY CallAssumption
  <2>2. CASE per = 1
    BY <1>1, <1>2, <2>1, <2>2
  <2>3. CASE per = 2
    BY <1>1, <1>2, <2>1, <2>3
  <2> QED
    BY <1>1, <2>2, <2>3
<1>4. (StartIp + a) % AddressRange # (StartIp + b) % AddressRange
  BY <1>3, AddressesDiffer
<1>5. /\ NewFlows(PoolAt(m))[k].srcIp = (StartIp + a) % AddressRange
      /\ NewFlows(PoolAt(n))[l].srcIp = (StartIp + b) % AddressRange
  BY <1>1, <1>2, SourceAddress
<1> QED
  BY <1>4, <1>5

(* The legs of a call differ in their source address, or in their source port *)
(* if there are ports for all of them.                                        *)
LEMMA LegsHaveOwnFlows ==
    ASSUME NEW n \in Nat, AddressesPerCall <= AddressRange,
           Traffic = "DrLink" => 2 * Len(Destinations) <= ShortRange,
           NEW k \in LegIndices, NEW l \in LegIndices, k < l
    PROVE  NewFlows(PoolAt(n))[k] # NewFlows(PoolAt(n))[l]
<1>1. CASE Traffic = "DrLink"
  <2>1. PICK count \in Nat, base \in Nat, range \in Nat \ {0} :
           count = Len(Destinations) /\ base = BasePort /\ range = ShortRange /\ 2 * count <= range
    BY <1>1, CallAssumption
  <2>2. k \in 1 .. count /\ l \in 1 .. count
    BY <1>1, <2>1 DEF LegIndices, LegCount
  <2>3. PICK x \in Int, y \in Int : x = base + 2 * (k - 1) /\ y = base + 2 * (l - 1)
    BY <2>2
  <2>4. 0 < y - x /\ y - x < range
    BY <2>1, <2>2, <2>3
  <2>5. x % range # y % range
    BY <2>4, ModuloDistinct
  <2>6. /\ NewFlows(PoolAt(n))[k].srcPort = x % range
        /\ NewFlows(PoolAt(n))[l].srcPort = y % range
    BY <1>1, <2>1, <2>2, <2>3 DEF NewFlows, DRLinkFlows
  <2> QED
    BY <2>5, <2>6
<1>2. CASE Traffic # "DrLink"
  <2>1. k = 1 /\ l = 2 /\ AddressesPerCall = 2
    BY <1>2 DEF LegIndices, LegCount, AddressesPerCall
  <2>2. Behind(k) = 0 /\ Behind(l) = 1
    BY <1>2, <2>1 DEF Behind
  <2>3. PICK a \in Int, b \in Int : a = n * 2 + 0 /\ b = n * 2 + 1
    OBVIOUS
  <2>4. 0 < b - a /\ b - a < AddressRange
    BY <2>1, <2>3, CallAssumption
  <2>5. (StartIp + a) % AddressRange # (StartIp + b) % AddressRange
    BY <2>4, AddressesDiffer
  <2>6. /\ NewFlows(PoolAt(n))[k].srcIp = (StartIp + a) % AddressRange
        /\ NewFlows(PoolAt(n))[l].srcIp = (StartIp + b) % AddressRange
    BY <2>1, <2>2, <2>3, SourceAddress
  <2> QED
    BY <2>5, <2>6
<1> QED
  BY <1>1, <1>2

(* Two legs that are on never share a flow, however often the pool has        *)
(* wrapped, if it has addresses for all the calls that can be created while   *)
(* the longest call lasts, and a call has ports for all its legs.             *)
THEOREM FlowsStayDistinct ==
    ASSUME AddressesPerCall * CallsInALife <= AddressRange,
           Traffic = "DrLink" => 2 * Len(Destinations) <= ShortRange
    PROVE  Spec => []FlowsDistinct
<1>1. Init => SerialsRecent
  BY EmptySeq DEF Init, SerialsRecent
<1>2. TypeOK /\ SerialsRecent /\ [Next]_vars => SerialsRecent'
  BY SerialsRecentStep
<1>3. Init => SerialsTaken
  BY EmptySeq DEF Init, SerialsTaken
<1>4. TypeOK /\ SerialsTaken /\ CreationOrder /\ [Next]_vars => SerialsTaken'
  BY CreationOrderStep
<1>5. TypeOK /\ SteppedOncePerTick /\ SerialsRecent /\ SerialsTaken /\ CreationOrder /\ AllLocated
        => FlowsDistinct
  <2> SUFFICES ASSUME TypeOK, SteppedOncePerTick, SerialsRecent, SerialsTaken, CreationOrder,
                      AllLocated,
                      NEW i \in DOMAIN calls, NEW j \in DOMAIN calls,
                      NEW k \in DOMAIN calls[i].legs, NEW l \in DOMAIN calls[j].legs,
                      i # j \/ k # l
               PROVE  calls[i].legs[k].flow # calls[j].legs[l].flow
    BY DEF FlowsDistinct
  <2>1. i \in 1 .. Len(calls) /\ j \in 1 .. Len(calls)
    BY DEF TypeOK
  <2>2. PICK m \in Nat, n \in Nat, c \in Nat :
           m = calls[i].serial /\ n = calls[j].serial /\ c = created /\ m < c /\ n < c
    <3>1. calls[i] \in CallRecord /\ calls[j] \in CallRecord /\ created \in Nat
      BY DEF TypeOK
    <3>2. calls[i].serial \in Nat /\ calls[j].serial \in Nat
      BY <3>1 DEF CallRecord
    <3> QED
      BY <3>1, <3>2 DEF SerialsTaken
  <2>3. k \in LegIndices /\ l \in LegIndices
    BY DEF AllLocated, CallLocated
  <2>4. /\ calls[i].legs[k].flow = NewFlows(PoolAt(m))[k]
        /\ calls[j].legs[l].flow = NewFlows(PoolAt(n))[l]
    BY <2>2, <2>3 DEF AllLocated, CallLocated, LegLocated
  <2>5. PICK most \in Nat : most = CallsInALife
    <3>1. PICK perSecond \in Nat : perSecond = Second \div Step
      BY DivisionRemainder, CallAssumption, DDGenAssumption
    <3>2. LongestCall \in Nat /\ NumberOfCalls \in Nat
      BY DDGenAssumption DEF LongestCall
    <3>3. NumberOfCalls * (LongestCall * perSecond + 1) \in Nat
      BY <3>2
    <3> QED
      BY <3>1, <3>3 DEF CallsInALife
  <2>6. c - m <= most /\ c - n <= most
    BY <2>1, <2>2, <2>5, LivesAreShort
  <2>7. AddressesPerCall * most <= AddressRange
    BY <2>5
  <2>8. CASE i < j
    <3>1. m < n
      BY <2>2, <2>8 DEF CreationOrder
    <3>2. n - m < most
      BY <2>2, <2>6
    <3> QED
      BY <2>3, <2>4, <2>7, <3>1, <3>2, CallsHaveOwnFlows
  <2>9. CASE j < i
    <3>1. n < m
      BY <2>2, <2>9 DEF CreationOrder
    <3>2. m - n < most
      BY <2>2, <2>6
    <3> QED
      BY <2>3, <2>4, <2>7, <3>1, <3>2, CallsHaveOwnFlows
  <2>10. CASE i = j
    <3>1. AddressesPerCall <= AddressRange
      <4>1. AddressesPerCall \in {1, 2} /\ AddressRange \in Nat
        BY CallAssumption DEF AddressesPerCall
      <4>2. most >= 1
        BY <2>2, <2>6
      <4> QED
        BY <2>7, <4>1, <4>2
    <3>2. m = n
      BY <2>2, <2>10
    <3>3. CASE k < l
      BY <2>3, <2>4, <3>1, <3>2, <3>3, LegsHaveOwnFlows
    <3>4. CASE l < k
      BY <2>3, <2>4, <3>1, <3>2, <3>4, LegsHaveOwnFlows
    <3>5. k \in Int /\ l \in Int
      BY <2>3 DEF LegIndices
    <3> QED
      BY <2>10, <3>3, <3>4, <3>5
  <2> QED
    BY <2>1, <2>8, <2>9, <2>10
<1> QED
  BY <1>1, <1>2, <1>3, <1>4, <1>5, TypeCorrect, SteppedOnce, OrderKept, AllLocatedAlways, PTL
     DEF Spec

-----------------------------------------------------------------------------
(* The loop implements the pool *)

(* What the pool sees of the call at index i, if it sees it at all.           *)
Seen(i, c) ==
    IF pc = "stepping" /\ i >= NextToStep
    THEN /\ calls[i].remaining >= Step
         /\ c = [serial |-> calls[i].serial, left |-> calls[i].remaining - Step]
    ELSE c = [serial |-> calls[i].serial, left |-> calls[i].remaining]

ViewIsSeen == \A c : c \in PoolView <=> \E i \in 1 .. Len(calls) : Seen(i, c)

LEMMA ViewElements == TypeOK => ViewIsSeen
<1> SUFFICES ASSUME TypeOK, NEW c
             PROVE  c \in PoolView <=> \E i \in 1 .. Len(calls) : Seen(i, c)
  BY DEF ViewIsSeen
<1>1. calls \in Seq(CallRecord) /\ DOMAIN calls = 1 .. Len(calls)
  BY DEF TypeOK
<1>2. \A i \in 1 .. Len(calls) : calls[i] \in CallRecord
  BY <1>1, ElementOfSeq
<1>3. \A i \in 1 .. Len(calls) : i \in Waiting <=> pc = "stepping" /\ i >= NextToStep
  BY <1>1 DEF Waiting
<1>4. ASSUME NEW i \in 1 .. Len(calls), StillHasTime(calls[i], Step)
      PROVE  Abstract(CallStep(calls[i], Step))
                 = [serial |-> calls[i].serial, left |-> calls[i].remaining - Step]
  <2>1. calls[i] \in CallRecord
    BY <1>2
  <2>2. StepGranted(calls[i], Step) = Step
    BY <1>4, <2>1, DDGenAssumption DEF StillHasTime, StepGranted, CallRecord
  <2>3. /\ CallStep(calls[i], Step).serial = calls[i].serial
        /\ CallStep(calls[i], Step).remaining = calls[i].remaining - Step
    BY <2>1, <2>2 DEF CallStep, CallRecord
  <2> QED
    BY <2>3 DEF Abstract
<1>5. ASSUME c \in PoolView
      PROVE  \E i \in 1 .. Len(calls) : Seen(i, c)
  <2>1. CASE \E i \in DOMAIN calls \ Waiting : c = Abstract(calls[i])
    BY <1>1, <1>3, <2>1 DEF Abstract, Seen
  <2>2. CASE \E i \in Waiting :
                StillHasTime(calls[i], Step) /\ c = Abstract(CallStep(calls[i], Step))
    <3>1. PICK i \in Waiting :
             StillHasTime(calls[i], Step) /\ c = Abstract(CallStep(calls[i], Step))
      BY <2>2
    <3>2. i \in 1 .. Len(calls) /\ pc = "stepping" /\ i >= NextToStep
      BY <1>1, <1>3 DEF Waiting
    <3> QED
      BY <1>4, <3>1, <3>2 DEF Seen, StillHasTime
  <2> QED
    BY <1>5, <2>1, <2>2 DEF PoolView
<1>6. ASSUME NEW i \in 1 .. Len(calls), Seen(i, c)
      PROVE  c \in PoolView
  <2>1. CASE i \in Waiting
    <3>1. StillHasTime(calls[i], Step) /\ c = Abstract(CallStep(calls[i], Step))
      BY <1>3, <1>4, <1>6, <2>1 DEF Seen, StillHasTime
    <3> QED
      BY <2>1, <3>1 DEF PoolView
  <2>2. CASE i \notin Waiting
    <3>1. c = Abstract(calls[i])
      BY <1>3, <1>6, <2>2 DEF Seen, Abstract
    <3> QED
      BY <1>1, <2>2, <3>1 DEF PoolView
  <2> QED
    BY <2>1, <2>2
<1> QED
  BY <1>5, <1>6

LEMMA ViewElementsNext == TypeOK' => ViewIsSeen'
  BY ViewElements, PTL

(* Between ticks the pool has no more calls than the vector.                  *)
LEMMA ViewIsSmall ==
    ASSUME TypeOK, pc # "stepping"
    PROVE  Cardinality(PoolView) <= Len(calls) /\ Cardinality(PoolView) \in Nat
<1>1. calls \in Seq(CallRecord) /\ DOMAIN calls = 1 .. Len(calls) /\ Len(calls) \in Nat
  BY DEF TypeOK
<1>2. Waiting = {}
  BY DEF Waiting
<1>3. PoolView = {Abstract(calls[i]) : i \in 1 .. Len(calls)}
  BY <1>1, <1>2 DEF PoolView
<1>4. IsFiniteSet(1 .. Len(calls)) /\ Cardinality(1 .. Len(calls)) = Len(calls)
  BY <1>1, FS_Interval
<1> DEFINE f == [i \in 1 .. Len(calls) |-> Abstract(calls[i])]
<1>5. f \in Surjection(1 .. Len(calls), PoolView)
  BY <1>3 DEF Surjection
<1>6. IsFiniteSet(PoolView) /\ Cardinality(PoolView) <= Cardinality(1 .. Len(calls))
  BY <1>4, <1>5, FS_Surjection
<1> QED
  BY <1>4, <1>6, FS_CardinalityType
(* A new call joins the pool with the next serial number. *)
LEMMA CreateCallAdmits ==
    ASSUME TypeOK, TypeOK', CreateCall
    PROVE  Pool!Admit
<1>1. PICK duration \in CallDurations, rtp \in [LegIndices -> InitialRtp] :
         calls'[Len(calls) + 1] = NewCall(duration, NewLegs(ipPool, rtp))
  BY CreateCallEffect
<1>2. pc = "create" /\ pc' = "clock" /\ created' = created + 1 /\ Len(calls) < NumberOfCalls
  BY DEF CreateCall, HasRoom
<1>3. /\ Len(calls') = Len(calls) + 1
      /\ \A i \in 1 .. Len(calls) : calls'[i] = calls[i]
      /\ Len(calls) \in Nat
  BY CreateCallEffect DEF TypeOK
<1> DEFINE new == [serial |-> created, left |-> duration * Second]
<1>4. /\ calls'[Len(calls) + 1].serial = created
      /\ calls'[Len(calls) + 1].remaining = duration * Second
  BY <1>1 DEF NewCall
<1>5. ASSUME NEW c PROVE c \in PoolView' <=> c \in PoolView \cup {new}
  <2>1. c \in PoolView <=> \E i \in 1 .. Len(calls) :
           c = [serial |-> calls[i].serial, left |-> calls[i].remaining]
    BY <1>2, ViewElements DEF ViewIsSeen, Seen
  <2>2. c \in PoolView' <=> \E i \in 1 .. Len(calls') :
           c = [serial |-> calls'[i].serial, left |-> calls'[i].remaining]
    BY <1>2, ViewElementsNext DEF ViewIsSeen, Seen
  <2>3. c \in PoolView' <=> \/ c \in PoolView
                            \/ c = [serial |-> calls'[Len(calls) + 1].serial,
                                    left   |-> calls'[Len(calls) + 1].remaining]
    BY <1>3, <2>1, <2>2
  <2> QED
    BY <1>4, <2>3
<1>6. PoolView' = PoolView \cup {new}
  BY <1>5
<1>7. Cardinality(PoolView) < NumberOfCalls
  <2>1. Cardinality(PoolView) <= Len(calls) /\ Cardinality(PoolView) \in Nat
    BY <1>2, ViewIsSmall
  <2> QED
    BY <1>2, <1>3, <2>1, DDGenAssumption
<1>8. \E left \in {d * Second : d \in CallDurations} :
         PoolView' = PoolView \cup {[serial |-> created, left |-> left]}
  BY <1>6, Zenon
<1>9. Pool!Cardinality(PoolView) = Cardinality(PoolView)
  BY DEF Pool!Cardinality, Cardinality
<1>10. (pc' # "exited") = (pc # "exited")
  BY <1>2
<1> QED
  BY <1>2, <1>7, <1>8, <1>9, <1>10 DEF Pool!Admit

(* The whole tick of the pool happens when the loop begins to step. *)
LEMMA StartTickTicks ==
    ASSUME TypeOK, TypeOK', StartTick
    PROVE  Pool!Tick
<1>1. pc = "clock" /\ pc' = "stepping" /\ NextToStep' = 1 /\ UNCHANGED << calls, created >>
  BY StartTickEffect DEF StartTick
<1>2. ASSUME NEW c PROVE c \in PoolView' <=> c \in Pool!Ticked(PoolView)
  <2> DEFINE View(i) == [serial |-> calls[i].serial, left |-> calls[i].remaining]
  <2>1. \A p : p \in PoolView <=> \E i \in 1 .. Len(calls) : p = View(i)
    BY <1>1, ViewElements DEF ViewIsSeen, Seen
  <2>2. c \in PoolView' <=> \E i \in 1 .. Len(calls) :
           /\ calls[i].remaining >= Step
           /\ c = [serial |-> calls[i].serial, left |-> calls[i].remaining - Step]
    BY <1>1, ViewElementsNext DEF ViewIsSeen, Seen
  <2>3. c \in Pool!Ticked(PoolView)
          <=> \E p \in PoolView :
                 p.left >= Step /\ c = [serial |-> p.serial, left |-> p.left - Step]
    BY DEF Pool!Ticked
  <2>4. \A i : View(i).left = calls[i].remaining /\ View(i).serial = calls[i].serial
    OBVIOUS
  <2> HIDE DEF View
  <2> QED
    BY <2>1, <2>2, <2>3, <2>4
<1>3. PoolView' = Pool!Ticked(PoolView)
  BY <1>2
<1> QED
  BY <1>1, <1>3 DEF Pool!Tick

(* The pool has seen the steps of a tick already when the loop takes them.    *)
LEMMA StepCallStutters ==
    ASSUME TypeOK, TypeOK', StepCall
    PROVE  PoolView' = PoolView
<1>1. /\ NextToStep \in 1 .. Len(calls)
      /\ NextToStep' = NextToStep + 1
      /\ Len(calls') = Len(calls)
      /\ \A i \in 1 .. Len(calls) : i # NextToStep => calls'[i] = calls[i]
      /\ calls'[NextToStep].remaining = calls[NextToStep].remaining - Step
  BY StepCallEffect
<1>2. calls'[NextToStep].serial = calls[NextToStep].serial
  BY StepCallEffect DEF CallStep, CallRecord
<1>3. pc = "stepping" /\ pc' = "stepping" /\ calls[NextToStep].remaining >= Step
  BY NextToStepType DEF StepCall, StillHasTime
<1>4. ASSUME NEW c, NEW i \in 1 .. Len(calls)
      PROVE  Seen(i, c)' <=> Seen(i, c)
  <2>1. CASE i = NextToStep
    <3>1. ~(i >= NextToStep') /\ i >= NextToStep
      BY <1>1, <2>1
    <3> QED
      BY <1>1, <1>2, <1>3, <2>1, <3>1 DEF Seen
  <2>2. CASE i # NextToStep
    <3>1. i >= NextToStep' <=> i >= NextToStep
      BY <1>1, <2>2
    <3>2. calls'[i] = calls[i]
      BY <1>1, <2>2
    <3> QED
      BY <1>3, <3>1, <3>2 DEF Seen
  <2> QED
    BY <2>1, <2>2
<1>5. \A c : c \in PoolView' <=> c \in PoolView
  BY <1>1, <1>4, ViewElements, ViewElementsNext DEF ViewIsSeen
<1> QED
  BY <1>5

(* The pool has seen the end of a call already when the loop erases it.       *)
LEMMA EraseStutters ==
    ASSUME TypeOK, TypeOK', EraseTimedOutCall
    PROVE  PoolView' = PoolView
<1>1. /\ NextToStep \in 1 .. Len(calls)
      /\ NextToStep' = NextToStep
      /\ Len(calls') = Len(calls) - 1
      /\ \A i \in 1 .. Len(calls) - 1 :
            calls'[i] = IF i < NextToStep THEN calls[i] ELSE calls[i + 1]
      /\ Len(calls) \in Nat
  BY EraseTimedOutCallEffect DEF TypeOK
<1>2. pc = "stepping" /\ pc' = "stepping" /\ ~(calls[NextToStep].remaining >= Step)
  BY NextToStepType DEF EraseTimedOutCall, StillHasTime
<1> DEFINE Old(i) == IF i < NextToStep THEN i ELSE i + 1
<1>3. ASSUME NEW c, NEW i \in 1 .. Len(calls')
      PROVE  Old(i) \in 1 .. Len(calls) /\ (Seen(i, c)' <=> Seen(Old(i), c))
  <2>1. CASE i < NextToStep
    <3>1. i \in 1 .. Len(calls) /\ calls'[i] = calls[i]
      BY <1>1, <2>1
    <3> QED
      BY <1>1, <1>2, <2>1, <3>1 DEF Seen
  <2>2. CASE ~(i < NextToStep)
    <3>1. i + 1 \in 1 .. Len(calls) /\ calls'[i] = calls[i + 1] /\ i >= NextToStep /\ i + 1 >= NextToStep
      BY <1>1, <2>2
    <3> QED
      BY <1>1, <1>2, <2>2, <3>1 DEF Seen
  <2> QED
    BY <2>1, <2>2
<1>4. ASSUME NEW j \in 1 .. Len(calls), j # NextToStep
      PROVE  \E i \in 1 .. Len(calls') : Old(i) = j
  <2>1. CASE j < NextToStep
    BY <1>1, <2>1
  <2>2. CASE j > NextToStep
    <3>1. j - 1 \in 1 .. Len(calls') /\ Old(j - 1) = j
      BY <1>1, <2>2
    <3> QED
      BY <3>1
  <2> QED
    BY <1>1, <1>4, <2>1, <2>2
<1>5. \A c : ~Seen(NextToStep, c)
  BY <1>1, <1>2 DEF Seen
<1> HIDE DEF Old
<1>6. \A c : c \in PoolView' <=> c \in PoolView
  BY <1>3, <1>4, <1>5, ViewElements, ViewElementsNext DEF ViewIsSeen
<1> QED
  BY <1>6

(* The tick is over for the pool too when the iterator is at the end.         *)
LEMMA FinishTickStutters ==
    ASSUME TypeOK, TypeOK', FinishTick
    PROVE  PoolView' = PoolView
<1>1. pc = "stepping" /\ pc' = "check" /\ NextToStep > Len(calls) /\ calls' = calls
  BY FinishTickEffect
<1>2. Len(calls) \in Nat /\ NextToStep \in Nat
  BY ClockType
<1>3. ASSUME NEW c, NEW i \in 1 .. Len(calls) PROVE Seen(i, c)' <=> Seen(i, c)
  <2>1. ~(i >= NextToStep)
    BY <1>1, <1>2
  <2> QED
    BY <1>1, <2>1 DEF Seen
<1>4. \A c : c \in PoolView' <=> c \in PoolView
  BY <1>1, <1>3, ViewElements, ViewElementsNext DEF ViewIsSeen
<1> QED
  BY <1>4

(* The pool is dropped as it stands when the loop is left. *)
LEMMA QuitDrops ==
    ASSUME TypeOK, TypeOK', Quit
    PROVE  Pool!Drop
<1>1. pc = "check" /\ pc' = "exited" /\ calls' = << >> /\ created' = created
  BY DEF Quit
<1>2. \A c : c \notin PoolView'
  <2>1. Len(calls') = 0
    BY <1>1
  <2> QED
    BY <2>1, ViewElementsNext DEF ViewIsSeen
<1> QED
  BY <1>1, <1>2 DEF Pool!Drop

(* Every step of the loop is a step of the pool, or leaves the pool alone.    *)
LEMMA NextMaps == TypeOK /\ TypeOK' /\ [Next]_vars => [Pool!Next]_(Pool!vars)
<1> SUFFICES ASSUME TypeOK, TypeOK', [Next]_vars
             PROVE  Pool!Next \/ UNCHANGED Pool!vars
  OBVIOUS
<1> USE DEF itVars, clockVars, passVars, sleepVars, signalVars, tallyVars
<1>1. CASE CreateCall
  BY <1>1, CreateCallAdmits DEF Pool!Next
<1>2. CASE StartTick
  BY <1>2, StartTickTicks DEF Pool!Next
<1>3. CASE StepCall
  <2>1. UNCHANGED << pc, created >>
    BY <1>3 DEF StepCall
  <2> QED
    BY <1>3, <2>1, StepCallStutters DEF Pool!vars
<1>4. CASE EraseTimedOutCall
  <2>1. UNCHANGED << pc, created >>
    BY <1>4 DEF EraseTimedOutCall
  <2> QED
    BY <1>4, <2>1, EraseStutters DEF Pool!vars
<1>5. CASE FinishTick
  <2>1. pc # "exited" /\ pc' # "exited" /\ UNCHANGED created
    BY <1>5 DEF FinishTick
  <2> QED
    BY <1>5, <2>1, FinishTickStutters DEF Pool!vars
<1>6. CASE Quit
  BY <1>6, QuitDrops DEF Pool!Next
<1>7. ASSUME UNCHANGED << calls, created >>, pc # "stepping", pc' # "stepping",
             pc = "exited" <=> pc' = "exited"
      PROVE  UNCHANGED Pool!vars
  <2>1. PoolView' = PoolView
    BY <1>7 DEF PoolView, Waiting
  <2> QED
    BY <1>7, <2>1 DEF Pool!vars
<1>8. ASSUME UNCHANGED << calls, created, pc >>, NextToStep' = NextToStep
      PROVE  UNCHANGED Pool!vars
  <2>1. PoolView' = PoolView
    BY <1>8 DEF PoolView, Waiting
  <2> QED
    BY <1>8, <2>1 DEF Pool!vars
<1>9. CASE SkipCreate \/ StartSleep \/ Nanosleep \/ NanosleepReturns \/ NextPass
  BY <1>7, <1>9 DEF SkipCreate, StartSleep, Nanosleep, NanosleepReturns, NextPass
<1>10. CASE ClockAdvances \/ UNCHANGED vars
  BY <1>8, <1>10 DEF ClockAdvances, vars, NextToStep
<1>11. CASE Sigterm \/ Sighup
  BY <1>7, <1>8, <1>11 DEF Sigterm, Sighup, Delivered, InterruptSleep, NextToStep
<1>12. CASE Advance
  BY <1>8, <1>12, AdvanceEffect
<1> QED
  BY <1>1, <1>2, <1>3, <1>4, <1>5, <1>6, <1>9, <1>10, <1>11, <1>12 DEF Next, Loop, Exited

(* Seen from outside, the loop is a pool whose calls all tick at once,        *)
(* however many of them a tick erases while the iterator walks the vector,    *)
(* and whatever the clock and the signals do in between.                      *)
THEOREM LoopImplementsPool == Spec => ImplementsTrafficPool
<1>1. Init => Pool!Init
  <2> SUFFICES ASSUME Init PROVE Pool!Init
    OBVIOUS
  <2>1. PoolView = {}
    BY EmptySeq DEF Init, PoolView, Waiting
  <2> QED
    BY <2>1 DEF Init, Pool!Init
<1>2. TypeOK /\ TypeOK' /\ [Next]_vars => [Pool!Next]_(Pool!vars)
  BY NextMaps
<1> QED
  BY <1>1, <1>2, TypeCorrect, PTL DEF Spec, ImplementsTrafficPool, Pool!Spec
=============================================================================
