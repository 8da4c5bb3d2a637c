# DDGen in TLA+

DDGen generates recorded-call traffic: RTP packets with G.711 audio inside
hand-made ipv4 and udp headers, as a private branch exchange sends them to a
call recorder, either mirrored (two legs per call) or over a drlink (as many
legs as destinations). This directory holds TLA+ modules of its core logic,
TLC configurations that check them on small instances, and theorems checked by
TLAPS for every value of the constants.

References such as `ddgen.cpp:94` are to `src/src/` and `src/include/`.

## 1. The system

| Component | State | Operations | Talks to |
|---|---|---|---|
| simulation loop (`ddgen.cpp`) | the vector of calls, `start_time`, `last_time`, `current_time` | create at most one call per pass; if more than 20 ms have passed since the last tick, step and erase calls, else sleep; stop on time or on SIGTERM | factory, calls, clock, `nanosleep`, signal flags |
| calls and legs (`callleg.cpp`, `callleg.h`) | remaining time; per leg: accumulated time, ipv4 id, rtp sequence number and timestamp | `Call::Step`, `CallLeg::Step`, `Call::Log` | encoder, consumer, logger |
| call factories (`callleg.cpp`) | `m_ip_pool`, an unsigned that wraps | `CreateCall` | the loop |
| signal handler (`SignalHandler.cpp`) | two plain flags | SIGTERM, SIGHUP | the loop, `nanosleep` |
| command line (`programoptions.cpp`) | the options | one branch for each option, in order | `main` takes the result |
| socket consumer (`consumer.cpp`) | a vector of addresses, a vector of descriptors | constructor, `Consume`, destructor | the kernel |
| pcap consumer (`consumer.cpp`) | file name, stream | constructor, `Consume`, destructor | the file system, the storage |
| headers and checksums (`rawsocket.cpp`) | none | `WriteToBuffer`, `ReadFromBuffer`, `UpdateChecksumWriteToBuffer`, `CheckIpv4Checksum`, `CheckUdpChecksum` | legs, unit tests |
| G.711 encoders (`encoder.cpp`) | none | `Encode` | legs |
| call logger and storage (`CallLogger.cpp`, `CallStorage.cpp`) | SDK up or down, table, bucket, puts under way | create table or bucket, `LogCall`, `Store`, destructors | AWS SDK |
| tone generators (`generator.cpp`) | phase of the tones | `Generate` | legs |
| G.722 encoder (`g722encoder.cpp`) | filter, scale and predictor of two bands | `Encode`, `ResetBand` | compiled, not used by the calls |
| web interface (`webinterface.cpp`) | the context of its server | start, stop, one stateless handler | libhttp |
| libhttp (`3rdParty/libhttp`) | a ring of accepted connections, a status, a master and 50 worker threads | accept, produce, consume, start, stop | main |
| AWS SDK (`3rdParty/aws-sdk`) | executor and its threads, retries, pool of connections | `PutItemAsync` and what follows from it, start and shutdown | logger, storage |
| JSON types (`jsontype.cpp`) | a tree of values | parse, print | unit tests only |

### What is hard here

* **Interleaving.** A signal may arrive between any two steps of the loop, during
  `nanosleep` too; the clock moves between any two steps; each DynamoDB put runs
  in a thread of its own, which may still be at work when `main` ends, and shares
  connections with the others; the web server has a ring of connections between
  one thread that fills it and fifty that empty it.
* **Mutation while iterating.** The loop erases calls from the vector it walks.
* **Time.** A pass may be late by any amount. `last_time` is set to the reading of
  the pass, so lost time is forgotten, not made up for.
* **Width.** Ids, sequence numbers, timestamps, the address pool and `--ds` in ms
  all wrap, each at a width of its own; a checksum folds a sum once.
* **Partial failure.** `socket`, `setsockopt` and `sendto` fail one at a time; the
  disk refuses a write; a bucket or table cannot be made; the upload fails.
* **Crash and restart.** A run that starts in the same second as an earlier one
  appends to its file.
* **Lifetime.** Logger and storage each bring the SDK up and shut it down, and the
  SDK does not count. The pool of connections goes after the threads that use it, the
  context of the web server after its threads; both orders hang on destructors and joins.
* **Waiting for each other.** Threads wait for a connection of the pool, the master
  thread for room in the ring, workers for connections, `main` for all of them.

### What makes each component correct

* loop: every live call steps exactly once per tick; calls stay in the order of
  creation; nothing runs ahead of the clock; no call ends early; the program stops
  within a tick of the order to, not before the time is over, and does stop;
* calls: what a leg has sent is the time its call has played; a call that ends has
  sent all of its duration; two legs never share a flow; the legs of a call stay
  apart in the id space; what was logged locates every later packet;
* command line: whatever the order of the options, drlink traffic has destinations,
  and the socket consumer has a socket for each;
* socket consumer: no descriptor leaks, no packet goes to another receiver;
* pcap consumer: what was reported survives a kill, the file header comes first,
  the upload is complete;
* checksums: a receiver accepts what is sent;
* encoders: a code locates its sample; the adaptive quantizers stay in their tables
  and the predictors stable;
* cloud services: nothing uses the SDK when it is down; `main` exits only with the file uploaded;
* puts: never more connections than the maximum, none left behind, every thread joined
  before the pool goes, and an end to it all;
* web server: each connection is taken once and in order, none waits beside an idle
  worker, the context outlives the threads, and a stop does stop it.

## 2. The modules

| Module | Models | Variables correspond to |
|---|---|---|
| `Call` | legs, calls and factories, as operators on records (no variables) | `accumulated` = `m_accumulated_step_in_ms`, `id`/`seq`/`timestamp` = the header fields; `sent` is history |
| `DDGen` | the loop, the clock, `nanosleep` and signals; uses `Call` | `calls` = `call_ptr_vector`, `it` = the iterator, `advancing` = its `++it` is next, `ipPool` = `m_ip_pool`, `currentTime`, `lastTime`, `shallStop`, `shallConfigurationUpdate`; `created`, `ticks`, `lateTicks`, `hups` are history |
| `TrafficPool` | the abstract promise of the loop: a pool of calls that all tick at once | - |
| `DDGenRefinement` | the refinement mapping from `DDGen` to `TrafficPool` | - |
| `CommandLine` | the chain of ifs of `ProgramOptions` | `options` = the members; `given` is history |
| `SocketConsumer` | constructor, `Consume`, destructor, each system call with its failure | `addresses` = `m_dst_sockaddr_vector`, `sockets` = `m_dst_sock_vector`, `open` = the kernel's descriptors |
| `Delivery` | the two above composed: options, the consumer made of them, the packets of the calls | those of both |
| `PcapConsumer` | constructor, `Consume`, destructor, kills, restarts, a full disk | `stream` = `_fileStream`, `buffer` = what it has not flushed, `disk` = the files |
| `Checksums` | the checksums of a leg's consecutive packets, at real width | header fields of the leg; `sent` = the last packet |
| `Headers` | how every header is written to the line and read from it, as operators on bytes (no variables) | - |
| `PacketHeaders` | the headers of a leg's next packet; joins `Checksums` and `Headers` | those of `Checksums` |
| `G711` | both encoders, over every 16-bit sample | `pcm`, `alaw`, `ulaw` |
| `G722` | the filter, quantizers and predictors of both bands, at full width | `low`, `high` = the fields of `FullBandType` of each band, `delay` = `qmf_tx_delayx` |
| `CloudServices` | logger, storage and SDK from construction to destruction, and what becomes of a put | `sdk` = `s_HttpClientFactory` is set, `puts` = puts under way |
| `CurlHandleContainer` | the pool of connections and its resource manager, for any threads | `resources` = `m_resources`, `poolSize` = `m_poolSize`, `containerLock` = `m_containerLock`, `held` = each thread's handle |
| `PutThreads` | the puts in detail: executor, threads, retries and the pool; refines `CloudServices` | `executor` = `m_state`, `threads` = `m_threads`, `retries`, `outcome` of each request |
| `ConnectionQueue` | the abstract promise of the web server: a line of connections | - |
| `WebServer` | main, master thread and workers of libhttp; refines `ConnectionQueue` | `queue`, `sqHead`, `sqTail`, `status` = the context's; `client` = `conn->client` of each worker |
| `*_proofs` | the theorems, section 5 | - |
| `MC*` | instances for TLC | - |

Three abstract specifications are implemented by detailed ones, each checked as a
property of a run: `TrafficPool` by `DDGen`, `CloudServices` by `PutThreads`,
`ConnectionQueue` by `WebServer`.

How the actions correspond to the code:

* **DDGen.** A pass is `CreateCall | SkipCreate` (72-80), then `StartTick | StartSleep`
  (82-102) with the reading of the clock, `StepCall | EraseTimedOutCall` for each call
  (90-97), each followed by the `++it` of the for loop (`Advance`), `FinishTick`; or
  `Nanosleep`, `NanosleepReturns`; then `NextPass | Quit` (105-115). The destruction of
  the vector in `return 0` is part of `Quit`. `StepCall` and `EraseTimedOutCall` do all
  that `Call::Step` does to all legs: the number of packets sent, and the fields of
  each. `EraseTimedOutCall` ends behind the `--it`: when the first call has gone, `it`
  is 0 there, the element before `begin()`. Readings of the clock are cut down to us and
  to ms where the code casts them (83, 105). `ClockAdvances`, `Sigterm` and `Sighup` may
  happen between any two of these. A signal in `nanosleep` hands back the rest of the
  sleep (`InterruptSleep`), or is delivered to another thread and leaves it alone.
* **CommandLine.** One action per branch; an option comes with all of its values,
  as the conditions `i + n < argc` demand; an option without them is one of
  `Unknown` and ends the program, as do options that only the usage text knows.
* **SocketConsumer.** One pass of the constructor's loop is one action with three
  outcomes; `Consume` is one action per outcome of its lookup, and `sendto` takes the
  packet or refuses it (`SendTo`). `ConsumePastEnd` is the dereference of an iterator
  past the last socket, which is undefined. If there is no socket at all the vector has
  no storage, and the read of address 0 ends the process; behind the last of several it
  yields some number for a descriptor, `Stray`, with which `sendto` fails or, should a
  socket have it, does not. `last` records receiver, descriptor, verdict of the kernel
  and result.
* **Delivery.** `CreateConsumer` takes the destinations of the parsed options. The
  packets of the legs have drlink destinations if the traffic is drlink, and else what
  `MirrorDestinations` gives. There are legs only if the options have the loop create
  calls (`CreatesCalls`, `ddgen.cpp:72`): not with `--webConfig`, nor for no calls.
* **PcapConsumer.** `Consume` has three steps: it writes to the stream, after opening it
  if the constructor could not (`ConsumeWrites`, `ConsumeOnBadStream`, `ConsumeOpens`),
  flushes it (`ConsumeFlushes`) and returns (`ConsumeReturns`). A write goes to the
  buffer; a flush hands the buffer to the disk, which takes it all, or any first part of
  it and sets the stream bad. A kill may come between any two of these steps, and loses
  the buffer.
* **G722.** `EncodePair` is one pass of the loop of `Encode`: both halves of the filter,
  then quantizer and adaptation of each band. `ResetBand` leaves what the code leaves.
* **CloudServices.** One action per member function, with its early exits (`exit(0)`).
  A put makes its request (needs the factory), waits for the answer, is retried up to
  `MaxRetries` times; each of these may find the SDK down, which ends the process.
* **CurlHandleContainer, PutThreads.** One critical section of either mutex, or one step
  outside of them, is one action: `HasResourcesAvailable` is a step of its own, as its
  answer may be stale; `CheckAndGrowPool` adds its handles one by one, each with a
  notification. `Submit` and `Submitted` are the two halves of `SubmitToThread`, between
  which the new thread already runs. `DescribeTable` and `CreateTable` go through the
  same pool, in main's own thread. Destruction follows the members: SDK, executor, pool.
* **WebServer.** What is done under `thread_mutex` is one action; the status is read
  without it, before and after, and each read is a step of its own where another thread
  may come between. Threads that could not be started are outcomes of the start.

Operators marked "Seeded fault" are variants of the operator they stand
before, with a plausible bug. No specification uses them; they say what
each property is sensitive to.

## 3. The runs

| Run | Question | Properties |
|---|---|---|
| `mirror` | Does erasing while iterating, with calls that are replaced until addresses and counters wrap, leave the vector and the flows right? | `TypeOK`, `SteppedOncePerTick`, `FlowsDistinct`, `ImplementsTrafficPool` |
| `timing` | Do lag and signals do harm to clock, sleep, end, or to what the four legs of a call send through all wraps? | `NotAheadOfClock`, `StopsWithinATick`, `NotCutShort`, `IdsApart`, `MediaConserved`, `LogLocatesStream`, `NeverEndsEarly`, `SleepsToTheTick`, `SimulationEnds` |
| `delivery` | Is there a sequence of options, and of failing system calls, that sends a leg elsewhere or leaks a descriptor? | `DescriptorsOwned`, `RightReceiver`, `LegsDelivered`, `DrLinkReachable` |
| `nosocket` | violation: can `Consume` always return, as `consumer.h:93` has it? | `ConsumeReturns` |
| `pcap` | What is in the files after kills, restarts in the same second and refused writes? | `ReportedSurvivesKill`, `HeaderFirst`, `UploadComplete` |
| `checksums` | Exactly when is a checksum wrong, and do the bytes of a header say what was meant? | `Ipv4WrongByLostCarry`, `UdpWrongByLostCarry`, `SumsOfHeaders`, `HeadersReadBack` |
| `encoders` | Do the codes of all samples locate them, and does the G.722 encoder keep to its tables and stay stable from any memory? | `WithinTables`, `PredictorStable`, `QuantizersMonotone`, `CodesLocateSamples` |
| `cloud` | Who finds the SDK down, for all settings and answers? | `UploadFindsSdk`, `RunsOnLiveSdk`, `ExitMeansUploaded` |
| `dropped` | violation: does a put always find the factory of the SDK, as the SDK's assertion demands? | `FactoryThere` |
| `puts` | Do threads, retries and connections of the puts do what `CloudServices` says, within the maximum of connections, and end? | `ConnectionsWithinMax`, `DetachFindsThread`, `PoolOutlivesThreads`, `ImplementsCloudServices`, `ProgramEnds` |
| `web` | Do ring, wakeups and stop of the web server lose nothing, free nothing in use, and end? | `FreedAfterThreads`, `ImplementsConnectionQueue`, `QueuedIsTaken`, `StopsUnlessLeftWaiting` |
| `web_stuck` | violation: is a master thread that waits for room always woken by the workers when the server stops, as `httplib_worker_thread.c:112` has it? | `MasterWoken` |

### What they show

* The erase idiom does what it should: `--it` after `erase` is undone by the `++it` of
  the loop, and no call skips or repeats a tick. The loop implements `TrafficPool`. In one
  place the iterator is outside of the vector, between the two when the first call has
  gone (`TypeOK`). Decrementing `begin()` is undefined in C++; for the pointers that
  vector iterators are, the `++it` brings it back before anything looks at it.
* A call's last step is shorter than a tick and sends the packets of what is left;
  nothing is lost or made up. A call may tick in the very pass that creates it, but
  the empty step before its end makes up for it, and none ends before its time.
* The loop stops within one tick of SIGTERM, and a sleep interrupted by signals goes
  on with its rest.
* `--drlink` overwrites the destinations of `--socket`, but whatever the order,
  every drlink destination has an address in the consumer. Each packet of a leg is
  handed to `sendto` for the leg's own destination, and `Consume` says what the kernel
  said (`LegsDelivered`); only a constructor that was cut short makes a leg fall back on
  the first socket. The descriptor is one of the consumer's unless a `setsockopt` failed:
  then the last addresses have no socket, and what stands behind the last one in memory
  is taken for it. What becomes of a packet after `sendto` is not followed.
* A checksum is wrong exactly when its one fold loses a carry: for ipv4, if the low
  and the high half of the sum add up to 65536 or more; for udp, in any of four
  sums. A receiver that follows RFC 768 also takes a udp packet whose checksum came
  out as 0, which the code sends as it is and the receiver reads as none. The run meets
  packets with lost carries, and one with checksum 0, within the first 64 of a leg with
  ordinary addresses; the headers of the unit tests (`UnitTestChecksums` in `MCChecksums`
  recomputes them) are not among them.
* The sums of words in `Checksums`, about which the proofs speak, are the sums of the
  bytes that `WriteToBuffer` puts on the line (`SumsOfHeaders`). Headers read back as
  they were written, whatever stands in the two bytes of the Ethernet addresses that
  nobody sets; only the fragment field of an ipv4 header comes back in network order
  (`HeadersReadBack`). The legs write 0 there, where it makes no difference.
* If a socket cannot be opened, the constructor returns with fewer sockets than
  addresses. If it was the first, the first packet of a call finds the address, takes the
  socket at the same place, and dereferences `end()` of a vector without storage
  (`nosocket`, with `--drlink` for traffic).
* A pcap file that the constructor could open begins with its header and, as long as the
  disk refuses nothing, has nothing but whole chunks in it and a header wherever a run
  begins (`HeaderFirst`). Of two runs in one second the later one thus leaves a file
  header in the middle of the file, where a reader expects a packet. A refused write may
  leave a piece of any chunk, of the header too.
* An A-law code of a sample of 256 or more decodes within a 32nd of it. A u-law code
  has the right segment, in which its mantissa says almost nothing (section 4).
* The scales of the G.722 encoder stay in their tables, its poles in the triangle of
  stability, and its quantizers monotone from the first pair on, whatever memory the
  constructor and `ResetBand` leave.
* With a socket for output and `--useS3`, the storage is destroyed at the end of
  `CreateConsumer`; its destructor shuts down the SDK the logger is using, and with
  `--useDb` the first call logged finds no http factory.
* The pool of connections keeps to its maximum although threads that found it empty
  grow it one after the other. It is destroyed after all threads are joined, with every
  connection back. The program ends, unless all connections were destroyed after failed
  transfers while a thread waits for one: `DestroyCurlHandle` makes room and wakes nobody.
* The ring of the web server loses and repeats no connection, though its two ends are
  only wrapped by the consumers; a connection in it is always taken while the server
  runs. Its stop ends every thread but in one case: if all workers take a connection
  before the stop and look at the status after it, they leave at once, and the master
  thread, which has filled the ring again, waits for room for ever (`web_stuck`).

### Bounds and why they are enough

* `DDGen` has its widths as constants. `mirror` takes 12 addresses and 8 sequence
  numbers, so that pool and counters wrap in its 8 seconds of one tick each. Three calls
  are enough for an erase at the front, in the middle and at the end of the vector, of
  several calls in one tick and of none. `FlowsDistinct` needs the pool to be larger than
  what is given away in the life of a call: with 8 addresses it fails, with 12 it holds,
  and the code's 2^32 are far beyond what calls of 65535 s can use up. `timing` has four
  legs that share 16 ids, so that each wraps within a call; the rtp values start one below
  their wrap; its tick is two units long, so that a signal or a reading may fall inside one,
  and so are `Millisecond` and `Microsecond`, so that a reading in the middle of either is
  cut down and a tick late because of it. In `mirror` nothing is cut off.
* `MaxLag`: how far beyond a tick a pass may read the clock: beyond one and a half
  ticks (3 units) in `timing`. The loop only distinguishes more than a tick from
  less, so longer lag adds ticks lost, not behaviour. `MaxHups` is 1: one SIGHUP and
  one SIGTERM give two interruptions of one sleep.
* `MaxOptions` is 3: the longest interplay between options is a pair that overwrite
  each other and one in front; numbers are one port and one number above the narrowed
  `unsigned short` range. Three options give up to three destinations, for which four
  descriptors are enough; mirror packets go to one that may have a socket and to one that
  has none. For `nosocket` two options do.
* `PcapConsumer`: two runs (`MaxRuns`), in the same second or not, two packets each
  (`MaxPackets`).
* `Checksums`, `G711` and `G722` are at real width. A leg's first 64 packets
  (`MaxPackets`) with five sums of audio, one of which makes the first udp checksum 0;
  every sample from -32768 to 32767; for G.722 five signals (silence, both extremes of
  both bands, a jump, a mixture) for 40 pairs (`MaxPairs`), one reset at any point
  (`MaxResets`), and memory that holds either extreme (`Garbage`).
* `CloudServices`: three puts (`MaxCalls`), two retries (`MaxRetries`, 6 in the code);
  every combination of settings.
* `PutThreads`: two puts and main on two connections, one retry, three handles for
  `curl_easy_init` to choose from. Two threads that wait for the connections of one
  another, one that grows the pool and one that takes it down need no more; the proofs
  have no bound.
* `WebServer`: three workers and two places, so that the ring wraps twice within four
  connections and workers both wait for and miss a wakeup. `web_stuck` takes two
  listening sockets, as `--secure` gives, and five connections: one for each worker
  before the stop, two to refill the ring and one to wait with.

### Fairness

`SimulationEnds` assumes weak fairness of the loop and of the clock: the thread is
scheduled, and the steady clock does not stand still. No signal is ever owed.
`MaxLag` is a bound on the model's clock only, and `nanosleep` is always allowed to
run to its end. `ProgramEnds` assumes weak fairness of each thread, of main's way to its
loop and of what it does after it: threads are scheduled, mutexes are handed on, and
`curl_easy_perform` has a timeout of 1000 ms. When the loop ends, and how many calls it
logs, is not owed; neither is a spurious wakeup. Which of the waiting threads is notified
is left open. The properties of `WebServer` assume the same of its threads and of main's
start and end; `request_timeout` ends a silent client. The other modules have no fairness
and no liveness.

## 4. Where code and documents differ

Three are runs: `nosocket`, `dropped`, `web_stuck`. The others, met while modelling,
are seen at a glance and have no run:

* `CheckIpv4Checksum` does not accept every header the program makes: the fold of the
  sum loses a carry for some (`rawsocket.cpp:22`). `Ipv4WrongByLostCarry` and
  `UdpWrongByLostCarry` say exactly for which.
* `--dc` is spread over 75 to 125 % (`ddgen.cpp:64`); the usage text says
  "uniform %10" (`programoptions.cpp:114`).
* `rawsocket.h:39` wants the ssrc "session wide unique"; it is drawn at random and
  compared with none (`callleg.cpp:235`).
* SIGHUP announces a reread of the configuration (`SignalHandler.cpp:40`); the flag
  it sets is read by nothing.
* `--ds` is multiplied by 1000 in 32 bits (`ddgen.cpp:54`): above 4294967 s the
  simulation is shorter than asked. `NotCutShort` holds below (theorem `RunsItsTime`).
* `--pcap` in front of `--drlink` has no effect, though the usage example has it
  there (`programoptions.cpp:117`); the documented `--noDb` and `--pacp` are unknown
  options, and `--drlink` and `--socket` without values are too, whatever "if omitted"
  says (116).
* A pcap file already present is appended to (`consumer.cpp:122`), not "overriden"
  (`consumer.h:151`). `Consume` returns true whatever became of the write (203), and a
  file only `Consume` could open has no pcap header (187).
* A-law: nothing is encoded below 16 times 16 (`encoder.cpp:24`), though "a law
  encoding allows more resolution at lower signal levels" (`encoder.h:111`).
  u-law: `>` stands where `>>` is meant (`encoder.cpp:70`), so the mantissa is 1 for
  every sample.
* Puts still under way when `main` ends meet an SDK that `~DynamoDBCallLogger` has shut
  down before its client waits for them (`CallLogger.cpp:42`).
* `ReadFromBuffer` of the ipv4 header converts every 16-bit field but `fragment`
  (`rawsocket.cpp:121-137`), which `WriteToBuffer` does convert. The unit tests have 0 there.
* The constructor of the Ethernet addresses sets four bytes of six (`callleg.cpp:73`).
* `readme.md:62` gives 172.24.201.54 as first address; `0xac186536` is 172.24.101.54.

## 5. What is proved

All for every value of the constants that the named assumptions (`CallAssumption`,
`DDGenAssumption`, `PoolAssumption`, ...) allow, hence for the real widths and any
number of calls, options, puts and connections.

| Theorem | States | Inductive invariant |
|---|---|---|
| `DDGen_proofs!TypeCorrect` | `TypeOK` | itself |
| `DDGen_proofs!SteppedOnce` | `SteppedOncePerTick` | with `TypeOK`; the iterator separates the calls that have had this tick from those that are to |
| `DDGen_proofs!OrderKept` | `CreationOrder` | with `SerialsTaken`: all serials in the vector are below the next |
| `DDGen_proofs!MediaIsConserved`, `CallsEndComplete` | `MediaConserved`, `EndsComplete` | `CallBalanced`: sent packets and accumulated time are the time played |
| `DDGen_proofs!ClockKept`, `NoCallEndsEarly` | `NotAheadOfClock`, `NeverEndsEarly` | `TicksApart`, `CreatedBefore`, `PacedByTicks`: a tick costs more than `Step` of clock |
| `DDGen_proofs!StopsInTime` | `StopsWithinATick` | `LateTickIsLast`: after a late tick the loop is on its way out |
| `DDGen_proofs!RunsItsTime` | `NotCutShort`, if `--ds` in ms fits 32 bits | `ExitsOverTime` |
| `DDGen_proofs!SleepsThrough` | `SleepsToTheTick` | `SleepsOn`: what is left of the sleep, or its end, is at the tick |
| `DDGen_proofs!StreamsAreLocated` | `LogLocatesStream` | `PoolCounts` and `AllLocated`: the pool stands at what the calls created have taken, and every leg at what its number of packets makes of its first values |
| `DDGen_proofs!IdsStayApart` | `IdsApart` | `AllLocated` and `CallBalanced`: the legs of a call have sent as many packets, so their ids are as far apart as at the start |
| `DDGen_proofs!FlowsStayDistinct` | `FlowsDistinct`, if the pool and the ports suffice (see below) | `AllLocated`, `SerialsRecent`: since a call was created, each tick has created at most as many as the vector holds |
| `DDGen_proofs!LoopImplementsPool` | `ImplementsTrafficPool` | `TypeOK`, `SteppedOncePerTick`; each step of the loop is one of `TrafficPool` or a stutter of it |
| `Delivery_proofs!OptionsCorrect`, `DestinationsSet` | `OptionsTypeOK`; `DrLinkHasDestinations`, `SocketHasDestination`, `DrLinkReachable` | `VectorsRelated`: the drlink destinations are among the others, whichever output or traffic is in force |
| `Delivery_proofs!TypeCorrect`, `NoDescriptorLeaks`, `NothingMisdirected` | `TypeOK`, `DescriptorsOwned`, `RightReceiver` | `AllAddressed` |
| `Delivery_proofs!ImplementsCommandLine`, `ImplementsSocketConsumer` | the composition keeps `ParseSpec` and the consumer's `Spec`, so their theorems hold of it | - |
| `Delivery_proofs!LegsAreDelivered` | `LegsDelivered` | `Agreed`: the consumer was made of the options in force; with `DrLinkReachable`, `RightReceiver` and `SendsBySockets` |
| `Delivery_proofs!SendsBySockets` | `SentByOwn`: nothing is sent past the end of the sockets unless one is missing, and `Consume` says what the kernel said | `AllConnected`: as long as no socket failed there is one for each address |
| `Checksums_proofs!TypeCorrect`, `Ipv4HeadersWrongByLostCarry`, `UdpPacketsWrongByLostCarry` | the checksum properties, for all addresses, ids and audio | `SentAsComputed`; lemmas `FoldedSum`, `Ipv4Fold`, `UdpFold` on the fold |
| `Checksums_proofs!HeadersAreReadBack`, `SumsAreOfHeaders` | `HeadersReadBack`, `SumsOfHeaders` | `TypeOK`; lemmas for any header of each type: what `Read...` makes of `Write...` and what `LineSum` adds up of it |
| `PcapConsumer_proofs!TypeCorrect`, `ReportedSurvives`, `FilesHeaded`, `UploadsComplete` | `TypeOK`, `ReportedSurvivesKill`, `HeaderFirst`, `UploadComplete` | `RunInv`: before its first flush a run has its header pending and nothing on the disk, after it at most the packet just written; `HeadInv`: what goes first into an empty file is a header, and a run goes on where the file ends with it (`EndsIn`); `NothingFromLater`: no chunk is of a run to come |
| `Encoders_proofs!G722TypeCorrect`, `TablesHold`, `PolesKeepStable` | `G722TypeOK`, `WithinTables`, `PredictorStable` | `G722Inv`: both bands keep to integers (`BandType`) with their scale and its logarithm within bounds, and the poles are stable once a pair is coded |
| `Encoders_proofs!OrderIsKept`, `SampledOrderIsKept` | `QuantizersKeepOrder` for any two differences, and `QuantizersMonotone`, its instance that the run looks at | `G722Inv`; `LevelMonotone`, `LowQuantizerMonotone`, `HighQuantizerMonotone` for any scale |
| `Encoders_proofs!G711TypeCorrect`, `SamplesAreLocated` | `TypeOK`, `CodesLocateSamples` for any short | `G711Inv`; `NormalisedLeaves` and `HalvingsCount`: what the loops of the two encoders leave and count |
| `Encoders_proofs!EncodersRun` | what `EncoderSpec` of the run does is allowed by `Spec` and by `SpecG722` | - |
| `WebServer_proofs!TypeCorrect`, `FreedSafely` | `TypeOK`, `FreedAfterThreads` | `ThreadsInv`: which threads there are at each place of main and of the master; `RingInv`, `ClientInv` |
| `WebServer_proofs!RingImplementsQueue` | `ImplementsConnectionQueue` | `RingInv`: the head is ahead of the tail by at most the size of the ring, and every place between them holds a connection |
| `CloudServices_proofs!TypeCorrect`, `UploadIsSafe`, `SdkOutlivesLoop`, `ExitsUploaded` | `TypeOK`, `UploadFindsSdk`, `RunsOnLiveSdk`, `ExitMeansUploaded` | `SdkHeld`: who holds the SDK at each place of `main` |
| `PutThreads_proofs!HandlesCounted`, `ConnectionsBounded` | `HandlesExclusive` and `PoolSizeCounts`; `ConnectionsWithinMax` | `PoolInv`: who holds which handle, who has the lock, and `m_poolSize` with what is being added or taken down is the number of handles |
| `PutThreads_proofs!TypeCorrect`, `DetachSafe`, `PoolOutlives` | `TypeOK`, `DetachFindsThread`, `PoolOutlivesThreads` | `ClientInv`: who has the lock of the executor, which threads it knows, what main has taken down at each place |
| `PutThreads_proofs!PutsImplementCloud` | `ImplementsCloudServices` | the same; each step is one of `CloudServices` or a stutter (`NextMaps`) |

Each safety proof has the same shape: `Init` establishes the invariant, a lemma with
one case for each action shows it is kept, and the theorem joins them with the type
theorem by temporal logic. The properties of single steps follow from the invariant
of their module. Steps on sequences rest on three lemmas about `Append`, `EXCEPT` and
`Erased` (`CreateCallEffect`, `StepCallEffect`, `EraseTimedOutCallEffect`). In
`PutThreads_proofs` the steps that change neither owners nor lock are one case,
`Quiet`, and those that change nothing of executor and phases another, `BusyMove`.

`FlowsStayDistinct` has two hypotheses, and without them the property is false. The
pool must not wrap within the life of a call: `AddressesPerCall * CallsInALife` is at
most `AddressRange`. `CallsInALife` is `NumberOfCalls` for every tick of the longest call
and one more, a bound that counts on no call to end sooner. With a thousand
calls of an hour that is 450 million of the 2^32 addresses. And drlink traffic must have
a port left for each leg: two for each destination, of 65536. The
program checks neither.

`UploadFindsSdk` and the others of a module are proved of its own specification. The
compositions inherit them through `ImplementsCommandLine`, `ImplementsSocketConsumer` and
`EncodersRun`.

Recursive functions. That a sum, a halving loop or a filter defined by recursion exists
at all is proved by a least counterexample: were the function missing for some length,
it would be for a least one, to which one step from the length before leads
(`LeastNumber`; `PartialSumsExist`, `ShortSumsExist`, `HalvingsExist`,
`NormalisedExist`). What it computes then follows from unfolding it, as often as the
loop runs at most.

Only model-checked: liveness (`SimulationEnds`, `ProgramEnds`, `QueuedIsTaken`,
`StopsUnlessLeftWaiting`), which is beyond the prover, and the properties of the three
runs that expect a violation. Every other property of a run is a theorem.

## 6. What is not modelled, and why

* Tone generators: floating point sines with random parameters, no control flow.
* JSON types: used by the unit tests only; one pass over a string, without other state.
* The replies of the web interface and their `Content-Length`, and the parsing of
  requests in libhttp: wording, on which no other step depends. A worker that finds no
  memory for its connection; the parts of libhttp the program does not use (files,
  websockets, tls, directories).
* Of the SDK: marshalling and signing of requests, other services, what curl does in a
  transfer. They are pure computation or input and output, and a put only tells apart
  what became of it.
* Comparing and displaying headers, and the checks for null buffers (`rawsocket.cpp`):
  used by the unit tests only.
* The decoders of the codecs, which the program does not have; masks finally applied to all codes.
* Time stamps in the pcap file, names of table, bucket and file apart from the second.
* Test framework; build and deployment files.

Most lines of the repository are vendored code of these kinds: generated clients of
services the program does not call, and the test framework.

## 7. Plan

1. `Call`, `DDGen`, `TrafficPool`: loop and calls first, as all traffic hangs on them. Done.
2. `CommandLine`, `SocketConsumer`, `PcapConsumer`, and their composition `Delivery`: what
   the loop is given, and where its packets go. Done.
3. `Checksums`, `Headers`, `PacketHeaders`, `G711`, `G722`: what is in the packets. Done.
4. `CloudServices`, then `CurlHandleContainer` and `PutThreads` as its detail. Done.
5. `ConnectionQueue`, `WebServer`: the threads of the web interface. Done.
6. Proofs: every safety property and every refinement that a run checks. Done.
7. Next: the composition of the loop with `Delivery`, so that the flows of `DDGen` are
   those that reach the sockets, and more of the clients of the web interface.
