# R2000 driver: TLA+ models, checks and proofs

The repository is a C++ driver for the R2000 laser scanner. A `Device::R2000`
object sends HTTP commands to the device, either synchronously or through an io
thread fed by a worker queue; a `DataLink` obtains a handle with such commands,
receives scan packets over TCP or UDP, assembles them into scans and keeps the
link alive; a `StatusWatcher` polls the device and turns failures into
connection events. All paths below are relative to the repository.

## Inventory

| component | source | state | operations | hard behaviour |
|---|---|---|---|---|
| Worker job queue | `include/Worker.hpp` | job list, mutex, condition, interrupt flag | `pushJob`, the worker loop, destructor | guards adopt a mutex nobody locked: missed notifications, racing list accesses; a job that throws ends the thread |
| Command channel | `src/R2000.cpp`, `include/R2000.hpp` | io_service, resolver, one socket, two deadline timers, cached endpoints, a Worker | `asyncSendHttpCommand`, `sendHttpCommand`, `cancelPendingCommands`, io thread, destructor | requests share the socket and the timers; completions, deadlines and cancellations race; the exchange blocks the io thread |
| HTTP exchange | `src/R2000.cpp`, `include/R2000.hpp` | none | `HttpGet`, `requestResultFromCode`, the JSON reading | each step may fail; an answer is told differently to a waiting caller and through the io thread |
| Command executors | `include/Control/Commands.hpp` | a promise or a callable per asynchronous command | sixteen commands, each synchronous, with a future, with a callable | a completion that throws is run twice; a refusal is answered `SUCCESS` without fields |
| Parameters and request builders | `include/Control/Parameters.hpp`, `include/Control/Commands.hpp`, `include/DataLink/DataLinkBuilder.hpp` | none (chained lists and maps) | read-only and read-write builders of six sections, handle parameters, their chaining | two builders may name one parameter, what is written may not be what is read |
| Device status | `include/StatusWatcher.hpp:43-418` | none (a tree of texts) | getters of the status, flags | numbers of several widths read from text, texts that are no number |
| Packet decoding | `include/DataLink/Data.hpp`, `include/DataLink/DataLink.hpp` | none | header, magic, points of three packet types | sizes compared from the wrong place, loops over points of another size |
| Data link builder | `src/DataLink/DataLinkBuilder.cpp`, `include/DataLink/DataLinkBuilder.hpp`, `include/Control/DeviceHandle.hpp` | the promise of the link; the streams the device still serves | `build`, synchronous and asynchronous, TCP and UDP | a handle granted and its answer lost; a link destroyed by the thread it waits for |
| Data link | `src/DataLink/{DataLink,TCPLink,UDPLink}.cpp` and headers | connected, stalled and interrupt flags, watchdog and stall tasks, last scan and its count, waiting clients | start of the scan output, watchdog, stall monitoring, connection, `waitForNextScan`, destructor | flags written by four threads; destruction while tasks start, wait or sleep |
| Scan assembly (UDP), framing (TCP) | `include/DataLink/{DataLink,TCPLink,UDPLink}.hpp`, `src/DataLink/{TCP,UDP}Link.cpp` | packets of the scan being built, extraction buffer, size of the next read | packet extraction, `addPacket`, completion, clearing | lost, duplicated, reordered datagrams; packets cut anywhere by reads |
| Status watcher | `src/StatusWatcher.cpp`, `include/StatusWatcher.hpp` | connected flag, consecutive failures, callback lists | polling task, registration of callbacks, threshold, destructor | a callback registered while the state changes; counters of two widths |
| Examples, build files, `NotImplementedException` | `examples/`, `CMakeLists.txt` | none | | not modelled |

How they interact: a command executor calls `R2000::asyncSendHttpCommand`, which
pushes a job to the `Worker`; the job starts a resolution or a connection whose
handler the io thread runs; the handler does the HTTP exchange and invokes the
executor's callable, which sets a promise. `DataLinkBuilder` runs a request
command and makes a link in its completion; the link's constructor submits
StartScan, whose completion launches the watchdog (which itself submits
FeedWatchdog and waits) and the stall monitor; the link's destructor joins both
and submits StopScan and ReleaseHandle. The watcher submits GetParameters every
second and fires callbacks.

What makes each of them correct:

- worker: an accepted job runs at most once, in order, and is not forgotten, as
  long as no two mutations of the list race; the destructor returns;
- channel: no submitted request is forgotten or answered twice, whatever it does
  to the others' socket and deadlines; a deadline cancels its own request, and a
  request keeps its deadline; the destructor returns;
- executors and builder: a promise is set once, the device's handles are all
  known to a link or released, callbacks do not outlive their link;
- link: a waiter gets a scan that is new since its wait began, a callback hears
  of each scan once, a dead stream is noticed, the tasks have ended when the
  handle is released, the destructor returns;
- exchange, parameters, status, decoding (pure): a success was received whole,
  what one side writes the other reads back, no byte past the end is read;
- reception: an output scan is one scan, whole and in order, and losses do not
  reach further than the packets they hit;
- watcher: connection events follow the counted failures and reach the listeners.

The hazards these properties are aimed at are listed, each at its line, under
`hazards` in `PROJECT.json`.

## Modules

| module | models | extends / uses |
|---|---|---|
| `JobQueue` | what a Worker promises: the abstract queue | |
| `Worker` | `Worker.hpp` | refines `JobQueue` |
| `WorkerProofs` | theorems about `Worker`, the refinement included | `Worker`, TLAPS |
| `CommandService` | what the asynchronous channel promises: each request is answered once, in its turn unless it was overtaken while it looked up the endpoints | |
| `CommandChannel` | the asynchronous half of `R2000.cpp` | a Worker reduced to its FIFO promise; refines `CommandService` |
| `ChannelProofs` | theorems about `CommandChannel`, the refinement included | `CommandChannel`, TLAPS |
| `HttpExchange` | one exchange, from what the network and the device make of it to the answer (pure) | |
| `RequestBuilders` | the parameters of each section, the builders, chaining, the handle's parameters (pure) | |
| `Commands` | what each executor makes of an exchange (pure) | `HttpExchange` |
| `DataLinkBuilder` | builds and links over one device, down to the release of their handles | `Commands`, `RequestBuilders`; Worker and channel reduced to ordered submission and answers |
| `BuilderProofs` | theorems about `DataLinkBuilder` | `DataLinkBuilder`, TLAPS |
| `DataLink`, `UDPLink`, `TCPLink`, `Links` | the classes, as they derive from one another; `Links` composes them | |
| `LinksProofs` | theorems about `Links` | `Links`, TLAPS |
| `PacketDecoding` | bytes to headers, integers and points (pure) | |
| `PacketDecodingProofs` | theorems about the reading of points | `PacketDecoding`, TLAPS |
| `ScanFactory` | the factory step both transports share (pure) | |
| `UdpReception` | datagrams to scans, with the network | `ScanFactory` |
| `UdpReceptionProofs` | theorems about `UdpReception` | `UdpReception`, TLAPS |
| `TcpReception` | byte stream to packets to scans, with the sizes of reads | `ScanFactory` |
| `TcpReceptionProofs` | theorems about `TcpReception` | `TcpReception`, TLAPS |
| `DeviceStatus` | the getters of a status, from texts (pure) | `RequestBuilders` |
| `StatusWatcher` | `StatusWatcher.cpp/.hpp` | commands reduced to an answer |
| `StatusWatcherProofs` | theorems about `StatusWatcher` | `StatusWatcher`, TLAPS |
| `MC*` | instances for TLC; those of the pure modules hold reference definitions as assumptions, which TLC evaluates at the start of the run that extends them | |

### How state and actions correspond to the code

Every thread is a program counter (`worker`, `pc`, `io`, `watchdog`, `monitor`,
`task`, `dtor`, ...) and an action is the code between two points where another
thread can see or change something. Where a guard of the source is built with
`std::adopt_lock` over a mutex that nobody locked, the block it guards is *not*
atomic, and testing a condition and entering a wait are two actions: this is how
notifications are missed in `Worker`, `CommandChannel` and `DataLink`. Where a
mutex is really locked (`scoped_lock` in destructors, the connection locks of
the watcher) the block excludes the others.

- `Worker`: `Offer` is `pushJob` up to the size test, `PushBack` is `push_back`,
  `Notify` is `notify_one` and the return. `Test`..`Relock` are the wait, `Swap`
  and `SwapSize` take the list, its nodes first and its count then,
  `Invoke`/`InvokeThrows` run the batch. `std::list` is two chains of nodes and a
  count, and no access to it excludes another. A `push_back` that another mutation
  overlapped may end as if alone (`Link`) or as `LinkTorn`: it cuts off the jobs
  linked since it found the last node, or is itself cut off, or ends the batch
  that was swapped out from under it; the count it writes forgets the others'
  (`size`); the chains may disagree on the last node (`broken`), so that later jobs
  are linked to nothing (`LinkAstray`), or leave a batch without an end (`loose`,
  `Overrun`). `raced` remembers that this has happened.
- `CommandChannel`: the worker's steps (`resolve`, `cached`, `close`, `connect`,
  `arm`, `notify`) are those of the job of `AsyncHttpGet`; `ready` holds the
  handlers the io_service has to run, in order; the steps of the io thread are
  those of `onEndpointResolutionAttemptCompleted`,
  `onSocketConnectionAttemptCompleted`, the two deadline handlers and
  `ioServiceTask`. Time is one flag per timer (its expiry has passed). Of the
  Worker it keeps the waits (`WorkerBlock`, `WorkerSpuriousWake`), where
  notifications are missed, and its destruction, the last part of the object's own
  (`DtorNotifyWorker`, `DtorJoinWorker`); what racing accesses do to the job list
  is `Worker`'s subject alone.
- `HttpExchange`: an exchange is a record of the steps that succeed, the status
  code and the body; `HttpGet` takes the first thing that goes wrong.
- `Commands`: one operator per executor, from an answer (result, set of fields)
  to what the promise, callable or caller is told.
- `RequestBuilders`: a section has read-only and read-write parameters; a builder
  call names one and gives it a value (`On`, `Off`, a number, a text encoded or
  not); lists and maps chain as `std::list` and `std::unordered_map::merge` do.
- `PacketDecoding`: a byte range is a sequence of bytes of `ByteBits` bits, so that
  words of four bytes can be enumerated; `Overrun` predicates say when the code
  reads past the range.
- `DeviceStatus`: a parameter is a text that is a number, empty, or unreadable;
  widths are constants.
- `DataLinkBuilder`: `BuildNow`/`BuildLater` are the two `constructDataLink`,
  `BuildAnswered` the callback, `StartAnswered` the callback of the link's
  constructor, `DestroyLink`, `StopAnswered`, `Release`, `ReleaseAnswered` the
  destructor; `held` is the device's side. A `pushJob` is `Refused` or `Accepted`:
  the test of the list's size and the `push_back` are two steps there, so a job may
  be accepted although others have filled the list since (`MayAppend`). A
  destructor whose StopScan is refused goes on (`AfterRefusal`).
- `DataLink` and its derived modules: `WatchdogTest`..`WatchdogWakes` and
  `MonitorWakes`, `ReadTimestamp`, `Judge` are the two tasks; `EnterWait`..
  `Return` are `waitForNextScan`; `StoreScan` and `Publish` are the two
  halves of `setOutputScanFromCompletedFactory`.
- `TcpReception`: a position in the stream is a number of units; a packet is
  `HeaderUnits` units, of which the first bears the magic, and its payload, a unit
  for each point. `pointsUpTo`, one of the constant `Layouts`, gives the points of
  the first n packets, and so where each begins. `strays` are the places of a
  payload that hold the bytes of the magic: they are found when the header before
  them has been lost, and what stands there is read as a header. Which header that
  is, and what is read where a header goes past the end of the buffer, is any of the
  constant `Inventions` (`Readable`): sizes, numbers and types that need not make
  sense. The packets that are then taken for somebody's payload are `skipped`; an
  unsupported type, or a payload read past its end, may end the io thread (`pc` is
  "dead").
  `UdpReception`: a datagram is one packet, `network` counts copies, and a scan is
  divided by `PointsUpTo`, the points of its first n packets. `Assembled` says by
  `Place` where std::sort puts each packet; TLC compares it with the library's sort
  (`AssembledIsSorted`).
- `StatusWatcher`: `Ask`, `Answer`, `Lock`, `Count`, `Treat`, `Publish`,
  `Connect`, `Fire`, `Unlock`, `Again` are one turn of `statusWatcherTask`;
  `AddDisconnected`, `TestConnected`, `CallAtOnce`, `AddConnected` a
  registration.

Steps named in a comment as "Mutant" are not part of the models: they are
mistakes one could make in the definition below them, kept beside it because a
property of the module is there to catch it.

## What the runs check

| run | module / cfg | bounds | shows |
|---|---|---|---|
| `worker` | `MCWorker` | 2 callers, 3 jobs of which one throws, maxJob 0 | types; no job at two places or run after it was lost, and none lost before two mutations of the list raced (`Conservation`); until then the list stays within one job per caller of maxJob (`QueueBound`); the loop implements `JobQueue`, whose promise of order and completeness ends with the first race (`ImplementsQueue`); a queued job is held up only by a missed notification (`QueuedResolves`), which the next push repairs, and the destructor if it finds the worker asleep (`NextNotificationRescues`) |
| `channel` | `MCChannel` | 2 requests, both in flight at once, one whose callable throws, answers without fields, 1 cancellation, a network and a device that may stay silent | each unanswered request is in exactly one place, an answered one nowhere (`Accounted`); the channel implements `CommandService` (`ImplementsService`): one answer each, two for a callable that throws, in their turn unless overtaken during the first resolution; an attempt loses its deadline only to the completion of another (`DeadlineIsLostToAnother`); answers come unless a missed notification, or a silence that nothing ends, holds the channel for ever (`AnsweredUnlessStranded`); a request stranded with the io thread is rescued by the next (`NextRequestRescues`) |
| `channel_life` | `MCChannelLife` | 2 requests one after the other, 1 cancellation, the object destroyed at any time, a network and a device that may stay silent | a cached empty resolution is final (`PoisonedCacheIsFinal`); answers come as above; nothing but the exchange in progress calls back after `stop()` (`StopIsFinal`); the destructor ends if the io thread hears it, unless the worker misses its notification (`DestructionEndsIfHeard`) |
| `channel_timeout` (violation) | `MCChannelTimeout` | as above, not destroyed | `TimeoutIsDue` fails: see Findings |
| `watcher` | `MCWatcher` | 1 listener, thresholds {-1, 1} and 3, counters of 2 and 3 bits, 3 changes of reachability | disconnection exactly at the threshold (`DisconnectionIsEarned`, `ConnectionIsEarned`); a listener no change overlapped knows the connection; silence, presence and status are eventually told, and the destructor ends, unless the task waits for ever for an answer (`ChangesAreDetected`, `DestructionEnds`). Its module also evaluates the getters of the status over all texts (`MCDeviceStatus`) |
| `udp` | `MCUdp` | 3 scans of packets of 2, 2 and 1 points, 1 loss, 1 duplication, any reordering, scan numbers of 1 bit | unless packets a turn of the scan counter apart have met in it, an output is packets of one scan in order, whole unless the network duplicated one of them (`OutputIsOneScan`); a scan that arrives in order is output as it is, whatever came before (`ScanInOrderIsOutput`). Its module also evaluates the decoding over all small inputs (`MCPacketDecoding`) |
| `tcp` | `MCTcp` | 3 scans of 2 packets, payloads of 1 or 4 units in every order (`MCLayouts`), first reads of 4, 5 or 7, scan numbers of 1 bit, no stray magic or one at any place of a payload, six things that may be read there or past the end (`MCInventions`) | what no misread packet is part of, and no packets a turn apart, is output as whole scans in order (`OutputsAreWholeScans`); only a packet whose header a read has cut is lost, or one behind a stray magic, which takes such a cut (`OnlyCutHeadersAreLost`); a scan all of whose packets were extracted is output (`ExtractedScanIsOutput`); the buffer is bounded by a packet, a reception or, after a cut, what was invented (`BufferBounded`) |
| `tcp_cut` (violation) | `MCTcpCut` | 2 scans | `PartialPacketIsKept` fails: see Findings |
| `links` | `MCLinks` | 2 scans, both transports, watchdog on or off | a waiter gets a scan not yet counted when it began to wait, never one from before the last it got, and the same twice at most; a wait ended by the destruction may get an old one, and then it is the last ever (`NextScanIsNew`); missed notifications are repaired by the next; a listener registered before a scan hears of it once, unless the race of its registration ended the program (`ListenerHearsEachScan`); a dead stream called alive is reported stalled, again and again; the destructor ends unless it waits for ever for an answer (`DestructionEnds`) |
| `links_late` (violation) | `MCLinksLate` | 1 scan | `WatchdogExitsBeforeRelease` fails: see Findings |
| `builder` | `MCBuilder` | a TCP and a UDP build, 1 stream left, maxJob 0 with a test that may be overtaken, 1 reboot or version request, an endpoint lookup that may be overtaken | promises set once; every handle accounted for (`HandlesAccounted`); StartScan's callback finds its link (`StartFindsItsLink`); a build or a destructor waits for ever only for a command that is itself never answered, or while the io thread destroys a link (`CallsEnd`). Its module also evaluates what every executor makes of every exchange (`ExecutorsTellTheAnswer`, `VersionsAreOrdered`, `MCHttpExchange`) and what the builders write (`MCRequestBuilders`) |
| `builder_dropped` (violation) | `MCBuilderDropped` | 1 build, no missed notification, every exchange ends (`AnsweredSpec`) | `StreamIsReleased` fails: see Findings |

What the pure modules are compared with, each an assumption of its MC module:

- `MCPacketDecoding`: integers are read as they were written; a header is 76
  bytes on the wire and 80 in memory, and its fields do not overlap; a whole
  payload gives all its points and nothing else; the first magic is found, with
  less than a header behind it at some places.
- `MCHttpExchange`: a success was received to its end with status 200; a refusal
  looks like an answer without fields; the two forms of a command agree but on a
  body that cannot be parsed.
- `MCRequestBuilders`: no parameter has two writers or two readers but those
  named in it; what is written can be read back; the watchdog of a handle follows
  the last call; an extraction of the handle's parameters is safe unless the
  watchdog is on without a timeout; the first of two chained builders wins; only
  the values encoded are free of blanks.
- `MCDeviceStatus`: a getter reads the parameter it asks for; flags are
  independent bits; a negative temperature wraps; only the flags throw.

### Why the bounds are enough

- Two is the least number of callers or builds that can interfere, and the code
  has no case that a third makes possible, except a third job in the worker's
  list (one being pushed, one racing with it, one waiting), which the run has, and
  a third request, which may find the endpoints cached while two look them up: the
  theorems about the channel are for every number of requests. `maxJob` 0 puts the
  queue at its limit with the first job.
- Two scans are enough for a waiter to be shown one stored and not yet counted;
  the counter is only compared.
- The width of `scanNumber` is a constant, 16 in the code. With one bit the third
  scan has the number of the first, so that the counter goes round within the
  runs, and packets of two scans can be taken for one (`Turned`); in the code that
  takes losses or delays that last 65536 scans, 22 minutes at 50 Hz.
- Three packets of unequal sizes allow a copy to stand for a missing packet
  (2+2 and the missing 1, 2+2+1), which two could not.
- Payloads shorter and longer than a header, and three first read sizes, make the
  reads cut packets at each place: inside the header, the payload, and between
  packets. One stray magic is enough to be found behind a cut; the six inventions
  are a whole packet of a scan under way, the same in one unit, one that announces
  more than a read can bring, a type B payload that is read past its end, a type
  that is not supported, and an empty header, which the extraction finds for ever.
- The watcher's counters keep the relation of the source's widths (32 bits
  counted, 64 compared): a threshold that the counter never reaches exists.

`CHECK_DEADLOCK FALSE` is in every cfg because every one of these systems may
come to rest: clients stop calling, bounded inputs end, objects are destroyed.

### Fairness and why the code justifies it

The fairness is that of the operating system and of asio, never of the clients
or the device's good will, with the exceptions named here.

- Threads run: weak fairness of each thread's step (`WorkerStep`, `IoStep`,
  `TaskStep`, the link's tasks, a destructor that has begun). Clients are never
  obliged to call, except that a `pushJob` that has begun goes on.
- Timers expire and timed waits time out.
- `CommandChannel!FairSpec` is that alone, and assumes nothing of the network or
  the device: an exchange is synchronous and has no timeout. Its liveness properties
  name what may hold a request for ever: a silence that nothing ends (`Unanswered`:
  an exchange, or an attempt or a lookup whose deadline was called off by another's
  completion), an io thread or a worker asleep on a notification it missed
  (`IoStranded`, `WorkerStranded`).
- `StatusWatcher` assumes strong fairness of asking: the channel is not refused for
  ever. No answer is assumed: `Awaiting` is the escape of its liveness properties,
  because `future->get()` has no timeout.
- `Links` assumes that its threads run and that the operating system ends attempts
  to resolve and to connect, which have no timeout of the driver's but fail after
  the system's. No command is assumed to be answered (`AwaitsAnswer`).
- `DataLinkBuilder!FairSpec` assumes that a callback that has begun ends and that a
  destructor goes on; a job may stay in the worker's list, or with the io thread,
  for ever (`Unanswered`). `AnsweredSpec`, for the violation `builder_dropped` only,
  adds that they do not, so that the counterexample owes nothing to either.

## What is proved

`Worker`, for every finite set of callers, every set of jobs and every `maxJob`
(from `WorkerAssumption` alone): every safety property of the `worker` run.

- `TypeCorrect`: `Spec => []TypeOK`. The invariant is inductive as it stands,
  because it says that a caller holds a job exactly while it is inside
  `pushJob`, that only callers inside `push_back` are torn, and that `size()` is
  the length of the list until two mutations have raced (`Sized`).
- `QueueBounded`: `Spec => []QueueBound`. `QueueBound` is not inductive: a
  caller that has passed the size test has not yet grown the list. `BoundInv`
  counts those callers, `Len(jobs) + Cardinality(Inside) <= MaxJob +
  Cardinality(Callers)`: `Offer` adds one to `Inside` only when
  `Len(jobs) <= MaxJob` and the caller itself was outside, `Link` moves one from
  `Inside` to the list. After a race there is no bound to prove: `size()` has lost
  jobs that the list holds.
- `JobsConserved`: `Spec => []Conservation`. The invariant is about the jobs that
  wait, `local \o jobs`, which a step extends by one, shortens from the front or
  leaves alone, or, in a race, cuts off behind some place or extends in the middle
  (`TornWaiting`). `BatchInv` (the batch is empty unless it is being run) makes the
  swap leave it alone; `HandInv` (a job in a hand is no longer fresh) keeps a job
  out of two hands. `AppendFacts`, `SuffixFacts` and `NewAtOnePlace` are the
  lemmas on sequences without repetition.
- `WorkerImplementsQueue`: `Spec => Queue!Spec`, from the same invariants. The
  steps that take from the front (`InvokeTakes`, `InvokeThrowsTakes`) are
  `JobQueue`'s `Run`; a push is its `Accept`, or one outcome of its `Race`
  (`TornRaces`).

`StatusWatcher`, for every set of listeners, every threshold, negative ones
included, and all widths of the counters. `CounterAssumption` says that powers of
two are positive numbers, which the prover does not know, and that the counter is
no wider than the threshold, as 32 and 64 bits are.

- `TypeCorrect`.
- `DisconnectionEarned` and `ConnectionEarned`, from `EarnedInv`: the count agrees
  with the failures since the last success until it goes round and never exceeds
  them, with a failure in hand between an answer and its treatment.
- `PunctualListenersInSync`, from `ListenerInv`: what a listener was told at each
  place of its registration, and that a listener in the middle of one is `late`
  whenever an event is about to be fired.

`PacketDecoding`, for every number of bytes and points (no induction is needed:
the greatest number of points is exhibited):

- `WholePayloadIsRead`, `WordsNeverOverrun`, `AmplitudesOverrun`: how many points
  are read from a payload that was cut, and that only packets of type B are read
  past their end, exactly when four or five bytes of a point are left.

`CommandChannel`, for every number of requests, every set of callables that
throw, and every bound on requests in flight and cancellations (from
`ChannelAssumption` alone): every safety property of the two runs. The invariant
`IInv` says where requests are, and in which order.

- `Typing` adds to `TypeOK` that a thread at a place where it works for a request
  has one, and so has a socket that connects, and that handlers of deadlines
  belong to no request.
- `Accounting`: the unanswered requests are those in the queue, in the worker's
  hands, resolving, connecting, completed and in the io thread's hands; these six
  are disjoint (`Apart`), and no request has two handlers (`Solo`).
- `Lookups`: which requests looked up the endpoints. They are the first ones
  (`Prefix`), the only ones that resolve, and the only ones the io thread connects
  for; an attempt that a worker about to connect to no endpoint leaves alone is
  one of theirs.
- `Unknown`: before an outcome is kept nothing is beyond its resolution.
- `Order`, without which the refinement is not inductive: whoever looks up no
  endpoints is behind every earlier request at each of the six places, and in the
  sequence of handlers.

The lemmas `...Moves` say of each action which request leaves which place for
which; `ReadyGets` says what it does to the sequence of handlers, from the facts
about joining sequences (`JoinFacts`, `TailFacts`). The four parts are then kept
by reasoning on sets alone.

- `TypeCorrect` and `RequestsAreAccounted` follow at once.
- `ChannelImplementsService`: `Spec => Service!Spec`. A step that takes a job while
  the endpoints are unknown is `LookUp`, a resolution's handler `Learn` or `Reply`,
  the handler of a connection and the exchange `Reply`; whose turn it is comes from
  `Order` (`EarlierLookUp`).
- `FailedResolutionIsFinal`: a request that was not submitted when the cache was
  poisoned can only be in the queue, in the worker's hands or in a handler that
  reports `notFound` (`Doomed`), and `Poisoned` itself is stable.
- `NothingRunsAfterTheStop`: after the stop the interruption is set, and the
  io_service is stopped or the io thread has still to test the interruption
  (`Stopping`).
- `DeadlinesAreLostToAnother`, for any number of requests in flight. An attempt
  under way is `Guarded`: a thread has still to arm its deadline, the timer is
  armed, or its strike is in the io_service. Of all the steps only the handler of a
  completed attempt can end that, when the socket is already another's: it calls
  `socketDeadline` off, by then the deadline of the attempt that aborted it, and
  nothing ends that attempt any more but a later request.

`Links`, for every number of scans: every safety property of the `links` run.

- `TypeCorrect`, whose invariant says that a scan is stored and not counted exactly
  while the io thread is between the two.
- `WaitersGetNewScans`, from `WaitInv`. `LetThrough`: the count a waiter remembers is
  one the counter has had, and its predicate lets it through only when it has moved
  or the link is interrupted. `Returned`: the scan of the last wait was stored when
  the next one began, and so is counted before a third begins. `EndedHolds`: whoever
  finds an interrupted link with nothing new finds it after the io thread has ended,
  so that no scan comes any more.
- `ListenersHearEachScan`, from `ListenerInv`: what was told is exactly the sequence
  of scans since the registration, but for the one the io thread is at.

`DataLinkBuilder`, for every set of clients, number of streams and length of the
worker's queue (from `BuilderAssumption` alone): every safety property of the
`builder` run.

- `TypeCorrect`. It bounds the promises of a build (`Promises`), which takes that no
  command is on its way twice, and what the list has beyond its limit (`Spread`): a
  caller whose passed test was overtaken appends behind the others' jobs only.
- `HandlesAreAccounted`, from `Once` (a build has each command at most once on its
  way), `Stages` (what is on its way tells the build's phase) and `Grants` (a handle
  is not granted before its request has reached the device, and the answer on its
  way tells what became of it).
- `CallbackFindsItsLink`, from `Ahead` (what a link submits after StartScan is behind
  it, in the two lists and in the io thread's hands) and `Waited` (a destructor that
  has waited for StopScan has waited for StartScan).

`UdpReception`, for every number of scans, every division of a scan into packets
of at least one point, and every bound on losses and copies (from `UdpAssumption`):
every safety property of the `udp` run.

- `TypeCorrect`. A packet without a copy is on its way once at most and not before it
  is sent (`NetworkInv`), so that none is on its way more than twice; an empty
  factory counts no points (`Counted`).
- `ScansInOrderAreOutput`, from `OrderInv`: the packets that came in order are
  exactly what the factory holds, with their points, until they are a scan, and then
  the last output. It takes `SortedStays`, that a sequence in order is not changed
  by the sort, and `PointsIncrease`, which is an induction on the number of packets
  by the smallest counterexample (`WFMin`).
- `OutputsAreOneScan`. `FactoryInv` relates what the factory counts to what it holds:
  unless packets a turn of the counter apart are in it (`Turned`), they are of one
  scan, and if none of them was copied, each is there once and `points` is the
  number of points they cover. As many points as a scan has are then all of its
  points, and each point belongs to one packet (`EnoughIsAll`). `PlaceFacts` says
  that the sort has one place for each packet and one packet for each place.

`TcpReception`, for every number of scans and of packets in a scan, every set of
layouts, and every size of the reception buffer, with no other assumption than
`TcpAssumption` (no packet is shorter than what is searched for a header): every
safety property of the `tcp` run. The lemmas on positions (`Positions`,
`PointsIncrease` and those after them) say that packets follow one another without
a gap, by the smallest counterexample where a proof on paper is an induction;
`Division` and `ScanFacts` say which packets a scan has.

- `TypeCorrect`, from `Base`: the factory holds headers of the stream, so that what
  it would need for a scan is known, and the packet found lies in the buffer
  (`FoundFacts`).
- `LossesAreCuts`. `OnlyCutHeadersAreLost` speaks of the end of a reception only.
  `LossInv` holds at each step: what begins before the buffer was extracted, cut or
  skipped, and at the end of a reception nothing in the buffer is whole, but behind
  a stray magic. `CleanInv`: until a header is cut the extraction goes from packet
  to packet, so that it meets neither a stray magic nor a header past the end
  (`SearchUnits` is more than a header).
- `BufferStaysBounded`. `BufferBounded` is not inductive: how much a read may add
  depends on the size asked for. `BufferInv` says that between receptions the buffer
  holds less than is searched for a header, or begins with a packet, or after a cut
  with an invention, that the next read does not go beyond (`AtRest`).
- `ExtractedScansAreOutput`, from `ScansInv`: a scan is output, or a packet of it was
  passed without being extracted, or there is a packet of it that the extraction has
  still to reach and for which the factory is ready, the first of the scan or the
  one at which the buffer begins (`Awaited`). What earlier scans, or misread headers,
  have left in the factory does no harm, because a first packet empties it; and
  nothing can be misread between packets that follow one another.
- `OutputsAreScans`. `FactoryInv` relates the count of points to the packets held.
  Unless one of them was misread or two are a turn of the counter apart
  (`Doubtful`), they are of one scan, up to packet `i`, with at most its points up
  to `i`, and with exactly those only if they are all there in order (`Follows`). So
  as many points as a scan has are the whole scan. `OutputsInv` says that these
  outputs lie before the buffer, from which their order follows.

What stays with TLC, and why. Liveness (`~>`, `<>[]`) is out of the prover's reach
under fairness: `QueuedResolves`, `NextNotificationRescues`, `NextRequestRescues`,
`AnsweredUnlessStranded`, `ChangesAreDetected`, `DeadStreamIsReported`, `CallsEnd`,
and that destructors end. So do the pure modules `HttpExchange`,
`RequestBuilders`, `Commands` and `DeviceStatus`, finite tables that TLC evaluates
whole. Every invariant and every refinement that the passing runs check is proved.

## Findings

Each of these is a run in which TLC violates what a comment of the repository
says.

1. `channel_timeout`: a deadline handler left over from an earlier request
   closes the shared socket of the next one before that one's own deadline is
   armed; the request ends with `TIMEOUT` at once (`src/R2000.cpp:321`).
2. `tcp_cut`: a packet whose header is cut by the end of a read is dropped,
   although `extractScanPacketFromByteRange` is documented to keep it
   (`include/DataLink/DataLink.hpp:433`).
3. `links_late`: a link destroyed before StartScan is answered releases its
   handle, and its members, while a watchdog launched late is running
   (`src/DataLink/DataLink.cpp:58`).
4. `builder_dropped`: when the future of an asynchronous build is destroyed
   before the answer, the link dies on the io thread, whose destructor waits for
   a command that only this thread can run (`src/DataLink/DataLinkBuilder.cpp:146`).

Other disagreements, met while reading, that the models contain and that have no
run of their own:

- `pushJob` returns true for "queued for execution" (`include/Worker.hpp:85`),
  but a job whose notification is missed waits until another push
  (`QueuedResolves`, `NextNotificationRescues`), and one that another push, or the
  swap, overlaps may be forgotten, also after its own push returned (95 against 95
  and 54: the lock guards adopt a mutex they have not locked). Its limit admits
  `maxJob + 1` jobs, and has no meaning once `size()` has lost an increment.
- A connected listener registered while the connection changes can miss the
  event (`include/StatusWatcher.hpp:465`, against the comment at 461).
- A connection attempt has a "maximum time allowed for the socket to connect before
  cancelling the operation" (`include/R2000.hpp:413`). With two requests in flight
  the completion of the aborted one cancels the other's deadline
  (`src/R2000.cpp:269`), and nothing ends its attempt: `DeadlineIsLostToAnother`
  says that this is the only way.
- A `waitForNextScan` that the destruction ends is documented to return no scan
  (`include/DataLink/DataLink.hpp:511`) and returns the last one (527); two waits
  may return the same scan, stored before the first began and counted after.
  `NextScanIsNew` states both.
- `UDPLink`'s constructor sets `isConnected` after StartScan's callback may have
  cleared it (`src/DataLink/UDPLink.cpp:56`), and its destructor waits on an
  invalid future when the socket could not be set up (110).
- A FeedWatchdog command that the queue refuses fires no connection-lost event.
- `GetProtocolVersion::execute` tests the result the wrong way round
  (`include/Control/Commands.hpp:277`): `SUCCESS` gives `UNKNOWN`, a failure
  throws.
- A command that the device refuses with an error code is answered `SUCCESS`
  without fields (`src/R2000.cpp:183`); where no field is extracted the refusal
  is told as a success.
- `extractWatchdogParameters` throws when the watchdog is on without a timeout,
  and terminates the process in the asynchronous build, which is `noexcept`.
- The asynchronous build captures the caller's `shared_ptr` to the device by
  reference; it is not modelled, a client that keeps it alive is assumed.
- StartScan's endpoint lookup can be overtaken by the release of the handle, so
  that its answer comes to a link already destroyed
  (`src/R2000.cpp:217`, `src/DataLink/DataLink.cpp:28`).
- `retrieve48bitsUnsignedIntegersFromByteRange` stops when "the remaining bytes
  after the last extraction is less than 6 bytes"
  (`include/DataLink/DataLink.hpp:139-140`); the loop asks for four (155).
- `headerSize` "defaults to 60 bytes" (`include/DataLink/Data.hpp`); the fields
  read take 76, and the structure whose size is compared 80.
- An absent echo is stored as the quiet NaN of an unsigned integer, which is 0.
- `withIpMode` writes `ip_address` (`include/Control/Parameters.hpp:294`), and the
  names of `PARAMETER_ANGULAR_RESOLUTION` and `PARAMETER_SAMPLING_RATE_MAX` are
  those of other parameters (112-113).
- A timeout given to an asynchronous command is documented as the "Maximum time
  allowed for the command to complete"; it bounds resolution and connection, not
  the exchange.
- `getStatusFlags` throws on a status without flags, where the other getters
  catch; a temperature below zero is read as almost 2^64.
- A user tag or notes with blanks are sent unencoded; a watchdog timeout above
  2^31 ms is accepted and cannot be read back; of two chained builders the first
  wins; the executor of an empty parameter list pops from an empty list
  (`include/Control/Commands.hpp:831`).
- A body that is no JSON gives `FAILED` through the io thread and an exception to
  a caller that waits.

## What is not modelled, and why

- The bytes of a packet, in the state machines: packets are records, and what is
  read where no header is, is a member of a set. `PacketDecoding` has the bytes,
  without the stream around them. UDP datagrams that are no packet of the device.
- Racing accesses to the worker's job list, outside `Worker`: `CommandChannel`,
  `DataLinkBuilder` and what uses them take jobs in the order in which they were
  pushed, as `JobQueue` promises until two mutations race.
- The synchronous commands' own connection (one socket per call, no shared
  state) beyond the exchange and its answer.
- `FactoryResetParameters`, `GetParameters::execute` and the executes over
  several handles, which no caller can instantiate: private member, or a map
  chained as a list.
- Unbounded growth of clients' own data.
- What clients' callbacks do: they are assumed to return.
- The wording of URLs beyond the parameters and values in them; `to_string` of
  results; comparison and hashing helpers.
- `NotImplementedException`, the examples and the build files, which keep no
  state.

## Plan

Order of work, the most important behaviour first.

1. `JobQueue`, `Worker`, their proofs and the refinement.
2. `CommandChannel`, and `CommandService`, which it implements.
3. `StatusWatcher` and its proofs, `DeviceStatus`.
4. `DataLink`, `UDPLink`, `TCPLink`, `Links`, callbacks included.
5. `ScanFactory`, `UdpReception`, `TcpReception`.
6. `HttpExchange`, `Commands`, `DataLinkBuilder`.
7. `RequestBuilders`.
8. `PacketDecoding` and its proofs.
9. `ChannelProofs`, `LinksProofs`, `BuilderProofs`, `UdpReceptionProofs`.
10. `TcpReceptionProofs`, with the positions of packets given by a constant, as
    `PointsUpTo` gives the points of a scan.

All of it is done. What is left is what the prover cannot do, liveness under
fairness, and what the list above leaves out.
