# TLA+ verification of the Modbus gateway

The gateway is one Go process. It polls Modbus slaves over TCP and serial lines,
publishes what it reads to NATS, executes write commands that arrive over NATS or
HTTP, and can be reconfigured, reloaded and restarted while it runs. The modules
here model its own logic: the goroutines of the engine and their supervisor, the
exchange of frames on a link, the plan a link is polled by, the queues towards
NATS, the runtime manager, the handlers that change the configuration, and the
logs and monitors people look at. Paths below are relative to `src/`; `worker.go`,
`engine.go` and so on are in `internal/engine/`.

Contents: 1 the system, 2 the modules, 3 the runs, 4 bounds, 5 fairness,
6 what is proved, 7 what only TLC checks, 8 what is not modelled, 9 findings,
10 plan.

## 1. The system

### Components, their state and operations

| component | code | state | operations |
|---|---|---|---|
| engine supervisor | `engine.go` | `workers` (link -> worker), `closed`, `ctx`, under `mu`; `applyMu` serialises reloads | `Apply`, `Stop`, `Submit`, `HasDevice`, `Status` |
| worker (one goroutine per link) | `worker.go` | `writeCh`, `done`, `phase`, `connected`, plan, value cache, `deviceState` (backoff), driver | `run`, `stop`, `collectLoop`, `pollDevice`, `pollOne`, `tryWrite`, `drainWrites`, `execWrite`, `waitReconnect`, `slowProbe` |
| link alarm | `event.go` | `linkTracker`: `active`, `failures`, `lastEmit` | `onDisconnect`, `onRecover` |
| collection plan | `plan.go`, `converter/grouping.go` | none (compiled from tables) | `BuildPlans`, `buildDevicePlan`, `BuildGroups`, `planFingerprint` (engine.go) |
| value codec | `converter/mapper.go`, `value.go`, `validate.go` | none | byte orders, bit ranges, write plans, validation |
| Modbus codec | `converter/modbus/*` | transaction ids of TCP, a counter per device | encode, `DecodeRead`, `DecodeWrite`, `ExceptionError`: errors that resend, resynchronise or end |
| connector | `connector/*` | connection, receive buffer | `Open`, `Close`, `Send`, `Receive`, `Refresh` |
| communication monitor | `monitor.go`, `web/static/js/log.js` | ring, session and cumulative counters, `nextSeq`; the page's cursor | `packet`, `complete`, `reset`, `snapshot` |
| runtime manager | `internal/runtime/manager.go` | `state`, `engine`, `nats`, `cancel`, `configDirty`, `lastApplyErr`, `restarting` | `New`, `Restart`, `Stop`, `ConfigChangedErr`, `start` |
| NATS client | `internal/natsclient/client.go` | `events` queue, `eventsClosed`, `logQueue` | `enqueue`, `publishLoop`, `Close`, `handleCommand`, `handleQuery`, `WriteLog`, `logLoop`, `PublishAlarm` |
| command interface | `internal/api/realtime.go`, `client.go` (`handleCommand`) | per command a `ResultCh` of one place and a timer | `SetValue`, `handleCommand`, `respondAck`, `PublishWriteResult` |
| configuration API | `internal/api/channel.go`, `model.go`, `api.go` | the tables of links and models | `SaveChannel`, `DeleteChannel`, `SaveModel`, `DeleteModel`, `notifyConfigChanged` |
| settings, provisioning | `internal/config`, `internal/api/settings.go`, `provisioning.go` | one row each; the copy the page holds | `GetSettings`, `SaveSettings`, `SaveProvisioning`, and what `start` reads of them |
| store | `internal/store` | SQLite database | open, migrate, back up |
| logging | `internal/logx` | ring of entries, subscribers, the current set of handlers, file writer, rotation, NATS outlet | `Init`, `swap`, `dailyRotate`, `push`, `resize`, `recent`, `subscribe`, `SyslogStreamHandler`, `natsHandler` |
| process | `main.go` | none | boot, shutdown on a signal |
| web pages | `internal/web`, `internal/buildinfo` | none | static |

### How they interact

```
 HTTP handlers --rows--> store                            main.go: boot, shutdown
      |                    ^                                    |
      | ConfigChangedErr   | read twice (links, models)         v
      +---------------> runtime manager  <---- Restart ---- settings API
                           |  owns one engine and one NATS client
                Apply/Stop |                    New / cancel / Close
                           v                          v
  SetValue --Submit--> engine supervisor <--Submit-- NATS client --> NATS
                           | starts, stops, force-closes   ^   ^
                           v                               |   | WriteLog (4th log outlet)
                        workers (one per link) --events----+  logx --> ring --> SSE, pages
                           |        \--packets, outcomes--> monitor --> log page
                           v
                        driver (connection or serial port) <--> slaves
```

* A worker is the only user of its driver, except that `stop`, after cancelling the
  worker, closes the driver from outside, which wakes a blocked `Receive`, and then
  waits for the worker to end.
* Telemetry, receipts and alarms leave a worker through a sink, which is the NATS
  client. `enqueue` may run in any worker; `publishLoop` is one goroutine.
* The manager reads its fields under a lock and calls the engine and the client
  after releasing it, so handlers, a restart and a shutdown overlap.
* A handler makes several transactions and then notifies the manager.
* A goroutine that logs runs `WriteLog` itself, the publishing loop included.

### What is hard, and what makes each component correct

* **Supervisor and workers.** Reloads, a stop, submitted commands, panics, and the
  cancellation of the parent context interleave. Correct: at most one worker per
  link and one owner of its port; nothing runs after `Stop`; only outdated workers
  are stopped; the last reload wins; an accepted command is answered once, before
  the worker reports its end; every call returns.
* **Link.** Retries, slow probes, broken polls, cancellation. Correct: alarm and
  recovery are paired; what is said about devices while the link is down is
  offline; a poll asks all groups of a device and is judged by all of them; a failing
  device neither starves the others nor is polled faster.
* **Exchange.** Answers come late, twice, damaged or never, while requests are sent
  again; each device numbers its own requests, so that the transaction ids of two
  slaves of a link coincide. Correct: an answer is taken only for its own request; a receipt is true;
  every command ends.
* **Plan and codec.** Alignment, segment and width limits, ten byte orders. Correct:
  each property is read once, from its own registers; requests are legal; what is
  written is read back; a write does not touch neighbours.
* **Queues.** Full queues, closed channels, a loop that ends. Correct: no send on a
  closed channel, no caller blocked, newest kept, nothing lost silently.
* **Manager.** Restart, shutdown, saved configurations and commands overlap.
  Correct: one runtime, nothing leaked, truthful status, changes delivered.
* **Command interface.** A caller times out, goes away or is answered while its
  command is queued or executed. Correct: what a caller is told stays true; the
  receipt of an executed command is published whether or not anyone waits.
* **Configuration API.** Check and insertion are different transactions, and the
  engine is given what two more read. Correct: exclusive ports, mounted models
  exist, no row overwritten or revived, and the engine runs what the tables say.
* **Settings.** Found, stored and applied are three steps; a start reads two rows at
  different moments; each load may fail. Correct: what is saved takes effect or is announced.
* **Log reload.** The old writer is closed while a logger or its rotation may still
  use it. Correct: no file is left open.
* **Monitor and log streams.** Numbers, sessions and reloads against a page's
  cursor. Correct: no gap, no repetition, no reordering, counters agree.

The list of hazards, each at its line and with the properties that watch it, is in
`PROJECT.json`.

## 2. The modules

Each module has one action per operation, handler or step between two points where
another goroutine may run. A lock held over a piece of code makes it one action;
a lock released makes a new one. `map` in `PROJECT.json` names the lines behind
every definition. Operators called *mutant* in the modules are faulty forms of an
action, used to see that a property notices the fault; nothing else uses them.

| module | models | state and actions |
|---|---|---|
| `Engine` | supervisor and worker life, write queues | `pc`, `plan` per call of Apply or Stop; `workers`, `closed`, `applyMu`, `ctxDone` of the engine; `wpc`, `cancelled`, the port and the queue of each worker; `ApplyLock/Diff/Start`, `StopLock/Return`, `WorkerConnect ... WorkerExit`, `SubmitLookup/Send/Full`. A worker is named by the call of Apply that started it and its link. |
| `CommandLedger` | what the engine promises about commands | each command is new, accepted, refused or answered, once; `Engine` is shown to implement it |
| `Link` | one worker's connection, schedule, device state and alarm | `LinkOpened/OpenFailed`, `LinkRetry`, `LinkHeartbeat`, `LinkProbeOk/Failed`, `LinkTick`, per group `GroupOk/GroupFailed`, per device `PollOk/Cut/Failed/Broken`, `LinkExit`, `LinkRestart` |
| `Exchange` | one request at a time on the wire, of a TCP or an RTU link (`protocol`, chosen in the initial state) | `encoded` counts the frames of each slave; worker: `Send`, `Receive`, `FrameTimeout`, `Again`, `NextFrame`, `Succeed`, `Fail`; slaves answer from `wire` into `inbox` late, often, damaged or never |
| `PropCodec` | pure: byte orders, bit ranges, validation, write plans, grouping | operators on properties; bits are named by where they come from |
| `DeviceAccess` | one device: compile, poll, write, reload | `Configure`, `StartRound`, `ReadGroup`, `SkipGroup`, `StartWrite`, `WriteFrame/Failed/Done`, `Reload` over `PropCodec` |
| `CommMonitor` | ring, counters, snapshots and the page | packets, outcomes, sessions, reloads, `Fetch` |
| `Manager` | runtime manager with concurrent savers | threads boot, restart, shutdown run `start` and `stop`; savers save again and again and run `ConfigChangedErr`; `Apply` and `Engine.Stop` are atomic here |
| `NatsQueue` | the event queue of the client | `enqueue` in its steps under `eventsMu`, `publishLoop`, `Close`, cancellation |
| `EventQueue` | what the client promises about events | a bounded queue that drops its oldest; `NatsQueue` is shown to implement it |
| `Commands` | `SetValue` and `handleCommand` from the check of a request to the last answer | `ledger` (a `CommandLedger`), `result`, `slot` (the `ResultCh`), `caller`; `HasDevice`, `SubmitLookup/Return`, `Reply`, `Execute`, `Deliver`, `ReceiveResult`, `WaitTimeout`, `ReceiptEnqueue` over the actions of `NatsQueue` |
| `ConfigApi` | the handlers that create, update and delete links and models, `validateMounts`, the rows a first version has left, `BuildPlans` and `buildChannelPlan`, and what the engine is given | `channels`, `models`, `plans`; one action per transaction, then `LoadChannels`, `LoadModels`, `Apply`. Parameters are accepted or refused, a port may be written in two ways (`ResourceKey`). |
| `LogFanout` | `WriteLog`, `logLoop`, `PublishAlarm` | a stack of calls per goroutine, because logging calls itself |
| `LogStream` | ring of log records and its streams | `Push`, `Resize`, `Subscribe`, `Recent`, `Send`, `Leave` |
| `LogReload` | hot reload of the log: `Init`, the swap of the handlers, rotation, the closing of the old writer | sets of handlers in the order they are built; `InitBegin/Swap/Cancel/Close`, `Take`, `WriteFile`, `WriteRing`, `RotateFire`, `Rotate`; the ring is that of `LogStream` |
| `Settings` | settings and provisioning as overlapping requests, and a restart that reads them | `row`, `token`, the copy on a `page`; `LoadBefore`, `StoreSettings`, `SaveRefused`, `ApplyLog`, `AnswerSaved`, `Provision`, `AnswerProvisioned`, `EnsureSettings`, `StartLog`, `LoadProvisioning`, `StartFail`, whose loads may fail, over `LogReload` |
| `EngineProofs`, `LinkProofs`, `ManagerProofs`, `CommandsProofs`, `ConfigApiProofs`, `SettingsProofs`, `CommMonitorProofs` | theorems about the module of that name (section 6); `CommandsProofs` has those about `NatsQueue` and `SettingsProofs` those about `LogStream` and `LogReload`, on which they are built | |
| `WireProofs` | theorems about what a worker exchanges with its devices: `Exchange`, and `DeviceAccess` with `PropCodec` | |
| `MC*` | small instances for TLC | constants and symmetry sets |

How they compose: `Engine` leaves open what a worker does between its control
points, `Link` opens the connection and the schedule, `Exchange` one request of a
poll or a write, `DeviceAccess` the data that request carries. `Manager` treats
`Apply` and `Stop` as atomic, which the properties of `Engine` (`CallsReturn`,
`ReloadConverges`, `StopIsFinal`) justify: calls are serialised by `applyMu` and
end with the last configuration in force. `NatsQueue` and `LogFanout` are the two
queues of the client; `Manager` decides in which order they are ended. `Commands`
composes three parts: the callers, the engine as `CommandLedger` promises it (which
`Engine` implements, so no worker is in it), and the queue of `NatsQueue`, in which a
receipt is an event like any other. `Settings` is the top of another stack: its
requests and its restart call `Init` of `LogReload`, whose loggers push into the
ring of `LogStream`. `ConfigApi` ends where `Manager` begins: what a manager that
starts or stops makes of a notification is in `Manager`, what an engine that runs
is given is in `ConfigApi`.

Abstractions that matter:

* Time. Timers fire at any moment they are armed; `Link` counts polling granules
  because its property compares delays. Reading the clock is not modelled.
* Data. A plan is its fingerprint in `Engine`; an answer is the frame it belongs
  to in `Exchange`; a register is its bits in `PropCodec`, and a value is the
  sequence of bits it is made of, so that a swapped or foreign bit shows.
* In `LogFanout` a record is a number, and its level passes the threshold; the
  default threshold, warn, lets both warnings of the client through.
* A panic is possible wherever a worker is inside a poll or a write command.

## 3. The runs

A run has the name of the module it instantiates; its `.cfg` has the same name.
`NatsQueue` is checked by `Commands`, `LogStream` and `LogReload` by `Settings`, the
two abstract specifications by the modules that implement them.

| run | what happens in it | what it shows |
|---|---|---|
| `Engine` | one link: two reloads between a valid, an idle and an unusable configuration, a stop, two write commands, panics, a cancelled parent context | one worker at a time and one living owner of the port; nothing runs after Stop; only outdated workers are stopped; a reload converges; all receipts are sent before `done` is closed; every call returns; the write path implements `CommandLedger` |
| `Manager` | two handlers that save, one after the other or at once, a restart and a shutdown by a signal or by a failed HTTP server, any of which may fail | one runtime, no engine and no client forgotten, a status that is true until two `applyPlans` meet, `restarting` is always cleared |
| `Commands` | a command whose caller waits, one whose caller does not, a telemetry event, a queue of two, Close and cancellation | `enqueue` never blocks and never sends on a closed channel (`SendsSafe`); the queue of the client implements `EventQueue`; Close returns; what callers were told stays true (`AnswersTruthful`); the receipt of an executed command is published unless it is pushed out or the run ends |
| `Link` | three devices with two groups, one and none; opening fails, is retried and probed slowly; polls succeed, fail, are cut or break the link; cancellation anywhere and one replacement | alarms are paired within a worker; what is said while the link is down is offline; a poll asks every group of its device and is good only if all were answered (`PollWhole`); a failing device is not polled faster and starves nobody; a cancelled worker ends |
| `Exchange` | TCP and RTU, two slaves whose transaction ids coincide; late, repeated, damaged and lost answers, resends, a write of two frames and one of several registers, a line that breaks | an answer is taken for its own frame only; good answers are accepted; a receipt is true; every command ends |
| `CommMonitor` | a ring of two over sessions and a reload; a page of one device that gets one event at a time | the ring has no gap, the counters agree, the page repeats nothing and misses only what it must |
| `DeviceAccess` | 946 models: read only and writable, all byte orders, one to four registers, segments of three | each property in one group and legal requests with room for every member (`PlanSound`), values from own registers, and what is written is read back |
| `ConfigApi` | three requests of any kind, alone or at the same time, on a new database and on one of the first version, with usable, unusable and twice written ports and models with a defect | exclusive ports and existing models until requests overlap; the engine runs what the tables say, each device at its own index, until requests overlap (`AcceptedIsBuilt`); always, a create overwrites nothing |
| `LogFanout` | two loggers and the loop, a queue of two, a connection that may be down | every call of `WriteLog` returns |
| `Settings` | two requests that save or provision, a restart, a logger, a rotation at midnight and a log stream, in three casts (section 4) | what is saved takes effect or is announced, however requests overlap, unless a load fails or the start reads the settings under a request; the log runs what is stored, until requests overlap; a reload leaves no file of the old log open, but for a logger that had taken the old handlers; nothing is lost between the snapshot of the log and its stream |
| `EngineLost`, `ExchangeSingle` | small instances | two statements that the code does not keep (section 9) |

Some properties of `ConfigApi`, `CommMonitor`, `Manager` and `Settings` hold up to a
point that a variable remembers (`overlapped`, `reloads`, `excused`, `late`);
`OwnAnswer` and `ReceiptTruthful` speak of TCP, `PollWhole` of a worker that is not
being stopped. Their unconditional forms are stated too, and fail
(section 9). Every module with a state has a type invariant. All are proved but
that of `LogFanout`, which is there to be read and to be added to its run when the
module is changed.

## 4. Bounds

Every bound is a CONSTANT or is named in the guard it limits.

* `Engine`: one link suffices for the interplay of a reload, its old and its new
  worker, since the supervisor treats links independently except for the locks;
  two calls of Apply and one of Stop give an old worker, a new one and a refused
  start. A queue of one is full at once. Two commands are enough for one to be
  queued while another is executed or refused. The theorems remove these bounds.
* `Manager`: `MaxEngines` engines (two: that of the boot and one of a restart), two
  savers, two saves in all: by one saver twice, so that a save meets the second
  `applyPlans` of a start, or by both at once. The theorems have no bound on savers,
  saves and engines.
* `Commands`: `c1` comes over HTTP and waits, `c2` over NATS, `t1` is telemetry. Three
  events through a queue of two: one is evicted while the loop holds another. Each
  command is sent once; a retry by the caller is another command.
* `Link`: three devices, of two groups (the first may fail and the second succeed, or
  the worker be stopped between them), of one, and of none; one retry before slow probing, a base delay of two granules
  doubling up to the ceiling of five, one reload. `CountCap` stops the counters
  where no guard can tell more.
* `Exchange`: two attempts, two frames, two answers under way: one late answer
  beside the one waited for. Slave 1 is read, written in two frames of one register
  each and in one frame of several; slave 2 is read and written in requests of the
  same shape, so that with the same transaction id nothing but the slave address tells
  the answers apart. Each on TCP and on RTU.
* `PropCodec`, `DeviceAccess`: Modbus limits of 125 registers, 2000 bits and so on
  are scaled (4 registers, 9 bits, addresses to 15, a model limit of 3) so that
  properties reach and cross them; 9 bits need a second byte. All byte orders and
  one to four registers are written and read. The theorems hold for any model and
  any limits.
* `CommMonitor`: a ring of two, an answer of one, four events, two requests of a
  device, one reload.
* `ConfigApi`: two ports, one of them written in two ways, one address that does not
  parse, one model, two rows, three requests, which are alike (symmetry). A model has
  at most one defect, since the handlers stop at the first. Mounts: two in the
  wrong order, two with one index; a database of the first version adds mounts with a
  negative index, a number out of range and a number used twice, and is what fills
  the tables where three requests would be too few.
* `LogFanout`: `MaxRecords` = 4 records, `MaxDepth` = 2 nested calls: the first call
  inside another. The code itself has no bound on the depth: an alarm that cannot
  be sent logs again, and while other goroutines take the freed slot each time,
  that repeats.
* `Settings`: two requests, one restart, two names, one token, two sets of log options
  (with a file that is rotated and a ring of two; without a file and a ring of one),
  `MaxInits` = 4 calls of `Init` (boot, two requests, a restart), channels of one
  instead of 64, three records. `Casts` says who meets in one behaviour: both requests
  and the restart; a request, the logger, the stream and midnight; both requests, the
  logger and midnight. All five together are beyond TLC; the log properties need no
  restart, which calls `Init` as a request does, and the settings no logger.

Where a run says `CHECK_DEADLOCK FALSE`, its system may really stop: callers make
a bounded number of calls, the process shuts down, or the inputs are used up.

## 5. Fairness

* Goroutines that can run do run: weak fairness per goroutine in `Engine`,
  `Commands`, `LogFanout`, and in `Manager` of the goroutine of Restart; nothing forces an outside event (a save, a
  command, a cancellation, an answer of a slave).
* `Commands`: a caller goes on and its timer fires, a worker that has a result
  delivers it, `publishLoop`, `Close` and a call of `enqueue` go on. A mutex of Go is
  handed to a waiter that starves, hence strong fairness of `ReceiptEnqueue`. That an
  accepted command is executed is not assumed: its worker may have ended (section 9).
  `Settings` and `ConfigApi` state safety only.
* `select` chooses at random between ready cases, so a case that is ready again and
  again is taken in the end: strong fairness of `WorkerSelectDone` (Engine),
  `LinkInterrupted` and `LinkDone` (Link). Without it a
  worker that always finds a tick or a command would never see its cancellation.
* `Exchange`: the worker's waits have deadlines (`readFrame`), hence weak fairness
  of its steps, none of the slaves'.
* A dial, a read or a write of the operating system is assumed to end: all of them
  have timeouts in `connector/`.

## 6. What is proved

Eight modules prove theorems. Each holds for all values of the constants that the
assumption of the component's module allows, and under the hypothesis the table
names, not only for the small instances. Nothing is assumed about scheduling.

| module | theorem | states |
|---|---|---|
| `EngineProofs` | `TypeCorrect` | `Spec => []TypeOK` |
| | `OneWorker` | `Spec => []OneWorkerPerChannel` |
| | `PortOwner` | `Spec => []PortExclusive` |
| | `StopFinal` | `Spec => []StopIsFinal` |
| | `OnlyOutdated` | `Spec => []OnlyOutdatedStopped` |
| | `Converges` | `Spec => ReloadConverges`, an action property |
| | `ReceiptsSent` | `Spec => []ReceiptsBeforeDone` |
| | `Implements` | `Spec => ImplementsLedger` |
| `LinkProofs` | `TypeCorrect` | `Spec => []TypeOK` |
| | `AlarmPairs` | `Spec => []AlarmPaired` |
| | `DownOffline` | `Spec => []DownIsOffline` |
| | `WholePoll` | `Spec => PollWhole`, an action property |
| | `FailingBacksOff` | `Spec => FailingNotFaster`, an action property, if `BaseDelay <= MaxDelay` |
| `WireProofs` | `TypeCorrect` | `Spec => []TypeOK`, of `Exchange` |
| | `OwnOrAncient` | on TCP the answer taken is that of the frame, or of the same slave and at least 65536 of its frames late |
| | `AnswerIsOwn` | `Spec => []OwnAnswer`, if `MaxFrames < TidModulus` |
| | `ReceiptTrue` | `Spec => []ReceiptTruthful`, if `MaxFrames < TidModulus` |
| | `GoodAccepted` | `Spec => []GoodAnswerAccepted` |
| | `DeviceTypeCorrect` | `DeviceSpec => []DeviceTypeOK` |
| | `PlansSound` | `DeviceSpec => []PlanSound` |
| | `OwnBitsRead` | `DeviceSpec => []OwnRegisters` |
| | `RoundTrip` | `DeviceSpec => []ReadsBack` |
| `ManagerProofs` | `TypeCorrect` | `Spec => []TypeOK` |
| | `OneLive` | `Spec => []OneRuntime` |
| | `NoLeak` | `Spec => []NothingLeaks` |
| | `Truthful` | `Spec => []StatusTruthful` |
| `CommandsProofs` | `TypeCorrect` | `Spec => []TypeOK`, of `NatsQueue` |
| | `Sends` | `Spec => []SendsSafe` |
| | `Implements` | `Spec => ImplementsEventQueue` |
| | `CommandsTypeCorrect` | `CommandsSpec => []CommandsTypeOK` |
| | `Answers` | `CommandsSpec => []AnswersTruthful` |
| | `QueueOfCommands` | `CommandsSpec => []SendsSafe /\ ImplementsEventQueue` |
| `ConfigApiProofs` | `TypeCorrect` | `Spec => []TypeOK` |
| | `Consistent` | `Spec => []TablesConsistent` |
| | `Built` | `Spec => []AcceptedIsBuilt` |
| | `NoOverwrite` | `Spec => CreateKeepsRows`, an action property |
| `SettingsProofs` | `TypeCorrect` | `SettingsSpec => []SettingsTypeOK` |
| | `StreamsWhole` | `SettingsSpec => []NoGap` |
| | `ReloadLeaksNoFile` | `SettingsSpec => []OldWritersClosed` |
| | `SavedTakesEffect` | `SettingsSpec => []SettingsTakeEffect` |
| `CommMonitorProofs` | `TypeCorrect` | `Spec => []TypeOK` |
| | `RingTail` | `Spec => []RingIsTail` |
| | `CountsAgree` | `Spec => []CountersAgree` |
| | `PageFollows` | `Spec => []ViewFollows` |

In each module `IInv` is the inductive invariant (`CommandsInv` for the commands over
the queue, `SettingsInv` for the settings over the log, `PageInv` for the page over the
monitor). One lemma shows that it holds at the start, those named for an action or a
group of actions that they keep it, and `Invariance` (`ConfigInvariance`,
`CommandsInvariance`, ...) puts them together. What it says, and why the property
alone is not enough:

* `Engine`. None of its four safety properties is inductive. What makes them
  true is *who may touch a worker when*. `IInv` says that a living worker is
  either in the map, or is being stopped by the one call that holds `applyMu` (a
  reload) or by the call of Stop that took the map; that the two never overlap on
  a worker; that a reload starts a worker for a link only after every earlier
  worker of that link has closed `done`; that a worker that holds the port is
  alive; and that a closed engine has an empty map, so that a reload that comes
  later refuses. `ReloadConverges` adds two parts: a reload in its stop loop has left in
  the map only workers it wants as they are (`KeptInv`), and only workers whose driver
  could be built are in the map (`RunnableInv`). The proof rests on the assumption of
  the module (the sets are disjoint, the fingerprint sets are subsets, `None` is none
  of them).
* The commands of `Engine`. `CmdInv`, kept together with `IInv`, says where a command is
  between its acceptance and its answer: in one place of the queue of the worker it
  was sent to, or in the hands of that worker, or lost to a panic or to a worker that
  had ended. That a place is the only one makes the second answer impossible and the
  implementation of `CommandLedger` a step for step affair: the check, the send and
  the refusals of Submit are its first moves, the two ways a worker answers
  (`WorkerWrite`, `WorkerDrain`) its last, all else is a stutter. That a queue is
  empty when its worker is past the drain, but for what was lost, gives
  `ReceiptsBeforeDone`. `TailElems` and `AppendElems` say what receiving and sending
  make of the elements of a queue without repetition.
* `NatsQueue`, in `CommandsProofs`. The second send of `enqueue` has no `default`: it would block, with
  the lock held, if the slot it made could be taken by someone else, and panic if
  `Close` came between. `IInv` says that the goroutine between the first select
  and the send is the holder of `eventsMu` and the only one there (`HolderInv`),
  that the channel is open while the lock is held (`OpenInv`), and that
  `publishLoop` publishes events; the loop only takes away, so the room stays. With
  it, every step is one of `EventQueue` or a stutter: the overflow is that of the
  holder of the lock, which drops the oldest and then adds; taking the lock,
  cancellation and the publication itself are stutters.
* `Commands`. `AnswersTruthful` compares what a caller was told with a ledger that goes
  on changing. `CommandsInv` says what the control point of each side knows of the
  other: which answers a caller may still get, that a result is in the slot or taken or
  not yet made, and that the ledger only goes forward from what was known. The queue
  needs no second proof: every step of `Commands` is one of `NatsQueue` or leaves its
  variables alone (`CommandsSpec => Spec`), so what is proved of the queue holds here.
* `Exchange`. Every request on the wire and every answer carries the frame it belongs
  to, and its transaction id is the number of that frame among those of its slave,
  modulo 65536 (`LineInv`): each device has a converter, hence a counter, of its own
  (`plan.go:219`). Two slaves may thus be using the same id; what the worker takes has
  passed the comparison of the slave address (`tcp.go:66`), so it is of the slave that
  was asked, and with the id of its frame it is of that frame or at least 65536 frames
  of the same slave late: `OwnOrAncient`, which needs no hypothesis. With fewer frames
  than that in the whole behaviour it is its own, and then the receipt is true, because
  what is answered well was executed (`AppliedInv`). The hypothesis says how late an
  answer may be, which the network decides, not the code. That no two devices of a link
  have one address is what `buildChannelPlan` ensures (`plan.go:164`, checked in
  `ConfigApi`).
* `DeviceAccess`, in `WireProofs`, in three layers.
  * The plan (`PlanInv`): a configured device has a valid model, and its groups are one of
    the plans of that model, whichever order map and sort have left. `ReadOnce` says that a
    property is read by one request: it fits at most one segment, since segments begin a
    limit apart, and has a request of its own if it fits none. `RequestLegal` says that
    every request is in range and `MemberPlace` that its answer has room for each member.
    `Valid` is what makes this true, and `PlanKept` that no action changes the model.
  * What was read (`FreshInv`): the value in the cache is that of the property's own
    registers, as the device would answer a read of nothing else (`OwnBytes`). `ChunkIsOwn`
    shows that the bytes cut out of the answer of a group are these, at whatever place of
    whatever group; `UntouchedSame` that a frame which does not touch the property leaves
    them; `MappedBits` that byte order and bit range only move and choose bits.
  * What was written (`WroteInv`, and `WriteInv` while a write is under way): of a number
    that is written, each register either holds what was encoded or is covered by a frame
    that is left, and the frames write nothing but these registers (`GoodFrame`). So the
    last confirmation leaves all of them right, by function code 06 or 16. A byte order
    undoes itself (`ApplyTwice`), which makes reading the inverse of writing, and the sign
    bit repeats beyond 64 (`MappedIsWritten`).

  Nothing here needs induction over data: bytes, registers and frames are functions of
  their position, and a plan is any sequence of the set of requests in the order that
  `sort.Slice` is asked for. Two things were wrong before these proofs were tried.
  `OwnRegisters` claimed the number of bits also of ranges beyond bit 63, which no run had
  tried and the code cuts off (`WideRangeRead`, section 9). And three definitions of
  `PropCodec` had `CASE` arms that overlap, of which TLC takes the first and TLA+ any.
* `Manager`. `OneRuntime` and `NothingLeaks` need to know at every moment *who has the
  engine*. `IInv` follows it from the thread that builds it to the manager and to
  the thread that stops it: the manager is empty while a thread stops or builds; the
  start at boot is over before anything else begins, one restart runs at a time, and a
  shutdown by a signal has cancelled the context; a live
  engine or a connected client is in one of these hands; and a start whose context was
  cancelled can no longer hand over what it built unseen. When the HTTP server fails,
  `Stop` is called while the context is good (`main.go:62`): a restart under way then
  builds its engine beside the one being stopped, and `OneRuntime` excepts that.
  `StatusTruthful` adds where the last saved configuration is on its way (`SavedInv`).
  While nothing is pending, a start that builds has read or will read what was saved
  (`BuildInv`), and so has an `applyPlans` of the published engine, that of a handler
  (`SaverInv`) or the second one of a start (`AgainInv`); at most one of these is under
  way until two have met (`SoleInv`), none is for an engine still being built
  (`TargetInv`, `HoldInv`); and the engine runs what the database holds, or one of them
  is under way, or the last one failed and its error is shown (`FreshInv`). Nothing is
  assumed of the number of savers or saves. Once two `applyPlans` of a published engine
  have been under way at once the property is false (`SavedTakesEffect`, section 9).
* `ConfigApi`. A check and the write that relies on it are different transactions. The
  invariant says, at each control point of a request that nobody has overlapped, which
  checked facts still hold (the mounts are legal, the port is free, the index is the
  smallest free one); that the tables read for a reload are the tables; and that
  `BuildPlans` follows them. That a smallest free index exists is an argument by a least
  counterexample. The assumption says that mounts are records with an integer index.
* `Settings`, `LogReload`, `LogStream`. Three layers. `StreamInv`: what a stream has, what
  is in its channel, what the snapshot holds and what it was too slow for are all that
  was pushed, without a gap. `WriterInv`: a writer whose file is open is the current one,
  one an `Init` under way will close, or one a late logger has written to. The third
  layer follows a request from its load to its answer: who may call `Init`
  (`OwnerInv`), what the page shows (`PageInv`), what a request knows of the row while
  it is alone (`AloneInv`), and that the log then follows the row (`FollowInv`). That
  what is saved is announced needs no such solitude (`AnnounceInv`): until a warning has
  been given, the row stored and every row a request has kept to compare with differ
  from what the start has read only if some request is on its way to a warning
  (`WillWarn` for a save, `WillAnswer` for a provisioning, which the token needs too). A
  save that finds no difference has compared with such a row, so another request will
  warn. This fails, and the property excepts it, when a load fails, since the answer
  then has no warning, and when a request is under way as the start reads the settings,
  since that request compares with a row older than the start.
* `CommMonitor`. The ring is the tail of the history: its numbers are consecutive
  and end at `nextSeq`. `NewestIsSuffix` says what trimming keeps, `CountAgrees`
  that one outcome keeps the totals of a counter, `BothCounted` that the session
  and the cumulative counters move together. For the page, `PageInv` says that what it
  might have shown up to its cursor is shown or recorded as lost, and that what comes
  after the cursor is still in the ring; `FetchPage` shows that an answer that is cut to
  its limit loses exactly what it cuts.
* `Link`. The alarm is sent by `linkTracker`, whose `active` flag and the history
  of what was sent agree (`TrackerInv`); a worker that polls came through
  `LinkOpened`, which cleared it. `DownIsOffline` is inductive as it stands: the
  two ways into `wait` and `probe` announce every device. `PollWhole`
  needs the progress of the poll under way: the groups asked so far are answered, or
  their error is remembered, and nothing is left of the poll before (`GroupInv`). For
  `FailingNotFaster`, a device is put off by nothing but `Delay` (`PutOff`), and a
  delay that doubles is at least the interval: `PowerPositive` takes a power of two for
  the number of subsets of a set. The hypothesis is needed, section 9 shows what
  happens without it.

The induction theorems of the library take an operator as a parameter, which the
provers at hand cannot instantiate. A loop over data can still be reasoned about when
it is a recursive function: a claim that fails somewhere fails at a least place
(`Least` in `CommMonitorProofs`, from the well-foundedness of the naturals), and the step
before that place refutes it. `Fresh` of `CommMonitor`, the loop of `snapshot`, is
written and treated so. What the folds and sorts of the community modules
compute is out of reach that way.

## 7. What only TLC checks

* All liveness: `CallsReturn`, `RestartEnds`, `CloseReturns`, `CancelEnds`,
  `EveryDeviceGetsTurn`, `CommandEnds`, `ReceiptPublished`. Fairness is beyond the proof system used here.
* `LogFanout`, of which only a liveness property is checked.

## 8. What is not modelled

* Coefficients, offsets and rounding of values: TLA+ has no floating point. The
  sign of integers is left out with them.
* Checksums as numbers, framing byte by byte: an answer is whole, cut or damaged.
* The uniqueness checks between properties of one model, the protocol registry, the
  parsing of link parameters: they are accepted or refused in `ConfigApi`.
* `Status`, `Healthy`, `Values`, `handleQuery`, topology and the read-only pages: they
  read under a lock and change nothing.
* The ranges that `ValidateSettings` and `ValidateToken` check: a request that fails
  them changes nothing. A load that fails is an input of `Manager` and of `Settings`.
* Opening and backing up the database, and the transaction of the migration:
  single-threaded, before anything else runs. What the migration leaves is an initial
  state of `ConfigApi`.
* Levels and formatting of log records; the HTTP server and signals; `nats.go`, the
  SQL engine, lumberjack and the serial library (external).

## 9. Findings

What the models show the code to do against its own comments and documents. Two
have a run of their own:

* `EngineLost`: a command submitted while its worker ends is accepted and never
  answered, although the queue is drained "so that the caller does not wait for its
  result for ever" (`worker.go:245`).
* `ExchangeSingle`: on RTU the good answer to a write of one register is refused,
  since `rtuWriteRespLen` takes it for 6 bytes (`rtu.go:76`).

The following are stated in the modules. Add the statement to the named `.cfg`, as an
INVARIANT or, where the table says so, a PROPERTY, change the constants named, and
TLC prints the trace that breaks it.

| statement | `.cfg` | what TLC shows, and the words it breaks |
|---|---|---|
| `SavedTakesEffect` | `Manager` | `applyPlans` reads the tables before it enters `Apply`, and nothing orders two callers: the older configuration may be applied last. Two saves that overlap show it, and two that do not: the first is told to wait, `start` reads it again after it has published the engine (`manager.go:211-216`), the second is saved and applied before that reading is. README.md:62, a saved configuration takes effect |
| `DirtyDelivered` | `Manager` | a change recorded just after `start` has looked for it is never delivered (`manager.go:134-142`, `204-208`); the comment at 59 says it is delivered when the start is complete |
| `StopReleases` | `Manager` | a shutdown during a restart returns, and the restart then publishes an engine and a client; comment at `manager.go:106` |
| `CommandsNeedRunning` | `Manager` | the client gets the engine itself (`manager.go:180`), so commands reach it before the runtime runs; comment at `client.go:22` |
| `ReceiptsLeave` (PROPERTY) | `Commands` | `stop` cancels the context before the engine is stopped, so the publishing loop leaves receipts in its queue; comment at `worker.go:279` |
| `OnlineMeansAnswered` (PROPERTY) | `Link` | `pollDevice` returns nil for a device without groups, and when the worker is being stopped before a group is asked: the device is announced online (`worker.go:543-565`); README.md:67 says 1 is for a normal exchange |
| `TriggerPaired` | `Link` | a reload while the alarm is raised loses its recovery; docs/powerpulse-alarm-standard.md:117 |
| `FailingNotFaster` (PROPERTY) | `Link`, `BaseDelay = 3`, `MaxDelay = 2` | with a poll interval above 30 s a failing device is polled more often than a good one; comment at `worker.go:470` |
| `AlwaysOwnAnswer` | `Exchange` | on RTU a late answer is taken for the answer to another request of the same shape (`worker.go:615`) |
| `CountedOnce` | `Exchange` | a read with a member that cannot be mapped is counted twice (`worker.go:628`, `679`); comment at `monitor.go:27` |
| `NothingNewHidden` (PROPERTY) | `CommMonitor` | after a reload numbers begin at 1 and the page takes new events for old ones; README.md:160 |
| `MapErrorsNamed` | `CommMonitor` | `classifyError` has no case for mapping errors; comment at `monitor.go:22` |
| `WideRangeRead` | `DeviceAccess`, `Models <- Wide`, `MaxReadRegisters = 5` | a bit range that goes beyond bit 63 is accepted, and its value has fewer bits than the range says (`mapper.go:158`); comment at `grouping.go:13` |
| `OwnCoils` | `DeviceAccess` | integers in coils that do not begin at a byte of the answer are read from their neighbours; comment at `worker.go:659` |
| `NeighboursKept` (PROPERTY) | `DeviceAccess`, `Models <- Bytes` | writing a bit range of a register writes the whole register; comment at `value.go:67` |
| `UnchangedKeepsWorker` | `DeviceAccess`, `Models <- Adjacent` | groups with one start address keep the random order of a map, which the fingerprint hashes: an unchanged model may restart its worker; comment at `grouping.go:264` |
| `AcceptedIsWritable` | `DeviceAccess`, `Models <- ManyCoils` | a property of 1969 to 2000 coils is accepted and every write of it refused; comment at `value.go:54` |
| `WriteOnlyCoilAccepted` | `DeviceAccess`, `Models <- WriteOnlyCoil` | a coil that is only written is rejected; docs/data-models.md:62 |
| `ReplyFirst` | `Commands` | the receipt may be published before `handleCommand` has replied to the message that brought the command; README, section on the NATS subjects |
| `AlwaysConsistent` | `ConfigApi` | overlapping requests share a port, or leave a link without its model; README.md:71 |
| `LastSavedIsBuilt` | `ConfigApi` | of two overlapping requests the older reading of the tables is given to the engine last (`manager.go:221`) |
| `AcceptedIsExecutable` | `ConfigApi` | `SaveModel` does not look at `maxRegisterCount`, `buildDevicePlan` refuses the model for it: the device is accepted and never polled |
| `BadLinkIsReported` | `ConfigApi` | a link in the tables that does not parse ends the process at boot; comment at `manager.go:190` |
| `UpdateNeverInserts` | `ConfigApi` | gorm's `Save` brings a link back that was deleted in between; comment at `channel.go:129` |
| `LogAlwaysFollows` | `Settings` | of two overlapping requests the older log settings are applied last; comment at `settings.go:20` |
| `StaleAlwaysAnnounced` | `Settings` | a save whose load before has failed is answered without a warning (`settings.go:42`), so is a provisioning that cannot read its state or the settings (`provisioning.go:53`, `69`), and a start that cannot read the token uses an empty one with a line in the log (`manager.go:175-179`). Without any failure: a request loads the row, a provisioning stores another name, a restart reads that, and the request stores its page with the old name, which it finds unchanged. Comment at `settings.go:38`, nothing is saved silently |
| `PageKeepsOthers` (PROPERTY) | `Settings` | the page sends all it has loaded and `submitReprovision` does not load again, so the next save undoes the name that was provisioned; `settings.js:221` |
| `OneWriter` | `Settings` | a logger that had taken the old handlers opens the old file again after it was closed, and nobody closes it; comment at `swap.go:15` |
| `NewestKept` | `LogFanout` | another logger takes the slot that was freed, and the record just brought is dropped; comment at `client.go:392` |
| `NoFeedback` | `LogFanout` | the warning about a failed publication is queued for publication; comment at `client.go:428` |

Four more were met while reading the code and are left out of the models, which
would only repeat them:

* A failed reconnection announces every device offline twice, and again with every
  retry (`worker.go:297` and `1045-1050`); docs/device-index-contract.md:122 says
  once per flip and then every 30 s.
* A value that cannot be mapped is sent with its old number (`worker.go:661`);
  docs/message-contract-design.md:171 says it is null.
* After a write of several frames that failed in the middle neither the HTTP answer nor
  the receipt tells how many were applied; README.md:380 and
  docs/device-index-contract.md:138 say that it does.
* `linkTracker.failures` is not reset with its window (`event.go:118`); the comment
  at `event.go:93` says it counts within the window.

## 10. Plan

Done, in this order: engine and ledger with proofs, manager, NATS queue, link,
exchange, codec and device, monitor, configuration API, log fan-out, log stream,
the proofs about the queue, the monitor and the link; then the abstract event queue
and the proof that the client implements it, the command interface, the plans that
links are run by, the hot reload of the log, settings and provisioning, and the
proof that the engine implements the ledger of commands; then the proofs of the
safety properties of the exchange, the manager, the commands, the configuration
API, the settings with the log below them and the page of the monitor, and of the
schedule of the link; and of the plan of a device, what it reads and what it writes.

Next, by importance:

1. Writes in `Link`: what a rate of commands does to the schedule, once the code
   bounds the commands it executes before a tick.
2. The count of the aggregated alarm, and the cached value of a property that cannot
   be mapped, once the code decides what they should be (section 9).
