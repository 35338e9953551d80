# StatePipes in TLA+

StatePipes is a .NET framework for services that exchange commands and events over RabbitMQ or
Kafka and are built from hierarchical state machines. This directory holds TLA+ modules of the
parts whose correctness depends on the order in which things happen, TLC configurations that check
them on small instances, and TLAPS proofs of the results that hold for every instance. Three groups
are covered: the framework's communication (service, proxy, transport, delayed messages), what every
StatePipes process contains besides (logger, state machines), and the OPC UA bridge
(`StatePipes.OpcUaBridge`), the largest concurrent program of the repository.

`PROJECT.json` lists the components, the runs, the source lines behind every definition, a mutant
for every property, the theorems, the findings and the hazards of the code.

    cd tla
    tlc -workers 2 -config MCCommandExecutor.cfg MCCommandExecutor     # any run below
    tlapm ProxyProofs.tla                                              # any proof module

## The system

| Component | State it keeps | Operations | Talks to | What is hard |
|---|---|---|---|---|
| Command queue of the bridge (`CommandExecutor.cs`) | a channel, one command read too far, the current run | enqueue a Get, Set, Exec or other work; one reader collects runs, calls the server, answers | receive threads of the transport, the OPC UA server, clients | batching must not show: order of effects and of answers, failures halfway, shutdown |
| Monitors of the bridge (`MonitorCoordinator.cs`, `MonitorRegistry.cs`, `MonitorStore.cs`, `OpcUaMonitorManager.cs`) | stored monitors, their file, monitored items of a session, a queue of work | Monitor, Delete, session start and end, reply-to check, expiry, notifications | command queue, session loop, timers, the OPC UA stack's threads, the file | sessions, clients and the process come and go between any two awaits |
| Session loop and routing of the bridge (`ServiceWorker.cs`, `OpcUaBridgeService.cs`, `OpcUaNaming.cs`) | the exposed items and their names | connect, discover, announce, watch; find the item of a command | both of the above | names depend on what was discovered |
| OPC UA client (`OpcUaClient.cs`) | a session, a call session, a token, a keep-alive flag | connect, disconnect, call | the server, the session loop, callers | two sessions, opened and closed by different threads, half of it without a lock |
| Logger (`Logger.cs`, `LoggerTask.cs`) over `TaskWrapper.cs` | a queue with two locks and a flush event, the current file | log, flush, stop; the task writes | every thread of a process | back pressure, flush and shutdown while others log |
| State machines (`StateMachine/`) over the Stateless library | the state, the current trigger, the reported state, the library's queue | fire, guards, OnEntry and OnExit, move to the first substate | commands of the service, other machines | user code that fires again or throws in the middle of a transition |
| Service (`StatePipesService.cs`) | a container, a transport, a queue of commands | start, stop, send, publish, respond | transports, proxies, state machines | the loop makes the transport that Stop disposes of; heartbeats must go on |
| Proxy (`StatePipesProxyInternal.cs`, `HeartbeatEventProcessor.cs`, `EventSubscriptionManager.cs`) | subscriptions, a timer, whether the service is there | subscribe, send, start, stop, receive | transports, services | heartbeats lost, repeated, late; callbacks that subscribe |
| Transports (`RabbitMqTransport.cs`, `KafkaTransport.cs`, `KafkaAutoDelete.cs`) | a connection, timers, topics to delete | connect, configure, send, reconnect, dispose | brokers | reconnecting while disposed or disconnected |
| Delayed messages (`DelayedMessageSender.cs`) | a timer | start, stop, fire | services | a callback already under way |
| Broker proxy (`StatePipes.BrokerProxy/`) | two connections | forward | two brokers | as the transports |

The tools around these (Explorer, Diagrammer, ServiceCreatorTool and its set-up, the Claude plugin,
the demo server), self description, value conversions and JSON, certificate and directory helpers
are sequential programs or pure I/O and are not modelled.

How they interact. A service publishes heartbeats over its transport; every proxy of it counts them
on the consumer's thread, arms a timer, and tells the application, which subscribes to events, whose
keys the proxy binds at the broker each time its transport connects. State machines make delayed
messages, which come back as commands in the service's queue. In the bridge a receive thread routes
each command and puts it into the command queue; the queue's one reader serves Get, Set and Exec
itself, the Exec over the client's call session, and hands Monitor and Delete to the coordinator's
queue, waiting for each. The session loop connects, discovers, exposes the items and queues session
starts and ends; timers queue the checks. Notifications come on the OPC UA stack's threads and go
out past all queues.

## The modules

| Module | Models | Checked by | Proved in |
|---|---|---|---|
| `BrokerLink` | what a connection to the broker promises: lost or not made, it is tried again until it is disposed of | (the abstract specification of the next; `Proxy` is built on it) | |
| `RabbitMqTransport` | the connection, its timer and its shutdown handlers, lock by lock | `MCService` | `TransportProofs` |
| `Service` | Start, Stop, the command loop of TaskWrapper, two delayed message senders, over the transport | `MCService` | `ServiceProofs` |
| `HeartbeatSource` | what a proxy sees of a service: counts that start from 0 with every process | `MCProxy` | |
| `Proxy` | heartbeats and their time-out, connection handlers, subscriptions, Start and Stop, over a link and a source | `MCProxy` | `ProxyProofs` |
| `Logger` | Logger, the queue of TaskWrapper and LoggerTask, lock by lock | `MCLogger` | `LoggerProofs` |
| `StateMachine` | BaseStateMachine, its states and the library's firing, for any tree of states and any transitions | `MCStateMachine` | `StateMachineProofs` |
| `SerialCommands` | what clients of the bridge may rely on: commands settled one by one in arrival order | (the abstract specification of the next) | |
| `CommandExecutor` | the bridge's command queue with its runs, the call at the server, failures, completion, cancellation | `MCCommandExecutor` | `CommandExecutorProofs` |
| `MonitorCoordinator` | coordinator, registry, file, monitored items, session loop, routing, clients, crash and restart: one composed module, because every handler touches all of them | `MCMonitorCoordinator` | `MonitorCoordinatorProofs` |
| `OpcUaClient` | the main and the call session, the token and the look back that tie them | `MCOpcUaClient` | `OpcUaClientProofs` |

**Granularity.** In asynchronous code a handler is one action up to its first `await`, and another
one after it. In `Logger`, `OpcUaClient`, `Proxy`, `Service` and `RabbitMqTransport`, where threads
share memory, an action is what a thread does between two accesses to what others change, so locks
and events are visible; what it does under a lock is one action unless it calls out. One exception:
the look at `_transport` and the constructor's first step in `DoWork` (164-165) are one action, because
only that loop sets the field from null. In `StateMachine` there is one thread;
an action is one piece of user code, or what the library does between two.

**What stands for data.** A value is the command that wrote it, a status code is good or bad, a log
statement is its number, an item's name is its sanitized name and its suffix. Time is a counter of
expiry periods; a heartbeat is its count, and counts from `Top` on are not told apart. Timers may elapse
at any time, so a time-out races everything it can. Log levels, formatting, JSON and the text of names
are left out.

**Correspondence.**

* `CommandExecutor`: `pending` is `_pending`, `held` is `_held`, `run` the part of the current run
  not settled yet, `phase` the place in `RunAsync`. `TakeHeld`, `TakePending`, `GrowRun`,
  `HoldNext` and `CloseRun` are `ServeRunAsync`; `ServerHandles`, `CallReturns`, `CallFails` and
  `CallCancelled` are a Read, Write or Call; `AnswerNext` and `LoseRun` the answers and the catch of
  `RunAsync`. `LateEffect` is the server: a call that threw may still be carried out.
* `MonitorCoordinator`: `work` is the channel, `job` the handler that awaits. `TakeMonitor` stores
  and saves, `FinishMonitor` applies and answers; the same holds for Delete and session starts. A
  reply-to check is taken apart at each of its awaits (`CheckReplyTo`, `SuspendNext`). `Save` may
  fail, which the code only logs. `Restart` may come at any step and keeps only the file, the
  clients and the time. `entries` is what the server monitors for the session that is up; items of
  a dead session are gone with it. `told`, `published`, `lapsed`, `leaked` and `forgot` are history.
  `CallFailed` names a request that failed with the stack's exception; any other passes through
  `OpcUaMonitorManager` and is answered Pending by the coordinator's own catch (`ApplyThrows`,
  `AllThrown`), which `told` keeps apart as Thrown when the session is up.
  `TakeSessionStart` also drops expired monitors, as the handler does.
* `Logger`: `pc` places a thread between its two unlocked looks at the queue, the two locks and its
  waits; `queue`, `lock`, `flushLock`, `flushed` and `cancelled` are the fields of `TaskWrapper`. A Flush
  with a time-out or a token may end without the event (`GiveUpFlush`), which stays reset until the task
  comes by (`abandoned`).
  The task wakes after `FlushTimeoutMilliseconds` at the latest, so its wake-up event is left out.
* `StateMachine`: `Fire` is `BaseStateMachine.Fire`, `Remember` what it does to `_currentTrigger`,
  `Asked` the guard the states wrap around user guards, `Move` is `MoveToStateWorker.OnEntry`,
  `Report` is `OnTransitioned`. The firing queue, the search through parents and the order of exits
  and entries belong to the Stateless library (Queued firing mode), modelled from how the code
  configures it and marked external.

* `OpcUaClient`: `main`, `callSession`, `keepAliveFailed` and `lock` are `_session`, `_callSession`,
  `_keepAliveFailed` and `_callSessionLock`. `token` is what became of the cancellation token the
  lock's holder has read. `ClearSession`, `ExchangeToken`, `CancelToken` and `CloseSessions` are
  `DisconnectAsync`; `ReadToken` to `DropCallSession` are `GetCallSessionAsync`, whose look back
  (`RecheckToken`, `RecheckMain`) closes a session opened beside a main session that went away
  meanwhile. `CallThrows` is the catch of `CallAsync`: whatever the failure, the caller
  drops the call session if it still is the one it used, sound or not, and a call of another caller on it
  ends with it. .NET lets a plain store be seen after later loads: `Publish` may leave its store in
  `unseen`, and `missed` is the session a disconnect could not see because of that.
* `RabbitMqTransport`: `phase` is the place in `InstantiateConnectionAndChannel`, which holds
  `_lock`. `rearm` is the timer `_timer` refers to, `stray` counts timers it no longer refers to
  (`ConnectionShutdownWorker` replaces the timer without disposing of it, and connection and
  channel both call it), `due` the callbacks that wait for the lock, `shut` the shutdown handlers under
  way. `Retry` does not look at `_disposedValue`, as the code does not: what was under way when
  Dispose ran connects again (`raced`). Both implementations of `_configureBuses` catch what goes
  wrong, so `Configured` follows in either case.
* `Service`: `loop` is the place in `TaskWrapper.Run` and `DoWork`, `queue` and `signal` are `_queue`
  and `_resetEventSlim`. `Stop` cancels, waits a second for the loop and goes on (`Join`), so the
  loop may still be making the transport (`late`). For each sender of delayed messages `timer` is
  the timer `_timer` refers to, `fired` its callbacks that wait for `_lock`, and `stale` those of
  timers before it: `Sends` does not ask which timer it was for, so a stale callback sends and clears
  `Enabled` of the one-shot started since (`spoiled`). `StartOneShot` and `ArmOneShot` are the two
  critical sections of a start; of two starts at once the later one overwrites the timer of the other,
  which `orphans` counts and `OrphanEnds` lets elapse.
* `Proxy`: `hb` holds `_heartbeatLock` while handlers run. Who resets the connection runs the handlers of
  that: the receiver, or the timer's thread or the owner in Stop (`ResetByOther`), the `resetter` of
  `Threads`. Handlers are steps of their own (`Tell`, `TellGone`), which may subscribe or throw
  (`HandlerThrows`, `GoneHandlerThrows`). The receiver holds the list of
  subscriptions from `Consume` until it is idle. `HearLater` and `HearEarlier` are
  `HeartbeatEventHandler`, `Recover` its catch, which resets without the lock, `Reset` is
  `ResetHeartbeatWorker`. `ReadKeys` and `BindKeys` are `ConfigureBuses` inside the transport's lock;
  Subscribe is `Look`, `Bind`, `Enter`, `List`, UnSubscribe is `Unlist`, `LookForNone`, `Unbind`, with
  nothing around them. `asked`, `excused`, `overlapped` and `skipped` are history.

## The runs

| Run | States | What it asks |
|---|---|---|
| `proxy` | 704,766 | A service that dies and comes back, a link that is lost and made again, heartbeats lost or late, handlers of either kind that subscribe or throw on any thread: does the application know what the proxy believes (`ToldTheTruth`), is every service started again asked for its status (`AskedTheServiceThatRuns`), are subscriptions bound (`BoundUnlessOverlapped`), does the proxy end up knowing (`StatusSettles`)? |
| `service` | 407,883 | Start and Stop at any time while the loop makes the transport, and two threads that start a one-shot: what does Stop leave behind (`ClosedAfterStop`), is Enabled true (`EnabledIsPending`), do heartbeats go on (`HeartbeatsGoOn`), does the transport implement `BrokerLink`, liveness included (`TransportIsALink`)? |
| `logger_batches` | 106,196 | Two threads that flush with and without a time-out, a queue limit of one, two lines a file, a write that fails: is the queue bounded (`QueueBounded`), nothing lost inside (`NothingLostInside`), flushing complete (`FlushDrains`), stopping too (`StopWritesAll`), waiting only for a flush under way or given up (`WaitsForAFlush`)? Do calls return (`CallsEnd`) and is everything written (`EverythingWritten`), but for the deadlock of the next run, faults and a stopped logger? |
| `logger_limit` | violated | `CallsReturn`: that every call returns, without the exception for that deadlock. |
| `state_machine` | 88,551 | Six triggers over three levels of states, nested firing, one exception: what user code sees (`SeesItsTrigger`), where the machine ends (`DestinationKept`, `RestsInLeaf`), what it reported (`ReportedIsState`). |
| `state_machine_direct` | violated | `DestinationKept` with a transition from outside a parent to its second substate. |
| `command_order` | 300,297 | Two Sets of one node, one of another that does not encode and a Get, batches of two: is anything lost, repeated, reordered or batched wrongly (`ArrivalOrder`, `RunsAreUniform`), and does a Get show what arrived before it (`ReadsFollowArrivalOrder`)? |
| `command_service` | 303,607 | Two Gets, an Exec and a refusal, so that runs of one and of two are served: does the queue implement the serial server, liveness included (`SerialLiveSpec`), and is every command settled (`EverySettled`)? |
| `monitor_sessions` | 1,268,283 | A client with two reply-tos, one item, two parameter sets of different intervals, two sessions, discoveries that miss the item, a notification and an expiry check: is what is active monitored as asked (`ActiveIsMonitored`), is nothing else (`NothingMonitoredUnasked`), is nobody suspended who is there (`SuspendedOnlyIfGone`)? |
| `monitor_restart` | 282,957 | A crash at any step, a failed save, call or check: does the file hold what was promised (`PromisesAreDurable`), are monitors whose request failed as Pending applied (`PendingIsApplied`), those of clients that are gone suspended (`GoneIsSuspended`)? |
| `monitor_names` | violated | Does a Delete of an item that has left the server find the monitor under its last name (`UnlistedDeleteFinds`)? |
| `opcua_client` | 290,401 | Two callers and the session loop over two main and two call sessions, one of which breaks, with stores others see late: is a call session lost (`NoneLost`) or left beside the wrong main session (`EndsWithMain`), do callers cut each other's calls (`CallsNotCut`), is a failed keep-alive forgotten (`AlarmKept`), does a call end with its main session (`CallsEndWithMain`)? |

Where a module has a `TypeOK`, one of its runs checks it; every property has a mutant of the code,
kept beside the definition it changes, that TLC finds to violate it.

**Bounds.**

* `CommandExecutor`: `MaxBatch` is 2 where the code has 500: with three Sets, runs are full, cut by a
  second Set of a node, by another kind, and by an empty channel.
* `MonitorCoordinator`: `MaxSends = 2` is one Monitor and one command that meets it; with two
  sessions every handler runs before, during and after a loss. `MaxQueue = 1` bounds only when a
  timer adds a check: the queue is first in first out and a check waiting twice does what it does
  once. One expiry period and one crash suffice because a monitor's life has one suspension in it and
  nothing but the file crosses a restart. `monitor_sessions` uses the symmetry of the two reply-tos and of
  the two parameter sets, whose intervals are only compared with each other; it checks invariants only.
* `Logger`: two threads and a queue limit of one reach every combination of the two locks, a full
  queue and a flush; two lines a file make batches cross files.
* `StateMachine`: `MaxFires = 6` with one nested trigger per piece of user code lets a machine go
  down three levels, re-enter and leave, with triggers overtaking in the queue.
* `OpcUaClient`: two main sessions (`MaxConnects`) and two call sessions (`MaxOpens`) let a call
  session outlive its main session into the next one and let a caller replace the one another still
  uses; `MaxBreaks = 1` makes one of them fail by itself. `StoreBuffers` is the memory order of .NET.
* `Proxy`: the code compares counts only; `Top = 1` tells a first heartbeat from later ones, and a
  count at `Top` may be before or after the last one. `MaxWire = 1` and `MaxLate = 1` leave one
  heartbeat on the way and one time-out waiting for the lock. `Counts` lets one reconnection be owed at
  a time. `MaxTroubles = 3` bounds faults and calls of the application together, enough for a
  restart, a loss and a call that meets both.
* `Service`: `MaxFaults = 1` is a lost connection or a failed attempt, with the two shutdown handlers
  it brings; `MaxDue = 1` one callback per timer that waits; `MaxQueue = 1` bounds only what arrives
  from outside and from timers; `MaxCalls = 2` are two starts of the one-shot at once, a start
  and a stop, or commands. A repeat of the connecting that fails after a loss needs two faults: its safety
  is left to the proofs.

The proofs hold for every value of these bounds.

**Deadlock** is not checked: clients, threads, sessions, triggers and faults are bounded, a stopped
reader, loop or service stays stopped, in the logger a caller that waits for a flush may keep the
task out for good, which is the finding below and `CallsReturn` catches, and in the proxy a handler
may get stuck as described there too.

**Fairness.** Nothing is assumed of clients, applications, servers, faults, or of anyone who need not
call.

* The reader of the command queue is a task the runtime keeps scheduling, and a call ends because the
  server answers or the session drops (`WF_vars(Reader)`, `WF_vars(Call)`).
* The coordinator's reader, the command queue and the session loop are fair likewise; the periodic
  check is strongly fair, only because `MaxQueue` makes it wait for room the code has.
* In the logger the task and every thread inside a call are weakly fair, and taking `TaskWrapper`'s
  lock is strongly fair, because the task holds it for moments and waits most of each second without it.
  Nobody has to give up a Flush: a time-out may be as long as one likes.
* In the client the session loop and a caller that opens a session go on: opening ends after
  `CallSessionOpenTimeout`, connecting and discovering after the stack's time-out. The semaphore is
  strongly fair, for its waiters queue. A store gets through in the end. A call on a session that was
  disposed of throws, and one that was cancelled ends; a server need never answer another. Whether
  the OPC UA link comes up is left open.
* In the proxy an attempt to connect ends, a link that is down and not disposed of is tried again, the
  receiver, the application inside a call, the timer's callbacks and the handlers these or Stop run go on,
  and a service that is up
  publishes. Whether an attempt succeeds, and whether a service comes back, is left open.
* In the service the loop, the owner inside Start or Stop, timers and callbacks go on, and so do the
  transport's attempts, its timer and its shutdown handlers. `BrokerLink` asks no more of a transport
  than that.

## What is proved

Every safety invariant and action property that a passing run checks is proved for all values of the
constants, and so is the safety part of both refinements. Each proof is of an inductive invariant,
one action at a time, and rests on the named assumptions on the constants. Only two theorems ask for
more, `RestsInFirst` and `KeepsDestination` of `StateMachineProofs`, which are false of some machines
that can be declared; their hypotheses are named and said below.

**`CommandExecutorProofs`**, for any set of commands, kinds, nodes and batch size, from the three
assumptions on the constants (`KindOf` and `NodeOf` are functions, the batch size is positive, the
results are distinct):

* `TypeCorrect`, `KeepsArrivalOrder`, `UniformRuns`: `TypeOK`, `ArrivalOrder` and `RunsAreUniform`
  are invariants. They are not inductive alone: that `HoldNext` overwrites nothing needs `held` to
  be empty while a run is collected, and that a run may be grown or answered needs to know what each
  phase says of it. `Stage` states this, and `IInv` is `TypeOK /\ Stage /\ ArrivalOrder /\
  RunsAreUniform`. `InitIInv` and `NextIInv` prove it inductive, action by action; the lemmas on
  sequences come first.
* `ReadsAreInOrder`: `ReadsFollowArrivalOrder`. The property speaks of answers sent long ago; what
  keeps it true is what everything not answered yet says of the commands credited with an effect,
  those acknowledged and those of the run that will be (`Credited`). `Shows(q, v, n, A)` is the one
  notion behind all of it: v is a change of node n that was sent, and nothing of A changed n after it.
  `ValuesShow` says it of the server's values, `ReadingsShow` of the results of a run,
  `AnswersShow` of the answers, each with the commands that count there. `StraysUnacked` is why
  a late effect cannot hide an acknowledged change: what a failed call left at the server was never
  answered Good. `RunIsUniform` is why a Get shows nothing of its own run and no two changes of one
  are ordered by the server; `Places` gives what is settled a place before the run. `ReadsIInv` is
  their conjunction, which TLC was run on before it was proved.
* `ImplementsSerial`: the queue implements `SerialCommands!Spec` under the mapping that takes
  `arrived` for the accepted commands and forgets batches. `AnswerNext` is an Answer because, by
  `ArrivalOrder`, the head of the run is the oldest command not settled; `LoseRun` is a Lose of
  as many as the run has left; everything but Enqueue and the stop is a stutter.

**`LoggerProofs`**, for any finite set of threads, any limit and any file length:

* `TypeCorrect`: in particular the current file always has room for a line, so a chunk makes
  progress.
* `BoundedQueue`: `QueueBounded`. The bound counts threads that have looked and not yet queued
  (`Late`): `LateBounded` says the queue and the late threads together stay within the limit.
* `FlushIsComplete`: `FlushDrains`, an action property, from `LockHeld` (the task keeps the lock
  from emptying the queue to setting the event) and `FlushServed` (an event set after the reset
  means that what was there has been taken). It is of a Flush the event ends; one that gives up
  promises nothing.
* `NothingLost`: `NothingLostInside`, with `HandsEmpty` (the task holds nothing between batches).
* `StopLosesNothing`: `StopWritesAll`, from the same and `StopServed`: the task is cancelled only by
  a Stop that found the queue empty, so all that was accepted before has left it, and a task that
  ends by itself has nothing in its hands.
* `WaitsEndWithFlush`: `WaitsForAFlush`, from `ResetServed`: an event that is reset has a flusher
  waiting for it, or one that gave up before the task came by. These are the two ways into the deadlock
  of `logger_limit`, and there is no third.

**`MonitorCoordinatorProofs`**, for any finite set of items, any reply-tos, parameters and bounds:
`TypeCorrect`, `ActiveMonitorsReport`, `NothingUnasked`, `PromisesKept` and `OnlyTheGoneAreSuspended`
prove `TypeOK` and the four invariants of the runs. They are proved together, because a handler
changes registry, file and monitored items at different awaits and each property survives it only for
the others. `Fits` says how: what a handler that awaits has in hand still fits the registry it has
changed (`InHand`); only the session the coordinator knows has items (`OnlyInSession`); what is Active
is monitored, except while a session is built up (`Monitored`); what is monitored was asked for or is
being removed (`Asked`); the file is the registry unless a save failed (`Saved`), and both are what
clients were told (`Promised`); and what a reply-to check dooms has lapsed, a client that asks again
meanwhile included (`Lapsed`). `Discovered` and `Numbered` say that a catalogue is known when a session
is up and that no session comes back.

**`StateMachineProofs`**, for any tree of states of any depth, any declared transitions, any number of
triggers and whatever user code fires or throws:

* `TypeCorrect`, `UserCodeSeesItsTrigger`, `ReportsItsState`: `TypeOK`, `SeesItsTrigger`,
  `ReportedIsState`. The invariant has `Quiet` (a machine that is done has nothing in hand), `Single`
  (while only commands fire, all there is belongs to the last one, which is never a move), `Shape` (what
  is left of a transition arrives once, reports once and settles last), `Reported` and `Climbing` (where
  the search for a handler is on the state's path). Most of the work is `Shape`, from lemmas on the
  lists of exits and entries, which are filters of paths in the tree.
* `RestsInFirst`: `RestsInLeaf`, from `MovesOn`: if the state the transition ends in has a first
  substate, a move there is queued, being handled or about to be fired by an OnEntry. It assumes
  `LeadsAside`: no declared transition joins a state with a first substate to an ancestor or a
  descendant. Without it the machine may stay where nothing is entered; see below.
* `KeepsDestination`: `DestinationKept`, from `Kept` (no move comes before the command's trigger is
  handled, and none after it has led to a state without a first substate). It assumes
  `EntersFromInside`: a state with a first substate that is entered on the way holds where the
  transition comes from. That is the other side of the finding of `state_machine_direct`. TLC evaluates
  `HypothesesAssumption` with both runs: `LeadsAside` holds of both sets of transitions,
  `EntersFromInside` of the passing run's and not of the other's.

**`OpcUaClientProofs`**, for any set of callers, any bounds, with and without late stores:
`TypeCorrect`, `NoSessionLost`, `SessionsEndTogether`, `RunningCallsStay` and `AlarmIsKept`. The
invariant `IInv` adds to the properties who holds the lock (`Holder`), what its holder knows of the
session it opens at each place (`Hands`), that the main session comes and goes with the loop (`Main`),
that a session which passed the look back with its store unseen is of the main session that is up or
about to be closed (`Returned`), and that a number given to a session is new, so nobody uses one just
opened (`Fresh`). `RunningCallsStay` says that a call on a sound session of the main session that is up
is cut short only by another call that fails on that very session: not by one that failed on a session
replaced since, nor by a cancellation, an opening or a look back. `SessionsEndTogether` is the comment
of OpcUaClient.cs:186-187, "whatever the interleaving", with the one exception that comment does not
have, the store a disconnect cannot see.

**`TransportProofs`**, for any number of faults:

* `TransportInvariance`: every reconnection to come is paid for by a fault, at most two each
  (`FaultsPayForIt`); a transport that is not open and not disposed of has an attempt to come that
  does not hang on a timer nobody refers to, which may be collected (`TriesAgain`); one disposed of
  with nothing under way stays closed (`StaysClosed`).
* `TransportRefinesLink`: every step is a step of `BrokerLink` or none. `Create`, `Retry`, `Open`,
  `AttemptFails`, `Configured`, `Lose`, `StrayIsCollected` and `CloseDown` are its Construct,
  Reconnect, Connect, ConnectFails, Configure, Drop, Forget and Dispose; the rest are stutters. That
  a Retry finds a reconnection owed is what the invariant is for.

**`ServiceProofs`**, on top of these:

* `ServiceDrivesALink`: every step of the service is a step of the transport or leaves it alone, so
  the service's link implements `BrokerLink` as well.
* `StopCloses`: `ClosedAfterStop`, from `StaysClosed` and from where the loop and the owner are
  (`WhereTheTransportIs`, `BegunByStart`, `CancelledFirst`, `StopsInPeace`).
* `EnabledTellsTheTruth`: `EnabledIsPending`, for any bounds and any number of threads that start and
  stop, with `OneAtATime` (a one-shot has a timer or a callback, not both).

**`ProxyProofs`**, for any bounds: `TellsTheTruth`, `AsksEveryService` and `KeepsKeysBound`. The
invariant `ProxyInv` says what the heartbeat lock protects, Stop's and the timer's handlers included
(`HeartbeatLock`), that the application was told, is about to be or was passed over by a handler that
threw (`Told`), that nothing is heard before there is a link (`Beginning`), that the first heartbeat of
a service that runs unasked is on the wire or in the receiver's hands (`FirstIsComing`, by which a
restart cannot go unseen), how the owner, the field and the link live together (`Lives`), and what is
bound while calls do not overlap (`Bound`).

**Only model-checked.** Liveness, and refinement with fairness, which the proof system does not
treat: `SerialLiveSpec`, `EverySettled`, `PendingIsApplied`, `GoneIsSuspended`, `CallsEnd`,
`EverythingWritten`, `CallsEndWithMain`, `StatusSettles`, `HeartbeatsGoOn` and the fairness of
`TransportIsALink`.

## What the checks found

1. `logger_limit`: `Queue` waits for the flush event while it holds the lock the task needs to set
   it. A thread that logs after another's flush has reset the event, before the task takes the lock,
   blocks itself, the flush and all logging for good (`TaskWrapper.cs:20`). A Flush that gave up by its
   time-out or token (38, 47) leaves the event reset with nobody inside, and one thread that logs before
   the task comes by does the same alone.
2. `state_machine_direct`: a parent entered on the way to its second substate still fires the move
   to the first, and the parent permits that from all its substates (`MoveToStateWorker.cs:18`).
3. `monitor_names`: the names items were seen under are not stored, so after a restart a Delete of
   an item that has left does not find a monitor whose name had a collision suffix
   (`MonitorCoordinator.cs:178`).

Seen while modelling, where no run is spent on it. The properties exclude each of these by a named
condition or a history variable, and no more: they do not catch these, they show that there is nothing
else. Two of them, `Thrown` and `missed`, contradict comments of
the code.

* Monitors: a notification looks up its monitor and then sends, with the coordinator's reader free to
  replace or suspend the monitor in between (`MonitorCoordinator.cs:79`).
* Monitors, `Thrown`: OpcUaMonitorManager.cs:125-128 says that Pending "promises the monitor is applied on
  the next session, which is only true when this one is gone", and `CallFailed` keeps that for the
  exceptions it is called with. The catch-alls of the coordinator (`MonitorCoordinator.cs:155-159`,
  `205-209`) answer Pending for all others, on a session that is up as well, and no next one comes.
  `PendingIsApplied` is of the answers that are not such.
* State machines: once user code fires a trigger itself, `_currentTrigger` is the later one while an
  earlier one is still handled: the earlier one's guards are false without being asked and
  `GetCurrentResponseInfo` names the later sender. A transition from a substate to its own parent runs
  no OnEntry and leaves the machine in the parent, which `LeadsAside` rules out. An exception in a
  parent entered again leaves the reported state and the library's apart.
* Proxy, `Stuck`: connection handlers run under the heartbeat lock, on the receiver's thread but also on
  the thread that registers them (`HeartbeatEventProcessor.cs:21`, `26`), on the timer's (`58` from `105`)
  and on the one that calls Stop. One of these that subscribes or unsubscribes waits for the list the
  receiver holds, and the receiver for the lock (`EventSubscriptionManager.cs:13` and `:51`).
* Proxy, `skipped`: a Disconnected handler that throws (`HeartbeatEventProcessor.cs:58`) keeps those after
  it from being told, and the catch that resets once more (`100`) finds no change. On the timer's thread
  nobody catches it and the process ends; out of Stop it leaves the transport in use
  (`StatePipesProxyInternal.cs:91`, `95`). A Connected handler that throws as it is registered keeps its
  Disconnected one from being registered (`21`).
* Proxy, `excused` and `overlapped`: events are consumed before Start has stored the transport, so the
  first heartbeat may find none: its question for the status is dropped and a key subscribed to then
  stays unbound (`StatePipesProxyInternal.cs:85`). A service started again while the link was down, or
  whose first heartbeats were lost, may count past the last one heard, and nothing shows that it is
  new. Subscribe and UnSubscribe that overlap each other or a configuration may leave a listed key unbound.
* Transport and service, `raced` and `late`: a shutdown handler or timer callback already under way
  connects again after Dispose, and the loop may make the transport after Stop has disposed of what
  there was (`StatePipesService.cs:165`).
* Delayed messages, `spoiled`: the stale callback of a replaced timer, or of one that two starts at once
  left behind, sends its message and clears Enabled of the one-shot started since
  (`DelayedMessageSender.cs:60`, `23-24`).
* Client: a call that fails disposes of the call session although it may be sound, and with it of what
  other callers run on it (`OpcUaClient.cs:146-152`).
* Client, `missed`: a store to `_callSession` may still be invisible to a disconnect that the look back
  has not seen either; that session stays open until a call on it fails or the next disconnect.
* A service started a second time never returns from Start, because the cancellation token stays
  cancelled (`TaskWrapper.cs:108`).

## What is not modelled, and the plan

Left, in this order:

1. Proofs beyond what the runs check: that `Service`'s command loop and `Logger`'s task use
   `TaskWrapper`'s queue as one specification of it, and an abstract specification of the bridge's
   monitors that `MonitorCoordinator` implements.
2. The rest of the proxy and the service: responses, local delivery, `remoteAccess = false`,
   `UnSubscribeConnectedToService`, several event types.
3. The Kafka transport, whose reconnection is the client library's, and its auto-deletion of topics.
4. The broker proxy: two services back to back over two links.
5. The state machine test harness, which waits and filters on a thread of its own.

Left out for good: the programs around the framework (Explorer, Diagrammer, templates, installers),
reflection and code emission, value and JSON conversion, certificates and file locations. They hold
no state that two actors share, and their unit tests reach what they do. The JavaScript of the
repository is third-party code vendored for the Explorer's pages (`StatePipes.Explorer/wwwroot`:
d3, Chart.js, bootstrap and their plug-ins), but for `diagrams.js`, one function that hands a graph
to d3; the framework is C#, and that is what is modelled.

Left out of the modelled parts: the coordinator's completion sources and the
refusal of foreign reply-tos in its file; levels, file names and the purge of the logger; the
container set-up, diagrams and `OnActivate` of state machines; the reply-to guard and the self
description of the bridge.
