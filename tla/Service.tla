-------------------------------- MODULE Service --------------------------------
(***************************************************************************)
(* A service: StatePipesService.cs on the queue of TaskWrapper.cs, with the  *)
(* senders of delayed messages (DelayedMessageSender.cs) that feed it, over  *)
(* the transport it makes.                                                   *)
(*                                                                           *)
(* Threads: the owner's in Start and Stop; the loop of DoWork, which runs    *)
(* every command handler; timer callbacks; the transport's, which deliver    *)
(* commands.  The heartbeat is a periodic message the service sends itself;  *)
(* the alarm stands for a delayed message of the application's, as a state   *)
(* machine makes them.                                                       *)
(***************************************************************************)
EXTENDS RabbitMqTransport, Sequences

CONSTANTS
    None,
    \* Bounds.
    MaxQueue,  \* commands queued when a timer elapses or a command arrives
    MaxDue,    \* callbacks of a sender that wait for its lock
    MaxCalls   \* commands that arrive, and calls of StartOneShot and Stop

ASSUME ServiceAssumption ==
    /\ MaxQueue \in Nat /\ MaxDue \in Nat /\ MaxCalls \in Nat

Senders == {"heartbeat", "alarm"}

VARIABLES
    owner,      \* where Start and Stop stand
    container,  \* _container is set
    field,      \* _transport is set
    \* TaskWrapper.
    loop,       \* where the task stands
    started,    \* _startEventSlim is set
    cancelled,  \* the token is cancelled
    queue,      \* _queue
    signal,     \* _resetEventSlim is set
    hand,       \* the command the loop has taken
    \* DelayedMessageSender, for each sender.
    timer,      \* _timer is set and still to elapse
    fired,      \* its callbacks that wait for _lock
    stale,      \* the callbacks of timers before it that do
    enabled,    \* Enabled
    starting,   \* the calls of StartOneShot between their two critical sections
    orphans,    \* timers still to elapse that _timer no longer names
    \* History and bounds.
    late,       \* Stop went on while the loop was making the transport
    spoiled,    \* a stale callback cleared Enabled, for each sender
    calls       \* how much of MaxCalls is used up

task == <<loop, started, cancelled, queue, signal, hand>>
senders == <<timer, fired, stale, enabled, spoiled, starting, orphans>>
vars == <<transport, owner, container, field, task, senders, late, calls>>

Call == calls < MaxCalls /\ calls' = calls + 1

ForAll(v) == [s \in Senders |-> v]

Init ==
    /\ TransportInit
    /\ owner = "new" /\ container = FALSE /\ field = FALSE
    /\ loop = "none" /\ started = FALSE /\ cancelled = FALSE
    /\ queue = <<>> /\ signal = FALSE /\ hand = None
    /\ timer = ForAll(FALSE) /\ fired = ForAll(0) /\ stale = ForAll(0)
    /\ enabled = ForAll(FALSE) /\ spoiled = ForAll(FALSE) /\ starting = 0 /\ orphans = 0
    /\ late = FALSE /\ calls = 0

\* TaskWrapper.Queue, with a high water mark of one.
Queue(c) == queue' = Append(queue, c) /\ signal' = TRUE

\* The two critical sections of DelayedMessageSender: its Stop, and what a start does
\* after it.  Callbacks that wait for the lock still run.
Switch(s, isOn) ==
    /\ timer' = [timer EXCEPT ![s] = isOn]
    /\ enabled' = [enabled EXCEPT ![s] = isOn]
    /\ stale' = [stale EXCEPT ![s] = @ + fired[s]]
    /\ fired' = [fired EXCEPT ![s] = 0]
    /\ spoiled' = [spoiled EXCEPT ![s] = FALSE]

StopTimer(s) == Switch(s, FALSE)
StartTimer(s) == Switch(s, TRUE)

-----------------------------------------------------------------------------
(* Start and Stop.                                                           *)

\* The task is created with the token, and may begin at any time.
Start ==
    /\ owner = "new" /\ owner' = "starting"
    /\ container' = TRUE
    /\ loop' = "begun"
    /\ UNCHANGED <<transport, field, started, cancelled, queue, signal, hand, senders, late, calls>>

\* _startEventSlim.Wait() returns.  The Stop with which this start begins has nothing
\* to stop.
StartHeartbeat ==
    /\ owner = "starting" /\ started
    /\ owner' = "asking"
    /\ StartTimer("heartbeat")
    /\ UNCHANGED <<transport, container, field, task, starting, orphans, late, calls>>

AskForStatus ==
    /\ owner = "asking" /\ owner' = "running"
    /\ Queue("status")
    /\ UNCHANGED <<transport, container, field, loop, started, cancelled, hand, senders, late, calls>>

Stop ==
    /\ owner = "running" /\ owner' = "cancelling"
    /\ StopTimer("heartbeat")
    /\ UNCHANGED <<transport, container, field, task, starting, orphans, late, calls>>

Cancel ==
    /\ owner = "cancelling" /\ owner' = "joining"
    /\ cancelled' = TRUE
    /\ UNCHANGED <<transport, container, field, loop, started, queue, signal, hand, senders, late, calls>>

\* _task.Wait(1000), which may be over before the loop is.
Join ==
    /\ owner = "joining" /\ owner' = "disposing"
    /\ started' = FALSE
    /\ UNCHANGED <<transport, container, field, loop, cancelled, queue, signal, hand, senders, late, calls>>

\* Dispose of the transport waits for its lock.
Dispose ==
    /\ owner = "disposing" /\ owner' = "stopped"
    /\ IF field THEN CloseDown ELSE UNCHANGED transport
    /\ field' = FALSE /\ container' = FALSE
    /\ late' = (loop \in {"constructing", "assigning"})
    /\ UNCHANGED <<task, senders, calls>>

-----------------------------------------------------------------------------
(* The loop: Run and DoWork.                                                 *)

\* PerformCancellation throws, and so does waiting with the token.
LoopEnds ==
    /\ cancelled /\ loop \in {"begun", "top", "waiting", "taken"}
    /\ loop' = "ended" /\ hand' = None
    /\ UNCHANGED <<transport, owner, container, field, started, cancelled, queue, signal, senders, late, calls>>

Run ==
    /\ loop = "begun" /\ ~cancelled
    /\ loop' = "top" /\ started' = TRUE
    /\ UNCHANGED <<transport, owner, container, field, cancelled, queue, signal, hand, senders, late, calls>>

\* The first thing DoWork does; the constructor connects.
CreateTransport ==
    /\ loop = "top" /\ ~cancelled /\ ~field
    /\ Create
    /\ loop' = "constructing"
    /\ UNCHANGED <<owner, container, field, started, cancelled, queue, signal, hand, senders, late, calls>>

\* Without a container it sleeps instead.
Rest == IF container THEN "waiting" ELSE "top"

AssignTransport ==
    /\ loop = "assigning"
    /\ field' = TRUE /\ loop' = Rest
    /\ UNCHANGED <<transport, owner, container, started, cancelled, queue, signal, hand, senders, late, calls>>

Look ==
    /\ loop = "top" /\ ~cancelled /\ field
    /\ loop' = Rest
    /\ UNCHANGED <<transport, owner, container, field, started, cancelled, queue, signal, hand, senders, late, calls>>

WaitExpires ==
    /\ loop = "waiting" /\ ~cancelled /\ ~signal
    /\ loop' = "top"
    /\ UNCHANGED <<transport, owner, container, field, started, cancelled, queue, signal, hand, senders, late, calls>>

\* The event stays set while commands may be left.
GetNext ==
    /\ loop = "waiting" /\ ~cancelled /\ signal
    /\ \/ /\ queue = <<>> /\ signal' = FALSE /\ loop' = "top"
          /\ UNCHANGED <<queue, hand>>
       \/ /\ queue # <<>> /\ hand' = Head(queue) /\ queue' = Tail(queue) /\ loop' = "taken"
          /\ UNCHANGED signal
    /\ UNCHANGED <<transport, owner, container, field, started, cancelled, senders, late, calls>>

\* PerformCancellation after GetNext, and the handler, which may take its time.
Execute ==
    /\ loop = "taken" /\ ~cancelled
    /\ loop' = "executing"
    /\ UNCHANGED <<transport, owner, container, field, started, cancelled, queue, signal, hand, senders, late, calls>>

\* HeartbeatCommandHandler publishes; IsOpen waits for the transport's lock.
Finish ==
    /\ loop = "executing"
    /\ hand = "heartbeat" /\ field => phase = "idle"
    /\ loop' = "top" /\ hand' = None
    /\ UNCHANGED <<transport, owner, container, field, started, cancelled, queue, signal, senders, late, calls>>

\* A heartbeat that reaches the broker.
Beats == Finish /\ hand = "heartbeat" /\ field /\ open

-----------------------------------------------------------------------------
(* The senders of delayed messages.                                          *)

\* It stops first, and lets the lock go.
StartOneShot ==
    /\ loop # "none" /\ Call
    /\ StopTimer("alarm")
    /\ starting' = starting + 1
    /\ UNCHANGED <<transport, owner, container, field, task, orphans, late>>

\* Of two starts at once the later one overwrites the timer of the other, which
\* nobody disposes of.
ArmOneShot ==
    /\ starting > 0 /\ starting' = starting - 1
    /\ StartTimer("alarm")
    /\ orphans' = IF timer["alarm"] THEN orphans + 1 ELSE orphans
    /\ UNCHANGED <<transport, owner, container, field, task, late, calls>>

\* It elapses like any other, unless it is collected first.
OrphanEnds ==
    /\ orphans > 0 /\ orphans' = orphans - 1
    /\ \/ /\ stale["alarm"] < MaxDue /\ Len(queue) < MaxQueue
          /\ stale' = [stale EXCEPT !["alarm"] = @ + 1]
       \/ UNCHANGED stale
    /\ UNCHANGED <<transport, owner, container, field, task, timer, fired, enabled, spoiled,
                   starting, late, calls>>

StopOneShot ==
    /\ loop # "none" /\ Call
    /\ StopTimer("alarm")
    /\ UNCHANGED <<transport, owner, container, field, task, starting, orphans, late>>

\* Mutant: no period.
ElapseOnce(s) ==
    /\ timer[s] /\ fired[s] < MaxDue /\ Len(queue) < MaxQueue
    /\ timer' = [timer EXCEPT ![s] = FALSE]
    /\ fired' = [fired EXCEPT ![s] = @ + 1]
    /\ UNCHANGED <<transport, owner, container, field, task, stale, enabled, spoiled, starting,
                   orphans, late, calls>>

\* The heartbeat's timer is periodic.
Elapse(s) ==
    /\ timer[s] /\ fired[s] < MaxDue /\ Len(queue) < MaxQueue
    /\ timer' = [timer EXCEPT ![s] = (s = "heartbeat")]
    /\ fired' = [fired EXCEPT ![s] = @ + 1]
    /\ UNCHANGED <<transport, owner, container, field, task, stale, enabled, spoiled, starting,
                   orphans, late, calls>>

\* Mutant: Enabled is left to Stop.
SendsAndStaysEnabled(s) ==
    /\ IF container THEN Queue(s) ELSE UNCHANGED <<queue, signal>>
    /\ UNCHANGED <<transport, owner, container, field, loop, started, cancelled, hand, timer, enabled,
                   starting, orphans, late, calls>>

\* The message goes out, whichever timer it was for; only a periodic one leaves
\* Enabled alone.
Sends(s) ==
    /\ IF container THEN Queue(s) ELSE UNCHANGED <<queue, signal>>
    /\ enabled' = [enabled EXCEPT ![s] = @ /\ s = "heartbeat"]
    /\ UNCHANGED <<transport, owner, container, field, loop, started, cancelled, hand, timer,
                   starting, orphans, late, calls>>

SendMessage(s) ==
    /\ fired[s] > 0 /\ fired' = [fired EXCEPT ![s] = @ - 1]
    /\ Sends(s)
    /\ UNCHANGED <<stale, spoiled>>

SendStale(s) ==
    /\ stale[s] > 0 /\ stale' = [stale EXCEPT ![s] = @ - 1]
    /\ Sends(s)
    /\ spoiled' = [spoiled EXCEPT ![s] = @ \/ (enabled[s] /\ ~enabled'[s])]
    /\ UNCHANGED fired

-----------------------------------------------------------------------------
(* The transport, which delivers commands once ConfigureBuses has made the    *)
(* consumer.                                                                 *)

Connects ==
    /\ TransportRuns
    /\ loop' = IF loop = "constructing" /\ phase' = "idle" THEN "assigning" ELSE loop
    /\ UNCHANGED <<owner, container, field, started, cancelled, queue, signal, hand, senders, late, calls>>

ConsumeCommand ==
    /\ open /\ container
    /\ Call /\ Len(queue) < MaxQueue
    /\ Queue("remote")
    /\ UNCHANGED <<transport, owner, container, field, loop, started, cancelled, hand, senders, late>>

-----------------------------------------------------------------------------
Starting == Start \/ StartHeartbeat \/ AskForStatus
Stopping == Cancel \/ Join \/ Dispose
Loop ==
    \/ LoopEnds \/ Run \/ CreateTransport \/ AssignTransport \/ Look
    \/ WaitExpires \/ GetNext \/ Execute \/ Finish

Next ==
    \/ Starting \/ Stop \/ Stopping
    \/ Loop
    \/ StartOneShot \/ ArmOneShot \/ OrphanEnds \/ StopOneShot
    \/ \E s \in Senders : Elapse(s) \/ SendMessage(s) \/ SendStale(s)
    \/ Connects \/ ConsumeCommand

Spec == Init /\ [][Next]_vars

FairSpec ==
    /\ Spec
    /\ WF_vars(StartHeartbeat \/ AskForStatus) /\ WF_vars(Stopping) /\ WF_vars(Loop)
    /\ \A s \in Senders : WF_vars(Elapse(s)) /\ WF_vars(SendMessage(s)) /\ WF_vars(SendStale(s))
    /\ WF_vars(ArmOneShot)
    /\ WF_vars(Connects /\ (Open \/ AttemptFails)) /\ WF_vars(Connects /\ Configured)
    /\ WF_vars(Connects /\ Retry) /\ WF_vars(Connects /\ TimerElapses) /\ WF_vars(Connects /\ Shutdown)

-----------------------------------------------------------------------------
\* When Stop returns the service has no open transport and none to come, unless
\* the loop was making it when the second for the loop was over, or a shutdown
\* handler or a timer callback was already under way: those connect again after
\* Stop.
ClosedAfterStop ==
    owner = "stopped" /\ ~late /\ ~raced =>
        ~field /\ ~open /\ Pending = 0

\* Enabled says whether a message is to come, although timers elapse and are
\* replaced in any order and by several threads, unless a callback of an earlier timer,
\* which had waited for the lock meanwhile or which two starts at once left behind,
\* cleared it for the one-shot started since.
EnabledIsPending ==
    \A s \in Senders :
        /\ enabled[s] => timer[s] \/ fired[s] > 0
        /\ timer[s] \/ fired[s] > 0 => enabled[s] \/ spoiled[s]

\* A service that runs and whose transport stays open goes on sending heartbeats:
\* neither Start, nor what else is queued, nor an earlier loss of the connection
\* silences it.
HeartbeatsGoOn ==
    <>[](owner = "running" /\ phase = "idle" /\ open) => []<><<Beats>>_vars
=============================================================================
