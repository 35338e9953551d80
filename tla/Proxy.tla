--------------------------------- MODULE Proxy ---------------------------------
(***************************************************************************)
(* A proxy: from the heartbeats it receives it decides whether its service is *)
(* there, tells the application so and asks the service for its status, and   *)
(* it keeps the keys of the events the application wants bound at the broker. *)
(* StatePipesProxyInternal.cs, HeartbeatEventProcessor.cs and                 *)
(* EventSubscriptionManager.cs; the service is a HeartbeatSource, the         *)
(* transport a BrokerLink.                                                   *)
(*                                                                           *)
(* Threads: the receiver (the consumer's), the application's, the resetter    *)
(* (the timer's or the owner's in Stop, whichever resets the connection and   *)
(* runs the handlers of that), the rest of the owner's and the link's.  A     *)
(* step is what a thread does between two accesses to what others change;     *)
(* what it does under a lock is one step unless it calls out.                 *)
(***************************************************************************)
EXTENDS BrokerLink, HeartbeatSource, Sequences, FiniteSets

CONSTANTS
    None,
    \* Bounds.
    MaxWire,     \* heartbeats on their way
    MaxLate,     \* timer callbacks that wait for the lock
    MaxTroubles  \* faults, and calls of the application, in all

Threads == {"receiver", "application", "resetter"}

ASSUME ProxyAssumption ==
    /\ None \notin Nat /\ None \notin Threads
    /\ MaxWire \in Nat /\ MaxLate \in Nat /\ MaxTroubles \in Nat

VARIABLES
    \* StatePipesProxyInternal.
    owner,      \* where Start and Stop stand
    field,      \* _transport is set
    \* HeartbeatEventProcessor.
    hb,         \* who holds _heartbeatLock while it calls out
    last,       \* the heartbeat of _lastHearbeatCount
    connected,  \* _isConnectedToService
    timer,      \* _timer is armed
    late,       \* callbacks of elapsed timers that wait for _heartbeatLock
    \* The threads.
    at,         \* [Threads -> where it stands]
    beat,       \* the heartbeat the receiver has in hand
    \* Subscriptions to one event type.
    registered, \* _routingKeyManager lists the handler
    keys,       \* what ConfigureBuses read of that: "unread", "bind", "leave" or "done"
    bound,      \* the key is bound to the proxy's queue
    \* The application.
    watching,   \* its connection handlers are registered: "no", "half" (the one for
                \* the connection only) or "yes"
    told,       \* what they were told last
    \* The broker.
    wire,       \* heartbeats on their way
    \* History.
    skipped,    \* a handler threw before they were told that the service is gone
    asked,      \* the service that runs was asked for its status
    excused,    \* a heartbeat of it was lost, or the question did not go out
    overlapped, \* a Subscribe or UnSubscribe overlapped another or a configuration
    troubles    \* faults and calls of the application so far

processor == <<hb, last, connected, timer, late>>
threads == <<at, beat>>
keyVars == <<registered, keys, bound>>
app == <<watching, told, skipped>>
history == <<asked, excused, overlapped>>
vars == <<linkVars, sourceVars, owner, field, processor, threads, keyVars, app, wire, history, troubles>>

Init ==
    /\ LinkInit /\ SourceInit
    /\ owner = "new" /\ field = FALSE
    /\ hb = None /\ last = None /\ connected = FALSE /\ timer = FALSE /\ late = 0
    /\ at = [t \in Threads |-> "idle"] /\ beat = None
    /\ registered = FALSE /\ keys = "unread" /\ bound = FALSE
    /\ watching = "no" /\ told = FALSE /\ skipped = FALSE
    /\ wire = <<>>
    /\ asked = FALSE /\ excused = FALSE /\ overlapped = FALSE /\ troubles = 0

\* Between the first look at the list of keys and the last change of it.
Subscribing(t) == at[t] \in {"binding", "entering", "listing"}
Unsubscribing(t) == at[t] \in {"unlisted", "unbinding"}
Changing(t) == Subscribing(t) \/ Unsubscribing(t)

\* Messages arrive once ConfigureBus has made the consumer, which is before the
\* constructor of the transport returns.
Flows == link = "up" \/ (link = "configuring" /\ keys = "done")

\* ResetHeartbeatWorker, up to the call of the handlers: they run if this is a change.
Reset == last' = None /\ timer' = FALSE /\ connected' = FALSE
HandlersRun == connected /\ watching = "yes"

\* The consumer's queue goes with its channel.
Cut == wire' = <<>> /\ bound' = FALSE /\ excused' = (excused \/ wire # <<>>)

Trouble == troubles < MaxTroubles /\ troubles' = troubles + 1

Go(t, from, to) == at[t] = from /\ at' = [at EXCEPT ![t] = to]

\* The handlers have returned.  A receiver that has just connected arms the timer,
\* a Stop disposes of the transport, any other thread leaves the lock.
HandlersReturn(t) ==
    LET connects == t = "receiver" /\ hb = t /\ connected
    IN  /\ at' = [at EXCEPT ![t] = IF connects THEN "arming" ELSE "idle"]
        /\ hb' = IF hb = t /\ ~connects THEN None ELSE hb
        /\ owner' = IF t = "resetter" /\ owner = "stopping" THEN "disposing" ELSE owner

\* The timer or Stop resets the connection under the lock, with the handlers next.
ResetByOther ==
    /\ hb = None /\ Reset
    /\ IF HandlersRun
       THEN hb' = "resetter" /\ Go("resetter", "idle", "leaving")
       ELSE UNCHANGED <<hb, at>>

-----------------------------------------------------------------------------
(* Start and Stop.                                                           *)

Start ==
    /\ owner = "new" /\ owner' = "construct"
    /\ hb = None /\ Reset
    /\ UNCHANGED <<linkVars, sourceVars, field, hb, late, threads, keyVars, app, wire, history, troubles>>

ConstructTransport ==
    /\ owner = "construct" /\ owner' = "constructing"
    /\ Construct
    /\ UNCHANGED <<sourceVars, field, processor, threads, keyVars, app, wire, history, troubles>>

\* The factory returns and the field is set.
Assign ==
    /\ owner = "assign" /\ owner' = "running"
    /\ field' = TRUE
    /\ UNCHANGED <<linkVars, sourceVars, processor, threads, keyVars, app, wire, history, troubles>>

Stop ==
    /\ owner = "running" /\ owner' = IF HandlersRun THEN "stopping" ELSE "disposing"
    /\ ResetByOther
    /\ UNCHANGED <<linkVars, sourceVars, field, late, beat, keyVars, app, wire, history, troubles>>

DisposeTransport ==
    /\ owner = "disposing" /\ owner' = "stopped"
    /\ Dispose /\ field' = FALSE
    /\ Cut
    /\ UNCHANGED <<sourceVars, processor, threads, registered, keys, app, asked, overlapped, troubles>>

-----------------------------------------------------------------------------
(* The transport connects, and calls ConfigureBuses each time it does.       *)

Returned == owner' = IF owner = "constructing" THEN "assign" ELSE owner

LinkConnects ==
    /\ Connect
    /\ UNCHANGED <<sourceVars, owner, field, processor, threads, keyVars, app, wire, history, troubles>>

LinkFails ==
    /\ ConnectFails /\ Returned
    /\ Trouble
    /\ UNCHANGED <<sourceVars, field, processor, threads, keyVars, app, wire, history>>

LinkReconnects ==
    /\ Reconnect
    /\ Cut
    /\ UNCHANGED <<sourceVars, owner, field, processor, threads, registered, keys, app, asked, overlapped, troubles>>

LinkDrops ==
    /\ Drop
    /\ Cut
    /\ Trouble
    /\ UNCHANGED <<sourceVars, owner, field, processor, threads, registered, keys, app, asked, overlapped>>

LinkForgets ==
    /\ Forget
    /\ UNCHANGED <<sourceVars, owner, field, processor, threads, keyVars, app, wire, history, troubles>>

\* Mutant: only the keys known from the start are bound again.
ReadNoKeys ==
    /\ link \in {"configuring", "dropped"} /\ keys = "unread"
    /\ keys' = "leave"
    /\ overlapped' = (overlapped \/ \E t \in Threads : Changing(t))
    /\ UNCHANGED <<linkVars, sourceVars, owner, field, processor, threads, registered, bound,
                   app, wire, asked, excused, troubles>>

\* ConfigureBuses reads the list of keys.
ReadKeys ==
    /\ link \in {"configuring", "dropped"} /\ keys = "unread"
    /\ keys' = IF registered THEN "bind" ELSE "leave"
    /\ overlapped' = (overlapped \/ \E t \in Threads : Changing(t))
    /\ UNCHANGED <<linkVars, sourceVars, owner, field, processor, threads, registered, bound,
                   app, wire, asked, excused, troubles>>

\* And binds them; a failure is caught.
BindKeys ==
    /\ link \in {"configuring", "dropped"} /\ keys \in {"bind", "leave"}
    /\ bound' = (keys = "bind" /\ link = "configuring") /\ keys' = "done"
    /\ UNCHANGED <<linkVars, sourceVars, owner, field, processor, threads, registered,
                   app, wire, history, troubles>>

LinkIsConfigured ==
    /\ keys = "done" /\ keys' = "unread" /\ Configure /\ Returned
    /\ UNCHANGED <<sourceVars, field, processor, threads, registered, bound, app, wire, history, troubles>>

-----------------------------------------------------------------------------
(* The service and the broker.                                               *)

SourceChanges ==
    /\ \/ Begin /\ UNCHANGED <<asked, excused, troubles>>
       \/ Die /\ Trouble /\ UNCHANGED <<asked, excused>>
       \/ /\ StartAgain
          /\ asked' = FALSE /\ excused' = FALSE
          /\ IF up THEN Trouble ELSE UNCHANGED troubles
    /\ UNCHANGED <<linkVars, owner, field, processor, threads, keyVars, app, wire, overlapped>>

\* A heartbeat no queue takes is lost; others may be, as one trouble more.
Publish ==
    /\ Beat
    /\ \/ /\ Flows /\ Len(wire) < MaxWire /\ wire' = Append(wire, count)
          /\ UNCHANGED <<excused, troubles>>
       \/ /\ wire' = wire /\ excused' = TRUE
          /\ IF Flows THEN Trouble ELSE UNCHANGED troubles
    /\ UNCHANGED <<linkVars, owner, field, processor, threads, keyVars, app, asked, overlapped>>

-----------------------------------------------------------------------------
(* The receiver in ConsumeEvent.  It holds the list of handlers until it is   *)
(* idle again.                                                               *)

Consume ==
    /\ wire # <<>> /\ beat' = Head(wire) /\ wire' = Tail(wire)
    /\ Go("receiver", "idle", "heard")
    /\ UNCHANGED <<linkVars, sourceVars, owner, field, processor, keyVars, app, history, troubles>>

\* Mutant: a count that is seen again is as good as a later one.
NotEarlier(b) ==
    last # None => b >= last

\* A count at Top or above may be before or after the last one, if that is too.
Later(b) ==
    last # None => b > last \/ (b = Top /\ last = Top)

\* Mutant: the timer in use is left to elapse.
HearLaterWithOldTimer ==
    /\ at["receiver"] = "heard" /\ hb = None
    /\ Later(beat)
    /\ last' = beat /\ timer' = FALSE
    /\ late' = IF timer /\ late < MaxLate THEN late + 1 ELSE late
    /\ connected' = TRUE
    /\ hb' = "receiver"
    /\ Go("receiver", "heard", IF connected THEN "arming" ELSE "asking")
    /\ beat' = None
    /\ UNCHANGED <<linkVars, sourceVars, owner, field, keyVars, app, wire, history, troubles>>

\* HeartbeatEventHandler, for a heartbeat that counts on.
HearLater ==
    /\ at["receiver"] = "heard" /\ hb = None
    /\ Later(beat)
    /\ last' = beat /\ timer' = FALSE
    /\ connected' = TRUE
    /\ hb' = "receiver"
    /\ Go("receiver", "heard", IF connected THEN "arming" ELSE "asking")
    /\ beat' = None
    /\ UNCHANGED <<linkVars, sourceVars, owner, field, late, keyVars, app, wire, history, troubles>>

\* And for one that does not: the service was started again.
HearEarlier ==
    /\ at["receiver"] = "heard" /\ hb = None
    /\ last # None /\ beat <= last
    /\ IF beat = Top THEN Trouble ELSE UNCHANGED troubles
    /\ Reset
    /\ IF HandlersRun THEN hb' = "receiver" /\ Go("receiver", "heard", "leaving")
                      ELSE hb' = hb /\ Go("receiver", "heard", "idle")
    /\ beat' = None
    /\ UNCHANGED <<linkVars, sourceVars, owner, field, late, keyVars, app, wire, history>>

\* ConnectedToServiceHandler: IsOpen waits for the link's lock.
Ask ==
    /\ field => Released
    /\ IF field /\ link = "up" THEN asked' = TRUE /\ UNCHANGED excused
                              ELSE excused' = TRUE /\ UNCHANGED asked
    /\ Go("receiver", "asking", "telling")
    /\ UNCHANGED <<linkVars, sourceVars, owner, field, processor, beat, keyVars, app, wire, overlapped, troubles>>

\* The application's handlers, which may subscribe and may throw.
Tell ==
    /\ told' = (told \/ watching = "yes") /\ skipped' = FALSE
    /\ \/ Go("receiver", "telling", "arming")
       \/ watching # "no" /\ Go("receiver", "telling", "looking")
    /\ UNCHANGED <<linkVars, sourceVars, owner, field, processor, beat, keyVars, watching, wire, history, troubles>>

HandlerThrows ==
    /\ watching # "no"
    /\ Go("receiver", "telling", "recovering")
    /\ hb' = None
    /\ \E b \in BOOLEAN : told' = (told \/ (b /\ watching = "yes"))
    /\ Trouble
    /\ UNCHANGED <<linkVars, sourceVars, owner, field, last, connected, timer, late, beat, keyVars,
                   watching, skipped, wire, history>>

\* Mutant: nobody is told.
RecoverSilently ==
    /\ Reset
    /\ Go("receiver", "recovering", "idle")
    /\ UNCHANGED <<linkVars, sourceVars, owner, field, hb, late, beat, keyVars, app, wire, history, troubles>>

\* The catch of HeartbeatEventHandler, without the lock.
Recover ==
    /\ Reset
    /\ Go("receiver", "recovering", IF HandlersRun THEN "leaving" ELSE "idle")
    /\ UNCHANGED <<linkVars, sourceVars, owner, field, hb, late, beat, keyVars, app, wire, history, troubles>>

\* The application's handlers hear that the service is gone, and may subscribe.
TellGone(t) ==
    /\ at[t] = "leaving"
    /\ told' = FALSE /\ skipped' = FALSE
    /\ \/ HandlersReturn(t)
       \/ Go(t, "leaving", "looking") /\ UNCHANGED <<hb, owner>>
    /\ UNCHANGED <<linkVars, sourceVars, field, last, connected, timer, late, beat, keyVars,
                   watching, wire, history, troubles>>

\* Or one throws, before or after the others hear it.  HeartbeatEventHandler
\* catches that under its lock and resets once more, HandleEvent catches it from
\* Recover, and Stop gives up with the transport still in use.  On the timer's
\* thread nobody catches it: that ends the process, which is no step here.
GoneHandlerThrows(t) ==
    /\ at[t] = "leaving"
    /\ \/ /\ t = "receiver" /\ Go(t, "leaving", IF hb = t THEN "recovering" ELSE "idle")
          /\ owner' = owner
       \/ /\ t = "resetter" /\ Go(t, "leaving", "idle")
          /\ owner = "stopping" /\ owner' = "running"
    /\ hb' = IF hb = t THEN None ELSE hb
    /\ \E b \in BOOLEAN : told' = (told /\ b)
    /\ skipped' = told'
    /\ Trouble
    /\ UNCHANGED <<linkVars, sourceVars, field, last, connected, timer, late, beat, keyVars,
                   watching, wire, history>>

ArmTimer ==
    /\ timer' = TRUE /\ hb' = None
    /\ Go("receiver", "arming", "idle")
    /\ UNCHANGED <<linkVars, sourceVars, owner, field, last, connected, late, beat, keyVars, app, wire, history, troubles>>

\* The time of three heartbeats: while they arrive, one trouble more.
Elapse ==
    /\ timer /\ late < MaxLate
    /\ IF up /\ Flows THEN Trouble ELSE UNCHANGED troubles
    /\ timer' = FALSE /\ late' = late + 1
    /\ UNCHANGED <<linkVars, sourceVars, owner, field, hb, last, connected, threads, keyVars, app, wire, history>>

\* HeartBeatTimeout, of whichever timer.
TimeOut ==
    /\ late > 0 /\ late' = late - 1
    /\ ResetByOther
    /\ UNCHANGED <<linkVars, sourceVars, owner, field, beat, keyVars, app, wire, history, troubles>>

-----------------------------------------------------------------------------
(* Subscriptions, by the application or in a handler.                        *)

\* SubscribeConnectedToService: the handler that fits is called under the lock at
\* once, and may subscribe.  If the first throws the second is not registered.
Watch ==
    /\ watching = "no" /\ hb = None
    /\ \/ /\ watching' = "yes" /\ told' = connected
          /\ \/ Go("application", "idle", "looking") /\ hb' = "application"
             \/ Go("application", "idle", "idle") /\ hb' = hb
       \/ /\ connected /\ watching' = "half" /\ told' = told
          /\ Go("application", "idle", "idle") /\ hb' = hb
    /\ Trouble
    /\ UNCHANGED <<linkVars, sourceVars, owner, field, last, connected, timer, late, beat, keyVars,
                   skipped, wire, history>>

Subscribe ==
    /\ Go("application", "idle", "looking")
    /\ Trouble
    /\ UNCHANGED <<linkVars, sourceVars, owner, field, processor, beat, keyVars, app, wire, history>>

Look(t) ==
    /\ Go(t, "looking", IF ~registered THEN "binding" ELSE "entering")
    /\ overlapped' = (overlapped \/ \E u \in Threads \ {t} : Changing(u))
    /\ UNCHANGED <<linkVars, sourceVars, owner, field, processor, beat, keyVars, app, wire, asked, excused, troubles>>

\* Without a transport this comes to nothing.
Bind(t) ==
    /\ Go(t, "binding", "entering")
    /\ \/ ~field /\ bound' = bound
          /\ overlapped' = (overlapped \/ owner \in {"constructing", "assign"})
       \/ field /\ Released /\ bound' = (bound \/ link = "up") /\ overlapped' = overlapped
    /\ UNCHANGED <<linkVars, sourceVars, owner, field, processor, beat, registered, keys, app, wire,
                   asked, excused, troubles>>

\* The list of handlers, which the receiver holds while it runs one.
Enter(t) ==
    /\ t = "receiver" \/ at["receiver"] = "idle"
    /\ Go(t, "entering", "listing")
    /\ UNCHANGED <<linkVars, sourceVars, owner, field, processor, beat, keyVars, app, wire, history, troubles>>

List(t) ==
    /\ at[t] = "listing" /\ registered' = TRUE
    /\ HandlersReturn(t)
    /\ UNCHANGED <<linkVars, sourceVars, field, last, connected, timer, late, beat, keys, bound,
                   app, wire, history, troubles>>

\* UnSubscribe.
Unlist ==
    /\ at["receiver"] = "idle"
    /\ Go("application", "idle", "unlisted")
    /\ registered' = FALSE
    /\ overlapped' = (overlapped \/ \E u \in Threads \ {"application"} : Changing(u))
    /\ Trouble
    /\ UNCHANGED <<linkVars, sourceVars, owner, field, processor, beat, keys, bound, app, wire, asked, excused>>

LookForNone ==
    /\ Go("application", "unlisted", IF ~registered THEN "unbinding" ELSE "idle")
    /\ UNCHANGED <<linkVars, sourceVars, owner, field, processor, beat, keyVars, app, wire, history, troubles>>

Unbind ==
    /\ Go("application", "unbinding", "idle")
    /\ \/ ~field /\ bound' = bound
       \/ field /\ Released /\ bound' = FALSE
    /\ UNCHANGED <<linkVars, sourceVars, owner, field, processor, beat, registered, keys, app, wire, history, troubles>>

-----------------------------------------------------------------------------
Owner == Start \/ ConstructTransport \/ Assign \/ Stop \/ DisposeTransport

TransportConnects == LinkConnects \/ LinkFails
TransportConfigures == ReadKeys \/ BindKeys \/ LinkIsConfigured

Subscribes(t) == Look(t) \/ Bind(t) \/ Enter(t) \/ List(t)

Receiver ==
    \/ Consume \/ HearLater \/ HearEarlier \/ Ask \/ Tell \/ HandlerThrows \/ Recover \/ ArmTimer
    \/ TellGone("receiver") \/ GoneHandlerThrows("receiver") \/ Subscribes("receiver")

Resetter == TellGone("resetter") \/ GoneHandlerThrows("resetter") \/ Subscribes("resetter")

Application == Subscribes("application") \/ LookForNone \/ Unbind

Next ==
    \/ Owner
    \/ TransportConnects \/ TransportConfigures \/ LinkReconnects \/ LinkDrops \/ LinkForgets
    \/ SourceChanges \/ Publish
    \/ Receiver \/ Elapse \/ TimeOut \/ Resetter
    \/ Watch \/ Subscribe \/ Unlist \/ Application

Spec == Init /\ [][Next]_vars

FairSpec ==
    /\ Spec
    /\ WF_vars(ConstructTransport \/ Assign \/ DisposeTransport)
    /\ WF_vars(TransportConnects) /\ WF_vars(TransportConfigures)
    /\ WF_vars(LinkReconnects /\ link = "down" /\ ~gone)
    /\ WF_vars(Publish) /\ WF_vars(Receiver) /\ WF_vars(Resetter) /\ WF_vars(Application)
    /\ WF_vars(Elapse) /\ WF_vars(TimeOut)

-----------------------------------------------------------------------------
\* The receiver waits for the lock under which a handler waits for the list of
\* handlers, which the receiver holds (EventSubscriptionManager.cs:51 and
\* HeartbeatEventProcessor.cs:81, against EventSubscriptionManager.cs:13 under
\* HeartbeatEventProcessor.cs:21, 26 or 58).  A handler that subscribes (or
\* unsubscribes) on any thread but the receiver's can bring this about: when it is
\* registered, when a time-out tells it that the service is gone, or when Stop does.
Stuck == at["receiver"] = "heard" /\ \E t \in Threads : hb = t /\ at[t] = "entering"

\* Whoever watches the service was told what IsConnectedToService says, whatever
\* order heartbeats, time-outs and handlers that throw come in, as soon as no
\* handler runs: nobody is left to think that a service is gone which is there, and
\* nobody to think that it is there when it is gone, unless a handler threw when
\* they were about to be told that (HeartbeatEventProcessor.cs:58), which the reset
\* of the catch (100) does not make up for.
ToldTheTruth ==
    watching = "yes" /\ hb = None /\ at["receiver"] \notin {"recovering", "leaving"} =>
        told = (connected \/ skipped)

\* A service that is taken for connected was asked for its status since it was
\* started: a restart shows in the heartbeats, however short, unless one of
\* them was lost or the link was not there for the question.
AskedTheServiceThatRuns ==
    connected /\ at["receiver"] = "idle" /\ wire = <<>> /\ count > 0 => asked \/ excused

\* While the link is up, events the application subscribed to are bound, after
\* however many reconnections and unless calls overlapped: Subscribe and
\* UnSubscribe look at the list, the broker and the list again with no lock
\* around them (StatePipesProxyInternal.cs:42-44, 53-55), and ConfigureBuses
\* reads the list before it binds (101-103).
BoundUnlessOverlapped ==
    link = "up" /\ field /\ registered /\ (\A t \in Threads : ~Changing(t)) => bound \/ overlapped

\* The proxy ends up knowing: a service that is gone for good is taken for gone,
\* one that stays is taken for connected and never again for gone, whatever
\* happened before, unless the receiver is stuck.
StatusSettles ==
    /\ <>[]~up => <>[](~connected \/ Stuck)
    /\ <>[](up /\ owner = "running") => <>[](connected \/ Stuck)
=============================================================================
