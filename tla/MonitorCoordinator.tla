-------------------------- MODULE MonitorCoordinator --------------------------
(***************************************************************************)
(* The monitors of StatePipes.OpcUaBridge.  MonitorCoordinator.cs owns them  *)
(* and handles Monitor and Delete commands, new and lost OPC UA sessions,    *)
(* reply-to checks and expiry one at a time from one queue.                  *)
(* MonitorRegistry.cs keeps the definitions and writes every change to       *)
(* MonitorStore.cs's file, which a restarted bridge loads again.             *)
(* OpcUaMonitorManager.cs turns definitions into monitored items of one      *)
(* session, ServiceWorker.cs announces sessions, OpcUaBridgeService.cs       *)
(* routes commands.                                                          *)
(*                                                                           *)
(* A handler's step up to its first await is its Take action; what follows   *)
(* an await is an action of its own, so everything outside the queue (the    *)
(* OPC UA link, the clients' response exchanges, notifications, a crash)     *)
(* interleaves there.                                                        *)
(***************************************************************************)
EXTENDS Naturals, Sequences, FiniteSets

CONSTANTS
    Clients,     \* sender command exchanges
    Items,       \* NodeIds of data items
    Params,      \* monitoring parameters
    IntervalOf,  \* [Params -> ...]: the publishing interval among them
    Replies,     \* reply-tos
    ReplyOwner,  \* [Replies -> Clients]
    Catalogs,    \* what a discovery may find: sets of Items
    BaseOf,      \* [Items -> ...]: the sanitized name, not always unique
    Rank,        \* [Items -> Nat]: the order of the NodeId texts
    Absent,      \* no definition, monitored item, name, job or notification
    \* Bounds.
    MaxSends,    \* commands sent
    MaxSessions, \* OPC UA sessions
    MaxRestarts, \* crashes and restarts of the bridge
    MaxFaults,   \* failed file writes and failed reply-to checks
    MaxClock,    \* expiry periods that pass
    MaxNotices,  \* notifications
    MaxQueue     \* work in the queue when a timer adds a check

Keys == Clients \X Items
NoSession == 0
Names == [base : {BaseOf[i] : i \in Items}, suffix : 1 .. Cardinality(Items)]
Definitions == [params : Params, reply : Replies, since : 0 .. MaxClock + 1]
Live == MaxClock + 1   \* SuspendedSince is null

ASSUME BridgeAssumption ==
    /\ IsFiniteSet(Items)
    /\ Rank \in [Items -> Nat]
    /\ \A i, j \in Items : Rank[i] = Rank[j] => i = j
    /\ ReplyOwner \in [Replies -> Clients]
    /\ Catalogs \subseteq SUBSET Items
    /\ {MaxSends, MaxSessions, MaxRestarts, MaxFaults, MaxClock, MaxNotices, MaxQueue} \subseteq Nat

VARIABLES
    \* MonitorRegistry and MonitorStore.
    registry,  \* _monitors: [Keys -> Definitions or Absent]
    disk,      \* the file's content, which outlives the process
    \* MonitorCoordinator.
    work,      \* _work: the channel, oldest first
    job,       \* the work whose handler awaits, with what it has left to do
    session,   \* _session: the number of the session it was given, or NoSession
    catalog,   \* _catalog: the items of the last SessionStart
    names,     \* _namesSeen: [Items -> Names or Absent]
    notice,    \* the notification OnNotification looked up but has not sent
    \* OpcUaBridgeService and ServiceWorker.
    exposed,   \* the items clients can name in a command
    routed,    \* Monitor and Delete commands waiting in the command queue
    stage,     \* where MaintainOpcUaSessionAsync stands
    \* The OPC UA server, the clients and time.
    link,      \* the number of the session that is up, or NoSession
    entries,   \* the monitored items of that session
    alive,     \* reply-tos whose response exchange exists
    clock,     \* expiry periods passed
    \* History.
    told,      \* [Keys -> the last status sent, "None" while a command is handled;
               \* "Thrown" is a Pending sent for an exception while the session is up]
    published, \* [Items -> the last name the item was exposed under]
    leaked,    \* keys whose item the server would not remove or disable
    lapsed,    \* keys whose reply-to vanished after their last Monitor command
    saveFailed, \* the last write of the file failed
    forgot,    \* the bridge restarted from a file that missed a change
    used       \* how much of each bound is used up

stored == <<registry, disk, saveFailed>>
coordinator == <<work, job, session, catalog, names>>
bridge == <<exposed, routed, stage>>
server == <<link, entries, leaked>>
clients == <<alive, lapsed>>
vars == <<stored, coordinator, bridge, server, clients, notice, clock, told, published, forgot, used>>

-----------------------------------------------------------------------------
Stored(k) == registry[k] # Absent
IsLive(k) == Stored(k) /\ registry[k].since = Live
Suspended(k) == Stored(k) /\ registry[k].since # Live
Connected == session # NoSession /\ session = link
Spend(budget, limit) == used[budget] < limit /\ used' = [used EXCEPT ![budget] = @ + 1]

\* Names are assigned in the order of the NodeId texts; of the items that share
\* a sanitized name the first keeps it and the others get a numeric suffix.
AssignUniqueNames(S) ==
    [i \in S |-> [base |-> BaseOf[i],
                  suffix |-> Cardinality({j \in S : BaseOf[j] = BaseOf[i] /\ Rank[j] <= Rank[i]})]]
\* The names an item was last seen with, or the ones it would get on its own.
NamesFor(i) == IF names[i] # Absent THEN names[i] ELSE [base |-> BaseOf[i], suffix |-> 1]

Init ==
    /\ registry = [k \in Keys |-> Absent] /\ disk = registry
    /\ work = <<>> /\ job = Absent /\ session = NoSession /\ catalog = {}
    /\ names = [i \in Items |-> Absent] /\ notice = Absent
    /\ exposed = {} /\ routed = <<>> /\ stage = "down"
    /\ link = NoSession /\ entries = [k \in Keys |-> Absent]
    /\ alive = Replies /\ clock = 0
    /\ told = [k \in Keys |-> "None"] /\ published = [i \in Items |-> Absent]
    /\ leaked = {} /\ lapsed = {} /\ saveFailed = FALSE /\ forgot = FALSE
    /\ used = [sends |-> 0, sessions |-> 0, restarts |-> 0, faults |-> 0, notices |-> 0]

-----------------------------------------------------------------------------
(* MonitorRegistry and MonitorStore.                                         *)

\* Save: the whole file is written anew, or the write fails and is only logged.
Save(monitors) ==
    /\ registry' = monitors
    /\ \/ disk' = monitors /\ saveFailed' = FALSE /\ UNCHANGED used
       \/ Spend("faults", MaxFaults) /\ saveFailed' = TRUE /\ UNCHANGED disk

\* Mutants: a Monitor command changes memory only, or not the reply-to.
UpsertUnsaved(k, definition) ==
    registry' = [registry EXCEPT ![k] = definition] /\ UNCHANGED <<disk, saveFailed, used>>
UpsertKeepingReplyTo(k, definition) ==
    Save([registry EXCEPT ![k] = IF Stored(k) THEN [definition EXCEPT !.reply = registry[k].reply] ELSE definition])

Upsert(k, definition) == Save([registry EXCEPT ![k] = definition])
Remove(k) == Save([registry EXCEPT ![k] = Absent])
\* Mutant: an off-by-one in the time of suspension.
SuspendEarlier(k) == Save([registry EXCEPT ![k].since = clock - 1])
Suspend(k) == Save([registry EXCEPT ![k].since = clock])

Overdue(monitors) == {k \in Keys : monitors[k] # Absent /\ monitors[k].since < clock}
Unexpired(monitors) == [k \in Keys |-> IF k \in Overdue(monitors) THEN Absent ELSE monitors[k]]
\* What an expired monitor's client was told no longer binds the bridge.
RemoveExpired ==
    /\ told' = [k \in Keys |-> IF k \in Overdue(registry) THEN "None" ELSE told[k]]
    /\ IF Overdue(registry) = {} THEN UNCHANGED <<stored, used>> ELSE Save(Unexpired(registry))

-----------------------------------------------------------------------------
(* Clients, time and the OPC UA server.                                      *)

\* ConsumeCommand finds the item under the command's name in what is exposed.
RouteMonitor(r, i, p) ==
    /\ Spend("sends", MaxSends)
    /\ r \in alive /\ i \in exposed
    /\ routed' = Append(routed, [kind |-> "Monitor", key |-> <<ReplyOwner[r], i>>, params |-> p,
                                 reply |-> r, name |-> AssignUniqueNames(exposed)[i]])
    /\ UNCHANGED <<stored, coordinator, exposed, stage, server, clients, notice, clock, told, published, forgot>>

RouteDelete(r, n) ==
    /\ Spend("sends", MaxSends)
    /\ r \in alive
    /\ \/ \E i \in exposed :
            /\ AssignUniqueNames(exposed)[i] = n
            /\ routed' = Append(routed, [kind |-> "Delete", key |-> <<ReplyOwner[r], i>>, name |-> n])
       \/ /\ \A i \in exposed : AssignUniqueNames(exposed)[i] # n
          /\ routed' = Append(routed, [kind |-> "DeleteUnlisted", sender |-> ReplyOwner[r], name |-> n])
    /\ UNCHANGED <<stored, coordinator, exposed, stage, server, clients, notice, clock, told, published, forgot>>

Vanish(r) ==
    /\ r \in alive
    /\ alive' = alive \ {r}
    /\ lapsed' = lapsed \cup {k \in Keys : Stored(k) /\ registry[k].reply = r}
    /\ UNCHANGED <<stored, coordinator, bridge, server, notice, clock, told, published, forgot, used>>

Reappear(r) ==
    /\ r \notin alive
    /\ alive' = alive \cup {r}
    /\ UNCHANGED <<stored, coordinator, bridge, server, lapsed, notice, clock, told, published, forgot, used>>

ExpiryPeriodPasses ==
    /\ clock < MaxClock
    /\ clock' = clock + 1
    /\ UNCHANGED <<stored, coordinator, bridge, server, clients, notice, told, published, forgot, used>>

LinkLost ==
    /\ link # NoSession
    /\ link' = NoSession
    /\ entries' = [k \in Keys |-> Absent] /\ leaked' = {}
    /\ UNCHANGED <<stored, coordinator, bridge, clients, notice, clock, told, published, forgot, used>>

-----------------------------------------------------------------------------
(* ServiceWorker.MaintainOpcUaSessionAsync.                                  *)

Queued(kind) == \E n \in DOMAIN work : work[n].kind = kind
Enqueue(item) == work' = Append(work, item) /\ UNCHANGED <<job, session, catalog, names>>

\* ConnectAsync, DiscoverAsync and SetCatalog.
Discover(S) ==
    /\ stage = "down"
    /\ Spend("sessions", MaxSessions)
    /\ link' = used'.sessions
    /\ entries' = [k \in Keys |-> Absent] /\ leaked' = {}
    /\ exposed' = S
    /\ published' = [i \in Items |-> IF i \in S THEN AssignUniqueNames(S)[i] ELSE published[i]]
    /\ stage' = "discovered"
    /\ UNCHANGED <<stored, coordinator, routed, clients, notice, clock, told, forgot>>

\* CreateMonitorManager throws when the session is gone already.
Announce ==
    /\ stage = "discovered"
    /\ IF link # NoSession
       THEN /\ Enqueue([kind |-> "SessionStart", session |-> link, items |-> exposed])
            /\ stage' = "watching"
       ELSE /\ Enqueue([kind |-> "SessionEnd"])
            /\ stage' = "down"
    /\ UNCHANGED <<stored, exposed, routed, server, clients, notice, clock, told, published, forgot, used>>

\* (A connection attempt that fails after this queues another SessionEnd, which
\* finds no session to end.)
NoticeLost ==
    /\ stage = "watching" /\ link = NoSession
    /\ Enqueue([kind |-> "SessionEnd"])
    /\ stage' = "down"
    /\ UNCHANGED <<stored, exposed, routed, server, clients, notice, clock, told, published, forgot, used>>

-----------------------------------------------------------------------------
(* The queue.                                                                *)

Commands == {"Monitor", "Delete", "DeleteUnlisted"}

\* The command queue hands a command over and waits for it before the next.
HandOver ==
    /\ routed # <<>>
    /\ ~(job # Absent /\ job.kind \in Commands)
    /\ \A n \in DOMAIN work : work[n].kind \notin Commands
    /\ Enqueue(Head(routed))
    /\ routed' = Tail(routed)
    /\ UNCHANGED <<stored, exposed, stage, server, clients, notice, clock, told, published, forgot, used>>

\* Every 30 seconds, and when a response finds its channel closed; every hour.
\* One check waiting is as good as many.
EnqueueCheck(kind) ==
    /\ ~Queued(kind) /\ Len(work) < MaxQueue
    /\ Enqueue([kind |-> kind])
    /\ UNCHANGED <<stored, bridge, server, clients, notice, clock, told, published, forgot, used>>

Take(kind) ==
    /\ job = Absent /\ work # <<>> /\ Head(work).kind = kind
    /\ work' = Tail(work)

Remember(i, n) == names' = [names EXCEPT ![i] = n]

-----------------------------------------------------------------------------
(* The handlers.                                                             *)

Answer(k, status) == told' = [told EXCEPT ![k] = status] /\ job' = Absent

\* RemoveItem is local, so a request to the server that fails leaks its item.
MayLeak(k) == leaked' \in {leaked, leaked \cup {k}}

TakeMonitor ==
    /\ Take("Monitor")
    /\ LET w == Head(work)
       IN  /\ Remember(w.key[2], w.name)
           /\ Upsert(w.key, [params |-> w.params, reply |-> w.reply, since |-> Live])
           /\ lapsed' = IF w.reply \in alive THEN lapsed \ {w.key} ELSE lapsed \cup {w.key}
           /\ told' = [told EXCEPT ![w.key] = "None"]
           /\ job' = [kind |-> "Monitor", key |-> w.key]
    /\ UNCHANGED <<session, catalog, bridge, server, alive, notice, clock, published, forgot>>

\* OpcUaMonitorManager.ApplyAsync modifies an item of the same interval and
\* creates it anew otherwise.
Modifies(k) ==
    /\ entries[k] # Absent
    /\ IntervalOf[entries[k].params] = IntervalOf[registry[k].params]

\* Mutant: a modified item stays disabled.
ApplyKeepingMode(k) ==
    /\ Connected
    /\ entries' = [entries EXCEPT ![k] = [params |-> registry[k].params,
                                         reporting |-> entries[k] = Absent \/ entries[k].reporting]]
    /\ IF Modifies(k) \/ entries[k] = Absent THEN UNCHANGED leaked ELSE MayLeak(k)
    /\ Answer(k, "Active")

ApplyAccepted(k) ==
    /\ Connected
    /\ entries' = [entries EXCEPT ![k] = [params |-> registry[k].params, reporting |-> TRUE]]
    /\ IF Modifies(k) \/ entries[k] = Absent THEN UNCHANGED leaked ELSE MayLeak(k)
    /\ Answer(k, "Active")

\* What a call that fails leaves: a modified item may have none, some or all of
\* its changes, one created anew is not recorded but may stay at the server.
Disturb(k) ==
    IF Modifies(k)
    THEN /\ entries' \in {entries,
                          [entries EXCEPT ![k].params = registry[k].params],
                          [entries EXCEPT ![k] = [params |-> registry[k].params, reporting |-> TRUE]]}
         /\ UNCHANGED leaked
    ELSE entries' = [entries EXCEPT ![k] = Absent] /\ MayLeak(k)

\* Mutant: a request that fails is Pending whether or not the session is up.
CallFailedPending(up) == "Pending"

\* What a request that fails with a ServiceResultException is called.
CallFailed(up) == IF up THEN "Failed" ELSE "Pending"

\* The server refuses the item, or the whole request fails.
Refusals(up) == {"Failed", CallFailed(up)}

ApplyRefused(k) ==
    /\ Connected
    /\ Disturb(k)
    /\ \E status \in Refusals(TRUE) : Answer(k, status)

\* Any other exception passes through OpcUaMonitorManager and is answered
\* Pending by ApplyAsync although the session is up.
ApplyThrows(k) ==
    /\ Connected
    /\ Disturb(k)
    /\ Answer(k, "Thrown")

\* Without a session the next one applies the monitor; a session that has gone
\* fails the call, and whether it knows that it has gone decides what it says.
ApplyOffline(k) ==
    /\ ~Connected
    /\ \/ Answer(k, "Pending")
       \/ session # NoSession /\ \E up \in BOOLEAN : Answer(k, CallFailed(up))
    /\ UNCHANGED <<entries, leaked>>

FinishMonitor ==
    /\ job # Absent /\ job.kind = "Monitor"
    /\ \/ ApplyAccepted(job.key) \/ ApplyRefused(job.key)
       \/ ApplyThrows(job.key) \/ ApplyOffline(job.key)
    /\ UNCHANGED <<stored, work, session, catalog, names, bridge, link, clients, notice, clock, published, forgot, used>>

StartDelete(k) ==
    /\ Remove(k)
    /\ told' = [told EXCEPT ![k] = "None"]
    /\ job' = [kind |-> "Delete", key |-> k]

TakeDelete ==
    /\ Take("Delete")
    /\ LET w == Head(work)
       IN  /\ Remember(w.key[2], w.name)
           /\ \/ Stored(w.key) /\ StartDelete(w.key)
              \/ ~Stored(w.key) /\ Answer(w.key, "NotFound") /\ UNCHANGED <<stored, used>>
    /\ UNCHANGED <<session, catalog, bridge, server, clients, notice, clock, published, forgot>>

\* The first of the sender's monitors whose item goes by the name.
TakeDeleteUnlisted ==
    /\ Take("DeleteUnlisted")
    /\ LET w == Head(work)
           matching == {k \in Keys : Stored(k) /\ k[1] = w.sender /\ NamesFor(k[2]) = w.name}
       IN  \/ \E k \in matching : StartDelete(k)
           \/ matching = {} /\ UNCHANGED <<stored, told, job, used>>
    /\ UNCHANGED <<session, catalog, names, bridge, server, clients, notice, clock, published, forgot>>

\* RemoveFromSessionAsync.
RemoveFromSession(k) ==
    IF Connected /\ entries[k] # Absent
    THEN entries' = [entries EXCEPT ![k] = Absent] /\ MayLeak(k)
    ELSE UNCHANGED <<entries, leaked>>

FinishDelete ==
    /\ job # Absent /\ job.kind = "Delete"
    /\ RemoveFromSession(job.key)
    /\ Answer(job.key, "Deleted")
    /\ UNCHANGED <<stored, work, session, catalog, names, bridge, link, clients, notice, clock, published, forgot, used>>

\* EndSessionAsync: the old session's subscriptions are removed with it.
EndSession ==
    IF Connected THEN entries' = [k \in Keys |-> Absent] ELSE UNCHANGED entries

TakeSessionStart ==
    /\ Take("SessionStart")
    /\ EndSession
    /\ session' = Head(work).session
    /\ catalog' = Head(work).items
    /\ names' = [i \in Items |-> IF i \in catalog' THEN AssignUniqueNames(catalog')[i] ELSE names[i]]
    /\ RemoveExpired
    /\ job' = [kind |-> "SessionStart"]
    /\ UNCHANGED <<bridge, link, leaked, clients, notice, clock, published, forgot>>

\* Mutant: suspended monitors are rebuilt too.
RebuildableSuspended == {k \in Keys : Stored(k) /\ k[2] \in catalog}

Rebuildable == {k \in Keys : IsLive(k) /\ k[2] \in catalog}

\* A session that goes down during the calls leaves some applied, some refused and
\* the rest pending.
Results == {"Active"} \cup Refusals(Connected)

\* An exception that is no ServiceResultException makes all Pending, also those just
\* created.
AllThrown == [k \in Rebuildable |-> IF Connected THEN "Thrown" ELSE "Pending"]

\* ApplyAllAsync and the statuses.
FinishSessionStart ==
    /\ job # Absent /\ job.kind = "SessionStart"
    /\ job' = Absent
    /\ \E result \in [Rebuildable -> Results] \cup {AllThrown}, made, left \in SUBSET Rebuildable :
          /\ result # AllThrown => made = {k \in Rebuildable : result[k] = "Active"}
          /\ left \cap made = {}
          /\ told' = [k \in Keys |-> CASE k \in Rebuildable -> result[k]
                                       [] IsLive(k) /\ k[2] \notin catalog -> "Failed"
                                       [] OTHER -> told[k]]
          /\ entries' = [k \in Keys |->
                IF Connected /\ k \in made
                THEN [params |-> registry[k].params, reporting |-> TRUE]
                ELSE entries[k]]
          /\ leaked' = IF Connected THEN leaked \cup left ELSE leaked
    /\ UNCHANGED <<stored, work, session, catalog, names, bridge, link, clients, notice, clock, published, forgot, used>>

TakeSessionEnd ==
    /\ Take("SessionEnd")
    /\ EndSession
    /\ session' = NoSession
    /\ UNCHANGED <<stored, job, catalog, names, bridge, link, leaked, clients, notice, clock, told, published, forgot, used>>

\* The checks go through what the registry held when they started: reply-tos to
\* look for, monitors of one that is gone, monitors that have expired.
Continue(kind, todo, doomed) ==
    job' = IF todo = {} /\ doomed = {} THEN Absent
           ELSE [kind |-> kind, todo |-> todo, doomed |-> doomed]

TakeReplyToCheck ==
    /\ Take("ReplyToCheck")
    /\ Continue("ReplyToCheck", {registry[k].reply : k \in {l \in Keys : IsLive(l)}}, {})
    /\ UNCHANGED <<stored, session, catalog, names, bridge, server, clients, notice, clock, told, published, forgot, used>>

CheckReplyTo(r) ==
    /\ job # Absent /\ job.kind = "ReplyToCheck"
    /\ r \in job.todo /\ job.doomed = {}
    /\ \/ r \in alive /\ Continue(job.kind, job.todo \ {r}, {}) /\ UNCHANGED used
       \/ Continue(job.kind, job.todo \ {r}, {}) /\ Spend("faults", MaxFaults)
       \/ /\ r \notin alive
          /\ Continue(job.kind, job.todo \ {r}, {k \in Keys : IsLive(k) /\ registry[k].reply = r})
          /\ UNCHANGED used
    /\ UNCHANGED <<stored, work, session, catalog, names, bridge, server, clients, notice, clock, told, published, forgot>>

\* Mutant: a monitor the server would not disable is not suspended.
SuspendNextDisabled(k) ==
    /\ job # Absent /\ job.kind = "ReplyToCheck" /\ k \in job.doomed
    /\ \/ /\ Connected /\ entries[k] # Absent
          /\ entries' = [entries EXCEPT ![k].reporting = FALSE]
          /\ UNCHANGED leaked
          /\ Suspend(k)
       \/ UNCHANGED <<entries, leaked, stored, used>>
    /\ Continue(job.kind, job.todo, job.doomed \ {k})
    /\ UNCHANGED <<work, session, catalog, names, bridge, link, clients, notice, clock, told, published, forgot>>

\* DisableAsync may fail at the server; the monitor is suspended all the same.
SuspendNext(k) ==
    /\ job # Absent /\ job.kind = "ReplyToCheck" /\ k \in job.doomed
    /\ \/ /\ Connected /\ entries[k] # Absent
          /\ entries' = [entries EXCEPT ![k].reporting = FALSE]
          /\ UNCHANGED leaked
       \/ /\ UNCHANGED entries
          /\ leaked' = IF Connected /\ entries[k] # Absent THEN leaked \cup {k} ELSE leaked
    /\ Suspend(k)
    /\ Continue(job.kind, job.todo, job.doomed \ {k})
    /\ UNCHANGED <<work, session, catalog, names, bridge, link, clients, notice, clock, told, published, forgot>>

TakeExpiryCheck ==
    /\ Take("ExpiryCheck")
    /\ RemoveExpired
    /\ Continue("ExpiryCheck", {}, Overdue(registry))
    /\ UNCHANGED <<session, catalog, names, bridge, server, clients, notice, clock, published, forgot>>

RemoveExpiredItem(k) ==
    /\ job # Absent /\ job.kind = "ExpiryCheck" /\ k \in job.doomed
    /\ RemoveFromSession(k)
    /\ Continue(job.kind, {}, job.doomed \ {k})
    /\ UNCHANGED <<stored, work, session, catalog, names, bridge, link, clients, notice, clock, told, published, forgot, used>>

-----------------------------------------------------------------------------
(* OnNotification, on the OPC UA stack's thread.  An item that was left behind *)
(* may notify as well.                                                       *)

LookUpNotification(k) ==
    /\ notice = Absent
    /\ k \in leaked \/ (entries[k] # Absent /\ entries[k].reporting)
    /\ IsLive(k) /\ k[2] \in catalog
    /\ Spend("notices", MaxNotices)
    /\ notice' = [key |-> k, reply |-> registry[k].reply]
    /\ UNCHANGED <<stored, coordinator, bridge, server, clients, clock, told, published, forgot>>

SendNotification ==
    /\ notice # Absent
    /\ notice' = Absent
    /\ UNCHANGED <<stored, coordinator, bridge, server, clients, clock, told, published, forgot, used>>

\* The process ends, in whatever step it was, and a new one loads the file.
Restart ==
    /\ used.restarts < MaxRestarts
    /\ registry' = Unexpired(disk)
    /\ \/ /\ disk' = registry'
          /\ used' = [used EXCEPT !.restarts = @ + 1]
          /\ saveFailed' = FALSE
       \/ /\ Overdue(disk) # {} /\ used.faults < MaxFaults
          /\ used' = [used EXCEPT !.restarts = @ + 1, !.faults = @ + 1]
          /\ saveFailed' = TRUE
          /\ UNCHANGED disk
    /\ forgot' = (forgot \/ saveFailed)
    /\ told' = [k \in Keys |-> IF k \in Overdue(disk) THEN "None" ELSE told[k]]
    /\ work' = <<>> /\ job' = Absent /\ session' = NoSession /\ catalog' = {}
    /\ names' = [i \in Items |-> Absent] /\ notice' = Absent
    /\ exposed' = {} /\ routed' = <<>> /\ stage' = "down"
    /\ link' = NoSession /\ entries' = [k \in Keys |-> Absent] /\ leaked' = {}
    /\ UNCHANGED <<clients, clock, published>>

-----------------------------------------------------------------------------
Reader ==
    \/ TakeMonitor \/ FinishMonitor
    \/ TakeDelete \/ TakeDeleteUnlisted \/ FinishDelete
    \/ TakeSessionStart \/ FinishSessionStart \/ TakeSessionEnd
    \/ TakeReplyToCheck \/ \E r \in Replies : CheckReplyTo(r)
    \/ TakeExpiryCheck
    \/ \E k \in Keys : SuspendNext(k) \/ RemoveExpiredItem(k)

Environment ==
    \/ \E r \in Replies, i \in Items, p \in Params : RouteMonitor(r, i, p)
    \/ \E r \in Replies, n \in Names : RouteDelete(r, n)
    \/ \E r \in Replies : Vanish(r) \/ Reappear(r)
    \/ ExpiryPeriodPasses
    \/ LinkLost
    \/ \E S \in Catalogs : Discover(S)

Next ==
    \/ Reader
    \/ Environment
    \/ Announce
    \/ NoticeLost
    \/ HandOver
    \/ EnqueueCheck("ReplyToCheck")
    \/ EnqueueCheck("ExpiryCheck")
    \/ \E k \in Keys : LookUpNotification(k)
    \/ SendNotification
    \/ Restart

Spec == Init /\ [][Next]_vars

\* The reader, the command queue and the session loop are tasks the runtime
\* keeps scheduling, and the reply-to check runs on a timer (strongly fair only
\* because MaxQueue makes it wait for room).  Clients, links and discoveries
\* promise nothing.
FairSpec ==
    /\ Spec
    /\ WF_vars(Reader)
    /\ WF_vars(HandOver)
    /\ WF_vars(Announce \/ NoticeLost)
    /\ SF_vars(EnqueueCheck("ReplyToCheck"))

-----------------------------------------------------------------------------
(* Properties.                                                               *)

Requests ==
    [kind : {"Monitor"}, key : Keys, params : Params, reply : Replies, name : Names]
        \cup [kind : {"Delete"}, key : Keys, name : Names]
        \cup [kind : {"DeleteUnlisted"}, sender : Clients, name : Names]
Work ==
    Requests
        \cup [kind : {"SessionStart"}, session : 1 .. MaxSessions, items : Catalogs]
        \cup [kind : {"SessionEnd", "ReplyToCheck", "ExpiryCheck"}]
Jobs ==
    [kind : {"Monitor", "Delete"}, key : Keys]
        \cup [kind : {"SessionStart"}]
        \cup [kind : {"ReplyToCheck", "ExpiryCheck"}, todo : SUBSET Replies, doomed : SUBSET Keys]
Entries == [params : Params, reporting : BOOLEAN]
Notices == [key : Keys, reply : Replies]
ASSUME AbsentAssumption == Absent \notin Names \cup Definitions \cup Entries \cup Jobs \cup Notices
Statuses == {"None", "Pending", "Thrown", "Active", "Failed", "Deleted", "NotFound"}

TypeOK ==
    /\ registry \in [Keys -> Definitions \cup {Absent}]
    /\ disk \in [Keys -> Definitions \cup {Absent}]
    /\ work \in Seq(Work) /\ job \in Jobs \cup {Absent}
    /\ session \in 0 .. MaxSessions /\ link \in 0 .. MaxSessions
    /\ catalog \subseteq Items /\ exposed \subseteq Items
    /\ names \in [Items -> Names \cup {Absent}] /\ published \in [Items -> Names \cup {Absent}]
    /\ notice \in Notices \cup {Absent}
    /\ routed \in Seq(Requests)
    /\ stage \in {"down", "discovered", "watching"}
    /\ entries \in [Keys -> Entries \cup {Absent}]
    /\ alive \subseteq Replies /\ clock \in 0 .. MaxClock
    /\ told \in [Keys -> Statuses]
    /\ leaked \subseteq Keys /\ lapsed \subseteq Keys
    /\ saveFailed \in BOOLEAN /\ forgot \in BOOLEAN
    /\ used \in [{"sends", "sessions", "restarts", "faults", "notices"} -> Nat]

\* Once a handler is done and the session it used is up, a live monitor whose
\* last status is Active is monitored with the parameters of the last Monitor
\* command and reports, whatever rebuilds, suspensions, refused updates and
\* restarts lie between.
ActiveIsMonitored ==
    job = Absent /\ Connected =>
        \A k \in Keys : IsLive(k) /\ told[k] = "Active" =>
            entries[k] = [params |-> registry[k].params, reporting |-> TRUE]

\* Once a handler is done, the session holds no item of a deleted or expired
\* monitor and no reporting item of a suspended one, except where the server
\* refused to let go of it.
NothingMonitoredUnasked ==
    job = Absent /\ Connected =>
        \A k \in Keys \ leaked : entries[k] # Absent =>
            Stored(k) /\ (entries[k].reporting => IsLive(k))

\* What the bridge told a client about its monitor is in the file: a monitor
\* answered Active, Pending or Failed survives a crash at any moment, one
\* answered Deleted does not come back.  A failed write suspends the promise
\* until the next write, and a restart on such a file ends it.
PromisesAreDurable ==
    ~saveFailed /\ ~forgot =>
        \A k \in Keys :
            /\ told[k] \in {"Active", "Pending", "Thrown", "Failed"} => disk[k] # Absent /\ disk[k] = registry[k]
            /\ told[k] = "Deleted" => disk[k] = Absent

\* A monitor is suspended only if its own reply-to vanished after its client's
\* last Monitor command was handled, or was gone by then: a check that was
\* queued or under way when the client came back suspends nothing it reclaimed.
SuspendedOnlyIfGone == ~forgot => \A k \in Keys : Suspended(k) => k \in lapsed

\* "Pending promises the monitor is applied on the next session"
\* (OpcUaMonitorManager.cs:125): while a session is up no live monitor stays
\* Pending, however the call that was answered so raced the loss of its session
\* and the start of the next.  Pending for an unexpected exception ("Thrown")
\* promises nothing: it may be answered on a session that stays up.
PendingIsApplied ==
    \A k \in Keys : told[k] = "Pending" ~> (told[k] # "Pending" \/ link = NoSession \/ ~IsLive(k))

\* A monitor whose reply-to is gone and stays gone is suspended in the end,
\* unless its client points it elsewhere or deletes it.
GoneIsSuspended ==
    \A k \in Keys, r \in Replies :
        (IsLive(k) /\ registry[k].reply = r /\ r \notin alive)
            ~> (r \in alive \/ ~IsLive(k) \/ registry[k].reply # r)

\* "It deletes the sender's stored monitor on the item those names belong to, so
\* a monitor on an item that has left the server can still be removed"
\* (MonitorCoordinator.cs:56-57): a Delete under the last name the item was
\* published as removes the monitor.
UnlistedDeleteFinds ==
    [][\A k \in Keys :
        TakeDeleteUnlisted /\ Stored(k) /\ Head(work).sender = k[1] /\ Head(work).name = published[k[2]]
            => registry'[k] = Absent]_vars
=============================================================================
