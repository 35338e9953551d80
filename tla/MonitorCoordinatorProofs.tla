----------------------- MODULE MonitorCoordinatorProofs -----------------------
(***************************************************************************)
(* What holds of the bridge's monitors for any clients, items, parameters,    *)
(* catalogs and bounds.  The registry and its file agree unless a write       *)
(* failed; what a client was told fits the registry; what a session monitors  *)
(* fits both, but for the monitor a handler has in hand.                      *)
(***************************************************************************)
EXTENDS MonitorCoordinator, SequenceTheorems, FiniteSetTheorems, TLAPS

\* Sessions are numbered in the order they come, so none comes back.
Numbered ==
    /\ link <= used.sessions /\ session <= used.sessions /\ used.sessions <= MaxSessions
    /\ \A n \in DOMAIN work : work[n].kind = "SessionStart" => work[n].session <= used.sessions

\* A discovery found what is exposed.
Discovered == stage # "down" => exposed \in Catalogs

\* What a handler that awaits still has to do fits the registry it has changed.
Doing(kind) == job # Absent /\ job.kind = kind
InHand ==
    /\ Doing("Monitor") => IsLive(job.key)
    /\ Doing("Delete") => ~Stored(job.key)
    /\ Doing("ReplyToCheck") => \A k \in job.doomed : IsLive(k)
    /\ Doing("ExpiryCheck") => \A k \in job.doomed : ~Stored(k)

\* Only the session the coordinator knows has monitored items, and at first none.
OnlyInSession ==
    ~Connected \/ Doing("SessionStart") => \A k \in Keys : entries[k] = Absent

\* What is Active is monitored, except while a session is built up.
Monitored ==
    Connected /\ ~Doing("SessionStart") =>
        \A k \in Keys : IsLive(k) /\ told[k] = "Active" =>
            entries[k] = [params |-> registry[k].params, reporting |-> TRUE]

\* What is monitored was asked for, or is being removed.
BeingRemoved(k) ==
    \/ Doing("Delete") /\ job.key = k
    \/ Doing("ExpiryCheck") /\ k \in job.doomed
Asked ==
    \A k \in Keys \ leaked : entries[k] # Absent /\ ~BeingRemoved(k) =>
        Stored(k) /\ (entries[k].reporting => IsLive(k))

\* The file is what the registry is, and both are what clients were told.
Saved == ~saveFailed => disk = registry
Promised ==
    ~forgot => \A k \in Keys :
        /\ told[k] \in {"Active", "Pending", "Thrown", "Failed"} => Stored(k)
        /\ told[k] = "Deleted" => ~Stored(k)

\* A reply-to that is gone has lapsed for its monitors, and the reply-to check
\* suspends only those.
Lapsed ==
    ~forgot => \A k \in Keys :
        /\ Stored(k) /\ registry[k].reply \notin alive => k \in lapsed
        /\ Suspended(k) => k \in lapsed
        /\ Doing("ReplyToCheck") /\ k \in job.doomed => k \in lapsed

\* How the registry, its file, the session's items and what was told fit.
Fits == InHand /\ OnlyInSession /\ Monitored /\ Asked /\ Saved /\ Promised /\ Lapsed

IInv == TypeOK /\ Discovered /\ Numbered /\ Fits

-----------------------------------------------------------------------------
(* Types.                                                                    *)

Budgets == {"sends", "sessions", "restarts", "faults", "notices"}

LEMMA Spending ==
  ASSUME TypeOK, NEW b \in Budgets, NEW n \in Nat, Spend(b, n)
  PROVE  /\ used' \in [Budgets -> Nat] /\ used[b] < n /\ used'[b] = used[b] + 1
         /\ \A c \in Budgets : c # b => used'[c] = used[c]
  BY DEF TypeOK, Spend, Budgets

\* A write of the file, which may fail.
LEMMA Saving ==
  ASSUME TypeOK, NEW monitors \in [Keys -> Definitions \cup {Absent}], Save(monitors)
  PROVE  /\ registry' = monitors
         /\ disk' \in [Keys -> Definitions \cup {Absent}]
         /\ saveFailed' \in BOOLEAN
         /\ saveFailed' \/ disk' = registry'
         /\ used' \in [Budgets -> Nat] /\ used'.sessions = used.sessions
<1>1. CASE disk' = monitors /\ saveFailed' = FALSE /\ UNCHANGED used
  BY <1>1 DEF TypeOK, Save, Budgets
<1>2. CASE Spend("faults", MaxFaults) /\ saveFailed' = TRUE /\ UNCHANGED disk
  <2>1. MaxFaults \in Nat
    BY BridgeAssumption
  <2>2. used' \in [Budgets -> Nat] /\ used'.sessions = used.sessions
    BY <1>2, <2>1, Spending DEF Budgets
  <2> QED
    BY <1>2, <2>2 DEF TypeOK, Save
<1> QED
  BY <1>1, <1>2 DEF Save

LEMMA Expiring ==
  ASSUME TypeOK, RemoveExpired
  PROVE  /\ registry' = Unexpired(registry)
         /\ registry' \in [Keys -> Definitions \cup {Absent}]
         /\ disk' \in [Keys -> Definitions \cup {Absent}]
         /\ saveFailed' \in BOOLEAN
         /\ Saved => saveFailed' \/ disk' = registry'
         /\ used' \in [Budgets -> Nat] /\ used'.sessions = used.sessions
         /\ told' \in [Keys -> Statuses]
         /\ \A k \in Keys : told'[k] = IF k \in Overdue(registry) THEN "None" ELSE told[k]
<1>1. Unexpired(registry) \in [Keys -> Definitions \cup {Absent}]
  BY DEF TypeOK, Unexpired
<1>2. told' \in [Keys -> Statuses]
  BY DEF TypeOK, RemoveExpired, Statuses
<1>3. CASE Overdue(registry) = {}
  <2>1. Unexpired(registry) = registry
    BY <1>3 DEF TypeOK, Unexpired
  <2> QED
    BY <1>1, <1>2, <1>3, <2>1 DEF TypeOK, RemoveExpired, stored, Saved, Budgets
<1>4. CASE Overdue(registry) # {}
  <2>1. Save(Unexpired(registry))
    BY <1>4 DEF RemoveExpired
  <2> QED
    BY <1>1, <1>2, <2>1, Saving DEF RemoveExpired
<1> QED
  BY <1>3, <1>4

\* Every item exposed gets a name.
LEMMA NamesAreNames ==
  ASSUME NEW S \in SUBSET Items, NEW i \in S
  PROVE  AssignUniqueNames(S)[i] \in Names
<1> DEFINE before == {j \in S : BaseOf[j] = BaseOf[i] /\ Rank[j] <= Rank[i]}
<1>1. i \in before /\ before \subseteq Items
  BY BridgeAssumption
<1>2. IsFiniteSet(Items) /\ IsFiniteSet(before)
  BY <1>1, BridgeAssumption, FS_Subset
<1>3. /\ Cardinality(Items) \in Nat /\ Cardinality(before) \in Nat
      /\ Cardinality(before) <= Cardinality(Items)
  BY <1>1, <1>2, FS_CardinalityType, FS_Subset
<1>4. Cardinality(before) # 0
  BY <1>1, <1>2, FS_EmptySet
<1>5. Cardinality(before) \in 1 .. Cardinality(Items)
  BY <1>3, <1>4
<1>6. AssignUniqueNames(S)[i] = [base |-> BaseOf[i], suffix |-> Cardinality(before)]
  BY DEF AssignUniqueNames
<1> QED
  BY <1>5, <1>6 DEF Names

USE DEF stored, coordinator, bridge, server, clients

LEMMA Bounds ==
  /\ MaxSends \in Nat /\ MaxSessions \in Nat /\ MaxFaults \in Nat /\ MaxClock \in Nat
  /\ MaxNotices \in Nat /\ Live \in Nat /\ Live > MaxClock
  BY BridgeAssumption DEF Live

LEMMA TypesOfEnvironment == ASSUME TypeOK, Environment PROVE TypeOK'
<1>1. ASSUME NEW r \in Replies, NEW i \in Items, NEW p \in Params, RouteMonitor(r, i, p)
      PROVE  TypeOK'
  <2>1. used' \in [Budgets -> Nat]
    BY <1>1, Bounds, Spending DEF RouteMonitor, Budgets
  <2>2. AssignUniqueNames(exposed)[i] \in Names
    BY <1>1, NamesAreNames DEF TypeOK, RouteMonitor
  <2>3. ReplyOwner[r] \in Clients
    BY BridgeAssumption
  <2>4. routed' \in Seq(Requests)
    BY <1>1, <2>2, <2>3 DEF TypeOK, RouteMonitor, Requests, Keys
  <2> QED
    BY <1>1, <2>1, <2>4 DEF TypeOK, RouteMonitor, Budgets
<1>2. ASSUME NEW r \in Replies, NEW n \in Names, RouteDelete(r, n) PROVE TypeOK'
  <2>1. used' \in [Budgets -> Nat]
    BY <1>2, Bounds, Spending DEF RouteDelete, Budgets
  <2>2. ReplyOwner[r] \in Clients
    BY BridgeAssumption
  <2>3. PICK w \in Requests : routed' = Append(routed, w)
    <3>1. ASSUME NEW i \in Items
          PROVE  [kind |-> "Delete", key |-> <<ReplyOwner[r], i>>, name |-> n] \in Requests
      BY <2>2 DEF Requests, Keys
    <3>2. [kind |-> "DeleteUnlisted", sender |-> ReplyOwner[r], name |-> n] \in Requests
      BY <2>2 DEF Requests
    <3> QED
      BY <1>2, <3>1, <3>2 DEF TypeOK, RouteDelete
  <2> QED
    BY <1>2, <2>1, <2>3 DEF TypeOK, RouteDelete, Budgets
<1>3. ASSUME NEW r \in Replies, Vanish(r) \/ Reappear(r) PROVE TypeOK'
  BY <1>3 DEF TypeOK, Vanish, Reappear
<1>4. CASE ExpiryPeriodPasses
  BY <1>4, Bounds DEF TypeOK, ExpiryPeriodPasses
<1>5. CASE LinkLost
  BY <1>5, Bounds DEF TypeOK, LinkLost, NoSession
<1>6. ASSUME NEW S \in Catalogs, Discover(S) PROVE TypeOK'
  <2>1. used' \in [Budgets -> Nat] /\ used'.sessions \in 0 .. MaxSessions
    BY <1>6, Bounds, Spending DEF TypeOK, Discover, Budgets
  <2>2. S \subseteq Items
    BY BridgeAssumption
  <2>3. \A i \in S : AssignUniqueNames(S)[i] \in Names
    BY <2>2, NamesAreNames
  <2>4. published' \in [Items -> Names \cup {Absent}]
    BY <1>6, <2>3 DEF TypeOK, Discover
  <2> QED
    BY <1>6, <2>1, <2>2, <2>4 DEF TypeOK, Discover, Budgets
<1> QED
  BY <1>1, <1>2, <1>3, <1>4, <1>5, <1>6 DEF Environment

\* What lets commands, sessions and checks into the queue, and notifications out.
Queueing ==
    \/ Announce \/ NoticeLost \/ HandOver
    \/ EnqueueCheck("ReplyToCheck") \/ EnqueueCheck("ExpiryCheck")
Notifying == (\E k \in Keys : LookUpNotification(k)) \/ SendNotification

LEMMA TypesOfQueueing == ASSUME TypeOK, Discovered, Queueing \/ Notifying PROVE TypeOK'
<1> USE DEF Enqueue
<1>0. \A kind \in {"SessionEnd", "ReplyToCheck", "ExpiryCheck"} : [kind |-> kind] \in Work
  BY DEF Work
<1>1. CASE Announce
  <2>1. PICK w \in Work : work' = Append(work, w)
    <3>1. CASE link # NoSession
      <4>1. link \in 1 .. MaxSessions
        BY <3>1, Bounds DEF TypeOK, NoSession
      <4>2. [kind |-> "SessionStart", session |-> link, items |-> exposed] \in Work
        BY <1>1, <4>1 DEF Announce, Discovered, Work
      <4> QED
        BY <1>1, <3>1, <4>2 DEF Announce
    <3>2. CASE link = NoSession
      BY <1>0, <1>1, <3>2 DEF Announce
    <3> QED
      BY <3>1, <3>2
  <2> QED
    BY <1>1, <2>1 DEF TypeOK, Announce
<1>2. CASE NoticeLost
  BY <1>0, <1>2 DEF TypeOK, NoticeLost
<1>3. CASE HandOver
  BY <1>3 DEF TypeOK, HandOver, Work
<1>4. ASSUME NEW kind \in {"ReplyToCheck", "ExpiryCheck"}, EnqueueCheck(kind) PROVE TypeOK'
  BY <1>0, <1>4 DEF TypeOK, EnqueueCheck
<1>5. ASSUME NEW k \in Keys, LookUpNotification(k) PROVE TypeOK'
  <2>1. used' \in [Budgets -> Nat]
    BY <1>5, Bounds, Spending DEF LookUpNotification, Budgets
  <2> QED
    BY <1>5, <2>1 DEF TypeOK, LookUpNotification, Budgets, IsLive, Stored, Definitions, Notices
<1>6. CASE SendNotification
  BY <1>6 DEF TypeOK, SendNotification
<1> QED
  BY <1>1, <1>2, <1>3, <1>4, <1>5, <1>6 DEF Queueing, Notifying

\* What a handler takes from the queue, and what it leaves there.
LEMMA Taking ==
  ASSUME TypeOK, NEW kind, Take(kind)
  PROVE  /\ Head(work) \in Work /\ Head(work).kind = kind /\ work' \in Seq(Work)
         /\ job = Absent
  BY DEF TypeOK, Take

LEMMA Continuing ==
  ASSUME NEW kind \in {"ReplyToCheck", "ExpiryCheck"}, NEW replies \in SUBSET Replies,
         NEW keys \in SUBSET Keys, Continue(kind, replies, keys)
  PROVE  /\ job' \in Jobs \cup {Absent}
         /\ job' # Absent => job'.kind = kind /\ job'.todo = replies /\ job'.doomed = keys
         /\ job' = Absent => replies = {} /\ keys = {}
<1>1. [kind |-> kind, todo |-> replies, doomed |-> keys] \in Jobs
  BY DEF Jobs
<1> QED
  BY <1>1, AbsentAssumption DEF Continue

LEMMA TypesOfCommands ==
  ASSUME TypeOK, TakeMonitor \/ TakeDelete \/ TakeDeleteUnlisted PROVE TypeOK'
<1>1. CASE TakeMonitor
  <2> DEFINE w == Head(work)
             definition == [params |-> w.params, reply |-> w.reply, since |-> Live]
  <2>1. /\ w \in [kind : {"Monitor"}, key : Keys, params : Params, reply : Replies, name : Names]
        /\ work' \in Seq(Work)
    BY <1>1, Taking DEF TakeMonitor, Work, Requests
  <2>2. definition \in Definitions
    BY <2>1, Bounds DEF Definitions, Live
  <2>3. [registry EXCEPT ![w.key] = definition] \in [Keys -> Definitions \cup {Absent}]
    BY <2>1, <2>2 DEF TypeOK
  <2>4. /\ registry' \in [Keys -> Definitions \cup {Absent}]
        /\ disk' \in [Keys -> Definitions \cup {Absent}]
        /\ saveFailed' \in BOOLEAN /\ used' \in [Budgets -> Nat]
    BY <1>1, <2>3, Saving DEF TakeMonitor, Upsert
  <2>5. w.key[2] \in Items
    BY <2>1 DEF Keys
  <2>6. /\ names' \in [Items -> Names \cup {Absent}] /\ told' \in [Keys -> Statuses]
        /\ job' \in Jobs /\ lapsed' \subseteq Keys
    BY <1>1, <2>1, <2>5 DEF TypeOK, TakeMonitor, Remember, Statuses, Jobs
  <2> QED
    BY <1>1, <2>1, <2>4, <2>6 DEF TypeOK, TakeMonitor, Budgets
<1>2. ASSUME NEW k \in Keys, StartDelete(k)
      PROVE  /\ registry' \in [Keys -> Definitions \cup {Absent}]
             /\ disk' \in [Keys -> Definitions \cup {Absent}]
             /\ saveFailed' \in BOOLEAN /\ used' \in [Budgets -> Nat]
             /\ told' \in [Keys -> Statuses] /\ job' \in Jobs
  <2>1. [registry EXCEPT ![k] = Absent] \in [Keys -> Definitions \cup {Absent}]
    BY DEF TypeOK
  <2>2. told' \in [Keys -> Statuses] /\ job' \in Jobs
    BY <1>2 DEF TypeOK, StartDelete, Statuses, Jobs
  <2> QED
    BY <1>2, <2>1, <2>2, Saving DEF StartDelete, Remove
<1>3. CASE TakeDelete
  <2> DEFINE w == Head(work)
  <2>1. /\ w \in [kind : {"Delete"}, key : Keys, name : Names] /\ work' \in Seq(Work)
    BY <1>3, Taking DEF TakeDelete, Work, Requests
  <2>2. w.key[2] \in Items
    BY <2>1 DEF Keys
  <2>3. names' \in [Items -> Names \cup {Absent}]
    BY <1>3, <2>1, <2>2 DEF TypeOK, TakeDelete, Remember
  <2>4. CASE StartDelete(w.key)
    BY <1>2, <1>3, <2>1, <2>3, <2>4 DEF TypeOK, TakeDelete, Budgets
  <2>5. CASE Answer(w.key, "NotFound") /\ UNCHANGED <<stored, used>>
    BY <1>3, <2>1, <2>3, <2>5 DEF TypeOK, TakeDelete, Answer, Statuses
  <2> QED
    BY <1>3, <2>4, <2>5 DEF TakeDelete
<1>4. CASE TakeDeleteUnlisted
  <2>1. work' \in Seq(Work)
    BY <1>4, Taking DEF TakeDeleteUnlisted
  <2>2. ASSUME NEW k \in Keys, StartDelete(k) PROVE TypeOK'
    BY <1>2, <1>4, <2>1, <2>2 DEF TypeOK, TakeDeleteUnlisted, Budgets
  <2>3. CASE UNCHANGED <<stored, told, job, used>>
    BY <1>4, <2>1, <2>3 DEF TypeOK, TakeDeleteUnlisted
  <2> QED
    BY <1>4, <2>2, <2>3 DEF TakeDeleteUnlisted
<1> QED
  BY <1>1, <1>3, <1>4

LEMMA TypesOfAnswers ==
  ASSUME TypeOK, InHand, FinishMonitor \/ FinishDelete PROVE TypeOK'
<1> USE DEF Answer, MayLeak, Statuses
<1>1. CASE FinishMonitor
  <2> DEFINE k == job.key
  <2>1. k \in Keys /\ registry[k] \in Definitions
    BY <1>1 DEF TypeOK, FinishMonitor, Jobs, InHand, Doing, IsLive, Stored
  <2>2. registry[k].params \in Params
    BY <2>1 DEF Definitions
  <2>3. PICK status \in Statuses : Answer(k, status)
    BY <1>1 DEF FinishMonitor, ApplyAccepted, ApplyRefused, ApplyThrows, ApplyOffline, Refusals, CallFailed
  <2>4. /\ told' \in [Keys -> Statuses] /\ job' = Absent
        /\ leaked' \subseteq Keys
    <3>1. told' \in [Keys -> Statuses] /\ job' = Absent
      BY <2>1, <2>3 DEF TypeOK
    <3>2. leaked' \in {leaked, leaked \cup {k}}
      BY <1>1 DEF FinishMonitor, ApplyAccepted, ApplyRefused, ApplyThrows, ApplyOffline, Disturb
    <3> QED
      BY <2>1, <3>1, <3>2 DEF TypeOK
  <2>5. entries' \in [Keys -> Entries \cup {Absent}]
    <3>1. CASE ApplyAccepted(k)
      BY <2>1, <2>2, <3>1 DEF TypeOK, ApplyAccepted, Entries
    <3>2. CASE Disturb(k)
      <4>1. CASE ~Modifies(k)
        BY <2>1, <3>2, <4>1 DEF TypeOK, Disturb
      <4>2. CASE Modifies(k)
        <5>1. entries[k] \in Entries
          BY <2>1, <4>2 DEF TypeOK, Modifies
        <5>2. /\ [entries[k] EXCEPT !.params = registry[k].params] \in Entries
              /\ [params |-> registry[k].params, reporting |-> TRUE] \in Entries
          BY <2>2, <5>1 DEF Entries
        <5> QED
          BY <2>1, <3>2, <4>2, <5>2 DEF TypeOK, Disturb
      <4> QED
        BY <4>1, <4>2
    <3>3. CASE ApplyOffline(k)
      BY <3>3 DEF TypeOK, ApplyOffline
    <3> QED
      BY <1>1, <3>1, <3>2, <3>3 DEF FinishMonitor, ApplyRefused, ApplyThrows
  <2> QED
    BY <1>1, <2>4, <2>5 DEF TypeOK, FinishMonitor
<1>2. CASE FinishDelete
  <2>1. job.key \in Keys
    BY <1>2 DEF TypeOK, FinishDelete, Jobs
  <2>2. told' \in [Keys -> Statuses] /\ job' = Absent
    BY <1>2, <2>1 DEF TypeOK, FinishDelete
  <2>3. entries' \in [Keys -> Entries \cup {Absent}] /\ leaked' \subseteq Keys
    BY <1>2, <2>1 DEF TypeOK, FinishDelete, RemoveFromSession
  <2> QED
    BY <1>2, <2>2, <2>3 DEF TypeOK, FinishDelete
<1> QED
  BY <1>1, <1>2

LEMMA TypesOfSessions ==
  ASSUME TypeOK, InHand, TakeSessionStart \/ FinishSessionStart \/ TakeSessionEnd PROVE TypeOK'
<1>1. CASE TakeSessionStart
  <2>1. /\ Head(work).session \in 1 .. MaxSessions /\ Head(work).items \in Catalogs
        /\ work' \in Seq(Work)
    BY <1>1, Taking DEF TakeSessionStart, Work, Requests
  <2>2. catalog' \subseteq Items /\ session' \in 0 .. MaxSessions
    BY <1>1, <2>1, BridgeAssumption DEF TakeSessionStart
  <2>3. \A i \in catalog' : AssignUniqueNames(catalog')[i] \in Names
    BY <2>2, NamesAreNames
  <2>4. names' \in [Items -> Names \cup {Absent}]
    BY <1>1, <2>3 DEF TypeOK, TakeSessionStart
  <2>5. /\ registry' \in [Keys -> Definitions \cup {Absent}]
        /\ disk' \in [Keys -> Definitions \cup {Absent}]
        /\ saveFailed' \in BOOLEAN /\ used' \in [Budgets -> Nat]
        /\ told' \in [Keys -> Statuses]
    BY <1>1, Expiring DEF TakeSessionStart
  <2>6. entries' \in [Keys -> Entries \cup {Absent}] /\ job' \in Jobs
    BY <1>1 DEF TypeOK, TakeSessionStart, EndSession, Jobs
  <2> QED
    BY <1>1, <2>1, <2>2, <2>4, <2>5, <2>6 DEF TypeOK, TakeSessionStart, Budgets
<1>2. CASE FinishSessionStart
  <2>1. PICK result \in [Rebuildable -> Results] \cup {AllThrown}, made, left \in SUBSET Rebuildable :
          /\ result # AllThrown => made = {k \in Rebuildable : result[k] = "Active"}
          /\ left \cap made = {}
          /\ told' = [k \in Keys |-> CASE k \in Rebuildable -> result[k]
                                       [] IsLive(k) /\ k[2] \notin catalog -> "Failed"
                                       [] OTHER -> told[k]]
          /\ entries' = [k \in Keys |->
                IF Connected /\ k \in made
                THEN [params |-> registry[k].params, reporting |-> TRUE]
                ELSE entries[k]]
          /\ leaked' = IF Connected THEN leaked \cup left ELSE leaked
    BY <1>2 DEF FinishSessionStart
  <2>2. told' \in [Keys -> Statuses] /\ leaked' \subseteq Keys
    <3>1. \A k \in Rebuildable : result[k] \in Statuses
      BY DEF Results, AllThrown, Refusals, CallFailed, Statuses
    <3>2. Rebuildable \subseteq Keys
      BY DEF Rebuildable
    <3> QED
      BY <2>1, <3>1, <3>2 DEF TypeOK, Statuses
  <2>3. entries' \in [Keys -> Entries \cup {Absent}]
    <3>1. ASSUME NEW k \in Rebuildable
          PROVE  [params |-> registry[k].params, reporting |-> TRUE] \in Entries
      BY DEF TypeOK, Rebuildable, IsLive, Stored, Definitions, Entries
    <3> QED
      BY <2>1, <3>1 DEF TypeOK
  <2> QED
    BY <1>2, <2>2, <2>3 DEF TypeOK, FinishSessionStart
<1>3. CASE TakeSessionEnd
  <2>1. work' \in Seq(Work)
    BY <1>3, Taking DEF TakeSessionEnd
  <2>2. entries' \in [Keys -> Entries \cup {Absent}]
    BY <1>3 DEF TypeOK, TakeSessionEnd, EndSession
  <2> QED
    BY <1>3, <2>1, <2>2, Bounds DEF TypeOK, TakeSessionEnd, NoSession
<1> QED
  BY <1>1, <1>2, <1>3

\* A monitor suspended is a definition as before, and not live.
LEMMA Suspending ==
  ASSUME TypeOK, NEW k \in Keys, Stored(k)
  PROVE  LET monitors == [registry EXCEPT ![k].since = clock]
         IN  /\ monitors \in [Keys -> Definitions \cup {Absent}]
             /\ monitors[k] \in Definitions /\ monitors[k].since = clock
             /\ monitors[k].reply = registry[k].reply
             /\ \A l \in Keys : l # k => monitors[l] = registry[l]
<1>1. registry[k] \in Definitions
  BY DEF TypeOK, Stored
<1>2. clock \in 0 .. MaxClock + 1
  BY Bounds DEF TypeOK
<1>3. [registry[k] EXCEPT !.since = clock] \in Definitions
  BY <1>1, <1>2 DEF Definitions
<1>4. [registry[k] EXCEPT !.since = clock].reply = registry[k].reply
      /\ [registry[k] EXCEPT !.since = clock].since = clock
  BY <1>1 DEF Definitions
<1> QED
  BY <1>3, <1>4 DEF TypeOK

LEMMA TypesOfChecks ==
  ASSUME TypeOK, InHand,
         \/ TakeReplyToCheck \/ TakeExpiryCheck \/ \E r \in Replies : CheckReplyTo(r)
         \/ \E k \in Keys : SuspendNext(k) \/ RemoveExpiredItem(k)
  PROVE  TypeOK'
<1>1. CASE TakeReplyToCheck
  <2>1. {registry[k].reply : k \in {l \in Keys : IsLive(l)}} \subseteq Replies
    BY DEF TypeOK, IsLive, Stored, Definitions
  <2>2. job' \in Jobs \cup {Absent}
    BY <1>1, <2>1, Continuing DEF TakeReplyToCheck
  <2>3. work' \in Seq(Work)
    BY <1>1, Taking DEF TakeReplyToCheck
  <2> QED
    BY <1>1, <2>2, <2>3 DEF TypeOK, TakeReplyToCheck
<1>2. CASE TakeExpiryCheck
  <2>1. Overdue(registry) \subseteq Keys /\ {} \subseteq Replies
    BY DEF Overdue
  <2>2. job' \in Jobs \cup {Absent}
    BY <1>2, <2>1, Continuing DEF TakeExpiryCheck
  <2>3. work' \in Seq(Work)
    BY <1>2, Taking DEF TakeExpiryCheck
  <2>4. /\ registry' \in [Keys -> Definitions \cup {Absent}]
        /\ disk' \in [Keys -> Definitions \cup {Absent}]
        /\ saveFailed' \in BOOLEAN /\ used' \in [Budgets -> Nat]
        /\ told' \in [Keys -> Statuses]
    BY <1>2, Expiring DEF TakeExpiryCheck
  <2> QED
    BY <1>2, <2>2, <2>3, <2>4 DEF TypeOK, TakeExpiryCheck, Budgets
<1>3. ASSUME NEW r \in Replies, CheckReplyTo(r) PROVE TypeOK'
  <2>1. job.kind = "ReplyToCheck" /\ job.todo \ {r} \subseteq Replies
    BY <1>3 DEF TypeOK, CheckReplyTo, Jobs
  <2>2. job' \in Jobs \cup {Absent}
    <3>1. {} \subseteq Keys /\ {k \in Keys : IsLive(k) /\ registry[k].reply = r} \subseteq Keys
      OBVIOUS
    <3> QED
      BY <1>3, <2>1, <3>1, Continuing DEF CheckReplyTo
  <2>3. used' \in [Budgets -> Nat]
    <3>1. CASE UNCHANGED used
      BY <3>1 DEF TypeOK, Budgets
    <3>2. CASE Spend("faults", MaxFaults)
      BY <3>2, Bounds, Spending DEF Budgets
    <3> QED
      BY <1>3, <3>1, <3>2 DEF CheckReplyTo
  <2> QED
    BY <1>3, <2>2, <2>3 DEF TypeOK, CheckReplyTo, Budgets
<1>4. ASSUME NEW k \in Keys, SuspendNext(k) PROVE TypeOK'
  <2>1. /\ job.kind = "ReplyToCheck" /\ job.todo \subseteq Replies /\ job.doomed \ {k} \subseteq Keys
        /\ Stored(k)
    BY <1>4 DEF TypeOK, SuspendNext, Jobs, InHand, Doing, IsLive
  <2>2. job' \in Jobs \cup {Absent}
    BY <1>4, <2>1, Continuing DEF SuspendNext
  <2>3. /\ registry' \in [Keys -> Definitions \cup {Absent}]
        /\ disk' \in [Keys -> Definitions \cup {Absent}]
        /\ saveFailed' \in BOOLEAN /\ used' \in [Budgets -> Nat]
    BY <1>4, <2>1, Suspending, Saving DEF SuspendNext, Suspend
  <2>4. entries' \in [Keys -> Entries \cup {Absent}]
    <3>1. CASE entries[k] # Absent /\ entries' = [entries EXCEPT ![k].reporting = FALSE]
      <4>1. entries[k] \in Entries
        BY <3>1 DEF TypeOK
      <4>2. [entries[k] EXCEPT !.reporting = FALSE] \in Entries
        BY <4>1 DEF Entries
      <4> QED
        BY <3>1, <4>2 DEF TypeOK
    <3>2. CASE UNCHANGED entries
      BY <3>2 DEF TypeOK
    <3> QED
      BY <1>4, <3>1, <3>2 DEF SuspendNext
  <2>5. leaked' \subseteq Keys
    BY <1>4 DEF TypeOK, SuspendNext
  <2> QED
    BY <1>4, <2>2, <2>3, <2>4, <2>5 DEF TypeOK, SuspendNext, Budgets
<1>5. ASSUME NEW k \in Keys, RemoveExpiredItem(k) PROVE TypeOK'
  <2>1. job.kind = "ExpiryCheck" /\ {} \subseteq Replies /\ job.doomed \ {k} \subseteq Keys
    BY <1>5 DEF TypeOK, RemoveExpiredItem, Jobs
  <2>2. job' \in Jobs \cup {Absent}
    BY <1>5, <2>1, Continuing DEF RemoveExpiredItem
  <2>3. entries' \in [Keys -> Entries \cup {Absent}] /\ leaked' \subseteq Keys
    BY <1>5 DEF TypeOK, RemoveExpiredItem, RemoveFromSession, MayLeak
  <2> QED
    BY <1>5, <2>2, <2>3 DEF TypeOK, RemoveExpiredItem
<1> QED
  BY <1>1, <1>2, <1>3, <1>4, <1>5

LEMMA Restarting ==
  ASSUME TypeOK, Restart
  PROVE  /\ registry' = Unexpired(disk) /\ registry' \in [Keys -> Definitions \cup {Absent}]
         /\ disk' \in [Keys -> Definitions \cup {Absent}]
         /\ saveFailed' \in BOOLEAN /\ forgot' \in BOOLEAN
         /\ saveFailed' \/ disk' = registry'
         /\ used' \in [Budgets -> Nat] /\ used'.sessions = used.sessions
         /\ told' \in [Keys -> Statuses]
         /\ \A k \in Keys : told'[k] = IF k \in Overdue(disk) THEN "None" ELSE told[k]
<1>1. Unexpired(disk) \in [Keys -> Definitions \cup {Absent}]
  BY DEF TypeOK, Unexpired
<1>2. used' \in [Budgets -> Nat] /\ used'.sessions = used.sessions
  <2>1. \/ used' = [used EXCEPT !.restarts = @ + 1]
        \/ used' = [used EXCEPT !.restarts = @ + 1, !.faults = @ + 1]
    BY DEF Restart
  <2>2. CASE used' = [used EXCEPT !.restarts = @ + 1]
    BY <2>2 DEF TypeOK, Budgets
  <2>3. CASE used' = [used EXCEPT !.restarts = @ + 1, !.faults = @ + 1]
    <3>1. used["restarts"] + 1 \in Nat /\ used["faults"] + 1 \in Nat
      BY DEF TypeOK
    <3>2. used' = [b \in Budgets |->
                     IF b = "restarts" \/ b = "faults" THEN used[b] + 1 ELSE used[b]]
      BY <2>3, Zenon DEF TypeOK, Budgets
    <3> QED
      BY <3>1, <3>2 DEF TypeOK, Budgets
  <2> QED
    BY <2>1, <2>2, <2>3
<1>3. told' \in [Keys -> Statuses]
  BY DEF TypeOK, Restart, Statuses
<1> QED
  BY <1>1, <1>2, <1>3 DEF TypeOK, Restart

LEMMA TypesOfRestart == ASSUME TypeOK, Restart PROVE TypeOK'
<1>1. /\ work' = <<>> /\ routed' = <<>> /\ job' = Absent /\ notice' = Absent
      /\ session' = NoSession /\ link' = NoSession /\ stage' = "down"
      /\ catalog' = {} /\ exposed' = {} /\ leaked' = {}
      /\ names' = [i \in Items |-> Absent] /\ entries' = [k \in Keys |-> Absent]
      /\ UNCHANGED <<clients, clock, published>>
  BY DEF Restart
<1>2. <<>> \in Seq(Work) /\ <<>> \in Seq(Requests)
  OBVIOUS
<1>3. NoSession \in 0 .. MaxSessions
  BY Bounds DEF NoSession
<1> QED
  BY <1>1, <1>2, <1>3, Restarting DEF TypeOK, Budgets

LEMMA NextTypeOK == ASSUME TypeOK, Discovered, InHand, [Next]_vars PROVE TypeOK'
<1>1. CASE UNCHANGED vars
  BY <1>1 DEF TypeOK, vars, coordinator
<1> QED
  BY <1>1, TypesOfEnvironment, TypesOfQueueing, TypesOfCommands, TypesOfAnswers,
     TypesOfSessions, TypesOfChecks, TypesOfRestart
  DEF Next, Reader, Queueing, Notifying

-----------------------------------------------------------------------------
(* The queue and the sessions.                                               *)

LEMMA NextDiscovered == ASSUME TypeOK, Discovered, [Next]_vars PROVE Discovered'
<1> USE DEF Discovered
<1>1. CASE Environment
  BY <1>1 DEF Environment, RouteMonitor, RouteDelete, Vanish, Reappear, ExpiryPeriodPasses,
              LinkLost, Discover
<1>2. CASE Queueing \/ Notifying
  BY <1>2 DEF Queueing, Notifying, Announce, NoticeLost, HandOver, EnqueueCheck,
              LookUpNotification, SendNotification
<1>3. CASE Reader
  BY <1>3 DEF Reader, TakeMonitor, FinishMonitor, TakeDelete, TakeDeleteUnlisted, FinishDelete,
              TakeSessionStart, FinishSessionStart, TakeSessionEnd, TakeReplyToCheck,
              CheckReplyTo, TakeExpiryCheck, SuspendNext, RemoveExpiredItem
<1>4. CASE Restart
  BY <1>4 DEF Restart
<1>5. CASE UNCHANGED vars
  BY <1>5 DEF vars
<1> QED
  BY <1>1, <1>2, <1>3, <1>4, <1>5 DEF Next, Queueing, Notifying

\* What is left of a queue of announcements once its first is taken.
LEMMA TakingKeepsNumbers ==
  ASSUME TypeOK, Numbered, NEW kind, Take(kind)
  PROVE  \A n \in DOMAIN work' : work'[n].kind = "SessionStart" => work'[n].session <= used.sessions
<1>1. work \in Seq(Work) /\ work # <<>> /\ work' = Tail(work)
  BY DEF TypeOK, Take
<1>2. /\ DOMAIN work' = 1 .. Len(work) - 1
      /\ \A n \in 1 .. Len(work) - 1 : work'[n] = work[n + 1] /\ n + 1 \in DOMAIN work
  BY <1>1
<1> QED
  BY <1>2 DEF Numbered

LEMMA EnqueueingKeepsNumbers ==
  ASSUME TypeOK, Numbered, NEW w \in Work,
         w.kind = "SessionStart" => w.session <= used.sessions, work' = Append(work, w)
  PROVE  \A n \in DOMAIN work' : work'[n].kind = "SessionStart" => work'[n].session <= used.sessions
<1>1. /\ work \in Seq(Work) /\ DOMAIN work' = 1 .. Len(work) + 1
      /\ work'[Len(work) + 1] = w /\ \A n \in 1 .. Len(work) : work'[n] = work[n]
  BY DEF TypeOK
<1> QED
  BY <1>1 DEF Numbered

\* The reader makes no session; it only changes which one the coordinator knows.
LEMMA ReaderAddsNoSession ==
  ASSUME TypeOK, Reader
  PROVE  link' = link /\ used'.sessions = used.sessions
<1>1. link' = link
  BY DEF Reader, TakeMonitor, FinishMonitor, TakeDelete, TakeDeleteUnlisted, FinishDelete,
         TakeSessionStart, FinishSessionStart, TakeSessionEnd, TakeReplyToCheck,
         CheckReplyTo, TakeExpiryCheck, SuspendNext, RemoveExpiredItem
<1>2. ASSUME Spend("faults", MaxFaults) PROVE used'.sessions = used.sessions
  BY <1>2, Bounds, Spending DEF Budgets
<1>3. ASSUME NEW monitors, Save(monitors) PROVE used'.sessions = used.sessions
  BY <1>2, <1>3 DEF Save
<1>4. ASSUME RemoveExpired PROVE used'.sessions = used.sessions
  BY <1>3, <1>4 DEF RemoveExpired
<1>5. ASSUME UNCHANGED used PROVE used'.sessions = used.sessions
  BY <1>5
<1>6. CASE TakeMonitor
  BY <1>1, <1>3, <1>6 DEF TakeMonitor, Upsert
<1>7. CASE TakeDelete \/ TakeDeleteUnlisted
  BY <1>1, <1>3, <1>5, <1>7 DEF TakeDelete, TakeDeleteUnlisted, StartDelete, Remove
<1>8. CASE TakeSessionStart \/ TakeExpiryCheck
  BY <1>1, <1>4, <1>8 DEF TakeSessionStart, TakeExpiryCheck
<1>9. CASE \/ FinishMonitor \/ FinishDelete \/ FinishSessionStart \/ TakeSessionEnd
           \/ TakeReplyToCheck \/ \E k \in Keys : RemoveExpiredItem(k)
  BY <1>1, <1>5, <1>9 DEF FinishMonitor, FinishDelete, FinishSessionStart, TakeSessionEnd,
                    TakeReplyToCheck, RemoveExpiredItem
<1>10. ASSUME NEW r \in Replies, CheckReplyTo(r) PROVE used'.sessions = used.sessions
  BY <1>2, <1>10 DEF CheckReplyTo
<1>11. ASSUME NEW k \in Keys, SuspendNext(k) PROVE used'.sessions = used.sessions
  BY <1>3, <1>11 DEF SuspendNext, Suspend
<1> QED
  BY <1>1, <1>6, <1>7, <1>8, <1>9, <1>10, <1>11 DEF Reader

LEMMA ReaderTakes ==
  ASSUME Reader
  PROVE  \/ work' = work /\ session' = session
         \/ \E kind : Take(kind) /\ session' \in {session, NoSession}
         \/ Take("SessionStart") /\ session' = Head(work).session
<1>1. CASE TakeMonitor
  BY <1>1 DEF TakeMonitor
<1>2. CASE TakeDelete
  BY <1>2 DEF TakeDelete
<1>3. CASE TakeDeleteUnlisted
  BY <1>3 DEF TakeDeleteUnlisted
<1>4. CASE TakeSessionStart
  BY <1>4 DEF TakeSessionStart
<1>5. CASE TakeSessionEnd
  BY <1>5 DEF TakeSessionEnd
<1>6. CASE TakeReplyToCheck
  BY <1>6 DEF TakeReplyToCheck
<1>7. CASE TakeExpiryCheck
  BY <1>7 DEF TakeExpiryCheck
<1>8. CASE FinishMonitor \/ FinishDelete \/ FinishSessionStart
  BY <1>8 DEF FinishMonitor, FinishDelete, FinishSessionStart
<1>9. CASE \/ \E r \in Replies : CheckReplyTo(r)
           \/ \E k \in Keys : SuspendNext(k) \/ RemoveExpiredItem(k)
  BY <1>9 DEF CheckReplyTo, SuspendNext, RemoveExpiredItem
<1> QED
  BY <1>1, <1>2, <1>3, <1>4, <1>5, <1>6, <1>7, <1>8, <1>9 DEF Reader

LEMMA NextNumbered ==
  ASSUME TypeOK, TypeOK', Discovered, InHand, Numbered, [Next]_vars PROVE Numbered'
<1> USE DEF Numbered
<1>1. CASE UNCHANGED <<link, session, used, work>>
  BY <1>1
<1>2. CASE Environment
  <2>1. ASSUME NEW S \in Catalogs, Discover(S) PROVE Numbered'
    <3>1. used.sessions < MaxSessions /\ used'.sessions = used.sessions + 1 /\ link' = used'.sessions
      BY <2>1, Bounds, Spending DEF Discover, Budgets
    <3>2. UNCHANGED <<session, work>> /\ session \in Nat /\ used.sessions \in Nat
      BY <2>1 DEF Discover, TypeOK, coordinator
    <3>3. \A w \in Work : w.kind = "SessionStart" => w.session \in Nat
      BY DEF Work, Requests
    <3>4. ASSUME NEW n \in DOMAIN work PROVE work[n] \in Work
      <4>1. work \in Seq(Work)
        BY DEF TypeOK
      <4> QED
        BY <4>1
    <3> QED
      BY <3>1, <3>2, <3>3, <3>4, Bounds
  <2>2. ASSUME Spend("sends", MaxSends) PROVE used'.sessions = used.sessions
    BY <2>2, Bounds, Spending DEF Budgets
  <2>3. ASSUME NEW r \in Replies, NEW i \in Items, NEW p \in Params, RouteMonitor(r, i, p)
        PROVE  Numbered'
    BY <2>2, <2>3 DEF RouteMonitor, coordinator
  <2>4. ASSUME NEW r \in Replies, NEW n \in Names, RouteDelete(r, n) PROVE Numbered'
    BY <2>2, <2>4 DEF RouteDelete, coordinator
  <2>5. ASSUME NEW r \in Replies, Vanish(r) \/ Reappear(r) PROVE Numbered'
    BY <1>1, <2>5 DEF Vanish, Reappear, coordinator
  <2>6. CASE ExpiryPeriodPasses
    BY <1>1, <2>6 DEF ExpiryPeriodPasses, coordinator
  <2>7. CASE LinkLost
    BY <2>7 DEF LinkLost, coordinator, TypeOK, NoSession
  <2> QED
    BY <1>2, <2>1, <2>3, <2>4, <2>5, <2>6, <2>7 DEF Environment
<1>3. CASE Announce
  <2>1. CASE link # NoSession
    <3> DEFINE w == [kind |-> "SessionStart", session |-> link, items |-> exposed]
    <3>1. link \in 1 .. MaxSessions /\ exposed \in Catalogs
      BY <1>3, <2>1, Bounds DEF TypeOK, Announce, Discovered, NoSession
    <3>2. w \in Work /\ w.session <= used.sessions
      BY <3>1 DEF Work
    <3>3. work' = Append(work, w) /\ UNCHANGED <<link, session, used>>
      BY <1>3, <2>1 DEF Announce, Enqueue
    <3> QED
      BY <3>2, <3>3, EnqueueingKeepsNumbers
  <2>2. CASE link = NoSession
    <3> DEFINE w == [kind |-> "SessionEnd"]
    <3>1. w \in Work /\ w.kind # "SessionStart"
      BY DEF Work
    <3>2. work' = Append(work, w) /\ UNCHANGED <<link, session, used>>
      BY <1>3, <2>2 DEF Announce, Enqueue
    <3> QED
      BY <3>1, <3>2, EnqueueingKeepsNumbers
  <2> QED
    BY <2>1, <2>2
<1>4. CASE NoticeLost
  <2> DEFINE w == [kind |-> "SessionEnd"]
  <2>1. w \in Work /\ w.kind # "SessionStart"
    BY DEF Work
  <2>2. work' = Append(work, w) /\ UNCHANGED <<link, session, used>>
    BY <1>4 DEF NoticeLost, Enqueue
  <2> QED
    BY <2>1, <2>2, EnqueueingKeepsNumbers
<1>5. CASE HandOver
  <2>1. Head(routed) \in Requests
    BY <1>5 DEF HandOver, TypeOK
  <2>2. Head(routed) \in Work /\ Head(routed).kind # "SessionStart"
    BY <2>1 DEF Work, Requests
  <2>3. work' = Append(work, Head(routed)) /\ UNCHANGED <<link, session, used>>
    BY <1>5 DEF HandOver, Enqueue
  <2> QED
    BY <2>2, <2>3, EnqueueingKeepsNumbers
<1>6. ASSUME NEW kind \in {"ReplyToCheck", "ExpiryCheck"}, EnqueueCheck(kind) PROVE Numbered'
  <2> DEFINE w == [kind |-> kind]
  <2>1. w \in Work /\ w.kind # "SessionStart"
    BY DEF Work
  <2>2. work' = Append(work, w) /\ UNCHANGED <<link, session, used>>
    BY <1>6 DEF EnqueueCheck, Enqueue
  <2> QED
    BY <2>1, <2>2, EnqueueingKeepsNumbers
<1>7. CASE Notifying
  <2>1. ASSUME NEW k \in Keys, LookUpNotification(k) PROVE Numbered'
    BY <2>1, Bounds, Spending DEF LookUpNotification, coordinator, Budgets
  <2>2. CASE SendNotification
    BY <1>1, <2>2 DEF SendNotification, coordinator
  <2> QED
    BY <1>7, <2>1, <2>2 DEF Notifying
<1>8. CASE Reader
  <2>1. link' = link /\ used'.sessions = used.sessions
    BY <1>8, ReaderAddsNoSession
  <2>2. \/ work' = work /\ session' = session
        \/ \E kind : Take(kind) /\ session' \in {session, NoSession}
        \/ Take("SessionStart") /\ session' = Head(work).session
    BY <1>8, ReaderTakes
  <2>3. CASE work' = work /\ session' = session
    BY <2>1, <2>3
  <2>4. ASSUME NEW kind, Take(kind), session' \in {session, NoSession} PROVE Numbered'
    <3>1. session \in Nat /\ used.sessions \in Nat
      BY DEF TypeOK
    <3>2. session' <= used.sessions
      BY <2>4, <3>1 DEF NoSession
    <3> QED
      BY <2>1, <2>4, <3>2, TakingKeepsNumbers
  <2>5. CASE Take("SessionStart") /\ session' = Head(work).session
    <3>1. Head(work) = work[1] /\ 1 \in DOMAIN work
      BY <2>5 DEF TypeOK, Take
    <3>2. session' <= used.sessions
      BY <2>5, <3>1 DEF Take
    <3> QED
      BY <2>1, <2>5, <3>2, TakingKeepsNumbers
  <2> QED
    BY <2>2, <2>3, <2>4, <2>5
<1>9. CASE Restart
  <2>1. work' = <<>> /\ link' = 0 /\ session' = 0
    BY <1>9 DEF Restart, NoSession
  <2>2. used'.sessions = used.sessions /\ used.sessions \in Nat
    BY <1>9, Restarting DEF TypeOK
  <2> QED
    BY <2>1, <2>2
<1> QED
  BY <1>1, <1>2, <1>3, <1>4, <1>5, <1>6, <1>7, <1>8, <1>9 DEF Next, Queueing, Notifying, vars, coordinator

-----------------------------------------------------------------------------
(* The registry, the session's items and what clients were told.             *)

\* Steps that touch nothing of it.
LEMMA Aside ==
  ASSUME Fits,
         UNCHANGED <<registry, disk, saveFailed, job, session, link, entries, leaked, alive,
                     lapsed, told, forgot>>
  PROVE  Fits'
BY DEF Fits, InHand, OnlyInSession, Monitored, Asked, Saved, Promised, Lapsed, BeingRemoved,
       Doing, Connected, IsLive, Suspended, Stored

LEMMA FitsOutside == ASSUME IInv, Environment PROVE Fits'
<1> USE DEF IInv
<1>1. ASSUME NEW r \in Replies, NEW i \in Items, NEW p \in Params, RouteMonitor(r, i, p)
      PROVE  Fits'
  BY <1>1, Aside DEF RouteMonitor, coordinator
<1>2. ASSUME NEW r \in Replies, NEW n \in Names, RouteDelete(r, n) PROVE Fits'
  BY <1>2, Aside DEF RouteDelete, coordinator
<1>3. ASSUME NEW r \in Replies, Vanish(r) \/ Reappear(r) PROVE Fits'
  <2>1. UNCHANGED <<registry, disk, saveFailed, job, session, link, entries, leaked, told, forgot>>
    BY <1>3 DEF Vanish, Reappear, coordinator
  <2>2. /\ lapsed \subseteq lapsed'
        /\ \A k \in Keys : Stored(k) /\ registry[k].reply \in alive /\ registry[k].reply \notin alive'
                             => k \in lapsed'
    BY <1>3 DEF Vanish, Reappear
  <2>3. Lapsed'
    BY <2>1, <2>2 DEF Fits, Lapsed, Doing, Suspended, Stored
  <2>4. (InHand /\ OnlyInSession /\ Monitored /\ Asked /\ Saved /\ Promised)'
    BY <2>1 DEF Fits, InHand, OnlyInSession, Monitored, Asked, Saved, Promised, BeingRemoved,
                Doing, Connected, IsLive, Stored
  <2> QED
    BY <2>3, <2>4 DEF Fits
<1>4. CASE ExpiryPeriodPasses
  BY <1>4, Aside DEF ExpiryPeriodPasses, coordinator
<1>5. ASSUME ~Connected', \A k \in Keys : entries'[k] = Absent,
             UNCHANGED <<registry, disk, saveFailed, job, session, alive, lapsed, told, forgot>>
      PROVE  Fits'
  <2>1. (OnlyInSession /\ Monitored /\ Asked)'
    BY <1>5 DEF OnlyInSession, Monitored, Asked
  <2>2. (InHand /\ Saved /\ Promised /\ Lapsed)'
    BY <1>5 DEF Fits, InHand, Saved, Promised, Lapsed, Doing, IsLive, Suspended, Stored
  <2> QED
    BY <2>1, <2>2 DEF Fits
<1>6. CASE LinkLost
  <2>1. ~Connected' /\ \A k \in Keys : entries'[k] = Absent
    BY <1>6 DEF LinkLost, Connected, coordinator
  <2> QED
    BY <1>5, <1>6, <2>1 DEF LinkLost, coordinator
<1>7. ASSUME NEW S \in Catalogs, Discover(S) PROVE Fits'
  <2>1. link' = used.sessions + 1 /\ \A k \in Keys : entries'[k] = Absent
    BY <1>7, Bounds, Spending DEF Discover, Budgets
  <2>2. session' = session /\ session <= used.sessions /\ session \in Nat /\ used.sessions \in Nat
    BY <1>7 DEF Discover, coordinator, Numbered, TypeOK
  <2>3. ~Connected'
    BY <2>1, <2>2 DEF Connected
  <2> QED
    BY <1>5, <1>7, <2>1, <2>3 DEF Discover, coordinator
<1> QED
  BY <1>1, <1>2, <1>3, <1>4, <1>6, <1>7 DEF Environment

LEMMA FitsQueueing == ASSUME IInv, Queueing \/ Notifying PROVE Fits'
<1>1. UNCHANGED <<registry, disk, saveFailed, job, session, link, entries, leaked, alive,
                  lapsed, told, forgot>>
  BY DEF Queueing, Notifying, Announce, NoticeLost, HandOver, EnqueueCheck, Enqueue,
         LookUpNotification, SendNotification, coordinator
<1> QED
  BY <1>1, Aside DEF IInv

LEMMA FitsMonitor == ASSUME IInv, TakeMonitor PROVE Fits'
<1> DEFINE k == Head(work).key
<1> USE DEF IInv, Fits, Doing
<1>1. /\ Head(work) \in [kind : {"Monitor"}, key : Keys, params : Params, reply : Replies, name : Names]
      /\ job = Absent
  BY Taking DEF TakeMonitor, Work, Requests
<1>2. /\ job' = [kind |-> "Monitor", key |-> k] /\ job' # Absent
      /\ UNCHANGED <<session, link, entries, leaked, alive, forgot>>
  BY <1>1, AbsentAssumption DEF TakeMonitor, Jobs
<1>3. [params |-> Head(work).params, reply |-> Head(work).reply, since |-> Live] \in Definitions
  BY <1>1, Bounds DEF Definitions, Live
<1>4. /\ registry' = [registry EXCEPT ![k] = [params |-> Head(work).params,
                                               reply |-> Head(work).reply, since |-> Live]]
      /\ saveFailed' \/ disk' = registry'
  BY <1>1, <1>3, Saving DEF TakeMonitor, Upsert, TypeOK
<1>5. /\ registry'[k] # Absent /\ registry'[k].since = Live /\ registry'[k].reply = Head(work).reply
      /\ \A l \in Keys : l # k => registry'[l] = registry[l]
  BY <1>1, <1>3, <1>4, AbsentAssumption DEF TypeOK
<1>6. told'[k] = "None" /\ \A l \in Keys : l # k => told'[l] = told[l]
  BY <1>1 DEF TypeOK, TakeMonitor
<1>7. (InHand /\ OnlyInSession /\ Saved)'
  BY <1>1, <1>2, <1>4, <1>5 DEF InHand, OnlyInSession, Saved, IsLive, Stored, Connected
<1>8. Monitored'
  BY <1>1, <1>2, <1>5, <1>6 DEF Monitored, IsLive, Stored, Connected
<1>9. Asked'
  BY <1>1, <1>2, <1>5 DEF Asked, BeingRemoved, IsLive, Stored
<1>10. Promised'
  BY <1>1, <1>2, <1>5, <1>6 DEF Promised, Stored
<1>11. Lapsed'
  BY <1>1, <1>2, <1>5 DEF TakeMonitor, Lapsed, Suspended, Stored
<1> QED
  BY <1>7, <1>8, <1>9, <1>10, <1>11

\* What an answer leaves to show: the other monitors are as they were.
LEMMA FitsAnswer ==
  ASSUME IInv, job # Absent, NEW k \in Keys, job.kind \in {"Monitor", "Delete"}, job.key = k,
         NEW status \in Statuses, Answer(k, status),
         UNCHANGED <<registry, disk, saveFailed, session, link, alive, lapsed, forgot>>,
         leaked \subseteq leaked', ~Connected => entries' = entries,
         \A l \in Keys : l # k => entries'[l] = entries[l],
         IsLive(k) /\ status = "Active" /\ Connected
             => entries'[k] = [params |-> registry[k].params, reporting |-> TRUE],
         k \notin leaked' /\ entries'[k] # Absent => IsLive(k),
         status \in {"Active", "Pending", "Thrown", "Failed"} => Stored(k),
         status = "Deleted" => ~Stored(k)
  PROVE  Fits'
<1> USE DEF IInv, Fits, Doing
<1>1. job' = Absent /\ told'[k] = status /\ \A l \in Keys : l # k => told'[l] = told[l]
  BY DEF Answer, TypeOK
<1>2. (InHand /\ OnlyInSession /\ Saved)'
  BY <1>1 DEF InHand, OnlyInSession, Saved, Connected
<1>3. Monitored'
  BY <1>1 DEF Monitored, IsLive, Stored, Connected
<1>4. Asked'
  BY <1>1 DEF Asked, BeingRemoved, IsLive, Stored
<1>5. Promised'
  BY <1>1 DEF Promised, Stored
<1>6. Lapsed'
  BY <1>1 DEF Lapsed, Suspended, Stored
<1> QED
  BY <1>2, <1>3, <1>4, <1>5, <1>6

LEMMA FitsAnswers == ASSUME IInv, FinishMonitor \/ FinishDelete PROVE Fits'
<1> DEFINE k == job.key
<1>1. CASE FinishMonitor
  <2>1. job # Absent /\ job.kind = "Monitor" /\ k \in Keys /\ IsLive(k)
    BY <1>1 DEF FinishMonitor, IInv, Fits, TypeOK, InHand, Doing, Jobs
  <2>2. UNCHANGED <<registry, disk, saveFailed, session, link, alive, lapsed, forgot>>
    BY <1>1 DEF FinishMonitor
  <2>3. CASE ApplyAccepted(k)
    <3>1. /\ leaked \subseteq leaked' /\ Connected
          /\ entries'[k] = [params |-> registry[k].params, reporting |-> TRUE]
          /\ \A l \in Keys : l # k => entries'[l] = entries[l]
      BY <2>1, <2>3 DEF ApplyAccepted, MayLeak, IInv, TypeOK
    <3>2. Answer(k, "Active") /\ "Active" \in Statuses
      BY <2>3 DEF ApplyAccepted, Statuses
    <3> QED
      BY <2>1, <2>2, <3>1, <3>2, FitsAnswer DEF IsLive
  <2>4. CASE ApplyRefused(k) \/ ApplyThrows(k)
    <3>1. Connected /\ Disturb(k)
      BY <2>4 DEF ApplyRefused, ApplyThrows
    <3>2. /\ leaked \subseteq leaked'
          /\ \A l \in Keys : l # k => entries'[l] = entries[l]
      BY <2>1, <3>1 DEF Disturb, MayLeak, IInv, TypeOK
    <3>3. PICK status \in {"Failed", "Thrown"} : Answer(k, status)
      BY <2>4 DEF ApplyRefused, ApplyThrows, Refusals, CallFailed
    <3>4. status \in Statuses
      BY DEF Statuses
    <3> QED
      BY <2>1, <2>2, <3>1, <3>2, <3>3, <3>4, FitsAnswer DEF IsLive
  <2>5. CASE ApplyOffline(k)
    <3>1. ~Connected /\ UNCHANGED <<entries, leaked>>
      BY <2>5 DEF ApplyOffline
    <3>2. PICK status \in {"Pending", "Failed"} : Answer(k, status)
      BY <2>5 DEF ApplyOffline, CallFailed
    <3>3. status \in Statuses
      BY DEF Statuses
    <3> QED
      BY <2>1, <2>2, <3>1, <3>2, <3>3, FitsAnswer DEF IsLive
  <2> QED
    BY <1>1, <2>3, <2>4, <2>5 DEF FinishMonitor
<1>2. CASE FinishDelete
  <2>1. job # Absent /\ job.kind = "Delete" /\ k \in Keys /\ ~Stored(k)
    BY <1>2 DEF FinishDelete, IInv, Fits, TypeOK, InHand, Doing, Jobs
  <2>2. UNCHANGED <<registry, disk, saveFailed, session, link, alive, lapsed, forgot>>
    BY <1>2 DEF FinishDelete
  <2>3. /\ leaked \subseteq leaked'
        /\ ~Connected => entries' = entries
        /\ \A l \in Keys : l # k => entries'[l] = entries[l]
        /\ Connected => entries'[k] = Absent
    BY <1>2, <2>1 DEF FinishDelete, RemoveFromSession, MayLeak, IInv, TypeOK
  <2>4. entries'[k] = Absent
    BY <2>1, <2>3 DEF IInv, Fits, OnlyInSession
  <2>5. Answer(k, "Deleted") /\ "Deleted" \in Statuses
    BY <1>2 DEF FinishDelete, Statuses
  <2> QED
    BY <2>1, <2>2, <2>3, <2>4, <2>5, FitsAnswer DEF IsLive
<1> QED
  BY <1>1, <1>2

LEMMA FitsDelete == ASSUME IInv, TakeDelete \/ TakeDeleteUnlisted PROVE Fits'
<1> USE DEF IInv, Fits, Doing
<1>1. /\ job = Absent
      /\ UNCHANGED <<session, link, entries, leaked, alive, lapsed, forgot>>
  BY DEF TakeDelete, TakeDeleteUnlisted, Take
<1>2. ASSUME NEW k \in Keys, StartDelete(k) PROVE Fits'
  <2>1. job' = [kind |-> "Delete", key |-> k] /\ job' # Absent
    BY <1>2, AbsentAssumption DEF StartDelete, Jobs
  <2>2. registry' = [registry EXCEPT ![k] = Absent] /\ (saveFailed' \/ disk' = registry')
    BY <1>2, Saving DEF StartDelete, Remove, TypeOK
  <2>3. /\ registry'[k] = Absent /\ told'[k] = "None"
        /\ \A l \in Keys : l # k => registry'[l] = registry[l] /\ told'[l] = told[l]
    BY <1>2, <2>2 DEF StartDelete, TypeOK
  <2>4. (InHand /\ OnlyInSession /\ Saved)'
    BY <1>1, <2>1, <2>2, <2>3 DEF InHand, OnlyInSession, Saved, Stored, Connected
  <2>5. Monitored'
    BY <1>1, <2>1, <2>3 DEF Monitored, IsLive, Stored, Connected
  <2>6. Asked'
    BY <1>1, <2>1, <2>3 DEF Asked, BeingRemoved, IsLive, Stored
  <2>7. Promised'
    BY <1>1, <2>1, <2>3 DEF Promised, Stored
  <2>8. Lapsed'
    BY <1>1, <2>1, <2>3 DEF Lapsed, Suspended, Stored
  <2> QED
    BY <2>4, <2>5, <2>6, <2>7, <2>8
<1>3. ASSUME NEW k \in Keys, Answer(k, "NotFound"), ~Stored(k), UNCHANGED stored PROVE Fits'
  <2>1. /\ job' = Absent /\ told'[k] = "NotFound"
        /\ \A l \in Keys : l # k => told'[l] = told[l]
    BY <1>3 DEF Answer, TypeOK
  <2>2. (InHand /\ OnlyInSession /\ Saved)'
    BY <1>1, <1>3, <2>1 DEF InHand, OnlyInSession, Saved, Connected
  <2>3. (Monitored /\ Asked)'
    BY <1>1, <1>3, <2>1 DEF Monitored, Asked, BeingRemoved, IsLive, Stored, Connected
  <2>4. (Promised /\ Lapsed)'
    BY <1>1, <1>3, <2>1 DEF Promised, Lapsed, Suspended, Stored
  <2> QED
    BY <2>2, <2>3, <2>4
<1>4. CASE TakeDelete
  <2>1. Head(work) \in [kind : {"Delete"}, key : Keys, name : Names]
    BY <1>4, Taking DEF TakeDelete, Work, Requests
  <2> QED
    BY <1>2, <1>3, <1>4, <2>1 DEF TakeDelete
<1>5. CASE TakeDeleteUnlisted
  <2>1. CASE UNCHANGED <<stored, told, job>>
    BY <1>1, <2>1, Aside
  <2> QED
    BY <1>2, <1>5, <2>1 DEF TakeDeleteUnlisted
<1> QED
  BY <1>4, <1>5

\* The expired go from the registry, and what their clients were told with them.
LEMMA FitsExpiring ==
  ASSUME IInv, RemoveExpired, UNCHANGED <<alive, lapsed, forgot>>,
         job' # Absent => job'.kind # "ReplyToCheck"
  PROVE  (Saved /\ Promised /\ Lapsed)'
<1> USE DEF IInv, Fits, Doing
<1>1. /\ registry' = Unexpired(registry) /\ (saveFailed' \/ disk' = registry')
      /\ \A k \in Keys : told'[k] = IF k \in Overdue(registry) THEN "None" ELSE told[k]
  BY Expiring
<1>2. \A k \in Keys : /\ k \in Overdue(registry) => registry'[k] = Absent
                      /\ k \notin Overdue(registry) => registry'[k] = registry[k]
  BY <1>1 DEF Unexpired
<1>3. Saved'
  BY <1>1 DEF Saved
<1>4. Promised'
  BY <1>1, <1>2 DEF Promised, Stored, Overdue
<1>5. Lapsed'
  BY <1>2 DEF Lapsed, Stored, Suspended
<1> QED
  BY <1>3, <1>4, <1>5

LEMMA FitsSessions ==
  ASSUME IInv, TakeSessionStart \/ FinishSessionStart \/ TakeSessionEnd PROVE Fits'
<1> USE DEF IInv, Fits, Doing
<1>1. ASSUME EndSession PROVE \A k \in Keys : entries'[k] = Absent
  BY <1>1 DEF EndSession, OnlyInSession
<1>2. CASE TakeSessionStart
  <2>1. /\ job' = [kind |-> "SessionStart"] /\ job' # Absent
        /\ UNCHANGED <<link, leaked, alive, lapsed, forgot>>
        /\ \A k \in Keys : entries'[k] = Absent
    BY <1>1, <1>2, AbsentAssumption DEF TakeSessionStart, Jobs
  <2>2. (InHand /\ OnlyInSession /\ Monitored /\ Asked)'
    BY <2>1 DEF InHand, OnlyInSession, Monitored, Asked
  <2>3. (Saved /\ Promised /\ Lapsed)'
    BY <1>2, <2>1, FitsExpiring DEF TakeSessionStart
  <2> QED
    BY <2>2, <2>3
<1>3. CASE FinishSessionStart
  <2>1. PICK result \in [Rebuildable -> Results] \cup {AllThrown}, made, left \in SUBSET Rebuildable :
          /\ result # AllThrown => made = {k \in Rebuildable : result[k] = "Active"}
          /\ left \cap made = {}
          /\ told' = [k \in Keys |-> CASE k \in Rebuildable -> result[k]
                                       [] IsLive(k) /\ k[2] \notin catalog -> "Failed"
                                       [] OTHER -> told[k]]
          /\ entries' = [k \in Keys |->
                IF Connected /\ k \in made
                THEN [params |-> registry[k].params, reporting |-> TRUE]
                ELSE entries[k]]
          /\ leaked' = IF Connected THEN leaked \cup left ELSE leaked
    BY <1>3 DEF FinishSessionStart
  <2>2. /\ job # Absent /\ job.kind = "SessionStart" /\ job' = Absent
        /\ UNCHANGED <<registry, disk, saveFailed, session, link, alive, lapsed, forgot>>
        /\ \A k \in Keys : entries[k] = Absent
    BY <1>3 DEF FinishSessionStart, OnlyInSession
  <2>3. ASSUME NEW k \in Keys
        PROVE  /\ k \in Rebuildable =>
                    /\ told'[k] = result[k] /\ result[k] \in {"Active", "Failed", "Pending", "Thrown"}
                    /\ result[k] = "Active" => k \in made
               /\ k \notin Rebuildable /\ IsLive(k) => told'[k] = "Failed"
               /\ ~IsLive(k) => told'[k] = told[k]
    BY <2>1 DEF Rebuildable, Results, AllThrown, Refusals, CallFailed
  <2>4. ASSUME NEW k \in Keys
        PROVE  entries'[k] = IF Connected /\ k \in made
                             THEN [params |-> registry[k].params, reporting |-> TRUE]
                             ELSE Absent
    BY <2>1, <2>2
  <2>5. (InHand /\ OnlyInSession /\ Saved)'
    BY <2>2, <2>4 DEF InHand, OnlyInSession, Saved, Connected
  <2>6. Monitored'
    BY <2>2, <2>3, <2>4 DEF Monitored, IsLive, Stored, Connected
  <2>7. Asked'
    BY <2>1, <2>2, <2>4 DEF Asked, BeingRemoved, Rebuildable, IsLive, Stored
  <2>8. (Promised /\ Lapsed)'
    BY <2>2, <2>3 DEF Promised, Lapsed, Rebuildable, IsLive, Suspended, Stored
  <2> QED
    BY <2>5, <2>6, <2>7, <2>8
<1>4. CASE TakeSessionEnd
  <2>1. /\ job = Absent /\ job' = Absent /\ ~Connected' /\ \A k \in Keys : entries'[k] = Absent
        /\ UNCHANGED <<registry, disk, saveFailed, alive, lapsed, told, forgot>>
    BY <1>1, <1>4 DEF TakeSessionEnd, Take, Connected
  <2>2. (InHand /\ OnlyInSession /\ Monitored /\ Asked /\ Saved)'
    BY <2>1 DEF InHand, OnlyInSession, Monitored, Asked, Saved
  <2>3. (Promised /\ Lapsed)'
    BY <2>1 DEF Promised, Lapsed, Suspended, Stored
  <2> QED
    BY <2>2, <2>3
<1> QED
  BY <1>2, <1>3, <1>4

LEMMA FitsReplyToCheck ==
  ASSUME IInv, TakeReplyToCheck \/ \E r \in Replies : CheckReplyTo(r) PROVE Fits'
<1> USE DEF IInv, Fits, Doing
<1>1. UNCHANGED <<registry, disk, saveFailed, session, link, entries, leaked, alive, lapsed, told, forgot>>
  BY DEF TakeReplyToCheck, CheckReplyTo
<1>2. ASSUME NEW todo, NEW doomed \in SUBSET Keys, Continue("ReplyToCheck", todo, doomed),
             \A k \in doomed : IsLive(k) /\ registry[k].reply \notin alive,
             job # Absent => job.kind = "ReplyToCheck"
      PROVE  Fits'
  <2>1. job' # Absent => job'.kind = "ReplyToCheck" /\ job'.doomed = doomed
    BY <1>2 DEF Continue
  <2>2. (InHand /\ OnlyInSession /\ Saved /\ Promised)'
    BY <1>1, <1>2, <2>1 DEF InHand, OnlyInSession, Saved, Promised, Connected, IsLive, Stored
  <2>3. (Monitored /\ Asked)'
    BY <1>1, <1>2, <2>1 DEF Monitored, Asked, BeingRemoved, Connected, IsLive, Stored
  <2>4. Lapsed'
    BY <1>1, <1>2, <2>1 DEF Lapsed, Suspended, IsLive, Stored
  <2> QED
    BY <2>2, <2>3, <2>4
<1>3. CASE TakeReplyToCheck
  BY <1>2, <1>3 DEF TakeReplyToCheck, Take
<1>4. ASSUME NEW r \in Replies, CheckReplyTo(r) PROVE Fits'
  <2>1. job # Absent /\ job.kind = "ReplyToCheck"
    BY <1>4 DEF CheckReplyTo
  <2>2. CASE Continue(job.kind, job.todo \ {r}, {})
    BY <1>2, <2>1, <2>2
  <2>3. CASE /\ r \notin alive
             /\ Continue(job.kind, job.todo \ {r}, {k \in Keys : IsLive(k) /\ registry[k].reply = r})
    BY <1>2, <2>1, <2>3
  <2> QED
    BY <1>4, <2>2, <2>3 DEF CheckReplyTo
<1> QED
  BY <1>3, <1>4

LEMMA FitsSuspending == ASSUME IInv, NEW k \in Keys, SuspendNext(k) PROVE Fits'
<1> USE DEF IInv, Fits, Doing
<1>1. /\ job # Absent /\ job.kind = "ReplyToCheck" /\ k \in job.doomed /\ Stored(k)
      /\ forgot \/ k \in lapsed
      /\ UNCHANGED <<session, link, alive, lapsed, told, forgot>>
  BY DEF SuspendNext, InHand, Lapsed, IsLive
<1>2. job' # Absent => job'.kind = "ReplyToCheck" /\ job'.doomed = job.doomed \ {k}
  BY <1>1 DEF SuspendNext, Continue
<1>3. registry' = [registry EXCEPT ![k].since = clock] /\ (saveFailed' \/ disk' = registry')
  BY <1>1, Suspending, Saving DEF SuspendNext, Suspend
<1>4. /\ registry'[k] \in Definitions /\ registry'[k].since = clock
      /\ registry'[k].reply = registry[k].reply
      /\ \A l \in Keys : l # k => registry'[l] = registry[l]
  BY <1>1, <1>3, Suspending
<1>5. registry'[k] # Absent /\ registry'[k].since # Live
  BY <1>4, AbsentAssumption, Bounds DEF TypeOK
<1>6. /\ leaked \subseteq leaked'
      /\ \A l \in Keys : l # k => entries'[l] = entries[l]
      /\ ~Connected => entries' = entries
      /\ k \notin leaked' /\ entries'[k] # Absent => ~entries'[k].reporting
  <2>1. CASE entries[k] = Absent
    BY <1>1, <2>1 DEF SuspendNext
  <2>2. CASE entries[k] # Absent
    <3>1. entries[k] \in Entries
      BY <2>2 DEF TypeOK
    <3>2. entries' = [entries EXCEPT ![k].reporting = FALSE] => ~entries'[k].reporting
      BY <3>1 DEF TypeOK, Entries
    <3>3. Connected
      BY <2>2 DEF OnlyInSession
    <3> QED
      BY <2>2, <3>2, <3>3 DEF SuspendNext, TypeOK
  <2> QED
    BY <2>1, <2>2
<1>7. (InHand /\ OnlyInSession /\ Saved)'
  BY <1>1, <1>2, <1>3, <1>4, <1>6 DEF InHand, OnlyInSession, Saved, Connected, IsLive, Stored
<1>8. Monitored'
  BY <1>1, <1>4, <1>5, <1>6 DEF Monitored, Connected, IsLive, Stored
<1>9. Asked'
  BY <1>1, <1>4, <1>5, <1>6 DEF Asked, BeingRemoved, IsLive, Stored
<1>10. Promised'
  BY <1>1, <1>4, <1>5 DEF Promised, Stored
<1>11. Lapsed'
  BY <1>1, <1>2, <1>4, <1>5 DEF Lapsed, Suspended, Stored
<1> QED
  BY <1>7, <1>8, <1>9, <1>10, <1>11

LEMMA FitsExpiryCheck ==
  ASSUME IInv, TakeExpiryCheck \/ \E k \in Keys : RemoveExpiredItem(k) PROVE Fits'
<1> USE DEF IInv, Fits, Doing
<1>1. CASE TakeExpiryCheck
  <2>1. job = Absent /\ UNCHANGED <<session, link, entries, leaked, alive, lapsed, forgot>>
    BY <1>1 DEF TakeExpiryCheck, Take
  <2>2. /\ job' # Absent => job'.kind = "ExpiryCheck" /\ job'.doomed = Overdue(registry)
        /\ job' = Absent => Overdue(registry) = {}
    <3>1. Overdue(registry) \subseteq Keys /\ {} \subseteq Replies
      BY DEF Overdue
    <3> QED
      BY <1>1, <3>1, Continuing DEF TakeExpiryCheck
  <2>3. /\ registry' = Unexpired(registry)
        /\ \A k \in Keys : told'[k] = IF k \in Overdue(registry) THEN "None" ELSE told[k]
    BY <1>1, Expiring DEF TakeExpiryCheck
  <2>4. \A k \in Keys : /\ k \in Overdue(registry) => registry'[k] = Absent
                        /\ k \notin Overdue(registry) => registry'[k] = registry[k]
    BY <2>3 DEF Unexpired
  <2>5. (InHand /\ OnlyInSession)'
    BY <2>1, <2>2, <2>4 DEF InHand, OnlyInSession, Connected, Stored, Overdue
  <2>6. Monitored'
    BY <2>1, <2>3, <2>4 DEF Monitored, Connected, IsLive, Stored
  <2>7. Asked'
    <3>1. SUFFICES ASSUME NEW k \in Keys \ leaked, entries[k] # Absent, ~BeingRemoved(k)'
                   PROVE  Stored(k)' /\ (entries[k].reporting => IsLive(k)')
      BY <2>1 DEF Asked
    <3>2. k \notin Overdue(registry)
      BY <2>2, <3>1 DEF BeingRemoved
    <3> QED
      BY <2>1, <2>4, <3>1, <3>2 DEF Asked, BeingRemoved, IsLive, Stored
  <2>8. (Saved /\ Promised /\ Lapsed)'
    BY <1>1, <2>1, <2>2, FitsExpiring DEF TakeExpiryCheck
  <2> QED
    BY <2>5, <2>6, <2>7, <2>8
<1>2. ASSUME NEW k \in Keys, RemoveExpiredItem(k) PROVE Fits'
  <2>1. /\ job # Absent /\ job.kind = "ExpiryCheck" /\ k \in job.doomed /\ ~Stored(k)
        /\ UNCHANGED <<registry, disk, saveFailed, session, link, alive, lapsed, told, forgot>>
    BY <1>2 DEF RemoveExpiredItem, InHand
  <2>2. /\ job' # Absent => job'.kind = "ExpiryCheck" /\ job'.doomed = job.doomed \ {k}
        /\ job' = Absent => job.doomed \ {k} = {}
    <3>1. job.doomed \ {k} \subseteq Keys /\ {} \subseteq Replies
      BY <2>1 DEF TypeOK, Jobs
    <3> QED
      BY <1>2, <2>1, <3>1, Continuing DEF RemoveExpiredItem
  <2>3. /\ leaked \subseteq leaked'
        /\ ~Connected => entries' = entries
        /\ \A l \in Keys : l # k => entries'[l] = entries[l]
        /\ Connected => entries'[k] = Absent
    BY <1>2 DEF RemoveExpiredItem, RemoveFromSession, MayLeak, TypeOK
  <2>4. entries'[k] = Absent
    BY <2>3 DEF OnlyInSession
  <2>5. (InHand /\ OnlyInSession /\ Saved)'
    BY <2>1, <2>2, <2>3 DEF InHand, OnlyInSession, Saved, Connected, Stored
  <2>6. (Monitored /\ Promised /\ Lapsed)'
    BY <2>1, <2>2, <2>3 DEF Monitored, Promised, Lapsed, Connected, IsLive, Suspended, Stored
  <2>7. Asked'
    <3>1. SUFFICES ASSUME NEW l \in Keys \ leaked', entries'[l] # Absent, ~BeingRemoved(l)'
                   PROVE  Stored(l)' /\ (entries'[l].reporting => IsLive(l)')
      BY DEF Asked
    <3>2. l # k /\ entries'[l] = entries[l] /\ l \notin leaked
      BY <2>3, <2>4, <3>1
    <3>3. ~BeingRemoved(l)
      BY <2>1, <2>2, <3>1, <3>2 DEF BeingRemoved
    <3> QED
      BY <2>1, <3>1, <3>2, <3>3 DEF Asked, IsLive, Stored
  <2> QED
    BY <2>5, <2>6, <2>7
<1> QED
  BY <1>1, <1>2

LEMMA FitsRestart == ASSUME IInv, Restart PROVE Fits'
<1> USE DEF IInv, Fits, Doing
<1>1. /\ job' = Absent /\ ~Connected' /\ UNCHANGED <<alive, lapsed>>
      /\ \A k \in Keys : entries'[k] = Absent
      /\ forgot' = (forgot \/ saveFailed)
  BY DEF Restart, Connected
<1>2. /\ registry' = Unexpired(disk) /\ (saveFailed' \/ disk' = registry')
      /\ \A k \in Keys : told'[k] = IF k \in Overdue(disk) THEN "None" ELSE told[k]
  BY Restarting
<1>3. (InHand /\ OnlyInSession /\ Monitored /\ Asked /\ Saved)'
  BY <1>1, <1>2 DEF InHand, OnlyInSession, Monitored, Asked, Saved
<1>4. ASSUME ~forgot'
      PROVE  /\ ~forgot
             /\ \A k \in Keys : /\ k \in Overdue(registry) => registry'[k] = Absent /\ told'[k] = "None"
                                /\ k \notin Overdue(registry) => registry'[k] = registry[k] /\ told'[k] = told[k]
  <2>1. ~forgot /\ disk = registry
    BY <1>1, <1>4 DEF Saved, TypeOK
  <2> QED
    BY <1>2, <2>1 DEF Unexpired
<1>5. (Promised /\ Lapsed)'
  BY <1>1, <1>4 DEF Promised, Lapsed, Suspended, Stored, Overdue
<1> QED
  BY <1>3, <1>5

-----------------------------------------------------------------------------
(* The inductive invariant, and what follows from it.                        *)

LEMMA InitIInv == Init => IInv
<1> SUFFICES ASSUME Init PROVE IInv
  OBVIOUS
<1>1. TypeOK
  <2>1. /\ registry \in [Keys -> Definitions \cup {Absent}] /\ disk = registry
        /\ names \in [Items -> Names \cup {Absent}]
        /\ published \in [Items -> Names \cup {Absent}]
        /\ entries \in [Keys -> Entries \cup {Absent}]
        /\ told \in [Keys -> Statuses]
    BY DEF Init, Statuses
  <2>2. work \in Seq(Work) /\ routed \in Seq(Requests)
    BY DEF Init
  <2>3. session \in 0 .. MaxSessions /\ link \in 0 .. MaxSessions /\ clock \in 0 .. MaxClock
    BY Bounds DEF Init, NoSession
  <2>4. used \in [Budgets -> Nat]
    BY DEF Init, Budgets
  <2> QED
    BY <2>1, <2>2, <2>3, <2>4 DEF Init, TypeOK, Budgets
<1>2. Discovered /\ Numbered
  BY Bounds DEF Init, Discovered, Numbered, NoSession
<1>3. Fits
  BY DEF Init, Fits, InHand, OnlyInSession, Monitored, Asked, Saved, Promised, Lapsed, Doing,
         Connected, IsLive, Suspended, Stored
<1> QED
  BY <1>1, <1>2, <1>3 DEF IInv

LEMMA NextIInv == IInv /\ [Next]_vars => IInv'
<1> SUFFICES ASSUME IInv, [Next]_vars PROVE IInv'
  OBVIOUS
<1>1. TypeOK'
  BY NextTypeOK DEF IInv, Fits
<1>2. Discovered' /\ Numbered'
  BY <1>1, NextDiscovered, NextNumbered DEF IInv, Fits
<1>3. Fits'
  <2>1. CASE UNCHANGED vars
    BY <2>1, Aside DEF vars, coordinator, IInv
  <2> QED
    BY <2>1, FitsOutside, FitsQueueing, FitsMonitor, FitsAnswers, FitsDelete, FitsSessions,
       FitsReplyToCheck, FitsSuspending, FitsExpiryCheck, FitsRestart
    DEF Next, Reader, Queueing, Notifying
<1> QED
  BY <1>1, <1>2, <1>3 DEF IInv

\* The registry, its file, the queue, the handler in hand and the monitored
\* items agree, at every await, as IInv says, whatever crashes or is lost.
THEOREM Invariance == Spec => []IInv
BY InitIInv, NextIInv, PTL DEF Spec

\* The types hold in every reachable state; in particular a handler that resumes
\* after an await finds the monitor it has in hand a definition it can apply.
THEOREM TypeCorrect == Spec => []TypeOK
<1>1. IInv => TypeOK
  BY DEF IInv
<1> QED
  BY <1>1, Invariance, PTL

\* A monitor its client was told is Active is monitored by the session that is
\* up, with the parameters of the last Monitor command, once a handler is done.
THEOREM ActiveMonitorsReport == Spec => []ActiveIsMonitored
<1>1. IInv => ActiveIsMonitored
  BY DEF IInv, Fits, Monitored, Doing, ActiveIsMonitored
<1> QED
  BY <1>1, Invariance, PTL

\* Once a handler is done a session monitors nothing deleted or expired and
\* nothing suspended, but for what the server would not let go of.
THEOREM NothingUnasked == Spec => []NothingMonitoredUnasked
<1>1. IInv => NothingMonitoredUnasked
  BY DEF IInv, Fits, Asked, BeingRemoved, Doing, NothingMonitoredUnasked
<1> QED
  BY <1>1, Invariance, PTL

\* What a client was told of its monitor is in the file, so that a crash at any
\* moment keeps it, unless a write failed.
THEOREM PromisesKept == Spec => []PromisesAreDurable
<1>1. IInv => PromisesAreDurable
  BY DEF IInv, Fits, Saved, Promised, Stored, PromisesAreDurable
<1> QED
  BY <1>1, Invariance, PTL

\* A check suspends only monitors whose reply-to was gone since their client's
\* last Monitor command.
THEOREM OnlyTheGoneAreSuspended == Spec => []SuspendedOnlyIfGone
<1>1. IInv => SuspendedOnlyIfGone
  BY DEF IInv, Fits, Lapsed, SuspendedOnlyIfGone
<1> QED
  BY <1>1, Invariance, PTL

=============================================================================
