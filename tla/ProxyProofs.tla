------------------------------ MODULE ProxyProofs ------------------------------
(* What holds of a proxy for every bound on faults, messages and calls.        *)
EXTENDS Proxy, SequenceTheorems, TLAPS

\* Where a thread stands while it subscribes, and what only the receiver does.
Calling == {"looking", "binding", "entering", "listing"}
Connecting == {"asking", "telling", "arming"}
ReceiverPlaces == Calling \cup Connecting \cup {"idle", "heard", "leaving", "recovering"}
OtherPlaces == Calling \cup {"idle", "unlisted", "unbinding"}
ResetterPlaces == Calling \cup {"idle", "leaving"}
Places == ReceiverPlaces \cup OtherPlaces

PlacesOK ==
    /\ at \in [Threads -> Places]
    /\ at["receiver"] \in ReceiverPlaces
    /\ at["application"] \in OtherPlaces
    /\ at["resetter"] \in ResetterPlaces

WordsOK ==
    /\ link \in {"none", "connecting", "configuring", "dropped", "up", "down"}
    /\ owner \in {"new", "construct", "constructing", "assign", "running", "stopping",
                  "disposing", "stopped"}
    /\ keys \in {"unread", "bind", "leave", "done"}
    /\ hb \in Threads \cup {None}
    /\ watching \in {"no", "half", "yes"}

BeatsOK ==
    /\ count \in Nat
    /\ last \in Nat \cup {None} /\ beat \in Nat \cup {None}
    /\ wire \in Seq(Nat)

AnswersOK == connected \in BOOLEAN /\ told \in BOOLEAN /\ skipped \in BOOLEAN

ProxyTypeOK == PlacesOK /\ WordsOK /\ BeatsOK /\ AnswersOK

\* Who holds the heartbeat lock, and what that says of the others: while it
\* connects the service is there, while handlers hear that it is gone it is not.
HeartbeatLock ==
    /\ hb = "receiver" => at["receiver"] \in Calling \cup Connecting \cup {"leaving"}
    /\ at["receiver"] \in Connecting => hb = "receiver" /\ connected
    /\ hb = "resetter" <=> at["resetter"] # "idle"
    /\ hb = "application" => at["application"] \in Calling
    /\ at["receiver"] = "leaving" \/ at["resetter"] = "leaving" => ~connected
    /\ at["receiver"] = "heard" => beat # None
    /\ connected <=> last # None

\* Who was told of a service that is not there is about to be told, or was skipped;
\* who was not told of one that is there is about to be, or all are about to hear
\* that it is gone.
Told ==
    /\ told => watching = "yes"
    /\ told => connected \/ skipped \/ at["receiver"] = "leaving" \/ at["resetter"] = "leaving"
    /\ watching = "yes" /\ connected => told \/ at["receiver"] \in {"asking", "telling", "recovering"}
    /\ skipped => told

\* The first heartbeat of a service that was not asked yet is still to be heard.
FirstIsOnItsWay == \E i \in 1 .. Len(wire) : wire[i] = 0
FirstIsHeard == at["receiver"] = "heard" /\ beat = 0
NotAsked == connected /\ at["receiver"] # "asking" /\ ~(asked \/ excused)
FirstIsComing == NotAsked /\ count > 0 => FirstIsOnItsWay \/ FirstIsHeard

\* The life of the field and of the link.
Lives ==
    /\ owner \in {"new", "construct"} => link = "none"
    /\ ~field => owner \notin {"running", "stopping", "disposing"}
    /\ owner = "stopped" => ~field
    /\ keys # "unread" => link \in {"configuring", "dropped"}

\* Nothing was heard before there was a link.
Beginning == link = "none" => wire = <<>> /\ at["receiver"] = "idle" /\ ~connected

Listed == registered \/ \E t \in Threads : at[t] \in {"entering", "listing"}

\* As long as no calls overlap: at most one is under way, an UnSubscribe has its
\* way, and what is listed is bound or will be by the configuration under way.
Bound ==
    ~overlapped /\ owner # "stopped" =>
        /\ \A t, u \in Threads : Changing(t) /\ Changing(u) => t = u
        /\ Unsubscribing("application") => ~Listed
        /\ link = "configuring" /\ keys = "leave" => ~Listed
        /\ Listed /\ (link = "up" \/ (link = "configuring" /\ keys = "done")) => bound

ProxyInv == ProxyTypeOK /\ HeartbeatLock /\ Told /\ FirstIsComing /\ Lives /\ Beginning /\ Bound

-----------------------------------------------------------------------------
USE ProxyAssumption, TopAssumption
  DEF Threads, Places, ReceiverPlaces, OtherPlaces, ResetterPlaces, Connecting, Calling, linkVars,
      sourceVars, processor, threads, keyVars, app, history

\* What moves no thread.
Starts == Start \/ ConstructTransport \/ Assign \/ DisposeTransport
Elsewhere ==
    \/ Starts \/ TransportConnects \/ TransportConfigures \/ LinkReconnects \/ LinkDrops \/ LinkForgets
    \/ SourceChanges \/ Publish \/ Elapse

Resets == Stop \/ TimeOut

Hears == Consume \/ HearLater \/ HearEarlier \/ Ask \/ Tell \/ HandlerThrows \/ Recover \/ ArmTimer

Asks == Watch \/ Subscribe \/ Unlist \/ LookForNone \/ Unbind

Leaves(t) == TellGone(t) \/ GoneHandlerThrows(t)

LEMMA Actions ==
  Next => \/ Elsewhere \/ Resets \/ Hears \/ Asks
          \/ \E t \in Threads : Leaves(t) \/ Subscribes(t)
  BY DEF Next, Owner, Starts, Elsewhere, Resets, Hears, Asks, Leaves, Receiver, Resetter, Application

LEMMA NobodyMoves == Elsewhere => UNCHANGED <<at, hb, beat, registered, watching, told, skipped>>
<1>1. Starts => UNCHANGED <<at, hb, beat, registered, watching, told, skipped>>
  BY DEF Starts, Start, ConstructTransport, Assign, DisposeTransport
<1>2. TransportConnects \/ LinkReconnects \/ LinkDrops \/ LinkForgets
        => UNCHANGED <<at, hb, beat, registered, watching, told, skipped>>
  BY DEF TransportConnects, LinkConnects, LinkFails, LinkReconnects, LinkDrops, LinkForgets
<1>3. TransportConfigures => UNCHANGED <<at, hb, beat, registered, watching, told, skipped>>
  BY DEF TransportConfigures, ReadKeys, BindKeys, LinkIsConfigured
<1>4. SourceChanges \/ Publish \/ Elapse => UNCHANGED <<at, hb, beat, registered, watching, told, skipped>>
  BY DEF SourceChanges, Publish, Elapse
<1> QED
  BY <1>1, <1>2, <1>3, <1>4 DEF Elsewhere

\* The timer and Stop.
LEMMA ResetterStarts ==
  ASSUME PlacesOK, Resets
  PROVE  /\ hb = None /\ last' = None /\ ~connected' /\ connected' \in BOOLEAN
         /\ \/ UNCHANGED <<at, hb>> /\ ~(connected /\ watching = "yes")
            \/ /\ at["resetter"] = "idle" /\ at'["resetter"] = "leaving" /\ hb' = "resetter"
               /\ at' = [at EXCEPT !["resetter"] = "leaving"]
               /\ at'["receiver"] = at["receiver"] /\ at'["application"] = at["application"]
         /\ UNCHANGED <<linkVars, sourceVars, field, beat, keyVars, watching, told, skipped, wire, history>>
         /\ owner' = owner \/ (owner = "running" /\ owner' \in {"stopping", "disposing"})
  BY DEF PlacesOK, Resets, Stop, TimeOut, ResetByOther, Reset, HandlersRun, Go

\* The handlers that hear that the service is gone.
LEMMA ResetterLeaves ==
  ASSUME PlacesOK, HeartbeatLock, NEW t \in Threads, Leaves(t)
  PROVE  /\ at[t] = "leaving" /\ t # "application" /\ ~connected
         /\ at' = [at EXCEPT ![t] = at'[t]] /\ at' \in [Threads -> Places]
         /\ \A u \in Threads \ {t} : at'[u] = at[u]
         /\ \/ at'[t] = "looking" /\ hb' = hb
            \/ at'[t] \in {"idle", "recovering"} /\ (at'[t] = "recovering" => t = "receiver")
               /\ hb' = IF hb = t THEN None ELSE hb
         /\ UNCHANGED <<linkVars, sourceVars, field, last, connected, late, beat, keyVars, watching,
                        wire, history>>
         /\ owner' = owner \/ (owner = "stopping" /\ owner' \in {"disposing", "running"})
<1> USE DEF PlacesOK
<1>1. at[t] = "leaving" /\ t # "application" /\ ~connected
  BY DEF HeartbeatLock, Leaves, TellGone, GoneHandlerThrows, Go
<1>2. ASSUME TellGone(t), HandlersReturn(t)
      PROVE  /\ at' = [at EXCEPT ![t] = "idle"] /\ hb' = IF hb = t THEN None ELSE hb
             /\ owner' = owner \/ (owner = "stopping" /\ owner' = "disposing")
  BY <1>1, <1>2 DEF HandlersReturn
<1>3. ASSUME TellGone(t), ~HandlersReturn(t)
      PROVE  at' = [at EXCEPT ![t] = "looking"] /\ hb' = hb /\ owner' = owner
  BY <1>3 DEF TellGone, Go
<1>4. ASSUME GoneHandlerThrows(t)
      PROVE  /\ \/ at' = [at EXCEPT ![t] = "idle"]
                \/ t = "receiver" /\ at' = [at EXCEPT ![t] = "recovering"]
             /\ hb' = IF hb = t THEN None ELSE hb
             /\ owner' = owner \/ (owner = "stopping" /\ owner' = "running")
  BY <1>4 DEF GoneHandlerThrows, Go
<1>5. UNCHANGED <<linkVars, sourceVars, field, last, connected, late, beat, keyVars, watching, wire, history>>
  BY DEF Leaves, TellGone, GoneHandlerThrows
<1>6. PICK p \in {"looking", "idle", "recovering"} : at' = [at EXCEPT ![t] = p]
  BY <1>2, <1>3, <1>4 DEF Leaves
<1>7. /\ at' = [at EXCEPT ![t] = at'[t]] /\ at' \in [Threads -> Places]
      /\ \A u \in Threads \ {t} : at'[u] = at[u]
  <2>1. p \in Places /\ at'[t] = p
    BY <1>6
  <2> QED
    BY <1>6, <2>1
<1> QED
  BY <1>1, <1>2, <1>3, <1>4, <1>5, <1>7 DEF Leaves

\* The four pieces of Subscribe.
LEMMA SubscribeMoves ==
  ASSUME PlacesOK, NEW t \in Threads, Subscribes(t)
  PROVE  /\ at[t] \in Calling
         /\ \/ ~List(t) /\ at'[t] \in Calling
            \/ List(t) /\ (at'[t] = "idle" \/ (t = "receiver" /\ hb = t /\ connected /\ at'[t] = "arming"))
         /\ \A u \in Threads \ {t} : at'[u] = at[u]
         /\ at' = [at EXCEPT ![t] = at'[t]]
         /\ UNCHANGED <<linkVars, sourceVars, field, last, connected, timer, late, beat, keys,
                        app, wire, asked, excused>>
         /\ ~List(t) => UNCHANGED <<hb, registered, owner>>
         /\ List(t) => hb' = IF hb = t /\ at'[t] # "arming" THEN None ELSE hb
         /\ owner' = owner \/ (owner = "stopping" /\ owner' = "disposing")
<1> USE DEF PlacesOK
<1>1. CASE Look(t)
  BY <1>1 DEF Look, Go, List
<1>2. CASE Bind(t)
  BY <1>2 DEF Bind, Go, List
<1>3. CASE Enter(t)
  BY <1>3 DEF Enter, Go, List
<1>4. CASE List(t)
  BY <1>4 DEF List, HandlersReturn
<1> QED
  BY <1>1, <1>2, <1>3, <1>4 DEF Subscribes

-----------------------------------------------------------------------------
(* Types.                                                                    *)

LEMMA PlacesKept == PlacesOK /\ HeartbeatLock /\ Next => PlacesOK'
<1> SUFFICES ASSUME PlacesOK, HeartbeatLock, Next PROVE PlacesOK'
  OBVIOUS
<1>1. CASE Elsewhere
  BY <1>1, NobodyMoves DEF PlacesOK
<1>2. CASE Hears
  <2>1. \E p \in ReceiverPlaces : at' = [at EXCEPT !["receiver"] = p]
    <3>1. Consume \/ HearLater \/ HearEarlier \/ Ask
            => \E p \in ReceiverPlaces : at' = [at EXCEPT !["receiver"] = p]
      BY DEF Consume, HearLater, HearEarlier, Ask, Go, PlacesOK
    <3>2. Tell \/ HandlerThrows \/ Recover \/ ArmTimer
            => \E p \in ReceiverPlaces : at' = [at EXCEPT !["receiver"] = p]
      BY DEF Tell, HandlerThrows, Recover, ArmTimer, Go
    <3> QED
      BY <1>2, <3>1, <3>2 DEF Hears
  <2> QED
    BY <2>1 DEF PlacesOK
<1>3. CASE Asks
  BY <1>3 DEF PlacesOK, Asks, Watch, Subscribe, Unlist, LookForNone, Unbind, Go
<1>4. ASSUME NEW t \in Threads, Subscribes(t) PROVE PlacesOK'
  <2>1. at' = [at EXCEPT ![t] = at'[t]]
    BY <1>4, SubscribeMoves
  <2>2. at'[t] \in Calling \cup {"idle"} \/ (t = "receiver" /\ at'[t] = "arming")
    BY <1>4, SubscribeMoves
  <2>3. \A u \in Threads \ {t} : at'[u] = at[u]
    BY <1>4, SubscribeMoves
  <2>4. at' \in [Threads -> Places]
    BY <2>1, <2>2 DEF PlacesOK
  <2> QED
    BY <2>2, <2>3, <2>4 DEF PlacesOK
<1>5. CASE Resets
  <2>1. at' = at \/ at' = [at EXCEPT !["resetter"] = "leaving"]
    BY <1>5, ResetterStarts
  <2> QED
    BY <2>1 DEF PlacesOK
<1>6. ASSUME NEW t \in Threads, Leaves(t) PROVE PlacesOK'
  BY <1>6, ResetterLeaves DEF PlacesOK
<1> QED
  BY <1>1, <1>2, <1>3, <1>4, <1>5, <1>6, Actions

LEMMA WordsKept == PlacesOK /\ HeartbeatLock /\ WordsOK /\ Next => WordsOK'
<1> SUFFICES ASSUME PlacesOK, HeartbeatLock, WordsOK, Next PROVE WordsOK'
  OBVIOUS
<1> USE DEF WordsOK
<1>1. CASE Elsewhere
  <2>1. hb' = hb /\ watching' = watching
    BY <1>1, NobodyMoves
  <2>2. CASE Starts
    BY <2>1, <2>2 DEF Starts, Start, ConstructTransport, Construct, Assign, DisposeTransport, Dispose
  <2>3. CASE TransportConnects \/ LinkReconnects \/ LinkDrops \/ LinkForgets
    BY <2>1, <2>3 DEF TransportConnects, LinkConnects, Connect, LinkFails, ConnectFails, Returned,
                      LinkReconnects, Reconnect, LinkDrops, Drop, LinkForgets, Forget
  <2>4. CASE TransportConfigures
    BY <2>1, <2>4 DEF TransportConfigures, ReadKeys, BindKeys, LinkIsConfigured, Configure, Returned
  <2>5. CASE SourceChanges \/ Publish \/ Elapse
    BY <2>1, <2>5 DEF SourceChanges, Publish, Elapse
  <2> QED
    BY <1>1, <2>2, <2>3, <2>4, <2>5 DEF Elsewhere
<1>2. CASE Hears
  BY <1>2 DEF Hears, Consume, HearLater, HearEarlier, Ask, Tell, HandlerThrows, Recover, ArmTimer
<1>3. CASE Asks
  <2>1. CASE Watch
    <3>1. /\ watching' \in {"yes", "half"} /\ hb' \in {hb, "application"}
          /\ UNCHANGED <<link, owner, keys>>
      BY <2>1 DEF Watch
    <3> QED
      BY <3>1
  <2>2. Subscribe \/ Unlist \/ LookForNone \/ Unbind => UNCHANGED <<link, owner, keys, hb, watching>>
    BY DEF Subscribe, Unlist, LookForNone, Unbind
  <2> QED
    BY <1>3, <2>1, <2>2 DEF Asks
<1>4. ASSUME NEW t \in Threads, Subscribes(t) PROVE WordsOK'
  <2>1. hb' \in {hb, None} /\ owner' \in {owner, "disposing"}
    BY <1>4, SubscribeMoves
  <2> QED
    BY <1>4, <2>1, SubscribeMoves
<1>5. CASE Resets
  BY <1>5, ResetterStarts
<1>6. ASSUME NEW t \in Threads, Leaves(t) PROVE WordsOK'
  <2>1. /\ hb' \in {hb, None} /\ owner' \in {owner, "disposing", "running"}
        /\ UNCHANGED <<link, keys, watching>>
    BY <1>6, ResetterLeaves
  <2> QED
    BY <2>1
<1> QED
  BY <1>1, <1>2, <1>3, <1>4, <1>5, <1>6, Actions

\* Who changes what the heartbeats tell.
LEMMA Changes ==
  ASSUME PlacesOK, HeartbeatLock, Next
  PROVE
    /\ count' # count => SourceChanges \/ Publish
    /\ wire' # wire => Consume \/ Publish \/ (wire' = <<>> /\ excused')
    /\ beat' # beat => Consume \/ beat' = None
    /\ UNCHANGED <<last, connected>> \/ HearLater \/ (last' = None /\ connected' = FALSE)
    /\ asked \/ excused => SourceChanges \/ asked' \/ excused'
<1>1. CASE Start
  BY <1>1 DEF Start, Reset
<1>2. CASE DisposeTransport \/ LinkReconnects \/ LinkDrops
  <2>1. wire' = <<>> /\ excused' = (excused \/ wire # <<>>)
    BY <1>2 DEF DisposeTransport, LinkReconnects, LinkDrops, Cut
  <2>2. (excused => excused') /\ (wire' # wire => excused')
    BY <2>1
  <2> QED
    BY <1>2, <2>1, <2>2 DEF DisposeTransport, LinkReconnects, LinkDrops
<1>3. CASE SourceChanges
  BY <1>3 DEF SourceChanges
<1>4. CASE Publish
  BY <1>4 DEF Publish
<1>5. CASE \/ ConstructTransport \/ Assign \/ LinkConnects \/ LinkFails \/ LinkForgets
           \/ ReadKeys \/ BindKeys \/ LinkIsConfigured \/ Elapse
  BY <1>5 DEF ConstructTransport, Assign, LinkConnects, LinkFails, LinkForgets, ReadKeys, BindKeys,
              LinkIsConfigured, Elapse
<1>6. CASE Hears
  BY <1>6 DEF Hears, Consume, HearLater, HearEarlier, Ask, Tell, HandlerThrows, Recover, ArmTimer, Reset
<1>7. CASE Asks
  <2>1. Watch => UNCHANGED <<count, wire, beat, last, connected, asked, excused>>
    BY DEF Watch
  <2>2. Subscribe \/ Unlist \/ LookForNone \/ Unbind
          => UNCHANGED <<count, wire, beat, last, connected, asked, excused>>
    BY DEF Subscribe, Unlist, LookForNone, Unbind
  <2> QED
    BY <1>7, <2>1, <2>2 DEF Asks
<1>8. ASSUME NEW t \in Threads, Subscribes(t) \/ Leaves(t)
      PROVE UNCHANGED <<count, wire, beat, last, connected, asked, excused>>
  BY <1>8, SubscribeMoves, ResetterLeaves
<1>9. CASE Resets
  BY <1>9 DEF Resets, Stop, TimeOut, ResetByOther, Reset
<1> QED
  BY <1>1, <1>2, <1>3, <1>4, <1>5, <1>6, <1>7, <1>8, <1>9, Actions
  DEF Elsewhere, Starts, TransportConnects, TransportConfigures

LEMMA BeatsKept == PlacesOK /\ BeatsOK /\ HeartbeatLock /\ Next => BeatsOK'
<1> SUFFICES ASSUME PlacesOK, BeatsOK, HeartbeatLock, Next PROVE BeatsOK'
  OBVIOUS
<1> USE DEF BeatsOK
<1>1. count' \in Nat
  <2>1. SourceChanges => count' = count \/ count' = 0
    BY DEF SourceChanges, Begin, Die, StartAgain
  <2>2. Publish => count' \in Nat
    BY DEF Publish, Beat
  <2> QED
    BY <2>1, <2>2, Changes
<1>2. wire' \in Seq(Nat)
  <2>1. Consume => wire # <<>> /\ wire' = Tail(wire)
    BY DEF Consume
  <2>2. Publish => wire' = Append(wire, count) \/ wire' = wire
    BY DEF Publish
  <2>3. Tail(wire) \in Seq(Nat) \/ wire = <<>>
    BY HeadTailProperties
  <2>4. Append(wire, count) \in Seq(Nat) /\ <<>> \in Seq(Nat)
    BY AppendProperties, EmptySeq
  <2> QED
    BY <2>1, <2>2, <2>3, <2>4, Changes
<1>3. beat' \in Nat \cup {None}
  <2>1. Consume => wire # <<>> /\ beat' = Head(wire)
    BY DEF Consume
  <2>2. wire # <<>> => Head(wire) \in Nat
    BY HeadTailProperties
  <2> QED
    BY <2>1, <2>2, Changes
<1>4. last' \in Nat \cup {None}
  <2>1. HearLater => last' = beat
    BY DEF HearLater
  <2> QED
    BY <2>1, Changes
<1> QED
  BY <1>1, <1>2, <1>3, <1>4

LEMMA AnswersKept == PlacesOK /\ HeartbeatLock /\ AnswersOK /\ Next => AnswersOK'
<1> SUFFICES ASSUME PlacesOK, HeartbeatLock, AnswersOK, Next PROVE AnswersOK'
  OBVIOUS
<1>1. connected' \in {connected, TRUE, FALSE}
  BY Changes DEF HearLater
<1>2. Elsewhere \/ Resets => UNCHANGED <<told, skipped>>
  BY NobodyMoves, ResetterStarts
<1>3. Hears => UNCHANGED <<told, skipped>>
               \/ (skipped' \in {skipped, FALSE} /\ told' = (told \/ watching = "yes"))
               \/ (skipped' = skipped /\ \E b \in BOOLEAN : told' = (told \/ (b /\ watching = "yes")))
  BY DEF Hears, Consume, HearLater, HearEarlier, Ask, Tell, HandlerThrows, Recover, ArmTimer
<1>4. Asks => told' \in {told, connected} /\ skipped' = skipped
  BY DEF Asks, Watch, Subscribe, Unlist, LookForNone, Unbind
<1>5. ASSUME NEW t \in Threads, Subscribes(t) PROVE UNCHANGED <<told, skipped>>
  BY <1>5 DEF Subscribes, Look, Bind, Enter, List
<1>6. ASSUME NEW t \in Threads, Leaves(t)
      PROVE  \/ told' = FALSE /\ skipped' = FALSE
             \/ skipped' = told' /\ \E b \in BOOLEAN : told' = (told /\ b)
  BY <1>6 DEF Leaves, TellGone, GoneHandlerThrows
<1>7. told' \in BOOLEAN /\ skipped' \in BOOLEAN
  BY <1>2, <1>3, <1>4, <1>5, <1>6, Actions, Zenon DEF AnswersOK
<1>8. connected' \in BOOLEAN
  BY <1>1, Zenon DEF AnswersOK
<1> QED
  BY <1>7, <1>8 DEF AnswersOK

-----------------------------------------------------------------------------
(* The heartbeat lock and what was told.                                     *)

\* What resets changes nothing while the lock is held, unless a handler threw.
LEMMA LockKept == ProxyTypeOK /\ HeartbeatLock /\ Next => HeartbeatLock'
<1> SUFFICES ASSUME ProxyTypeOK, HeartbeatLock, Next PROVE HeartbeatLock'
  OBVIOUS
<1>t. PlacesOK /\ hb \in Threads \cup {None} /\ BeatsOK
  BY DEF ProxyTypeOK, WordsOK
<1> USE DEF PlacesOK
<1>1. CASE Elsewhere
  <2>1. (last' = last /\ connected' = connected) \/ (last' = None /\ connected' = FALSE /\ hb = None)
    BY <1>1 DEF Elsewhere, Starts, TransportConnects, TransportConfigures, Start, ConstructTransport,
           Assign, DisposeTransport, LinkConnects, LinkFails, LinkReconnects, LinkDrops,
           LinkForgets, ReadKeys, BindKeys, LinkIsConfigured, SourceChanges, Publish, Elapse, Reset
  <2>2. at' = at /\ hb' = hb /\ beat' = beat
    BY <1>1, NobodyMoves
  <2>3. (last' = last /\ (connected' <=> connected)) \/ (hb = None /\ last' = None /\ ~connected')
    BY <2>1, Zenon
  <2> QED
    BY <2>2, <2>3 DEF HeartbeatLock
<1>2. CASE Consume
  <2>1. wire # <<>> /\ beat' = Head(wire)
    BY <1>2 DEF Consume
  <2>2. Head(wire) \in Nat
    BY <1>t, <2>1, HeadTailProperties DEF BeatsOK
  <2>3. beat' # None
    BY <2>1, <2>2
  <2> QED
    BY <1>t, <1>2, <2>3 DEF Consume, Go, HeartbeatLock
<1>3. CASE HearLater
  BY <1>t, <1>3 DEF HearLater, Go, BeatsOK, HeartbeatLock
<1>4. CASE HearEarlier
  BY <1>t, <1>4 DEF HearEarlier, Reset, Go, HeartbeatLock
<1>5. CASE Ask \/ Tell
  BY <1>t, <1>5 DEF Ask, Tell, Go, HeartbeatLock
<1>6. CASE HandlerThrows \/ ArmTimer
  BY <1>t, <1>6 DEF HandlerThrows, ArmTimer, Go, HeartbeatLock
<1>7. CASE Recover
  BY <1>t, <1>7 DEF Recover, Reset, Go, HeartbeatLock
<1>8. CASE Asks
  <2>1. CASE Watch
    BY <1>t, <2>1 DEF Watch, Go, HeartbeatLock
  <2>2. CASE Subscribe \/ Unlist \/ LookForNone \/ Unbind
    <3>1. UNCHANGED <<hb, last, connected, beat>>
      BY <2>2 DEF Subscribe, Unlist, LookForNone, Unbind
    <3>2. /\ at'["receiver"] = at["receiver"] /\ at'["resetter"] = at["resetter"]
          /\ at["application"] \notin Calling
      BY <1>t, <2>2 DEF Subscribe, Unlist, LookForNone, Unbind, Go
    <3> QED
      BY <3>1, <3>2 DEF HeartbeatLock
  <2> QED
    BY <1>8, <2>1, <2>2 DEF Asks
<1>9. ASSUME NEW t \in Threads, Subscribes(t) PROVE HeartbeatLock'
  <2>1. CASE ~List(t)
    BY <1>t, <1>9, <2>1, SubscribeMoves DEF HeartbeatLock
  <2>2. CASE List(t)
    BY <1>t, <1>9, <2>2, SubscribeMoves DEF HeartbeatLock
  <2> QED
    BY <2>1, <2>2
<1>10. CASE Resets
  BY <1>t, <1>10, ResetterStarts DEF HeartbeatLock
<1>11. ASSUME NEW t \in Threads, Leaves(t) PROVE HeartbeatLock'
  BY <1>t, <1>11, ResetterLeaves DEF HeartbeatLock
<1> QED
  BY <1>1, <1>2, <1>3, <1>4, <1>5, <1>6, <1>7, <1>8, <1>9, <1>10, <1>11, Actions DEF Hears

\* Who is told, and when it is taken back.
LEMMA ToldKept == ProxyTypeOK /\ HeartbeatLock /\ Told /\ Lives /\ Beginning /\ Next => Told'
<1> SUFFICES ASSUME ProxyTypeOK, HeartbeatLock, Told, Lives, Beginning, Next PROVE Told'
  OBVIOUS
<1>t. PlacesOK /\ watching \in {"no", "half", "yes"} /\ hb \in Threads \cup {None}
  BY DEF ProxyTypeOK, WordsOK
<1> USE DEF PlacesOK, Told
<1>1. CASE Elsewhere
  <2>1. at' = at /\ watching' = watching /\ (told' <=> told) /\ (skipped' <=> skipped)
    <3>1. UNCHANGED <<at, watching, told, skipped>>
      BY <1>1, NobodyMoves
    <3> QED
      BY <3>1, Zenon
  <2>2. ~Start => connected' = connected
    BY <1>1 DEF Elsewhere, Starts, TransportConnects, TransportConfigures, ConstructTransport,
           Assign, DisposeTransport, LinkConnects, LinkFails, LinkReconnects, LinkDrops,
           LinkForgets, ReadKeys, BindKeys, LinkIsConfigured, SourceChanges, Publish, Elapse
  <2>3. CASE Start
    <3>1. ~connected
      BY <2>3 DEF Start, Lives, Beginning
    <3>2. ~connected'
      BY <2>3, Zenon DEF Start, Reset
    <3> QED
      BY <2>1, <3>1, <3>2
  <2>4. CASE ~Start
    BY <2>1, <2>2, <2>4
  <2> QED
    BY <2>3, <2>4
<1>2. CASE Resets
  BY <1>t, <1>2, ResetterStarts
<1>3. CASE HearEarlier \/ Recover
  <2>1. /\ ~connected' /\ UNCHANGED <<watching, told, skipped>>
        /\ at'["resetter"] = at["resetter"] /\ at["receiver"] # "leaving"
        /\ connected /\ watching = "yes" => at'["receiver"] = "leaving"
    BY <1>t, <1>3 DEF HearEarlier, Recover, Reset, HandlersRun, Go
  <2> QED
    BY <2>1
<1>4. CASE Consume \/ HearLater \/ Ask \/ ArmTimer
  <2>1. UNCHANGED <<watching, told, skipped>>
    BY <1>4 DEF Consume, HearLater, Ask, ArmTimer
  <2>2. (connected' <=> connected) \/ (HearLater /\ connected')
    BY <1>4, Zenon DEF Consume, HearLater, Ask, ArmTimer
  <2>3. at'["resetter"] = at["resetter"] /\ at["receiver"] # "leaving"
    BY <1>t, <1>4 DEF Consume, HearLater, Ask, ArmTimer, Go
  <2> QED
    BY <1>t, <1>4, <2>1, <2>2, <2>3 DEF Consume, HearLater, Ask, ArmTimer, Go
<1>6. CASE Tell \/ HandlerThrows
  <2>1. UNCHANGED <<watching, connected>> /\ connected
    BY <1>6 DEF Tell, HandlerThrows, Go, HeartbeatLock
  <2>2. CASE Tell
    <3>1. told' = (told \/ watching = "yes") /\ skipped' = FALSE
      BY <2>2 DEF Tell
    <3> QED
      BY <2>1, <3>1
  <2>3. CASE HandlerThrows
    <3>1. /\ at'["receiver"] = "recovering" /\ skipped' = skipped
          /\ (told => told') /\ (told' => told \/ watching = "yes")
      BY <1>t, <2>3 DEF HandlerThrows, Go
    <3> QED
      BY <2>1, <3>1
  <2> QED
    BY <1>6, <2>2, <2>3
<1>7. CASE Watch
  <2>1. watching = "no" /\ connected' = connected /\ skipped' = skipped /\ ~told
    BY <1>7 DEF Watch
  <2>2. (watching' = "yes" /\ told' = connected) \/ (watching' = "half" /\ told' = told)
    BY <1>7 DEF Watch
  <2> QED
    BY <2>1, <2>2
<1>8. CASE Subscribe \/ Unlist \/ LookForNone \/ Unbind
  <2>1. /\ UNCHANGED <<watching, told, skipped, connected>>
        /\ at'["receiver"] = at["receiver"] /\ at'["resetter"] = at["resetter"]
    BY <1>t, <1>8 DEF Subscribe, Unlist, LookForNone, Unbind, Go
  <2> QED
    BY <2>1
<1>9. ASSUME NEW t \in Threads, Subscribes(t) PROVE Told'
  <2>1. UNCHANGED <<watching, told, skipped, connected>>
    BY <1>t, <1>9, SubscribeMoves
  <2>2. at[t] \in Calling /\ at'[t] # "leaving" /\ \A u \in Threads \ {t} : at'[u] = at[u]
    BY <1>t, <1>9, SubscribeMoves
  <2> QED
    BY <2>1, <2>2
<1>10. ASSUME NEW t \in Threads, Leaves(t) PROVE Told'
  <2>1. watching' = watching /\ ~connected /\ connected' = connected
    BY <1>t, <1>10, ResetterLeaves
  <2>2. \/ ~told' /\ ~skipped'
        \/ (told' => told) /\ (skipped' <=> told')
    BY <1>10 DEF Leaves, TellGone, GoneHandlerThrows
  <2> QED
    BY <2>1, <2>2
<1> QED
  BY <1>1, <1>2, <1>3, <1>4, <1>6, <1>7, <1>8, <1>9, <1>10, Actions DEF Hears, Asks

-----------------------------------------------------------------------------
(* The first heartbeat of a service started again.                           *)

\* A heartbeat in hand, and a question to ask, are the receiver's next step.
LEMMA ReceiverGoesOn ==
  ASSUME PlacesOK, HeartbeatLock, Next, at["receiver"] \in {"heard", "asking"}
  PROVE  \/ at'["receiver"] = at["receiver"] /\ beat' = beat
         \/ at["receiver"] = "heard" /\ (HearLater \/ HearEarlier)
         \/ at["receiver"] = "asking" /\ Ask
<1> USE DEF PlacesOK
<1>1. CASE Elsewhere
  BY <1>1, NobodyMoves
<1>2. CASE Hears
  BY <1>2 DEF Hears, Consume, HearLater, HearEarlier, Ask, Tell, HandlerThrows, Recover, ArmTimer, Go
<1>3. CASE Asks
  BY <1>3 DEF Asks, Watch, Subscribe, Unlist, LookForNone, Unbind, Go
<1>4. ASSUME NEW t \in Threads, Subscribes(t)
      PROVE at'["receiver"] = at["receiver"] /\ beat' = beat
  BY <1>4, SubscribeMoves
<1>5. CASE Resets
  BY <1>5, ResetterStarts
<1>6. ASSUME NEW t \in Threads, Leaves(t)
      PROVE at'["receiver"] = at["receiver"] /\ beat' = beat
  BY <1>6, ResetterLeaves
<1> QED
  BY <1>1, <1>2, <1>3, <1>4, <1>5, <1>6, Actions

LEMMA FirstKept == ProxyTypeOK /\ HeartbeatLock /\ FirstIsComing /\ Next => FirstIsComing'
<1> SUFFICES ASSUME ProxyTypeOK, HeartbeatLock, FirstIsComing, Next, NotAsked', count' > 0
             PROVE  FirstIsOnItsWay' \/ FirstIsHeard'
  BY DEF FirstIsComing
<1>t. BeatsOK /\ PlacesOK
  BY DEF ProxyTypeOK
<1>1. CASE Consume
  <2>1. /\ wire # <<>> /\ beat' = Head(wire) /\ wire' = Tail(wire)
        /\ at["receiver"] = "idle" /\ at'["receiver"] = "heard"
        /\ UNCHANGED <<connected, count, asked, excused>>
    BY <1>t, <1>1 DEF PlacesOK, Consume, Go
  <2>2. FirstIsOnItsWay
    BY <2>1 DEF FirstIsComing, FirstIsHeard, NotAsked
  <2>3. PICK i \in 1 .. Len(wire) : wire[i] = 0
    BY <2>2 DEF FirstIsOnItsWay
  <2>4. CASE i = 1
    BY <2>1, <2>3, <2>4 DEF FirstIsHeard
  <2>5. CASE i # 1
    <3>1. i - 1 \in 1 .. Len(wire') /\ wire'[i - 1] = 0
      BY <1>t, <2>1, <2>3, <2>5, HeadTailProperties DEF BeatsOK
    <3> QED
      BY <3>1 DEF FirstIsOnItsWay
  <2> QED
    BY <2>4, <2>5
<1>2. CASE Publish /\ wire' # wire
  <2>1. UNCHANGED <<connected, at, beat, asked, excused>> /\ wire' = Append(wire, count)
    BY <1>2 DEF Publish
  <2>2. CASE count = 0
    <3>1. Len(wire) + 1 \in 1 .. Len(wire') /\ wire'[Len(wire) + 1] = 0
      BY <1>t, <2>1, <2>2, AppendProperties DEF BeatsOK
    <3> QED
      BY <3>1 DEF FirstIsOnItsWay
  <2>3. CASE count > 0
    <3>1. CASE FirstIsHeard
      BY <2>1, <3>1 DEF FirstIsHeard
    <3>2. CASE FirstIsOnItsWay
      <4>1. PICK i \in 1 .. Len(wire) : wire[i] = 0
        BY <3>2 DEF FirstIsOnItsWay
      <4>2. i \in 1 .. Len(wire') /\ wire'[i] = 0
        BY <1>t, <2>1, <4>1, AppendProperties DEF BeatsOK
      <4> QED
        BY <4>2 DEF FirstIsOnItsWay
    <3> QED
      BY <2>1, <2>3, <3>1, <3>2 DEF FirstIsComing, NotAsked
  <2> QED
    BY <1>t, <2>2, <2>3 DEF BeatsOK
<1>3. CASE SourceChanges
  <2>1. ~StartAgain
    BY DEF StartAgain
  <2>2. UNCHANGED <<connected, at, beat, asked, excused, wire, count>>
    BY <1>3, <2>1 DEF SourceChanges, Begin, Die
  <2> QED
    BY <2>2 DEF FirstIsComing, FirstIsOnItsWay, FirstIsHeard, NotAsked
<1>4. CASE Publish /\ wire' = wire
  <2>1. excused'
    BY <1>4 DEF Publish
  <2> QED
    BY <2>1 DEF NotAsked
<1>5. CASE ~Consume /\ ~Publish /\ ~SourceChanges
  <2>1. ~(asked' \/ excused')
    BY DEF NotAsked
  <2>2. wire' = wire /\ count' = count /\ ~(asked \/ excused)
    BY <1>t, <1>5, <2>1, Changes
  <2>3. ~HearLater \/ connected
    BY <1>t DEF PlacesOK, HearLater, Go, NotAsked
  <2>4. connected
    BY <1>t, <2>3, Changes DEF NotAsked
  <2>5. at["receiver"] # "asking"
    <3>1. Ask => asked' \/ excused'
      BY DEF Ask
    <3> QED
      BY <1>t, <2>1, <3>1, ReceiverGoesOn DEF NotAsked
  <2>6. FirstIsHeard => FirstIsHeard'
    <3> SUFFICES ASSUME FirstIsHeard PROVE FirstIsHeard'
      OBVIOUS
    <3>1. at["receiver"] = "heard" /\ beat = 0
      BY DEF FirstIsHeard
    <3>2. ~HearLater
      <4>1. last # None /\ last \in Nat
        BY <1>t, <2>4 DEF HeartbeatLock, BeatsOK
      <4> QED
        BY <3>1, <4>1 DEF HearLater, Later
    <3>3. ~HearEarlier
      <4>1. HearEarlier => ~connected'
        BY Zenon DEF HearEarlier, Reset
      <4>2. connected'
        BY Zenon DEF NotAsked
      <4> QED
        BY <4>1, <4>2
    <3> QED
      BY <1>t, <3>1, <3>2, <3>3, ReceiverGoesOn DEF FirstIsHeard
  <2> QED
    BY <2>2, <2>4, <2>5, <2>6 DEF FirstIsComing, FirstIsOnItsWay, NotAsked
<1> QED
  BY <1>1, <1>2, <1>3, <1>4, <1>5

-----------------------------------------------------------------------------
(* The keys of the events subscribed to.                                     *)

LEMMA LivesKept == PlacesOK /\ HeartbeatLock /\ Lives /\ Next => Lives'
<1> SUFFICES ASSUME PlacesOK, HeartbeatLock, Lives, Next PROVE Lives'
  OBVIOUS
<1> USE DEF Lives
<1>1. CASE Starts
  BY <1>1 DEF Starts, Start, ConstructTransport, Construct, Assign, DisposeTransport, Dispose
<1>2. CASE TransportConnects \/ LinkReconnects \/ LinkDrops \/ LinkForgets
  BY <1>2 DEF TransportConnects, LinkConnects, Connect, LinkFails, ConnectFails, Returned,
              LinkReconnects, Reconnect, LinkDrops, Drop, LinkForgets, Forget
<1>3. CASE TransportConfigures
  BY <1>3 DEF TransportConfigures, ReadKeys, BindKeys, LinkIsConfigured, Configure, Returned
<1>4. CASE SourceChanges \/ Publish \/ Elapse
  BY <1>4 DEF SourceChanges, Publish, Elapse
<1>5. CASE Hears
  BY <1>5 DEF Hears, Consume, HearLater, HearEarlier, Ask, Tell, HandlerThrows, Recover, ArmTimer
<1>6. CASE Asks
  <2>1. UNCHANGED <<owner, field, link, keys>>
    BY <1>6 DEF Asks, Watch, Subscribe, Unlist, LookForNone, Unbind
  <2> QED
    BY <2>1
<1>7. ASSUME NEW t \in Threads, Subscribes(t) PROVE Lives'
  BY <1>7, SubscribeMoves
<1>8. CASE Resets
  BY <1>8, ResetterStarts
<1>9. ASSUME NEW t \in Threads, Leaves(t) PROVE Lives'
  BY <1>9, ResetterLeaves
<1> QED
  BY <1>1, <1>2, <1>3, <1>4, <1>5, <1>6, <1>7, <1>8, <1>9, Actions DEF Elsewhere

\* A link is made once, and what is heard comes over one.
LEMMA BeginningKept == PlacesOK /\ HeartbeatLock /\ Beginning /\ Next => Beginning'
<1> SUFFICES ASSUME PlacesOK, HeartbeatLock, Beginning, Next, link' = "none"
             PROVE  wire' = <<>> /\ at'["receiver"] = "idle" /\ ~connected'
  BY DEF Beginning
<1>1. link = "none"
  <2>1. link' = link \/ link' # "none"
    <3>1. Starts => link' = link \/ link' # "none"
      BY DEF Starts, Start, ConstructTransport, Construct, Assign, DisposeTransport, Dispose
    <3>2. TransportConnects \/ TransportConfigures \/ LinkReconnects \/ LinkDrops \/ LinkForgets
            => link' = link \/ link' # "none"
      BY DEF TransportConnects, LinkConnects, Connect, LinkFails, ConnectFails, LinkReconnects,
             Reconnect, LinkDrops, Drop, LinkForgets, Forget, TransportConfigures, ReadKeys, BindKeys,
             LinkIsConfigured, Configure
    <3>3. SourceChanges \/ Publish \/ Elapse => link' = link
      BY DEF SourceChanges, Publish, Elapse
    <3>4. Hears => link' = link
      BY DEF Hears, Consume, HearLater, HearEarlier, Ask, Tell, HandlerThrows, Recover, ArmTimer
    <3>5. Asks => link' = link
      BY DEF Asks, Watch, Subscribe, Unlist, LookForNone, Unbind
    <3>6. ASSUME NEW t \in Threads, Leaves(t) \/ Subscribes(t) PROVE link' = link
      BY <3>6, SubscribeMoves, ResetterLeaves
    <3>7. Resets => link' = link
      BY ResetterStarts
    <3> QED
      BY <3>1, <3>2, <3>3, <3>4, <3>5, <3>6, <3>7, Actions DEF Elsewhere
  <2> QED
    BY <2>1
<1>2. wire = <<>> /\ at["receiver"] = "idle" /\ ~connected
  BY <1>1 DEF Beginning
<1>3. ~Hears
  BY <1>2 DEF Hears, Consume, HearLater, HearEarlier, Ask, Tell, HandlerThrows, Recover, ArmTimer, Go
<1>4. Publish => wire' = wire
  BY <1>1 DEF Publish, Flows
<1>5. wire' = <<>>
  BY <1>2, <1>3, <1>4, Changes DEF Hears
<1>6. ~connected'
  BY <1>2, <1>3, Changes DEF Hears
<1>7. at'["receiver"] = "idle"
  <2>1. Elsewhere \/ Resets => at'["receiver"] = at["receiver"]
    BY NobodyMoves, ResetterStarts
  <2>2. Asks => at'["receiver"] = at["receiver"]
    BY DEF PlacesOK, Asks, Watch, Subscribe, Unlist, LookForNone, Unbind, Go
  <2>3. ASSUME NEW t \in Threads, Leaves(t) \/ Subscribes(t) PROVE at'["receiver"] = at["receiver"]
    BY <1>2, <2>3, SubscribeMoves, ResetterLeaves
  <2> QED
    BY <1>2, <1>3, <2>1, <2>2, <2>3, Actions
<1> QED
  BY <1>5, <1>6, <1>7

LEMMA BoundKept == PlacesOK /\ HeartbeatLock /\ WordsOK /\ Lives /\ Bound /\ Next => Bound'
<1> SUFFICES ASSUME PlacesOK, HeartbeatLock, WordsOK, Lives, Bound, Next PROVE Bound'
  OBVIOUS
<1> USE DEF PlacesOK, Lives, Changing, Subscribing, Unsubscribing
<1>1. CASE Elsewhere
  <2>1. at' = at /\ registered' = registered
    BY <1>1, NobodyMoves
  <2>2. CASE Starts
    BY <2>1, <2>2 DEF Bound, Listed, Starts, Start, ConstructTransport, Construct, Assign, DisposeTransport
  <2>3. CASE TransportConnects \/ LinkReconnects \/ LinkDrops \/ LinkForgets
    BY <2>1, <2>3 DEF Bound, Listed, TransportConnects, LinkConnects, Connect, LinkFails,
       ConnectFails, Returned, LinkReconnects, Reconnect, LinkDrops, Drop, LinkForgets, Forget, Cut
  <2>4. CASE ReadKeys
    <3>1. /\ owner' = owner /\ link' = link /\ link # "up"
          /\ keys' = IF registered THEN "bind" ELSE "leave"
          /\ overlapped' = (overlapped \/ \E t \in Threads : Changing(t))
      BY <2>4 DEF ReadKeys
    <3>2. ~overlapped' => ~overlapped /\ \A t \in Threads : ~Changing(t)
      BY <3>1
    <3>3. Listed' <=> Listed
      BY <2>1 DEF Listed
    <3>4. (\A t \in Threads : ~Changing(t)) => (Listed <=> registered)
      BY DEF Listed
    <3>5. \A t \in Threads : Changing(t)' <=> Changing(t)
      BY <2>1
    <3>6. Unsubscribing("application")' <=> Unsubscribing("application")
      BY <2>1
    <3> HIDE DEF Changing, Unsubscribing
    <3>7. Unsubscribing("application") => Changing("application")
      BY DEF Changing
    <3> QED
      BY <3>1, <3>2, <3>3, <3>4, <3>5, <3>6, <3>7 DEF Bound
  <2>5. CASE BindKeys
    <3>1. /\ UNCHANGED <<owner, link, overlapped>> /\ link # "up" /\ keys' = "done"
          /\ link = "configuring" /\ keys # "leave" => bound'
      BY <2>5 DEF BindKeys
    <3> QED
      BY <2>1, <3>1 DEF Bound, Listed
  <2>6. CASE LinkIsConfigured
    <3>1. /\ UNCHANGED <<overlapped, bound>> /\ (owner' = "stopped" <=> owner = "stopped")
          /\ keys = "done" /\ keys' = "unread"
          /\ (link = "configuring" /\ link' = "up") \/ link' = "down"
      BY <2>6 DEF LinkIsConfigured, Configure, Returned
    <3> QED
      BY <2>1, <3>1 DEF Bound, Listed
  <2>7. CASE SourceChanges \/ Publish \/ Elapse
    BY <2>1, <2>7 DEF Bound, Listed, SourceChanges, Publish, Elapse
  <2> QED
    BY <1>1, <2>2, <2>3, <2>4, <2>5, <2>6, <2>7 DEF Elsewhere, TransportConfigures
<1>2. CASE Hears
  BY <1>2 DEF Bound, Listed, Hears, Consume, HearLater, HearEarlier, Ask, Tell, HandlerThrows,
              Recover, ArmTimer, Go
<1>3. CASE Watch \/ Subscribe
  BY <1>3 DEF Bound, Listed, Watch, Subscribe, Go
<1>4. CASE Unlist
  BY <1>4 DEF Bound, Listed, Unlist, Go
<1>5. CASE LookForNone
  BY <1>5 DEF Bound, Listed, LookForNone, Go
<1>6. CASE Unbind
  BY <1>6 DEF Bound, Listed, Unbind, Go
<1>7. ASSUME NEW t \in Threads, Look(t) PROVE Bound'
  BY <1>7 DEF Bound, Listed, Look, Go
<1>8. ASSUME NEW t \in Threads, Bind(t) PROVE Bound'
  <2>1. /\ UNCHANGED <<owner, link, keys, registered, field>>
        /\ at[t] = "binding" /\ at' = [at EXCEPT ![t] = "entering"]
    BY <1>8 DEF Bind, Go
  <2>2. CASE ~field
    <3>1. overlapped' = (overlapped \/ owner \in {"constructing", "assign"})
      BY <1>8, <2>2 DEF Bind
    <3>2. ~overlapped' /\ owner # "stopped" => ~overlapped /\ link = "none" /\ keys = "unread"
      BY <2>2, <3>1 DEF WordsOK
    <3> QED
      BY <2>1, <3>2 DEF Bound, Listed
  <2>3. CASE field
    <3>1. overlapped' = overlapped /\ link # "configuring" /\ (link = "up" => bound')
      BY <1>8, <2>3 DEF Bind, Released
    <3> QED
      BY <2>1, <3>1 DEF Bound, Listed
  <2> QED
    BY <2>2, <2>3
<1>9. ASSUME NEW t \in Threads, Enter(t) \/ List(t) PROVE Bound'
  BY <1>9 DEF Bound, Listed, Enter, List, HandlersReturn, Go
<1>10. CASE Resets
  BY <1>10, ResetterStarts DEF Bound, Listed
<1>11. ASSUME NEW t \in Threads, Leaves(t) PROVE Bound'
  BY <1>11, ResetterLeaves DEF Bound, Listed
<1> QED
  BY <1>1, <1>2, <1>3, <1>4, <1>5, <1>6, <1>7, <1>8, <1>9, <1>10, <1>11, Actions DEF Asks, Subscribes

-----------------------------------------------------------------------------
LEMMA ProxyStarts == Init => ProxyInv
<1> SUFFICES ASSUME Init PROVE ProxyInv
  OBVIOUS
<1> USE DEF Init, LinkInit, SourceInit
<1>1. PlacesOK /\ WordsOK
  BY DEF PlacesOK, WordsOK
<1>2. BeatsOK
  BY EmptySeq DEF BeatsOK
<1>3. AnswersOK
  BY Zenon DEF AnswersOK
<1>4. HeartbeatLock /\ Told
  BY DEF HeartbeatLock, Told
<1>5. FirstIsComing /\ Lives /\ Beginning
  BY DEF FirstIsComing, Lives, Beginning
<1>6. Bound
  BY DEF Bound, Listed, Changing, Subscribing, Unsubscribing
<1> QED
  BY <1>1, <1>2, <1>3, <1>4, <1>5, <1>6 DEF ProxyInv, ProxyTypeOK

LEMMA ProxyKeeps == ProxyInv /\ [Next]_vars => ProxyInv'
<1>1. ProxyInv /\ Next => ProxyInv'
  BY PlacesKept, WordsKept, BeatsKept, AnswersKept, LockKept, ToldKept, FirstKept, LivesKept, BeginningKept,
     BoundKept
  DEF ProxyInv, ProxyTypeOK
<1>2. ProxyInv /\ UNCHANGED vars => ProxyInv'
  <2> SUFFICES ASSUME ProxyInv, UNCHANGED vars PROVE ProxyInv'
    OBVIOUS
  <2>1. ProxyTypeOK'
    <3>1. PlacesOK' /\ WordsOK'
      <4>1. UNCHANGED <<at, link, owner, keys, hb, watching>>
        BY DEF vars
      <4>2. PlacesOK /\ WordsOK
        BY DEF ProxyInv, ProxyTypeOK
      <4>3. PlacesOK'
        BY <4>1, <4>2 DEF PlacesOK
      <4>4. WordsOK'
        BY <4>1, <4>2 DEF WordsOK
      <4> QED
        BY <4>3, <4>4
    <3>2. BeatsOK' /\ AnswersOK'
      BY Zenon DEF vars, ProxyInv, ProxyTypeOK, BeatsOK, AnswersOK
    <3> QED
      BY <3>1, <3>2 DEF ProxyTypeOK
  <2>2. HeartbeatLock'
    BY Zenon DEF vars, ProxyInv, HeartbeatLock
  <2>3. Told'
    BY Zenon DEF vars, ProxyInv, Told
  <2>4. FirstIsComing'
    BY Zenon DEF vars, ProxyInv, FirstIsComing, FirstIsOnItsWay, FirstIsHeard, NotAsked
  <2>5. Lives'
    BY Zenon DEF vars, ProxyInv, Lives
  <2>6. Beginning'
    BY Zenon DEF vars, ProxyInv, Beginning
  <2>7. Bound'
    BY Zenon DEF vars, ProxyInv, Bound, Listed, Changing, Subscribing, Unsubscribing
  <2> QED
    BY <2>1, <2>2, <2>3, <2>4, <2>5, <2>6, <2>7 DEF ProxyInv
<1> QED
  BY <1>1, <1>2

LEMMA ProxyInvariance == Spec => []ProxyInv
  BY ProxyStarts, ProxyKeeps, PTL DEF Spec

\* Nobody is left untold of a service that is there; and nobody is left to think
\* that it is there when it is gone, unless a handler threw before they were told,
\* whatever order heartbeats, time-outs and handlers that throw come in.
THEOREM TellsTheTruth == Spec => []ToldTheTruth
<1>1. ProxyInv => ToldTheTruth
  <2> SUFFICES ASSUME ProxyInv, watching = "yes", hb = None, at["receiver"] \notin {"recovering", "leaving"}
               PROVE  told = (connected \/ skipped)
    BY DEF ToldTheTruth
  <2>1. at["resetter"] = "idle" /\ at["receiver"] \notin {"asking", "telling"}
    BY DEF ProxyInv, ProxyTypeOK, HeartbeatLock
  <2>2. told <=> connected \/ skipped
    BY <2>1 DEF ProxyInv, Told
  <2>3. told \in BOOLEAN
    BY DEF ProxyInv, ProxyTypeOK, AnswersOK
  <2> QED
    BY <2>2, <2>3, Zenon
<1> QED
  BY <1>1, ProxyInvariance, PTL

\* A service started again is asked for its status anew, for every number of
\* heartbeats it had sent before: its first heartbeat resets the connection.
THEOREM AsksEveryService == Spec => []AskedTheServiceThatRuns
<1>1. ProxyInv => AskedTheServiceThatRuns
  BY DEF ProxyInv, FirstIsComing, FirstIsOnItsWay, FirstIsHeard, NotAsked, AskedTheServiceThatRuns
<1> QED
  BY <1>1, ProxyInvariance, PTL

\* What the application subscribed to is bound whenever the link is up, after any
\* number of reconnections, unless calls overlapped.
THEOREM KeepsKeysBound == Spec => []BoundUnlessOverlapped
<1>1. ProxyInv => BoundUnlessOverlapped
  BY DEF ProxyInv, Lives, Bound, Listed, BoundUnlessOverlapped
<1> QED
  BY <1>1, ProxyInvariance, PTL
================================================================================
