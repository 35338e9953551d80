----------------------------- MODULE ServiceProofs -----------------------------
(* What holds of a service whatever the bounds on its queue, its calls and the *)
(* faults of its transport.                                                    *)
EXTENDS Service, TransportProofs

SendersTypeOK ==
    /\ timer \in [Senders -> BOOLEAN] /\ enabled \in [Senders -> BOOLEAN]
    /\ spoiled \in [Senders -> BOOLEAN]
    /\ fired \in [Senders -> Nat] /\ stale \in [Senders -> Nat]
    /\ starting \in Nat /\ orphans \in Nat

\* The periodic timer is there while the sender is enabled; a one-shot has its timer
\* or the callback of it.
OneAtATime ==
    /\ enabled["heartbeat"] => timer["heartbeat"]
    /\ timer["alarm"] => fired["alarm"] = 0
    /\ fired["alarm"] <= 1

SendersInv == SendersTypeOK /\ OneAtATime /\ EnabledIsPending

Making == loop \in {"constructing", "assigning"}

\* The transport of a service that has made one is in its field, on its way there,
\* or was disposed of.
WhereTheTransportIs == phase # "none" => field \/ Making \/ owner = "stopped"

BegunByStart == owner = "new" => loop = "none"

CancelledFirst == owner \in {"joining", "disposing", "stopped"} => cancelled

StopsInPeace ==
    owner = "stopped" /\ ~late => ~field /\ ~Making /\ (phase = "none" \/ disposed)

StopInv == WhereTheTransportIs /\ BegunByStart /\ CancelledFirst /\ StopsInPeace

-----------------------------------------------------------------------------
(* The senders of delayed messages.                                          *)

\* What the actions that have nothing to do with the senders leave alone.
LEMMA SendersLeftAlone ==
  ASSUME Start \/ AskForStatus \/ Stopping \/ Loop \/ Connects \/ ConsumeCommand
  PROVE  UNCHANGED senders
  BY DEF Start, AskForStatus, Stopping, Loop, Connects, ConsumeCommand, Cancel, Join, Dispose,
         LoopEnds, Run, CreateTransport, AssignTransport, Look, WaitExpires, GetNext, Execute,
         Finish, senders

LEMMA SwitchKeeps ==
  ASSUME SendersInv, NEW s \in Senders, NEW isOn \in BOOLEAN, Switch(s, isOn),
         starting' \in Nat, orphans' \in Nat
  PROVE  SendersInv'
<1> USE DEF SendersInv, SendersTypeOK, Switch
<1>1. SendersTypeOK'
  OBVIOUS
<1>2. OneAtATime'
  BY DEF OneAtATime, Senders
<1>3. EnabledIsPending'
  BY DEF EnabledIsPending
<1> QED
  BY <1>1, <1>2, <1>3

LEMMA ElapseKeeps ==
  ASSUME SendersInv, NEW s \in Senders, Elapse(s)
  PROVE  SendersInv'
<1> USE DEF SendersInv, SendersTypeOK, Elapse, senders
<1>1. SendersTypeOK'
  <2>1. (s = "heartbeat") \in BOOLEAN
    OBVIOUS
  <2> QED
    BY <2>1
<1>2. OneAtATime'
  <2>1. CASE s = "heartbeat"
    BY <2>1 DEF OneAtATime, Senders
  <2>2. CASE s = "alarm"
    <3>1. fired'["alarm"] = 1
      BY <2>2 DEF OneAtATime
    <3>2. timer'["alarm"] = FALSE
      <4>1. timer'[s] = (s = "heartbeat")
        OBVIOUS
      <4> QED
        BY <2>2, <4>1
    <3>3. ~timer'["alarm"]
      BY <3>2, Zenon
    <3>4. timer'["heartbeat"] = timer["heartbeat"] /\ enabled' = enabled
      BY <2>2 DEF Senders
    <3> QED
      BY <3>1, <3>3, <3>4 DEF OneAtATime
  <2> QED
    BY <2>1, <2>2 DEF Senders
<1>3. EnabledIsPending'
  BY DEF EnabledIsPending, Senders
<1> QED
  BY <1>1, <1>2, <1>3

LEMMA SendingKeeps ==
  ASSUME SendersInv, NEW s \in Senders, SendMessage(s) \/ SendStale(s)
  PROVE  SendersInv'
<1> USE DEF SendersInv, SendersTypeOK
<1>1. /\ timer' = timer /\ enabled' = [enabled EXCEPT ![s] = @ /\ s = "heartbeat"]
      /\ starting' = starting /\ orphans' = orphans
  BY DEF SendMessage, SendStale, Sends
<1>2. enabled' \in [Senders -> BOOLEAN]
  <2>1. (enabled[s] /\ s = "heartbeat") \in BOOLEAN
    OBVIOUS
  <2> QED
    BY <1>1, <2>1
<1>3. CASE SendMessage(s)
  <2>1. fired[s] > 0 /\ fired' = [fired EXCEPT ![s] = @ - 1] /\ stale' = stale /\ spoiled' = spoiled
    BY <1>3 DEF SendMessage
  <2>2. SendersTypeOK'
    BY <1>1, <1>2, <2>1
  <2>3. OneAtATime'
    BY <1>1, <2>1 DEF OneAtATime, Senders
  <2>4. EnabledIsPending'
    BY <1>1, <2>1 DEF EnabledIsPending, OneAtATime, Senders
  <2> QED
    BY <2>2, <2>3, <2>4
<1>4. CASE SendStale(s)
  <2>1. /\ stale[s] > 0 /\ stale' = [stale EXCEPT ![s] = @ - 1] /\ fired' = fired
        /\ spoiled' = [spoiled EXCEPT ![s] = @ \/ (enabled[s] /\ ~enabled'[s])]
    BY <1>4 DEF SendStale
  <2>2. SendersTypeOK'
    <3>1. (spoiled[s] \/ (enabled[s] /\ ~enabled'[s])) \in BOOLEAN
      OBVIOUS
    <3> QED
      BY <1>1, <1>2, <2>1, <3>1
  <2>3. OneAtATime'
    BY <1>1, <2>1 DEF OneAtATime, Senders
  <2>4. EnabledIsPending'
    BY <1>1, <2>1 DEF EnabledIsPending, OneAtATime, Senders
  <2> QED
    BY <2>2, <2>3, <2>4
<1> QED
  BY <1>3, <1>4

LEMMA OrphanKeeps ==
  ASSUME SendersInv, OrphanEnds
  PROVE  SendersInv'
<1> USE DEF SendersInv, SendersTypeOK, OrphanEnds
<1>1. SendersTypeOK'
  BY DEF Senders
<1>2. OneAtATime' /\ EnabledIsPending'
  BY DEF OneAtATime, EnabledIsPending
<1> QED
  BY <1>1, <1>2

LEMMA SendersStart == Init => SendersInv
  BY DEF Init, ForAll, Senders, SendersInv, SendersTypeOK, OneAtATime, EnabledIsPending

LEMMA SendersKeep == SendersInv /\ [Next]_vars => SendersInv'
<1> SUFFICES ASSUME SendersInv, Next \/ UNCHANGED vars PROVE SendersInv'
  OBVIOUS
<1>1. CASE UNCHANGED senders
  BY <1>1 DEF senders, SendersInv, SendersTypeOK, OneAtATime, EnabledIsPending
<1>2. CASE StartHeartbeat \/ Stop \/ StartOneShot \/ ArmOneShot \/ StopOneShot
  <2>1. PICK s \in Senders, isOn \in BOOLEAN : Switch(s, isOn)
    BY <1>2 DEF StartHeartbeat, Stop, StartOneShot, ArmOneShot, StopOneShot, StartTimer, StopTimer,
                Senders
  <2>2. starting' \in Nat /\ orphans' \in Nat
    BY <1>2 DEF StartHeartbeat, Stop, StartOneShot, ArmOneShot, StopOneShot, SendersInv,
                SendersTypeOK
  <2> QED
    BY <2>1, <2>2, SwitchKeeps
<1>3. CASE \E s \in Senders : Elapse(s) \/ SendMessage(s) \/ SendStale(s)
  BY <1>3, ElapseKeeps, SendingKeeps
<1>4. CASE UNCHANGED vars
  BY <1>1, <1>4 DEF vars
<1> QED
  BY <1>1, <1>2, <1>3, <1>4, OrphanKeeps, SendersLeftAlone DEF Next, Starting

\* Enabled tells the truth about a message to come, however timers elapse and are
\* replaced, by however many threads, but for a callback of an earlier timer that had
\* waited meanwhile or that two starts at once left behind.
THEOREM EnabledTellsTheTruth == Spec => []EnabledIsPending
<1>1. SendersInv => EnabledIsPending
  BY DEF SendersInv
<1> QED
  BY <1>1, SendersStart, SendersKeep, PTL DEF Spec

-----------------------------------------------------------------------------
(* The transport under the service.                                          *)

LEMMA ServiceDrivesTransport == [Next]_vars => [TransportNext]_transport
<1> SUFFICES ASSUME Next, ~UNCHANGED transport PROVE TransportNext
  BY DEF vars
<1>1. CASE \/ Starting \/ Stop \/ Cancel \/ Join \/ ConsumeCommand
           \/ StartOneShot \/ ArmOneShot \/ OrphanEnds \/ StopOneShot
  BY <1>1 DEF Starting, Start, StartHeartbeat, AskForStatus, Stop, Cancel, Join, StartOneShot,
              ArmOneShot, OrphanEnds, StopOneShot, ConsumeCommand
<1>2. CASE Dispose
  BY <1>2 DEF Dispose, TransportNext
<1>3. CASE Loop
  BY <1>3 DEF Loop, LoopEnds, Run, CreateTransport, AssignTransport, Look, WaitExpires, GetNext,
              Execute, Finish, TransportNext
<1>4. CASE \E s \in Senders : Elapse(s) \/ SendMessage(s) \/ SendStale(s)
  BY <1>4 DEF Elapse, SendMessage, SendStale, Sends
<1>5. CASE Connects
  BY <1>5 DEF Connects, TransportNext
<1> QED
  BY <1>1, <1>2, <1>3, <1>4, <1>5 DEF Next, Stopping

\* Over the bare transport the service is still over a broker link: nothing its loop
\* and its owner do to it is more than making it once and disposing of it.
THEOREM ServiceDrivesALink == Spec => TransportStepsLikeALink
<1>1. Init => TransportInv /\ Link!LinkInit
  BY TransportStarts DEF Init, TransportInit, Link!LinkInit, LinkState, Pending
<1>2. TransportInv /\ [Next]_vars => TransportInv' /\ [Link!LinkNext]_Link!linkVars
  BY ServiceDrivesTransport, TransportKeeps, StepsMap
<1> QED
  BY <1>1, <1>2, PTL DEF Spec, TransportStepsLikeALink

LEMMA TransportUnderService == Spec => []TransportInv
<1>1. Init => TransportInv
  BY TransportStarts DEF Init
<1>2. TransportInv /\ [Next]_vars => TransportInv'
  BY ServiceDrivesTransport, TransportKeeps
<1> QED
  BY <1>1, <1>2, PTL DEF Spec

-----------------------------------------------------------------------------
(* Stop.                                                                     *)

LEMMA StopStarts == Init => StopInv
  BY DEF Init, TransportInit, StopInv, WhereTheTransportIs, BegunByStart, CancelledFirst,
         StopsInPeace

LEMMA StopKeeps == StopInv /\ [Next]_vars => StopInv'
<1> SUFFICES ASSUME StopInv, Next \/ UNCHANGED vars PROVE StopInv'
  OBVIOUS
<1> USE DEF StopInv, WhereTheTransportIs, BegunByStart, CancelledFirst, StopsInPeace, Making
<1>1. CASE UNCHANGED <<phase, disposed, owner, field, loop, cancelled, late>>
  BY <1>1
<1>2. CASE Start \/ Run \/ Look \/ WaitExpires \/ GetNext \/ Execute \/ Finish \/ LoopEnds
  <2>1. UNCHANGED <<phase, disposed, field, cancelled, late>>
    BY <1>2 DEF Start, Run, Look, WaitExpires, GetNext, Execute, Finish, LoopEnds, transport
  <2>2. owner' = owner \/ (owner = "new" /\ owner' = "starting")
    BY <1>2 DEF Start, Run, Look, WaitExpires, GetNext, Execute, Finish, LoopEnds
  <2>3. ~Making'
    BY <1>2 DEF Start, Run, Look, WaitExpires, GetNext, Execute, Finish, LoopEnds, Rest
  <2>4. ~Making
    BY <1>2 DEF Start, Run, Look, WaitExpires, GetNext, Execute, Finish, LoopEnds
  <2>5. BegunByStart'
    BY <1>2, <2>2 DEF Start, Run, Look, WaitExpires, GetNext, Execute, Finish, LoopEnds
  <2> QED
    BY <2>1, <2>2, <2>3, <2>4, <2>5
<1>3. CASE StartHeartbeat \/ AskForStatus \/ Stop \/ Cancel \/ Join
  <2>1. /\ UNCHANGED <<phase, disposed, field, loop, late>>
        /\ owner # "stopped" /\ owner' \notin {"new", "stopped"}
    BY <1>3 DEF StartHeartbeat, AskForStatus, Stop, Cancel, Join, task, transport
  <2>2. CancelledFirst'
    BY <1>3 DEF StartHeartbeat, AskForStatus, Stop, Cancel, Join, task
  <2> QED
    BY <2>1, <2>2
<1>4. CASE Dispose
  <2>1. /\ owner = "disposing" /\ owner' = "stopped" /\ field' = FALSE
        /\ loop' = loop /\ cancelled' = cancelled /\ late' = Making
    BY <1>4 DEF Dispose, task
  <2>2. phase' = phase /\ (field => disposed')
    BY <1>4 DEF Dispose, CloseDown, transport
  <2> QED
    BY <2>1, <2>2
<1>5. CASE CreateTransport \/ AssignTransport
  <2>1. /\ owner' = owner /\ late' = late /\ cancelled' = cancelled
        /\ field' \/ Making'
    BY <1>5 DEF CreateTransport, AssignTransport
  <2>2. (owner = "stopped" => late) /\ loop # "none"
    BY <1>5 DEF CreateTransport, AssignTransport
  <2> QED
    BY <2>1, <2>2
<1>6. CASE Connects
  <2>1. /\ UNCHANGED <<owner, field, cancelled, late>> /\ Making' = Making
        /\ loop = "none" => loop' = "none"
    BY <1>6 DEF Connects
  <2>2. disposed' = disposed /\ (phase' # "none" => phase # "none") /\ (phase = "none" => phase' = "none")
    BY <1>6 DEF Connects, TransportRuns, Retry, AttemptFails, Open, Configured, Lose, Shutdown,
                TimerElapses, StrayFires, StrayIsCollected
  <2> QED
    BY <2>1, <2>2
<1>7. CASE \/ StartOneShot \/ ArmOneShot \/ OrphanEnds \/ StopOneShot \/ ConsumeCommand
           \/ \E s \in Senders : Elapse(s) \/ SendMessage(s) \/ SendStale(s)
  BY <1>1, <1>7 DEF StartOneShot, ArmOneShot, OrphanEnds, StopOneShot, ConsumeCommand, Elapse,
                    SendMessage, SendStale, Sends, transport, task
<1>8. CASE UNCHANGED vars
  BY <1>1, <1>8 DEF vars, transport, task
<1> QED
  BY <1>2, <1>3, <1>4, <1>5, <1>6, <1>7, <1>8 DEF Next, Starting, Stopping, Loop

\* A service that stops in peace has no connection when Stop returns, and never makes
\* one again.
THEOREM StopCloses == Spec => []ClosedAfterStop
<1>1. TransportInv /\ StopInv => ClosedAfterStop
  BY DEF TransportInv, StaysClosed, OpensWhenConnected, StopInv, StopsInPeace, ClosedAfterStop
<1> QED
  BY <1>1, StopStarts, StopKeeps, TransportUnderService, PTL DEF Spec
===============================================================================
