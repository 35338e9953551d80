--------------------------- MODULE RabbitMqTransport ---------------------------
(***************************************************************************)
(* RabbitMqTransport.cs: the connection to the broker, and the timer that    *)
(* makes it again after a loss.  Everything runs under _lock but the         *)
(* handlers of a lost connection and channel, which replace the timer        *)
(* without it, and a timer callback that waits for the lock.  RabbitMQ's     *)
(* client is external: a connection may be lost while it is open, an attempt *)
(* may fail.                                                                 *)
(***************************************************************************)
EXTENDS Naturals

CONSTANT MaxFaults  \* bound on the lost connections and failed attempts

ASSUME FaultsAssumption == MaxFaults \in Nat

VARIABLES
    phase,      \* "none"; "connecting" and "configuring" hold _lock; "idle"
    open,       \* connection and channel are there and open
    rearm,      \* 1 while _timer is armed, else 0
    stray,      \* timers armed that _timer no longer holds
    due,        \* callbacks of elapsed timers that wait for _lock
    shut,       \* ConnectionShutdown and ChannelShutdown handlers under way
    disposed,   \* Cleanup of Dispose has run
    raced,      \* history: when it ran, one of the above was under way
    faults      \* lost connections and failed attempts so far

transport == <<phase, open, rearm, stray, due, shut, disposed, raced, faults>>

TransportInit ==
    /\ phase = "none" /\ open = FALSE
    /\ rearm = 0 /\ stray = 0 /\ due = 0 /\ shut = 0
    /\ disposed = FALSE /\ raced = FALSE /\ faults = 0

Fault == faults < MaxFaults /\ faults' = faults + 1

\* ConnectionShutdownWorker replaces the timer without disposing of it.
Arm ==
    /\ rearm' = 1
    /\ stray' = stray + rearm

\* Mutant: the timer goes on.
CleanUpButTimer ==
    /\ open' = FALSE /\ rearm' = rearm
    /\ shut' \in 0 .. shut

\* CleanupUnsafe: the timer it knows is disposed of, and handlers that have not
\* begun are taken off.
CleanUp ==
    /\ open' = FALSE /\ rearm' = 0
    /\ shut' \in 0 .. shut

Create ==
    /\ phase = "none" /\ phase' = "connecting"
    /\ UNCHANGED <<open, rearm, stray, due, shut, disposed, raced, faults>>

\* InstantiateConnectionAndChannel on the timer: _disposedValue is not looked at.
Retry ==
    /\ phase = "idle" /\ due > 0
    /\ due' = due - 1 /\ phase' = "connecting"
    /\ CleanUp
    /\ UNCHANGED <<stray, disposed, raced, faults>>

\* Mutant: the attempt is not repeated.
AttemptFailsForGood ==
    /\ phase = "connecting" /\ phase' = "idle"
    /\ Fault
    /\ shut' \in {shut, shut + 1}
    /\ UNCHANGED <<open, rearm, stray, due, disposed, raced>>

\* Without a connection, or with one that is lost before it has a channel.
AttemptFails ==
    /\ phase = "connecting" /\ phase' = "idle"
    /\ Fault
    /\ Arm
    /\ shut' \in {shut, shut + 1}
    /\ UNCHANGED <<open, due, disposed, raced>>

Open ==
    /\ phase = "connecting" /\ phase' = "configuring"
    /\ open' = TRUE
    /\ UNCHANGED <<rearm, stray, due, shut, disposed, raced, faults>>

\* _configureBuses returns; both implementations of it catch what goes wrong.
Configured ==
    /\ phase = "configuring" /\ phase' = "idle"
    /\ UNCHANGED <<open, rearm, stray, due, shut, disposed, raced, faults>>

\* A connection takes its channel along; each calls its handler.
Lose ==
    /\ open /\ open' = FALSE
    /\ Fault
    /\ shut' \in {shut + 1, shut + 2}
    /\ UNCHANGED <<phase, rearm, stray, due, disposed, raced>>

Shutdown ==
    /\ shut > 0 /\ shut' = shut - 1
    /\ Arm
    /\ UNCHANGED <<phase, open, due, disposed, raced, faults>>

TimerElapses ==
    /\ rearm = 1 /\ rearm' = 0
    /\ due' = due + 1
    /\ UNCHANGED <<phase, open, stray, shut, disposed, raced, faults>>

\* A timer that is not referred to fires, or is collected before.
StrayFires ==
    /\ stray > 0 /\ stray' = stray - 1
    /\ due' = due + 1
    /\ UNCHANGED <<phase, open, rearm, shut, disposed, raced, faults>>

StrayIsCollected ==
    /\ stray > 0 /\ stray' = stray - 1
    /\ UNCHANGED <<phase, open, rearm, due, shut, disposed, raced, faults>>

CloseDown ==
    /\ phase = "idle" /\ ~disposed
    /\ disposed' = TRUE
    /\ CleanUp
    /\ raced' = (stray + due + shut' > 0)
    /\ UNCHANGED <<phase, stray, due, faults>>

\* What the transport does by itself once it is made.
TransportRuns ==
    \/ Retry \/ AttemptFails \/ Open \/ Configured
    \/ Lose \/ Shutdown \/ TimerElapses \/ StrayFires \/ StrayIsCollected

TransportNext == Create \/ CloseDown \/ TransportRuns

TransportSpec == TransportInit /\ [][TransportNext]_transport

-----------------------------------------------------------------------------
LinkState ==
    CASE phase = "idle" -> IF open THEN "up" ELSE "down"
      [] phase = "configuring" -> IF open THEN "configuring" ELSE "dropped"
      [] OTHER -> phase

\* Whatever will call InstantiateConnectionAndChannel again.
Pending == rearm + stray + due + shut

Link == INSTANCE BrokerLink WITH
    Counts <- 0 .. 2 * MaxFaults, link <- LinkState, pending <- Pending, gone <- disposed

\* The transport is a broker link: whatever shutdown handlers and timers do to
\* each other without the lock, a transport that is not disposed of and not open
\* has an attempt to come, and it is made.
TransportIsALink == Link!LinkSpec

\* Its safety part: every step of the transport is one of the link or none.
TransportStepsLikeALink == Link!LinkInit /\ [][Link!LinkNext]_Link!linkVars
=============================================================================
