---------------------------- MODULE TransportProofs ----------------------------
(* What holds of the transport for every number of faults.                    *)
EXTENDS RabbitMqTransport, TLAPS

TransportTypeOK ==
    /\ phase \in {"none", "connecting", "configuring", "idle"}
    /\ open \in BOOLEAN /\ disposed \in BOOLEAN /\ raced \in BOOLEAN
    /\ rearm \in 0 .. 1 /\ stray \in Nat /\ due \in Nat /\ shut \in Nat
    /\ faults \in 0 .. MaxFaults

\* Every reconnection to come goes back to a fault, which makes two at most.
FaultsPayForIt == Pending <= 2 * faults

\* Before it connects it is not open, and at first there is nothing at all.
OpensWhenConnected ==
    /\ phase = "none" => ~disposed /\ Pending = 0
    /\ phase \in {"none", "connecting"} => ~open

\* A transport that lost its connection has an attempt to come other than by a
\* timer nobody refers to, which might be collected.
TriesAgain ==
    phase \in {"configuring", "idle"} /\ ~open /\ ~disposed => rearm + due + shut > 0

\* Disposed of when nothing was under way, it stays closed.
StaysClosed ==
    disposed /\ ~raced => phase = "idle" /\ ~open /\ Pending = 0

TransportInv ==
    TransportTypeOK /\ FaultsPayForIt /\ OpensWhenConnected /\ TriesAgain /\ StaysClosed

-----------------------------------------------------------------------------
\* What each step does to the reconnections to come.
LEMMA QuietSteps ==
  ASSUME TransportTypeOK,
         Create \/ Open \/ Configured \/ Shutdown \/ TimerElapses \/ StrayFires
  PROVE  Pending' = Pending
<1>1. CASE Create \/ Open \/ Configured
  BY <1>1 DEF Create, Open, Configured, Pending
<1>2. CASE Shutdown
  BY <1>2 DEF TransportTypeOK, Shutdown, Arm, Pending
<1>3. CASE TimerElapses
  BY <1>3 DEF TransportTypeOK, TimerElapses, Pending
<1>4. CASE StrayFires
  BY <1>4 DEF TransportTypeOK, StrayFires, Pending
<1> QED
  BY <1>1, <1>2, <1>3, <1>4

LEMMA FaultySteps ==
  ASSUME TransportTypeOK, AttemptFails \/ Lose
  PROVE  /\ shut' \in Nat
         /\ rearm' + due' + shut' > 0
         /\ Pending' > Pending /\ Pending' <= Pending + 2
<1> USE DEF TransportTypeOK
<1>1. CASE AttemptFails
  <2>1. PICK n \in 0 .. 1 : shut' = shut + n
    BY <1>1 DEF AttemptFails
  <2>2. rearm' = 1 /\ stray' = stray + rearm /\ due' = due
    BY <1>1 DEF AttemptFails, Arm
  <2>3. Pending' = 1 + (stray + rearm) + due + (shut + n)
    BY <2>1, <2>2 DEF Pending
  <2>4. rearm' + due' + shut' = 1 + due + (shut + n)
    BY <2>1, <2>2
  <2> QED
    BY <2>1, <2>3, <2>4 DEF Pending
<1>2. CASE Lose
  <2>1. PICK n \in 1 .. 2 : shut' = shut + n
    BY <1>2 DEF Lose
  <2>2. rearm' = rearm /\ stray' = stray /\ due' = due
    BY <1>2 DEF Lose
  <2>3. Pending' = rearm + stray + due + (shut + n)
    BY <2>1, <2>2 DEF Pending
  <2>4. rearm' + due' + shut' = rearm + due + (shut + n)
    BY <2>1, <2>2
  <2> QED
    BY <2>1, <2>3, <2>4 DEF Pending
<1> QED
  BY <1>1, <1>2

LEMMA CleaningSteps ==
  ASSUME TransportTypeOK, Retry \/ CloseDown
  PROVE  /\ shut' \in Nat
         /\ Retry => Pending' < Pending
         /\ CloseDown => Pending' <= Pending /\ (~raced' => Pending' = 0)
<1> USE DEF TransportTypeOK
<1>1. PICK n \in 0 .. shut : shut' = n
  BY DEF Retry, CloseDown, CleanUp
<1>2. ASSUME Retry PROVE Pending' < Pending
  <2>1. rearm' = 0 /\ stray' = stray /\ due' = due - 1 /\ due > 0
    BY <1>2 DEF Retry, CleanUp
  <2>2. Pending' = 0 + stray + (due - 1) + n
    BY <1>1, <2>1 DEF Pending
  <2> QED
    BY <1>1, <2>1, <2>2 DEF Pending
<1>3. ASSUME CloseDown PROVE Pending' <= Pending /\ (~raced' => Pending' = 0)
  <2>1. rearm' = 0 /\ stray' = stray /\ due' = due
    BY <1>3 DEF CloseDown, CleanUp
  <2>2. Pending' = 0 + stray + due + n
    BY <1>1, <2>1 DEF Pending
  <2>3. Pending' <= Pending
    BY <1>1, <2>2 DEF Pending
  <2>4. raced' = (stray + due + n > 0)
    BY <1>1, <1>3 DEF CloseDown
  <2>5. ~raced' => ~(stray + due + n > 0)
    BY <2>4
  <2>6. ~(stray + due + n > 0) => Pending' = 0
    BY <1>1, <2>2
  <2> QED
    BY <2>3, <2>5, <2>6
<1> QED
  BY <1>1, <1>2, <1>3

LEMMA CollectingStep ==
  ASSUME TransportTypeOK, StrayIsCollected
  PROVE  Pending' = Pending - 1
  BY DEF TransportTypeOK, StrayIsCollected, Pending

-----------------------------------------------------------------------------
LEMMA TransportTypes == TransportTypeOK /\ [TransportNext]_transport => TransportTypeOK'
<1> SUFFICES ASSUME TransportTypeOK, [TransportNext]_transport PROVE TransportTypeOK'
  OBVIOUS
<1>1. open' \in BOOLEAN /\ disposed' \in BOOLEAN /\ raced' \in BOOLEAN
  <2>1. open' \in {open, TRUE, FALSE} /\ disposed' \in {disposed, TRUE}
    BY DEF transport, TransportNext, TransportRuns, Create, CloseDown, Retry, AttemptFails, Open,
           Configured, Lose, Shutdown, TimerElapses, StrayFires, StrayIsCollected, CleanUp
  <2>2. raced' = raced \/ raced' = (stray + due + shut' > 0)
    BY DEF transport, TransportNext, TransportRuns, Create, CloseDown, Retry, AttemptFails, Open,
           Configured, Lose, Shutdown, TimerElapses, StrayFires, StrayIsCollected
  <2>3. (stray + due + shut' > 0) \in BOOLEAN
    OBVIOUS
  <2> QED
    BY <2>1, <2>2, <2>3, Zenon DEF TransportTypeOK
<1>2. phase' \in {"none", "connecting", "configuring", "idle"}
  BY DEF TransportTypeOK, transport, TransportNext, TransportRuns, Create, CloseDown, Retry,
         AttemptFails, Open, Configured, Lose, Shutdown, TimerElapses, StrayFires, StrayIsCollected
<1>3. faults' \in 0 .. MaxFaults
  BY FaultsAssumption
  DEF TransportTypeOK, transport, TransportNext, TransportRuns, Create, CloseDown, Retry,
      AttemptFails, Open, Configured, Lose, Shutdown, TimerElapses, StrayFires, StrayIsCollected, Fault
<1>4. shut' \in Nat
  BY FaultySteps, CleaningSteps
  DEF TransportTypeOK, transport, TransportNext, TransportRuns, Create, Open, Configured,
      Shutdown, TimerElapses, StrayFires, StrayIsCollected
<1>5. rearm' \in 0 .. 1 /\ stray' \in Nat /\ due' \in Nat
  BY DEF TransportTypeOK, transport, TransportNext, TransportRuns, Create, CloseDown, Retry,
         AttemptFails, Open, Configured, Lose, Shutdown, TimerElapses, StrayFires, StrayIsCollected,
         CleanUp, Arm
<1> QED
  BY <1>1, <1>2, <1>3, <1>4, <1>5 DEF TransportTypeOK

LEMMA TransportStarts == TransportInit => TransportInv
<1> SUFFICES ASSUME TransportInit PROVE TransportInv
  OBVIOUS
<1>1. Pending = 0
  BY DEF TransportInit, Pending
<1>2. TransportTypeOK
  <2>1. open \in BOOLEAN /\ disposed \in BOOLEAN /\ raced \in BOOLEAN
    BY Zenon DEF TransportInit
  <2>2. /\ phase \in {"none", "connecting", "configuring", "idle"}
        /\ rearm \in 0 .. 1 /\ stray \in Nat /\ due \in Nat /\ shut \in Nat
        /\ faults \in 0 .. MaxFaults
    BY FaultsAssumption DEF TransportInit
  <2> QED
    BY <2>1, <2>2 DEF TransportTypeOK
<1>3. FaultsPayForIt
  BY <1>1 DEF TransportInit, FaultsPayForIt
<1>4. OpensWhenConnected /\ TriesAgain /\ StaysClosed
  BY <1>1, Zenon DEF TransportInit, OpensWhenConnected, TriesAgain, StaysClosed
<1> QED
  BY <1>2, <1>3, <1>4 DEF TransportInv

\* A step adds to the reconnections to come only with a fault, and two at most.
LEMMA StepsAreBounded ==
  ASSUME TransportTypeOK, TransportNext
  PROVE  /\ Pending' \in Nat
         /\ Pending' > Pending => faults' = faults + 1
         /\ \/ Pending' <= Pending /\ faults' = faults
            \/ Pending' <= Pending + 2 /\ faults' = faults + 1
<1>1. \A a, b, c, d \in Nat : a + b + c + d \in Nat
  OBVIOUS
<1>2. rearm \in Nat /\ rearm' \in Nat
  BY TransportTypes DEF TransportTypeOK
<1>3. Pending \in Nat /\ Pending' \in Nat
  BY <1>1, <1>2, TransportTypes, Zenon DEF TransportTypeOK, Pending
<1>4. CASE Create \/ Open \/ Configured \/ Shutdown \/ TimerElapses \/ StrayFires
  <2>1. Pending' = Pending
    BY <1>4, QuietSteps
  <2>2. faults' = faults
    BY <1>4 DEF Create, Open, Configured, Shutdown, TimerElapses, StrayFires
  <2> QED
    BY <1>3, <2>1, <2>2
<1>5. CASE AttemptFails \/ Lose
  <2>1. faults' = faults + 1
    BY <1>5 DEF AttemptFails, Lose, Fault
  <2> QED
    BY <1>3, <1>5, <2>1, FaultySteps
<1>6. CASE Retry \/ CloseDown
  <2>1. faults' = faults
    BY <1>6 DEF Retry, CloseDown
  <2>2. Pending' <= Pending
    BY <1>3, <1>6, CleaningSteps
  <2> QED
    BY <1>3, <2>1, <2>2
<1>7. CASE StrayIsCollected
  <2>1. faults' = faults
    BY <1>7 DEF StrayIsCollected
  <2> QED
    BY <1>3, <1>7, <2>1, CollectingStep
<1> QED
  BY <1>4, <1>5, <1>6, <1>7 DEF TransportNext, TransportRuns

LEMMA TransportKeeps == TransportInv /\ [TransportNext]_transport => TransportInv'
<1> SUFFICES ASSUME TransportInv, TransportNext \/ UNCHANGED transport PROVE TransportInv'
  OBVIOUS
<1> USE DEF TransportInv
<1>1. CASE UNCHANGED transport
  BY <1>1 DEF transport, TransportTypeOK, FaultsPayForIt, OpensWhenConnected, TriesAgain,
              StaysClosed, Pending
<1>2. CASE TransportNext
  <2>1. TransportTypeOK'
    BY <1>2, TransportTypes
  <2>2. FaultsPayForIt'
    <3>1. Pending \in Nat
      BY DEF TransportTypeOK, Pending
    <3> QED
      BY <1>2, <3>1, StepsAreBounded DEF TransportTypeOK, FaultsPayForIt
  <2>3. OpensWhenConnected'
    <3>1. CASE Create
      BY <1>2, <3>1 DEF Create, OpensWhenConnected
    <3>2. CASE Lose \/ StrayIsCollected \/ Shutdown \/ TimerElapses \/ StrayFires
      <4>1. phase' = phase /\ disposed' = disposed /\ (open' = open \/ open' = FALSE)
        BY <3>2 DEF Lose, StrayIsCollected, Shutdown, TimerElapses, StrayFires
      <4>2. phase # "none"
        BY <3>2 DEF TransportTypeOK, Lose, StrayIsCollected, Shutdown, TimerElapses, StrayFires,
                    OpensWhenConnected, Pending
      <4> QED
        BY <4>1, <4>2 DEF OpensWhenConnected
    <3>3. CASE Retry
      BY <3>3 DEF Retry, CleanUp, OpensWhenConnected
    <3>4. CASE AttemptFails \/ Open \/ Configured \/ CloseDown
      BY <3>4 DEF AttemptFails, Open, Configured, CloseDown, OpensWhenConnected
    <3> QED
      BY <1>2, <3>1, <3>2, <3>3, <3>4 DEF TransportNext, TransportRuns
  <2>4. TriesAgain'
    <3>1. CASE Create \/ Open \/ Retry \/ CloseDown
      BY <3>1 DEF Create, Open, Retry, CloseDown, TriesAgain
    <3>2. CASE AttemptFails \/ Lose
      BY <3>2, FaultySteps DEF TriesAgain
    <3>3. CASE Configured \/ StrayIsCollected
      BY <3>3 DEF Configured, StrayIsCollected, TriesAgain
    <3>4. CASE Shutdown
      BY <3>4 DEF Shutdown, Arm, TransportTypeOK, TriesAgain
    <3>5. CASE TimerElapses \/ StrayFires
      BY <3>5 DEF TimerElapses, StrayFires, TransportTypeOK, TriesAgain
    <3> QED
      BY <1>2, <3>1, <3>2, <3>3, <3>4, <3>5 DEF TransportNext, TransportRuns
  <2>5. StaysClosed'
    <3>1. CASE CloseDown
      BY <3>1, CleaningSteps DEF CloseDown, CleanUp, StaysClosed
    <3>2. CASE ~CloseDown
      <4>1. disposed' = disposed /\ raced' = raced
        BY <1>2, <3>2 DEF TransportNext, TransportRuns, Create, Retry, AttemptFails, Open,
           Configured, Lose, Shutdown, TimerElapses, StrayFires, StrayIsCollected
      <4>2. ASSUME disposed, ~raced PROVE FALSE
        <5>1. phase = "idle" /\ ~open
          BY <4>2 DEF StaysClosed
        <5>2. rearm = 0 /\ stray = 0 /\ due = 0 /\ shut = 0
          BY <4>2 DEF StaysClosed, Pending, TransportTypeOK
        <5> QED
          BY <1>2, <3>2, <5>1, <5>2 DEF TransportNext, TransportRuns, Create, Retry, AttemptFails,
             Open, Configured, Lose, Shutdown, TimerElapses, StrayFires, StrayIsCollected
      <4> QED
        BY <4>1, <4>2 DEF StaysClosed
    <3> QED
      BY <3>1, <3>2
  <2> QED
    BY <2>1, <2>2, <2>3, <2>4, <2>5
<1> QED
  BY <1>1, <1>2

\* Whatever the handlers and timers do to each other without the lock: every
\* reconnection to come is paid for by a fault, a transport that is not open has an
\* attempt to come by itself, and one disposed of in peace stays closed.
THEOREM TransportInvariance == TransportSpec => []TransportInv
<1>1. TransportInit => TransportInv
  BY TransportStarts
<1>2. TransportInv /\ [TransportNext]_transport => TransportInv'
  BY TransportKeeps
<1> QED
  BY <1>1, <1>2, PTL DEF TransportSpec

-----------------------------------------------------------------------------
\* Where the link stands after a step.
LEMMA LinkStates ==
  /\ phase = "none" => LinkState = "none"
  /\ phase = "connecting" => LinkState = "connecting"
  /\ phase = "configuring" => LinkState = IF open THEN "configuring" ELSE "dropped"
  /\ phase = "idle" => LinkState = IF open THEN "up" ELSE "down"
  BY DEF LinkState

LEMMA LinkStatesAfter ==
  /\ phase' = "none" => LinkState' = "none"
  /\ phase' = "connecting" => LinkState' = "connecting"
  /\ phase' = "configuring" => LinkState' = IF open' THEN "configuring" ELSE "dropped"
  /\ phase' = "idle" => LinkState' = IF open' THEN "up" ELSE "down"
  BY DEF LinkState

LEMMA StepsMap ==
  TransportInv /\ [TransportNext]_transport => [Link!LinkNext]_Link!linkVars
<1> SUFFICES ASSUME TransportInv, TransportNext \/ UNCHANGED transport
             PROVE  Link!LinkNext \/ UNCHANGED Link!linkVars
  BY Zenon
<1> USE LinkStates, LinkStatesAfter
<1>1. CASE UNCHANGED transport
  BY <1>1 DEF transport, Link!linkVars, LinkState, Pending
<1>2. CASE TransportNext
  <2>1. TransportTypeOK /\ TransportInv'
    BY <1>2, TransportKeeps DEF TransportInv
  <2>2. Pending \in Nat /\ Pending' \in 0 .. 2 * MaxFaults
    <3>1. Pending \in Nat
      BY <2>1 DEF TransportTypeOK, Pending
    <3>2. Pending' \in Nat
      BY <1>2, <2>1, StepsAreBounded
    <3>3. Pending' <= 2 * faults' /\ faults' \in 0 .. MaxFaults
      BY <2>1 DEF TransportInv, TransportTypeOK, FaultsPayForIt
    <3>4. \A n, f, m \in Nat : n <= 2 * f /\ f \in 0 .. m => n \in 0 .. 2 * m
      OBVIOUS
    <3>5. faults' \in Nat
      BY <3>3, FaultsAssumption
    <3> QED
      BY <3>1, <3>2, <3>3, <3>4, <3>5, FaultsAssumption, Zenon
  <2>3. CASE Create
    <3>1. Link!Construct
      BY <2>1, <2>3, QuietSteps DEF Create, Link!Construct
    <3> QED
      BY <3>1 DEF Link!LinkNext
  <2>4. CASE Retry
    <3>1. Link!Reconnect
      BY <2>1, <2>2, <2>4, CleaningSteps DEF Retry, Link!Reconnect, Link!Fewer
    <3> QED
      BY <3>1 DEF Link!LinkNext
  <2>5. CASE Open
    <3>1. Link!Connect
      BY <2>1, <2>5, QuietSteps DEF Open, Link!Connect
    <3> QED
      BY <3>1 DEF Link!LinkNext
  <2>6. CASE AttemptFails
    <3>1. ~open /\ open' = open
      BY <2>6 DEF TransportInv, OpensWhenConnected, AttemptFails
    <3>2. Link!ConnectFails
      BY <2>1, <2>2, <2>6, <3>1, FaultySteps DEF AttemptFails, Link!ConnectFails, Link!More
    <3> QED
      BY <3>2 DEF Link!LinkNext
  <2>7. CASE Configured
    <3>1. Link!Configure
      BY <2>1, <2>7, QuietSteps DEF Configured, Link!Configure
    <3> QED
      BY <3>1 DEF Link!LinkNext
  <2>8. CASE Lose
    <3>1. phase \in {"configuring", "idle"}
      BY <2>8 DEF TransportInv, TransportTypeOK, OpensWhenConnected, Lose
    <3>2. Link!Drop
      BY <2>1, <2>2, <2>8, <3>1, FaultySteps DEF Lose, Link!Drop, Link!More
    <3> QED
      BY <3>2 DEF Link!LinkNext
  <2>9. CASE StrayIsCollected
    <3>1. phase' = phase /\ open' = open /\ disposed' = disposed /\ LinkState' = LinkState
      BY <2>9 DEF StrayIsCollected, LinkState
    <3>2. LinkState \in {"dropped", "down"} /\ ~disposed => Pending' > 0
      <4>1. ASSUME LinkState \in {"dropped", "down"}, ~disposed PROVE rearm + due + shut > 0
        BY <4>1, <2>1 DEF TransportInv, TransportTypeOK, TriesAgain
      <4>2. Pending' = rearm + (stray - 1) + due + shut /\ stray > 0
        BY <2>9 DEF StrayIsCollected, Pending
      <4> QED
        BY <2>1, <4>1, <4>2 DEF TransportTypeOK
    <3>3. Pending' < Pending
      BY <2>1, <2>2, <2>9, CollectingStep
    <3>4. Link!Forget
      BY <2>2, <3>1, <3>2, <3>3 DEF Link!Forget, Link!Fewer
    <3> QED
      BY <3>4 DEF Link!LinkNext
  <2>10. CASE CloseDown
    <3>1. LinkState' = "down"
      BY <2>10 DEF CloseDown, CleanUp
    <3>2. Link!Dispose
      BY <2>1, <2>2, <2>10, <3>1, CleaningSteps DEF CloseDown, Link!Dispose
    <3> QED
      BY <3>2 DEF Link!LinkNext
  <2>11. CASE Shutdown \/ TimerElapses \/ StrayFires
    <3>1. LinkState' = LinkState /\ disposed' = disposed
      BY <2>11 DEF Shutdown, TimerElapses, StrayFires, LinkState
    <3>2. Pending' = Pending
      BY <2>1, <2>11, QuietSteps
    <3> QED
      BY <3>1, <3>2 DEF Link!linkVars
  <2> QED
    BY <1>2, <2>3, <2>4, <2>5, <2>6, <2>7, <2>8, <2>9, <2>10, <2>11
    DEF TransportNext, TransportRuns
<1> QED
  BY <1>1, <1>2

\* The transport is a broker link, for every number of faults: losses and failures
\* add reconnections to come, an attempt uses one up, and none that is needed is
\* forgotten.
THEOREM TransportRefinesLink == TransportSpec => TransportStepsLikeALink
<1>1. TransportInit => Link!LinkInit
  BY DEF TransportInit, Link!LinkInit, LinkState, Pending
<1>2. TransportInv /\ [TransportNext]_transport => [Link!LinkNext]_Link!linkVars
  BY StepsMap
<1> QED
  BY <1>1, <1>2, TransportInvariance, PTL DEF TransportSpec, TransportStepsLikeALink
=============================================================================
