----------------------------- MODULE LoggerProofs -----------------------------
(* What holds of the logger for every number of threads and every limit.      *)
EXTENDS Logger, FiniteSetTheorems, SequenceTheorems, TLAPS

\* The threads that may still add one statement each.
Late == {t \in Threads : pc[t] \in Committed}
LateBounded == Len(queue) + Cardinality(Late) <= MaxUnflushed + Cardinality(Threads)

\* The lock keeps callers out while the task empties the queue and ends a flush.
LockHeld ==
    /\ \A t \in Threads : pc[t] \in {"statementWaits", "noticeWaits"} => lock = t
    /\ task = "signalling" => lock = Task /\ queue = <<>>

\* What a Flush waits for is taken by the time the event is set again.
FlushServed ==
    \A t \in Threads : pc[t] \in Flushing =>
        /\ before[t] <= accepted
        /\ flushed => before[t] + Len(queue) <= accepted

\* Between two batches the task holds nothing.
HandsEmpty == task \in {"idle", "taking"} => taken = <<>>

-----------------------------------------------------------------------------
\* Every variable keeps its type, and the current file always has room for a
\* line (LoggerTask.cs:48 starts a new file when it is full).
THEOREM TypeCorrect == Spec => []TypeOK
<1>1. Init => TypeOK
  <2> SUFFICES ASSUME Init PROVE TypeOK
    OBVIOUS
  <2>1. queue \in Seq(Nat) /\ taken \in Seq(Nat) /\ written \in Seq(Nat)
    BY DEF Init
  <2>2. pc \in [Threads -> Places] /\ before \in [Threads -> Nat]
    BY DEF Init, Places
  <2>3. room \in 1 .. LinesPerFile
    BY LoggerAssumption DEF Init
  <2> QED
    BY <2>1, <2>2, <2>3 DEF Init, TypeOK
<1>2. TypeOK /\ [Next]_vars => TypeOK'
  <2> SUFFICES ASSUME TypeOK, [Next]_vars PROVE TypeOK'
    OBVIOUS
  <2> USE LoggerAssumption DEF TypeOK, shared, callers, worker, history, Places, Committed, Flushing
  <2>1. ASSUME NEW t \in Threads, Log(t) PROVE TypeOK'
    BY <2>1 DEF Log, Go
  <2>2. ASSUME NEW t \in Threads, FirstLook(t) PROVE TypeOK'
    BY ZenonT(40), <2>2 DEF FirstLook, Go
  <2>3. ASSUME NEW t \in Threads, SecondLook(t) PROVE TypeOK'
    <3>1. \E p \in Places : pc' = [pc EXCEPT ![t] = p]
      BY <2>3 DEF SecondLook, Go
    <3> QED
      BY <2>3, <3>1 DEF SecondLook
  <2>4. ASSUME NEW t \in Threads, LockQueue(t) PROVE TypeOK'
    BY <2>4 DEF LockQueue, Go
  <2>5. ASSUME NEW t \in Threads, Queue(t) PROVE TypeOK'
    <3>1. accepted' \in Nat /\ queue' \in Seq(Nat)
      BY <2>5 DEF Queue
    <3> QED
      BY <2>5, <3>1 DEF Queue, Go
  <2>6. ASSUME NEW t \in Threads, Flush(t) PROVE TypeOK'
    <3>1. \E p \in Places : pc' = [pc EXCEPT ![t] = p]
      BY <2>6 DEF Flush, Go
    <3> QED
      BY <2>6, <3>1 DEF Flush
  <2>7. ASSUME NEW t \in Threads, LockFlush(t) PROVE TypeOK'
    BY <2>7 DEF LockFlush, Go
  <2>8. ASSUME NEW t \in Threads, ResetFlushed(t) PROVE TypeOK'
    BY <2>8 DEF ResetFlushed, Go
  <2>9. ASSUME NEW t \in Threads, FinishFlush(t) PROVE TypeOK'
    BY <2>9 DEF FinishFlush, Go
  <2>10. ASSUME NEW t \in Threads, Stop(t) PROVE TypeOK'
    BY <2>10 DEF Stop, Go
  <2>11. ASSUME NEW t \in Threads, CancelOrFlush(t) PROVE TypeOK'
    BY ZenonT(40), <2>11 DEF CancelOrFlush, Go
  <2>12. CASE Wake
    BY <2>12 DEF Wake
  <2>13. CASE TakeAll
    BY <2>13 DEF TakeAll
  <2>14. CASE SignalFlushed
    BY <2>14 DEF SignalFlushed
  <2>15. CASE WriteChunk
    BY SMTT(40), <2>15 DEF WriteChunk, RoomAfter
  <2>16. CASE EndTask
    BY <2>16 DEF EndTask
  <2>17. CASE FailToWrite
    BY <2>17 DEF FailToWrite
  <2>18. ASSUME NEW t \in Threads, GiveUpFlush(t) PROVE TypeOK'
    BY <2>18 DEF GiveUpFlush, Go
  <2>19. CASE UNCHANGED vars
    BY <2>19 DEF vars
  <2> QED
    BY <2>1, <2>2, <2>3, <2>4, <2>5, <2>6, <2>7, <2>8, <2>9, <2>10, <2>11, <2>12,
       <2>13, <2>14, <2>15, <2>16, <2>17, <2>18, <2>19 DEF Next, Proceed, DoWork
<1> QED
  BY <1>1, <1>2, PTL DEF Spec

-----------------------------------------------------------------------------
\* A thread that stays or becomes late only after it saw at most MaxUnflushed.
LEMMA LateFinite == IsFiniteSet(Late) /\ Cardinality(Late) \in Nat /\ Cardinality(Late) <= Cardinality(Threads)
  BY LoggerAssumption, FS_Subset, FS_CardinalityType DEF Late

LEMMA LateStays ==
  ASSUME Late' \subseteq Late, Len(queue') <= Len(queue), TypeOK, TypeOK', LateBounded
  PROVE  LateBounded'
<1>1. IsFiniteSet(Late) /\ Cardinality(Late) \in Nat
  BY LateFinite
<1>2. Cardinality(Late') \in Nat /\ Cardinality(Late') <= Cardinality(Late)
  BY <1>1, FS_Subset, FS_CardinalityType
<1>3. Cardinality(Threads) \in Nat /\ Cardinality(Threads') = Cardinality(Threads)
  BY LoggerAssumption, FS_CardinalityType
<1>4. Len(queue) \in Nat /\ Len(queue') \in Nat
  <2>1. queue \in Seq(Nat) /\ queue' \in Seq(Nat)
    BY DEF TypeOK
  <2> QED
    BY <2>1
<1>5. Len(queue) + Cardinality(Late) <= MaxUnflushed + Cardinality(Threads)
  BY DEF LateBounded
<1>6. Len(queue') + Cardinality(Late') <= MaxUnflushed + Cardinality(Threads)
  BY <1>1, <1>2, <1>3, <1>4, <1>5, LoggerAssumption
<1> QED
  BY <1>6 DEF LateBounded

\* The looks at the queue are not atomic with what they permit, and still each
\* thread exceeds MaxUnflushedLogStatements by one statement at most.
THEOREM BoundedQueue == Spec => []QueueBounded
<1>1. Init => LateBounded
  <2> SUFFICES ASSUME Init PROVE LateBounded
    OBVIOUS
  <2>1. Late = {}
    BY DEF Init, Late, Committed
  <2>2. Cardinality(Late) = 0 /\ Cardinality(Threads) \in Nat
    BY <2>1, FS_EmptySet, LoggerAssumption, FS_CardinalityType
  <2> QED
    BY <2>2, LoggerAssumption DEF Init, LateBounded
<1>2. TypeOK /\ TypeOK' /\ LateBounded /\ [Next]_vars => LateBounded'
  <2> SUFFICES ASSUME TypeOK, TypeOK', LateBounded, [Next]_vars PROVE LateBounded'
    OBVIOUS
  <2>1. ASSUME NEW t \in Threads, FirstLook(t) PROVE LateBounded'
    <3>1. CASE Len(queue) > MaxUnflushed /\ Go(t, "called", "idle")
      BY SMTT(40), <2>1, <3>1, LateStays DEF FirstLook, Go, TypeOK, Late, Committed, shared
    <3>2. CASE Len(queue) <= MaxUnflushed
      <4>1. Cardinality(Late') \in Nat /\ Cardinality(Late') <= Cardinality(Threads)
        BY LoggerAssumption, FS_Subset, FS_CardinalityType DEF Late
      <4>2. Cardinality(Threads) \in Nat
        BY LoggerAssumption, FS_CardinalityType
      <4>3. Len(queue') <= MaxUnflushed
        BY <2>1, <3>2 DEF FirstLook, shared
      <4>4. queue' \in Seq(Nat)
        BY DEF TypeOK
      <4>5. Len(queue') \in Nat /\ MaxUnflushed \in Nat
        BY <4>4, LoggerAssumption
      <4>6. Len(queue') + Cardinality(Late') <= MaxUnflushed + Cardinality(Threads)
        BY <4>1, <4>2, <4>3, <4>5
      <4> QED
        BY <4>6 DEF LateBounded
    <3> QED
      BY <2>1, <3>1, <3>2 DEF FirstLook
  <2>2. ASSUME NEW t \in Threads, Queue(t) PROVE LateBounded'
    <3>1. t \in Late /\ Late' = Late \ {t}
      BY <2>2 DEF Queue, Go, Late, Committed, TypeOK
    <3>2. IsFiniteSet(Late) /\ Cardinality(Late) \in Nat
      BY LateFinite
    <3>3. Cardinality(Late') = Cardinality(Late) - 1
      BY <3>1, <3>2, FS_RemoveElement
    <3>4. Len(queue') = Len(queue) + 1
      BY <2>2 DEF Queue, TypeOK
    <3>5. Cardinality(Threads) \in Nat
      BY LoggerAssumption, FS_CardinalityType
    <3> QED
      BY SMTT(40), <3>2, <3>3, <3>4, <3>5, LoggerAssumption DEF LateBounded, TypeOK
  <2>3. ASSUME NEW t \in Threads,
               Log(t) \/ SecondLook(t) \/ LockQueue(t) \/ Flush(t) \/ LockFlush(t)
                 \/ ResetFlushed(t) \/ FinishFlush(t) \/ GiveUpFlush(t) \/ Stop(t) \/ CancelOrFlush(t)
        PROVE  LateBounded'
    <3>1. queue' = queue
      BY <2>3 DEF Log, SecondLook, LockQueue, Flush, LockFlush, ResetFlushed, FinishFlush,
                  GiveUpFlush, Stop, CancelOrFlush, shared
    <3>2. Late' \subseteq Late
      BY <2>3 DEF Log, SecondLook, LockQueue, Flush, LockFlush, ResetFlushed, FinishFlush,
                  GiveUpFlush, Stop, CancelOrFlush, Go, Late, Committed, TypeOK
    <3> QED
      BY SMTT(40), <3>1, <3>2, LateStays DEF TypeOK
  <2>4. CASE TakeAll
    <3>1. Len(queue') <= Len(queue) /\ Late' = Late
      BY <2>4 DEF TakeAll, TypeOK, Late, callers
    <3> QED
      BY <3>1, LateStays
  <2>5. CASE Wake \/ SignalFlushed \/ WriteChunk \/ EndTask \/ FailToWrite \/ UNCHANGED vars
    <3>1. queue' = queue /\ Late' = Late
      BY <2>5 DEF Wake, SignalFlushed, WriteChunk, EndTask, FailToWrite, vars, shared, callers, Late
    <3> QED
      BY <3>1, LateStays DEF TypeOK
  <2> QED
    BY <2>1, <2>2, <2>3, <2>4, <2>5 DEF Next, Proceed, DoWork
<1>3. TypeOK /\ LateBounded => QueueBounded
  <2>1. Cardinality(Threads) \in Nat
    BY LoggerAssumption, FS_CardinalityType
  <2> QED
    BY <2>1, LateFinite, LoggerAssumption DEF LateBounded, QueueBounded, TypeOK
<1> QED
  BY <1>1, <1>2, <1>3, TypeCorrect, PTL DEF Spec

-----------------------------------------------------------------------------
LEMMA LockKept == TypeOK /\ LockHeld /\ [Next]_vars => LockHeld'
<1> SUFFICES ASSUME TypeOK, LockHeld, [Next]_vars PROVE LockHeld'
  OBVIOUS
<1> USE LoggerAssumption DEF TypeOK, LockHeld
<1>1. ASSUME NEW t \in Threads,
             Log(t) \/ FirstLook(t) \/ SecondLook(t) \/ Flush(t) \/ LockFlush(t)
               \/ ResetFlushed(t) \/ FinishFlush(t) \/ GiveUpFlush(t) \/ Stop(t) \/ CancelOrFlush(t)
      PROVE  LockHeld'
  <2>1. lock' = lock /\ task' = task /\ queue' = queue
    BY <1>1 DEF Log, FirstLook, SecondLook, Flush, LockFlush, ResetFlushed, FinishFlush,
                GiveUpFlush, Stop, CancelOrFlush, shared, worker
  <2>2. \A u \in Threads : pc'[u] \in {"statementWaits", "noticeWaits"} =>
           pc[u] \in {"statementWaits", "noticeWaits"}
    BY <1>1 DEF Log, FirstLook, SecondLook, Flush, LockFlush, ResetFlushed, FinishFlush,
                GiveUpFlush, Stop, CancelOrFlush, Go
  <2> QED
    BY <2>1, <2>2
<1>2. ASSUME NEW t \in Threads, LockQueue(t) PROVE LockHeld'
  BY <1>2 DEF LockQueue, Go, worker
<1>3. ASSUME NEW t \in Threads, Queue(t) PROVE LockHeld'
  <2>1. lock = t /\ task # "signalling" /\ task' = task
    BY <1>3 DEF Queue, Go, worker
  <2>2. \A u \in Threads : pc'[u] \notin {"statementWaits", "noticeWaits"}
    BY <1>3, <2>1 DEF Queue, Go
  <2> QED
    BY <2>1, <2>2
<1>4. CASE TakeAll
  BY <1>4 DEF TakeAll, callers
<1>5. CASE SignalFlushed
  BY <1>5 DEF SignalFlushed, callers
<1>6. CASE Wake \/ WriteChunk \/ EndTask \/ FailToWrite
  BY <1>6 DEF Wake, WriteChunk, EndTask, FailToWrite, shared, callers
<1>7. CASE UNCHANGED vars
  BY <1>7 DEF vars, shared, callers, worker
<1> QED
  BY <1>1, <1>2, <1>3, <1>4, <1>5, <1>6, <1>7 DEF Next, Proceed, DoWork

LEMMA ServedKept == TypeOK /\ TypeOK' /\ LockHeld /\ FlushServed /\ [Next]_vars => FlushServed'
<1> SUFFICES ASSUME TypeOK, TypeOK', LockHeld, FlushServed, [Next]_vars PROVE FlushServed'
  OBVIOUS
<1>0. /\ accepted \in Nat /\ accepted' \in Nat
      /\ before \in [Threads -> Nat] /\ before' \in [Threads -> Nat]
      /\ queue \in Seq(Nat) /\ queue' \in Seq(Nat)
      /\ pc \in [Threads -> Places]
  BY DEF TypeOK
<1>1. ASSUME NEW t \in Threads, ResetFlushed(t) PROVE FlushServed'
  <2>1. /\ accepted' = accepted /\ flushed' = FALSE
        /\ before' = [before EXCEPT ![t] = accepted]
    BY <1>1 DEF ResetFlushed
  <2>2. \A u \in Threads : u # t /\ pc'[u] \in Flushing => pc[u] \in Flushing
    BY <1>0, <1>1 DEF ResetFlushed, Go
  <2> QED
    BY <1>0, <2>1, <2>2 DEF FlushServed
<1>2. ASSUME NEW t \in Threads, Queue(t) PROVE FlushServed'
  <2>1. accepted' = accepted + 1 /\ Len(queue') = Len(queue) + 1 /\ before' = before /\ flushed
    BY <1>0, <1>2 DEF Queue
  <2>2. \A u \in Threads : pc'[u] \in Flushing => pc[u] \in Flushing
    BY <1>0, <1>2 DEF Queue, Go, Flushing
  <2>3. Len(queue) \in Nat
    BY <1>0
  <2>4. \A u \in Threads : before[u] \in Nat
    BY <1>0
  <2> QED
    BY <1>0, <2>1, <2>2, <2>3, <2>4 DEF FlushServed
<1>3. ASSUME NEW t \in Threads,
             Log(t) \/ FirstLook(t) \/ SecondLook(t) \/ LockQueue(t) \/ Flush(t)
               \/ LockFlush(t) \/ FinishFlush(t) \/ GiveUpFlush(t) \/ Stop(t) \/ CancelOrFlush(t)
      PROVE  FlushServed'
  <2>1. queue' = queue /\ flushed' = flushed /\ accepted' = accepted /\ before' = before
    BY <1>3 DEF Log, FirstLook, SecondLook, LockQueue, Flush, LockFlush, FinishFlush,
                GiveUpFlush, Stop, CancelOrFlush, shared, history
  <2>2. \A u \in Threads : pc'[u] \in Flushing => pc[u] \in Flushing
    BY <1>0, <1>3 DEF Log, FirstLook, SecondLook, LockQueue, Flush, LockFlush, FinishFlush,
                GiveUpFlush, Stop, CancelOrFlush, Go, Flushing
  <2> QED
    BY <2>1, <2>2 DEF FlushServed
<1>4. CASE TakeAll
  BY <1>0, <1>4 DEF TakeAll, FlushServed, callers, history
<1>5. CASE SignalFlushed
  BY <1>0, <1>5 DEF SignalFlushed, FlushServed, LockHeld, callers, history
<1>6. CASE Wake \/ WriteChunk \/ EndTask \/ FailToWrite
  BY <1>6 DEF Wake, WriteChunk, EndTask, FailToWrite, FlushServed, shared, callers, history
<1>7. CASE UNCHANGED vars
  BY <1>7 DEF vars, shared, callers, worker, history, FlushServed
<1> QED
  BY <1>1, <1>2, <1>3, <1>4, <1>5, <1>6, <1>7 DEF Next, Proceed, DoWork

\* The flush event tells the truth: whoever it lets go on finds that the task
\* took everything accepted before the flush, although other flushes set and
\* reset the same event or give up and other threads queue meanwhile.
THEOREM FlushIsComplete == Spec => FlushDrains
<1>1. Init => LockHeld /\ FlushServed
  BY DEF Init, LockHeld, FlushServed
<1>2. TypeOK /\ LockHeld /\ FlushServed /\ [Next]_vars =>
        [\A t \in Threads : FinishFlush(t) => accepted - Len(queue) >= before[t]]_vars
  <2> SUFFICES ASSUME TypeOK, FlushServed, NEW t \in Threads, FinishFlush(t)
               PROVE  accepted - Len(queue) >= before[t]
    OBVIOUS
  <2>1. before[t] + Len(queue) <= accepted
    BY DEF FinishFlush, Go, FlushServed, Flushing
  <2>2. accepted \in Nat /\ before[t] \in Nat /\ queue \in Seq(Nat)
    BY DEF TypeOK
  <2>3. Len(queue) \in Nat
    BY <2>2
  <2> QED
    BY <2>1, <2>2, <2>3
<1> QED
  BY <1>1, <1>2, TypeCorrect, LockKept, ServedKept, PTL DEF Spec, FlushDrains

-----------------------------------------------------------------------------
\* A batch is the chunk that fits the file and the rest.
LEMMA Split ==
  \A s \in Seq(Nat) : \A n \in 0 .. Len(s) : SubSeq(s, 1, n) \o SubSeq(s, n + 1, Len(s)) = s
<1> SUFFICES ASSUME NEW s \in Seq(Nat), NEW n \in 0 .. Len(s)
             PROVE  SubSeq(s, 1, n) \o SubSeq(s, n + 1, Len(s)) = s
  OBVIOUS
<1>1. Len(s) \in Nat
  OBVIOUS
<1>2. 1 \in 1 .. Len(s) + 1 /\ n \in 1 - 1 .. Len(s) /\ Len(s) \in n .. Len(s)
  BY <1>1
<1>3. SubSeq(s, 1, n) \o SubSeq(s, n + 1, Len(s)) = SubSeq(s, 1, Len(s))
  BY <1>2, ConcatAdjacentSubSeq
<1> QED
  BY <1>3, SubSeqFull

LEMMA ConcatNat ==
  \A s, t, u \in Seq(Nat) : (s \o t) \o u = s \o (t \o u)
<1> SUFFICES ASSUME NEW s \in Seq(Nat), NEW t \in Seq(Nat), NEW u \in Seq(Nat)
             PROVE  (s \o t) \o u = s \o (t \o u)
  OBVIOUS
<1> QED
  BY SMTT(40)

LEMMA Accounted == Spec => [](NothingLostInside /\ HandsEmpty)
<1> DEFINE Whole == written \o taken \o queue
           Upto(k) == [i \in 1 .. k |-> i]
<1>1. Init => NothingLostInside /\ HandsEmpty
  BY DEF Init, NothingLostInside, HandsEmpty
<1>2. TypeOK /\ TypeOK' /\ NothingLostInside /\ HandsEmpty /\ [Next]_vars
        => NothingLostInside' /\ HandsEmpty'
  <2> SUFFICES ASSUME TypeOK, TypeOK', NothingLostInside, HandsEmpty, [Next]_vars
               PROVE  NothingLostInside' /\ HandsEmpty'
    OBVIOUS
  <2>0. /\ queue \in Seq(Nat) /\ taken \in Seq(Nat) /\ written \in Seq(Nat)
        /\ accepted \in Nat /\ room \in Nat
    BY LoggerAssumption DEF TypeOK
  <2>1. ASSUME NEW t \in Threads, Queue(t) PROVE NothingLostInside' /\ HandsEmpty'
    <3>1. /\ queue' = Append(queue, accepted + 1) /\ accepted' = accepted + 1
          /\ taken' = taken /\ written' = written /\ task' = task
      BY <2>1 DEF Queue, worker
    <3>2. written' \o taken' \o queue' = Append(Whole, accepted + 1)
      BY SMTT(40), <2>0, <3>1
    <3>3. Append(Upto(accepted), accepted + 1) = Upto(accepted + 1)
      BY <2>0
    <3> QED
      BY <3>1, <3>2, <3>3 DEF NothingLostInside, HandsEmpty
  <2>2. CASE TakeAll
    <3>1. taken = <<>> /\ taken' = queue /\ queue' = <<>> /\ written' = written
          /\ accepted' = accepted /\ task' = "signalling"
      BY <2>2 DEF TakeAll, HandsEmpty, history
    <3>2. written' \o taken' \o queue' = Whole
      BY <2>0, <3>1
    <3> QED
      BY <3>1, <3>2 DEF NothingLostInside, HandsEmpty
  <2>3. CASE WriteChunk
    <3> DEFINE n == IF Len(taken) < room THEN Len(taken) ELSE room
    <3>1. /\ written' = written \o SubSeq(taken, 1, n) /\ taken' = SubSeq(taken, n + 1, Len(taken))
          /\ queue' = queue /\ accepted' = accepted
          /\ task' \in {"idle", "taking"} => taken' = <<>>
      BY <2>3 DEF WriteChunk, shared
    <3>2. n \in 0 .. Len(taken)
      BY <2>0
    <3> HIDE DEF n
    <3>3. SubSeq(taken, 1, n) \o SubSeq(taken, n + 1, Len(taken)) = taken
      BY <2>0, <3>2, Split
    <3>4. SubSeq(taken, 1, n) \in Seq(Nat) /\ SubSeq(taken, n + 1, Len(taken)) \in Seq(Nat)
      BY <2>0, <3>2
    <3>5. (written \o SubSeq(taken, 1, n)) \o SubSeq(taken, n + 1, Len(taken)) = written \o taken
      <4>1. written \o (SubSeq(taken, 1, n) \o SubSeq(taken, n + 1, Len(taken))) = written \o taken
        BY <3>3
      <4> QED
        BY <2>0, <3>4, <4>1, ConcatNat
    <3> QED
      BY <3>1, <3>5 DEF NothingLostInside, HandsEmpty
  <2>4. ASSUME NEW t \in Threads,
               Log(t) \/ FirstLook(t) \/ SecondLook(t) \/ LockQueue(t) \/ Flush(t) \/ LockFlush(t)
                 \/ ResetFlushed(t) \/ FinishFlush(t) \/ GiveUpFlush(t) \/ Stop(t) \/ CancelOrFlush(t)
        PROVE  NothingLostInside' /\ HandsEmpty'
    BY <2>4 DEF Log, FirstLook, SecondLook, LockQueue, Flush, LockFlush, ResetFlushed, FinishFlush,
                GiveUpFlush, Stop, CancelOrFlush, shared, worker, history, NothingLostInside, HandsEmpty
  <2>5. CASE Wake \/ SignalFlushed \/ EndTask \/ FailToWrite \/ UNCHANGED vars
    BY <2>5 DEF Wake, SignalFlushed, EndTask, FailToWrite, vars, shared, worker, history,
                NothingLostInside, HandsEmpty
  <2> QED
    BY <2>1, <2>2, <2>3, <2>4, <2>5 DEF Next, Proceed, DoWork
<1> QED
  BY <1>1, <1>2, TypeCorrect, PTL DEF Spec

\* Whatever the callers and the file boundaries do, the statements accepted are
\* those written, in the task's hands or queued, in their order.
THEOREM NothingLost == Spec => []NothingLostInside
BY Accounted, PTL

-----------------------------------------------------------------------------
\* The event is reset only while a Flush waits for it or after one gave up.
ResetServed == ~flushed => abandoned \/ \E u \in Threads : pc[u] \in Flushing

\* A thread that logs waits only for another thread's flush or for the task to
\* make up for a flush that gave up, whatever number of threads flush at once,
\* with and without time-outs (TaskWrapper.cs:20, 32-49).
THEOREM WaitsEndWithFlush == Spec => []WaitsForAFlush
<1>1. Init => ResetServed
  BY DEF Init, ResetServed
<1>2. TypeOK /\ TypeOK' /\ ResetServed /\ [Next]_vars => ResetServed'
  <2> SUFFICES ASSUME TypeOK, ResetServed, [Next]_vars PROVE ResetServed'
    OBVIOUS
  <2>0. pc \in [Threads -> Places]
    BY DEF TypeOK
  <2>1. ASSUME NEW t \in Threads, ResetFlushed(t) PROVE ResetServed'
    <3>1. \E p \in Flushing : pc' = [pc EXCEPT ![t] = p]
      BY <2>1 DEF ResetFlushed, Go, Flushing
    <3>2. pc'[t] \in Flushing
      BY <2>0, <3>1
    <3> QED
      BY <3>2 DEF ResetServed
  <2>2. ASSUME NEW t \in Threads, FinishFlush(t) PROVE ResetServed'
    BY <2>2 DEF FinishFlush, ResetServed
  <2>3. CASE SignalFlushed
    BY <2>3 DEF SignalFlushed, ResetServed
  <2>4. ASSUME NEW t \in Threads,
               Log(t) \/ FirstLook(t) \/ SecondLook(t) \/ LockQueue(t) \/ Queue(t) \/ Flush(t)
                 \/ LockFlush(t) \/ Stop(t) \/ CancelOrFlush(t)
        PROVE  ResetServed'
    <3>1. flushed' = flushed
      BY <2>4 DEF Log, FirstLook, SecondLook, LockQueue, Queue, Flush, LockFlush, Stop,
                  CancelOrFlush, shared
    <3>2. abandoned' = abandoned
      BY <2>4 DEF Log, FirstLook, SecondLook, LockQueue, Queue, Flush, LockFlush, Stop,
                  CancelOrFlush, history
    <3>3. pc[t] \notin Flushing /\ \E p : pc' = [pc EXCEPT ![t] = p]
      BY <2>4 DEF Log, FirstLook, SecondLook, LockQueue, Queue, Flush, LockFlush,
                  Stop, CancelOrFlush, Go, Flushing
    <3>4. ASSUME NEW u \in Threads, pc[u] \in Flushing PROVE pc'[u] \in Flushing
      BY <2>0, <3>3, <3>4
    <3> QED
      BY <3>1, <3>2, <3>4 DEF ResetServed
  <2>5. CASE Wake \/ TakeAll \/ WriteChunk \/ EndTask \/ FailToWrite \/ UNCHANGED vars
    BY <2>5 DEF Wake, TakeAll, WriteChunk, EndTask, FailToWrite, vars, shared, callers, history, ResetServed
  <2>6. ASSUME NEW t \in Threads, GiveUpFlush(t) PROVE ResetServed'
    BY <2>6 DEF GiveUpFlush, ResetServed
  <2> QED
    BY <2>1, <2>2, <2>3, <2>4, <2>5, <2>6 DEF Next, Proceed, DoWork
<1>3. ResetServed => WaitsForAFlush
  BY DEF ResetServed, WaitsForAFlush, Flushing
<1> QED
  BY <1>1, <1>2, <1>3, TypeCorrect, PTL DEF Spec

-----------------------------------------------------------------------------
\* Only Stop stops: what was accepted before it has left the queue when the task
\* is cancelled, and a task that ends by itself has nothing in its hands.
StopServed ==
    /\ stopper # Nobody => stopping
    /\ \A t \in Threads : pc[t] = "stop" => stopping
    /\ drained <= accepted
    /\ cancelled => stopping /\ drained + Len(queue) <= accepted
    /\ task = "ended" /\ faults = 0 /\ ~cut => cancelled /\ taken = <<>>

LEMMA StopServedKept ==
  TypeOK /\ TypeOK' /\ HandsEmpty /\ StopServed /\ [Next]_vars => StopServed'
<1> SUFFICES ASSUME TypeOK, TypeOK', HandsEmpty, StopServed, [Next]_vars PROVE StopServed'
  OBVIOUS
<1>0. /\ accepted \in Nat /\ drained \in Nat /\ queue \in Seq(Nat) /\ Len(queue) \in Nat
      /\ pc \in [Threads -> Places] /\ Nobody \notin Threads
  <2>1. /\ accepted \in Nat /\ drained \in Nat /\ queue \in Seq(Nat)
        /\ pc \in [Threads -> Places]
    BY DEF TypeOK
  <2> QED
    BY <2>1, LenProperties, LoggerAssumption
<1>1. ASSUME NEW t \in Threads,
             Log(t) \/ FirstLook(t) \/ SecondLook(t) \/ LockQueue(t) \/ Flush(t) \/ LockFlush(t)
               \/ ResetFlushed(t) \/ GiveUpFlush(t)
      PROVE  StopServed'
  <2>1. UNCHANGED <<queue, cancelled, stopping, stopper, task, taken, accepted, drained, cut, faults>>
    BY <1>1 DEF Log, FirstLook, SecondLook, LockQueue, Flush, LockFlush, ResetFlushed,
                GiveUpFlush, shared, worker, history
  <2>2. \A u \in Threads : pc'[u] = "stop" => pc[u] = "stop"
    BY <1>0, <1>1 DEF Log, FirstLook, SecondLook, LockQueue, Flush, LockFlush, ResetFlushed,
                      GiveUpFlush, Go
  <2> QED
    BY <2>1, <2>2 DEF StopServed
<1>2. ASSUME NEW t \in Threads, Queue(t) PROVE StopServed'
  <2>1. /\ Len(queue') = Len(queue) + 1 /\ accepted' = accepted + 1
        /\ UNCHANGED <<cancelled, stopping, stopper, task, taken, drained, cut, faults>>
    BY <1>0, <1>2 DEF Queue, worker
  <2>2. \A u \in Threads : pc'[u] = "stop" => pc[u] = "stop"
    BY <1>0, <1>2 DEF Queue, Go
  <2> QED
    BY <1>0, <2>1, <2>2 DEF StopServed
<1>3. ASSUME NEW t \in Threads, FinishFlush(t) PROVE StopServed'
  <2>1. UNCHANGED <<queue, cancelled, stopping, stopper, task, taken, accepted, drained, cut, faults>>
    BY <1>3 DEF FinishFlush, worker, history
  <2>2. \A u \in Threads : pc'[u] = "stop" => pc[u] = "stop" \/ stopper # Nobody
    BY <1>0, <1>3 DEF FinishFlush, Go
  <2> QED
    BY <2>1, <2>2 DEF StopServed
<1>4. ASSUME NEW t \in Threads, Stop(t) PROVE StopServed'
  <2>1. /\ ~stopping /\ stopping' = TRUE /\ drained' = accepted
        /\ UNCHANGED <<queue, cancelled, task, taken, accepted, cut, faults>>
    BY <1>4 DEF Stop, shared, worker
  <2> QED
    BY <1>0, <2>1 DEF StopServed
<1>5. ASSUME NEW t \in Threads, CancelOrFlush(t) PROVE StopServed'
  <2>1. /\ UNCHANGED <<queue, stopping, task, taken, accepted, drained, cut, faults>>
        /\ pc[t] = "stop"
        /\ \/ UNCHANGED <<cancelled, stopper>>
           \/ queue = <<>> /\ cancelled' = TRUE /\ stopper' = Nobody
    BY <1>5 DEF CancelOrFlush, Go, worker, history
  <2>2. \A u \in Threads : pc'[u] = "stop" => pc[u] = "stop"
    BY <1>0, <1>5 DEF CancelOrFlush, Go
  <2> QED
    BY <1>0, <2>1, <2>2 DEF StopServed
<1>6. CASE TakeAll
  <2>1. /\ queue' = <<>> /\ task' = "signalling"
        /\ UNCHANGED <<cancelled, stopping, stopper, pc, accepted, drained>>
    BY <1>6 DEF TakeAll, callers, history
  <2> QED
    BY <1>0, <2>1 DEF StopServed
<1>7. CASE WriteChunk
  <2>1. /\ UNCHANGED <<queue, cancelled, stopping, stopper, pc, accepted, drained, faults>>
        /\ task' = "ended" => cancelled /\ (cut' <=> taken' # <<>>)
    BY <1>7 DEF WriteChunk, shared, callers
  <2> QED
    BY <2>1 DEF StopServed
<1>8. CASE EndTask
  <2>1. /\ cancelled /\ taken = <<>>
        /\ UNCHANGED <<queue, cancelled, stopping, stopper, pc, taken, accepted, drained>>
    BY <1>8 DEF EndTask, HandsEmpty, shared, callers, history
  <2> QED
    BY <2>1 DEF StopServed
<1>9. CASE FailToWrite
  <2>1. /\ faults' = faults + 1 /\ faults \in Nat
        /\ UNCHANGED <<queue, cancelled, stopping, stopper, pc, accepted, drained>>
    BY <1>9 DEF FailToWrite, shared, callers, TypeOK
  <2>2. faults' # 0
    BY <2>1
  <2> QED
    BY <2>1, <2>2 DEF StopServed
<1>10. CASE Wake \/ SignalFlushed
  <2>1. /\ UNCHANGED <<queue, cancelled, stopping, stopper, pc, accepted, drained>>
        /\ task' # "ended"
    BY <1>10 DEF Wake, SignalFlushed, shared, callers, history
  <2> QED
    BY <2>1 DEF StopServed
<1>11. CASE UNCHANGED vars
  BY <1>11 DEF vars, shared, callers, worker, history, StopServed
<1> QED
  BY <1>1, <1>2, <1>3, <1>4, <1>5, <1>6, <1>7, <1>8, <1>9, <1>10, <1>11 DEF Next, Proceed, DoWork

\* A Stop that has ended the task has everything accepted before it in the files
\* (Logger.cs flushes until the queue is empty and only then cancels), unless a
\* write failed or the task left between two chunks of its last batch.
THEOREM StopLosesNothing == Spec => []StopWritesAll
<1>1. Init => StopServed
  BY DEF Init, StopServed
<1>2. TypeOK /\ NothingLostInside /\ StopServed => StopWritesAll
  <2>1. SUFFICES ASSUME TypeOK, NothingLostInside, StopServed, task = "ended", faults = 0, ~cut
                 PROVE  Len(written) >= drained
    BY DEF StopWritesAll
  <2>2. /\ taken = <<>> /\ drained + Len(queue) <= accepted
        /\ written \in Seq(Nat) /\ queue \in Seq(Nat) /\ accepted \in Nat /\ drained \in Nat
    BY <2>1 DEF StopServed, TypeOK
  <2>3. written \o queue = [n \in 1 .. accepted |-> n]
    BY <2>1, <2>2 DEF NothingLostInside
  <2>4. Len(written \o queue) = Len(written) + Len(queue)
    BY <2>2
  <2>5. Len([n \in 1 .. accepted |-> n]) = accepted
    BY <2>2
  <2>6. Len(written) \in Nat /\ Len(queue) \in Nat
    BY <2>2
  <2> QED
    BY <2>2, <2>3, <2>4, <2>5, <2>6
<1> QED
  BY <1>1, <1>2, StopServedKept, Accounted, TypeCorrect, PTL DEF Spec

=============================================================================
