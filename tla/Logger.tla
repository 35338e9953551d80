-------------------------------- MODULE Logger --------------------------------
(***************************************************************************)
(* The log of a StatePipes process: any number of threads hand statements to *)
(* one task that appends them to the log files.  Logger.cs decides what is    *)
(* dropped and when a caller waits, TaskWrapper.cs holds the queue with its   *)
(* two locks and its flush event, LoggerTask.cs writes.                       *)
(*                                                                           *)
(* A step is what a thread does between two accesses to what others change.   *)
(* The task wakes up on a signal or after FlushTimeoutMilliseconds, so the    *)
(* event that signals it (_resetEventSlim) only saves time and is left out,   *)
(* as are the level filter, the files' names and the purge of old files.      *)
(***************************************************************************)
EXTENDS Naturals, Sequences, FiniteSets

CONSTANTS
    Threads,       \* that log, flush and stop
    Task,          \* the logger task's thread
    Nobody,
    MaxUnflushed,  \* MaxUnflushedLogStatements
    LinesPerFile,  \* MaxLinesPerFile
    \* Bounds.
    MaxCalls,      \* calls of Log and Flush
    MaxFaults      \* failures to write

ASSUME LoggerAssumption ==
    /\ IsFiniteSet(Threads)
    /\ Task \notin Threads /\ Nobody \notin Threads \cup {Task}
    /\ MaxUnflushed \in Nat /\ LinesPerFile \in Nat \ {0}
    /\ MaxCalls \in Nat /\ MaxFaults \in Nat

VARIABLES
    \* TaskWrapper.
    queue,      \* _queue
    lock,       \* who holds _lock
    flushLock,  \* who holds _flushLock
    flushed,    \* _flushEventSlim
    cancelled,  \* the token's IsCancellationRequested
    \* Logger and its callers.
    stopping,   \* _stopping
    stopper,    \* the thread in Stop
    pc,         \* [Threads -> where the thread stands in Log, Flush or Stop]
    \* LoggerTask.
    task,       \* where DoWork stands
    taken,      \* lines
    room,       \* lines the current file still takes
    \* History.
    accepted,   \* statements queued so far: the n-th statement is n
    written,    \* statements in the files
    before,     \* [Threads -> what was accepted when its Flush began]
    drained,    \* what was accepted when Stop was called
    cut,        \* the task ended between two chunks of what it took
    abandoned,  \* a Flush has given up since the event was last set
    calls, faults

shared == <<queue, lock, flushLock, flushed, cancelled>>
callers == <<stopping, stopper, pc>>
worker == <<task, taken, room>>
history == <<accepted, written, before, drained, cut, abandoned, calls, faults>>
vars == <<shared, callers, worker, history>>

\* In Log past the first look at the queue with the statement still to come.
Committed == {"looking", "statement", "notice", "statementWaits", "noticeWaits"}
\* In a Flush that waits for the event, or also for a time-out or a token.
Flushing == {"flushWaits", "timedWaits"}
Places == Committed \cup Flushing \cup {"idle", "called", "flush", "timedFlush", "reset", "timedReset", "stop"}

Init ==
    /\ queue = <<>> /\ lock = Nobody /\ flushLock = Nobody
    /\ flushed = TRUE /\ cancelled = FALSE
    /\ stopping = FALSE /\ stopper = Nobody /\ pc = [t \in Threads |-> "idle"]
    /\ task = "idle" /\ taken = <<>> /\ room = LinesPerFile
    /\ accepted = 0 /\ written = <<>> /\ before = [t \in Threads |-> 0]
    /\ drained = 0 /\ cut = FALSE /\ abandoned = FALSE /\ calls = 0 /\ faults = 0

Go(t, from, to) == pc[t] = from /\ pc' = [pc EXCEPT ![t] = to]

-----------------------------------------------------------------------------
(* Logger.Log: the queue is looked at twice and then locked.                 *)

Log(t) ==
    /\ calls < MaxCalls /\ calls' = calls + 1
    /\ ~stopping
    /\ Go(t, "idle", "called")
    /\ UNCHANGED <<shared, stopping, stopper, worker, accepted, written, before, drained, cut, abandoned, faults>>

\* Mutant: no first look.
FirstLookSkipped(t) ==
    /\ Go(t, "called", "looking")
    /\ UNCHANGED <<shared, stopping, stopper, worker, history>>

FirstLook(t) ==
    /\ \/ Len(queue) > MaxUnflushed /\ Go(t, "called", "idle")
       \/ Len(queue) <= MaxUnflushed /\ Go(t, "called", "looking")
    /\ UNCHANGED <<shared, stopping, stopper, worker, history>>

SecondLook(t) ==
    /\ \/ Len(queue) = MaxUnflushed /\ Go(t, "looking", "notice")
       \/ Len(queue) # MaxUnflushed /\ Go(t, "looking", "statement")
    /\ UNCHANGED <<shared, stopping, stopper, worker, history>>

\* TaskWrapper.Queue takes the lock and only then waits for a flush to end.
LockQueue(t) ==
    /\ lock = Nobody /\ lock' = t
    /\ Go(t, "statement", "statementWaits") \/ Go(t, "notice", "noticeWaits")
    /\ UNCHANGED <<queue, flushLock, flushed, cancelled, stopping, stopper, worker, history>>

Queue(t) ==
    /\ flushed
    /\ accepted' = accepted + 1
    /\ queue' = Append(queue, accepted')
    /\ lock' = Nobody
    /\ Go(t, "statementWaits", "idle") \/ Go(t, "noticeWaits", "flush")
    /\ UNCHANGED <<flushLock, flushed, cancelled, stopping, stopper, worker,
                   written, before, drained, cut, abandoned, calls, faults>>

-----------------------------------------------------------------------------
(* TaskWrapper.Flush, called at the limit and by Stop without a time-out, by  *)
(* anyone with or without one.                                               *)

Flush(t) ==
    /\ calls < MaxCalls /\ calls' = calls + 1
    /\ Go(t, "idle", "flush") \/ Go(t, "idle", "timedFlush")
    /\ UNCHANGED <<shared, stopping, stopper, worker, accepted, written, before, drained, cut, abandoned, faults>>

LockFlush(t) ==
    /\ flushLock = Nobody /\ flushLock' = t
    /\ Go(t, "flush", "reset") \/ Go(t, "timedFlush", "timedReset")
    /\ UNCHANGED <<queue, lock, flushed, cancelled, stopping, stopper, worker, history>>

\* Mutant: the event is left set.
ResetForgotten(t) ==
    /\ Go(t, "reset", "flushWaits") \/ Go(t, "timedReset", "timedWaits")
    /\ before' = [before EXCEPT ![t] = accepted]
    /\ UNCHANGED <<shared, stopping, stopper, worker, accepted, written, drained, cut, abandoned, calls, faults>>

ResetFlushed(t) ==
    /\ flushed' = FALSE
    /\ Go(t, "reset", "flushWaits") \/ Go(t, "timedReset", "timedWaits")
    /\ before' = [before EXCEPT ![t] = accepted]
    /\ UNCHANGED <<queue, lock, flushLock, cancelled, stopping, stopper, worker,
                   accepted, written, drained, cut, abandoned, calls, faults>>

\* Mutant: nobody waits for a flush of an empty queue.
FinishFlushOfNothing(t) ==
    /\ flushed \/ queue = <<>>
    /\ flushLock' = Nobody
    /\ \/ Go(t, "flushWaits", IF t = stopper THEN "stop" ELSE "idle")
       \/ Go(t, "timedWaits", "idle")
    /\ UNCHANGED <<queue, lock, flushed, cancelled, stopping, stopper, worker, history>>

FinishFlush(t) ==
    /\ flushed
    /\ flushLock' = Nobody
    /\ \/ Go(t, "flushWaits", IF t = stopper THEN "stop" ELSE "idle")
       \/ Go(t, "timedWaits", "idle")
    /\ UNCHANGED <<queue, lock, flushed, cancelled, stopping, stopper, worker, history>>

\* The time passes, or the token throws: the event stays as it is.
GiveUpFlush(t) ==
    /\ flushLock' = Nobody
    /\ Go(t, "timedWaits", "idle")
    /\ abandoned' = (abandoned \/ ~flushed)
    /\ UNCHANGED <<queue, lock, flushed, cancelled, stopping, stopper, worker,
                   accepted, written, before, drained, cut, calls, faults>>

-----------------------------------------------------------------------------
(* Logger.Stop: flush until the queue is empty, then cancel.  It waits for    *)
(* the task for a second at most, whatever the task does.                    *)

Stop(t) ==
    /\ ~stopping
    /\ stopping' = TRUE /\ stopper' = t
    /\ drained' = accepted
    /\ Go(t, "idle", "stop")
    /\ UNCHANGED <<shared, worker, accepted, written, before, cut, abandoned, calls, faults>>

\* Mutant: the queue is flushed once, whatever it holds after it.
CancelAtOnce(t) ==
    /\ cancelled' = TRUE /\ stopper' = Nobody
    /\ Go(t, "stop", "idle")
    /\ UNCHANGED <<queue, lock, flushLock, flushed, stopping, worker, history>>

CancelOrFlush(t) ==
    /\ \/ queue # <<>> /\ Go(t, "stop", "flush") /\ UNCHANGED <<cancelled, stopper>>
       \/ /\ queue = <<>> /\ Go(t, "stop", "idle")
          /\ cancelled' = TRUE /\ stopper' = Nobody
    /\ UNCHANGED <<queue, lock, flushLock, flushed, stopping, worker, history>>

-----------------------------------------------------------------------------
(* LoggerTask.DoWork.                                                        *)

Wake ==
    /\ task = "idle" /\ ~cancelled
    /\ task' = "taking"
    /\ UNCHANGED <<shared, callers, taken, room, history>>

\* GetAll under the lock: the queue is emptied, then the flush ends.
TakeAll ==
    /\ task = "taking" /\ task' = "signalling"
    /\ lock = Nobody /\ lock' = Task
    /\ taken' = queue /\ queue' = <<>>
    /\ UNCHANGED <<flushLock, flushed, cancelled, callers, room, history>>

\* Mutant: a flush ends only when there was something to take.
SignalIfTaken ==
    /\ task = "signalling"
    /\ flushed' = (flushed \/ taken # <<>>) /\ lock' = Nobody
    /\ abandoned' = (abandoned /\ taken = <<>>)
    /\ task' = IF taken = <<>> THEN "idle" ELSE "writing"
    /\ UNCHANGED <<queue, flushLock, cancelled, callers, taken, room,
                   accepted, written, before, drained, cut, calls, faults>>

SignalFlushed ==
    /\ task = "signalling"
    /\ flushed' = TRUE /\ lock' = Nobody
    /\ abandoned' = FALSE
    /\ task' = IF taken = <<>> THEN "idle" ELSE "writing"
    /\ UNCHANGED <<queue, flushLock, cancelled, callers, taken, room,
                   accepted, written, before, drained, cut, calls, faults>>

\* Mutant: the count of lines is kept when a new file starts.
RoomUnreset(n) == room - n
\* What a write leaves for the current file or the next one.
RoomAfter(n) == IF room = n THEN LinesPerFile ELSE room - n

\* Mutant: the line at the boundary is dropped.
WriteChunkPastBoundary ==
    /\ task = "writing"
    /\ LET n == IF Len(taken) < room THEN Len(taken) ELSE room
       IN  /\ written' = written \o SubSeq(taken, 1, n)
           /\ taken' = SubSeq(taken, n + 2, Len(taken))
           /\ room' = RoomAfter(n)
    /\ task' = IF cancelled THEN "ended" ELSE IF taken' = <<>> THEN "idle" ELSE "writing"
    /\ cut' = (cancelled /\ taken' # <<>>)
    /\ UNCHANGED <<shared, callers, accepted, before, drained, abandoned, calls, faults>>

\* The lines that fit are appended; cancellation is looked at after that.
WriteChunk ==
    /\ task = "writing"
    /\ LET n == IF Len(taken) < room THEN Len(taken) ELSE room
       IN  /\ written' = written \o SubSeq(taken, 1, n)
           /\ taken' = SubSeq(taken, n + 1, Len(taken))
           /\ room' = RoomAfter(n)
    /\ task' = IF cancelled THEN "ended" ELSE IF taken' = <<>> THEN "idle" ELSE "writing"
    /\ cut' = (cancelled /\ taken' # <<>>)
    /\ UNCHANGED <<shared, callers, accepted, before, drained, abandoned, calls, faults>>

\* The token ends the task's wait.
EndTask ==
    /\ task = "idle" /\ cancelled
    /\ task' = "ended"
    /\ UNCHANGED <<shared, callers, taken, room, history>>

\* An exception in a write ends the task, and nobody hears of it.
FailToWrite ==
    /\ faults < MaxFaults /\ faults' = faults + 1
    /\ task = "writing" /\ task' = "ended"
    /\ UNCHANGED <<shared, callers, taken, room, accepted, written, before, drained, cut, abandoned, calls>>

-----------------------------------------------------------------------------
Proceed(t) ==
    \/ FirstLook(t) \/ SecondLook(t) \/ LockQueue(t) \/ Queue(t)
    \/ LockFlush(t) \/ ResetFlushed(t) \/ FinishFlush(t)
    \/ CancelOrFlush(t)

DoWork == Wake \/ TakeAll \/ SignalFlushed \/ WriteChunk \/ EndTask

Next ==
    \/ \E t \in Threads : Proceed(t) \/ Log(t) \/ Flush(t) \/ GiveUpFlush(t) \/ Stop(t)
    \/ DoWork
    \/ FailToWrite

Spec == Init /\ [][Next]_vars

\* Threads inside a call and the task are scheduled; nobody has to call, and a
\* time-out or a token may be as far away as one likes.  The
\* task lets go of the lock for most of a second and cannot keep a caller out.
FairSpec ==
    /\ Spec
    /\ WF_vars(DoWork)
    /\ \A t \in Threads : WF_vars(Proceed(t)) /\ SF_vars(LockQueue(t))

-----------------------------------------------------------------------------
(* Properties.                                                               *)

TypeOK ==
    /\ queue \in Seq(Nat) /\ taken \in Seq(Nat) /\ written \in Seq(Nat)
    /\ lock \in Threads \cup {Task, Nobody} /\ flushLock \in Threads \cup {Nobody}
    /\ flushed \in BOOLEAN /\ cancelled \in BOOLEAN /\ stopping \in BOOLEAN
    /\ stopper \in Threads \cup {Nobody}
    /\ pc \in [Threads -> Places]
    /\ task \in {"idle", "taking", "signalling", "writing", "ended"}
    /\ room \in 1 .. LinesPerFile
    /\ accepted \in Nat /\ drained \in Nat /\ cut \in BOOLEAN /\ abandoned \in BOOLEAN
    /\ before \in [Threads -> Nat]
    /\ calls \in Nat /\ faults \in Nat

\* MaxUnflushedLogStatements bounds the queue although Log looks at it twice
\* without the lock: each thread may come late with one statement, no more.
QueueBounded == Len(queue) <= MaxUnflushed + Cardinality(Threads)

\* Every statement accepted is in the files, in the batch being written or in
\* the queue, once and in the order of the lock, across file boundaries too.
NothingLostInside == written \o taken \o queue = [n \in 1 .. accepted |-> n]

\* When the event ends a Flush, the task has taken everything accepted before the
\* flush began, whatever other threads queue, flush, give up or reset meanwhile.
\* A Flush that gives up (GiveUpFlush) promises nothing.
FlushDrains ==
    [][\A t \in Threads : FinishFlush(t) => accepted - Len(queue) >= before[t]]_vars

\* A Stop that has cancelled the task loses nothing accepted before it was
\* called, unless a write failed or the last batch did not fit one file: the
\* task leaves between the chunks of a batch.
StopWritesAll ==
    task = "ended" /\ faults = 0 /\ ~cut => Len(written) >= drained

\* A call of Log waits for a flush event only while another thread is inside
\* the Flush that reset it, or after a Flush with a time-out or a token gave up
\* and the task has not come by since: no Flush that ended by the event leaves
\* it reset, whichever of several flushers and signals came first.
WaitsForAFlush ==
    \A t \in Threads : pc[t] \in {"statementWaits", "noticeWaits"} /\ ~flushed =>
        abandoned \/ \E u \in Threads : u # t /\ pc[u] \in Flushing

\* A caller holds the lock the task needs to set the event it waits for: the way
\* two threads stop the logger, or one by itself after a Flush that gave up
\* (TaskWrapper.cs:20, 38, 47).
Stuck == \E t \in Threads : pc[t] \in {"statementWaits", "noticeWaits"} /\ ~flushed

\* Every call of Log, Flush and Stop returns, unless the logger is stopped,
\* stuck, or a write failed: a Flush after that waits for a task that is gone.
CallsEnd ==
    \A t \in Threads : pc[t] # "idle" ~> (pc[t] = "idle" \/ cancelled \/ Stuck \/ faults > 0)

\* The same without the lock's exception.  Log "drops" statements beyond the
\* limit (Logger.cs:63), it does not promise to block on them.
CallsReturn == \A t \in Threads : pc[t] # "idle" ~> (pc[t] = "idle" \/ cancelled)

\* Every statement accepted is written in the end, with the same exceptions.
EverythingWritten ==
    \A n \in 1 .. 2 * MaxCalls :
        accepted >= n ~> (Len(written) >= n \/ cancelled \/ Stuck \/ faults > 0)
=============================================================================
