------------------------------ MODULE OpcUaClient ------------------------------
(***************************************************************************)
(* StatePipes.OpcUaBridge/OpcUaClient.cs: the bridge's two OPC UA sessions.   *)
(* The session loop (ServiceWorker.cs) connects and disconnects the main one; *)
(* method calls go over a call session of their own, which callers open when  *)
(* they first need it and which must not outlive the main session it was      *)
(* opened beside.  Loop and callers run on different threads and share        *)
(* _session, _callSession, _disconnected and the keep-alive flag.             *)
(*                                                                           *)
(* A step is what a thread does between two accesses to those fields.         *)
(* Everything a caller does before its call on a session is under             *)
(* _callSessionLock, so its locals are one variable each.  The server, the    *)
(* link and the stack's keep-alive thread are the environment.                *)
(***************************************************************************)
EXTENDS Naturals

CONSTANTS
    Callers,      \* of CallAsync
    None,
    StoreBuffers, \* TRUE where a store may be seen by others after later loads
    \* Bounds.
    MaxConnects,  \* main sessions that come up
    MaxOpens,     \* call sessions opened
    MaxBreaks     \* call sessions that break, keep-alives that fail

ASSUME ClientAssumption ==
    /\ None \notin Nat /\ None \notin Callers
    /\ StoreBuffers \in BOOLEAN
    /\ MaxConnects \in Nat /\ MaxOpens \in Nat /\ MaxBreaks \in Nat

\* A main session is its number, a call session its number and the main session
\* that the caller who opened it saw.
Mains == Nat \ {0}
CallSessions == [number : Nat, main : Mains]
ASSUME NoneAssumption == None \notin CallSessions

VARIABLES
    \* The fields of OpcUaClient.
    main,            \* _session
    callSession,     \* _callSession, as other threads see it
    unseen,          \* a store to _callSession that others do not see yet
    keepAliveFailed, \* _keepAliveFailed
    lock,            \* who holds _callSessionLock
    \* The session loop.
    loop,            \* where MaintainOpcUaSessionAsync stands
    next,            \* where it goes on after DisconnectAsync
    stopping,        \* the stopping token
    \* The callers.
    pc,              \* [Callers -> where CallAsync stands]
    using,           \* [Callers -> the call session the call runs on]
    token,           \* disconnected: what became of the token the holder read
    seen,            \* main
    made,            \* callSession: the session the holder has just opened
    \* The environment.
    linked,          \* the main session's Connected
    late,            \* main sessions with a bad keep-alive still to be handled
    open,            \* call sessions nobody has disposed of
    broken,          \* those that are of no use any more
    \* History.
    missed,          \* a call session a disconnect could not see
    connects, opens, breaks

fields == <<main, callSession, unseen, keepAliveFailed, lock>>
worker == <<loop, next, stopping>>
callers == <<pc, using, token, seen, made>>
outside == <<linked, late, open, broken>>
history == <<missed, connects, opens, breaks>>
vars == <<fields, worker, callers, outside, history>>

Init ==
    /\ main = None /\ callSession = None /\ unseen = None
    /\ keepAliveFailed = FALSE /\ lock = None
    /\ loop = "clear" /\ next = "connecting" /\ stopping = FALSE
    /\ pc = [t \in Callers |-> "idle"] /\ using = [t \in Callers |-> None]
    /\ token = "current" /\ seen = None /\ made = None
    /\ linked = FALSE /\ late = {} /\ open = {} /\ broken = {}
    /\ missed = None /\ connects = 0 /\ opens = 0 /\ breaks = 0

IsConnected == main # None /\ linked /\ ~keepAliveFailed

\* Exchange with null, then dispose: a broken session is disposed of as well.
CloseCallSession ==
    /\ callSession' = None
    /\ open' = open \ {callSession}
    /\ broken' = broken \ {callSession}

-----------------------------------------------------------------------------
(* The session loop: ConnectAsync and DisconnectAsync.                       *)

ClearSession ==
    /\ loop = "clear" /\ loop' = "exchange"
    /\ main' = None /\ linked' = FALSE
    /\ UNCHANGED <<callSession, unseen, keepAliveFailed, lock, next, stopping, callers,
                   late, open, broken, history>>

ExchangeToken ==
    /\ loop = "exchange" /\ loop' = "cancel"
    /\ token' = IF token = "current" THEN "exchanged" ELSE token
    /\ UNCHANGED <<fields, next, stopping, pc, using, seen, made, outside, history>>

CancelToken ==
    /\ loop = "cancel" /\ loop' = "close"
    /\ token' = IF token = "exchanged" THEN "cancelled" ELSE token
    /\ UNCHANGED <<fields, next, stopping, pc, using, seen, made, outside, history>>

\* Mutant: the call session is left to its callers.
CloseMainOnly ==
    /\ loop = "close" /\ loop' = next
    /\ UNCHANGED <<fields, next, stopping, callers, outside, history>>

\* CloseCallSession, and the rest of DisconnectAsync.
CloseSessions ==
    /\ loop = "close" /\ loop' = next
    /\ CloseCallSession
    /\ missed' = unseen
    /\ UNCHANGED <<main, unseen, keepAliveFailed, lock, next, stopping, callers, linked, late,
                   connects, opens, breaks>>

ResetKeepAlive ==
    /\ loop = "connecting" /\ loop' = "connected"
    /\ connects < MaxConnects /\ connects' = connects + 1
    /\ keepAliveFailed' = FALSE
    /\ UNCHANGED <<main, callSession, unseen, lock, next, stopping, callers, outside,
                   missed, opens, breaks>>

\* Mutant: the flag is reset once the session is in use.
ConnectThenReset ==
    /\ loop \in {"connected", "discovering"}
    /\ \/ loop = "connected" /\ loop' = "discovering"
          /\ main' = connects /\ linked' = TRUE /\ UNCHANGED keepAliveFailed
       \/ loop = "discovering" /\ loop' = "watching"
          /\ keepAliveFailed' = FALSE /\ UNCHANGED <<main, linked>>
    /\ UNCHANGED <<callSession, unseen, lock, next, stopping, callers, late, open, broken, history>>

Connect ==
    /\ loop = "connected" /\ loop' = "discovering"
    /\ main' = connects /\ linked' = TRUE
    /\ UNCHANGED <<callSession, unseen, keepAliveFailed, lock, next, stopping, callers,
                   late, open, broken, history>>

Discover ==
    /\ loop = "discovering" /\ loop' = "watching"
    /\ UNCHANGED <<fields, next, stopping, callers, outside, history>>

Disconnect(after) ==
    /\ loop' = "clear" /\ next' = after
    /\ UNCHANGED <<fields, stopping, callers, outside, history>>

\* ConnectAsync or DiscoverAsync throws, or the watch sees the session lost.
Lose ==
    /\ loop \in {"connecting", "discovering"} \/ (loop = "watching" /\ ~IsConnected)
    /\ Disconnect("delay")

\* ConnectAsync disconnects first.  No store is still on its way after the delay.
Reconnect ==
    /\ loop = "delay" /\ ~stopping /\ unseen = None
    /\ Disconnect("connecting")

\* The loop ends and the client is disposed of.
EndLoop ==
    /\ stopping /\ loop \in {"connecting", "discovering", "watching", "delay"}
    /\ Disconnect("ended")

Stop ==
    /\ ~stopping /\ stopping' = TRUE
    /\ UNCHANGED <<fields, loop, next, callers, outside, history>>

-----------------------------------------------------------------------------
(* CallAsync and GetCallSessionAsync.                                        *)

Go(t, from, to) == pc[t] = from /\ pc' = [pc EXCEPT ![t] = to]

\* What an uncontended part of GetCallSessionAsync leaves alone.
Quiet == UNCHANGED <<main, keepAliveFailed, worker, linked, late>>

Call(t) ==
    /\ Go(t, "idle", "lock")
    /\ UNCHANGED <<fields, worker, using, token, seen, made, outside, history>>

Lock(t) ==
    /\ lock = None /\ lock' = t
    /\ Go(t, "lock", "token")
    /\ Quiet /\ UNCHANGED <<callSession, unseen, using, token, seen, made, open, broken, history>>

ReadToken(t) ==
    /\ Go(t, "token", "main")
    /\ token' = "current"
    /\ Quiet /\ UNCHANGED <<callSession, unseen, lock, using, seen, made, open, broken, history>>

ReadMain(t) ==
    /\ Go(t, "main", "check")
    /\ seen' = main
    /\ Quiet /\ UNCHANGED <<callSession, unseen, lock, using, token, made, open, broken, history>>

\* Leaving GetCallSessionAsync; releasing the lock is a barrier for stores.
Unlock == lock' = None /\ unseen = None /\ seen' = None /\ made' = None /\ token' = "current"

\* Mutant: the session is looked at once, as part of IsConnected.
CheckOnce(t) ==
    /\ \/ /\ ~IsConnected
          /\ Go(t, "check", "idle") /\ Unlock
       \/ /\ IsConnected
          /\ Go(t, "check", "choose") /\ UNCHANGED <<lock, token, seen, made>>
    /\ Quiet /\ UNCHANGED <<callSession, unseen, using, open, broken, history>>

CheckConnected(t) ==
    /\ \/ /\ seen = None \/ ~IsConnected
          /\ Go(t, "check", "idle") /\ Unlock
       \/ /\ seen # None /\ IsConnected
          /\ Go(t, "check", "choose") /\ UNCHANGED <<lock, token, seen, made>>
    /\ Quiet /\ UNCHANGED <<callSession, unseen, using, open, broken, history>>

\* Mutant: a session that broke is not closed before the next is opened.
ChooseUnclosed(t) ==
    /\ \/ /\ callSession # None
          /\ using' = [using EXCEPT ![t] = callSession]
          /\ Go(t, "choose", "calling") /\ Unlock
       \/ /\ callSession = None \/ callSession \in broken
          /\ Go(t, "choose", "opening")
          /\ UNCHANGED <<using, lock, token, seen, made>>
    /\ Quiet /\ UNCHANGED <<callSession, unseen, open, broken, history>>

\* The open call session if there is one; a break may not have been noticed.
Choose(t) ==
    /\ \/ /\ callSession # None
          /\ using' = [using EXCEPT ![t] = callSession]
          /\ Go(t, "choose", "calling") /\ Unlock
          /\ UNCHANGED <<callSession, open, broken>>
       \/ /\ callSession = None \/ callSession \in broken
          /\ Go(t, "choose", "opening") /\ CloseCallSession
          /\ UNCHANGED <<using, lock, token, seen, made>>
    /\ Quiet /\ UNCHANGED <<unseen, history>>

Open(t) ==
    /\ Go(t, "opening", "publish")
    /\ opens < MaxOpens /\ opens' = opens + 1
    /\ made' = [number |-> opens, main |-> seen]
    /\ open' = open \cup {made'}
    /\ Quiet /\ UNCHANGED <<callSession, unseen, lock, using, token, seen, broken,
                          missed, connects, breaks>>

\* Cancelled, timed out after CallSessionOpenTimeout, or refused.
GiveUpOpening(t) ==
    /\ Go(t, "opening", "idle") /\ Unlock
    /\ Quiet /\ UNCHANGED <<callSession, unseen, using, open, broken, history>>

Publish(t) ==
    /\ Go(t, "publish", "recheckToken")
    /\ \/ callSession' = made /\ UNCHANGED unseen
       \/ StoreBuffers /\ unseen' = made /\ UNCHANGED callSession
    /\ Quiet /\ UNCHANGED <<lock, using, token, seen, made, open, broken, history>>

\* The store gets through to the other threads.
Drain ==
    /\ unseen # None
    /\ callSession' = unseen /\ unseen' = None
    /\ Quiet /\ UNCHANGED <<lock, callers, open, broken, history>>

\* Mutant: no look back.
RecheckNothing(t) ==
    /\ Go(t, "recheckToken", "recheckMain")
    /\ seen' = main
    /\ Quiet /\ UNCHANGED <<callSession, unseen, lock, using, token, made, open, broken, history>>

RecheckToken(t) ==
    /\ Go(t, "recheckToken", IF token = "cancelled" THEN "drop" ELSE "recheckMain")
    /\ Quiet /\ UNCHANGED <<callSession, unseen, lock, using, token, seen, made, open, broken, history>>

RecheckMain(t) ==
    /\ \/ /\ main # seen /\ Go(t, "recheckMain", "drop")
          /\ UNCHANGED <<using, lock, token, seen, made>>
       \/ /\ main = seen /\ Go(t, "recheckMain", "return")
          /\ using' = [using EXCEPT ![t] = made]
          /\ UNCHANGED <<lock, token, seen, made>>
    /\ Quiet /\ UNCHANGED <<callSession, unseen, open, broken, history>>

Return(t) ==
    /\ Go(t, "return", "calling") /\ Unlock
    /\ Quiet /\ UNCHANGED <<callSession, unseen, using, open, broken, history>>

DropCallSession(t) ==
    /\ Go(t, "drop", "idle") /\ Unlock
    /\ CloseCallSession
    /\ Quiet /\ UNCHANGED <<unseen, using, history>>

HangUp(t) == using' = [using EXCEPT ![t] = None]

\* The server answers.
Answer(t) ==
    /\ using[t] \in open \ broken
    /\ Go(t, "calling", "idle") /\ HangUp(t)
    /\ Quiet /\ UNCHANGED <<callSession, unseen, lock, token, seen, made, open, broken, history>>

\* Mutant: whatever call session there is by now is dropped.
CallThrowsAndCloses(t) ==
    /\ Go(t, "calling", "idle") /\ HangUp(t)
    /\ CloseCallSession
    /\ Quiet /\ UNCHANGED <<unseen, lock, token, seen, made, history>>

\* Whatever the failure - the session was disposed of or broke, or the server
\* refused this one call - the session is dropped if it is still the call session.
CallThrows(t) ==
    /\ Go(t, "calling", "idle") /\ HangUp(t)
    /\ IF callSession = using[t] THEN CloseCallSession ELSE UNCHANGED <<callSession, open, broken>>
    /\ Quiet /\ UNCHANGED <<unseen, lock, token, seen, made, history>>

\* The stopping token ends a call wherever it waits, and drops nothing.
CallCancelled(t) ==
    /\ stopping
    /\ \/ /\ Go(t, "lock", "idle") \/ Go(t, "calling", "idle")
          /\ UNCHANGED <<lock, token, seen, made>>
       \/ Go(t, "opening", "idle") /\ Unlock
    /\ HangUp(t)
    /\ Quiet /\ UNCHANGED <<callSession, unseen, open, broken, history>>

-----------------------------------------------------------------------------
(* The link, the server and the stack's keep-alive thread.                   *)

LinkDrops ==
    /\ main # None /\ linked /\ linked' = FALSE
    /\ UNCHANGED <<fields, worker, callers, late, open, broken, history>>

Break(s) ==
    /\ breaks < MaxBreaks /\ breaks' = breaks + 1
    /\ broken' = broken \cup {s}
    /\ UNCHANGED <<fields, worker, callers, linked, late, open, missed, connects, opens>>

\* The handler is called, and runs some time later: unhooking it does not stop
\* a call already under way.
KeepAliveFails ==
    /\ breaks < MaxBreaks /\ breaks' = breaks + 1
    /\ main # None
    /\ late' = late \cup {main}
    /\ UNCHANGED <<fields, worker, callers, linked, open, broken, missed, connects, opens>>

OnKeepAlive(s) ==
    /\ late' = late \ {s}
    /\ keepAliveFailed' = TRUE
    /\ UNCHANGED <<main, callSession, unseen, lock, worker, callers, linked, open, broken, history>>

-----------------------------------------------------------------------------
DisconnectAsync == ClearSession \/ ExchangeToken \/ CancelToken \/ CloseSessions

MaintainSession ==
    \/ DisconnectAsync
    \/ ResetKeepAlive \/ Connect \/ Discover
    \/ Lose \/ Reconnect \/ EndLoop

GetCallSession(t) ==
    \/ ReadToken(t) \/ ReadMain(t) \/ CheckConnected(t) \/ Choose(t)
    \/ Open(t) \/ GiveUpOpening(t) \/ Publish(t)
    \/ RecheckToken(t) \/ RecheckMain(t) \/ Return(t) \/ DropCallSession(t)

Next ==
    \/ MaintainSession \/ Stop
    \/ \E t \in Callers :
          \/ Call(t) \/ Lock(t) \/ GetCallSession(t)
          \/ Answer(t) \/ CallThrows(t) \/ CallCancelled(t)
    \/ Drain
    \/ LinkDrops \/ KeepAliveFails
    \/ \E s \in open \ broken : Break(s)
    \/ \E s \in late : OnKeepAlive(s)

Spec == Init /\ [][Next]_vars

\* Every thread goes on, opening ends after CallSessionOpenTimeout, connecting
\* and discovering after the stack's timeout, and a store gets through.  A call
\* on a session that was disposed of throws, and the stopping token ends any call;
\* no server needs to answer.
FairSpec ==
    /\ Spec
    /\ WF_vars(MaintainSession) /\ WF_vars(Drain)
    /\ \A t \in Callers :
          /\ SF_vars(Lock(t)) /\ WF_vars(GetCallSession(t))
          /\ WF_vars(using[t] \notin open /\ CallThrows(t)) /\ WF_vars(CallCancelled(t))

-----------------------------------------------------------------------------
(* Properties.                                                               *)

Disconnecting == loop \in {"exchange", "cancel", "close"}
Rechecking == {"recheckToken", "recheckMain", "drop"}
Locked == Rechecking \cup {"token", "main", "check", "choose", "opening", "publish", "return"}

TypeOK ==
    /\ main \in Mains \cup {None} /\ seen \in Mains \cup {None}
    /\ {callSession, unseen, made, missed} \subseteq CallSessions \cup {None}
    /\ keepAliveFailed \in BOOLEAN /\ stopping \in BOOLEAN /\ linked \in BOOLEAN
    /\ lock \in Callers \cup {None}
    /\ loop \in {"clear", "exchange", "cancel", "close", "connecting", "connected",
                 "discovering", "watching", "delay", "ended"}
    /\ next \in {"connecting", "delay", "ended"}
    /\ pc \in [Callers -> Locked \cup {"idle", "lock", "calling"}]
    /\ using \in [Callers -> CallSessions \cup {None}]
    /\ token \in {"current", "exchanged", "cancelled"}
    /\ late \subseteq Mains /\ open \subseteq CallSessions /\ broken \subseteq open
    /\ connects \in Nat /\ opens \in Nat /\ breaks \in Nat

\* Every call session that is not disposed of can still be: it is the call
\* session, about to become it, or in the hands of the caller that opened it.
NoneLost == open \subseteq {callSession, unseen, made}

\* "A disconnect cancels the token before closing the call session, so one that
\* ran while this session was opening is seen here, and this session closed,
\* whatever the interleaving" (OpcUaClient.cs:186-187): a call session is of the
\* main session that is up, unless a disconnect is on its way to it or its
\* opener is still to look.  A store the disconnect could not see is the exception.
EndsWithMain ==
    callSession # None /\ callSession.main # main /\ callSession # missed =>
        Disconnecting \/ \E t \in Callers : pc[t] \in Rechecking

\* While the main session stays, a call on a sound session of it is cut short by
\* nothing but another call that fails on the very same session: a failure on a
\* session that was since replaced, an own cancellation, opening and looking back
\* leave it alone.
NotCut(t) ==
    (/\ using[t] \in open \ broken
     /\ using[t].main = main /\ main' = main
     /\ using'[t] = using[t])
    => \/ using[t] \in open'
       \/ \E u \in Callers \ {t} : using[u] = using[t] /\ CallThrows(u)
CallsNotCut == [][\A t \in Callers : NotCut(t)]_vars

\* A failed keep-alive is not forgotten while the session it ends is in use.
AlarmKept ==
    [][main # None /\ main' = main /\ keepAliveFailed => keepAliveFailed']_vars

\* "Losing the main session closes the call session, which ends a running call"
\* (opcua-bridge-exec-design.md): a call whose main session is gone ends, although
\* nothing bounds the time the server may take and whatever its opener missed.
CallsEndWithMain ==
    \A t \in Callers :
        (using[t] # None /\ using[t].main # main) ~> using[t] = None
=============================================================================
