---------------------------- MODULE OpcUaClientProofs ----------------------------
(***************************************************************************)
(* Proofs about OpcUaClient for any callers and any bounds: types, that no    *)
(* call session is lost, that none outlives its main session unseen, and      *)
(* that callers do not cut each other's calls.                                *)
(***************************************************************************)
EXTENDS OpcUaClient, TLAPS

Made == Rechecking \cup {"publish", "return"}

\* Who is in GetCallSessionAsync holds its lock.
Holder == \A t \in Callers : pc[t] \in Locked <=> lock = t

\* What the holder knows of the session it opens, place by place: the field was
\* emptied before opening, and nobody else fills it.
Hands ==
    /\ lock = None => made = None /\ unseen = None
    /\ \A t \in Callers :
          /\ pc[t] \in {"choose", "opening"} => seen # None
          /\ pc[t] \in Locked \ Made => made = None /\ unseen = None
          /\ pc[t] \in {"opening", "publish"} => callSession = None /\ unseen = None
          /\ pc[t] \in Made =>
                /\ made # None /\ made.main = seen
                /\ callSession \in {None, made} /\ unseen \in {None, made}
                /\ unseen # None => callSession = None
          /\ pc[t] \in Made \ {"publish"} /\ made \in open => made \in {callSession, unseen}

\* Main sessions come and go with the loop.
Main ==
    /\ loop \in {"exchange", "cancel", "close", "connecting", "connected", "delay", "ended"} => main = None
    /\ loop = "connected" => connects > 0

\* A session that passed the look back is of the main session that is up, or a
\* disconnect is on its way, or has missed it.
Returned ==
    \A t \in Callers :
        pc[t] = "return" /\ unseen # None =>
            unseen.main = main \/ Disconnecting \/ missed = unseen

\* A session just opened is used by nobody until its opener has looked back.
Fresh ==
    /\ \A s \in open : s.number < opens
    /\ callSession # None => callSession.number < opens
    /\ made # None => made.number < opens
    /\ \A t \in Callers : using[t] # None => using[t].number < opens
    /\ \A t \in Callers : pc[t] \in Made \ {"return"} => \A u \in Callers : using[u] # made
    /\ \A t \in Callers : using[t] # None => pc[t] \in {"return", "calling"}

IInv == TypeOK /\ Holder /\ Hands /\ Main /\ NoneLost /\ Returned /\ EndsWithMain /\ Fresh

-----------------------------------------------------------------------------
USE ClientAssumption, NoneAssumption
  DEF fields, worker, callers, outside, history, Mains, CallSessions, Disconnecting,
      Rechecking, Locked, Made

\* Types; a call session is opened only by a caller that saw a main session.
LEMMA NextTypeOK == ASSUME IInv, [Next]_vars PROVE TypeOK'
<1> USE DEF IInv, TypeOK, Hands, Main
<1>1. CASE ClearSession
  BY <1>1 DEF ClearSession
<1>2. CASE ExchangeToken
  BY <1>2 DEF ExchangeToken
<1>3. CASE CancelToken
  BY <1>3 DEF CancelToken
<1>4. CASE CloseSessions
  BY <1>4 DEF CloseSessions, CloseCallSession
<1>5. CASE ResetKeepAlive
  <2>1. connects + 1 \in Nat
    OBVIOUS
  <2>2. connects' \in Nat
    BY <1>5, <2>1 DEF ResetKeepAlive
  <2> QED BY <1>5, <2>2 DEF ResetKeepAlive
<1>6. CASE Connect
  BY <1>6 DEF Connect
<1>7. CASE Discover
  BY <1>7 DEF Discover
<1>8. CASE Lose
  BY <1>8 DEF Lose, Disconnect
<1>9. CASE Reconnect
  BY <1>9 DEF Reconnect, Disconnect
<1>10. CASE EndLoop
  BY <1>10 DEF EndLoop, Disconnect
<1>11. CASE Stop
  BY <1>11 DEF Stop
<1>12. CASE Drain
  BY <1>12 DEF Drain, Quiet
<1>13. CASE LinkDrops
  BY <1>13 DEF LinkDrops
<1>14. CASE KeepAliveFails
  BY <1>14 DEF KeepAliveFails
<1>15. ASSUME NEW t \in Callers, Call(t) PROVE TypeOK'
  BY <1>15 DEF Call, Go
<1>16. ASSUME NEW t \in Callers, Lock(t) PROVE TypeOK'
  BY <1>16 DEF Lock, Quiet, Go
<1>17. ASSUME NEW t \in Callers, ReadToken(t) PROVE TypeOK'
  BY <1>17 DEF ReadToken, Quiet, Go
<1>18. ASSUME NEW t \in Callers, ReadMain(t) PROVE TypeOK'
  BY <1>18 DEF ReadMain, Quiet, Go
<1>19. ASSUME NEW t \in Callers, CheckConnected(t) PROVE TypeOK'
  BY <1>19 DEF CheckConnected, Unlock, Quiet, Go
<1>20. ASSUME NEW t \in Callers, Choose(t) PROVE TypeOK'
  BY <1>20 DEF Choose, CloseCallSession, Unlock, Quiet, Go
<1>21. ASSUME NEW t \in Callers, Open(t) PROVE TypeOK'
  BY <1>21 DEF Open, Quiet, Go
<1>22. ASSUME NEW t \in Callers, GiveUpOpening(t) PROVE TypeOK'
  BY <1>22 DEF GiveUpOpening, Unlock, Quiet, Go
<1>23. ASSUME NEW t \in Callers, Publish(t) PROVE TypeOK'
  BY <1>23 DEF Publish, Quiet, Go
<1>24. ASSUME NEW t \in Callers, RecheckToken(t) PROVE TypeOK'
  BY <1>24 DEF RecheckToken, Quiet, Go
<1>25. ASSUME NEW t \in Callers, RecheckMain(t) PROVE TypeOK'
  BY <1>25 DEF RecheckMain, Quiet, Go
<1>26. ASSUME NEW t \in Callers, Return(t) PROVE TypeOK'
  BY <1>26 DEF Return, Unlock, Quiet, Go
<1>27. ASSUME NEW t \in Callers, DropCallSession(t) PROVE TypeOK'
  BY <1>27 DEF DropCallSession, CloseCallSession, Unlock, Quiet, Go
<1>28. ASSUME NEW t \in Callers, Answer(t) PROVE TypeOK'
  BY <1>28 DEF Answer, Quiet, Go, HangUp
<1>29. ASSUME NEW t \in Callers, CallThrows(t) PROVE TypeOK'
  BY <1>29 DEF CallThrows, CloseCallSession, Quiet, Go, HangUp
<1>30. ASSUME NEW t \in Callers, CallCancelled(t) PROVE TypeOK'
  BY <1>30 DEF CallCancelled, Unlock, Quiet, Go, HangUp
<1>31. ASSUME NEW s \in open \ broken, Break(s) PROVE TypeOK'
  BY <1>31 DEF Break
<1>32. ASSUME NEW s \in late, OnKeepAlive(s) PROVE TypeOK'
  BY <1>32 DEF OnKeepAlive
<1>33. CASE UNCHANGED vars
  BY <1>33 DEF vars
<1>34. QED
  BY <1>1, <1>2, <1>3, <1>4, <1>5, <1>6, <1>7, <1>8, <1>9, <1>10, <1>11, <1>12, <1>13, <1>14, <1>15, <1>16, <1>17, <1>18, <1>19, <1>20, <1>21, <1>22, <1>23, <1>24, <1>25, <1>26, <1>27, <1>28, <1>29, <1>30, <1>31, <1>32, <1>33
  DEF Next, MaintainSession, DisconnectAsync, GetCallSession

\* The lock is taken once and given back at every way out.
LEMMA NextHolder == ASSUME IInv, [Next]_vars PROVE Holder'
<1> USE DEF IInv, TypeOK, Holder
<1>1. CASE ClearSession
  BY <1>1 DEF ClearSession
<1>2. CASE ExchangeToken
  BY <1>2 DEF ExchangeToken
<1>3. CASE CancelToken
  BY <1>3 DEF CancelToken
<1>4. CASE CloseSessions
  BY <1>4 DEF CloseSessions, CloseCallSession
<1>5. CASE ResetKeepAlive
  BY <1>5 DEF ResetKeepAlive
<1>6. CASE Connect
  BY <1>6 DEF Connect
<1>7. CASE Discover
  BY <1>7 DEF Discover
<1>8. CASE Lose
  BY <1>8 DEF Lose, Disconnect
<1>9. CASE Reconnect
  BY <1>9 DEF Reconnect, Disconnect
<1>10. CASE EndLoop
  BY <1>10 DEF EndLoop, Disconnect
<1>11. CASE Stop
  BY <1>11 DEF Stop
<1>12. CASE Drain
  BY <1>12 DEF Drain, Quiet
<1>13. CASE LinkDrops
  BY <1>13 DEF LinkDrops
<1>14. CASE KeepAliveFails
  BY <1>14 DEF KeepAliveFails
<1>15. ASSUME NEW t \in Callers, Call(t) PROVE Holder'
  BY <1>15 DEF Call, Go
<1>16. ASSUME NEW t \in Callers, Lock(t) PROVE Holder'
  BY <1>16 DEF Lock, Quiet, Go
<1>17. ASSUME NEW t \in Callers, ReadToken(t) PROVE Holder'
  BY <1>17 DEF ReadToken, Quiet, Go
<1>18. ASSUME NEW t \in Callers, ReadMain(t) PROVE Holder'
  BY <1>18 DEF ReadMain, Quiet, Go
<1>19. ASSUME NEW t \in Callers, CheckConnected(t) PROVE Holder'
  BY <1>19 DEF CheckConnected, Unlock, Quiet, Go
<1>20. ASSUME NEW t \in Callers, Choose(t) PROVE Holder'
  BY <1>20 DEF Choose, CloseCallSession, Unlock, Quiet, Go
<1>21. ASSUME NEW t \in Callers, Open(t) PROVE Holder'
  BY <1>21 DEF Open, Quiet, Go
<1>22. ASSUME NEW t \in Callers, GiveUpOpening(t) PROVE Holder'
  BY <1>22 DEF GiveUpOpening, Unlock, Quiet, Go
<1>23. ASSUME NEW t \in Callers, Publish(t) PROVE Holder'
  BY <1>23 DEF Publish, Quiet, Go
<1>24. ASSUME NEW t \in Callers, RecheckToken(t) PROVE Holder'
  BY <1>24 DEF RecheckToken, Quiet, Go
<1>25. ASSUME NEW t \in Callers, RecheckMain(t) PROVE Holder'
  BY <1>25 DEF RecheckMain, Quiet, Go
<1>26. ASSUME NEW t \in Callers, Return(t) PROVE Holder'
  BY <1>26 DEF Return, Unlock, Quiet, Go
<1>27. ASSUME NEW t \in Callers, DropCallSession(t) PROVE Holder'
  BY <1>27 DEF DropCallSession, CloseCallSession, Unlock, Quiet, Go
<1>28. ASSUME NEW t \in Callers, Answer(t) PROVE Holder'
  BY <1>28 DEF Answer, Quiet, Go, HangUp
<1>29. ASSUME NEW t \in Callers, CallThrows(t) PROVE Holder'
  BY <1>29 DEF CallThrows, CloseCallSession, Quiet, Go, HangUp
<1>30. ASSUME NEW t \in Callers, CallCancelled(t) PROVE Holder'
  BY <1>30 DEF CallCancelled, Unlock, Quiet, Go, HangUp
<1>31. ASSUME NEW s \in open \ broken, Break(s) PROVE Holder'
  BY <1>31 DEF Break
<1>32. ASSUME NEW s \in late, OnKeepAlive(s) PROVE Holder'
  BY <1>32 DEF OnKeepAlive
<1>33. CASE UNCHANGED vars
  BY <1>33 DEF vars
<1>34. QED
  BY <1>1, <1>2, <1>3, <1>4, <1>5, <1>6, <1>7, <1>8, <1>9, <1>10, <1>11, <1>12, <1>13, <1>14, <1>15, <1>16, <1>17, <1>18, <1>19, <1>20, <1>21, <1>22, <1>23, <1>24, <1>25, <1>26, <1>27, <1>28, <1>29, <1>30, <1>31, <1>32, <1>33
  DEF Next, MaintainSession, DisconnectAsync, GetCallSession

\* Only the holder fills the field; a disconnect or a failed call may empty it.
LEMMA NextHands == ASSUME IInv, [Next]_vars PROVE Hands'
<1> USE DEF IInv, TypeOK, Holder, Hands, Main
<1>1. CASE ClearSession
  BY <1>1 DEF ClearSession
<1>2. CASE ExchangeToken
  BY <1>2 DEF ExchangeToken
<1>3. CASE CancelToken
  BY <1>3 DEF CancelToken
<1>4. CASE CloseSessions
  BY <1>4 DEF CloseSessions, CloseCallSession
<1>5. CASE ResetKeepAlive
  BY <1>5 DEF ResetKeepAlive
<1>6. CASE Connect
  BY <1>6 DEF Connect
<1>7. CASE Discover
  BY <1>7 DEF Discover
<1>8. CASE Lose
  BY <1>8 DEF Lose, Disconnect
<1>9. CASE Reconnect
  BY <1>9 DEF Reconnect, Disconnect
<1>10. CASE EndLoop
  BY <1>10 DEF EndLoop, Disconnect
<1>11. CASE Stop
  BY <1>11 DEF Stop
<1>12. CASE Drain
  BY <1>12 DEF Drain, Quiet
<1>13. CASE LinkDrops
  BY <1>13 DEF LinkDrops
<1>14. CASE KeepAliveFails
  BY <1>14 DEF KeepAliveFails
<1>15. ASSUME NEW t \in Callers, Call(t) PROVE Hands'
  BY <1>15 DEF Call, Go
<1>16. ASSUME NEW t \in Callers, Lock(t) PROVE Hands'
  BY <1>16 DEF Lock, Quiet, Go
<1>17. ASSUME NEW t \in Callers, ReadToken(t) PROVE Hands'
  BY <1>17 DEF ReadToken, Quiet, Go
<1>18. ASSUME NEW t \in Callers, ReadMain(t) PROVE Hands'
  BY <1>18 DEF ReadMain, Quiet, Go
<1>19. ASSUME NEW t \in Callers, CheckConnected(t) PROVE Hands'
  BY <1>19 DEF CheckConnected, Unlock, Quiet, Go
<1>20. ASSUME NEW t \in Callers, Choose(t) PROVE Hands'
  BY <1>20 DEF Choose, CloseCallSession, Unlock, Quiet, Go
<1>21. ASSUME NEW t \in Callers, Open(t) PROVE Hands'
  BY <1>21 DEF Open, Quiet, Go
<1>22. ASSUME NEW t \in Callers, GiveUpOpening(t) PROVE Hands'
  BY <1>22 DEF GiveUpOpening, Unlock, Quiet, Go
<1>23. ASSUME NEW t \in Callers, Publish(t) PROVE Hands'
  BY <1>23 DEF Publish, Quiet, Go
<1>24. ASSUME NEW t \in Callers, RecheckToken(t) PROVE Hands'
  BY <1>24 DEF RecheckToken, Quiet, Go
<1>25. ASSUME NEW t \in Callers, RecheckMain(t) PROVE Hands'
  BY <1>25 DEF RecheckMain, Quiet, Go
<1>26. ASSUME NEW t \in Callers, Return(t) PROVE Hands'
  BY <1>26 DEF Return, Unlock, Quiet, Go
<1>27. ASSUME NEW t \in Callers, DropCallSession(t) PROVE Hands'
  BY <1>27 DEF DropCallSession, CloseCallSession, Unlock, Quiet, Go
<1>28. ASSUME NEW t \in Callers, Answer(t) PROVE Hands'
  BY <1>28 DEF Answer, Quiet, Go, HangUp
<1>29. ASSUME NEW t \in Callers, CallThrows(t) PROVE Hands'
  BY <1>29 DEF CallThrows, CloseCallSession, Quiet, Go, HangUp
<1>30. ASSUME NEW t \in Callers, CallCancelled(t) PROVE Hands'
  BY <1>30 DEF CallCancelled, Unlock, Quiet, Go, HangUp
<1>31. ASSUME NEW s \in open \ broken, Break(s) PROVE Hands'
  BY <1>31 DEF Break
<1>32. ASSUME NEW s \in late, OnKeepAlive(s) PROVE Hands'
  BY <1>32 DEF OnKeepAlive
<1>33. CASE UNCHANGED vars
  BY <1>33 DEF vars
<1>34. QED
  BY <1>1, <1>2, <1>3, <1>4, <1>5, <1>6, <1>7, <1>8, <1>9, <1>10, <1>11, <1>12, <1>13, <1>14, <1>15, <1>16, <1>17, <1>18, <1>19, <1>20, <1>21, <1>22, <1>23, <1>24, <1>25, <1>26, <1>27, <1>28, <1>29, <1>30, <1>31, <1>32, <1>33
  DEF Next, MaintainSession, DisconnectAsync, GetCallSession

\* A main session is there from Connect to ClearSession.
LEMMA NextMain == ASSUME IInv, [Next]_vars PROVE Main'
<1> USE DEF IInv, TypeOK, Main
<1>1. CASE ClearSession
  BY <1>1 DEF ClearSession
<1>2. CASE ExchangeToken
  BY <1>2 DEF ExchangeToken
<1>3. CASE CancelToken
  BY <1>3 DEF CancelToken
<1>4. CASE CloseSessions
  BY <1>4 DEF CloseSessions, CloseCallSession
<1>5. CASE ResetKeepAlive
  BY <1>5 DEF ResetKeepAlive
<1>6. CASE Connect
  BY <1>6 DEF Connect
<1>7. CASE Discover
  BY <1>7 DEF Discover
<1>8. CASE Lose
  BY <1>8 DEF Lose, Disconnect
<1>9. CASE Reconnect
  BY <1>9 DEF Reconnect, Disconnect
<1>10. CASE EndLoop
  BY <1>10 DEF EndLoop, Disconnect
<1>11. CASE Stop
  BY <1>11 DEF Stop
<1>12. CASE Drain
  BY <1>12 DEF Drain, Quiet
<1>13. CASE LinkDrops
  BY <1>13 DEF LinkDrops
<1>14. CASE KeepAliveFails
  BY <1>14 DEF KeepAliveFails
<1>15. ASSUME NEW t \in Callers, Call(t) PROVE Main'
  BY <1>15 DEF Call, Go
<1>16. ASSUME NEW t \in Callers, Lock(t) PROVE Main'
  BY <1>16 DEF Lock, Quiet, Go
<1>17. ASSUME NEW t \in Callers, ReadToken(t) PROVE Main'
  BY <1>17 DEF ReadToken, Quiet, Go
<1>18. ASSUME NEW t \in Callers, ReadMain(t) PROVE Main'
  BY <1>18 DEF ReadMain, Quiet, Go
<1>19. ASSUME NEW t \in Callers, CheckConnected(t) PROVE Main'
  BY <1>19 DEF CheckConnected, Unlock, Quiet, Go
<1>20. ASSUME NEW t \in Callers, Choose(t) PROVE Main'
  BY <1>20 DEF Choose, CloseCallSession, Unlock, Quiet, Go
<1>21. ASSUME NEW t \in Callers, Open(t) PROVE Main'
  BY <1>21 DEF Open, Quiet, Go
<1>22. ASSUME NEW t \in Callers, GiveUpOpening(t) PROVE Main'
  BY <1>22 DEF GiveUpOpening, Unlock, Quiet, Go
<1>23. ASSUME NEW t \in Callers, Publish(t) PROVE Main'
  BY <1>23 DEF Publish, Quiet, Go
<1>24. ASSUME NEW t \in Callers, RecheckToken(t) PROVE Main'
  BY <1>24 DEF RecheckToken, Quiet, Go
<1>25. ASSUME NEW t \in Callers, RecheckMain(t) PROVE Main'
  BY <1>25 DEF RecheckMain, Quiet, Go
<1>26. ASSUME NEW t \in Callers, Return(t) PROVE Main'
  BY <1>26 DEF Return, Unlock, Quiet, Go
<1>27. ASSUME NEW t \in Callers, DropCallSession(t) PROVE Main'
  BY <1>27 DEF DropCallSession, CloseCallSession, Unlock, Quiet, Go
<1>28. ASSUME NEW t \in Callers, Answer(t) PROVE Main'
  BY <1>28 DEF Answer, Quiet, Go, HangUp
<1>29. ASSUME NEW t \in Callers, CallThrows(t) PROVE Main'
  BY <1>29 DEF CallThrows, CloseCallSession, Quiet, Go, HangUp
<1>30. ASSUME NEW t \in Callers, CallCancelled(t) PROVE Main'
  BY <1>30 DEF CallCancelled, Unlock, Quiet, Go, HangUp
<1>31. ASSUME NEW s \in open \ broken, Break(s) PROVE Main'
  BY <1>31 DEF Break
<1>32. ASSUME NEW s \in late, OnKeepAlive(s) PROVE Main'
  BY <1>32 DEF OnKeepAlive
<1>33. CASE UNCHANGED vars
  BY <1>33 DEF vars
<1>34. QED
  BY <1>1, <1>2, <1>3, <1>4, <1>5, <1>6, <1>7, <1>8, <1>9, <1>10, <1>11, <1>12, <1>13, <1>14, <1>15, <1>16, <1>17, <1>18, <1>19, <1>20, <1>21, <1>22, <1>23, <1>24, <1>25, <1>26, <1>27, <1>28, <1>29, <1>30, <1>31, <1>32, <1>33
  DEF Next, MaintainSession, DisconnectAsync, GetCallSession

\* A session leaves the field and its opener's hands only when it is disposed of.
LEMMA NextNoneLost == ASSUME IInv, [Next]_vars PROVE NoneLost'
<1> USE DEF IInv, TypeOK, Holder, Hands, NoneLost
<1>1. CASE ClearSession
  BY <1>1 DEF ClearSession
<1>2. CASE ExchangeToken
  BY <1>2 DEF ExchangeToken
<1>3. CASE CancelToken
  BY <1>3 DEF CancelToken
<1>4. CASE CloseSessions
  BY <1>4 DEF CloseSessions, CloseCallSession
<1>5. CASE ResetKeepAlive
  BY <1>5 DEF ResetKeepAlive
<1>6. CASE Connect
  BY <1>6 DEF Connect
<1>7. CASE Discover
  BY <1>7 DEF Discover
<1>8. CASE Lose
  BY <1>8 DEF Lose, Disconnect
<1>9. CASE Reconnect
  BY <1>9 DEF Reconnect, Disconnect
<1>10. CASE EndLoop
  BY <1>10 DEF EndLoop, Disconnect
<1>11. CASE Stop
  BY <1>11 DEF Stop
<1>12. CASE Drain
  BY <1>12 DEF Drain, Quiet
<1>13. CASE LinkDrops
  BY <1>13 DEF LinkDrops
<1>14. CASE KeepAliveFails
  BY <1>14 DEF KeepAliveFails
<1>15. ASSUME NEW t \in Callers, Call(t) PROVE NoneLost'
  BY <1>15 DEF Call, Go
<1>16. ASSUME NEW t \in Callers, Lock(t) PROVE NoneLost'
  BY <1>16 DEF Lock, Quiet, Go
<1>17. ASSUME NEW t \in Callers, ReadToken(t) PROVE NoneLost'
  BY <1>17 DEF ReadToken, Quiet, Go
<1>18. ASSUME NEW t \in Callers, ReadMain(t) PROVE NoneLost'
  BY <1>18 DEF ReadMain, Quiet, Go
<1>19. ASSUME NEW t \in Callers, CheckConnected(t) PROVE NoneLost'
  BY <1>19 DEF CheckConnected, Unlock, Quiet, Go
<1>20. ASSUME NEW t \in Callers, Choose(t) PROVE NoneLost'
  BY <1>20 DEF Choose, CloseCallSession, Unlock, Quiet, Go
<1>21. ASSUME NEW t \in Callers, Open(t) PROVE NoneLost'
  BY <1>21 DEF Open, Quiet, Go
<1>22. ASSUME NEW t \in Callers, GiveUpOpening(t) PROVE NoneLost'
  BY <1>22 DEF GiveUpOpening, Unlock, Quiet, Go
<1>23. ASSUME NEW t \in Callers, Publish(t) PROVE NoneLost'
  BY <1>23 DEF Publish, Quiet, Go
<1>24. ASSUME NEW t \in Callers, RecheckToken(t) PROVE NoneLost'
  BY <1>24 DEF RecheckToken, Quiet, Go
<1>25. ASSUME NEW t \in Callers, RecheckMain(t) PROVE NoneLost'
  BY <1>25 DEF RecheckMain, Quiet, Go
<1>26. ASSUME NEW t \in Callers, Return(t) PROVE NoneLost'
  BY <1>26 DEF Return, Unlock, Quiet, Go
<1>27. ASSUME NEW t \in Callers, DropCallSession(t) PROVE NoneLost'
  BY <1>27 DEF DropCallSession, CloseCallSession, Unlock, Quiet, Go
<1>28. ASSUME NEW t \in Callers, Answer(t) PROVE NoneLost'
  BY <1>28 DEF Answer, Quiet, Go, HangUp
<1>29. ASSUME NEW t \in Callers, CallThrows(t) PROVE NoneLost'
  BY <1>29 DEF CallThrows, CloseCallSession, Quiet, Go, HangUp
<1>30. ASSUME NEW t \in Callers, CallCancelled(t) PROVE NoneLost'
  BY <1>30 DEF CallCancelled, Unlock, Quiet, Go, HangUp
<1>31. ASSUME NEW s \in open \ broken, Break(s) PROVE NoneLost'
  BY <1>31 DEF Break
<1>32. ASSUME NEW s \in late, OnKeepAlive(s) PROVE NoneLost'
  BY <1>32 DEF OnKeepAlive
<1>33. CASE UNCHANGED vars
  BY <1>33 DEF vars
<1>34. QED
  BY <1>1, <1>2, <1>3, <1>4, <1>5, <1>6, <1>7, <1>8, <1>9, <1>10, <1>11, <1>12, <1>13, <1>14, <1>15, <1>16, <1>17, <1>18, <1>19, <1>20, <1>21, <1>22, <1>23, <1>24, <1>25, <1>26, <1>27, <1>28, <1>29, <1>30, <1>31, <1>32, <1>33
  DEF Next, MaintainSession, DisconnectAsync, GetCallSession

\* The look back at main, and what a disconnect does after it.
LEMMA NextReturned == ASSUME IInv, [Next]_vars PROVE Returned'
<1> USE DEF IInv, TypeOK, Holder, Hands, Main, Returned
<1>1. CASE ClearSession
  BY <1>1 DEF ClearSession
<1>2. CASE ExchangeToken
  BY <1>2 DEF ExchangeToken
<1>3. CASE CancelToken
  BY <1>3 DEF CancelToken
<1>4. CASE CloseSessions
  BY <1>4 DEF CloseSessions, CloseCallSession
<1>5. CASE ResetKeepAlive
  BY <1>5 DEF ResetKeepAlive
<1>6. CASE Connect
  BY <1>6 DEF Connect
<1>7. CASE Discover
  BY <1>7 DEF Discover
<1>8. CASE Lose
  BY <1>8 DEF Lose, Disconnect
<1>9. CASE Reconnect
  BY <1>9 DEF Reconnect, Disconnect
<1>10. CASE EndLoop
  BY <1>10 DEF EndLoop, Disconnect
<1>11. CASE Stop
  BY <1>11 DEF Stop
<1>12. CASE Drain
  BY <1>12 DEF Drain, Quiet
<1>13. CASE LinkDrops
  BY <1>13 DEF LinkDrops
<1>14. CASE KeepAliveFails
  BY <1>14 DEF KeepAliveFails
<1>15. ASSUME NEW t \in Callers, Call(t) PROVE Returned'
  BY <1>15 DEF Call, Go
<1>16. ASSUME NEW t \in Callers, Lock(t) PROVE Returned'
  BY <1>16 DEF Lock, Quiet, Go
<1>17. ASSUME NEW t \in Callers, ReadToken(t) PROVE Returned'
  BY <1>17 DEF ReadToken, Quiet, Go
<1>18. ASSUME NEW t \in Callers, ReadMain(t) PROVE Returned'
  BY <1>18 DEF ReadMain, Quiet, Go
<1>19. ASSUME NEW t \in Callers, CheckConnected(t) PROVE Returned'
  BY <1>19 DEF CheckConnected, Unlock, Quiet, Go
<1>20. ASSUME NEW t \in Callers, Choose(t) PROVE Returned'
  BY <1>20 DEF Choose, CloseCallSession, Unlock, Quiet, Go
<1>21. ASSUME NEW t \in Callers, Open(t) PROVE Returned'
  BY <1>21 DEF Open, Quiet, Go
<1>22. ASSUME NEW t \in Callers, GiveUpOpening(t) PROVE Returned'
  BY <1>22 DEF GiveUpOpening, Unlock, Quiet, Go
<1>23. ASSUME NEW t \in Callers, Publish(t) PROVE Returned'
  BY <1>23 DEF Publish, Quiet, Go
<1>24. ASSUME NEW t \in Callers, RecheckToken(t) PROVE Returned'
  BY <1>24 DEF RecheckToken, Quiet, Go
<1>25. ASSUME NEW t \in Callers, RecheckMain(t) PROVE Returned'
  BY <1>25 DEF RecheckMain, Quiet, Go
<1>26. ASSUME NEW t \in Callers, Return(t) PROVE Returned'
  BY <1>26 DEF Return, Unlock, Quiet, Go
<1>27. ASSUME NEW t \in Callers, DropCallSession(t) PROVE Returned'
  BY <1>27 DEF DropCallSession, CloseCallSession, Unlock, Quiet, Go
<1>28. ASSUME NEW t \in Callers, Answer(t) PROVE Returned'
  BY <1>28 DEF Answer, Quiet, Go, HangUp
<1>29. ASSUME NEW t \in Callers, CallThrows(t) PROVE Returned'
  BY <1>29 DEF CallThrows, CloseCallSession, Quiet, Go, HangUp
<1>30. ASSUME NEW t \in Callers, CallCancelled(t) PROVE Returned'
  BY <1>30 DEF CallCancelled, Unlock, Quiet, Go, HangUp
<1>31. ASSUME NEW s \in open \ broken, Break(s) PROVE Returned'
  BY <1>31 DEF Break
<1>32. ASSUME NEW s \in late, OnKeepAlive(s) PROVE Returned'
  BY <1>32 DEF OnKeepAlive
<1>33. CASE UNCHANGED vars
  BY <1>33 DEF vars
<1>34. QED
  BY <1>1, <1>2, <1>3, <1>4, <1>5, <1>6, <1>7, <1>8, <1>9, <1>10, <1>11, <1>12, <1>13, <1>14, <1>15, <1>16, <1>17, <1>18, <1>19, <1>20, <1>21, <1>22, <1>23, <1>24, <1>25, <1>26, <1>27, <1>28, <1>29, <1>30, <1>31, <1>32, <1>33
  DEF Next, MaintainSession, DisconnectAsync, GetCallSession

\* Either the disconnect closes the session or its opener is still to look.
LEMMA NextEndsWithMain == ASSUME IInv, [Next]_vars PROVE EndsWithMain'
<1> USE DEF IInv, TypeOK, Holder, Hands, Main, Returned, EndsWithMain
<1>1. CASE ClearSession
  BY <1>1 DEF ClearSession
<1>2. CASE ExchangeToken
  BY <1>2 DEF ExchangeToken
<1>3. CASE CancelToken
  BY <1>3 DEF CancelToken
<1>4. CASE CloseSessions
  BY <1>4 DEF CloseSessions, CloseCallSession
<1>5. CASE ResetKeepAlive
  BY <1>5 DEF ResetKeepAlive
<1>6. CASE Connect
  BY <1>6 DEF Connect
<1>7. CASE Discover
  BY <1>7 DEF Discover
<1>8. CASE Lose
  BY <1>8 DEF Lose, Disconnect
<1>9. CASE Reconnect
  BY <1>9 DEF Reconnect, Disconnect
<1>10. CASE EndLoop
  BY <1>10 DEF EndLoop, Disconnect
<1>11. CASE Stop
  BY <1>11 DEF Stop
<1>12. CASE Drain
  BY <1>12 DEF Drain, Quiet
<1>13. CASE LinkDrops
  BY <1>13 DEF LinkDrops
<1>14. CASE KeepAliveFails
  BY <1>14 DEF KeepAliveFails
<1>15. ASSUME NEW t \in Callers, Call(t) PROVE EndsWithMain'
  BY <1>15 DEF Call, Go
<1>16. ASSUME NEW t \in Callers, Lock(t) PROVE EndsWithMain'
  BY <1>16 DEF Lock, Quiet, Go
<1>17. ASSUME NEW t \in Callers, ReadToken(t) PROVE EndsWithMain'
  BY <1>17 DEF ReadToken, Quiet, Go
<1>18. ASSUME NEW t \in Callers, ReadMain(t) PROVE EndsWithMain'
  BY <1>18 DEF ReadMain, Quiet, Go
<1>19. ASSUME NEW t \in Callers, CheckConnected(t) PROVE EndsWithMain'
  BY <1>19 DEF CheckConnected, Unlock, Quiet, Go
<1>20. ASSUME NEW t \in Callers, Choose(t) PROVE EndsWithMain'
  BY <1>20 DEF Choose, CloseCallSession, Unlock, Quiet, Go
<1>21. ASSUME NEW t \in Callers, Open(t) PROVE EndsWithMain'
  BY <1>21 DEF Open, Quiet, Go
<1>22. ASSUME NEW t \in Callers, GiveUpOpening(t) PROVE EndsWithMain'
  BY <1>22 DEF GiveUpOpening, Unlock, Quiet, Go
<1>23. ASSUME NEW t \in Callers, Publish(t) PROVE EndsWithMain'
  BY <1>23 DEF Publish, Quiet, Go
<1>24. ASSUME NEW t \in Callers, RecheckToken(t) PROVE EndsWithMain'
  BY <1>24 DEF RecheckToken, Quiet, Go
<1>25. ASSUME NEW t \in Callers, RecheckMain(t) PROVE EndsWithMain'
  BY <1>25 DEF RecheckMain, Quiet, Go
<1>26. ASSUME NEW t \in Callers, Return(t) PROVE EndsWithMain'
  BY <1>26 DEF Return, Unlock, Quiet, Go
<1>27. ASSUME NEW t \in Callers, DropCallSession(t) PROVE EndsWithMain'
  BY <1>27 DEF DropCallSession, CloseCallSession, Unlock, Quiet, Go
<1>28. ASSUME NEW t \in Callers, Answer(t) PROVE EndsWithMain'
  BY <1>28 DEF Answer, Quiet, Go, HangUp
<1>29. ASSUME NEW t \in Callers, CallThrows(t) PROVE EndsWithMain'
  BY <1>29 DEF CallThrows, CloseCallSession, Quiet, Go, HangUp
<1>30. ASSUME NEW t \in Callers, CallCancelled(t) PROVE EndsWithMain'
  BY <1>30 DEF CallCancelled, Unlock, Quiet, Go, HangUp
<1>31. ASSUME NEW s \in open \ broken, Break(s) PROVE EndsWithMain'
  BY <1>31 DEF Break
<1>32. ASSUME NEW s \in late, OnKeepAlive(s) PROVE EndsWithMain'
  BY <1>32 DEF OnKeepAlive
<1>33. CASE UNCHANGED vars
  BY <1>33 DEF vars
<1>34. QED
  BY <1>1, <1>2, <1>3, <1>4, <1>5, <1>6, <1>7, <1>8, <1>9, <1>10, <1>11, <1>12, <1>13, <1>14, <1>15, <1>16, <1>17, <1>18, <1>19, <1>20, <1>21, <1>22, <1>23, <1>24, <1>25, <1>26, <1>27, <1>28, <1>29, <1>30, <1>31, <1>32, <1>33
  DEF Next, MaintainSession, DisconnectAsync, GetCallSession

\* Session numbers grow, and a new session is used by its opener first.
LEMMA NextFresh == ASSUME IInv, [Next]_vars PROVE Fresh'
<1> USE DEF IInv, TypeOK, Holder, Hands, NoneLost, Fresh
<1>1. CASE ClearSession
  BY <1>1 DEF ClearSession
<1>2. CASE ExchangeToken
  BY <1>2 DEF ExchangeToken
<1>3. CASE CancelToken
  BY <1>3 DEF CancelToken
<1>4. CASE CloseSessions
  BY <1>4 DEF CloseSessions, CloseCallSession
<1>5. CASE ResetKeepAlive
  BY <1>5 DEF ResetKeepAlive
<1>6. CASE Connect
  BY <1>6 DEF Connect
<1>7. CASE Discover
  BY <1>7 DEF Discover
<1>8. CASE Lose
  BY <1>8 DEF Lose, Disconnect
<1>9. CASE Reconnect
  BY <1>9 DEF Reconnect, Disconnect
<1>10. CASE EndLoop
  BY <1>10 DEF EndLoop, Disconnect
<1>11. CASE Stop
  BY <1>11 DEF Stop
<1>12. CASE Drain
  BY <1>12 DEF Drain, Quiet
<1>13. CASE LinkDrops
  BY <1>13 DEF LinkDrops
<1>14. CASE KeepAliveFails
  BY <1>14 DEF KeepAliveFails
<1>15. ASSUME NEW t \in Callers, Call(t) PROVE Fresh'
  BY <1>15 DEF Call, Go
<1>16. ASSUME NEW t \in Callers, Lock(t) PROVE Fresh'
  BY <1>16 DEF Lock, Quiet, Go
<1>17. ASSUME NEW t \in Callers, ReadToken(t) PROVE Fresh'
  BY <1>17 DEF ReadToken, Quiet, Go
<1>18. ASSUME NEW t \in Callers, ReadMain(t) PROVE Fresh'
  BY <1>18 DEF ReadMain, Quiet, Go
<1>19. ASSUME NEW t \in Callers, CheckConnected(t) PROVE Fresh'
  BY <1>19 DEF CheckConnected, Unlock, Quiet, Go
<1>20. ASSUME NEW t \in Callers, Choose(t) PROVE Fresh'
  BY <1>20 DEF Choose, CloseCallSession, Unlock, Quiet, Go
<1>21. ASSUME NEW t \in Callers, Open(t) PROVE Fresh'
  BY <1>21 DEF Open, Quiet, Go
<1>22. ASSUME NEW t \in Callers, GiveUpOpening(t) PROVE Fresh'
  BY <1>22 DEF GiveUpOpening, Unlock, Quiet, Go
<1>23. ASSUME NEW t \in Callers, Publish(t) PROVE Fresh'
  BY <1>23 DEF Publish, Quiet, Go
<1>24. ASSUME NEW t \in Callers, RecheckToken(t) PROVE Fresh'
  BY <1>24 DEF RecheckToken, Quiet, Go
<1>25. ASSUME NEW t \in Callers, RecheckMain(t) PROVE Fresh'
  BY <1>25 DEF RecheckMain, Quiet, Go
<1>26. ASSUME NEW t \in Callers, Return(t) PROVE Fresh'
  BY <1>26 DEF Return, Unlock, Quiet, Go
<1>27. ASSUME NEW t \in Callers, DropCallSession(t) PROVE Fresh'
  BY <1>27 DEF DropCallSession, CloseCallSession, Unlock, Quiet, Go
<1>28. ASSUME NEW t \in Callers, Answer(t) PROVE Fresh'
  BY <1>28 DEF Answer, Quiet, Go, HangUp
<1>29. ASSUME NEW t \in Callers, CallThrows(t) PROVE Fresh'
  BY <1>29 DEF CallThrows, CloseCallSession, Quiet, Go, HangUp
<1>30. ASSUME NEW t \in Callers, CallCancelled(t) PROVE Fresh'
  BY <1>30 DEF CallCancelled, Unlock, Quiet, Go, HangUp
<1>31. ASSUME NEW s \in open \ broken, Break(s) PROVE Fresh'
  BY <1>31 DEF Break
<1>32. ASSUME NEW s \in late, OnKeepAlive(s) PROVE Fresh'
  BY <1>32 DEF OnKeepAlive
<1>33. CASE UNCHANGED vars
  BY <1>33 DEF vars
<1>34. QED
  BY <1>1, <1>2, <1>3, <1>4, <1>5, <1>6, <1>7, <1>8, <1>9, <1>10, <1>11, <1>12, <1>13, <1>14, <1>15, <1>16, <1>17, <1>18, <1>19, <1>20, <1>21, <1>22, <1>23, <1>24, <1>25, <1>26, <1>27, <1>28, <1>29, <1>30, <1>31, <1>32, <1>33
  DEF Next, MaintainSession, DisconnectAsync, GetCallSession

-----------------------------------------------------------------------------
\* The loop starts disconnected, with nobody calling.
LEMMA InitIInv == Init => IInv
<1> SUFFICES ASSUME Init PROVE IInv
  OBVIOUS
<1>1. TypeOK /\ Main /\ NoneLost /\ EndsWithMain
  BY DEF Init, TypeOK, Main, NoneLost, EndsWithMain
<1>2. Holder /\ Hands
  BY DEF Init, Holder, Hands
<1>3. Returned /\ Fresh
  BY DEF Init, Returned, Fresh
<1>4. QED
  BY <1>1, <1>2, <1>3 DEF IInv

\* The strengthening is inductive.
THEOREM Invariance == Spec => []IInv
<1>1. IInv /\ [Next]_vars => IInv'
  BY NextTypeOK, NextHolder, NextHands, NextMain, NextNoneLost, NextReturned,
     NextEndsWithMain, NextFresh DEF IInv
<1>2. QED
  BY InitIInv, <1>1, PTL DEF Spec

\* The variables of the client keep their types.
THEOREM TypeCorrect == Spec => []TypeOK
<1>1. IInv => TypeOK
  BY DEF IInv
<1>2. QED
  BY Invariance, <1>1, PTL

\* No call session is ever left open with nobody to dispose of it, for any
\* number of callers (GetCallSessionAsync, CallAsync, DisconnectAsync).
THEOREM NoSessionLost == Spec => []NoneLost
<1>1. IInv => NoneLost
  BY DEF IInv
<1>2. QED
  BY Invariance, <1>1, PTL

\* The comment at OpcUaClient.cs:186: whatever the interleaving, a call session
\* does not stay after its main session, unless a disconnect could not see it.
THEOREM SessionsEndTogether == Spec => []EndsWithMain
<1>1. IInv => EndsWithMain
  BY DEF IInv
<1>2. QED
  BY Invariance, <1>1, PTL

\* A failed keep-alive stays known until the session it was for is left.
THEOREM AlarmIsKept == Spec => AlarmKept
<1>1. IInv /\ [Next]_vars =>
        [main # None /\ main' = main /\ keepAliveFailed => keepAliveFailed']_vars
  <2> SUFFICES ASSUME IInv, Next, main # None, main' = main, keepAliveFailed
               PROVE  keepAliveFailed'
    OBVIOUS
  <2>1. CASE MaintainSession \/ Stop
    BY <2>1 DEF IInv, Main, MaintainSession, DisconnectAsync, ClearSession, ExchangeToken, CancelToken,
       CloseSessions, ResetKeepAlive, Connect, Discover, Lose, Reconnect, EndLoop, Disconnect, Stop
  <2>2. ASSUME NEW t \in Callers, Call(t) \/ Lock(t) \/ GetCallSession(t) \/ Answer(t) \/ CallThrows(t) \/ CallCancelled(t)
        PROVE  keepAliveFailed'
    BY <2>2 DEF Call, Lock, GetCallSession, ReadToken, ReadMain, CheckConnected, Choose, Open,
       GiveUpOpening, Publish, RecheckToken, RecheckMain, Return, DropCallSession, Answer, CallThrows,
       CallCancelled, Quiet
  <2>3. CASE Drain \/ LinkDrops \/ KeepAliveFails
    BY <2>3 DEF Drain, LinkDrops, KeepAliveFails, Quiet
  <2>4. ASSUME NEW s, Break(s) \/ OnKeepAlive(s) PROVE keepAliveFailed'
    BY <2>4 DEF Break, OnKeepAlive
  <2>5. QED
    BY <2>1, <2>2, <2>3, <2>4 DEF Next
<1>2. QED
  BY Invariance, <1>1, PTL DEF Spec, AlarmKept

-----------------------------------------------------------------------------
\* What one caller, or a disconnect, closes is not what another caller is
\* calling on, while the main session stays: but by failing on that session.
LEMMA StepCutsNoCall == ASSUME IInv, Next, NEW u \in Callers PROVE NotCut(u)
<1> SUFFICES ASSUME using[u] \in open \ broken, using[u].main = main, main' = main, using'[u] = using[u],
                    ~ \E t \in Callers \ {u} : using[t] = using[u] /\ CallThrows(t)
             PROVE  using[u] \in open'
  BY DEF NotCut
<1> USE DEF IInv, TypeOK
<1>1. CASE MaintainSession \/ Stop
  <2>1. CASE CloseSessions
    BY <2>1 DEF Main, CloseSessions
  <2>2. CASE ~CloseSessions
    BY <1>1, <2>2 DEF MaintainSession, DisconnectAsync, ClearSession, ExchangeToken, CancelToken,
       ResetKeepAlive, Connect, Discover, Lose, Reconnect, EndLoop, Disconnect, Stop
  <2>3. QED
    BY <2>1, <2>2
<1>2. ASSUME NEW t \in Callers, Choose(t) PROVE using[u] \in open'
  BY <1>2 DEF Choose, CloseCallSession, Quiet
<1>3. ASSUME NEW t \in Callers, DropCallSession(t) PROVE using[u] \in open'
  <2>1. using[u] # made
    BY <1>3 DEF Fresh, DropCallSession, Go
  <2>2. callSession \in {None, made}
    BY <1>3 DEF Hands, DropCallSession, Go
  <2>3. QED
    BY <1>3, <2>1, <2>2 DEF DropCallSession, CloseCallSession
<1>4. ASSUME NEW t \in Callers, CallThrows(t) PROVE using[u] \in open'
  <2>1. using'[t] = None /\ using[u] # None
    BY <1>4, ClientAssumption, NoneAssumption DEF CallThrows, HangUp
  <2>2. using[t] # using[u]
    BY <1>4, <2>1
  <2>3. QED
    BY <1>4, <2>2 DEF CallThrows, CloseCallSession
<1>5. ASSUME NEW t \in Callers,
             \/ Call(t) \/ Lock(t) \/ ReadToken(t) \/ ReadMain(t) \/ CheckConnected(t) \/ Open(t)
             \/ GiveUpOpening(t) \/ Publish(t) \/ RecheckToken(t) \/ RecheckMain(t) \/ Return(t)
             \/ Answer(t) \/ CallCancelled(t)
      PROVE  using[u] \in open'
  BY <1>5 DEF Call, Lock, ReadToken, ReadMain, CheckConnected, Open, GiveUpOpening, Publish,
     RecheckToken, RecheckMain, Return, Answer, CallCancelled
<1>6. CASE Drain \/ LinkDrops \/ KeepAliveFails
  BY <1>6 DEF Drain, LinkDrops, KeepAliveFails
<1>7. ASSUME NEW s, Break(s) \/ OnKeepAlive(s) PROVE using[u] \in open'
  BY <1>7 DEF Break, OnKeepAlive
<1>8. QED
  BY <1>1, <1>2, <1>3, <1>4, <1>5, <1>6, <1>7 DEF Next, GetCallSession

\* A running call on a sound session is cut short by a disconnect, or by another
\* call that fails on that very session, only (OpcUaClient.cs:146-151).
THEOREM RunningCallsStay == Spec => CallsNotCut
<1>1. IInv /\ [Next]_vars => [\A t \in Callers : NotCut(t)]_vars
  BY StepCutsNoCall
<1>2. QED
  BY Invariance, <1>1, PTL DEF Spec, CallsNotCut
=============================================================================
