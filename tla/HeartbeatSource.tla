---------------------------- MODULE HeartbeatSource ----------------------------
(***************************************************************************)
(* What the proxies that watch a service see of it: while it is up it          *)
(* publishes heartbeats that count from 0 (HeartbeatCommandHandler.cs), and a  *)
(* service started again, after a stop or a crash, counts from 0 again.        *)
(* Proxy is checked against it; that a service goes on beating is Service's    *)
(* HeartbeatsGoOn.                                                            *)
(***************************************************************************)
EXTENDS Naturals

CONSTANT
    Top  \* counts from here on are not told apart

ASSUME TopAssumption == Top \in Nat \ {0}

VARIABLES
    up,     \* the service runs
    count   \* _hertbeatCount: the count of the next heartbeat

sourceVars == <<up, count>>

SourceInit == up = FALSE /\ count = 0

Begin ==
    /\ ~up /\ count = 0 /\ up' = TRUE
    /\ UNCHANGED count

Beat ==
    /\ up /\ count' = IF count < Top THEN count + 1 ELSE Top
    /\ UNCHANGED up

Die ==
    /\ up /\ up' = FALSE
    /\ UNCHANGED count

\* A new process, after a crash or a stop.
StartAgain ==
    /\ up' = TRUE /\ count' = 0

SourceNext == Begin \/ Beat \/ Die \/ StartAgain

SourceSpec == SourceInit /\ [][SourceNext]_sourceVars
=============================================================================
