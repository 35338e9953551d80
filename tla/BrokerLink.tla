------------------------------ MODULE BrokerLink ------------------------------
(***************************************************************************)
(* What a proxy or a service may expect of its connection to the broker: a   *)
(* link that is lost, or that could not be made, is tried again until it is  *)
(* disposed of; every attempt uses up a reconnection that was pending; and   *)
(* disposing of it does not stop an attempt already on its way.              *)
(* RabbitMqTransport is shown to implement this, and Proxy builds on it.     *)
(***************************************************************************)
EXTENDS Naturals

CONSTANT
    Counts  \* the values "pending" may take

ASSUME CountsAssumption == Counts \subseteq Nat

VARIABLES
    link,     \* "none" before it is made; "connecting", "configuring" or "dropped"
              \* (lost while it is configured) while its lock is held; "up" or "down"
    pending,  \* reconnections still to come
    gone      \* it has been disposed of

linkVars == <<link, pending, gone>>

LinkInit == link = "none" /\ pending = 0 /\ gone = FALSE

\* Nobody holds the link's lock.
Released == link \in {"none", "up", "down"}

More == pending' \in Counts /\ pending' > pending
Fewer == pending' \in Counts /\ pending' < pending

Construct ==
    /\ link = "none" /\ link' = "connecting"
    /\ UNCHANGED <<pending, gone>>

Reconnect ==
    /\ link \in {"up", "down"} /\ link' = "connecting"
    /\ Fewer
    /\ UNCHANGED gone

Connect ==
    /\ link = "connecting" /\ link' = "configuring"
    /\ UNCHANGED <<pending, gone>>

ConnectFails ==
    /\ link = "connecting" /\ link' = "down"
    /\ More
    /\ UNCHANGED gone

\* It may have been lost again by then.
Configure ==
    /\ \/ link = "configuring" /\ link' = "up"
       \/ link = "dropped" /\ link' = "down"
    /\ UNCHANGED <<pending, gone>>

Drop ==
    /\ \/ link = "configuring" /\ link' = "dropped"
       \/ link = "up" /\ link' = "down"
    /\ More
    /\ UNCHANGED gone

\* A pending reconnection comes to nothing, but never the last that is needed.
Forget ==
    /\ Fewer
    /\ link \in {"dropped", "down"} /\ ~gone => pending' > 0
    /\ UNCHANGED <<link, gone>>

Dispose ==
    /\ link \in {"up", "down"} /\ ~gone
    /\ link' = "down" /\ gone' = TRUE
    /\ pending' \in Counts /\ pending' <= pending

LinkNext ==
    \/ Construct \/ Reconnect \/ Connect \/ ConnectFails \/ Configure
    \/ Drop \/ Forget \/ Dispose

\* An attempt ends, and a link that is down is tried again.
LinkSpec ==
    /\ LinkInit /\ [][LinkNext]_linkVars
    /\ WF_linkVars(Connect \/ ConnectFails) /\ WF_linkVars(Configure)
    /\ WF_linkVars(Reconnect /\ link = "down" /\ ~gone)
=============================================================================
