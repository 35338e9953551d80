--------------------------- MODULE SerialCommands ---------------------------
(***************************************************************************)
(* What StatePipes.OpcUaBridge promises the clients of its command queue,   *)
(* with no batching: commands are settled one after the other in the order  *)
(* they were accepted.  A settled command was answered or its answer was    *)
(* lost; nothing overtakes, nothing is answered twice, and as long as the   *)
(* bridge serves, every accepted command is settled in the end.             *)
(***************************************************************************)
EXTENDS Naturals, Sequences

CONSTANT Commands

VARIABLES
    accepted,  \* every command handed to the queue, oldest first
    settled,   \* the commands no longer owed an answer, oldest first
    answered,  \* the commands whose answer was sent, in sending order
    serving    \* FALSE once the bridge has stopped serving

vars == <<accepted, settled, answered, serving>>

Owed == Len(settled) < Len(accepted)

Init ==
    /\ accepted = <<>>
    /\ settled = <<>>
    /\ answered = <<>>
    /\ serving = TRUE

Accept(c) ==
    /\ \A i \in DOMAIN accepted : accepted[i] # c
    /\ accepted' = Append(accepted, c)
    /\ UNCHANGED <<settled, answered, serving>>

\* The oldest command owed an answer gets it.
Answer ==
    /\ serving
    /\ Owed
    /\ settled' = Append(settled, accepted[Len(settled) + 1])
    /\ answered' = Append(answered, accepted[Len(settled) + 1])
    /\ UNCHANGED <<accepted, serving>>

\* A failing run takes the answers of its next commands with it.
Lose ==
    /\ serving
    /\ \E k \in Len(settled) + 1 .. Len(accepted) :
          settled' = SubSeq(accepted, 1, k)
    /\ UNCHANGED <<accepted, answered, serving>>

Stop ==
    /\ serving
    /\ serving' = FALSE
    /\ UNCHANGED <<accepted, settled, answered>>

Next ==
    \/ \E c \in Commands : Accept(c)
    \/ Answer
    \/ Lose
    \/ Stop

Spec == Init /\ [][Next]_vars

\* While it serves, the bridge does not sit on a command it owes an answer.
LiveSpec == Spec /\ WF_vars(Answer \/ Lose)
=============================================================================
