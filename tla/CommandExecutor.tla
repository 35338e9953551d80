--------------------------- MODULE CommandExecutor ---------------------------
(***************************************************************************)
(* StatePipes.OpcUaBridge/CommandExecutor.cs: the queue that serves every   *)
(* Get, Set, Exec, Monitor and Delete command and every refusal.  The       *)
(* transport's receive thread enqueues; one reader takes the longest run of *)
(* one kind from the head (Gets become one OPC UA Read, Sets with distinct  *)
(* nodes one Write, anything else goes alone), serves it at the server and  *)
(* answers it in full before it looks at the queue again.                   *)
(*                                                                          *)
(* The server is the environment: it handles the items of a call in any     *)
(* order, may refuse any of them, and a call that throws leaves the items   *)
(* it had not handled yet to take effect late or never.                     *)
(***************************************************************************)
EXTENDS Naturals, Sequences, Functions

CONSTANTS
    Commands,   \* the commands clients may send, each sent at most once
    KindOf,     \* [Commands -> Kinds]
    NodeOf,     \* [Commands -> Nodes]: read by a Get, changed by a Set or Exec
    Nodes,
    Unencodable, \* the Sets and Execs whose body does not encode to the node's type
    MaxBatch,   \* 500 in the code
    Initial,    \* the value a node has before any command changes it
    Good, Bad,  \* status codes, as far as a client tells them apart
    Unserved    \* no result yet

Kinds == {"Get", "Set", "Exec", "Alone"}
Values == Commands \cup {Initial}
Results == Values \cup {Good, Bad, Unserved}

ASSUME CommandsAssumption ==
    /\ KindOf \in [Commands -> Kinds]
    /\ NodeOf \in [Commands -> Nodes]
    /\ Unencodable \subseteq {c \in Commands : KindOf[c] \in {"Set", "Exec"}}
ASSUME MaxBatchAssumption == MaxBatch \in Nat \ {0}
ASSUME ResultsAssumption ==
    /\ {Initial, Good, Bad, Unserved} \cap Commands = {}
    /\ Bad \notin {Initial, Good, Unserved}
    /\ Good \notin {Initial, Unserved}
    /\ Initial # Unserved

VARIABLES
    \* The executor.
    pending,     \* _pending: the channel, oldest first
    closed,      \* Complete() was called
    held,        \* _held: <<>> or the one command read past the last run
    run,         \* the part of the current run that is not settled yet
    phase,       \* where RunAsync stands
    result,      \* what the run's commands will be answered with
    cancelled,   \* the stopping token
    \* The server.
    outstanding, \* commands of the current call the server has not handled
    stray,       \* commands of a failed call that may still take effect
    value,       \* the value of each node: the last command that set it
    \* What clients can observe.
    arrived,     \* every command the channel accepted, oldest first
    settled,     \* commands no longer owed an answer, oldest first
    answers      \* [cmd, result] in the order they were sent

executor == <<pending, closed, held, run, phase, result, cancelled>>
server == <<outstanding, stray, value>>
clients == <<arrived, settled, answers>>
vars == <<executor, server, clients>>

Changes(c) == KindOf[c] \in {"Set", "Exec"}

Init ==
    /\ pending = <<>> /\ closed = FALSE /\ held = <<>> /\ run = <<>>
    /\ phase = "reading" /\ cancelled = FALSE
    /\ result = [c \in Commands |-> Unserved]
    /\ outstanding = {} /\ stray = {}
    /\ value = [n \in Nodes |-> Initial]
    /\ arrived = <<>> /\ settled = <<>> /\ answers = <<>>

-----------------------------------------------------------------------------
(* The receive thread and the service's lifetime.                           *)

\* EnqueueGet, EnqueueSet, EnqueueExec, EnqueueAlone.  On a completed channel
\* TryWrite does nothing.
Enqueue(c) ==
    /\ ~closed
    /\ c \notin Range(arrived)
    /\ pending' = Append(pending, c)
    /\ arrived' = Append(arrived, c)
    /\ UNCHANGED <<closed, held, run, phase, result, cancelled, server, settled, answers>>

Complete ==
    /\ ~closed
    /\ closed' = TRUE
    /\ UNCHANGED <<pending, held, run, phase, result, cancelled, server, clients>>

Cancel ==
    /\ ~cancelled
    /\ cancelled' = TRUE
    /\ UNCHANGED <<pending, closed, held, run, phase, result, server, clients>>

-----------------------------------------------------------------------------
(* The single reader.                                                       *)

\* The run is collected: encode what can be encoded and make the call with the
\* rest.  A run with nothing to call for is answered at once.
StartServing(r) ==
    /\ outstanding' = Range(r) \ Unencodable
    /\ phase' = IF outstanding' = {} THEN "answering" ELSE "calling"
    /\ result' = [c \in Commands |-> IF c \in Range(r) THEN Bad ELSE result[c]]

\* A Get or Set at the head starts collecting, the rest is served on its own.
StartRun(c) ==
    /\ run' = <<c>>
    /\ IF KindOf[c] \in {"Get", "Set"}
       THEN phase' = "collecting" /\ UNCHANGED <<outstanding, result>>
       ELSE StartServing(<<c>>)

TakeHeld ==
    /\ phase = "reading" /\ held # <<>>
    /\ held' = <<>>
    /\ StartRun(Head(held))
    /\ UNCHANGED <<pending, closed, cancelled, stray, value, clients>>

\* Mutant: the channel is read before the held command.
TakePendingBeforeHeld ==
    /\ phase = "reading" /\ ~cancelled /\ pending # <<>>
    /\ pending' = Tail(pending)
    /\ StartRun(Head(pending))
    /\ UNCHANGED <<closed, held, cancelled, stray, value, clients>>

\* WaitToReadAsync(ct) throws once the token is cancelled, so only a held
\* command is still served then.
TakePending ==
    /\ phase = "reading" /\ held = <<>> /\ ~cancelled /\ pending # <<>>
    /\ pending' = Tail(pending)
    /\ StartRun(Head(pending))
    /\ UNCHANGED <<closed, held, cancelled, stray, value, clients>>

\* Mutant: a second Set of a node joins the Write.
ContinuesAnyNode(c, r) == KindOf[c] = KindOf[Head(r)]

\* Whether c continues the run r: a Get after Gets, a Set of a node the Write
\* does not hold yet after Sets.
Continues(c, r) ==
    /\ KindOf[c] = KindOf[Head(r)]
    /\ KindOf[c] = "Set" => \A d \in Range(r) : NodeOf[d] # NodeOf[c]

GrowRun ==
    /\ phase = "collecting" /\ Len(run) < MaxBatch /\ pending # <<>>
    /\ Continues(Head(pending), run)
    /\ run' = Append(run, Head(pending))
    /\ pending' = Tail(pending)
    /\ UNCHANGED <<closed, held, phase, result, cancelled, server, clients>>

\* Mutant: collecting goes on past the command that does not fit.
HoldAndGoOn ==
    /\ phase = "collecting" /\ Len(run) < MaxBatch /\ pending # <<>>
    /\ ~Continues(Head(pending), run)
    /\ held' = Append(held, Head(pending))
    /\ pending' = Tail(pending)
    /\ UNCHANGED <<closed, run, phase, result, cancelled, server, clients>>

\* The command read past the run is held for the next one.
HoldNext ==
    /\ phase = "collecting" /\ Len(run) < MaxBatch /\ pending # <<>>
    /\ ~Continues(Head(pending), run)
    /\ held' = <<Head(pending)>>
    /\ pending' = Tail(pending)
    /\ StartServing(run)
    /\ UNCHANGED <<closed, run, cancelled, stray, value, clients>>

\* The batch is full, or nothing more is queued at this moment.
CloseRun ==
    /\ phase = "collecting"
    /\ Len(run) = MaxBatch \/ pending = <<>>
    /\ StartServing(run)
    /\ UNCHANGED <<pending, closed, held, run, cancelled, stray, value, clients>>

\* Mutant: a completed channel is not drained.
StopUndrained ==
    /\ phase = "reading" /\ held = <<>>
    /\ cancelled \/ closed
    /\ phase' = "stopped"
    /\ UNCHANGED <<pending, closed, held, run, result, cancelled, server, clients>>

\* RunAsync returns: the channel is completed and empty, or the token cancelled.
Stop ==
    /\ phase = "reading" /\ held = <<>>
    /\ cancelled \/ (closed /\ pending = <<>>)
    /\ phase' = "stopped"
    /\ UNCHANGED <<pending, closed, held, run, result, cancelled, server, clients>>

-----------------------------------------------------------------------------
(* The call at the server: session.ReadValuesAsync, WriteValuesAsync,       *)
(* CallAsync, or the work of an EnqueueAlone.                               *)

ServerHandles(c) ==
    /\ phase = "calling" /\ c \in outstanding
    /\ outstanding' = outstanding \ {c}
    /\ \/ /\ result' = [result EXCEPT ![c] =
                           IF KindOf[c] = "Get" THEN value[NodeOf[c]] ELSE Good]
          /\ value' = IF Changes(c) THEN [value EXCEPT ![NodeOf[c]] = c] ELSE value
       \/ UNCHANGED <<result, value>>
    /\ UNCHANGED <<pending, closed, held, run, phase, cancelled, stray, clients>>

CallReturns ==
    /\ phase = "calling" /\ outstanding = {}
    /\ phase' = "answering"
    /\ UNCHANGED <<pending, closed, held, run, result, cancelled, server, clients>>

\* The call throws (session lost, timeout): every command of it is answered Bad
\* whatever the server did with it.
CallFails ==
    /\ phase = "calling" /\ KindOf[Head(run)] # "Alone"
    /\ phase' = "answering"
    /\ result' = [c \in Commands |-> IF c \in Range(run) THEN Bad ELSE result[c]]
    /\ stray' = stray \cup {c \in outstanding : Changes(c)}
    /\ outstanding' = {}
    /\ UNCHANGED <<pending, closed, held, run, cancelled, value, clients>>

\* The call observes the cancelled token, which ends RunAsync.
CallCancelled ==
    /\ phase = "calling" /\ cancelled
    /\ phase' = "stopped"
    /\ stray' = stray \cup {c \in outstanding : Changes(c)}
    /\ outstanding' = {}
    /\ UNCHANGED <<pending, closed, held, run, result, cancelled, value, clients>>

\* The server gets round to a command whose call has already failed.
LateEffect(c) ==
    /\ c \in stray
    /\ stray' = stray \ {c}
    /\ value' = [value EXCEPT ![NodeOf[c]] = c]
    /\ UNCHANGED <<executor, outstanding, clients>>

-----------------------------------------------------------------------------
(* Answering.                                                               *)

AnswerNext ==
    /\ phase = "answering" /\ run # <<>>
    /\ answers' = Append(answers, [cmd |-> Head(run), result |-> result[Head(run)]])
    /\ settled' = Append(settled, Head(run))
    /\ run' = Tail(run)
    /\ phase' = IF Len(run) = 1 THEN "reading" ELSE phase
    /\ UNCHANGED <<pending, closed, held, result, cancelled, server, arrived>>

\* Mutant: the failure of a run ends the loop.
LoseRunAndLoop ==
    /\ run # <<>>
    /\ \/ phase = "answering"
       \/ phase = "calling" /\ KindOf[Head(run)] = "Alone"
    /\ settled' = settled \o run
    /\ run' = <<>>
    /\ outstanding' = {}
    /\ phase' = "failed"
    /\ UNCHANGED <<pending, closed, held, result, cancelled, stray, value, arrived, answers>>

\* Building or sending an answer throws, or the work of an EnqueueAlone does:
\* RunAsync logs it and the answers the run still owes are lost.
LoseRun ==
    /\ run # <<>>
    /\ \/ phase = "answering"
       \/ phase = "calling" /\ KindOf[Head(run)] = "Alone"
    /\ settled' = settled \o run
    /\ run' = <<>>
    /\ outstanding' = {}
    /\ phase' = "reading"
    /\ UNCHANGED <<pending, closed, held, result, cancelled, stray, value, arrived, answers>>

-----------------------------------------------------------------------------
Reader ==
    \/ TakeHeld \/ TakePending \/ GrowRun \/ HoldNext \/ CloseRun
    \/ AnswerNext \/ LoseRun \/ Stop

Call ==
    \/ \E c \in Commands : ServerHandles(c)
    \/ CallReturns \/ CallFails \/ CallCancelled

Next ==
    \/ \E c \in Commands : Enqueue(c)
    \/ Complete
    \/ Cancel
    \/ Reader
    \/ Call
    \/ \E c \in Commands : LateEffect(c)

Spec == Init /\ [][Next]_vars

\* The reader is a task the runtime keeps scheduling.  A call ends because the
\* server answers or the session drops; a call nobody ends holds the queue, as
\* the code's comment says.  Clients, Complete and Cancel promise nothing.
FairSpec == Spec /\ WF_vars(Reader) /\ WF_vars(Call)

-----------------------------------------------------------------------------
(* Properties.                                                              *)

TypeOK ==
    /\ pending \in Seq(Commands) /\ held \in Seq(Commands) /\ run \in Seq(Commands)
    /\ Len(held) <= 1
    /\ closed \in BOOLEAN /\ cancelled \in BOOLEAN
    /\ phase \in {"reading", "collecting", "calling", "answering", "stopped"}
    /\ result \in [Commands -> Results]
    /\ outstanding \subseteq Commands /\ stray \subseteq Commands
    /\ value \in [Nodes -> Values]
    /\ arrived \in Seq(Commands) /\ settled \in Seq(Commands)
    /\ answers \in Seq([cmd : Commands, result : Results])

\* Every command the channel accepted is in exactly one place, and the places
\* in order are the arrival order: settled, then the run, then the held
\* command, then the channel.  A run that fails, is cut short by a held
\* command or is cancelled loses and swaps nothing.
ArrivalOrder == settled \o run \o held \o pending = arrived

\* One OPC UA Write never holds two Sets of one node, and a call never mixes
\* kinds or takes an Exec or an EnqueueAlone along with anything else.
RunsAreUniform ==
    \A i, j \in DOMAIN run : i # j =>
        /\ KindOf[run[i]] = KindOf[run[j]]
        /\ KindOf[run[i]] \in {"Get", "Set"}
        /\ KindOf[run[i]] = "Set" => NodeOf[run[i]] # NodeOf[run[j]]

Before(c, d) == \E i, j \in DOMAIN arrived : i < j /\ arrived[i] = c /\ arrived[j] = d
ChangesBefore(g) ==
    {c \in Range(arrived) : Changes(c) /\ NodeOf[c] = NodeOf[g] /\ Before(c, g)}
Acknowledged(c) == \E i \in DOMAIN answers : answers[i] = [cmd |-> c, result |-> Good]
LastAcknowledged(g) ==
    {c \in ChangesBefore(g) :
        /\ Acknowledged(c)
        /\ \A d \in ChangesBefore(g) : Acknowledged(d) => d = c \/ Before(d, c)}
OutcomeUnknown(g) == {c \in ChangesBefore(g) \ Unencodable : ~Acknowledged(c)}

\* A Get that is answered with a value shows the last change of its node that
\* arrived before it and was acknowledged, or one that arrived before it and
\* was answered Bad or not at all although it was sent, and never a command
\* that arrived later or could not be encoded.  "a client sees them take
\* effect and be answered in the order it sent them" (CommandExecutor.cs:12).
ReadsFollowArrivalOrder ==
    \A i \in DOMAIN answers :
        LET g == answers[i].cmd
            v == answers[i].result
        IN  KindOf[g] = "Get" /\ v # Bad =>
                \/ v \in LastAcknowledged(g) \cup OutcomeUnknown(g)
                \/ v = Initial /\ LastAcknowledged(g) = {}

\* The queue implements the serial server that knows nothing of batches.
Serial == INSTANCE SerialCommands WITH
    accepted <- arrived,
    answered <- [i \in DOMAIN answers |-> answers[i].cmd],
    serving <- phase # "stopped"
SerialSpec == Serial!Spec
SerialLiveSpec == Serial!LiveSpec

\* Unless the service is stopping, every accepted command is settled.
EverySettled ==
    \A c \in Commands : c \in Range(arrived) ~> (c \in Range(settled) \/ cancelled)
=============================================================================
