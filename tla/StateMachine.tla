----------------------------- MODULE StateMachine -----------------------------
(***************************************************************************)
(* A state machine of a StatePipes service: BaseStateMachine.cs over the      *)
(* Stateless library in its Queued firing mode.  States nest; a state method  *)
(* that guards a trigger and the OnEntry and OnExit of a state are user code, *)
(* which may fire further triggers or throw.  A state with a first substate   *)
(* fires MoveToState when it is entered (StateWorker.cs, MoveToStateWorker.cs)*)
(* and permits it into that substate.                                         *)
(*                                                                           *)
(* One thread executes a service's commands, so a step is a piece of user     *)
(* code, or what the library does between two of them.  Triggers that reach   *)
(* the machine meanwhile, from its own states or from another machine's with  *)
(* FireExternal, come through the same Fire.                                  *)
(***************************************************************************)
EXTENDS Naturals, FiniteSets, SequencesExt

CONSTANTS
    States,
    InitialState,
    Path,       \* [States -> Seq(States)]: the state, its parent, up to the root
    First,      \* [States -> its first substate, or None]
    Triggers,
    MoveToState,
    Declared,   \* transitions: [on, trigger, kind, to, guarded]
    None,
    \* Bounds.
    MaxFires,   \* triggers fired
    MaxNested,  \* triggers fired by one piece of user code
    MaxFaults   \* exceptions in user code

Kinds == {"permit", "reentry", "ignore"}
Transitions ==
    [on : States, trigger : Triggers \cup {MoveToState}, kind : Kinds, to : States, guarded : BOOLEAN]
Fireds == [type : Triggers \cup {MoveToState}, id : 0 .. MaxFires]
Includes(s, t) == \E n \in DOMAIN Path[t] : Path[t][n] = s

ASSUME MachineAssumption ==
    /\ InitialState \in States
    /\ Path \in [States -> Seq(States)]
    /\ \A s \in States : Path[s] # <<>> /\ Head(Path[s]) = s
    /\ \A s \in States : \A n \in DOMAIN Path[s] :
          Path[Path[s][n]] = SubSeq(Path[s], n, Len(Path[s]))
    /\ First \in [States -> States \cup {None}] /\ First[InitialState] = None
    /\ \A s \in States : First[s] # None => First[s] # s /\ Includes(s, First[s])
    /\ MoveToState \notin Triggers
    /\ None \notin States \cup Triggers \cup {MoveToState} \cup Fireds
    /\ Declared \subseteq Transitions
    /\ \A h \in Declared :
          /\ h.trigger # MoveToState
          /\ h.kind = "permit" => h.to # h.on
          /\ h.kind # "permit" => h.to = h.on
    /\ MaxFires \in Nat /\ MaxNested \in Nat /\ MaxFaults \in Nat

\* MoveToStateWorker.Configure adds what moves into the first substate.
Moves ==
    {[on |-> s, trigger |-> MoveToState, kind |-> "permit", to |-> First[s], guarded |-> FALSE] :
        s \in {s \in States : First[s] # None}}
Handlers == Declared \cup Moves

VARIABLES
    \* BaseStateMachine.
    reported, \* _currentState
    current,  \* _currentTrigger: [type, id], or None
    \* Stateless.
    state,    \* State
    firing,   \* _firing
    queue,    \* _eventQueue: the triggers fired, each [type, id]
    handling, \* the trigger being handled, or None
    level,    \* the state whose handlers come next, or None
    todo,     \* what is left of the transition under way
    \* History and bounds.
    fires,    \* triggers fired, but for moves: the n-th has id n
    faults,
    nested,   \* user code has fired a trigger
    reached   \* where the last trigger that led anywhere led

search == <<handling, level>>
history == <<faults, reached>>
vars == <<reported, current, state, firing, queue, search, todo, fires, nested, history>>

Init ==
    /\ state = InitialState /\ reported = InitialState /\ current = None
    /\ firing = FALSE /\ queue = <<>> /\ handling = None /\ level = None /\ todo = <<>>
    /\ fires = 0 /\ faults = 0 /\ nested = FALSE /\ reached = InitialState

-----------------------------------------------------------------------------
(* BaseStateMachine.Fire.                                                    *)

Trigger(type, n) == [type |-> type, id |-> n]

\* Mutant: MoveToState becomes the current trigger like any other.
RememberMoves(before, fired) == IF fired = <<>> THEN before ELSE fired[Len(fired)]
\* What guards and states see as the current trigger once these are fired: the
\* last that is not a move, whether or not the ones before it have been handled.
Remember(before, fired) ==
    LET own == {n \in DOMAIN fired : fired[n].type # MoveToState}
    IN  IF own = {} THEN before ELSE fired[Max(own)]

\* The library queues what is fired behind what it is handling.
Fire(types, moves) ==
    LET fired == [n \in DOMAIN types |-> Trigger(types[n], fires + n)] \o moves
    IN  /\ fires' = fires + Len(types) /\ fires' <= MaxFires
        /\ queue' = queue \o fired
        /\ current' = Remember(current, fired)

\* A command executed by the service's task, or by the test of a machine.
Command(type) ==
    /\ ~firing /\ firing' = TRUE
    /\ Fire(<<type>>, <<>>)
    /\ UNCHANGED <<reported, state, search, todo, nested, history>>

\* A guard, an OnExit or an OnEntry runs and may fire triggers of its own.
UserCode(moves) ==
    \E types \in UNION {[1 .. n -> Triggers] : n \in 0 .. MaxNested} :
        /\ Fire(types, moves)
        /\ nested' = (nested \/ types # <<>>)

-----------------------------------------------------------------------------
(* The library's queue and its search for a handler.                         *)

Dequeue ==
    /\ firing /\ level = None /\ todo = <<>> /\ queue # <<>>
    /\ handling' = Head(queue) /\ queue' = Tail(queue)
    /\ level' = state
    /\ UNCHANGED <<reported, current, state, firing, todo, fires, nested, history>>

FinishFiring ==
    /\ firing /\ level = None /\ todo = <<>> /\ queue = <<>>
    /\ firing' = FALSE /\ handling' = None
    /\ UNCHANGED <<reported, current, state, queue, level, todo, fires, nested, history>>

\* Mutant: the rest of the transition is still to come.
FailMidway ==
    /\ faults < MaxFaults /\ faults' = faults + 1
    /\ firing' = FALSE /\ handling' = None /\ level' = None
    /\ UserCode(<<>>)
    /\ UNCHANGED <<reported, state, reached, todo>>
\* An exception ends the firing and leaves the queue to the next command;
\* ExecuteMessageHelper logs it.
Fail ==
    /\ faults < MaxFaults /\ faults' = faults + 1
    /\ firing' = FALSE /\ handling' = None /\ level' = None /\ todo' = <<>>
    /\ UserCode(<<>>)
    /\ UNCHANGED <<reported, state, reached>>

Candidates == {h \in Handlers : h.on = level /\ h.trigger = handling.type}
\* A guard is false unless the current trigger is one of its trigger's type, be
\* it the one handled or a later one.
Asked(h) == ~h.guarded \/ (current # None /\ current.type = h.trigger)
\* The handlers whose guards may turn out true.
Verdicts == {S \in SUBSET {h \in Candidates : Asked(h)} : \A h \in Candidates : ~h.guarded => h \in S}

\* What a transition exits, inside out: up to an ancestor, or what the two states
\* do not share.  What they share is the rest of the path.
Exits(from, to) ==
    SubSeq(Path[from], 1, Cardinality({n \in DOMAIN Path[from] : ~Includes(Path[from][n], to)}))

\* What a transition enters, outside in.
Entries(from, to) == Reverse(Exits(to, from))
Do(kind, S) == [n \in DOMAIN S |-> [kind |-> kind, of |-> S[n]]]

\* A transition to where the machine is already does nothing.  A reentry of an
\* ancestor exits and enters it, and the machine is in it when that is done.
Steps(h) ==
    CASE h.kind = "permit" /\ h.to # state ->
           Do("exit", Exits(state, h.to)) \o Do("arrive", <<h.to>>) \o Do("enter", Entries(state, h.to))
      [] h.kind = "reentry" ->
           Do("exit", Append(Exits(state, h.to), h.to)) \o Do("report", <<h.to>>)
             \o Do("enter", <<h.to>>) \o Do("settle", <<h.to>>)
      [] OTHER -> <<>>

\* The one guard that holds leads on.
Follow ==
    /\ level # None /\ level' = None
    /\ \E h \in Candidates :
          /\ {h} \in Verdicts
          /\ todo' = Steps(h)
          /\ reached' = IF h.kind = "ignore" \/ h.trigger = MoveToState THEN reached ELSE h.to
    /\ UserCode(<<>>)
    /\ UNCHANGED <<reported, state, firing, handling, faults>>

\* No guard holds: the trigger goes to the parent's handlers, and OnUnhandledTrigger
\* drops it at the root.
PassOn ==
    /\ level # None /\ {} \in Verdicts
    /\ level' = IF Len(Path[level]) > 1 THEN Path[level][2] ELSE None
    /\ UserCode(<<>>)
    /\ UNCHANGED <<reported, state, firing, handling, todo, history>>

\* A guard throws, or two hold, which the library refuses.
GuardFails ==
    /\ level # None /\ \E h \in Candidates : h.guarded /\ Asked(h)
    /\ Fail

-----------------------------------------------------------------------------
(* A transition, step by step.                                               *)

Next1(kind) == todo # <<>> /\ Head(todo).kind = kind
Proceed(kind) == Next1(kind) /\ todo' = Tail(todo)

\* StateWorker._OnExit.
Exit ==
    /\ Proceed("exit")
    /\ UserCode(<<>>)
    /\ UNCHANGED <<reported, state, firing, search, history>>

\* Mutant: the state reported is the one the transition comes from.
ReportSource(s) == state
\* OnTransitioned publishes the destination.
Report(s) == s
Arrive ==
    /\ Proceed("arrive")
    /\ state' = Head(todo).of /\ reported' = Report(Head(todo).of)
    /\ UNCHANGED <<current, firing, queue, search, fires, nested, history>>
ReportReentry ==
    /\ Proceed("report")
    /\ reported' = Report(Head(todo).of)
    /\ UNCHANGED <<current, state, firing, queue, search, fires, nested, history>>
Settle ==
    /\ Proceed("settle")
    /\ state' = Head(todo).of
    /\ UNCHANGED <<reported, current, firing, queue, search, fires, nested, history>>

\* Mutant: a state entered again does not move.
MoveOnArrival(s) == IF First[s] # None /\ state = s THEN <<Trigger(MoveToState, handling.id)>> ELSE <<>>
\* Mutant: a state without a first substate moves as well.
MoveAnyway(s) == <<Trigger(MoveToState, handling.id)>>
\* MoveToStateWorker.OnEntry; the move has the id of the trigger that led here.
Move(s) == IF First[s] # None THEN <<Trigger(MoveToState, handling.id)>> ELSE <<>>

\* StateWorker._OnEntry: the state's OnEntry, then the move.
Enter ==
    /\ Proceed("enter")
    /\ UserCode(Move(Head(todo).of))
    /\ UNCHANGED <<reported, state, firing, search, history>>

\* OnExit or OnEntry throws, and what was to follow does not.
ActionFails ==
    /\ Next1("exit") \/ Next1("enter")
    /\ Fail

-----------------------------------------------------------------------------

Next ==
    \/ \E type \in Triggers : Command(type)
    \/ Dequeue \/ FinishFiring \/ Follow \/ PassOn \/ GuardFails
    \/ Exit \/ Arrive \/ ReportReentry \/ Settle \/ Enter \/ ActionFails

Spec == Init /\ [][Next]_vars

-----------------------------------------------------------------------------
(* Properties.                                                               *)

StepsToDo == [kind : {"exit", "arrive", "enter", "report", "settle"}, of : States]

\* Every variable has its type, and a handler is searched and a transition made
\* only while a trigger is handled, never both at once.
TypeOK ==
    /\ state \in States /\ reported \in States /\ reached \in States
    /\ current \in Fireds \cup {None} /\ handling \in Fireds \cup {None}
    /\ firing \in BOOLEAN /\ queue \in Seq(Fireds)
    /\ level \in States \cup {None} /\ todo \in Seq(StepsToDo)
    /\ level # None \/ todo # <<>> => firing /\ handling # None
    /\ level = None \/ todo = <<>>
    /\ fires \in 0 .. MaxFires /\ faults \in 0 .. MaxFaults
    /\ nested \in BOOLEAN

\* A guard, an OnExit or an OnEntry is about to run.
RunsUserCode ==
    \/ level # None /\ \E h \in Candidates : h.guarded /\ Asked(h)
    \/ Next1("exit") \/ Next1("enter")

\* User code sees the trigger it runs for, or, in a state moved into, the one
\* that led to its parent and never the move: GetCurrentTrigger and
\* GetCurrentResponseInfo answer for that one, as long as no user code fires
\* triggers itself and none throws.  (A move has the id of what led to it.)
SeesItsTrigger ==
    ~nested /\ faults = 0 /\ RunsUserCode =>
        current # None /\ current.id = handling.id /\ current.type # MoveToState

\* A trigger that leads to a state without substates leaves the machine there,
\* as long as no user code fires triggers itself and none throws.
DestinationKept ==
    ~nested /\ faults = 0 /\ ~firing /\ First[reached] = None => state = reached

\* A machine that is done rests in no state that has a first substate: what
\* enters such a state, or enters it again, also moves on into the substate,
\* whatever user code fires on the way.
RestsInLeaf == faults = 0 /\ ~firing => First[state] = None

\* What RestsInLeaf asks of the declared transitions: none leads from a state to
\* one with a first substate that holds it or lies in it.  The machine may be in
\* such a state already, and what enters nothing is not moved on.
LeadsAside ==
    \A h \in Declared : h.kind = "permit" /\ First[h.to] # None =>
        ~Includes(h.to, h.on) /\ ~Includes(h.on, h.to)

\* What DestinationKept asks of them: a state with a first substate that holds
\* where a transition leads holds where it comes from as well.  Entering it on the
\* way would move the machine on into its first substate.
EntersFromInside ==
    \A h \in Declared : h.kind = "permit" =>
        \A n \in 2 .. Len(Path[h.to]) :
            First[Path[h.to][n]] # None => Includes(Path[h.to][n], h.on)

\* A machine that is done is in the state it last reported.
ReportedIsState == faults = 0 /\ ~firing => reported = state
=============================================================================
