--------------------------- MODULE MCStateMachine ---------------------------
(* A machine with one state outside a parent, and in the parent a first        *)
(* substate that has a first substate itself, and a second one.               *)
EXTENDS StateMachine

MCStates == {"Initial", "Idle", "Parent", "First", "Inner", "Second"}
MCPath ==
    [s \in MCStates |->
        CASE s = "First" -> <<"First", "Parent">>
          [] s = "Inner" -> <<"Inner", "First", "Parent">>
          [] s = "Second" -> <<"Second", "Parent">>
          [] OTHER -> <<s>>]
MCFirst == [s \in MCStates |-> CASE s = "Parent" -> "First" [] s = "First" -> "Inner" [] OTHER -> None]
MCTriggers == {"init", "go", "next", "stop"}

Permit(on, trigger, to) == [on |-> on, trigger |-> trigger, kind |-> "permit", to |-> to, guarded |-> TRUE]
Reenter(on, trigger) == [on |-> on, trigger |-> trigger, kind |-> "reentry", to |-> on, guarded |-> TRUE]
Ignore(on, trigger) == [on |-> on, trigger |-> trigger, kind |-> "ignore", to |-> on, guarded |-> TRUE]
\* ConfigureInitialState permits the init trigger without a guard.
Start == [Permit("Initial", "init", "Idle") EXCEPT !.guarded = FALSE]

\* Transitions to siblings and to states outside, and reentries of the parent
\* and of a leaf.
Plain ==
    {Start, Permit("Idle", "go", "Parent"), Permit("First", "next", "Second"),
     Permit("Parent", "stop", "Idle"), Permit("Inner", "stop", "Idle"),
     Reenter("Parent", "go"), Reenter("Second", "next"), Ignore("Idle", "stop")}
\* One that enters the second substate from outside its parent.
Direct == Plain \cup {Permit("Idle", "next", "Second")}

\* The hypotheses of the theorems on where a machine rests: the second tells the
\* two sets apart.
ASSUME HypothesesAssumption == LeadsAside /\ (EntersFromInside <=> Declared = Plain)
=============================================================================
