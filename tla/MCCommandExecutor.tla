-------------------------- MODULE MCCommandExecutor --------------------------
(* Instances of the command queue small enough to check.                     *)
EXTENDS CommandExecutor

CONSTANTS n1, n2, get1, get1b, set1, set1b, bad2, exec1, refusal

AllNodes == {n1, n2}
Kind(c) ==
    CASE c \in {get1, get1b} -> "Get"
      [] c \in {set1, set1b, bad2} -> "Set"
      [] c = exec1 -> "Exec"
      [] c = refusal -> "Alone"

\* Two Sets of one node, one of another whose body does not encode, a Get of
\* the first node.
OrderCommands == {get1, set1, set1b, bad2}
OrderKindOf == [c \in OrderCommands |-> Kind(c)]
OrderNodeOf == [c \in OrderCommands |-> IF c = bad2 THEN n2 ELSE n1]
OrderUnencodable == {bad2}

\* Two Gets, which make a batch, with an Exec and a refusal around or between.
MixedCommands == {get1, get1b, exec1, refusal}
MixedKindOf == [c \in MixedCommands |-> Kind(c)]
MixedNodeOf == [c \in MixedCommands |-> n1]
=============================================================================
