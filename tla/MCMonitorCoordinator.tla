------------------------- MODULE MCMonitorCoordinator -------------------------
(* Instances of the bridge's monitors small enough to check.                  *)
EXTENDS MonitorCoordinator, TLC

CONSTANTS c1, r1, r1b, x, y, p1, p2

\* One client that comes back with another reply-to.
OneClient == {c1}
Restarted == {r1, r1b}
OwnerOfAll == [r \in Restarted |-> c1]
OneReply == {r1}
OwnerOfOne == [r \in OneReply |-> c1]
OneItem == {x}
TwoItems == {x, y}
\* The items' NodeIds are sanitized to one name, as A-B and A_B are.
SameBase == [i \in TwoItems |-> "A_B"]
OneBase == [i \in OneItem |-> i]
RankOfOne == [i \in OneItem |-> 1]
XBeforeY == [i \in TwoItems |-> IF i = x THEN 1 ELSE 2]
\* Two parameter sets of different publishing intervals, or of one.
TwoParams == {p1, p2}
OneParam == {p1}
Interval == [p \in TwoParams |-> p]
\* Nothing tells the reply-tos apart, nor the parameter sets: intervals are only
\* compared with each other.
Alike == Permutations(Restarted) \cup Permutations(TwoParams)
OneCatalog == {OneItem}
AnyCatalog == SUBSET OneItem
LosingY == {TwoItems, {x}}
=============================================================================
