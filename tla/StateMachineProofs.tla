-------------------------- MODULE StateMachineProofs --------------------------
(***************************************************************************)
(* What holds of a state machine of any states, nested in any way, with any   *)
(* triggers, transitions, guards and user code.                               *)
(***************************************************************************)
EXTENDS StateMachine, SequenceTheorems, FiniteSetTheorems, TLAPS

\* A machine that is done handles nothing, and has nothing queued unless user
\* code threw.
Quiet == ~firing => handling = None /\ (faults = 0 => queue = <<>>)

\* As long as only commands fire, all that is queued or handled is the last
\* command's trigger and moves with its id.
Single ==
    ~nested /\ faults = 0 /\ firing =>
        /\ current # None /\ current.id = fires /\ current.type # MoveToState
        /\ handling # None => handling.id = fires
        /\ \A n \in DOMAIN queue : queue[n].id = fires

\* What is left of a transition: it arrives once, or it reports the state that it
\* settles in at the end.
Shape ==
    \A n \in DOMAIN todo :
        /\ todo[n].kind = "arrive" =>
              \A m \in DOMAIN todo : todo[m].kind \in {"exit", "enter"} \/ m = n
        /\ todo[n].kind = "settle" => n = Len(todo)
        /\ todo[n].kind = "report" =>
              /\ n < Len(todo) /\ todo[Len(todo)] = [kind |-> "settle", of |-> todo[n].of]
              /\ \A m \in DOMAIN todo : todo[m].kind = "report" => m = n

\* The state reported is the machine's, but for a reentry that has been reported
\* and is not settled.
Settling ==
    /\ todo # <<>> /\ todo[Len(todo)].kind = "settle"
    /\ \A n \in DOMAIN todo : todo[n].kind # "report"
Reported == faults = 0 => IF Settling THEN reported = todo[Len(todo)].of ELSE reported = state

\* The search for a handler climbs the state's path, and for a move it passes no
\* state with a first substate.
Climbing ==
    level # None => \E p \in DOMAIN Path[state] :
        /\ level = Path[state][p]
        /\ handling.type = MoveToState => \A n \in 1 .. p - 1 : First[Path[state][n]] = None

\* The state the machine will be in when the transition under way is done.
Ends(s) ==
    IF \E n \in DOMAIN todo : todo[n].kind \in {"arrive", "settle"}
    THEN \E n \in DOMAIN todo : todo[n].kind \in {"arrive", "settle"} /\ todo[n].of = s
    ELSE s = state
MoveComes ==
    \/ \E n \in DOMAIN queue : queue[n].type = MoveToState
    \/ \E n \in DOMAIN todo : todo[n].kind = "enter" /\ First[todo[n].of] # None
    \/ level = state /\ handling.type = MoveToState
\* If that state has a first substate, the move there is still to come.
MovesOn == faults = 0 => \A s \in States : Ends(s) /\ First[s] # None => MoveComes

\* As long as only commands fire, a command's trigger is handled before all moves,
\* and once it leads to a state without a first substate, the transition ends
\* there and nothing moves on.
Kept ==
    ~nested /\ faults = 0 =>
        /\ \A n \in DOMAIN queue : queue[n].type # MoveToState =>
              Len(queue) = 1 /\ level = None /\ todo = <<>>
        /\ level # None /\ handling.type # MoveToState => queue = <<>>
        /\ First[reached] = None =>
              /\ Ends(reached)
              /\ \A n \in DOMAIN queue : queue[n].type # MoveToState
              /\ level # None => handling.type # MoveToState
              /\ \A n \in DOMAIN todo : todo[n].kind = "enter" => First[todo[n].of] = None

IInv == TypeOK /\ Quiet /\ Single /\ Shape /\ Reported /\ Climbing

-----------------------------------------------------------------------------
(* Paths.                                                                    *)

LEMMA PathFacts ==
  ASSUME NEW s \in States
  PROVE  /\ Path[s] \in Seq(States) /\ Len(Path[s]) \in Nat /\ Len(Path[s]) >= 1
         /\ Path[s][1] = s /\ DOMAIN Path[s] = 1 .. Len(Path[s])
         /\ \A n \in DOMAIN Path[s] : Path[s][n] \in States
<1>1. Path[s] \in Seq(States) /\ Path[s] # <<>> /\ Head(Path[s]) = s
  BY MachineAssumption
<1>2. Len(Path[s]) \in Nat /\ Len(Path[s]) # 0 /\ DOMAIN Path[s] = 1 .. Len(Path[s])
  BY <1>1, EmptySeq, LenProperties
<1>3. \A n \in 1 .. Len(Path[s]) : Path[s][n] \in States
  BY <1>1, ElementOfSeq
<1> QED
  BY <1>1, <1>2, <1>3

\* The path from a state on a path is the rest of that path.
LEMMA RestOfPath ==
  ASSUME NEW s \in States, NEW n \in DOMAIN Path[s]
  PROVE  /\ Len(Path[Path[s][n]]) = Len(Path[s]) - n + 1
         /\ \A m \in 1 .. Len(Path[s]) - n + 1 : Path[Path[s][n]][m] = Path[s][n + m - 1]
<1>1. Path[Path[s][n]] = SubSeq(Path[s], n, Len(Path[s]))
  BY MachineAssumption
<1>2. Path[s] \in Seq(States) /\ n \in 1 .. Len(Path[s]) /\ Len(Path[s]) \in Nat
  BY PathFacts
<1> QED
  BY <1>1, <1>2

\* Of two states on a path one holds the other.
LEMMA Line ==
  ASSUME NEW s \in States, NEW p \in DOMAIN Path[s], NEW q \in DOMAIN Path[s], p <= q
  PROVE  Includes(Path[s][q], Path[s][p])
<1>1. /\ p \in 1 .. Len(Path[s]) /\ q \in 1 .. Len(Path[s]) /\ Path[s][p] \in States
      /\ Len(Path[s]) \in Nat
  BY PathFacts
<1>2. /\ Len(Path[Path[s][p]]) = Len(Path[s]) - p + 1
      /\ \A m \in 1 .. Len(Path[s]) - p + 1 : Path[Path[s][p]][m] = Path[s][p + m - 1]
  BY RestOfPath
<1>3. DOMAIN Path[Path[s][p]] = 1 .. Len(Path[Path[s][p]])
  BY <1>1, PathFacts
<1>4. PICK m \in 1 .. Len(Path[s]) - p + 1 : p + m - 1 = q
  <2>1. q - p + 1 \in 1 .. Len(Path[s]) - p + 1 /\ p + (q - p + 1) - 1 = q
    BY <1>1
  <2> QED
    BY <2>1
<1>5. m \in DOMAIN Path[Path[s][p]] /\ Path[Path[s][p]][m] = Path[s][q]
  BY <1>2, <1>3, <1>4
<1> QED
  BY <1>5 DEF Includes

LEMMA Antisymmetry ==
  ASSUME NEW s \in States, NEW t \in States, Includes(s, t), Includes(t, s)
  PROVE  s = t
<1>1. PICK n \in DOMAIN Path[t] : Path[t][n] = s
  BY DEF Includes
<1>2. PICK m \in DOMAIN Path[s] : Path[s][m] = t
  BY DEF Includes
<1>3. Len(Path[s]) = Len(Path[t]) - n + 1 /\ Len(Path[t]) = Len(Path[s]) - m + 1
  BY <1>1, <1>2, RestOfPath
<1>4. /\ n \in 1 .. Len(Path[t]) /\ m \in 1 .. Len(Path[s])
      /\ Len(Path[s]) \in Nat /\ Len(Path[t]) \in Nat
  BY PathFacts
<1>5. ASSUME NEW a \in Nat, NEW b \in Nat, NEW i \in 1 .. b, NEW j \in 1 .. a,
             a = b - i + 1, b = a - j + 1
      PROVE  i = 1
  BY <1>5
<1>6. n = 1
  BY <1>3, <1>4, <1>5
<1> QED
  BY <1>1, <1>6, PathFacts

\* The states on a path that another state is not in come first.
LEMMA Prefix ==
  ASSUME NEW a \in States, NEW b \in States
  PROVE  LET Left == {n \in DOMAIN Path[a] : ~Includes(Path[a][n], b)}
         IN  Cardinality(Left) \in Nat /\ Left = 1 .. Cardinality(Left)
<1> DEFINE Left == {n \in DOMAIN Path[a] : ~Includes(Path[a][n], b)}
           c == Cardinality(Left)
<1>1. DOMAIN Path[a] = 1 .. Len(Path[a]) /\ Len(Path[a]) \in Nat
  BY PathFacts
<1>2. Left \subseteq 1 .. Len(Path[a])
  BY <1>1
<1>3. ASSUME NEW n \in DOMAIN Path[a], NEW m \in Left, n <= m PROVE n \in Left
  <2>1. SUFFICES ASSUME Includes(Path[a][n], b) PROVE FALSE
    OBVIOUS
  <2>2. m \in DOMAIN Path[a] /\ ~Includes(Path[a][m], b) /\ Path[a][m] \in States
    BY PathFacts
  <2>3. Includes(Path[a][m], Path[a][n])
    BY <1>3, <2>2, Line
  <2>4. PICK i \in DOMAIN Path[b] : Path[b][i] = Path[a][n]
    BY <2>1 DEF Includes
  <2>5. PICK j \in DOMAIN Path[Path[b][i]] : Path[Path[b][i]][j] = Path[a][m]
    BY <2>3, <2>4 DEF Includes
  <2>6. /\ Len(Path[Path[b][i]]) = Len(Path[b]) - i + 1
        /\ \A k \in 1 .. Len(Path[b]) - i + 1 : Path[Path[b][i]][k] = Path[b][i + k - 1]
    BY RestOfPath
  <2>7. /\ DOMAIN Path[b] = 1 .. Len(Path[b]) /\ Len(Path[b]) \in Nat /\ Path[b][i] \in States
    BY PathFacts
  <2>8. j \in 1 .. Len(Path[b]) - i + 1
    BY <2>6, <2>7, PathFacts
  <2>9. i + j - 1 \in DOMAIN Path[b] /\ Path[b][i + j - 1] = Path[a][m]
    BY <2>5, <2>6, <2>7, <2>8
  <2> QED
    BY <2>2, <2>9 DEF Includes
<1> HIDE DEF Left, c
<1>4. IsFiniteSet(Left) /\ c \in Nat
  <2>1. IsFiniteSet(1 .. Len(Path[a])) /\ Cardinality(1 .. Len(Path[a])) = Len(Path[a])
    BY <1>1, FS_Interval
  <2> QED
    BY <1>2, <2>1, FS_Subset, FS_CardinalityType DEF c
<1>5. ASSUME NEW n \in Left PROVE n <= c
  <2>1. n \in 1 .. Len(Path[a])
    BY <1>2
  <2>2. 1 .. n \subseteq Left
    BY <1>1, <1>3, <2>1
  <2>3. Cardinality(1 .. n) = n
    BY <2>1, FS_Interval
  <2> QED
    BY <1>4, <2>2, <2>3, FS_Subset DEF c
<1>6. ASSUME NEW n \in 1 .. Len(Path[a]), n \notin Left PROVE c < n
  <2>1. Left \subseteq 1 .. n - 1
    <3>1. ASSUME NEW m \in Left PROVE m < n
      BY <1>1, <1>2, <1>3, <1>6
    <3> QED
      BY <1>2, <3>1
  <2>2. IsFiniteSet(1 .. n - 1) /\ Cardinality(1 .. n - 1) = n - 1
    BY FS_Interval
  <2>3. c <= n - 1
    BY <2>1, <2>2, FS_Subset DEF c
  <2> QED
    BY <1>1, <1>4, <2>3
<1>7. c <= Len(Path[a])
  <2>1. IsFiniteSet(1 .. Len(Path[a])) /\ Cardinality(1 .. Len(Path[a])) = Len(Path[a])
    BY <1>1, FS_Interval
  <2> QED
    BY <1>2, <2>1, FS_Subset DEF c
<1>8. Left = 1 .. c
  <2>1. ASSUME NEW n \in Left PROVE n \in 1 .. c
    BY <1>1, <1>2, <1>4, <1>5
  <2>2. ASSUME NEW n \in 1 .. c PROVE n \in Left
    <3>1. n \in 1 .. Len(Path[a]) /\ ~(c < n)
      BY <1>1, <1>4, <1>7
    <3> QED
      BY <1>6, <3>1
  <2> QED
    BY <2>1, <2>2
<1> QED
  BY <1>4, <1>8 DEF Left, c

\* What a transition exits is a path, it enters only what the machine is not in,
\* and it enters where it leads unless the machine is in there.
LEMMA ExitsAndEntries ==
  ASSUME NEW s \in States, NEW t \in States
  PROVE  /\ Exits(s, t) \in Seq(States) /\ Entries(s, t) \in Seq(States)
         /\ ~Includes(t, s) => \E n \in DOMAIN Entries(s, t) : Entries(s, t)[n] = t
         /\ \A n \in DOMAIN Entries(s, t) : \E m \in DOMAIN Path[t] :
               Entries(s, t)[n] = Path[t][m] /\ ~Includes(Path[t][m], s)
<1> DEFINE Left(a, b) == {n \in DOMAIN Path[a] : ~Includes(Path[a][n], b)}
<1>1. ASSUME NEW a \in States, NEW b \in States
      PROVE  /\ Exits(a, b) \in Seq(States)
             /\ ~Includes(a, b) => Len(Exits(a, b)) >= 1 /\ Exits(a, b)[1] = a
             /\ \A n \in 1 .. Len(Exits(a, b)) :
                   n \in DOMAIN Path[a] /\ Exits(a, b)[n] = Path[a][n] /\ ~Includes(Path[a][n], b)
  <2>1. /\ Path[a] \in Seq(States) /\ Len(Path[a]) \in Nat /\ DOMAIN Path[a] = 1 .. Len(Path[a])
        /\ Path[a][1] = a /\ Len(Path[a]) >= 1
    BY PathFacts
  <2>2. IsFiniteSet(1 .. Len(Path[a])) /\ Cardinality(1 .. Len(Path[a])) = Len(Path[a])
    BY <2>1, FS_Interval
  <2>3. Left(a, b) \subseteq 1 .. Len(Path[a])
    BY <2>1
  <2>4. /\ IsFiniteSet(Left(a, b)) /\ Cardinality(Left(a, b)) \in Nat
        /\ Cardinality(Left(a, b)) <= Len(Path[a])
    BY <2>2, <2>3, FS_Subset, FS_CardinalityType
  <2>5. ~Includes(a, b) => Cardinality(Left(a, b)) >= 1
    <3>1. ~Includes(a, b) => Left(a, b) # {}
      BY <2>1
    <3> QED
      BY <2>4, <3>1, FS_EmptySet
  <2>6. Exits(a, b) = SubSeq(Path[a], 1, Cardinality(Left(a, b)))
    BY DEF Exits
  <2>7. \A n \in 1 .. Cardinality(Left(a, b)) : n \in DOMAIN Path[a] /\ ~Includes(Path[a][n], b)
    BY Prefix
  <2> HIDE DEF Left
  <2>8. Len(Exits(a, b)) = Cardinality(Left(a, b)) /\ Exits(a, b) \in Seq(States)
        /\ \A n \in 1 .. Cardinality(Left(a, b)) : Exits(a, b)[n] = Path[a][n]
    BY <2>1, <2>4, <2>6
  <2> QED
    BY <2>1, <2>4, <2>5, <2>7, <2>8
<1>2. Exits(t, s) \in Seq(States) /\ Len(Exits(t, s)) \in Nat
  BY <1>1
<1>3. /\ Entries(s, t) \in Seq(States) /\ DOMAIN Entries(s, t) = 1 .. Len(Exits(t, s))
      /\ \A n \in 1 .. Len(Exits(t, s)) : Entries(s, t)[n] = Exits(t, s)[Len(Exits(t, s)) - n + 1]
  BY <1>2 DEF Entries, Reverse
<1>4. ASSUME ~Includes(t, s)
      PROVE  \E n \in DOMAIN Entries(s, t) : Entries(s, t)[n] = t
  <2>1. Len(Exits(t, s)) \in DOMAIN Entries(s, t) /\ Entries(s, t)[Len(Exits(t, s))] = t
    <3>1. Len(Exits(t, s)) >= 1 /\ Exits(t, s)[1] = t
      BY <1>1, <1>4
    <3>2. Len(Exits(t, s)) \in 1 .. Len(Exits(t, s)) /\ Len(Exits(t, s)) - Len(Exits(t, s)) + 1 = 1
      BY <1>2, <3>1
    <3> HIDE DEF Left
    <3> QED
      BY <1>3, <3>1, <3>2
  <2> QED
    BY <2>1
<1>5. ASSUME NEW n \in DOMAIN Entries(s, t)
      PROVE  \E m \in DOMAIN Path[t] : Entries(s, t)[n] = Path[t][m] /\ ~Includes(Path[t][m], s)
  <2>1. PICK m \in 1 .. Len(Exits(t, s)) : Entries(s, t)[n] = Exits(t, s)[m]
    <3>1. n \in 1 .. Len(Exits(t, s)) /\ Entries(s, t)[n] = Exits(t, s)[Len(Exits(t, s)) - n + 1]
      BY <1>3
    <3>2. Len(Exits(t, s)) - n + 1 \in 1 .. Len(Exits(t, s))
      BY <1>2, <3>1
    <3> QED
      BY <3>1, <3>2
  <2> QED
    BY <1>1, <2>1
<1> QED
  BY <1>1, <1>3, <1>4, <1>5

-----------------------------------------------------------------------------
(* Steps of a transition.                                                    *)

LEMMA Doing ==
  ASSUME NEW kind \in {"exit", "arrive", "enter", "report", "settle"}, NEW S \in Seq(States)
  PROVE  /\ Do(kind, S) \in Seq(StepsToDo) /\ Len(Do(kind, S)) = Len(S)
         /\ \A n \in 1 .. Len(S) : Do(kind, S)[n] = [kind |-> kind, of |-> S[n]]
<1>1. DOMAIN S = 1 .. Len(S) /\ Len(S) \in Nat /\ \A n \in 1 .. Len(S) : S[n] \in States
  BY ElementOfSeq, LenProperties
<1>2. \A n \in 1 .. Len(S) : [kind |-> kind, of |-> S[n]] \in StepsToDo
  BY <1>1 DEF StepsToDo
<1> QED
  BY <1>1, <1>2 DEF Do

LEMMA DoingOne ==
  ASSUME NEW kind \in {"exit", "arrive", "enter", "report", "settle"}, NEW t \in States
  PROVE  /\ Do(kind, <<t>>) \in Seq(StepsToDo) /\ Len(Do(kind, <<t>>)) = 1
         /\ Do(kind, <<t>>)[1] = [kind |-> kind, of |-> t]
<1>1. <<t>> \in Seq(States) /\ Len(<<t>>) = 1 /\ <<t>>[1] = t
  OBVIOUS
<1>2. PICK S \in Seq(States) : S = <<t>>
  BY <1>1
<1>3. /\ Do(kind, S) \in Seq(StepsToDo) /\ Len(Do(kind, S)) = Len(S)
      /\ \A n \in 1 .. Len(S) : Do(kind, S)[n] = [kind |-> kind, of |-> S[n]]
  BY Doing
<1>4. Len(S) = 1 /\ S[1] = t
  BY <1>1, <1>2
<1>5. /\ Do(kind, S) \in Seq(StepsToDo) /\ Len(Do(kind, S)) = 1
      /\ Do(kind, S)[1] = [kind |-> kind, of |-> t]
  BY <1>3, <1>4
<1> QED
  BY <1>2, <1>5, Zenon

LEMMA Joined ==
  ASSUME NEW X \in Seq(StepsToDo), NEW Y \in Seq(StepsToDo), NEW Z \in Seq(StepsToDo)
  PROVE  /\ X \o Y \o Z \in Seq(StepsToDo) /\ Len(X \o Y \o Z) = Len(X) + Len(Y) + Len(Z)
         /\ \A n \in 1 .. Len(X) : (X \o Y \o Z)[n] = X[n]
         /\ \A n \in 1 .. Len(Y) : (X \o Y \o Z)[Len(X) + n] = Y[n]
         /\ \A n \in 1 .. Len(Z) : (X \o Y \o Z)[Len(X) + Len(Y) + n] = Z[n]
<1>1. Len(X) \in Nat /\ Len(Y) \in Nat /\ Len(Z) \in Nat
  BY LenProperties
<1>2. /\ X \o Y \in Seq(StepsToDo) /\ Len(X \o Y) = Len(X) + Len(Y)
      /\ \A n \in 1 .. Len(X) : (X \o Y)[n] = X[n]
      /\ \A n \in 1 .. Len(Y) : (X \o Y)[Len(X) + n] = Y[n]
  BY <1>1, ConcatProperties
<1>3. /\ X \o Y \o Z \in Seq(StepsToDo) /\ Len(X \o Y \o Z) = Len(X \o Y) + Len(Z)
      /\ \A n \in 1 .. Len(X \o Y) : (X \o Y \o Z)[n] = (X \o Y)[n]
      /\ \A n \in 1 .. Len(Z) : (X \o Y \o Z)[Len(X \o Y) + n] = Z[n]
  BY <1>1, <1>2, ConcatProperties
<1> QED
  BY <1>1, <1>2, <1>3

PermitPlan(E, t, N) == Do("exit", E) \o Do("arrive", <<t>>) \o Do("enter", N)
LEMMA PermitSteps ==
  ASSUME NEW E \in Seq(States), NEW t \in States, NEW N \in Seq(States)
  PROVE  /\ PermitPlan(E, t, N) \in Seq(StepsToDo)
         /\ Len(PermitPlan(E, t, N)) = Len(E) + 1 + Len(N)
         /\ \A n \in 1 .. Len(E) : PermitPlan(E, t, N)[n] = [kind |-> "exit", of |-> E[n]]
         /\ PermitPlan(E, t, N)[Len(E) + 1] = [kind |-> "arrive", of |-> t]
         /\ \A n \in 1 .. Len(N) :
               PermitPlan(E, t, N)[Len(E) + 1 + n] = [kind |-> "enter", of |-> N[n]]
<1>1. /\ Do("exit", E) \in Seq(StepsToDo) /\ Len(Do("exit", E)) = Len(E)
      /\ \A n \in 1 .. Len(E) : Do("exit", E)[n] = [kind |-> "exit", of |-> E[n]]
  BY Doing
<1>3. /\ Do("arrive", <<t>>) \in Seq(StepsToDo) /\ Len(Do("arrive", <<t>>)) = 1
      /\ Do("arrive", <<t>>)[1] = [kind |-> "arrive", of |-> t]
  BY DoingOne
<1>4. /\ Do("enter", N) \in Seq(StepsToDo) /\ Len(Do("enter", N)) = Len(N)
      /\ \A n \in 1 .. Len(N) : Do("enter", N)[n] = [kind |-> "enter", of |-> N[n]]
  BY Doing
<1>5. Len(E) \in Nat /\ Len(N) \in Nat
  BY LenProperties
<1> DEFINE X == Do("exit", E) Y == Do("arrive", <<t>>) Z == Do("enter", N)
<1>6. /\ X \o Y \o Z \in Seq(StepsToDo) /\ Len(X \o Y \o Z) = Len(X) + Len(Y) + Len(Z)
      /\ \A n \in 1 .. Len(X) : (X \o Y \o Z)[n] = X[n]
      /\ \A n \in 1 .. Len(Y) : (X \o Y \o Z)[Len(X) + n] = Y[n]
      /\ \A n \in 1 .. Len(Z) : (X \o Y \o Z)[Len(X) + Len(Y) + n] = Z[n]
  BY <1>1, <1>3, <1>4, Joined
<1> HIDE DEF X, Y, Z
<1>7. /\ X \o Y \o Z \in Seq(StepsToDo) /\ Len(X \o Y \o Z) = Len(E) + 1 + Len(N)
      /\ \A n \in 1 .. Len(E) : (X \o Y \o Z)[n] = [kind |-> "exit", of |-> E[n]]
      /\ (X \o Y \o Z)[Len(E) + 1] = [kind |-> "arrive", of |-> t]
      /\ \A n \in 1 .. Len(N) : (X \o Y \o Z)[Len(E) + 1 + n] = [kind |-> "enter", of |-> N[n]]
  <2>1. Len(X) = Len(E) /\ Len(Y) = 1 /\ Len(Z) = Len(N)
    BY <1>1, <1>3, <1>4 DEF X, Y, Z
  <2>2. /\ \A n \in 1 .. Len(E) : X[n] = [kind |-> "exit", of |-> E[n]]
        /\ Y[1] = [kind |-> "arrive", of |-> t]
        /\ \A n \in 1 .. Len(N) : Z[n] = [kind |-> "enter", of |-> N[n]]
    BY <1>1, <1>3, <1>4 DEF X, Y, Z
  <2> QED
    BY <1>5, <1>6, <2>1, <2>2
<1> QED
  <2>1. PermitPlan(E, t, N) = X \o Y \o Z
    BY DEF X, Y, Z, PermitPlan
  <2> QED
    BY <1>7, <2>1

ReentryPlan(E, t) ==
    Do("exit", Append(E, t)) \o Do("report", <<t>>) \o Do("enter", <<t>>) \o Do("settle", <<t>>)
LEMMA ReentrySteps ==
  ASSUME NEW E \in Seq(States), NEW t \in States
  PROVE  /\ ReentryPlan(E, t) \in Seq(StepsToDo) /\ Len(ReentryPlan(E, t)) = Len(E) + 4
         /\ \A n \in 1 .. Len(E) + 1 : ReentryPlan(E, t)[n].kind = "exit"
         /\ ReentryPlan(E, t)[Len(E) + 2] = [kind |-> "report", of |-> t]
         /\ ReentryPlan(E, t)[Len(E) + 3] = [kind |-> "enter", of |-> t]
         /\ ReentryPlan(E, t)[Len(E) + 4] = [kind |-> "settle", of |-> t]
<1>1. Append(E, t) \in Seq(States) /\ Len(Append(E, t)) = Len(E) + 1 /\ Len(E) \in Nat
  BY AppendProperties, LenProperties
<1> DEFINE W == Do("exit", Append(E, t)) X == Do("report", <<t>>)
           Y == Do("enter", <<t>>) Z == Do("settle", <<t>>)
<1>2. W \in Seq(StepsToDo) /\ Len(W) = Len(E) + 1 /\ \A n \in 1 .. Len(E) + 1 : W[n].kind = "exit"
  <2>1. PICK S \in Seq(States) : S = Append(E, t) /\ Len(S) = Len(E) + 1
    BY <1>1
  <2>2. /\ Do("exit", S) \in Seq(StepsToDo) /\ Len(Do("exit", S)) = Len(S)
        /\ \A n \in 1 .. Len(S) : Do("exit", S)[n] = [kind |-> "exit", of |-> S[n]]
    BY Doing
  <2>3. /\ Do("exit", S) \in Seq(StepsToDo) /\ Len(Do("exit", S)) = Len(E) + 1
        /\ \A n \in 1 .. Len(E) + 1 : Do("exit", S)[n].kind = "exit"
    <3>1. Len(S) = Len(E) + 1
      BY <2>1
    <3>2. ASSUME NEW n \in 1 .. Len(S) PROVE Do("exit", S)[n].kind = "exit"
      <4>1. Do("exit", S)[n] = [kind |-> "exit", of |-> S[n]]
        BY <2>2
      <4> QED
        BY <4>1
    <3> HIDE DEF W, X, Y, Z
    <3> QED
      BY <2>2, <3>1, <3>2
  <2> QED
    BY <2>1, <2>3, Zenon
<1>3. /\ X \in Seq(StepsToDo) /\ Len(X) = 1 /\ X[1] = [kind |-> "report", of |-> t]
      /\ Y \in Seq(StepsToDo) /\ Len(Y) = 1 /\ Y[1] = [kind |-> "enter", of |-> t]
      /\ Z \in Seq(StepsToDo) /\ Len(Z) = 1 /\ Z[1] = [kind |-> "settle", of |-> t]
  BY DoingOne
<1> HIDE DEF W, X, Y, Z
<1>4. /\ W \o X \o Y \in Seq(StepsToDo) /\ Len(W \o X \o Y) = Len(E) + 3
      /\ \A n \in 1 .. Len(E) + 1 : (W \o X \o Y)[n].kind = "exit"
      /\ (W \o X \o Y)[Len(E) + 2] = [kind |-> "report", of |-> t]
      /\ (W \o X \o Y)[Len(E) + 3] = [kind |-> "enter", of |-> t]
  <2>1. /\ W \o X \o Y \in Seq(StepsToDo) /\ Len(W \o X \o Y) = Len(W) + Len(X) + Len(Y)
        /\ \A n \in 1 .. Len(W) : (W \o X \o Y)[n] = W[n]
        /\ \A n \in 1 .. Len(X) : (W \o X \o Y)[Len(W) + n] = X[n]
        /\ \A n \in 1 .. Len(Y) : (W \o X \o Y)[Len(W) + Len(X) + n] = Y[n]
    BY <1>2, <1>3, Joined
  <2> QED
    BY <1>1, <1>2, <1>3, <2>1
<1>5. /\ W \o X \o Y \o Z \in Seq(StepsToDo) /\ Len(W \o X \o Y \o Z) = Len(E) + 4
      /\ \A n \in 1 .. Len(E) + 3 : (W \o X \o Y \o Z)[n] = (W \o X \o Y)[n]
      /\ (W \o X \o Y \o Z)[Len(E) + 4] = Z[1]
  <2>1. PICK V \in Seq(StepsToDo) : V = W \o X \o Y
    BY <1>4
  <2>2. /\ V \o Z \in Seq(StepsToDo) /\ Len(V \o Z) = Len(V) + Len(Z)
        /\ \A n \in 1 .. Len(V) + Len(Z) : (V \o Z)[n] = IF n <= Len(V) THEN V[n] ELSE Z[n - Len(V)]
    BY <1>3, ConcatProperties
  <2>3. Len(V) = Len(E) + 3 /\ Len(Z) = 1
    BY <1>3, <1>4, <2>1
  <2>4. /\ V \o Z \in Seq(StepsToDo) /\ Len(V \o Z) = Len(E) + 4
        /\ \A n \in 1 .. Len(E) + 3 : (V \o Z)[n] = V[n]
        /\ (V \o Z)[Len(E) + 4] = Z[1]
    BY <1>1, <2>2, <2>3
  <2> QED
    BY <2>1, <2>4, Zenon
<1>6. /\ W \o X \o Y \o Z \in Seq(StepsToDo) /\ Len(W \o X \o Y \o Z) = Len(E) + 4
      /\ \A n \in 1 .. Len(E) + 1 : (W \o X \o Y \o Z)[n].kind = "exit"
      /\ (W \o X \o Y \o Z)[Len(E) + 2] = [kind |-> "report", of |-> t]
      /\ (W \o X \o Y \o Z)[Len(E) + 3] = [kind |-> "enter", of |-> t]
      /\ (W \o X \o Y \o Z)[Len(E) + 4] = [kind |-> "settle", of |-> t]
  BY <1>1, <1>3, <1>4, <1>5
<1> QED
  <2>1. ReentryPlan(E, t) = W \o X \o Y \o Z
    BY DEF W, X, Y, Z, ReentryPlan
  <2> QED
    BY <1>6, <2>1

-----------------------------------------------------------------------------
(* What user code and the moves fire.                                        *)

Bursts == UNION {[1 .. n -> Triggers] : n \in 0 .. MaxNested}
MoveSeqs == {<<>>} \cup {<<Trigger(MoveToState, n)>> : n \in 0 .. MaxFires}

LEMMA BurstsAreSequences ==
  ASSUME NEW types \in Bursts
  PROVE  types \in Seq(Triggers)
<1>1. PICK n \in Nat : types \in [1 .. n -> Triggers]
  BY MachineAssumption DEF Bursts
<1> QED
  BY <1>1, SeqDef

\* The last trigger fired that is not a move is what is remembered.
LEMMA Remembering ==
  ASSUME NEW X \in Seq(Fireds), NEW c \in Nat, c <= Len(X),
         \A n \in 1 .. Len(X) : X[n].type = MoveToState <=> n > c,
         NEW before
  PROVE  Remember(before, X) = IF c = 0 THEN before ELSE X[c]
<1> DEFINE own == {n \in DOMAIN X : X[n].type # MoveToState}
<1>1. DOMAIN X = 1 .. Len(X) /\ Len(X) \in Nat
  BY LenProperties
<1>2. own = 1 .. c
  BY <1>1
<1>3. CASE c = 0
  BY <1>2, <1>3 DEF Remember
<1>4. CASE c # 0
  <2>1. c \in 1 .. c /\ \A n \in 1 .. c : c >= n
    BY <1>4
  <2>2. \A x \in 1 .. c : (\A y \in 1 .. c : x >= y) => x = c
    BY <2>1
  <2>3. Max(1 .. c) = c
    BY <2>1, <2>2 DEF Max
  <2> QED
    BY <1>2, <1>4, <2>1, <2>3 DEF Remember
<1> QED
  BY <1>3, <1>4

LEMMA Firing ==
  ASSUME TypeOK, NEW types \in Seq(Triggers), NEW moves \in MoveSeqs, Fire(types, moves)
  PROVE  /\ fires' = fires + Len(types) /\ fires' \in 0 .. MaxFires
         /\ queue' \in Seq(Fireds) /\ current' \in Fireds \cup {None}
         /\ \A n \in DOMAIN queue : n \in DOMAIN queue' /\ queue'[n] = queue[n]
         /\ types = <<>> => queue' = queue \o moves /\ current' = current
         /\ moves # <<>> => \E n \in DOMAIN queue' : queue'[n].type = MoveToState
         /\ Len(types) = 1 =>
              /\ queue' = queue \o (<<Trigger(types[1], fires + 1)>> \o moves)
              /\ current' = Trigger(types[1], fires + 1)
<1> DEFINE X == [n \in DOMAIN types |-> Trigger(types[n], fires + n)]
           F == X \o moves
<1>1. /\ types \in Seq(Triggers) /\ Len(types) \in Nat /\ DOMAIN types = 1 .. Len(types)
      /\ \A n \in 1 .. Len(types) : types[n] \in Triggers
  BY LenProperties, ElementOfSeq
<1>2. /\ fires' = fires + Len(types) /\ fires' \in 0 .. MaxFires
      /\ queue' = queue \o F /\ current' = Remember(current, F)
  BY <1>1, MachineAssumption DEF Fire, TypeOK
<1>3. X \in Seq(Fireds) /\ Len(X) = Len(types) /\ \A n \in 1 .. Len(types) : X[n] = Trigger(types[n], fires + n)
  <2>1. \A n \in 1 .. Len(types) : Trigger(types[n], fires + n) \in Fireds
    BY <1>1, <1>2, MachineAssumption DEF TypeOK, Trigger, Fireds
  <2> QED
    BY <1>1, <2>1
<1>4. moves \in Seq(Fireds) /\ Len(moves) \in {0, 1} /\ (Len(moves) = 0 <=> moves = <<>>)
      /\ \A n \in 1 .. Len(moves) : moves[n].type = MoveToState
  <2>1. CASE moves = <<>>
    BY <2>1
  <2>2. ASSUME NEW n \in 0 .. MaxFires, moves = <<Trigger(MoveToState, n)>> PROVE <1>4!:
    <3>1. Trigger(MoveToState, n) \in Fireds /\ Trigger(MoveToState, n).type = MoveToState
      BY DEF Trigger, Fireds
    <3> QED
      BY <2>2, <3>1
  <2> QED
    BY <2>1, <2>2 DEF MoveSeqs
<1> HIDE DEF X
<1>5. /\ F \in Seq(Fireds) /\ Len(F) = Len(types) + Len(moves)
      /\ \A n \in 1 .. Len(types) : F[n] = X[n]
      /\ \A n \in 1 .. Len(moves) : F[Len(types) + n] = moves[n]
  BY <1>1, <1>3, <1>4, ConcatProperties
<1> HIDE DEF F
<1>6. \A n \in 1 .. Len(F) : F[n].type = MoveToState <=> n > Len(types)
  <2>1. \A n \in 1 .. Len(types) : F[n].type # MoveToState
    <3>1. \A n \in 1 .. Len(types) : F[n] = Trigger(types[n], fires + n)
      BY <1>3, <1>5
    <3>2. ASSUME NEW n \in 1 .. Len(types) PROVE F[n].type = types[n]
      <4>1. F[n] = Trigger(types[n], fires + n)
        BY <3>1
      <4> QED
        BY <4>1 DEF Trigger
    <3> QED
      BY <1>1, <3>2, MachineAssumption
  <2>2. \A n \in 1 .. Len(F) : n > Len(types) => F[n].type = MoveToState
    <3>1. ASSUME NEW n \in 1 .. Len(F), n > Len(types) PROVE F[n].type = MoveToState
      <4>1. n - Len(types) \in 1 .. Len(moves) /\ n = Len(types) + (n - Len(types))
        BY <1>1, <1>4, <1>5, <3>1
      <4> QED
        BY <1>4, <1>5, <4>1
    <3> QED
      BY <3>1
  <2> QED
    BY <1>1, <1>4, <1>5, <2>1, <2>2
<1>7. Remember(current, F) = IF Len(types) = 0 THEN current ELSE F[Len(types)]
  BY <1>1, <1>4, <1>5, <1>6, Remembering
<1>8. current' \in Fireds \cup {None}
  BY <1>1, <1>2, <1>5, <1>7 DEF TypeOK
<1>9. /\ queue \in Seq(Fireds) /\ Len(queue) \in Nat /\ DOMAIN queue = 1 .. Len(queue)
      /\ queue' \in Seq(Fireds) /\ Len(queue') = Len(queue) + Len(F)
      /\ DOMAIN queue' = 1 .. Len(queue) + Len(F)
      /\ \A n \in 1 .. Len(queue) : queue'[n] = queue[n]
      /\ \A n \in 1 .. Len(F) : queue'[Len(queue) + n] = F[n]
  <2>1. queue \in Seq(Fireds) /\ Len(queue) \in Nat /\ DOMAIN queue = 1 .. Len(queue)
    BY LenProperties DEF TypeOK
  <2>2. /\ queue \o F \in Seq(Fireds) /\ Len(queue \o F) = Len(queue) + Len(F)
        /\ \A n \in 1 .. Len(queue) + Len(F) :
              (queue \o F)[n] = IF n <= Len(queue) THEN queue[n] ELSE F[n - Len(queue)]
    <3>1. queue \in Seq(Fireds) /\ F \in Seq(Fireds)
      BY <1>5, <2>1
    <3> QED
      BY <3>1, ConcatProperties
  <2>3. Len(F) \in Nat
    BY <1>5, LenProperties
  <2>4. /\ \A n \in 1 .. Len(queue) : (queue \o F)[n] = queue[n]
        /\ \A n \in 1 .. Len(F) : (queue \o F)[Len(queue) + n] = F[n]
        /\ DOMAIN (queue \o F) = 1 .. Len(queue) + Len(F)
    BY <2>1, <2>2, <2>3, LenProperties
  <2> QED
    BY <1>2, <2>1, <2>2, <2>4
<1>10. \A n \in DOMAIN queue : n \in DOMAIN queue' /\ queue'[n] = queue[n]
  BY <1>1, <1>4, <1>5, <1>9
<1>11. ASSUME moves # <<>> PROVE \E n \in DOMAIN queue' : queue'[n].type = MoveToState
  <2>1. Len(F) = Len(types) + 1 /\ Len(F) \in 1 .. Len(F) /\ Len(F) > Len(types)
    BY <1>1, <1>4, <1>5, <1>11
  <2>2. F[Len(F)].type = MoveToState
    BY <1>6, <2>1
  <2>3. Len(queue) + Len(F) \in DOMAIN queue' /\ queue'[Len(queue) + Len(F)] = F[Len(F)]
    BY <1>9, <2>1
  <2> QED
    BY <2>2, <2>3
<1>12. types = <<>> => queue' = queue \o moves /\ current' = current
  <2>1. SUFFICES ASSUME types = <<>> PROVE F = moves /\ Len(types) = 0
    BY <1>2, <1>7
  <2>2. Len(types) = 0
    BY <2>1
  <2> QED
    BY <1>4, <1>5, <2>2, SeqEqual
<1>13. Len(types) = 1 => /\ queue' = queue \o (<<Trigger(types[1], fires + 1)>> \o moves)
                         /\ current' = Trigger(types[1], fires + 1)
  <2>1. SUFFICES ASSUME Len(types) = 1
                 PROVE  X = <<Trigger(types[1], fires + 1)>> /\ F[1] = Trigger(types[1], fires + 1)
    <3>1. X = <<Trigger(types[1], fires + 1)>> => F = <<Trigger(types[1], fires + 1)>> \o moves
      BY DEF F
    <3>2. Len(types) = 1 /\ F[1] = Trigger(types[1], fires + 1) => current' = Trigger(types[1], fires + 1)
      BY <1>2, <1>7
    <3> QED
      BY <1>2, <2>1, <3>1, <3>2
  <2>2. <<Trigger(types[1], fires + 1)>> \in Seq(Fireds)
    <3>1. 1 \in 1 .. Len(X) /\ X[1] = Trigger(types[1], fires + 1)
      BY <1>3, <2>1
    <3>2. Trigger(types[1], fires + 1) \in Fireds
      BY <1>3, <3>1, ElementOfSeq
    <3> QED
      BY <3>2
  <2> QED
    BY <1>3, <1>5, <2>1, <2>2, SeqEqual
<1> QED
  BY <1>2, <1>8, <1>9, <1>10, <1>11, <1>12, <1>13

\* The same for a piece of user code; one that fires nothing changes nothing but
\* what it moves.
LEMMA RunningUserCode ==
  ASSUME TypeOK, NEW moves \in MoveSeqs, UserCode(moves)
  PROVE  /\ fires' \in 0 .. MaxFires /\ nested' \in BOOLEAN
         /\ queue' \in Seq(Fireds) /\ current' \in Fireds \cup {None}
         /\ \A n \in DOMAIN queue : n \in DOMAIN queue' /\ queue'[n] = queue[n]
         /\ ~nested' => ~nested /\ fires' = fires /\ queue' = queue \o moves /\ current' = current
         /\ moves # <<>> => \E n \in DOMAIN queue' : queue'[n].type = MoveToState
<1>1. PICK types \in Seq(Triggers) : Fire(types, moves) /\ nested' = (nested \/ types # <<>>)
  BY BurstsAreSequences DEF UserCode, Bursts
<1>2. types = <<>> => fires' = fires
  <2>1. types = <<>> => Len(types) = 0
    OBVIOUS
  <2> QED
    <3>1. fires' = fires + Len(types) /\ fires \in Nat
      <4>1. fires' = fires + Len(types)
        BY <1>1, Firing
      <4>2. MaxFires \in Nat
        BY MachineAssumption
      <4> QED
        BY <4>1, <4>2 DEF TypeOK
    <3> QED
      BY <2>1, <3>1
<1>3. nested' \in BOOLEAN
  BY <1>1 DEF TypeOK
<1>4. /\ fires' \in 0 .. MaxFires
      /\ queue' \in Seq(Fireds) /\ current' \in Fireds \cup {None}
      /\ \A n \in DOMAIN queue : n \in DOMAIN queue' /\ queue'[n] = queue[n]
      /\ types = <<>> => queue' = queue \o moves /\ current' = current
      /\ moves # <<>> => \E n \in DOMAIN queue' : queue'[n].type = MoveToState
  BY <1>1, Firing
<1>5. ~nested' => ~nested /\ types = <<>>
  BY <1>1
<1> QED
  BY <1>2, <1>3, <1>4, <1>5

LEMMA NoMoves ==
  ASSUME TypeOK, UserCode(<<>>)
  PROVE  /\ fires' \in 0 .. MaxFires /\ nested' \in BOOLEAN
         /\ queue' \in Seq(Fireds) /\ current' \in Fireds \cup {None}
         /\ \A n \in DOMAIN queue : n \in DOMAIN queue' /\ queue'[n] = queue[n]
         /\ ~nested' => ~nested /\ fires' = fires /\ queue' = queue /\ current' = current
<1>1. <<>> \in MoveSeqs
  BY DEF MoveSeqs
<1>2. queue \o <<>> = queue
  BY ConcatEmptySeq DEF TypeOK
<1> QED
  BY <1>1, <1>2, RunningUserCode

-----------------------------------------------------------------------------
(* Transitions.                                                              *)

LEMMA HandlerFacts ==
  ASSUME NEW h \in Handlers
  PROVE  /\ h.on \in States /\ h.to \in States /\ h.kind \in Kinds
         /\ h.kind = "permit" => h.to # h.on
         /\ h.kind # "permit" => h.to = h.on
         /\ h.trigger = MoveToState =>
               h.kind = "permit" /\ First[h.on] # None /\ h.to = First[h.on] /\ ~h.guarded
         /\ h.trigger # MoveToState => h \in Declared
<1>1. CASE h \in Declared
  BY <1>1, MachineAssumption DEF Transitions
<1>2. CASE h \in Moves
  <2>1. PICK s \in States :
           /\ First[s] # None
           /\ h = [on |-> s, trigger |-> MoveToState, kind |-> "permit", to |-> First[s], guarded |-> FALSE]
    BY <1>2 DEF Moves
  <2>2. First[s] \in States /\ First[s] # s
    BY <2>1, MachineAssumption
  <2> QED
    BY <2>1, <2>2 DEF Kinds
<1> QED
  BY <1>1, <1>2 DEF Handlers

\* The plan of a transition has its shape, ends where the handler leads, and
\* enters that state unless the machine is in it, and others only on the way in.
LEMMA Planning ==
  ASSUME TypeOK, NEW h \in Handlers, todo' = Steps(h)
  PROVE  /\ todo' \in Seq(StepsToDo) /\ Shape' /\ ~Settling'
         /\ h.kind = "reentry" \/ (h.kind = "permit" /\ h.to # state) =>
              /\ \A s \in States : Ends(s)' => s = h.to
              /\ h.kind = "reentry" \/ ~Includes(h.to, state) =>
                   \E n \in DOMAIN todo' : todo'[n].kind = "enter" /\ todo'[n].of = h.to
              /\ Ends(h.to)'
              /\ \A n \in DOMAIN todo' : todo'[n].kind = "enter" =>
                    \/ todo'[n].of = h.to
                    \/ h.kind = "permit" /\ \E m \in DOMAIN Path[h.to] :
                          todo'[n].of = Path[h.to][m] /\ ~Includes(Path[h.to][m], state)
         /\ h.kind = "ignore" \/ (h.kind = "permit" /\ h.to = state) => todo' = <<>>
<1>1. h.on \in States /\ h.to \in States /\ h.kind \in {"permit", "reentry", "ignore"} /\ state \in States
  BY HandlerFacts DEF Kinds, TypeOK
<1>2. CASE h.kind = "permit" /\ h.to # state
  <2> DEFINE E == Exits(state, h.to) N == Entries(state, h.to)
  <2>1. /\ E \in Seq(States) /\ N \in Seq(States)
        /\ ~Includes(h.to, state) => \E n \in DOMAIN N : N[n] = h.to
        /\ \A n \in DOMAIN N : \E m \in DOMAIN Path[h.to] :
              N[n] = Path[h.to][m] /\ ~Includes(Path[h.to][m], state)
    BY <1>1, ExitsAndEntries
  <2>2. Len(E) \in Nat /\ Len(N) \in Nat /\ DOMAIN N = 1 .. Len(N)
    BY <2>1, LenProperties
  <2>3. todo' = PermitPlan(E, h.to, N)
    BY <1>2 DEF Steps, PermitPlan
  <2> HIDE DEF E, N
  <2>4. /\ todo' \in Seq(StepsToDo) /\ Len(todo') = Len(E) + 1 + Len(N)
        /\ \A n \in 1 .. Len(E) : todo'[n] = [kind |-> "exit", of |-> E[n]]
        /\ todo'[Len(E) + 1] = [kind |-> "arrive", of |-> h.to]
        /\ \A n \in 1 .. Len(N) : todo'[Len(E) + 1 + n] = [kind |-> "enter", of |-> N[n]]
    <3>1. h.to \in States /\ E \in Seq(States) /\ N \in Seq(States)
      BY <1>1, <2>1
    <3> QED
      BY <2>3, <3>1, PermitSteps
  <2>5. DOMAIN todo' = 1 .. Len(todo')
    BY <2>4, LenProperties
  <2>6. \A n \in DOMAIN todo' :
           IF n = Len(E) + 1 THEN todo'[n].kind = "arrive" /\ todo'[n].of = h.to
           ELSE \/ todo'[n].kind = "exit"
                \/ todo'[n].kind = "enter" /\ \E m \in DOMAIN N : todo'[n].of = N[m]
    <3>1. SUFFICES ASSUME NEW n \in DOMAIN todo', n # Len(E) + 1
                   PROVE  \/ todo'[n].kind = "exit"
                          \/ todo'[n].kind = "enter" /\ \E m \in DOMAIN N : todo'[n].of = N[m]
      BY <2>4
    <3>2. CASE n <= Len(E)
      <4>1. n \in 1 .. Len(E)
        BY <2>2, <2>4, <2>5, <3>2
      <4>2. todo'[n] = [kind |-> "exit", of |-> E[n]]
        BY <2>4, <4>1
      <4> QED
        BY <4>2
    <3>3. CASE n > Len(E)
      <4>1. PICK m \in 1 .. Len(N) : n = Len(E) + 1 + m
        <5>1. n - Len(E) - 1 \in 1 .. Len(N) /\ n = Len(E) + 1 + (n - Len(E) - 1)
          <6>1. n \in 1 .. Len(E) + 1 + Len(N)
            BY <2>4, <2>5
          <6> QED
            BY <2>2, <3>1, <3>3, <6>1
        <5> QED
          BY <5>1
      <4>2. todo'[n] = [kind |-> "enter", of |-> N[m]]
        BY <2>4, <4>1
      <4> QED
        BY <2>2, <4>2
    <3> QED
      BY <2>2, <2>4, <2>5, <3>2, <3>3
  <2>7. Shape' /\ ~Settling' /\ Ends(h.to)' /\ \A s \in States : Ends(s)' => s = h.to
    <3>1. Len(E) + 1 \in DOMAIN todo' /\ Len(todo') \in DOMAIN todo' /\ todo' # <<>>
      BY <2>2, <2>4, <2>5
    <3> QED
      BY <2>6, <3>1 DEF Shape, Settling, Ends
  <2>8. ASSUME ~Includes(h.to, state)
        PROVE  \E n \in DOMAIN todo' : todo'[n].kind = "enter" /\ todo'[n].of = h.to
    <3>1. PICK n \in 1 .. Len(N) : N[n] = h.to
      BY <2>1, <2>2, <2>8
    <3>2. Len(E) + 1 + n \in DOMAIN todo' /\ todo'[Len(E) + 1 + n] = [kind |-> "enter", of |-> h.to]
      BY <2>2, <2>4, <2>5, <3>1
    <3> QED
      BY <3>2
  <2>9. \A n \in DOMAIN todo' : todo'[n].kind = "enter" =>
           \E m \in DOMAIN Path[h.to] :
              todo'[n].of = Path[h.to][m] /\ ~Includes(Path[h.to][m], state)
    BY <2>1, <2>6
  <2> QED
    BY <1>2, <2>4, <2>7, <2>8, <2>9
<1>3. CASE h.kind = "reentry"
  <2> DEFINE E == Exits(state, h.to)
  <2>1. E \in Seq(States)
    BY <1>1, ExitsAndEntries
  <2>2. Len(E) \in Nat
    BY <2>1, LenProperties
  <2>3. todo' = ReentryPlan(E, h.to)
    BY <1>3 DEF Steps, ReentryPlan
  <2> HIDE DEF E
  <2>4. /\ todo' \in Seq(StepsToDo) /\ Len(todo') = Len(E) + 4
        /\ \A n \in 1 .. Len(E) + 1 : todo'[n].kind = "exit"
        /\ todo'[Len(E) + 2] = [kind |-> "report", of |-> h.to]
        /\ todo'[Len(E) + 3] = [kind |-> "enter", of |-> h.to]
        /\ todo'[Len(E) + 4] = [kind |-> "settle", of |-> h.to]
    <3>1. h.to \in States /\ E \in Seq(States)
      BY <1>1, <2>1
    <3> QED
      BY <2>3, <3>1, ReentrySteps
  <2>5. /\ DOMAIN todo' = 1 .. Len(E) + 4
        /\ Len(E) + 2 \in DOMAIN todo' /\ Len(E) + 3 \in DOMAIN todo' /\ Len(E) + 4 \in DOMAIN todo'
    BY <2>2, <2>4, LenProperties
  <2>6. \A n \in DOMAIN todo' : n \in 1 .. Len(E) + 1 \/ n \in {Len(E) + 2, Len(E) + 3, Len(E) + 4}
    BY <2>2, <2>5
  <2>7. /\ todo'[Len(E) + 2].kind = "report" /\ todo'[Len(E) + 2].of = h.to
        /\ todo'[Len(E) + 3].kind = "enter" /\ todo'[Len(E) + 3].of = h.to
        /\ todo'[Len(E) + 4].kind = "settle" /\ todo'[Len(E) + 4].of = h.to
    BY <2>4
  <2>8. Shape'
    BY <2>2, <2>4, <2>6, <2>7 DEF Shape
  <2>9. ~Settling' /\ Ends(h.to)' /\ \A s \in States : Ends(s)' => s = h.to
    BY <2>4, <2>5, <2>6, <2>7 DEF Settling, Ends
  <2>10. \A n \in DOMAIN todo' : todo'[n].kind = "enter" => todo'[n].of = h.to
    BY <2>4, <2>6, <2>7
  <2> QED
    BY <1>3, <2>4, <2>5, <2>7, <2>8, <2>9, <2>10
<1>4. CASE h.kind = "ignore" \/ (h.kind = "permit" /\ h.to = state)
  <2>1. todo' = <<>>
    BY <1>4 DEF Steps
  <2> QED
    BY <1>4, <2>1 DEF Shape, Settling
<1> QED
  BY <1>1, <1>2, <1>3, <1>4

\* A move is not passed on by a state that has a first substate.
LEMMA MovesAreHandled ==
  ASSUME TypeOK, PassOn, handling.type = MoveToState
  PROVE  First[level] = None
<1>1. level \in States /\ {} \in Verdicts
  BY DEF PassOn, TypeOK
<1>2. SUFFICES ASSUME First[level] # None PROVE FALSE
  OBVIOUS
<1> DEFINE h == [on |-> level, trigger |-> MoveToState, kind |-> "permit", to |-> First[level],
                 guarded |-> FALSE]
<1>3. h \in Moves
  BY <1>1, <1>2 DEF Moves
<1>4. h \in Candidates /\ ~h.guarded
  BY <1>3 DEF Candidates, Handlers
<1> HIDE DEF h
<1> QED
  BY <1>1, <1>4 DEF Verdicts

\* A step of the plan taken leaves the rest of it.
LEMMA Proceeding ==
  ASSUME TypeOK, Shape, NEW kind, Proceed(kind)
  PROVE  /\ todo # <<>> /\ Head(todo) = todo[1] /\ todo[1] \in StepsToDo /\ todo[1].kind = kind
         /\ level = None /\ firing /\ handling # None
         /\ todo' \in Seq(StepsToDo) /\ Len(todo') = Len(todo) - 1 /\ Len(todo) \in Nat
         /\ DOMAIN todo = 1 .. Len(todo) /\ DOMAIN todo' = 1 .. Len(todo) - 1
         /\ \A n \in DOMAIN todo' : n + 1 \in DOMAIN todo /\ todo'[n] = todo[n + 1]
         /\ Shape'
<1>1. todo \in Seq(StepsToDo) /\ todo # <<>> /\ Head(todo).kind = kind /\ todo' = Tail(todo)
  BY DEF TypeOK, Proceed, Next1
<1>2. /\ Head(todo) = todo[1] /\ Head(todo) \in StepsToDo
      /\ todo' \in Seq(StepsToDo) /\ Len(todo') = Len(todo) - 1 /\ Len(todo) \in Nat /\ Len(todo) # 0
      /\ DOMAIN todo = 1 .. Len(todo)
      /\ \A n \in 1 .. Len(todo) - 1 : todo'[n] = todo[n + 1]
  BY <1>1, HeadTailProperties, EmptySeq, LenProperties
<1>3. DOMAIN todo' = 1 .. Len(todo) - 1
  BY <1>2, LenProperties
<1>4. \A n \in DOMAIN todo' : n + 1 \in DOMAIN todo /\ todo'[n] = todo[n + 1]
  BY <1>2, <1>3
<1>5. Shape'
  <2>1. ASSUME NEW n \in DOMAIN todo', todo'[n].kind = "report"
        PROVE  n < Len(todo') /\ todo'[Len(todo')] = todo[Len(todo)]
    <3>1. n + 1 < Len(todo)
      BY <1>4, <2>1 DEF Shape
    <3>2. Len(todo') \in DOMAIN todo' /\ n < Len(todo')
      BY <1>2, <1>3, <3>1
    <3> QED
      BY <1>2, <1>4, <3>2
  <2>2. \A m, n \in DOMAIN todo' : m + 1 = n + 1 => m = n
    BY <1>3
  <2>3. \A n \in DOMAIN todo' : n + 1 = Len(todo) => n = Len(todo')
    BY <1>2, <1>3
  <2> QED
    BY <1>4, <2>1, <2>2, <2>3 DEF Shape
<1> QED
  BY <1>1, <1>2, <1>3, <1>4, <1>5 DEF TypeOK

-----------------------------------------------------------------------------
(* Every step keeps the invariant.                                           *)

LEMMA InitIInv == Init => IInv
<1> SUFFICES ASSUME Init PROVE IInv
  OBVIOUS
<1>1. InitialState \in States /\ 0 \in 0 .. MaxFires /\ 0 \in 0 .. MaxFaults
  BY MachineAssumption
<1>2. todo = <<>> /\ queue = <<>> /\ level = None /\ firing = FALSE /\ handling = None
  BY DEF Init
<1>3. queue \in Seq(Fireds) /\ todo \in Seq(StepsToDo) /\ DOMAIN todo = {}
  BY <1>2
<1>4. TypeOK
  BY <1>1, <1>2, <1>3 DEF Init, TypeOK
<1>5. Quiet /\ Single /\ Climbing
  BY <1>2 DEF Quiet, Single, Climbing
<1>6. Shape /\ Reported
  BY <1>2, <1>3 DEF Init, Shape, Reported, Settling
<1> QED
  BY <1>4, <1>5, <1>6 DEF IInv

LEMMA AtCommand == ASSUME IInv, NEW type \in Triggers, Command(type) PROVE IInv'
<1> USE DEF IInv
<1>1. /\ ~firing /\ firing' /\ firing' \in BOOLEAN /\ level = None /\ todo = <<>> /\ handling = None
      /\ faults = 0 => queue = <<>>
      /\ UNCHANGED <<reported, state, handling, level, todo, nested, faults, reached>>
  BY DEF Command, TypeOK, Quiet, search, history
<1>2. /\ <<type>> \in Seq(Triggers) /\ Len(<<type>>) = 1 /\ <<type>>[1] = type
      /\ <<>> \in MoveSeqs /\ Fire(<<type>>, <<>>)
  BY DEF Command, MoveSeqs
<1> DEFINE T == Trigger(type, fires + 1)
<1>3. /\ fires' = fires + 1 /\ fires' \in 0 .. MaxFires
      /\ queue' \in Seq(Fireds) /\ queue' = queue \o (<<T>> \o <<>>) /\ current' = T
      /\ current' \in Fireds \cup {None}
  <2>1. PICK types \in Seq(Triggers) : types = <<type>> /\ Len(types) = 1 /\ types[1] = type
    BY <1>2
  <2>2. Fire(types, <<>>)
    BY <1>2, <2>1
  <2> HIDE DEF IInv
  <2>3. /\ fires' = fires + Len(types) /\ fires' \in 0 .. MaxFires
        /\ queue' \in Seq(Fireds)
        /\ queue' = queue \o (<<Trigger(types[1], fires + 1)>> \o <<>>)
        /\ current' = Trigger(types[1], fires + 1)
        /\ current' \in Fireds \cup {None}
    BY <1>2, <2>1, <2>2, Firing DEF IInv
  <2> QED
    BY <2>1, <2>3
<1>4. T \in Fireds /\ T # None /\ T.type # MoveToState /\ T.id = fires'
  <2>1. T \in Fireds
    BY <1>3, MachineAssumption DEF TypeOK, Trigger, Fireds
  <2>2. T.type = type /\ type # MoveToState
    BY MachineAssumption DEF Trigger
  <2> QED
    BY <1>3, <2>1, <2>2, MachineAssumption DEF Trigger
<1>5. faults = 0 => \A n \in DOMAIN queue' : queue'[n] = T
  <2>1. <<T>> \in Seq(Fireds) /\ <<>> \o (<<T>> \o <<>>) = <<T>>
    BY <1>4
  <2> HIDE DEF T
  <2> QED
    BY <1>1, <1>3, <2>1
<1>6. TypeOK'
  BY <1>1, <1>3 DEF TypeOK
<1>7. Quiet' /\ Single'
  BY <1>1, <1>3, <1>4, <1>5 DEF Quiet, Single
<1>8. Shape' /\ Reported' /\ Climbing'
  BY <1>1 DEF Shape, Reported, Settling, Climbing
<1> QED
  BY <1>6, <1>7, <1>8

LEMMA AtDequeue == ASSUME IInv, Dequeue PROVE IInv'
<1> USE DEF IInv
<1>1. /\ firing /\ queue # <<>> /\ todo = <<>> /\ handling' = Head(queue) /\ queue' = Tail(queue)
      /\ level' = state
      /\ UNCHANGED <<reported, current, state, firing, todo, fires, nested, faults, reached>>
  BY DEF Dequeue, history
<1>2. /\ queue \in Seq(Fireds) /\ Head(queue) \in Fireds /\ Tail(queue) \in Seq(Fireds)
      /\ Head(queue) = queue[1] /\ DOMAIN queue = 1 .. Len(queue) /\ Len(queue) \in Nat
      /\ 1 \in DOMAIN queue
      /\ \A n \in DOMAIN Tail(queue) : n + 1 \in DOMAIN queue /\ Tail(queue)[n] = queue[n + 1]
  <2>1. queue \in Seq(Fireds) /\ queue # <<>>
    BY <1>1 DEF TypeOK
  <2>2. Len(queue) \in Nat /\ Len(queue) # 0 /\ DOMAIN queue = 1 .. Len(queue)
    BY <2>1, EmptySeq, LenProperties
  <2>3. /\ Tail(queue) \in Seq(Fireds) /\ Len(Tail(queue)) = Len(queue) - 1
        /\ \A n \in 1 .. Len(Tail(queue)) : Tail(queue)[n] = queue[n + 1]
    BY <2>1, HeadTailProperties
  <2>4. DOMAIN Tail(queue) = 1 .. Len(queue) - 1
    BY <2>3, LenProperties
  <2> QED
    BY <2>1, <2>2, <2>3, <2>4
<1>3. TypeOK'
  <2>1. handling' # None
    BY <1>1, <1>2, MachineAssumption
  <2> QED
    BY <1>1, <1>2, <2>1 DEF TypeOK
<1>4. Quiet' /\ Single'
  BY <1>1, <1>2 DEF Quiet, Single
<1>5. Shape' /\ Reported'
  BY <1>1 DEF Shape, Reported, Settling
<1>6. Climbing'
  <2>1. 1 \in DOMAIN Path[state] /\ Path[state][1] = state
    BY PathFacts DEF TypeOK
  <2> QED
    BY <1>1, <2>1 DEF Climbing
<1> QED
  BY <1>3, <1>4, <1>5, <1>6

LEMMA AtFinish == ASSUME IInv, FinishFiring PROVE IInv'
<1>1. /\ level = None /\ todo = <<>> /\ queue = <<>> /\ firing' = FALSE /\ handling' = None
      /\ UNCHANGED <<reported, current, state, queue, level, todo, fires, nested, faults, reached>>
  BY DEF FinishFiring, history
<1>2. TypeOK'
  BY <1>1 DEF IInv, TypeOK
<1> QED
  BY <1>1, <1>2 DEF IInv, Quiet, Single, Shape, Reported, Settling, Climbing

LEMMA AtFailure == ASSUME IInv, Fail PROVE IInv'
<1> USE DEF IInv
<1>1. /\ faults < MaxFaults /\ faults' = faults + 1 /\ firing' = FALSE /\ handling' = None
      /\ level' = None /\ todo' = <<>> /\ UNCHANGED <<reported, state, reached>>
      /\ UserCode(<<>>)
  BY DEF Fail
<1>2. faults' \in 0 .. MaxFaults /\ faults' # 0
  BY <1>1, MachineAssumption DEF TypeOK
<1>3. todo' \in Seq(StepsToDo) /\ DOMAIN todo' = {}
  BY <1>1
<1>4. TypeOK'
  BY <1>1, <1>2, <1>3, NoMoves DEF TypeOK
<1> QED
  BY <1>1, <1>2, <1>3, <1>4 DEF Quiet, Single, Shape, Reported, Climbing

LEMMA AtFollow == ASSUME IInv, Follow PROVE IInv'
<1> USE DEF IInv
<1>1. PICK h \in Candidates :
         /\ todo' = Steps(h)
         /\ reached' = IF h.kind = "ignore" \/ h.trigger = MoveToState THEN reached ELSE h.to
  BY DEF Follow
<1>2. /\ level # None /\ level' = None /\ UserCode(<<>>)
      /\ UNCHANGED <<reported, state, firing, handling, faults>>
  BY DEF Follow
<1>3. /\ h \in Handlers /\ h.to \in States /\ todo' \in Seq(StepsToDo) /\ Shape' /\ ~Settling'
  BY <1>1, HandlerFacts, Planning DEF Candidates
<1>4. todo = <<>> /\ firing /\ handling # None
  BY <1>2 DEF TypeOK
<1>5. TypeOK'
  BY <1>1, <1>2, <1>3, <1>4, NoMoves DEF TypeOK
<1>6. Quiet' /\ Single'
  BY <1>2, <1>4, NoMoves DEF Quiet, Single
<1>7. Reported' /\ Climbing'
  BY <1>2, <1>3, <1>4 DEF Reported, Settling, Climbing
<1> QED
  BY <1>3, <1>5, <1>6, <1>7

LEMMA AtPassOn == ASSUME IInv, PassOn PROVE IInv'
<1> USE DEF IInv
<1>1. /\ level # None /\ {} \in Verdicts /\ UserCode(<<>>)
      /\ level' = IF Len(Path[level]) > 1 THEN Path[level][2] ELSE None
      /\ UNCHANGED <<reported, state, firing, handling, todo, faults, reached>>
  BY DEF PassOn, history
<1>2. todo = <<>> /\ firing /\ handling # None /\ level \in States /\ state \in States
  BY <1>1 DEF TypeOK
<1>3. PICK p \in DOMAIN Path[state] :
         /\ level = Path[state][p]
         /\ handling.type = MoveToState => \A n \in 1 .. p - 1 : First[Path[state][n]] = None
  BY <1>1 DEF Climbing
<1>4. /\ Len(Path[level]) = Len(Path[state]) - p + 1 /\ DOMAIN Path[state] = 1 .. Len(Path[state])
      /\ Len(Path[state]) \in Nat
      /\ \A m \in 1 .. Len(Path[state]) - p + 1 : Path[level][m] = Path[state][p + m - 1]
  BY <1>2, <1>3, RestOfPath, PathFacts
<1>5. Len(Path[level]) > 1 => p + 1 \in DOMAIN Path[state] /\ Path[level][2] = Path[state][p + 1]
  BY <1>4
<1>6. handling.type = MoveToState => First[level] = None
  BY MovesAreHandled
<1>7. Climbing'
  <2>1. SUFFICES ASSUME level' # None PROVE Climbing'
    BY DEF Climbing
  <2>2. p + 1 \in DOMAIN Path[state] /\ level' = Path[state][p + 1]
    BY <1>1, <1>5, <2>1
  <2>3. handling.type = MoveToState => \A n \in 1 .. p : First[Path[state][n]] = None
    BY <1>3, <1>4, <1>6
  <2>4. (p + 1) - 1 = p
    BY <1>4
  <2> QED
    BY <1>1, <2>2, <2>3, <2>4 DEF Climbing
<1>8. TypeOK'
  <2>1. level' \in States \cup {None}
    BY <1>1, <1>2, <1>5, PathFacts
  <2> QED
    BY <1>1, <1>2, <2>1, NoMoves DEF TypeOK
<1>9. Quiet' /\ Single'
  BY <1>1, <1>2, NoMoves DEF Quiet, Single
<1>10. Shape' /\ Reported'
  BY <1>1 DEF Shape, Reported, Settling
<1> QED
  BY <1>7, <1>8, <1>9, <1>10

\* What an exit or an entry leaves settles if it did.
LEMMA StillSettling ==
  ASSUME TypeOK, Shape, NEW kind \in {"exit", "enter"}, Proceed(kind), Reported,
         UNCHANGED <<state, reported, faults>>
  PROVE  Reported'
<1>1. /\ todo # <<>> /\ todo[1].kind \in {"exit", "enter"}
      /\ todo' \in Seq(StepsToDo) /\ Len(todo') = Len(todo) - 1 /\ Len(todo) \in Nat
      /\ DOMAIN todo = 1 .. Len(todo) /\ DOMAIN todo' = 1 .. Len(todo) - 1
      /\ \A n \in DOMAIN todo' : todo'[n] = todo[n + 1]
  BY Proceeding
<1>2. CASE Len(todo) = 1
  <2>1. todo' = <<>>
    BY <1>1, <1>2, EmptySeq
  <2>2. ~Settling /\ ~Settling'
    BY <1>1, <1>2, <2>1 DEF Settling
  <2> QED
    BY <2>2 DEF Reported
<1>3. CASE Len(todo) # 1
  <2>1. Len(todo) # 0
    BY <1>1, EmptySeq DEF TypeOK
  <2>2. Len(todo') \in DOMAIN todo' /\ Len(todo') + 1 = Len(todo) /\ todo' # <<>>
    BY <1>1, <1>3, <2>1
  <2>3. todo'[Len(todo')] = todo[Len(todo)]
    BY <1>1, <2>2
  <2>4. (\A n \in DOMAIN todo' : todo'[n].kind # "report") <=> (\A n \in DOMAIN todo : todo[n].kind # "report")
    <3>1. ASSUME NEW n \in DOMAIN todo, todo[n].kind = "report"
          PROVE  \E m \in DOMAIN todo' : todo'[m].kind = "report"
      <4>1. n # 1
        BY <1>1, <3>1
      <4>2. n - 1 \in DOMAIN todo' /\ (n - 1) + 1 = n
        BY <1>1, <4>1
      <4> QED
        BY <1>1, <3>1, <4>2
    <3>2. \A n \in DOMAIN todo' : n + 1 \in DOMAIN todo
      BY <1>1
    <3> QED
      BY <1>1, <3>1, <3>2
  <2>5. Settling' <=> Settling
    BY <1>1, <2>2, <2>3, <2>4 DEF Settling
  <2> QED
    BY <2>3, <2>5 DEF Reported
<1> QED
  BY <1>2, <1>3

LEMMA AtExit == ASSUME IInv, Exit PROVE IInv'
<1> USE DEF IInv
<1>1. /\ Proceed("exit") /\ UserCode(<<>>)
      /\ UNCHANGED <<reported, state, firing, handling, level, faults, reached>>
  BY DEF Exit, search, history
<1>2. level = None /\ firing /\ handling # None /\ todo' \in Seq(StepsToDo) /\ Shape'
  BY <1>1, Proceeding
<1>3. TypeOK'
  BY <1>1, <1>2, NoMoves DEF TypeOK
<1>4. Quiet' /\ Single'
  BY <1>1, <1>2, NoMoves DEF Quiet, Single
<1>5. Reported' /\ Climbing'
  BY <1>1, <1>2, StillSettling DEF Climbing
<1> QED
  BY <1>2, <1>3, <1>4, <1>5

LEMMA AtEnter == ASSUME IInv, Enter PROVE IInv'
<1> USE DEF IInv
<1> DEFINE moves == Move(Head(todo).of)
<1>1. /\ Proceed("enter") /\ UserCode(moves)
      /\ UNCHANGED <<reported, state, firing, handling, level, faults, reached>>
  BY DEF Enter, search, history
<1>2. level = None /\ firing /\ handling # None /\ todo' \in Seq(StepsToDo) /\ Shape'
  BY <1>1, Proceeding
<1>3. handling \in Fireds /\ handling.id \in 0 .. MaxFires
  BY <1>2 DEF TypeOK, Fireds
<1>4. moves \in MoveSeqs
  BY <1>3 DEF Move, MoveSeqs
<1> HIDE DEF IInv
<1>5. /\ fires' \in 0 .. MaxFires /\ nested' \in BOOLEAN
      /\ queue' \in Seq(Fireds) /\ current' \in Fireds \cup {None}
      /\ ~nested' => ~nested /\ fires' = fires /\ queue' = queue \o moves /\ current' = current
  BY <1>1, <1>4, RunningUserCode DEF IInv
<1> USE DEF IInv
<1>6. TypeOK'
  BY <1>1, <1>2, <1>5 DEF TypeOK
<1>7. Quiet'
  BY <1>1, <1>2 DEF Quiet
<1>8. Single'
  <2>1. SUFFICES ASSUME ~nested', faults = 0 PROVE Single'
    BY <1>1 DEF Single
  <2>2. /\ current # None /\ current.id = fires /\ handling.id = fires
        /\ \A n \in DOMAIN queue : queue[n].id = fires
    BY <1>2, <1>5, <2>1 DEF Single
  <2>3. \A n \in DOMAIN (queue \o moves) : (queue \o moves)[n].id = fires
    <3>1. moves \in Seq(Fireds) /\ \A n \in DOMAIN moves : moves[n].id = fires
      <4>1. Trigger(MoveToState, handling.id) \in Fireds /\ Trigger(MoveToState, handling.id).id = fires
        BY <1>3, <2>2 DEF Trigger, Fireds
      <4> QED
        BY <4>1 DEF Move
    <3> HIDE DEF moves
    <3>2. queue \in Seq(Fireds)
      BY DEF TypeOK
    <3> QED
      BY <2>2, <3>1, <3>2
  <2> QED
    BY <1>1, <1>5, <2>1, <2>2, <2>3 DEF Single
<1>9. Reported' /\ Climbing'
  BY <1>1, <1>2, StillSettling DEF Climbing
<1> QED
  BY <1>2, <1>6, <1>7, <1>8, <1>9

LEMMA AtArrival == ASSUME IInv, Arrive \/ ReportReentry \/ Settle PROVE IInv'
<1> USE DEF IInv
<1>1. /\ \E kind : Proceed(kind)
      /\ UNCHANGED <<current, firing, queue, handling, level, fires, nested, faults, reached>>
      /\ state' \in {state, Head(todo).of} /\ reported' \in {reported, Head(todo).of}
  BY DEF Arrive, ReportReentry, Settle, Report, search, history
<1>2. /\ level = None /\ firing /\ handling # None /\ todo' \in Seq(StepsToDo) /\ Shape'
      /\ todo[1] \in StepsToDo /\ Head(todo) = todo[1] /\ todo # <<>>
      /\ DOMAIN todo = 1 .. Len(todo) /\ DOMAIN todo' = 1 .. Len(todo) - 1 /\ Len(todo) \in Nat
      /\ Len(todo') = Len(todo) - 1
      /\ \A n \in DOMAIN todo' : n + 1 \in DOMAIN todo /\ todo'[n] = todo[n + 1]
  BY <1>1, Proceeding
<1>3. TypeOK'
  BY <1>1, <1>2 DEF TypeOK, StepsToDo
<1>4. Quiet' /\ Single' /\ Climbing'
  BY <1>1, <1>2 DEF Quiet, Single, Climbing
<1>5. 1 \in DOMAIN todo /\ Len(todo) \in DOMAIN todo
  <2>1. Len(todo) # 0
    BY <1>2, EmptySeq DEF TypeOK
  <2> QED
    BY <1>2, <2>1
<1>6. CASE Arrive
  <2>1. todo[1].kind = "arrive" /\ state' = reported'
    BY <1>2, <1>6 DEF Arrive, Proceed, Next1, Report
  <2>2. \A n \in DOMAIN todo' : todo'[n].kind \in {"exit", "enter"}
    <3>1. \A n \in DOMAIN todo' : n + 1 # 1
      BY <1>2
    <3> QED
      BY <1>2, <1>5, <2>1, <3>1 DEF Shape
  <2>3. ~Settling'
    <3>1. todo' # <<>> => Len(todo') \in DOMAIN todo'
      BY <1>2, EmptySeq
    <3> QED
      BY <2>2, <3>1 DEF Settling
  <2> QED
    BY <1>2, <1>3, <1>4, <2>1, <2>3 DEF Reported
<1>7. CASE ReportReentry
  <2>1. todo[1].kind = "report" /\ reported' = todo[1].of
    BY <1>2, <1>7 DEF ReportReentry, Proceed, Next1, Report
  <2>2. /\ 1 < Len(todo) /\ todo[Len(todo)] = [kind |-> "settle", of |-> todo[1].of]
        /\ \A m \in DOMAIN todo : todo[m].kind = "report" => m = 1
    BY <1>5, <2>1 DEF Shape
  <2>3. Len(todo') \in DOMAIN todo' /\ todo'[Len(todo')] = todo[Len(todo)] /\ todo' # <<>>
    <3>1. Len(todo') \in DOMAIN todo' /\ Len(todo') + 1 = Len(todo)
      BY <1>2, <2>2
    <3> QED
      BY <1>2, <3>1
  <2>4. \A n \in DOMAIN todo' : todo'[n].kind # "report"
    <3>1. \A n \in DOMAIN todo' : n + 1 # 1
      BY <1>2
    <3> QED
      BY <1>2, <2>2, <3>1
  <2>5. Settling' /\ todo'[Len(todo')].of = reported'
    BY <2>1, <2>2, <2>3, <2>4 DEF Settling
  <2> QED
    BY <1>2, <1>3, <1>4, <2>5 DEF Reported
<1>8. CASE Settle
  <2>1. todo[1].kind = "settle" /\ state' = todo[1].of /\ reported' = reported
    BY <1>2, <1>8 DEF Settle, Proceed, Next1
  <2>2. Len(todo) = 1
    BY <1>5, <2>1 DEF Shape
  <2>3. Settling
    BY <1>2, <2>1, <2>2 DEF Settling
  <2>4. ~Settling'
    BY <1>2, <2>2, EmptySeq DEF Settling
  <2> QED
    BY <1>1, <1>2, <1>3, <1>4, <2>1, <2>2, <2>3, <2>4 DEF Reported
<1> QED
  BY <1>6, <1>7, <1>8

LEMMA NextIInv == IInv /\ [Next]_vars => IInv'
<1> SUFFICES ASSUME IInv, [Next]_vars PROVE IInv'
  OBVIOUS
<1>1. CASE UNCHANGED vars
  BY <1>1 DEF vars, search, history, IInv, TypeOK, Quiet, Single, Shape, Reported, Settling, Climbing
<1>2. CASE GuardFails \/ ActionFails
  BY <1>2, AtFailure DEF GuardFails, ActionFails
<1> QED
  BY <1>1, <1>2, AtCommand, AtDequeue, AtFinish, AtFollow, AtPassOn, AtExit, AtEnter, AtArrival
  DEF Next

\* The invariant: what is queued and handled, where the search for a handler is,
\* what is left of a transition and what has been reported of it fit together in
\* every state the machine reaches.
THEOREM Invariance == Spec => []IInv
BY InitIInv, NextIInv, PTL DEF Spec

-----------------------------------------------------------------------------
(* What enters a state with a first substate moves on.                       *)

LEMMA InitMovesOn == Init => MovesOn
<1> SUFFICES ASSUME Init PROVE \A s \in States : Ends(s) => First[s] = None
  BY DEF MovesOn
<1>1. todo = <<>> /\ state = InitialState
  BY DEF Init
<1>2. \A s \in States : Ends(s) => s = InitialState
  BY <1>1 DEF Ends
<1> QED
  BY <1>2, MachineAssumption

\* What only queues more leaves a move that is to come.
LEMMA MoreQueued ==
  ASSUME MovesOn, UNCHANGED <<state, todo, level, faults>>, level \notin States \/ handling' = handling,
         state \in States, \A n \in DOMAIN queue : n \in DOMAIN queue' /\ queue'[n] = queue[n]
  PROVE  MovesOn'
<1>1. MoveComes => MoveComes'
  BY DEF MoveComes
<1>2. \A s \in States : Ends(s)' => Ends(s)
  BY DEF Ends
<1> QED
  BY <1>1, <1>2 DEF MovesOn

\* So does a step of a transition that leads nowhere else, when an entry queues
\* its move.
LEMMA StepsOn ==
  ASSUME TypeOK, Shape, MovesOn, NEW kind, Proceed(kind), faults' = faults,
         \A n \in DOMAIN queue : n \in DOMAIN queue' /\ queue'[n] = queue[n],
         kind = "enter" /\ First[Head(todo).of] # None =>
            \E n \in DOMAIN queue' : queue'[n].type = MoveToState,
         \A s \in States : Ends(s)' => Ends(s)
  PROVE  MovesOn'
<1>1. /\ Head(todo) = todo[1] /\ todo[1].kind = kind /\ level = None /\ Len(todo) \in Nat
      /\ DOMAIN todo = 1 .. Len(todo) /\ DOMAIN todo' = 1 .. Len(todo) - 1
      /\ \A n \in DOMAIN todo' : todo'[n] = todo[n + 1]
  BY Proceeding
<1>2. \A n \in DOMAIN todo : n # 1 => n - 1 \in DOMAIN todo' /\ todo'[n - 1] = todo[n]
  <2>1. \A n \in DOMAIN todo : n # 1 => n - 1 \in DOMAIN todo' /\ (n - 1) + 1 = n
    BY <1>1
  <2> QED
    BY <1>1, <2>1
<1>3. level # state
  BY <1>1, MachineAssumption DEF TypeOK
<1>4. MoveComes => MoveComes'
  <2>1. ASSUME NEW n \in DOMAIN queue, queue[n].type = MoveToState PROVE MoveComes'
    BY <2>1 DEF MoveComes
  <2>2. ASSUME NEW n \in DOMAIN todo, todo[n].kind = "enter", First[todo[n].of] # None PROVE MoveComes'
    <3>1. CASE n = 1
      BY <1>1, <2>2, <3>1 DEF MoveComes
    <3>2. CASE n # 1
      BY <1>2, <2>2, <3>2 DEF MoveComes
    <3> QED
      BY <3>1, <3>2
  <2> QED
    BY <1>3, <2>1, <2>2 DEF MoveComes
<1> QED
  BY <1>4 DEF MovesOn

\* A step that arrives nowhere leaves where the transition ends, and one that
\* arrives is where it ends.
LEMMA EndsAlike ==
  ASSUME TypeOK, Shape, NEW kind \in {"exit", "enter", "report"}, Proceed(kind), state' = state
  PROVE  \A s \in States : Ends(s)' <=> Ends(s)
<1>1. /\ todo[1].kind = kind /\ Len(todo) \in Nat
      /\ DOMAIN todo = 1 .. Len(todo) /\ DOMAIN todo' = 1 .. Len(todo) - 1
      /\ \A n \in DOMAIN todo' : n + 1 \in DOMAIN todo /\ todo'[n] = todo[n + 1]
  BY Proceeding
<1>2. \A n \in DOMAIN todo : n # 1 => n - 1 \in DOMAIN todo' /\ todo'[n - 1] = todo[n]
  <2>1. \A n \in DOMAIN todo : n # 1 => n - 1 \in DOMAIN todo' /\ (n - 1) + 1 = n
    BY <1>1
  <2> QED
    BY <1>1, <2>1
<1>3. \A n \in DOMAIN todo : todo[n].kind \in {"arrive", "settle"} => n # 1
  BY <1>1
<1>4. (\E n \in DOMAIN todo : todo[n].kind \in {"arrive", "settle"})
        <=> (\E n \in DOMAIN todo' : todo'[n].kind \in {"arrive", "settle"})
  BY <1>1, <1>2, <1>3
<1>5. ASSUME NEW s \in States
      PROVE  (\E n \in DOMAIN todo : todo[n].kind \in {"arrive", "settle"} /\ todo[n].of = s)
               <=> (\E n \in DOMAIN todo' : todo'[n].kind \in {"arrive", "settle"} /\ todo'[n].of = s)
  BY <1>1, <1>2, <1>3
<1> QED
  BY <1>4, <1>5 DEF Ends

LEMMA EndsThere ==
  ASSUME TypeOK, Shape, NEW kind \in {"arrive", "settle"}, Proceed(kind), state' = Head(todo).of
  PROVE  \A s \in States : Ends(s)' <=> Ends(s)
<1>1. /\ todo # <<>> /\ Head(todo) = todo[1] /\ todo[1].kind = kind /\ Len(todo) \in Nat
      /\ DOMAIN todo = 1 .. Len(todo) /\ DOMAIN todo' = 1 .. Len(todo) - 1
      /\ \A n \in DOMAIN todo' : n + 1 \in DOMAIN todo /\ todo'[n] = todo[n + 1]
  BY Proceeding
<1>2. 1 \in DOMAIN todo
  <2>1. Len(todo) # 0
    BY <1>1, EmptySeq DEF TypeOK
  <2> QED
    BY <1>1, <2>1
<1>3. \A n \in DOMAIN todo' : todo'[n].kind \in {"exit", "enter"}
  <2>1. \A n \in DOMAIN todo' : n + 1 # 1
    BY <1>1
  <2>2. CASE kind = "arrive"
    BY <1>1, <1>2, <2>1, <2>2 DEF Shape
  <2>3. CASE kind = "settle"
    <3>1. Len(todo) = 1
      BY <1>1, <1>2, <2>3 DEF Shape
    <3> QED
      BY <1>1, <3>1
  <2> QED
    BY <2>2, <2>3
<1>4. \A s \in States : Ends(s)' <=> s = todo[1].of
  BY <1>1, <1>3 DEF Ends
<1>5. \A n \in DOMAIN todo : todo[n].kind \in {"arrive", "settle"} => n = 1
  <2>1. \A n \in DOMAIN todo : n # 1 => n - 1 \in DOMAIN todo' /\ (n - 1) + 1 = n
    BY <1>1
  <2>2. \A n \in DOMAIN todo : n # 1 => todo[n].kind \in {"exit", "enter"}
    BY <1>1, <1>3, <2>1
  <2> QED
    BY <2>2
<1>6. \A s \in States : Ends(s) <=> s = todo[1].of
  BY <1>1, <1>2, <1>5 DEF Ends
<1> QED
  BY <1>4, <1>6

LEMMA DequeueMovesOn == ASSUME IInv, MovesOn, Dequeue PROVE MovesOn'
<1>1. /\ todo = <<>> /\ level = None /\ queue # <<>> /\ queue \in Seq(Fireds) /\ state \in States
      /\ handling' = Head(queue) /\ queue' = Tail(queue) /\ level' = state
      /\ todo' = todo /\ state' = state /\ faults' = faults
  BY DEF Dequeue, history, IInv, TypeOK
<1>2. /\ handling' = queue[1] /\ DOMAIN queue = 1 .. Len(queue) /\ Len(queue) \in Nat
      /\ DOMAIN queue' = 1 .. Len(queue) - 1 /\ \A n \in 1 .. Len(queue) - 1 : queue'[n] = queue[n + 1]
  <2>1. Len(queue) \in Nat /\ DOMAIN queue = 1 .. Len(queue)
    BY <1>1, LenProperties
  <2>2. /\ Head(queue) = queue[1] /\ Tail(queue) \in Seq(Fireds) /\ Len(Tail(queue)) = Len(queue) - 1
        /\ \A n \in 1 .. Len(Tail(queue)) : Tail(queue)[n] = queue[n + 1]
    BY <1>1, HeadTailProperties
  <2>3. DOMAIN Tail(queue) = 1 .. Len(queue) - 1
    BY <2>2, LenProperties
  <2> QED
    BY <1>1, <2>1, <2>2, <2>3
<1>3. MoveComes => MoveComes'
  <2>1. SUFFICES ASSUME NEW n \in DOMAIN queue, queue[n].type = MoveToState PROVE MoveComes'
    <3>1. level # state /\ DOMAIN todo = {}
      BY <1>1, MachineAssumption
    <3> QED
      BY <3>1 DEF MoveComes
  <2>2. CASE n = 1
    BY <1>1, <1>2, <2>1, <2>2 DEF MoveComes
  <2>3. CASE n # 1
    <3>1. n - 1 \in 1 .. Len(queue) - 1 /\ (n - 1) + 1 = n
      BY <1>2, <2>3
    <3>2. n - 1 \in DOMAIN queue' /\ queue'[n - 1] = queue[n]
      BY <1>2, <3>1
    <3> QED
      BY <2>1, <3>2 DEF MoveComes
  <2> QED
    BY <2>2, <2>3
<1>4. \A s \in States : Ends(s)' => Ends(s)
  BY <1>1 DEF Ends
<1> QED
  BY <1>1, <1>3, <1>4 DEF MovesOn

LEMMA FollowMovesOn == ASSUME LeadsAside, IInv, MovesOn, Follow PROVE MovesOn'
<1>1. PICK h \in Candidates : todo' = Steps(h)
  BY DEF Follow
<1>2. /\ level \in States /\ state \in States /\ todo = <<>> /\ state' = state /\ faults' = faults
      /\ UserCode(<<>>)
  BY DEF Follow, IInv, TypeOK
<1>3. \A n \in DOMAIN queue : n \in DOMAIN queue' /\ queue'[n] = queue[n]
  BY <1>2, NoMoves DEF IInv
<1>4. /\ h.to \in States /\ h.on = level /\ h.trigger = handling.type /\ h.kind \in Kinds
      /\ h.trigger = MoveToState =>
            h.kind = "permit" /\ First[level] # None /\ h.to = First[level]
      /\ h.trigger # MoveToState => h \in Declared
  BY HandlerFacts DEF Candidates
<1>5. /\ h.kind = "reentry" \/ (h.kind = "permit" /\ h.to # state) =>
           /\ \A s \in States : Ends(s)' => s = h.to
           /\ h.kind = "reentry" \/ ~Includes(h.to, state) =>
                \E n \in DOMAIN todo' : todo'[n].kind = "enter" /\ todo'[n].of = h.to
      /\ h.kind = "ignore" \/ (h.kind = "permit" /\ h.to = state) => todo' = <<>>
  BY <1>1, Planning DEF Candidates, IInv
<1>6. CASE h.kind = "ignore" \/ (h.kind = "permit" /\ h.to = state)
  <2>1. \A s \in States : Ends(s)' => s = state /\ Ends(s)
    BY <1>2, <1>5, <1>6 DEF Ends
  <2>2. ~(level = state /\ handling.type = MoveToState)
    BY <1>2, <1>4, <1>6, MachineAssumption
  <2>3. MoveComes => MoveComes'
    BY <1>2, <1>3, <2>2 DEF MoveComes
  <2> QED
    BY <1>2, <2>1, <2>3 DEF MovesOn
<1>7. CASE h.kind = "reentry" \/ (h.kind = "permit" /\ h.to # state)
  <2>1. SUFFICES ASSUME First[h.to] # None, h.kind = "permit", Includes(h.to, state) PROVE FALSE
    <3>1. CASE h.kind = "reentry" \/ ~Includes(h.to, state) \/ First[h.to] = None
      <4>1. First[h.to] # None => MoveComes'
        BY <1>5, <1>7, <3>1 DEF MoveComes
      <4> QED
        BY <1>5, <1>7, <4>1 DEF MovesOn
    <3> QED
      BY <1>7, <2>1, <3>1
  <2>2. PICK p \in DOMAIN Path[state] :
           /\ level = Path[state][p]
           /\ handling.type = MoveToState => \A n \in 1 .. p - 1 : First[Path[state][n]] = None
    BY <1>2, MachineAssumption DEF IInv, Climbing
  <2>3. PICK q \in DOMAIN Path[state] : h.to = Path[state][q]
    BY <2>1 DEF Includes
  <2>4. p \in Nat /\ q \in Nat /\ p >= 1 /\ q >= 1
    BY <1>2, PathFacts
  <2>5. /\ p <= q => Includes(h.to, level)
        /\ q <= p => Includes(level, h.to)
    BY <1>2, <2>2, <2>3, Line
  <2>6. CASE h.trigger # MoveToState
    BY <1>4, <2>1, <2>4, <2>5, <2>6 DEF LeadsAside
  <2>7. CASE h.trigger = MoveToState
    <3>1. p <= q
      <4>1. q < p => q \in 1 .. p - 1
        BY <2>4
      <4> QED
        BY <1>4, <2>1, <2>2, <2>3, <2>4, <2>7, <4>1
    <3>2. Includes(level, h.to) /\ h.to # level
      BY <1>2, <1>4, <2>7, MachineAssumption
    <3> QED
      BY <1>2, <1>4, <2>5, <3>1, <3>2, Antisymmetry
  <2> QED
    BY <2>6, <2>7
<1> QED
  BY <1>4, <1>6, <1>7 DEF Kinds

LEMMA NextMovesOn == ASSUME LeadsAside, IInv, MovesOn, [Next]_vars PROVE MovesOn'
<1>1. TypeOK /\ Shape /\ state \in States /\ None \notin States
  BY MachineAssumption DEF IInv, TypeOK
<1>2. CASE UNCHANGED vars
  BY <1>2 DEF vars, search, history, MovesOn, MoveComes, Ends
<1>3. CASE GuardFails \/ ActionFails
  <2>1. faults' = faults + 1 /\ faults \in Nat
    BY <1>1, <1>3, MachineAssumption DEF GuardFails, ActionFails, Fail, TypeOK
  <2> QED
    BY <2>1 DEF MovesOn
<1>4. ASSUME NEW type \in Triggers, Command(type) PROVE MovesOn'
  <2>1. <<type>> \in Seq(Triggers) /\ Fire(<<type>>, <<>>)
    BY <1>4 DEF Command
  <2>2. \A n \in DOMAIN queue : n \in DOMAIN queue' /\ queue'[n] = queue[n]
    BY <1>1, <2>1, Firing DEF MoveSeqs
  <2> QED
    BY <1>1, <1>4, <2>2, MoreQueued DEF Command, search, history
<1>5. CASE FinishFiring
  BY <1>1, <1>5, MoreQueued DEF FinishFiring, history
<1>6. CASE PassOn
  <2>1. /\ level \in States /\ todo = <<>> /\ state' = state /\ todo' = todo /\ faults' = faults
        /\ UserCode(<<>>)
    BY <1>1, <1>6 DEF PassOn, history, TypeOK
  <2>2. \A n \in DOMAIN queue : n \in DOMAIN queue' /\ queue'[n] = queue[n]
    BY <1>1, <2>1, NoMoves
  <2>3. \A s \in States : Ends(s)' => s = state /\ Ends(s)
    BY <2>1 DEF Ends
  <2>4. First[state] # None /\ MoveComes => MoveComes'
    BY <1>1, <1>6, <2>1, <2>2, MovesAreHandled DEF MoveComes
  <2> QED
    BY <2>1, <2>3, <2>4 DEF MovesOn
<1>7. CASE Exit
  <2>1. Proceed("exit") /\ UserCode(<<>>) /\ state' = state /\ faults' = faults
    BY <1>7 DEF Exit, history
  <2>2. \A n \in DOMAIN queue : n \in DOMAIN queue' /\ queue'[n] = queue[n]
    BY <1>1, <2>1, NoMoves
  <2>3. \A s \in States : Ends(s)' => Ends(s)
    BY <1>1, <2>1, EndsAlike
  <2> QED
    BY <1>1, <2>1, <2>2, <2>3, StepsOn
<1>8. CASE Enter
  <2>1. /\ Proceed("enter") /\ UserCode(Move(Head(todo).of)) /\ state' = state /\ faults' = faults
        /\ handling \in Fireds
    BY <1>1, <1>8, Proceeding DEF Enter, history, TypeOK
  <2>2. Move(Head(todo).of) \in MoveSeqs
    BY <2>1 DEF Move, MoveSeqs, Fireds
  <2>3. /\ \A n \in DOMAIN queue : n \in DOMAIN queue' /\ queue'[n] = queue[n]
        /\ Move(Head(todo).of) # <<>> => \E n \in DOMAIN queue' : queue'[n].type = MoveToState
    BY <1>1, <2>1, <2>2, RunningUserCode
  <2>4. First[Head(todo).of] # None => Move(Head(todo).of) # <<>>
    BY DEF Move
  <2>5. \A s \in States : Ends(s)' => Ends(s)
    BY <1>1, <2>1, EndsAlike
  <2> QED
    BY <1>1, <2>1, <2>3, <2>4, <2>5, StepsOn
<1>9. CASE Arrive \/ ReportReentry \/ Settle
  <2>1. PICK kind \in {"arrive", "report", "settle"} :
           /\ Proceed(kind)
           /\ state' = IF kind = "report" THEN state ELSE Head(todo).of
    BY <1>9 DEF Arrive, ReportReentry, Settle
  <2>2. queue' = queue /\ faults' = faults
    BY <1>9 DEF Arrive, ReportReentry, Settle, history
  <2>3. \A s \in States : Ends(s)' => Ends(s)
    BY <1>1, <2>1, EndsAlike, EndsThere
  <2> QED
    BY <1>1, <2>1, <2>2, <2>3, StepsOn
<1> QED
  BY <1>2, <1>3, <1>4, <1>5, <1>6, <1>7, <1>8, <1>9, DequeueMovesOn, FollowMovesOn DEF Next

-----------------------------------------------------------------------------

\* Every variable of a state machine has its type, and the library searches for
\* a handler or makes a transition only for a trigger it handles, never both at
\* once.
THEOREM TypeCorrect == Spec => []TypeOK
<1>1. IInv => TypeOK
  BY DEF IInv
<1> QED
  BY <1>1, Invariance, PTL

\* GetCurrentTrigger answers a guard, an OnExit or an OnEntry with the trigger it
\* runs for, through every transition, substate and reentry, unless user code
\* has fired triggers of its own or thrown.
THEOREM UserCodeSeesItsTrigger == Spec => []SeesItsTrigger
<1>1. IInv => SeesItsTrigger
  <2>1. SUFFICES ASSUME IInv, ~nested, faults = 0, RunsUserCode
                 PROVE  current # None /\ current.id = handling.id /\ current.type # MoveToState
    BY DEF SeesItsTrigger
  <2>2. level # None \/ todo # <<>>
    BY <2>1 DEF RunsUserCode, Next1
  <2>3. firing /\ handling # None
    BY <2>1, <2>2 DEF IInv, TypeOK
  <2> QED
    BY <2>1, <2>3 DEF IInv, Single
<1> QED
  BY <1>1, Invariance, PTL

\* A machine that has handled all its triggers without an exception is in the
\* state that OnTransitioned last published.
THEOREM ReportsItsState == Spec => []ReportedIsState
<1>1. IInv => ReportedIsState
  <2>1. SUFFICES ASSUME IInv, faults = 0, ~firing PROVE reported = state
    BY DEF ReportedIsState
  <2>2. todo = <<>>
    BY <2>1 DEF IInv, TypeOK
  <2> QED
    BY <2>1, <2>2 DEF IInv, Reported, Settling
<1> QED
  BY <1>1, Invariance, PTL

\* MoveToStateWorker moves the machine on from every state that has a first
\* substate, provided no declared transition leads from a state to one of its
\* ancestors or descendants that has one: whatever user code fires on the way,
\* and however deep the substates are nested, a machine that has handled all its
\* triggers without an exception is in a state without a first substate.
THEOREM RestsInFirst ==
  ASSUME LeadsAside
  PROVE  Spec => []RestsInLeaf
<1>1. IInv /\ MovesOn /\ [Next]_vars => MovesOn'
  BY NextMovesOn
<1>2. IInv /\ MovesOn => RestsInLeaf
  <2>1. SUFFICES ASSUME IInv, MovesOn, faults = 0, ~firing PROVE First[state] = None
    BY DEF RestsInLeaf
  <2>2. todo = <<>> /\ level = None /\ queue = <<>> /\ state \in States
    BY <2>1 DEF IInv, TypeOK, Quiet
  <2>3. ~MoveComes
    BY <2>2, MachineAssumption DEF MoveComes
  <2>4. Ends(state)
    BY <2>2 DEF Ends
  <2> QED
    BY <2>1, <2>2, <2>3, <2>4 DEF MovesOn
<1> QED
  BY <1>1, <1>2, InitMovesOn, Invariance, PTL DEF Spec

-----------------------------------------------------------------------------
(* What a command's trigger leads to is kept.                                *)

LEMMA InitKept == Init => Kept
<1> SUFFICES ASSUME Init PROVE Kept
  OBVIOUS
<1>1. todo = <<>> /\ queue = <<>> /\ level = None /\ reached = InitialState /\ state = InitialState
  BY DEF Init
<1>2. DOMAIN queue = {} /\ DOMAIN todo = {}
  BY <1>1
<1> QED
  BY <1>1, <1>2 DEF Kept, Ends

\* A step of a transition keeps where a command's trigger leads.
LEMMA StepsKeep ==
  ASSUME IInv, Kept, NEW kind, Proceed(kind), UNCHANGED <<handling, level, reached, faults>>,
         ~nested' => ~nested,
         ~nested' => \/ queue' = queue
                     \/ kind = "enter" /\ queue' = queue \o Move(Head(todo).of),
         \A s \in States : Ends(s) => Ends(s)'
  PROVE  Kept'
<1> SUFFICES ASSUME ~nested', faults = 0 PROVE Kept'
  BY DEF Kept
<1>1. /\ Head(todo) = todo[1] /\ todo[1].kind = kind /\ todo # <<>> /\ level = None /\ Len(todo) \in Nat
      /\ DOMAIN todo = 1 .. Len(todo) /\ DOMAIN todo' = 1 .. Len(todo) - 1
      /\ \A n \in DOMAIN todo' : n + 1 \in DOMAIN todo /\ todo'[n] = todo[n + 1]
      /\ handling \in Fireds
  BY Proceeding DEF IInv, TypeOK
<1>2. 1 \in DOMAIN todo
  <2>1. Len(todo) # 0
    BY <1>1, EmptySeq DEF IInv, TypeOK
  <2> QED
    BY <1>1, <2>1
<1>3. \A n \in DOMAIN queue : queue[n].type = MoveToState
  BY <1>1 DEF Kept
<1>4. First[reached] = None =>
        /\ Ends(reached) /\ queue = <<>>
        /\ \A n \in DOMAIN todo : todo[n].kind = "enter" => First[todo[n].of] = None
  <2>1. SUFFICES ASSUME First[reached] = None PROVE queue = <<>>
    BY DEF Kept
  <2>2. \A n \in DOMAIN queue : queue[n].type # MoveToState
    BY <2>1 DEF Kept
  <2>3. DOMAIN queue = {} /\ queue \in Seq(Fireds)
    BY <1>3, <2>2 DEF IInv, TypeOK
  <2>4. DOMAIN queue = 1 .. Len(queue) /\ Len(queue) \in Nat
    BY <2>3, LenProperties
  <2> QED
    BY <2>3, <2>4, EmptySeq
<1>5. \A n \in DOMAIN queue' : queue'[n].type = MoveToState
  <2>1. CASE queue' = queue
    BY <1>3, <2>1
  <2>2. CASE queue' = queue \o Move(Head(todo).of)
    <3> DEFINE moves == Move(Head(todo).of)
    <3>1. moves \in Seq(Fireds) /\ \A n \in DOMAIN moves : moves[n].type = MoveToState
      <4>1. Trigger(MoveToState, handling.id) \in Fireds
            /\ Trigger(MoveToState, handling.id).type = MoveToState
        BY <1>1 DEF Trigger, Fireds
      <4> QED
        BY <4>1 DEF Move
    <3> HIDE DEF moves
    <3>2. queue \in Seq(Fireds)
      BY DEF IInv, TypeOK
    <3>3. \A n \in DOMAIN (queue \o moves) : (queue \o moves)[n].type = MoveToState
      BY <1>3, <3>1, <3>2
    <3> QED
      BY <2>2, <3>3 DEF moves
  <2> QED
    BY <2>1, <2>2
<1>6. First[reached] = None => Ends(reached)' /\ queue' = <<>>
        /\ \A n \in DOMAIN todo' : todo'[n].kind = "enter" => First[todo'[n].of] = None
  <2>1. SUFFICES ASSUME First[reached] = None PROVE queue' = <<>>
    BY <1>1, <1>4 DEF IInv, TypeOK
  <2>2. kind = "enter" => Move(Head(todo).of) = <<>>
    BY <1>1, <1>2, <1>4, <2>1 DEF Move
  <2> QED
    BY <1>4, <2>1, <2>2
<1> QED
  BY <1>1, <1>5, <1>6 DEF Kept

LEMMA DequeueKeeps == ASSUME IInv, Kept, Dequeue PROVE Kept'
<1> SUFFICES ASSUME ~nested, faults = 0 PROVE Kept'
  BY DEF Kept, Dequeue, history
<1>1. /\ todo = <<>> /\ level = None /\ queue # <<>> /\ queue \in Seq(Fireds)
      /\ handling' = Head(queue) /\ queue' = Tail(queue) /\ level' = state
      /\ UNCHANGED <<todo, state, faults, nested, reached>>
  BY DEF Dequeue, history, IInv, TypeOK
<1>2. /\ handling' = queue[1] /\ DOMAIN queue = 1 .. Len(queue) /\ Len(queue) \in Nat /\ Len(queue) # 0
      /\ queue' \in Seq(Fireds) /\ Len(queue') = Len(queue) - 1
      /\ DOMAIN queue' = 1 .. Len(queue) - 1 /\ \A n \in 1 .. Len(queue) - 1 : queue'[n] = queue[n + 1]
  <2>1. Len(queue) \in Nat /\ DOMAIN queue = 1 .. Len(queue) /\ Len(queue) # 0
    BY <1>1, LenProperties, EmptySeq
  <2>2. /\ Head(queue) = queue[1] /\ Tail(queue) \in Seq(Fireds) /\ Len(Tail(queue)) = Len(queue) - 1
        /\ \A n \in 1 .. Len(Tail(queue)) : Tail(queue)[n] = queue[n + 1]
    BY <1>1, HeadTailProperties
  <2>3. DOMAIN Tail(queue) = 1 .. Len(queue) - 1
    BY <2>2, LenProperties
  <2> QED
    BY <1>1, <2>1, <2>2, <2>3
<1>3. \A n \in DOMAIN queue' : n + 1 \in DOMAIN queue /\ queue'[n] = queue[n + 1] /\ Len(queue) # 1
  BY <1>2
<1>4. \A n \in DOMAIN queue' : queue'[n].type = MoveToState
  BY <1>3 DEF Kept
<1>5. handling'.type # MoveToState => queue' = <<>>
  <2>1. SUFFICES ASSUME queue[1].type # MoveToState PROVE queue' = <<>>
    BY <1>2
  <2>2. Len(queue) = 1
    <3>1. 1 \in DOMAIN queue
      BY <1>2
    <3> QED
      BY <2>1, <3>1 DEF Kept
  <2> QED
    BY <1>2, <2>2, EmptySeq
<1>6. First[reached] = None =>
        /\ Ends(reached)' /\ handling'.type # MoveToState
        /\ \A n \in DOMAIN queue' : queue'[n].type # MoveToState
  <2>1. 1 \in DOMAIN queue
    BY <1>2
  <2>2. Ends(reached) => Ends(reached)'
    BY <1>1 DEF Ends
  <2> QED
    BY <1>2, <1>3, <2>1, <2>2 DEF Kept
<1> QED
  BY <1>1, <1>4, <1>5, <1>6 DEF Kept

LEMMA FollowKeeps == ASSUME EntersFromInside, IInv, Kept, Follow PROVE Kept'
<1>1. PICK h \in Candidates :
         /\ todo' = Steps(h)
         /\ reached' = IF h.kind = "ignore" \/ h.trigger = MoveToState THEN reached ELSE h.to
  BY DEF Follow
<1>2. /\ level \in States /\ level' = None /\ state \in States /\ todo = <<>> /\ state' = state
      /\ faults' = faults /\ handling' = handling /\ UserCode(<<>>) /\ reached \in States
  BY DEF Follow, IInv, TypeOK
<1>3. ~nested' => ~nested /\ queue' = queue
  BY <1>2, NoMoves DEF IInv
<1> SUFFICES ASSUME ~nested', faults = 0 PROVE Kept'
  BY <1>2 DEF Kept
<1>4. /\ h \in Handlers /\ h.to \in States /\ h.on = level /\ h.trigger = handling.type /\ h.kind \in Kinds
      /\ h.trigger = MoveToState => h.kind = "permit"
      /\ h.trigger # MoveToState => h \in Declared
  BY HandlerFacts DEF Candidates
<1>5. /\ h.kind = "reentry" \/ (h.kind = "permit" /\ h.to # state) =>
           /\ Ends(h.to)'
           /\ \A n \in DOMAIN todo' : todo'[n].kind = "enter" =>
                 \/ todo'[n].of = h.to
                 \/ h.kind = "permit" /\ \E m \in DOMAIN Path[h.to] :
                       todo'[n].of = Path[h.to][m] /\ ~Includes(Path[h.to][m], state)
      /\ h.kind = "ignore" \/ (h.kind = "permit" /\ h.to = state) => todo' = <<>>
  BY <1>1, <1>4, Planning DEF IInv
<1>6. level # None
  BY <1>2, MachineAssumption
<1>7. \A n \in DOMAIN queue' : queue'[n].type = MoveToState
  BY <1>3, <1>6 DEF Kept
<1>8. handling.type # MoveToState => queue' = <<>>
  BY <1>3, <1>6 DEF Kept
<1>9. First[reached'] = None =>
        /\ Ends(reached)'
        /\ handling.type # MoveToState
        /\ \A n \in DOMAIN todo' : todo'[n].kind = "enter" => First[todo'[n].of] = None
  <2>1. SUFFICES ASSUME First[reached'] = None
                 PROVE  /\ Ends(reached)' /\ handling.type # MoveToState
                        /\ \A n \in DOMAIN todo' : todo'[n].kind = "enter" => First[todo'[n].of] = None
    OBVIOUS
  <2>2. handling.type # MoveToState
    BY <1>1, <1>3, <1>4, <1>6, <2>1 DEF Kept
  <2>3. CASE h.kind = "ignore"
    <3>1. todo' = <<>> /\ reached' = reached
      BY <1>1, <1>5, <2>3
    <3>2. Ends(reached)
      BY <1>3, <2>1, <3>1 DEF Kept
    <3>3. DOMAIN todo' = {} /\ Ends(reached)'
      BY <1>2, <3>1, <3>2 DEF Ends
    <3> QED
      BY <2>2, <3>3
  <2>4. CASE h.kind = "permit" /\ h.to = state
    <3>1. todo' = <<>> /\ reached' = state
      BY <1>1, <1>4, <1>5, <2>2, <2>4
    <3>2. DOMAIN todo' = {} /\ Ends(reached)'
      BY <1>2, <3>1 DEF Ends
    <3> QED
      BY <2>2, <3>2
  <2>5. CASE h.kind = "reentry" \/ (h.kind = "permit" /\ h.to # state)
    <3>1. reached' = h.to /\ First[h.to] = None
      BY <1>1, <1>4, <2>1, <2>2, <2>5
    <3>2. ASSUME h.kind = "permit", NEW m \in DOMAIN Path[h.to], First[Path[h.to][m]] # None
          PROVE  Includes(Path[h.to][m], state)
      <4>1. h \in Declared
        BY <1>4, <2>2
      <4>2. Path[h.to][1] = h.to /\ m \in 1 .. Len(Path[h.to]) /\ Len(Path[h.to]) \in Nat
        BY <1>4, PathFacts
      <4>3. m \in 2 .. Len(Path[h.to])
        <5>1. m # 1
          BY <3>1, <3>2, <4>2
        <5> QED
          BY <4>2, <5>1
      <4>4. Includes(Path[h.to][m], level)
        BY <1>4, <3>2, <4>1, <4>3 DEF EntersFromInside
      <4>5. PICK p \in DOMAIN Path[state] : level = Path[state][p]
        BY <1>6 DEF IInv, Climbing
      <4>6. PICK j \in DOMAIN Path[level] : Path[level][j] = Path[h.to][m]
        BY <4>4 DEF Includes
      <4>7. /\ Len(Path[level]) = Len(Path[state]) - p + 1
            /\ \A k \in 1 .. Len(Path[state]) - p + 1 : Path[level][k] = Path[state][p + k - 1]
        BY <1>2, <4>5, RestOfPath
      <4>8. /\ DOMAIN Path[state] = 1 .. Len(Path[state]) /\ Len(Path[state]) \in Nat
            /\ DOMAIN Path[level] = 1 .. Len(Path[level])
        BY <1>2, PathFacts
      <4>9. p + j - 1 \in DOMAIN Path[state] /\ Path[state][p + j - 1] = Path[h.to][m]
        BY <4>6, <4>7, <4>8
      <4> QED
        BY <4>9 DEF Includes
    <3>3. \A n \in DOMAIN todo' : todo'[n].kind = "enter" => First[todo'[n].of] = None
      BY <1>5, <2>5, <3>1, <3>2
    <3>4. Ends(reached)'
      <4>1. Ends(h.to)'
        BY <1>5, <2>5
      <4> QED
        BY <3>1, <4>1 DEF Ends
    <3> QED
      BY <2>2, <3>3, <3>4
  <2> QED
    BY <1>4, <2>3, <2>4, <2>5 DEF Kinds
<1>10. handling.type # MoveToState => \A n \in DOMAIN queue' : queue'[n].type # MoveToState
  <2>1. DOMAIN <<>> = {}
    OBVIOUS
  <2> QED
    BY <1>8, <2>1
<1> QED
  BY <1>2, <1>7, <1>9, <1>10 DEF Kept

LEMMA NextKept == ASSUME EntersFromInside, IInv, Kept, [Next]_vars PROVE Kept'
<1>1. TypeOK /\ Shape /\ state \in States /\ reached \in States /\ None \notin States
  BY MachineAssumption DEF IInv, TypeOK
<1>2. CASE UNCHANGED vars
  BY <1>2 DEF vars, search, history, Kept, Ends
<1>3. CASE GuardFails \/ ActionFails
  <2>1. faults' = faults + 1 /\ faults \in Nat
    BY <1>1, <1>3, MachineAssumption DEF GuardFails, ActionFails, Fail, TypeOK
  <2> QED
    BY <2>1 DEF Kept
<1>4. ASSUME NEW type \in Triggers, Command(type) PROVE Kept'
  <2>1. /\ level = None /\ todo = <<>>
        /\ faults = 0 => queue = <<>>
        /\ UNCHANGED <<state, level, handling, todo, nested, faults, reached>>
        /\ Fire(<<type>>, <<>>)
    BY <1>1, <1>4 DEF Command, search, history, IInv, TypeOK, Quiet
  <2> SUFFICES ASSUME ~nested, faults = 0 PROVE Kept'
    BY <2>1 DEF Kept
  <2>2. PICK types \in Seq(Triggers) : types = <<type>> /\ Len(types) = 1 /\ types[1] = type
    <3>1. <<type>> \in Seq(Triggers) /\ Len(<<type>>) = 1 /\ <<type>>[1] = type
      OBVIOUS
    <3> QED
      BY <3>1
  <2>3. queue' = queue \o (<<Trigger(types[1], fires + 1)>> \o <<>>)
    BY <1>1, <2>1, <2>2, Firing DEF MoveSeqs
  <2>4. Len(queue') = 1 /\ \A n \in DOMAIN queue' : queue'[n].type = type
    <3> DEFINE T == Trigger(type, fires + 1)
    <3>1. T.type = type
      BY DEF Trigger
    <3> HIDE DEF T
    <3>2. <<>> \o (<<T>> \o <<>>) = <<T>>
      OBVIOUS
    <3>3. queue' = <<>> \o (<<T>> \o <<>>)
      BY <2>1, <2>2, <2>3, Zenon DEF T
    <3>4. queue' = <<T>>
      BY <3>2, <3>3
    <3> QED
      BY <3>1, <3>4
  <2>5. Ends(reached) => Ends(reached)'
    BY <2>1 DEF Ends
  <2> QED
    BY <2>1, <2>4, <2>5, MachineAssumption DEF Kept
<1>5. CASE FinishFiring
  BY <1>5 DEF FinishFiring, history, Kept, Ends
<1>6. CASE PassOn
  <2>1. /\ level # None /\ todo = <<>> /\ UserCode(<<>>)
        /\ UNCHANGED <<state, handling, todo, faults, reached>>
    BY <1>1, <1>6 DEF PassOn, history, TypeOK
  <2>2. ~nested' => ~nested /\ queue' = queue
    BY <1>1, <2>1, NoMoves
  <2>3. Ends(reached) => Ends(reached)'
    BY <2>1 DEF Ends
  <2> QED
    BY <2>1, <2>2, <2>3 DEF Kept
<1>7. CASE Exit
  <2>1. /\ Proceed("exit") /\ UserCode(<<>>) /\ UNCHANGED <<state, handling, level, reached, faults>>
    BY <1>7 DEF Exit, search, history
  <2>2. ~nested' => ~nested /\ queue' = queue
    BY <1>1, <2>1, NoMoves
  <2>3. \A s \in States : Ends(s) => Ends(s)'
    BY <1>1, <2>1, EndsAlike
  <2> QED
    BY <2>1, <2>2, <2>3, StepsKeep
<1>8. CASE Enter
  <2>1. /\ Proceed("enter") /\ UserCode(Move(Head(todo).of)) /\ handling \in Fireds
        /\ UNCHANGED <<state, handling, level, reached, faults>>
    BY <1>1, <1>8, Proceeding DEF Enter, search, history, TypeOK
  <2>2. Move(Head(todo).of) \in MoveSeqs
    BY <2>1 DEF Move, MoveSeqs, Fireds
  <2>3. ~nested' => ~nested /\ queue' = queue \o Move(Head(todo).of)
    BY <1>1, <2>1, <2>2, RunningUserCode
  <2>4. \A s \in States : Ends(s) => Ends(s)'
    BY <1>1, <2>1, EndsAlike
  <2> QED
    BY <2>1, <2>3, <2>4, StepsKeep
<1>9. CASE Arrive \/ ReportReentry \/ Settle
  <2>1. PICK kind \in {"arrive", "report", "settle"} :
           /\ Proceed(kind)
           /\ state' = IF kind = "report" THEN state ELSE Head(todo).of
    BY <1>9 DEF Arrive, ReportReentry, Settle
  <2>2. UNCHANGED <<queue, handling, level, reached, faults, nested>>
    BY <1>9 DEF Arrive, ReportReentry, Settle, search, history
  <2>3. \A s \in States : Ends(s) => Ends(s)'
    BY <1>1, <2>1, EndsAlike, EndsThere
  <2> QED
    BY <2>1, <2>2, <2>3, StepsKeep
<1> QED
  BY <1>2, <1>3, <1>4, <1>5, <1>6, <1>7, <1>8, <1>9, DequeueKeeps, FollowKeeps DEF Next

\* A command's trigger that leads to a state without a first substate leaves the
\* machine there, through all the moves of the transition, provided every
\* declared transition that enters a state with a first substate on its way comes
\* from inside that state, and no user code fires triggers itself or throws.
THEOREM KeepsDestination ==
  ASSUME EntersFromInside
  PROVE  Spec => []DestinationKept
<1>1. IInv /\ Kept /\ [Next]_vars => Kept'
  BY NextKept
<1>2. IInv /\ Kept => DestinationKept
  <2>1. SUFFICES ASSUME IInv, Kept, ~nested, faults = 0, ~firing, First[reached] = None
                 PROVE  state = reached
    BY DEF DestinationKept
  <2>2. todo = <<>>
    BY <2>1 DEF IInv, TypeOK
  <2>3. Ends(reached)
    BY <2>1 DEF Kept
  <2> QED
    BY <2>2, <2>3 DEF Ends
<1> QED
  BY <1>1, <1>2, InitKept, Invariance, PTL DEF Spec

=============================================================================
