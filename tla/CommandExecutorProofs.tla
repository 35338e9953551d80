------------------------ MODULE CommandExecutorProofs ------------------------
(***************************************************************************)
(* What CommandExecutor guarantees for any set of commands, any kinds and   *)
(* nodes and any batch size.                                                *)
(***************************************************************************)
EXTENDS CommandExecutor, TLAPS

\* Moving the first element of a sequence to the end of the one before it.
LEMMA ShiftHead ==
    ASSUME NEW S, NEW s \in Seq(S), NEW t \in Seq(S), t # <<>>
    PROVE  /\ Append(s, Head(t)) \in Seq(S)
           /\ Tail(t) \in Seq(S)
           /\ Append(s, Head(t)) \o Tail(t) = s \o t
           /\ Head(t) \in S
OBVIOUS

LEMMA AppendRight ==
    ASSUME NEW S, NEW s \in Seq(S), NEW t \in Seq(S), NEW e \in S
    PROVE  s \o Append(t, e) = Append(s \o t, e)
OBVIOUS

LEMMA Assoc ==
    ASSUME NEW S, NEW s \in Seq(S), NEW t \in Seq(S), NEW u \in Seq(S)
    PROVE  /\ (s \o t) \o u = s \o (t \o u)
           /\ s \o t \in Seq(S)
OBVIOUS

LEMMA SingletonSeq ==
    ASSUME NEW S, NEW s \in Seq(S), s # <<>>, Len(s) <= 1
    PROVE  s = <<Head(s)>> /\ Head(s) \in S
<1>1. Len(s) = 1 /\ Head(s) = s[1] /\ s[1] \in S
  OBVIOUS
<1>2. QED BY <1>1

LEMMA AppendElements ==
    ASSUME NEW S, NEW s \in Seq(S), NEW e \in S
    PROVE  /\ Append(s, e) \in Seq(S)
           /\ Append(s, e) # <<>>
           /\ DOMAIN Append(s, e) = DOMAIN s \cup {Len(s) + 1}
           /\ Len(s) + 1 \notin DOMAIN s
           /\ \A i \in DOMAIN s : Append(s, e)[i] = s[i]
           /\ Append(s, e)[Len(s) + 1] = e
           /\ s # <<>> => Head(Append(s, e)) = Head(s)
<1>1. /\ Append(s, e) \in Seq(S)
      /\ Len(Append(s, e)) = Len(s) + 1
      /\ \A i \in 1 .. Len(s) : Append(s, e)[i] = s[i]
      /\ Append(s, e)[Len(s) + 1] = e
  OBVIOUS
<1>2. DOMAIN s = 1 .. Len(s) /\ Len(s) \in Nat
      /\ DOMAIN Append(s, e) = 1 .. Len(s) + 1
  BY <1>1
<1>3. s # <<>> => Len(s) > 0
  OBVIOUS
<1>4. Head(s) = s[1] /\ Head(Append(s, e)) = Append(s, e)[1]
  OBVIOUS
<1>5. s # <<>> => Head(Append(s, e)) = Head(s)
  BY <1>1, <1>2, <1>3, <1>4
<1>6. Append(s, e) # <<>>
  <2>1. Len(<<>>) = 0
    OBVIOUS
  <2>2. Len(Append(s, e)) # 0
    BY <1>1, <1>2
  <2>3. QED BY <2>1, <2>2, Zenon
<1>7. DOMAIN Append(s, e) = DOMAIN s \cup {Len(s) + 1} /\ Len(s) + 1 \notin DOMAIN s
  BY <1>2
<1>8. QED BY <1>1, <1>2, <1>5, <1>6, <1>7

LEMMA TailElements ==
    ASSUME NEW S, NEW s \in Seq(S), s # <<>>
    PROVE  /\ Head(s) \in S
           /\ Tail(s) \in Seq(S)
           /\ Len(s) \in Nat \ {0}
           /\ Len(s) = 1 <=> Tail(s) = <<>>
           /\ \A i \in DOMAIN Tail(s) :
                 i \in Nat /\ i + 1 \in DOMAIN s /\ Tail(s)[i] = s[i + 1]
<1>1. Len(s) \in Nat \ {0} /\ DOMAIN s = 1 .. Len(s)
  OBVIOUS
<1>2. Head(s) \in S /\ Tail(s) \in Seq(S) /\ Len(Tail(s)) = Len(s) - 1
  OBVIOUS
<1>3. DOMAIN Tail(s) = 1 .. Len(s) - 1
  BY <1>1, <1>2
<1>4. \A i \in 1 .. Len(s) - 1 : Tail(s)[i] = s[i + 1]
  BY <1>1
<1>5. Len(s) = 1 <=> Tail(s) = <<>>
  <2>1. \A t \in Seq(S) : Len(t) = 0 <=> t = <<>>
    OBVIOUS
  <2>2. Len(Tail(s)) = 0 <=> Len(s) = 1
    BY <1>1, <1>2
  <2>3. QED BY <1>2, <2>1, <2>2
<1>6. QED BY <1>1, <1>2, <1>3, <1>4, <1>5

\* A command read from the channel and held stays where it was in the order.
LEMMA ShiftHeld ==
    ASSUME NEW S, NEW s \in Seq(S), NEW t \in Seq(S), t # <<>>
    PROVE  s \o <<Head(t)>> \o Tail(t) = s \o t
OBVIOUS

LEMMA ConcatEmpty ==
    ASSUME NEW S, NEW s \in Seq(S)
    PROVE  s \o <<>> = s /\ <<>> \o s = s
OBVIOUS

-----------------------------------------------------------------------------
(* The inductive invariant.                                                  *)

\* What the reader's position in RunAsync says of the run and of the held
\* command; ArrivalOrder is not inductive without it.
Stage ==
    /\ phase = "reading" => run = <<>>
    /\ phase \in {"collecting", "calling", "answering"} => run # <<>>
    /\ phase = "collecting" => held = <<>> /\ KindOf[Head(run)] \in {"Get", "Set"}

IInv == TypeOK /\ Stage /\ ArrivalOrder /\ RunsAreUniform

LEMMA InitIInv == Init => IInv
<1> SUFFICES ASSUME Init PROVE IInv
  OBVIOUS
<1>1. TypeOK
  <2>1. result \in [Commands -> Results] /\ value \in [Nodes -> Values]
    BY DEF Init, Results, Values
  <2>2. <<>> \in Seq(Commands) /\ <<>> \in Seq([cmd : Commands, result : Results])
        /\ Len(<<>>) = 0
    OBVIOUS
  <2>3. /\ pending \in Seq(Commands) /\ held \in Seq(Commands) /\ run \in Seq(Commands)
        /\ Len(held) <= 1 /\ arrived \in Seq(Commands) /\ settled \in Seq(Commands)
        /\ answers \in Seq([cmd : Commands, result : Results])
    BY <2>2 DEF Init
  <2>4. QED BY <2>1, <2>3 DEF Init, TypeOK
<1>2. Stage /\ RunsAreUniform
  BY DEF Init, Stage, RunsAreUniform
<1>3. ArrivalOrder
  BY DEF Init, ArrivalOrder
<1>4. QED BY <1>1, <1>2, <1>3 DEF IInv

\* StartServing and StartRun keep the types and leave the run at the stage
\* that follows collecting.
LEMMA StartServingStage ==
    ASSUME TypeOK, NEW r \in Seq(Commands), StartServing(r)
    PROVE  /\ outstanding' \subseteq Commands
           /\ phase' \in {"answering", "calling"}
           /\ result' \in [Commands -> Results]
BY DEF TypeOK, StartServing, Range, Results

LEMMA StartRunStage ==
    ASSUME TypeOK, NEW c \in Commands, StartRun(c)
    PROVE  /\ run' = <<c>>
           /\ outstanding' \subseteq Commands
           /\ phase' \in {"collecting", "answering", "calling"}
           /\ phase' = "collecting" => KindOf[c] \in {"Get", "Set"}
           /\ result' \in [Commands -> Results]
<1>1. CASE KindOf[c] \in {"Get", "Set"}
  BY <1>1 DEF StartRun, TypeOK
<1>2. CASE KindOf[c] \notin {"Get", "Set"}
  <2>1. run' = <<c>> /\ StartServing(<<c>>)
    BY <1>2 DEF StartRun
  <2>2. <<c>> \in Seq(Commands)
    OBVIOUS
  <2>3. QED BY <1>2, <2>1, <2>2, StartServingStage
<1>3. QED BY <1>1, <1>2

LEMMA NextIInv == IInv /\ [Next]_vars => IInv'
<1> SUFFICES ASSUME IInv, [Next]_vars PROVE IInv'
  OBVIOUS
<1> USE CommandsAssumption, MaxBatchAssumption
<1> USE DEF IInv
<1>1. ASSUME NEW c \in Commands, Enqueue(c) PROVE IInv'
  <2>1. TypeOK' /\ Stage' /\ RunsAreUniform'
    BY SMTT(40), <1>1 DEF Enqueue, TypeOK, Stage, RunsAreUniform, server
  <2>2. ArrivalOrder'
    <3> DEFINE before == settled \o run \o held
    <3>1. before \in Seq(Commands) BY DEF TypeOK
    <3>2. before \o pending = arrived BY DEF ArrivalOrder
    <3>3. before \o Append(pending, c) = Append(before \o pending, c)
      BY SMTT(40), <3>1, AppendRight DEF TypeOK
    <3>4. QED BY <1>1, <3>2, <3>3 DEF Enqueue, ArrivalOrder
  <2>3. QED BY <2>1, <2>2
<1>2. CASE Complete
  BY SMTT(40), <1>2 DEF Complete, TypeOK, Stage, ArrivalOrder, RunsAreUniform, server, clients
<1>3. CASE Cancel
  BY SMTT(40), <1>3 DEF Cancel, TypeOK, Stage, ArrivalOrder, RunsAreUniform, server, clients
<1>4. CASE TakeHeld
  <2>1. run = <<>> /\ held = <<Head(held)>> /\ Head(held) \in Commands
    BY <1>4, SingletonSeq DEF TakeHeld, TypeOK, Stage
  <2>2. run' = <<Head(held)>> /\ phase' \in {"collecting", "answering", "calling"}
        /\ (phase' = "collecting" => KindOf[Head(held)] \in {"Get", "Set"})
        /\ result' \in [Commands -> Results] /\ outstanding' \subseteq Commands
    BY <1>4, <2>1, StartRunStage DEF TakeHeld
  <2>3. TypeOK' BY <1>4, <2>1, <2>2 DEF TakeHeld, TypeOK, clients
  <2>4. Stage' BY <1>4, <2>1, <2>2 DEF TakeHeld, Stage
  <2>5. ArrivalOrder'
    BY SMTT(40), <1>4, <2>1, <2>2 DEF TakeHeld, TypeOK, ArrivalOrder, clients
  <2>6. RunsAreUniform' BY <2>2 DEF RunsAreUniform
  <2>7. QED BY <2>3, <2>4, <2>5, <2>6
<1>5. CASE TakePending
  <2>1. run = <<>> /\ held = <<>> /\ pending \in Seq(Commands) /\ pending # <<>>
        /\ Head(pending) \in Commands /\ Tail(pending) \in Seq(Commands)
    BY <1>5 DEF TakePending, TypeOK, Stage
  <2>2. run' = <<Head(pending)>> /\ phase' \in {"collecting", "answering", "calling"}
        /\ (phase' = "collecting" => KindOf[Head(pending)] \in {"Get", "Set"})
        /\ result' \in [Commands -> Results] /\ outstanding' \subseteq Commands
    BY <1>5, <2>1, StartRunStage DEF TakePending
  <2>3. TypeOK' BY <1>5, <2>1, <2>2 DEF TakePending, TypeOK, clients
  <2>4. Stage' BY <1>5, <2>1, <2>2 DEF TakePending, Stage
  <2>5. ArrivalOrder'
    <3> DEFINE c == Head(pending)
    <3>1. ((settled \o <<>>) \o <<>>) = settled
          /\ ((settled \o <<c>>) \o <<>>) = settled \o <<c>>
      BY <2>1, ConcatEmpty DEF TypeOK
    <3>2. (settled \o <<c>>) \o Tail(pending) = settled \o pending
      BY SMTT(40), <2>1, ShiftHeld DEF TypeOK
    <3>3. QED BY <1>5, <2>1, <2>2, <3>1, <3>2 DEF TakePending, ArrivalOrder, clients
  <2>6. RunsAreUniform' BY <2>2 DEF RunsAreUniform
  <2>7. QED BY <2>3, <2>4, <2>5, <2>6
<1>6. CASE GrowRun
  <2> DEFINE c == Head(pending)
  <2>1. run # <<>> /\ held = <<>> /\ c \in Commands /\ Tail(pending) \in Seq(Commands)
        /\ run' = Append(run, c) /\ KindOf[Head(run)] \in {"Get", "Set"}
    BY <1>6 DEF GrowRun, TypeOK, Stage
  <2>2. TypeOK' BY <1>6, <2>1 DEF GrowRun, TypeOK, server, clients
  <2>3. Stage' BY <1>6, <2>1, AppendElements DEF GrowRun, Stage, TypeOK
  <2>4. ArrivalOrder'
    <3>1. settled \o run \in Seq(Commands) /\ Append(run, c) \in Seq(Commands)
      BY <2>1 DEF TypeOK
    <3>2. settled \o Append(run, c) = Append(settled \o run, c)
      BY <2>1, AppendRight DEF TypeOK
    <3>3. Append(settled \o run, c) \o Tail(pending) = (settled \o run) \o pending
      <4>1. Append(settled \o run, c) = (settled \o run) \o <<c>>
        BY <2>1, <3>1
      <4>2. QED BY <1>6, <3>1, <4>1, ShiftHeld DEF GrowRun, TypeOK
    <3>4. (settled \o run) \o <<>> = settled \o run
          /\ (settled \o Append(run, c)) \o <<>> = settled \o Append(run, c)
      BY <3>1, ConcatEmpty DEF TypeOK
    <3>5. QED
      BY <1>6, <2>1, <3>2, <3>3, <3>4 DEF GrowRun, ArrivalOrder, clients
  <2>5. RunsAreUniform'
    <3>1. Continues(c, run) BY <1>6 DEF GrowRun
    <3>2. \A i \in DOMAIN run : run[i] \in Commands /\ KindOf[run[i]] = KindOf[run[1]]
      BY SMTT(40), <2>1 DEF RunsAreUniform, TypeOK
    <3>3. \A i \in DOMAIN run : KindOf[c] = KindOf[run[i]]
                              /\ (KindOf[c] = "Set" => NodeOf[run[i]] # NodeOf[c])
      BY <2>1, <3>1, <3>2 DEF Continues, Range, TypeOK
    <3>4. KindOf[c] \in {"Get", "Set"}
      BY <2>1, <3>1 DEF Continues
    <3>5. \A i \in DOMAIN run' :
             \/ i \in DOMAIN run /\ run'[i] = run[i]
             \/ i = Len(run) + 1 /\ i \notin DOMAIN run /\ run'[i] = c
      <4>1. run \in Seq(Commands) BY DEF TypeOK
      <4>2. /\ DOMAIN Append(run, c) = DOMAIN run \cup {Len(run) + 1}
            /\ Len(run) + 1 \notin DOMAIN run
            /\ \A i \in DOMAIN run : Append(run, c)[i] = run[i]
            /\ Append(run, c)[Len(run) + 1] = c
        BY <2>1, <4>1, AppendElements
      <4>3. run' = Append(run, c)
        BY <2>1
      <4> HIDE DEF c
      <4>4. QED BY <4>2, <4>3
    <3>6. QED BY <3>3, <3>4, <3>5 DEF RunsAreUniform
  <2>6. QED BY <2>2, <2>3, <2>4, <2>5
<1>7. CASE HoldNext
  <2>1. held = <<>> /\ Head(pending) \in Commands /\ Tail(pending) \in Seq(Commands)
        /\ held' = <<Head(pending)>> /\ run # <<>>
    BY <1>7 DEF HoldNext, TypeOK, Stage
  <2>2. outstanding' \subseteq Commands /\ phase' \in {"answering", "calling"}
        /\ result' \in [Commands -> Results]
    BY <1>7, StartServingStage DEF HoldNext, TypeOK
  <2>3. TypeOK' BY <1>7, <2>1, <2>2 DEF HoldNext, TypeOK, clients
  <2>4. Stage' BY <1>7, <2>1, <2>2 DEF HoldNext, Stage
  <2>5. ArrivalOrder'
    <3> DEFINE s == settled \o run
    <3>1. s \in Seq(Commands) BY DEF TypeOK
    <3>2. s \o <<>> = s BY <3>1, ConcatEmpty
    <3>3. (s \o <<Head(pending)>>) \o Tail(pending) = s \o pending
      BY <1>7, <3>1, ShiftHeld DEF HoldNext, TypeOK
    <3>4. QED
      BY <1>7, <2>1, <3>2, <3>3 DEF HoldNext, ArrivalOrder, clients
  <2>6. RunsAreUniform' BY <1>7 DEF HoldNext, RunsAreUniform
  <2>7. QED BY <2>3, <2>4, <2>5, <2>6
<1>8. CASE CloseRun
  <2>1. outstanding' \subseteq Commands /\ phase' \in {"answering", "calling"}
        /\ result' \in [Commands -> Results]
    BY <1>8, StartServingStage DEF CloseRun, TypeOK
  <2>2. QED
    BY <1>8, <2>1 DEF CloseRun, TypeOK, Stage, ArrivalOrder, RunsAreUniform, clients
<1>9. CASE Stop
  BY <1>9 DEF Stop, TypeOK, Stage, ArrivalOrder, RunsAreUniform, server, clients
<1>10. ASSUME NEW c \in Commands, ServerHandles(c) PROVE IInv'
  <2>1. result' \in [Commands -> Results] /\ value' \in [Nodes -> Values]
    BY SMTT(40), <1>10 DEF ServerHandles, TypeOK, Results, Values
  <2>2. TypeOK' BY <1>10, <2>1 DEF ServerHandles, TypeOK, clients
  <2>3. QED
    BY <1>10, <2>2 DEF ServerHandles, Stage, ArrivalOrder, RunsAreUniform, clients
<1>11. CASE CallReturns
  BY <1>11 DEF CallReturns, TypeOK, Stage, ArrivalOrder, RunsAreUniform, server, clients
<1>12. CASE CallFails
  <2>1. TypeOK' BY <1>12 DEF CallFails, TypeOK, Results, clients
  <2>2. QED
    BY <1>12, <2>1 DEF CallFails, Stage, ArrivalOrder, RunsAreUniform, clients
<1>13. CASE CallCancelled
  <2>1. TypeOK' BY <1>13 DEF CallCancelled, TypeOK, clients
  <2>2. QED
    BY <1>13, <2>1 DEF CallCancelled, Stage, ArrivalOrder, RunsAreUniform, clients
<1>14. ASSUME NEW c \in Commands, LateEffect(c) PROVE IInv'
  <2>1. TypeOK'
    BY <1>14 DEF LateEffect, TypeOK, executor, clients, Values
  <2>2. QED
    BY <1>14, <2>1 DEF LateEffect, Stage, ArrivalOrder, RunsAreUniform, executor, clients
<1>15. CASE AnswerNext
  <2> DEFINE c == Head(run)
  <2>1. c \in Commands /\ Tail(run) \in Seq(Commands) /\ Len(run) \in Nat \ {0}
        /\ (Len(run) = 1 <=> Tail(run) = <<>>)
    BY <1>15, TailElements DEF AnswerNext, TypeOK
  <2>2. TypeOK'
    <3>1. [cmd |-> c, result |-> result[c]] \in [cmd : Commands, result : Results]
      BY <2>1 DEF TypeOK
    <3>2. answers' \in Seq([cmd : Commands, result : Results])
      BY <1>15, <3>1 DEF AnswerNext, TypeOK
    <3>3. QED BY <1>15, <2>1, <3>2 DEF AnswerNext, TypeOK, server
  <2>3. Stage' BY <1>15, <2>1 DEF AnswerNext, Stage
  <2>4. ArrivalOrder'
    <3>1. Append(settled, c) \o Tail(run) = settled \o run
      BY SMTT(40), <1>15, ShiftHead DEF AnswerNext, TypeOK
    <3>2. QED BY <1>15, <3>1 DEF AnswerNext, ArrivalOrder
  <2>5. RunsAreUniform'
    <3>1. \A i \in DOMAIN Tail(run) : i + 1 \in DOMAIN run /\ Tail(run)[i] = run[i + 1]
      BY <1>15, TailElements DEF AnswerNext, TypeOK
    <3>2. \A i, j \in DOMAIN Tail(run) : i # j => i + 1 # j + 1
      BY <1>15, TailElements DEF AnswerNext, TypeOK
    <3>3. QED BY <1>15, <3>1, <3>2 DEF AnswerNext, RunsAreUniform
  <2>6. QED BY <2>2, <2>3, <2>4, <2>5
<1>16. CASE LoseRun
  <2>1. TypeOK' BY <1>16 DEF LoseRun, TypeOK
  <2>2. Stage' BY <1>16 DEF LoseRun, Stage
  <2>3. ArrivalOrder'
    BY <1>16, ConcatEmpty DEF LoseRun, ArrivalOrder, TypeOK
  <2>4. RunsAreUniform' BY <1>16 DEF LoseRun, RunsAreUniform
  <2>5. QED BY <2>1, <2>2, <2>3, <2>4
<1>17. CASE UNCHANGED vars
  BY SMTT(40), <1>17 DEF vars, executor, server, clients, TypeOK, Stage, ArrivalOrder, RunsAreUniform
<1>18. QED
  BY <1>1, <1>2, <1>3, <1>4, <1>5, <1>6, <1>7, <1>8, <1>9, <1>10, <1>11, <1>12,
     <1>13, <1>14, <1>15, <1>16, <1>17
  DEF Next, Reader, Call

LEMMA Invariance == Spec => []IInv
BY InitIInv, NextIInv, PTL DEF Spec

\* Every value stays in its type, whatever the clients send and the server does.
THEOREM TypeCorrect == Spec => []TypeOK
BY Invariance, PTL DEF IInv

\* Settled, running, held and pending commands, in that order, are exactly
\* what arrived: batching neither loses, repeats nor reorders a command.
THEOREM KeepsArrivalOrder == Spec => []ArrivalOrder
BY Invariance, PTL DEF IInv

\* No Write holds two Sets of one node and no call mixes kinds of command.
THEOREM UniformRuns == Spec => []RunsAreUniform
BY Invariance, PTL DEF IInv
-----------------------------------------------------------------------------
(* The refinement of SerialCommands.                                         *)

\* The commands of the answers sent, as SerialCommands sees them.
AnsweredCommands == [i \in DOMAIN answers |-> answers[i].cmd]

LEMMA SeqElements ==
    ASSUME NEW S, NEW s \in Seq(S)
    PROVE  /\ Len(s) \in Nat
           /\ DOMAIN s = 1 .. Len(s)
           /\ \A i \in 1 .. Len(s) : s[i] \in S
OBVIOUS

LEMMA ConcatElements ==
    ASSUME NEW S, NEW s \in Seq(S), NEW t \in Seq(S), NEW u \in Seq(S), t # <<>>
    PROVE  /\ Len(s) \in Nat
           /\ Len((s \o t) \o u) = Len(s) + Len(t) + Len(u)
           /\ Len(s) < Len((s \o t) \o u)
           /\ ((s \o t) \o u)[Len(s) + 1] = Head(t)
           /\ Len(s) + Len(t) \in Len(s) + 1 .. Len((s \o t) \o u)
           /\ SubSeq((s \o t) \o u, 1, Len(s) + Len(t)) = s \o t
<1>1. Len(s) \in Nat /\ Len(t) \in Nat /\ Len(u) \in Nat
  OBVIOUS
<1>2. Len(t) > 0
  OBVIOUS
<1>3. Len((s \o t) \o u) = Len(s) + Len(t) + Len(u)
  OBVIOUS
<1>4. ((s \o t) \o u)[Len(s) + 1] = (s \o t)[Len(s) + 1]
  BY <1>1, <1>2
<1>5. (s \o t)[Len(s) + 1] = t[1] /\ Head(t) = t[1]
  BY <1>1, <1>2
<1>6. SubSeq((s \o t) \o u, 1, Len(s) + Len(t)) = s \o t
  BY <1>1, <1>2, <1>3
<1>7. QED BY <1>1, <1>2, <1>3, <1>4, <1>5, <1>6

\* Sending an answer appends its command to the answered commands.
LEMMA MapAppend ==
    ASSUME NEW C, NEW R, NEW a \in Seq([cmd : C, result : R]),
           NEW e \in [cmd : C, result : R]
    PROVE  [i \in DOMAIN Append(a, e) |-> Append(a, e)[i].cmd]
               = Append([i \in DOMAIN a |-> a[i].cmd], e.cmd)
<1> DEFINE E == [cmd : C, result : R]
           m == [i \in DOMAIN a |-> a[i].cmd]
           ma == [i \in DOMAIN Append(a, e) |-> Append(a, e)[i].cmd]
<1>1. /\ Len(a) \in Nat
      /\ DOMAIN a = 1 .. Len(a)
      /\ \A i \in 1 .. Len(a) : a[i] \in E
  <2>1. a \in Seq(E)
    OBVIOUS
  <2> HIDE DEF E
  <2>2. QED BY <2>1, SeqElements
<1>2. /\ DOMAIN Append(a, e) = 1 .. Len(a) + 1
      /\ \A i \in 1 .. Len(a) : Append(a, e)[i] = a[i]
      /\ Append(a, e)[Len(a) + 1] = e
  BY <1>1
<1>3. m \in Seq(C) /\ Len(m) = Len(a)
  BY <1>1
<1>4. ma \in Seq(C) /\ Len(ma) = Len(a) + 1
  BY <1>1, <1>2
<1>5. \A i \in 1 .. Len(a) : ma[i] = m[i]
  BY <1>1, <1>2
<1>6. ma[Len(a) + 1] = e.cmd
  BY <1>1, <1>2
<1>7. e.cmd \in C
  OBVIOUS
<1> HIDE DEF m, ma
<1>8. ma = Append(m, e.cmd)
  <2>1. Append(m, e.cmd) \in Seq(C) /\ Len(Append(m, e.cmd)) = Len(a) + 1
        /\ (\A i \in 1 .. Len(a) : Append(m, e.cmd)[i] = m[i])
        /\ Append(m, e.cmd)[Len(a) + 1] = e.cmd
    BY <1>1, <1>3, <1>7
  <2>2. \A i \in 1 .. Len(a) + 1 : ma[i] = Append(m, e.cmd)[i]
    BY <1>1, <1>5, <1>6, <2>1
  <2>3. QED BY <1>1, <1>4, <2>1, <2>2
<1>9. QED BY <1>8 DEF m, ma

\* The first command of the run is the oldest one owed an answer.
LEMMA RunIsNext ==
    ASSUME IInv, run # <<>>
    PROVE  /\ Len(settled) < Len(arrived)
           /\ arrived[Len(settled) + 1] = Head(run)
           /\ Len(settled) + Len(run) \in Len(settled) + 1 .. Len(arrived)
           /\ SubSeq(arrived, 1, Len(settled) + Len(run)) = settled \o run
<1> DEFINE rest == held \o pending
<1>1. /\ settled \in Seq(Commands) /\ run \in Seq(Commands)
      /\ held \in Seq(Commands) /\ pending \in Seq(Commands)
  BY DEF IInv, TypeOK
<1>2. settled \o run \in Seq(Commands)
  BY <1>1
<1>3. ((settled \o run) \o held) \o pending = (settled \o run) \o rest
      /\ rest \in Seq(Commands)
  <2> DEFINE s == settled \o run
  <2>1. s \in Seq(Commands)
    BY <1>2
  <2> HIDE DEF s
  <2>2. (s \o held) \o pending = s \o (held \o pending)
        /\ held \o pending \in Seq(Commands)
    BY SMTT(40), <1>1, <2>1, Assoc
  <2>3. QED BY <2>2 DEF s
<1>4. arrived = (settled \o run) \o rest
  BY <1>3 DEF IInv, ArrivalOrder
<1> HIDE DEF rest
<1>5. \A s, r, t \in Seq(Commands) : r # <<>> =>
         /\ Len(s) < Len((s \o r) \o t)
         /\ ((s \o r) \o t)[Len(s) + 1] = Head(r)
         /\ Len(s) + Len(r) \in Len(s) + 1 .. Len((s \o r) \o t)
         /\ SubSeq((s \o r) \o t, 1, Len(s) + Len(r)) = s \o r
  BY SMTT(40), ConcatElements
<1>6. QED BY <1>1, <1>3, <1>4, <1>5

LEMMA InitSerial == Init => Serial!Init
BY DEF Init, Serial!Init

\* Each step of the batching executor is a step of the serial server, or
\* invisible to it.
LEMMA NextSerial == IInv /\ [Next]_vars => [Serial!Next]_Serial!vars
<1> SUFFICES ASSUME IInv, [Next]_vars PROVE [Serial!Next]_Serial!vars
  OBVIOUS
<1> USE DEF IInv
<1>1. ASSUME NEW c \in Commands, Enqueue(c) PROVE Serial!Accept(c)
  BY <1>1 DEF Enqueue, Serial!Accept, Range
<1>2. CASE AnswerNext
  <2>1. run # <<>> /\ TypeOK
    BY <1>2 DEF AnswerNext
  <2>3. Len(settled) < Len(arrived) /\ arrived[Len(settled) + 1] = Head(run)
    BY <2>1, RunIsNext
  <2>4. Head(run) \in Commands
    BY <2>1, TailElements DEF TypeOK
  <2>5. AnsweredCommands' = Append(AnsweredCommands, Head(run))
    <3> DEFINE e == [cmd |-> Head(run), result |-> result[Head(run)]]
    <3>1. e \in [cmd : Commands, result : Results] /\ e.cmd = Head(run)
      BY <2>4 DEF TypeOK
    <3>2. answers' = Append(answers, e)
      BY <1>2 DEF AnswerNext
    <3> HIDE DEF e
    <3>3. QED BY <3>1, <3>2, MapAppend DEF AnsweredCommands, TypeOK
  <2>6. (phase # "stopped")' = (phase # "stopped") /\ phase # "stopped"
    BY <1>2 DEF AnswerNext
  <2>7. settled' = Append(settled, Head(run)) /\ arrived' = arrived
    BY <1>2 DEF AnswerNext
  <2>8. Serial!Answer
    BY <2>3, <2>5, <2>6, <2>7 DEF Serial!Answer, Serial!Owed, AnsweredCommands
  <2>9. QED BY <2>8 DEF Serial!Next
<1>3. CASE LoseRun
  <2>1. run # <<>> /\ TypeOK
    BY <1>3 DEF LoseRun
  <2>3. Len(settled) + Len(run) \in Len(settled) + 1 .. Len(arrived)
        /\ SubSeq(arrived, 1, Len(settled) + Len(run)) = settled \o run
    BY <2>1, RunIsNext
  <2>4. settled' = settled \o run /\ arrived' = arrived /\ answers' = answers
        /\ phase # "stopped" /\ (phase # "stopped")' = (phase # "stopped")
    BY <1>3 DEF LoseRun
  <2>5. Serial!Lose
    BY <2>3, <2>4 DEF Serial!Lose
  <2>6. QED BY <2>5 DEF Serial!Next
<1>4. CASE Stop \/ CallCancelled
  BY <1>4 DEF Stop, CallCancelled, clients, Serial!Next, Serial!Stop
<1>5. CASE TakeHeld \/ TakePending
  <2>1. (phase # "stopped") = TRUE /\ clients' = clients
    BY <1>5 DEF TakeHeld, TakePending, clients
  <2>2. (phase # "stopped")' = TRUE
    BY <1>5 DEF TakeHeld, TakePending, StartRun, StartServing
  <2>3. QED BY <2>1, <2>2 DEF Serial!vars, clients
<1>6. CASE HoldNext \/ CloseRun
  <2>1. (phase # "stopped") = TRUE /\ clients' = clients
    BY <1>6 DEF HoldNext, CloseRun, clients
  <2>2. (phase # "stopped")' = TRUE
    BY <1>6 DEF HoldNext, CloseRun, StartServing
  <2>3. QED BY <2>1, <2>2 DEF Serial!vars, clients
<1>7. CASE Complete \/ Cancel \/ GrowRun \/ CallReturns \/ CallFails
  BY <1>7 DEF Complete, Cancel, GrowRun, CallReturns, CallFails, clients, Serial!vars
<1>8. ASSUME NEW c \in Commands, ServerHandles(c) \/ LateEffect(c)
      PROVE UNCHANGED Serial!vars
  BY <1>8 DEF ServerHandles, LateEffect, executor, clients, Serial!vars
<1>9. CASE UNCHANGED vars
  BY <1>9 DEF vars, executor, clients, Serial!vars
<1>10. QED
  BY <1>1, <1>2, <1>3, <1>4, <1>5, <1>6, <1>7, <1>8, <1>9
  DEF Next, Reader, Call, Serial!Next

\* Clients cannot tell the batching queue from a server that takes commands
\* one at a time in arrival order and answers each at most once.
THEOREM ImplementsSerial == Spec => SerialSpec
<1>1. Spec => Serial!Init /\ [][Serial!Next]_Serial!vars
  BY InitSerial, NextSerial, Invariance, PTL DEF Spec
<1>2. QED BY <1>1 DEF SerialSpec, Serial!Spec
-----------------------------------------------------------------------------
(* What a client reads.  ReadsFollowArrivalOrder speaks of answers long      *)
(* sent; what makes it inductive is what the server's values, the results    *)
(* not answered yet and the calls that failed say of the commands credited   *)
(* with an effect so far.                                                    *)

Precedes(q, c, d) == \E i, j \in DOMAIN q : i < j /\ q[i] = c /\ q[j] = d

ChangesOf(n) == {c \in Commands : Changes(c) /\ NodeOf[c] = n}

\* v may be seen at node n by somebody who knows that the commands of A took
\* effect: nothing of A changed n after v did.
Shows(q, v, n, A) ==
    \/ v = Initial /\ A \cap ChangesOf(n) = {}
    \/ /\ v \in ChangesOf(n) \ Unencodable
       /\ v \in A => \A d \in A \cap ChangesOf(n) : d = v \/ Precedes(q, d, v)

\* The commands answered Good, and with those of the run that will be.
Acked == {c \in Commands : [cmd |-> c, result |-> Good] \in Range(answers)}
Credited ==
    Acked \cup {c \in Range(run) : phase \in {"calling", "answering"} /\ result[c] = Good}

Distinct == \A i, j \in DOMAIN arrived : arrived[i] = arrived[j] => i = j

AnsweredSettled == \A a \in Range(answers) : a.cmd \in Range(settled)

\* Every node has the value of a command sent to the server whose effect the
\* credited commands allow.
ValuesShow == \A n \in Nodes :
    /\ Shows(arrived, value[n], n, Credited)
    /\ value[n] \in Range(settled) \cup Range(run) \cup {Initial}

\* So has every result a Get of the run will be answered with, and it is
\* older than the run.
ReadingsShow == phase \in {"calling", "answering"} =>
    \A g \in Range(run) : KindOf[g] = "Get" /\ result[g] # Bad =>
        /\ Shows(arrived, result[g], NodeOf[g], Acked)
        /\ result[g] \in Range(settled) \cup {Initial}

CallsFromRun == phase = "calling" => outstanding \subseteq Range(run) \ Unencodable

\* What may still take effect late was sent, and was not and will not be
\* answered Good.
StraysUnacked == \A c \in stray :
    /\ c \in Commands /\ Changes(c) /\ c \notin Unencodable /\ c \notin Acked
    /\ c \in Range(settled) \cup Range(run)
    /\ c \in Range(run) => phase = "stopped" \/ (phase = "answering" /\ result[c] = Bad)

\* An answered Get shows what the commands before it allow, whatever has been
\* answered since.
AnswersShow == \A a \in Range(answers) : KindOf[a.cmd] = "Get" /\ a.result # Bad =>
    /\ Shows(arrived, a.result, NodeOf[a.cmd], {c \in Acked : Precedes(arrived, c, a.cmd)})
    /\ a.result = Initial \/ Precedes(arrived, a.result, a.cmd)

ReadsIInv ==
    /\ Distinct /\ AnsweredSettled /\ ValuesShow /\ ReadingsShow
    /\ CallsFromRun /\ StraysUnacked /\ AnswersShow

LEMMA RangeIn ==
    ASSUME NEW S, NEW s \in Seq(S)
    PROVE  Range(s) \subseteq S
BY SeqElements DEF Range

LEMMA RangeAppend ==
    ASSUME NEW S, NEW s \in Seq(S), NEW e \in S
    PROVE  Range(Append(s, e)) = Range(s) \cup {e}
<1>1. /\ DOMAIN Append(s, e) = DOMAIN s \cup {Len(s) + 1}
      /\ Len(s) + 1 \notin DOMAIN s
      /\ \A i \in DOMAIN s : Append(s, e)[i] = s[i]
      /\ Append(s, e)[Len(s) + 1] = e
  BY AppendElements
<1> DEFINE q == Append(s, e)
           l == Len(s) + 1
<1> HIDE DEF q, l
<1>2. DOMAIN q = DOMAIN s \cup {l} /\ (\A i \in DOMAIN s : q[i] = s[i]) /\ q[l] = e
  BY <1>1 DEF q, l
<1>3. Range(q) = Range(s) \cup {e}
  BY <1>2 DEF Range
<1>4. QED BY <1>3 DEF q

LEMMA RangeConcat ==
    ASSUME NEW S, NEW s \in Seq(S), NEW t \in Seq(S)
    PROVE  /\ s \o t \in Seq(S)
           /\ Range(s \o t) = Range(s) \cup Range(t)
<1> DEFINE q == s \o t
<1>1. /\ q \in Seq(S) /\ Len(q) = Len(s) + Len(t)
      /\ Len(s) \in Nat /\ Len(t) \in Nat
      /\ DOMAIN s = 1 .. Len(s) /\ DOMAIN t = 1 .. Len(t) /\ DOMAIN q = 1 .. Len(q)
  BY SeqElements
<1>2. \A i \in 1 .. Len(s) : q[i] = s[i]
  BY <1>1
<1>3. \A i \in 1 .. Len(t) : q[Len(s) + i] = t[i]
  BY <1>1
<1> HIDE DEF q
<1>4. \A i \in DOMAIN q :
         \/ i \in DOMAIN s /\ q[i] = s[i]
         \/ i - Len(s) \in DOMAIN t /\ q[i] = t[i - Len(s)]
  <2> SUFFICES ASSUME NEW i \in DOMAIN q, i \notin DOMAIN s
               PROVE  i - Len(s) \in DOMAIN t /\ q[i] = t[i - Len(s)]
    BY <1>1, <1>2
  <2>1. i - Len(s) \in 1 .. Len(t) /\ Len(s) + (i - Len(s)) = i
    BY <1>1
  <2>2. QED BY <1>1, <1>3, <2>1
<1>5. \A i \in DOMAIN s : i \in DOMAIN q
  BY <1>1
<1>6. \A i \in DOMAIN t : Len(s) + i \in DOMAIN q
  BY <1>1
<1>7. Range(q) = Range(s) \cup Range(t)
  BY <1>1, <1>2, <1>3, <1>4, <1>5, <1>6 DEF Range
<1>8. QED BY <1>1, <1>7 DEF q

LEMMA RangeTail ==
    ASSUME NEW S, NEW s \in Seq(S), s # <<>>
    PROVE  /\ Head(s) \in S /\ Tail(s) \in Seq(S)
           /\ Range(s) = {Head(s)} \cup Range(Tail(s))
<1>1. /\ Head(s) \in S /\ Tail(s) \in Seq(S)
      /\ <<Head(s)>> \in Seq(S)
      /\ s = <<Head(s)>> \o Tail(s)
  OBVIOUS
<1>2. Range(<<Head(s)>>) = {Head(s)}
  BY DEF Range
<1>3. QED
  <2> DEFINE h == Head(s)
             t == Tail(s)
             u == <<h>>
  <2>1. u \in Seq(S) /\ t \in Seq(S) /\ s = u \o t /\ Range(u) = {h}
    BY <1>1, <1>2
  <2> HIDE DEF u, t, h
  <2>2. Range(u \o t) = Range(u) \cup Range(t)
    BY <2>1, RangeConcat
  <2>3. Range(s) = {h} \cup Range(t)
    BY <2>1, <2>2
  <2>4. QED BY <1>1, <2>3 DEF h, t

\* In a sequence without repetition everything of the first part comes before
\* everything of the second.
LEMMA Split ==
    ASSUME NEW S, NEW s \in Seq(S), NEW t \in Seq(S), NEW q, q = s \o t,
           \A i, j \in DOMAIN q : q[i] = q[j] => i = j
    PROVE  /\ Range(s) \cap Range(t) = {}
           /\ \A c \in Range(s), d \in Range(t) : Precedes(q, c, d)
           /\ \A c, g : g \in Range(s) /\ Precedes(q, c, g) => c \in Range(s)
<1>1. /\ q \in Seq(S) /\ Len(q) = Len(s) + Len(t)
      /\ Len(s) \in Nat /\ Len(t) \in Nat
      /\ DOMAIN s = 1 .. Len(s) /\ DOMAIN t = 1 .. Len(t) /\ DOMAIN q = 1 .. Len(q)
  BY SeqElements
<1>2. \A i \in DOMAIN s : i \in DOMAIN q /\ q[i] = s[i]
  BY <1>1
<1>3. \A j \in DOMAIN t : Len(s) + j \in DOMAIN q /\ q[Len(s) + j] = t[j]
  BY <1>1
<1>4. \A i \in DOMAIN s, j \in DOMAIN t : i < Len(s) + j
  BY <1>1
<1>5. \A c \in Range(s), d \in Range(t) : Precedes(q, c, d)
  <2> SUFFICES ASSUME NEW i \in DOMAIN s, NEW j \in DOMAIN t
               PROVE  Precedes(q, s[i], t[j])
    BY DEF Range
  <2>1. QED BY <1>2, <1>3, <1>4 DEF Precedes
<1>6. Range(s) \cap Range(t) = {}
  <2> SUFFICES ASSUME NEW i \in DOMAIN s, NEW j \in DOMAIN t, s[i] = t[j]
               PROVE  FALSE
    BY DEF Range
  <2>1. i = Len(s) + j
    BY <1>2, <1>3
  <2>2. QED BY <1>1, <1>4, <2>1
<1>7. ASSUME NEW c, NEW g, g \in Range(s), Precedes(q, c, g) PROVE c \in Range(s)
  <2>1. PICK i \in DOMAIN s : g = s[i]
    BY <1>7 DEF Range
  <2>2. PICK k \in DOMAIN q, j \in DOMAIN q : k < j /\ q[k] = c /\ q[j] = g
    BY <1>7 DEF Precedes
  <2>3. j = i
    BY <1>2, <2>1, <2>2
  <2>4. k \in DOMAIN s
    BY <1>1, <2>2, <2>3
  <2>5. QED BY <1>2, <2>2, <2>4 DEF Range
<1>8. QED BY <1>5, <1>6, <1>7

\* A newcomer at the end changes nothing among those before it.
LEMMA AppendPrecedes ==
    ASSUME NEW S, NEW q \in Seq(S), NEW e \in S
    PROVE  /\ \A c, d : Precedes(q, c, d) => Precedes(Append(q, e), c, d)
           /\ e \notin Range(q) =>
                 \A c, d : d \in Range(q) /\ Precedes(Append(q, e), c, d) => Precedes(q, c, d)
<1> DEFINE p == Append(q, e)
           l == Len(q) + 1
<1>1. /\ DOMAIN p = DOMAIN q \cup {l} /\ l \notin DOMAIN q
      /\ \A i \in DOMAIN q : p[i] = q[i]
      /\ p[l] = e
  BY AppendElements
<1>2. /\ \A i, j \in DOMAIN p : i < j => i \in DOMAIN q
  <2>1. DOMAIN q = 1 .. Len(q) /\ Len(q) \in Nat /\ DOMAIN p = 1 .. Len(q) + 1
    OBVIOUS
  <2> HIDE DEF p
  <2>2. QED BY <2>1
<1> HIDE DEF p, l
<1>3. \A c, d : Precedes(q, c, d) => Precedes(p, c, d)
  BY <1>1 DEF Precedes
<1>4. ASSUME e \notin Range(q), NEW c, NEW d, d \in Range(q), Precedes(p, c, d)
      PROVE  Precedes(q, c, d)
  <2>1. PICK i \in DOMAIN p, j \in DOMAIN p : i < j /\ p[i] = c /\ p[j] = d
    BY <1>4 DEF Precedes
  <2>2. j # l
    BY <1>1, <1>4, <2>1
  <2>3. i \in DOMAIN q /\ j \in DOMAIN q
    BY <1>1, <1>2, <2>1, <2>2
  <2>4. QED BY <1>1, <2>1, <2>3 DEF Precedes
<1>5. QED BY <1>3, <1>4 DEF p

\* What is settled came before what is being served.
LEMMA Places ==
    ASSUME IInv, Distinct
    PROVE  /\ Range(settled) \subseteq Commands /\ Range(run) \subseteq Commands
           /\ Range(settled) \cup Range(run) \subseteq Range(arrived)
           /\ Range(settled) \cap Range(run) = {}
           /\ \A c \in Range(settled), d \in Range(run) : Precedes(arrived, c, d)
           /\ \A c, g : g \in Range(settled) /\ Precedes(arrived, c, g) => c \in Range(settled)
<1> DEFINE rest == held \o pending
           t == run \o rest
<1>1. /\ settled \in Seq(Commands) /\ run \in Seq(Commands)
      /\ held \in Seq(Commands) /\ pending \in Seq(Commands)
  BY DEF IInv, TypeOK
<1>2. rest \in Seq(Commands)
  BY <1>1
<1>3. ((settled \o run) \o held) \o pending = (settled \o run) \o rest
  <2> DEFINE s == settled \o run
  <2>1. s \in Seq(Commands)
    BY <1>1
  <2> HIDE DEF s
  <2>2. (s \o held) \o pending = s \o (held \o pending)
    BY SMTT(40), <1>1, <2>1, Assoc
  <2>3. QED BY <2>2 DEF s
<1> HIDE DEF rest
<1>4. (settled \o run) \o rest = settled \o t /\ t \in Seq(Commands)
  BY <1>1, <1>2, Assoc
<1>5. arrived = settled \o t
  BY <1>3, <1>4 DEF IInv, ArrivalOrder
<1>6. Range(t) = Range(run) \cup Range(rest)
  BY <1>1, <1>2, RangeConcat
<1> HIDE DEF t
<1>7. Range(arrived) = Range(settled) \cup Range(t)
  BY <1>1, <1>4, <1>5, RangeConcat
<1>8. /\ Range(settled) \cap Range(t) = {}
      /\ \A c \in Range(settled), d \in Range(t) : Precedes(arrived, c, d)
      /\ \A c, g : g \in Range(settled) /\ Precedes(arrived, c, g) => c \in Range(settled)
  <2>1. \A i, j \in DOMAIN arrived : arrived[i] = arrived[j] => i = j
    BY DEF Distinct
  <2>2. settled \in Seq(Commands) /\ t \in Seq(Commands) /\ arrived = settled \o t
    BY <1>1, <1>4, <1>5
  <2>3. \A q : q = settled \o t /\ (\A i, j \in DOMAIN q : q[i] = q[j] => i = j) =>
          /\ Range(settled) \cap Range(t) = {}
          /\ \A c \in Range(settled), d \in Range(t) : Precedes(q, c, d)
          /\ \A c, g : g \in Range(settled) /\ Precedes(q, c, g) => c \in Range(settled)
    BY <2>2, Split
  <2>4. QED BY <2>1, <2>2, <2>3
<1>9. Range(settled) \subseteq Commands /\ Range(run) \subseteq Commands
  BY <1>1, RangeIn
<1>10. QED BY <1>6, <1>7, <1>8, <1>9

LEMMA PlacesApart == IInv /\ Distinct => Range(settled) \cap Range(run) = {}
BY Places

\* What may be seen may still be seen when fewer commands are credited and
\* more have arrived.
LEMMA ShowsKept ==
    ASSUME NEW p, NEW q, NEW v, NEW n, NEW A, NEW B,
           Shows(p, v, n, A),
           B \cap ChangesOf(n) \subseteq A,
           \A c, d : Precedes(p, c, d) => Precedes(q, c, d)
    PROVE  Shows(q, v, n, B)
BY DEF Shows

LEMMA ShowsValue ==
    ASSUME NEW q, NEW v, NEW n, NEW A, Shows(q, v, n, A)
    PROVE  v \notin {Good, Bad} /\ (v # Initial => v \in Commands /\ Changes(v))
BY ResultsAssumption DEF Shows, ChangesOf

LEMMA CommandsAreNoResults ==
    \A c \in Commands : c \notin {Initial, Good, Bad, Unserved}
BY ResultsAssumption

\* No two commands of a run change one node, and a Get shares it with Gets.
LEMMA RunIsUniform ==
    ASSUME IInv, NEW c \in Range(run), NEW d \in Range(run), c # d
    PROVE  /\ KindOf[c] = KindOf[d] /\ KindOf[c] \in {"Get", "Set"}
           /\ Changes(c) => NodeOf[c] # NodeOf[d]
<1>1. PICK i \in DOMAIN run : run[i] = c
  BY DEF Range
<1>2. PICK j \in DOMAIN run : run[j] = d
  BY DEF Range
<1>3. QED BY <1>1, <1>2 DEF IInv, RunsAreUniform, Changes

LEMMA ReadsInit == Init => ReadsIInv
<1> SUFFICES ASSUME Init PROVE ReadsIInv
  OBVIOUS
<1>1. arrived = <<>> /\ answers = <<>> /\ run = <<>> /\ stray = {}
      /\ phase = "reading" /\ value = [n \in Nodes |-> Initial]
  BY DEF Init
<1>2. DOMAIN arrived = {} /\ Range(answers) = {} /\ Range(run) = {}
  BY <1>1 DEF Range
<1>3. Acked = {} /\ Credited = {}
  BY <1>2 DEF Acked, Credited
<1>4. Distinct /\ AnsweredSettled /\ AnswersShow
  BY <1>2 DEF Distinct, AnsweredSettled, AnswersShow
<1>5. ValuesShow
  BY <1>1, <1>3 DEF ValuesShow, Shows
<1>6. ReadingsShow /\ CallsFromRun /\ StraysUnacked
  BY <1>1 DEF ReadingsShow, CallsFromRun, StraysUnacked
<1>7. QED BY <1>4, <1>5, <1>6 DEF ReadsIInv

LEMMA AckedAcknowledged ==
    ASSUME NEW c \in Commands
    PROVE  c \in Acked <=> Acknowledged(c)
BY DEF Acked, Acknowledged, Range

LEMMA ReadsInOrder ==
    ASSUME TypeOK, AnswersShow
    PROVE  ReadsFollowArrivalOrder
<1> SUFFICES ASSUME NEW i \in DOMAIN answers, NEW g, NEW v,
                    g = answers[i].cmd, v = answers[i].result,
                    KindOf[g] = "Get", v # Bad
             PROVE  \/ v \in LastAcknowledged(g) \cup OutcomeUnknown(g)
                    \/ v = Initial /\ LastAcknowledged(g) = {}
  BY DEF ReadsFollowArrivalOrder
<1> DEFINE n == NodeOf[g]
           A == {c \in Acked : Precedes(arrived, c, g)}
<1>1. answers[i] \in Range(answers)
  BY DEF Range
<1>2. /\ Shows(arrived, v, n, A)
      /\ v = Initial \/ Precedes(arrived, v, g)
  BY <1>1 DEF AnswersShow
<1>3. Range(arrived) \subseteq Commands
  BY RangeIn DEF TypeOK
<1>4. \A c : c \in ChangesBefore(g) /\ Acknowledged(c) <=> c \in A \cap ChangesOf(n)
  <2>1. \A c : Precedes(arrived, c, g) => c \in Range(arrived)
    BY DEF Precedes, Range
  <2>2. \A c \in Commands : c \in Acked <=> Acknowledged(c)
    BY AckedAcknowledged
  <2>3. \A c : c \in ChangesBefore(g) <=>
                 c \in Range(arrived) /\ c \in ChangesOf(n) /\ Precedes(arrived, c, g)
    BY <1>3 DEF ChangesBefore, ChangesOf, Before, Precedes
  <2>4. QED BY <1>3, <2>1, <2>2, <2>3
<1>5. CASE v = Initial /\ A \cap ChangesOf(n) = {}
  BY <1>4, <1>5 DEF LastAcknowledged
<1>6. CASE /\ v \in ChangesOf(n) \ Unencodable
           /\ v \in A => \A d \in A \cap ChangesOf(n) : d = v \/ Precedes(arrived, d, v)
  <2>1. Precedes(arrived, v, g) /\ v \in Range(arrived)
    BY <1>2, <1>6, CommandsAreNoResults DEF ChangesOf, Precedes, Range
  <2>2. v \in ChangesBefore(g)
    BY <1>6, <2>1 DEF ChangesBefore, ChangesOf, Before, Precedes
  <2>3. CASE Acknowledged(v)
    <3>1. \A d \in ChangesBefore(g) : Acknowledged(d) => d = v \/ Before(d, v)
      BY <1>4, <1>6, <2>2, <2>3 DEF Before, Precedes
    <3>2. QED BY <2>2, <2>3, <3>1 DEF LastAcknowledged
  <2>4. CASE ~Acknowledged(v)
    BY <1>6, <2>2, <2>4 DEF OutcomeUnknown
  <2>5. QED BY <2>3, <2>4
<1>7. QED BY <1>2, <1>5, <1>6 DEF Shows

\* Once no answer is added and nothing arrives, what was answered still stands.
LEMMA AnswersStand ==
    ASSUME ReadsIInv, arrived' = arrived, answers' = answers,
           Range(settled) \subseteq Range(settled')
    PROVE  /\ Acked' = Acked
           /\ Distinct' /\ AnsweredSettled' /\ AnswersShow'
<1>1. Acked' = Acked
  BY DEF Acked
<1>2. Distinct' /\ AnsweredSettled'
  BY DEF ReadsIInv, Distinct, AnsweredSettled
<1>3. AnswersShow'
  BY <1>1 DEF ReadsIInv, AnswersShow
<1>4. QED BY <1>1, <1>2, <1>3

LEMMA ValuesKept ==
    ASSUME ReadsIInv, value' = value, Credited' \subseteq Credited,
           \A c, d : Precedes(arrived, c, d) => Precedes(arrived', c, d),
           Range(settled) \cup Range(run) \subseteq Range(settled') \cup Range(run')
    PROVE  ValuesShow'
<1> SUFFICES ASSUME NEW n \in Nodes
             PROVE  /\ Shows(arrived', value[n], n, Credited')
                    /\ value[n] \in Range(settled') \cup Range(run') \cup {Initial}
  BY DEF ValuesShow
<1>1. /\ Shows(arrived, value[n], n, Credited)
      /\ value[n] \in Range(settled) \cup Range(run) \cup {Initial}
  BY DEF ReadsIInv, ValuesShow
<1>2. Credited' \cap ChangesOf(n) \subseteq Credited
  OBVIOUS
<1> DEFINE C == Credited'
           v == value[n]
           q == arrived'
<1>3. Shows(q, v, n, C)
  <2>1. Shows(arrived, v, n, Credited) /\ C \cap ChangesOf(n) \subseteq Credited
        /\ \A c, d : Precedes(arrived, c, d) => Precedes(q, c, d)
    BY <1>1, <1>2
  <2> HIDE DEF C, v, q
  <2>2. QED BY <2>1, ShowsKept
<1>4. QED BY <1>1, <1>3

\* Collecting a run and starting its call.
LEMMA Starts ==
    ASSUME IInv, IInv', ReadsIInv,
           arrived' = arrived, answers' = answers, settled' = settled,
           stray' = stray, value' = value,
           phase \in {"reading", "collecting"},
           Range(run) \subseteq Range(run'),
           \/ phase' = "collecting"
           \/ /\ phase' \in {"calling", "answering"}
              /\ outstanding' = Range(run') \ Unencodable
              /\ \A c \in Range(run') : result'[c] = Bad
    PROVE  ReadsIInv'
<1>1. Acked' = Acked /\ Distinct' /\ AnsweredSettled' /\ AnswersShow'
  BY AnswersStand
<1>2. Credited' = Acked
  BY <1>1, ResultsAssumption DEF Credited
<1>3. ValuesShow'
  BY <1>2, ValuesKept DEF Credited
<1>4. ReadingsShow' /\ CallsFromRun'
  BY DEF ReadingsShow, CallsFromRun
<1>5. StraysUnacked'
  <2> SUFFICES ASSUME NEW c \in stray
               PROVE  /\ c \in Commands /\ Changes(c) /\ c \notin Unencodable /\ c \notin Acked
                      /\ c \in Range(settled) /\ c \notin Range(run')
    BY <1>1 DEF StraysUnacked
  <2>1. /\ c \in Commands /\ Changes(c) /\ c \notin Unencodable /\ c \notin Acked
        /\ c \in Range(settled)
    BY DEF ReadsIInv, StraysUnacked
  <2>2. (Range(settled) \cap Range(run) = {})'
    <3>1. (IInv /\ Distinct)'
      BY <1>1
    <3>2. QED BY <3>1, PlacesApart, PTL
  <2>3. QED BY <2>1, <2>2
<1>6. QED BY <1>1, <1>3, <1>4, <1>5 DEF ReadsIInv

\* Steps that move the reader at most from a call to its answers or to its end.
LEMMA Passes ==
    ASSUME ReadsIInv,
           arrived' = arrived, answers' = answers, settled' = settled, run' = run,
           stray' = stray, value' = value, result' = result, outstanding' = outstanding,
           \/ phase' = phase
           \/ phase = "calling" /\ phase' = "answering"
           \/ phase' = "stopped"
    PROVE  ReadsIInv'
<1>1. Acked' = Acked /\ Distinct' /\ AnsweredSettled' /\ AnswersShow'
  BY AnswersStand
<1>2. Credited' \subseteq Credited
  BY <1>1 DEF Credited
<1>3. ValuesShow'
  BY <1>2, ValuesKept
<1>4. ReadingsShow' /\ CallsFromRun'
  BY <1>1 DEF ReadsIInv, ReadingsShow, CallsFromRun
<1>5. StraysUnacked'
  BY <1>1 DEF ReadsIInv, StraysUnacked
<1>6. QED BY <1>1, <1>3, <1>4, <1>5 DEF ReadsIInv

LEMMA EnqueueReads ==
    ASSUME IInv, ReadsIInv, NEW c \in Commands, Enqueue(c)
    PROVE  ReadsIInv'
<1>1. /\ arrived' = Append(arrived, c) /\ c \notin Range(arrived)
      /\ UNCHANGED <<run, phase, result, outstanding, stray, value, settled, answers>>
      /\ arrived \in Seq(Commands)
  BY DEF Enqueue, server, IInv, TypeOK
<1>2. /\ \A d, e : Precedes(arrived, d, e) => Precedes(arrived', d, e)
      /\ \A d, e : e \in Range(arrived) /\ Precedes(arrived', d, e) => Precedes(arrived, d, e)
  <2>1. /\ \A d, e : Precedes(arrived, d, e) => Precedes(Append(arrived, c), d, e)
        /\ \A d, e : e \in Range(arrived) /\ Precedes(Append(arrived, c), d, e)
                        => Precedes(arrived, d, e)
    BY <1>1, AppendPrecedes
  <2>2. QED BY <1>1, <2>1
<1>3. Acked' = Acked /\ Credited' = Credited
  BY <1>1 DEF Acked, Credited
<1>4. Distinct'
  <2> DEFINE p == Append(arrived, c)
             l == Len(arrived) + 1
  <2>1. /\ DOMAIN p = DOMAIN arrived \cup {l}
        /\ \A i \in DOMAIN arrived : p[i] = arrived[i]
        /\ p[l] = c
    BY <1>1, AppendElements
  <2> HIDE DEF p, l
  <2>2. \A i \in DOMAIN arrived : p[i] # c
    BY <1>1, <2>1 DEF Range
  <2>3. \A i, j \in DOMAIN p : p[i] = p[j] => i = j
    BY <2>1, <2>2 DEF ReadsIInv, Distinct
  <2>4. QED BY <1>1, <2>3 DEF Distinct, p
<1>5. ValuesShow'
  BY <1>1, <1>2, <1>3, ValuesKept
<1>6. AnsweredSettled' /\ CallsFromRun' /\ StraysUnacked'
  BY <1>1, <1>3 DEF ReadsIInv, AnsweredSettled, CallsFromRun, StraysUnacked
<1>7. ReadingsShow'
  <2> SUFFICES ASSUME phase \in {"calling", "answering"}, NEW g \in Range(run),
                      KindOf[g] = "Get", result[g] # Bad
               PROVE  /\ Shows(arrived', result[g], NodeOf[g], Acked)
                      /\ result[g] \in Range(settled) \cup {Initial}
    BY <1>1, <1>3 DEF ReadingsShow
  <2> DEFINE v == result[g]
             n == NodeOf[g]
             q == arrived'
  <2>1. Shows(arrived, v, n, Acked) /\ v \in Range(settled) \cup {Initial}
    BY DEF ReadsIInv, ReadingsShow
  <2>2. \A d, e : Precedes(arrived, d, e) => Precedes(q, d, e)
    BY <1>2
  <2> HIDE DEF v, n, q
  <2>3. Shows(q, v, n, Acked)
    BY <2>1, <2>2, ShowsKept
  <2>4. QED BY <2>1, <2>3 DEF v, n, q
<1>8. AnswersShow'
  <2> SUFFICES ASSUME NEW a \in Range(answers), KindOf[a.cmd] = "Get", a.result # Bad
               PROVE  /\ Shows(arrived', a.result, NodeOf[a.cmd],
                               {d \in Acked : Precedes(arrived', d, a.cmd)})
                      /\ a.result = Initial \/ Precedes(arrived', a.result, a.cmd)
    BY <1>1, <1>3 DEF AnswersShow
  <2> DEFINE v == a.result
             n == NodeOf[a.cmd]
             q == arrived'
             A == {d \in Acked : Precedes(arrived, d, a.cmd)}
             B == {d \in Acked : Precedes(q, d, a.cmd)}
  <2>1. Shows(arrived, v, n, A) /\ (v = Initial \/ Precedes(arrived, v, a.cmd))
    BY DEF ReadsIInv, AnswersShow
  <2>2. a.cmd \in Range(arrived)
    BY Places DEF ReadsIInv, AnsweredSettled
  <2>3. B \cap ChangesOf(n) \subseteq A /\ \A d, e : Precedes(arrived, d, e) => Precedes(q, d, e)
    BY <1>2, <2>2
  <2>4. v = Initial \/ Precedes(q, v, a.cmd)
    BY <2>1, <2>3
  <2> HIDE DEF v, n, q, A, B
  <2>5. Shows(q, v, n, B)
    BY <2>1, <2>3, ShowsKept
  <2>6. QED BY <2>4, <2>5 DEF v, n, q, B
<1>9. QED BY <1>4, <1>5, <1>6, <1>7, <1>8 DEF ReadsIInv

LEMMA ServerHandlesReads ==
    ASSUME IInv, ReadsIInv, NEW c \in Commands, ServerHandles(c)
    PROVE  ReadsIInv'
<1>1. /\ phase = "calling" /\ c \in outstanding
      /\ outstanding' = outstanding \ {c}
      /\ UNCHANGED <<arrived, answers, settled, run, phase, stray>>
      /\ result \in [Commands -> Results] /\ value \in [Nodes -> Values]
      /\ NodeOf[c] \in Nodes
  BY CommandsAssumption DEF ServerHandles, clients, IInv, TypeOK
<1>2. CASE UNCHANGED <<result, value>>
  <2>1. Acked' = Acked /\ Distinct' /\ AnsweredSettled' /\ AnswersShow'
    BY <1>1, AnswersStand
  <2>2. ValuesShow' /\ ReadingsShow' /\ CallsFromRun' /\ StraysUnacked'
    BY <1>1, <1>2, <2>1
    DEF ReadsIInv, ValuesShow, ReadingsShow, CallsFromRun, StraysUnacked, Credited
  <2>3. QED BY <2>1, <2>2 DEF ReadsIInv
<1>3. CASE /\ result' = [result EXCEPT ![c] =
                            IF KindOf[c] = "Get" THEN value[NodeOf[c]] ELSE Good]
           /\ value' = IF Changes(c) THEN [value EXCEPT ![NodeOf[c]] = c] ELSE value
  <2>1. Acked' = Acked /\ Distinct' /\ AnsweredSettled' /\ AnswersShow'
    BY <1>1, AnswersStand
  <2>2. c \in Range(run) /\ c \notin Unencodable
    BY <1>1 DEF ReadsIInv, CallsFromRun
  <2>3. /\ \A d \in Commands : d # c => result'[d] = result[d]
        /\ result'[c] = IF KindOf[c] = "Get" THEN value[NodeOf[c]] ELSE Good
    BY <1>1, <1>3
  <2>4. /\ Range(settled) \subseteq Commands /\ Range(run) \subseteq Commands
        /\ Range(settled) \cap Range(run) = {}
        /\ \A d \in Range(settled), e \in Range(run) : Precedes(arrived, d, e)
    BY Places DEF ReadsIInv
  <2>5. /\ Acked \subseteq Range(settled)
    BY DEF ReadsIInv, AnsweredSettled, Acked
  <2>6. Credited' \subseteq Credited \cup {c} /\ (c \in Credited' => ~(KindOf[c] = "Get"))
    <3>1. KindOf[c] = "Get" => result'[c] # Good
      BY <1>1, <2>3, ShowsValue DEF ReadsIInv, ValuesShow
    <3>2. c \notin Acked
      BY <2>2, <2>4, <2>5
    <3>3. QED BY <1>1, <2>1, <2>3, <2>4, <3>1, <3>2 DEF Credited
  <2>7. ValuesShow'
    <3> SUFFICES ASSUME NEW n \in Nodes
                 PROVE  /\ Shows(arrived, value'[n], n, Credited')
                        /\ value'[n] \in Range(settled) \cup Range(run) \cup {Initial}
      BY <1>1 DEF ValuesShow
    <3>1. /\ Shows(arrived, value[n], n, Credited)
          /\ value[n] \in Range(settled) \cup Range(run) \cup {Initial}
      BY DEF ReadsIInv, ValuesShow
    <3>2. CASE Changes(c) /\ n = NodeOf[c]
      <4>1. value'[n] = c
        BY <1>1, <1>3, <3>2
      <4>2. \A d \in Credited' \cap ChangesOf(n) : d = c \/ Precedes(arrived, d, c)
        <5> SUFFICES ASSUME NEW d \in Credited', d \in ChangesOf(n), d # c
                     PROVE  Precedes(arrived, d, c)
          OBVIOUS
        <5>1. d \in Acked \/ d \in Range(run)
          BY <2>6 DEF Credited
        <5>2. d \in Range(run) => (Changes(d) => NodeOf[d] # NodeOf[c])
          BY <2>2, RunIsUniform
        <5>3. d \in Range(settled)
          BY <2>5, <3>2, <5>1, <5>2 DEF ChangesOf
        <5>4. QED BY <2>2, <2>4, <5>3
      <4>3. c \in ChangesOf(n) \ Unencodable
        BY <2>2, <3>2 DEF ChangesOf
      <4>4. QED BY <2>2, <4>1, <4>2, <4>3 DEF Shows
    <3>3. CASE ~(Changes(c) /\ n = NodeOf[c])
      <4>1. value'[n] = value[n]
        BY <1>1, <1>3, <3>3
      <4>2. Credited' \cap ChangesOf(n) \subseteq Credited
        BY <2>6, <3>3 DEF ChangesOf
      <4> DEFINE C == Credited'
                 v == value[n]
      <4>3. Shows(arrived, v, n, Credited) /\ C \cap ChangesOf(n) \subseteq Credited
        BY <3>1, <4>2
      <4> HIDE DEF C, v
      <4>4. Shows(arrived, v, n, C)
        BY <4>3, ShowsKept
      <4>5. QED BY <3>1, <4>1, <4>4 DEF C, v
    <3>4. QED BY <3>2, <3>3
  <2>8. ReadingsShow'
    <3> SUFFICES ASSUME NEW g \in Range(run), KindOf[g] = "Get", result'[g] # Bad
                 PROVE  /\ Shows(arrived, result'[g], NodeOf[g], Acked)
                        /\ result'[g] \in Range(settled) \cup {Initial}
      BY <1>1, <2>1 DEF ReadingsShow
    <3>1. CASE g = c
      <4> DEFINE n == NodeOf[c]
                 v == value[n]
      <4>1. /\ Shows(arrived, v, n, Credited)
            /\ v \in Range(settled) \cup Range(run) \cup {Initial}
        BY <1>1 DEF ReadsIInv, ValuesShow
      <4>2. v # Initial => Changes(v)
        BY <4>1, ShowsValue
      <4>3. v \notin Range(run) \/ v = Initial
        <5>1. SUFFICES ASSUME v \in Range(run), Changes(v) PROVE FALSE
          BY <4>2
        <5>2. v # c
          BY <3>1, <5>1 DEF Changes
        <5>3. KindOf[v] = KindOf[c]
          BY <2>2, <5>1, <5>2, RunIsUniform
        <5>4. QED BY <3>1, <5>1, <5>3 DEF Changes
      <4>4. result'[g] = v
        BY <2>3, <3>1
      <4>5. Acked \cap ChangesOf(n) \subseteq Credited
        BY DEF Credited
      <4>6. Shows(arrived, v, n, Acked)
        <5> HIDE DEF v, n
        <5>1. QED BY <4>1, <4>5, ShowsKept
      <4>7. QED BY <3>1, <4>1, <4>3, <4>4, <4>6
    <3>2. CASE g # c
      <4>1. result'[g] = result[g]
        BY <2>3, <2>4, <3>2
      <4>2. QED BY <1>1, <4>1 DEF ReadsIInv, ReadingsShow
    <3>3. QED BY <3>1, <3>2
  <2>9. CallsFromRun' /\ StraysUnacked'
    BY <1>1, <2>1 DEF ReadsIInv, CallsFromRun, StraysUnacked
  <2>10. QED BY <2>1, <2>7, <2>8, <2>9 DEF ReadsIInv
<1>4. QED BY <1>2, <1>3 DEF ServerHandles

\* A call that throws or is cancelled: what it had sent may still happen, and
\* nobody will be told that it did.
LEMMA CallEndsReads ==
    ASSUME IInv, ReadsIInv, CallFails \/ CallCancelled
    PROVE  ReadsIInv'
<1>1. /\ phase = "calling" /\ outstanding' = {}
      /\ UNCHANGED <<arrived, answers, settled, run, value>>
      /\ stray' = stray \cup {c \in outstanding : Changes(c)}
      /\ \/ phase' = "stopped"
         \/ phase' = "answering" /\ \A c \in Range(run) : result'[c] = Bad
  <2>1. Range(run) \subseteq Commands
    BY Places DEF ReadsIInv
  <2>2. QED BY <2>1 DEF CallFails, CallCancelled, clients
<1>2. Acked' = Acked /\ Distinct' /\ AnsweredSettled' /\ AnswersShow'
  BY <1>1, AnswersStand
<1>3. Credited' \subseteq Credited
  BY <1>1, <1>2, ResultsAssumption DEF Credited
<1>4. ValuesShow'
  BY <1>1, <1>3, ValuesKept
<1>5. ReadingsShow' /\ CallsFromRun'
  BY <1>1 DEF ReadingsShow, CallsFromRun
<1>6. StraysUnacked'
  <2>1. /\ Range(settled) \cap Range(run) = {} /\ Range(run) \subseteq Commands
        /\ Acked \subseteq Range(settled)
        /\ outstanding \subseteq Range(run) \ Unencodable
    BY <1>1, Places DEF ReadsIInv, AnsweredSettled, Acked, CallsFromRun
  <2>2. \A c \in stray :
           /\ c \in Commands /\ Changes(c) /\ c \notin Unencodable /\ c \notin Acked
           /\ c \in Range(settled)
    BY <1>1 DEF ReadsIInv, StraysUnacked
  <2>3. QED BY <1>1, <1>2, <2>1, <2>2 DEF StraysUnacked
<1>7. QED BY <1>2, <1>4, <1>5, <1>6 DEF ReadsIInv

\* A late effect is one nobody was told of, so it hides nothing acknowledged
\* from a reader.
LEMMA LateEffectReads ==
    ASSUME IInv, ReadsIInv, NEW c \in Commands, LateEffect(c)
    PROVE  ReadsIInv'
<1>1. /\ c \in stray /\ stray' = stray \ {c}
      /\ value' = [value EXCEPT ![NodeOf[c]] = c]
      /\ UNCHANGED <<arrived, answers, settled, run, result, phase, outstanding>>
      /\ value \in [Nodes -> Values] /\ NodeOf[c] \in Nodes
  BY CommandsAssumption DEF LateEffect, executor, clients, IInv, TypeOK
<1>2. Acked' = Acked /\ Distinct' /\ AnsweredSettled' /\ AnswersShow'
  BY <1>1, AnswersStand
<1>3. Credited' = Credited
  BY <1>1, <1>2 DEF Credited
<1>4. /\ Changes(c) /\ c \notin Unencodable /\ c \notin Acked
      /\ c \in Range(settled) \cup Range(run)
      /\ c \in Range(run) => phase = "stopped" \/ (phase = "answering" /\ result[c] = Bad)
  BY <1>1 DEF ReadsIInv, StraysUnacked
<1>5. c \notin Credited
  BY <1>4, ResultsAssumption DEF Credited
<1>6. ValuesShow'
  <2> SUFFICES ASSUME NEW n \in Nodes
               PROVE  /\ Shows(arrived, value'[n], n, Credited)
                      /\ value'[n] \in Range(settled) \cup Range(run) \cup {Initial}
    BY <1>1, <1>3 DEF ValuesShow
  <2>1. CASE n = NodeOf[c]
    <3>1. value'[n] = c
      BY <1>1, <2>1
    <3>2. c \in ChangesOf(n) \ Unencodable
      BY <1>4, <2>1 DEF ChangesOf
    <3>3. QED BY <1>4, <1>5, <3>1, <3>2 DEF Shows
  <2>2. CASE n # NodeOf[c]
    <3>1. value'[n] = value[n]
      BY <1>1, <2>2
    <3>2. QED BY <3>1 DEF ReadsIInv, ValuesShow
  <2>3. QED BY <2>1, <2>2
<1>7. ReadingsShow' /\ CallsFromRun' /\ StraysUnacked'
  BY <1>1, <1>2 DEF ReadsIInv, ReadingsShow, CallsFromRun, StraysUnacked
<1>8. QED BY <1>2, <1>6, <1>7 DEF ReadsIInv

LEMMA AnswerNextReads ==
    ASSUME IInv, ReadsIInv, AnswerNext
    PROVE  ReadsIInv'
<1> DEFINE h == Head(run)
           e == [cmd |-> h, result |-> result[h]]
<1>1. /\ phase = "answering" /\ run # <<>>
      /\ phase' = "answering" \/ run' = <<>>
      /\ phase' # "calling"
      /\ UNCHANGED <<arrived, result, outstanding, stray, value>>
  BY TailElements DEF AnswerNext, server, IInv, TypeOK
<1>2. /\ h \in Range(run) /\ h \in Commands
      /\ Range(run) = {h} \cup Range(run')
      /\ Range(settled') = Range(settled) \cup {h}
  <2>1. run \in Seq(Commands) /\ settled \in Seq(Commands)
    BY DEF IInv, TypeOK
  <2>2. h \in Commands /\ Range(run) = {h} \cup Range(Tail(run))
    BY <1>1, <2>1, RangeTail
  <2>3. Range(Append(settled, h)) = Range(settled) \cup {h}
    BY <2>1, <2>2, RangeAppend
  <2>4. QED BY <2>2, <2>3 DEF AnswerNext
<1>3. Range(answers') = Range(answers) \cup {e}
  <2> DEFINE E == [cmd : Commands, result : Results]
  <2>1. answers \in Seq(E) /\ e \in E
    BY <1>2 DEF IInv, TypeOK
  <2> HIDE DEF E, e
  <2>2. Range(Append(answers, e)) = Range(answers) \cup {e}
    BY <2>1, RangeAppend
  <2>3. answers' = Append(answers, e)
    BY DEF AnswerNext, e
  <2>4. QED BY <2>2, <2>3
<1>4. /\ Range(settled) \cap Range(run) = {} /\ Range(run) \subseteq Commands
      /\ \A c \in Range(settled), d \in Range(run) : Precedes(arrived, c, d)
      /\ \A c, g : g \in Range(settled) /\ Precedes(arrived, c, g) => c \in Range(settled)
      /\ Acked \subseteq Range(settled)
  BY Places DEF ReadsIInv, AnsweredSettled, Acked
<1>5. /\ \A c : c \in Acked' <=> c \in Acked \/ (c = h /\ result[h] = Good)
  BY <1>2, <1>3 DEF Acked
<1>6. Credited' \subseteq Credited
  BY <1>1, <1>2, <1>5 DEF Credited
<1>7. Distinct' /\ AnsweredSettled'
  BY <1>1, <1>2, <1>3 DEF ReadsIInv, Distinct, AnsweredSettled
<1>8. ValuesShow'
  BY <1>1, <1>2, <1>6, ValuesKept
<1>9. CallsFromRun'
  BY <1>1 DEF CallsFromRun
<1>10. StraysUnacked'
  <2> SUFFICES ASSUME NEW c \in stray
               PROVE  /\ c \in Commands /\ Changes(c) /\ c \notin Unencodable /\ c \notin Acked'
                      /\ c \in Range(settled') \cup Range(run')
                      /\ c \in Range(run') => phase' = "answering" /\ result[c] = Bad
    BY <1>1 DEF StraysUnacked
  <2>1. /\ c \in Commands /\ Changes(c) /\ c \notin Unencodable /\ c \notin Acked
        /\ c \in Range(settled) \cup Range(run)
        /\ c \in Range(run) => result[c] = Bad
    BY <1>1 DEF ReadsIInv, StraysUnacked
  <2>2. c = h => result[h] # Good
    BY <1>2, <2>1, ResultsAssumption
  <2>3. c \in Range(run') => phase' = "answering"
    BY <1>1 DEF Range
  <2>4. QED BY <1>2, <1>5, <2>1, <2>2, <2>3
<1>11. ReadingsShow'
  <2> SUFFICES ASSUME NEW g \in Range(run'), KindOf[g] = "Get", result[g] # Bad
               PROVE  /\ Shows(arrived, result[g], NodeOf[g], Acked')
                      /\ result[g] \in Range(settled') \cup {Initial}
    BY <1>1 DEF ReadingsShow
  <2> DEFINE v == result[g]
             n == NodeOf[g]
             B == Acked'
  <2>1. Shows(arrived, v, n, Acked) /\ v \in Range(settled) \cup {Initial}
    BY <1>1, <1>2 DEF ReadsIInv, ReadingsShow
  <2>2. KindOf[h] = "Get"
    BY <1>2, RunIsUniform
  <2>3. B \cap ChangesOf(n) \subseteq Acked
    BY <1>5, <2>2 DEF ChangesOf, Changes
  <2> HIDE DEF v, n, B
  <2>4. Shows(arrived, v, n, B)
    BY <2>1, <2>3, ShowsKept
  <2>5. QED BY <1>2, <2>1, <2>4 DEF v, n, B
<1>12. AnswersShow'
  <2> SUFFICES ASSUME NEW a \in Range(answers'), KindOf[a.cmd] = "Get", a.result # Bad
               PROVE  /\ Shows(arrived, a.result, NodeOf[a.cmd],
                               {d \in Acked' : Precedes(arrived, d, a.cmd)})
                      /\ a.result = Initial \/ Precedes(arrived, a.result, a.cmd)
    BY <1>1 DEF AnswersShow
  <2> DEFINE v == a.result
             n == NodeOf[a.cmd]
             A == {d \in Acked : Precedes(arrived, d, a.cmd)}
             B == {d \in Acked' : Precedes(arrived, d, a.cmd)}
  <2>1. CASE a \in Range(answers)
    <3>1. Shows(arrived, v, n, A) /\ (v = Initial \/ Precedes(arrived, v, a.cmd))
      BY <2>1 DEF ReadsIInv, AnswersShow
    <3>2. a.cmd \in Range(settled)
      BY <2>1 DEF ReadsIInv, AnsweredSettled
    <3>3. B \subseteq A
      BY <1>2, <1>4, <1>5, <3>2
    <3> HIDE DEF v, n, A, B
    <3>4. Shows(arrived, v, n, B)
      BY <3>1, <3>3, ShowsKept
    <3>5. QED BY <3>1, <3>4 DEF v, n, B
  <2>2. CASE a = e
    <3>1. a.cmd = h /\ v = result[h]
      BY <2>2
    <3>2. Shows(arrived, v, n, Acked) /\ v \in Range(settled) \cup {Initial}
      BY <1>1, <1>2, <3>1 DEF ReadsIInv, ReadingsShow
    <3>3. B \cap ChangesOf(n) \subseteq Acked
      BY <1>5, <3>1 DEF ChangesOf, Changes
    <3>4. v = Initial \/ Precedes(arrived, v, a.cmd)
      BY <1>2, <1>4, <3>1, <3>2
    <3> HIDE DEF v, n, A, B
    <3>5. Shows(arrived, v, n, B)
      BY <3>2, <3>3, ShowsKept
    <3>6. QED BY <3>4, <3>5 DEF v, n, B
  <2>3. QED BY <1>3, <2>1, <2>2
<1>13. QED BY <1>7, <1>8, <1>9, <1>10, <1>11, <1>12 DEF ReadsIInv

LEMMA LoseRunReads ==
    ASSUME IInv, ReadsIInv, LoseRun
    PROVE  ReadsIInv'
<1>1. /\ phase' = "reading" /\ run' = <<>> /\ Range(run') = {}
      /\ UNCHANGED <<arrived, answers, stray, value>>
      /\ Range(settled') = Range(settled) \cup Range(run)
  <2>1. Range(settled \o run) = Range(settled) \cup Range(run)
    BY RangeConcat DEF IInv, TypeOK
  <2>2. Range(<<>>) = {}
    BY DEF Range
  <2>3. QED BY <2>1, <2>2 DEF LoseRun
<1>2. Acked' = Acked /\ Distinct' /\ AnsweredSettled' /\ AnswersShow'
  BY <1>1, AnswersStand
<1>3. Credited' \subseteq Credited
  BY <1>1, <1>2 DEF Credited
<1>4. ValuesShow'
  BY <1>1, <1>3, ValuesKept
<1>5. ReadingsShow' /\ CallsFromRun'
  BY <1>1 DEF ReadingsShow, CallsFromRun
<1>6. StraysUnacked'
  BY <1>1, <1>2 DEF ReadsIInv, StraysUnacked
<1>7. QED BY <1>2, <1>4, <1>5, <1>6 DEF ReadsIInv

LEMMA NextReads == IInv /\ IInv' /\ ReadsIInv /\ [Next]_vars => ReadsIInv'
<1> SUFFICES ASSUME IInv, IInv', ReadsIInv, [Next]_vars PROVE ReadsIInv'
  OBVIOUS
<1>1. ASSUME NEW c \in Commands, StartRun(c), run = <<>>
      PROVE  /\ Range(run) \subseteq Range(run')
             /\ \/ phase' = "collecting"
                \/ /\ phase' \in {"calling", "answering"}
                   /\ outstanding' = Range(run') \ Unencodable
                   /\ \A d \in Range(run') : result'[d] = Bad
  <2>1. run' = <<c>> /\ Range(run') = {c} /\ Range(run) = {}
    BY <1>1 DEF StartRun, Range
  <2>2. CASE KindOf[c] \in {"Get", "Set"}
    BY <1>1, <2>1, <2>2 DEF StartRun
  <2>3. CASE KindOf[c] \notin {"Get", "Set"}
    <3>1. StartServing(run')
      BY <1>1, <2>1, <2>3 DEF StartRun
    <3>2. QED BY <2>1, <3>1 DEF StartServing
  <2>4. QED BY <2>2, <2>3
<1>2. CASE TakeHeld \/ TakePending
  <2>1. run = <<>> /\ phase = "reading"
        /\ UNCHANGED <<stray, value, arrived, settled, answers>>
    BY <1>2 DEF TakeHeld, TakePending, clients, IInv, Stage
  <2>2. \E c \in Commands : StartRun(c)
    BY <1>2, TailElements DEF TakeHeld, TakePending, IInv, TypeOK
  <2>3. QED BY <1>1, <2>1, <2>2, Starts
<1>3. CASE GrowRun
  <2>1. phase = "collecting" /\ phase' = "collecting"
        /\ UNCHANGED <<stray, value, arrived, settled, answers>>
    BY <1>3 DEF GrowRun, server, clients
  <2>2. Range(run) \subseteq Range(run')
    BY <1>3, RangeAppend, TailElements DEF GrowRun, IInv, TypeOK
  <2>3. QED BY <2>1, <2>2, Starts
<1>4. CASE HoldNext \/ CloseRun
  <2>1. phase = "collecting" /\ StartServing(run)
        /\ UNCHANGED <<run, stray, value, arrived, settled, answers>>
    BY <1>4 DEF HoldNext, CloseRun, clients
  <2>2. Range(run) \subseteq Commands
    BY Places DEF ReadsIInv
  <2>3. /\ phase' \in {"calling", "answering"}
        /\ outstanding' = Range(run') \ Unencodable
        /\ \A d \in Range(run') : result'[d] = Bad
    BY <2>1, <2>2 DEF StartServing
  <2>4. QED BY <2>1, <2>3, Starts
<1>5. CASE Complete \/ Cancel \/ Stop \/ CallReturns \/ UNCHANGED vars
  <2>1. /\ UNCHANGED <<arrived, answers, settled, run, stray, value, result, outstanding>>
        /\ \/ phase' = phase
           \/ phase = "calling" /\ phase' = "answering"
           \/ phase' = "stopped"
    BY <1>5 DEF Complete, Cancel, Stop, CallReturns, vars, executor, server, clients
  <2>2. QED BY <2>1, Passes
<1>6. QED
  BY <1>2, <1>3, <1>4, <1>5, EnqueueReads, ServerHandlesReads, CallEndsReads,
     LateEffectReads, AnswerNextReads, LoseRunReads
  DEF Next, Reader, Call

\* An answered Get shows the last acknowledged change of its node among the
\* commands that arrived before it, or one of those whose outcome nobody was
\* told, and never a later command: batching, failed calls and their late
\* effects are invisible to what clients read.
THEOREM ReadsAreInOrder == Spec => []ReadsFollowArrivalOrder
<1>1. IInv /\ ReadsIInv => ReadsFollowArrivalOrder
  BY ReadsInOrder DEF IInv, ReadsIInv
<1>2. QED BY <1>1, Invariance, ReadsInit, NextReads, PTL DEF Spec
=============================================================================
