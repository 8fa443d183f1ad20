---------------------------- MODULE RoutedProofs ----------------------------
(***************************************************************************)
(* Proofs about RoutedSession for every sequence of commands and every     *)
(* interleaving with the backends.                                         *)
(***************************************************************************)
EXTENDS RoutedSession, SequenceTheorems, TLAPS

USE RoutedAssumption DEF Backend

(***************************************************************************)
(* The inductive invariant.                                                *)
(***************************************************************************)
Operation == [op : {"write", "relay", "discard"}, to : Backend]

\* The part of the types that the argument needs.
QueueInv ==
  /\ commands \in Seq(Command)
  /\ taken \in Nat /\ fetched \in Nat /\ taken <= fetched /\ fetched <= Len(commands)
  /\ plan \in Seq(Operation)
  /\ inbox \in [Backend -> Seq(Nat)] /\ ran \in [Backend -> Seq(Nat)]

\* The k-th command is one that a replica may be given.
Allowed(k) ==
  /\ k \in 1 .. Len(commands)
  /\ commands[k] \in (readOnlyCommands \cup stateCommands) \ pinCommands

\* So are all that a replica has or had, and the one at hand if the plan still
\* has a write to the replica.
ReplicaInv ==
  /\ \A i \in 1 .. Len(ran["replica"]) : Allowed(ran["replica"][i])
  /\ \A i \in 1 .. Len(inbox["replica"]) : Allowed(inbox["replica"][i])
  /\ \A i \in 1 .. Len(plan) : plan[i] = Op("write", "replica") => Allowed(taken)

RoutedInv == QueueInv /\ ReplicaInv

\* Initially nothing was given to anyone.
LEMMA RoutedInit == Init => RoutedInv
BY DEF Init, RoutedInv, QueueInv, ReplicaInv

\* The plan of a command is made of operations, and writes to the replica only
\* for a read or a state command that does not pin.
LEMMA PlanWrites ==
  ASSUME NEW name \in Named
  PROVE  /\ Plan(name) \in Seq(Operation)
         /\ \A i \in 1 .. Len(Plan(name)) : Plan(name)[i] = Op("write", "replica") =>
              name \in (readOnlyCommands \cup stateCommands) \ pinCommands
<1> USE DEF Operation, Op
<1>1. CASE name \in pinCommands
  BY <1>1 DEF Plan
<1>2. CASE name \in stateCommands \ pinCommands
  <2>1. Plan(name) = stateCommand
    BY <1>2 DEF Plan
  <2>2. \A b \in Backend : {Op("write", b), Op("relay", b), Op("discard", b)} \subseteq Operation
    OBVIOUS
  <2>3. \A a, b, c, d \in Operation : <<a, b>> \in Seq(Operation) /\ <<a, b, c, d>> \in Seq(Operation)
    OBVIOUS
  <2>4. stateCommand \in Seq(Operation)
    <3> HIDE DEF Operation, Op
    <3> QED
      BY <2>2, <2>3 DEF stateCommand, Forward
  <2> QED
    BY <1>2, <2>1, <2>4
<1>3. CASE name \notin pinCommands \cup stateCommands
  <2>1. Plan(name) = Forward(Route(name))
    BY <1>3 DEF Plan
  <2>2. CASE Route(name) = "replica"
    BY <1>3, <2>1, <2>2 DEF Route, GetDirection, Forward
  <2>3. CASE Route(name) = "master"
    BY <2>1, <2>3 DEF Forward
  <2> QED
    BY <2>2, <2>3 DEF Route
<1> QED
  BY <1>1, <1>2, <1>3

\* A step that leaves the queues and the commands alone keeps the invariant.
LEMMA QueuesSame ==
  ASSUME RoutedInv, UNCHANGED <<commands, taken, fetched, plan, inbox, ran>>
  PROVE  RoutedInv'
BY DEF RoutedInv, QueueInv, ReplicaInv, Allowed

\* So does one that takes an operation other than a write off the plan.
LEMMA PlanShrinks ==
  ASSUME RoutedInv, plan # <<>>, plan' = plan \/ plan' = Tail(plan),
         UNCHANGED <<commands, taken, fetched, inbox, ran>>
  PROVE  RoutedInv'
<1>1. plan' \in Seq(Operation)
  <2>1. plan \in Seq(Operation)
    BY DEF RoutedInv, QueueInv
  <2>2. Tail(plan) \in Seq(Operation)
    BY <2>1, HeadTailProperties
  <2> QED
    BY <2>1, <2>2
<1>2. \A i \in 1 .. Len(plan') : \E j \in 1 .. Len(plan) : plan'[i] = plan[j]
  <2>1. CASE plan' = plan
    BY <2>1
  <2>2. CASE plan' = Tail(plan)
    <3> SUFFICES ASSUME NEW i \in 1 .. Len(plan')
                 PROVE  i + 1 \in 1 .. Len(plan) /\ plan'[i] = plan[i + 1]
      OBVIOUS
    <3> QED
      BY <2>2, HeadTailProperties DEF RoutedInv, QueueInv
  <2> QED
    BY <2>1, <2>2
<1> QED
  BY <1>1, <1>2, Zenon DEF RoutedInv, QueueInv, ReplicaInv, Allowed

\* A command that was allowed stays so when the client sends another.
LEMMA SendStep ==
  ASSUME RoutedInv, NEW name \in Command, Send(name)
  PROVE  RoutedInv'
<1>1. /\ commands' = Append(commands, name)
      /\ UNCHANGED <<taken, fetched, plan, inbox, ran>>
  BY DEF Send, backendVars
<1>2. /\ commands' \in Seq(Command) /\ Len(commands') = Len(commands) + 1
      /\ \A i \in 1 .. Len(commands) : commands'[i] = commands[i]
  BY <1>1, AppendProperties DEF RoutedInv, QueueInv
<1>3. Len(commands) \in Nat
  BY LenProperties DEF RoutedInv, QueueInv
<1>4. \A k : Allowed(k) => Allowed(k)'
  BY <1>2, <1>3 DEF Allowed
<1> QED
  BY <1>1, <1>2, <1>3, <1>4 DEF RoutedInv, QueueInv, ReplicaInv

\* run looks at the next command.
LEMMA NextCommandStep ==
  ASSUME RoutedInv, NextCommand
  PROVE  RoutedInv'
<1> DEFINE input == commands[taken + 1]
           name == readCommand(input)
<1>1. plan = <<>> /\ taken < fetched /\ UNCHANGED <<commands, fetched, inbox, ran>>
  BY DEF NextCommand, clientVars, backendVars
<1>2. taken + 1 \in 1 .. Len(commands)
  BY <1>1, LenProperties DEF RoutedInv, QueueInv
<1>3. CASE taken' \in {taken, taken + 1} /\ plan' = plan
  <2>1. Len(plan') = 0
    BY <1>1, <1>3
  <2> QED
    BY <1>1, <1>2, <1>3, <2>1 DEF RoutedInv, QueueInv, ReplicaInv, Allowed
<1>4. CASE name \in Named /\ taken' = taken + 1 /\ plan' = Plan(name)
  <2>1. name = input
    BY <1>4 DEF readCommand, Named, readOnlyCommands, stateCommands, pinCommands
  <2>2. \A i \in 1 .. Len(plan') : plan'[i] = Op("write", "replica") => Allowed(taken)'
    <3> HIDE DEF name
    <3> QED
      BY <1>1, <1>2, <1>4, <2>1, PlanWrites DEF Allowed
  <2>3. plan' \in Seq(Operation)
    <3> HIDE DEF name
    <3> QED
      BY <1>4, PlanWrites
  <2> QED
    BY <1>1, <1>2, <1>4, <2>2, <2>3 DEF RoutedInv, QueueInv, ReplicaInv, Allowed
<1> QED
  BY <1>3, <1>4 DEF NextCommand

\* backend.Write hands the command at hand to the backend the plan names.
LEMMA WriteStep ==
  ASSUME RoutedInv, NEW b \in Backend, WriteCommand(b)
  PROVE  RoutedInv'
<1>1. plan # <<>> /\ Head(plan) = Op("write", b)
      /\ UNCHANGED <<commands, taken, fetched, ran>>
  BY DEF WriteCommand, Doing, clientVars, backendVars
<1>2. CASE UNCHANGED <<inbox, plan>>
  BY <1>1, <1>2, QueuesSame
<1>3. CASE inbox' = [inbox EXCEPT ![b] = Append(@, taken)] /\ plan' = Tail(plan)
  <2>1. QueueInv' /\ Len(plan') = Len(plan) - 1
        /\ \A i \in 1 .. Len(plan') : plan'[i] = plan[i + 1]
    BY <1>1, <1>3, HeadTailProperties, AppendProperties DEF RoutedInv, QueueInv
  <2>2. plan[1] = Op("write", b) /\ Len(plan) \in Nat /\ 1 \in 1 .. Len(plan)
    BY <1>1, EmptySeq, LenProperties DEF RoutedInv, QueueInv
  <2>3. b = "replica" => Allowed(taken)
    BY <2>2 DEF RoutedInv, ReplicaInv
  <2>4. \A i \in 1 .. Len(inbox'["replica"]) : Allowed(inbox'["replica"][i])
    <3>1. CASE b = "master"
      BY <1>3, <3>1 DEF RoutedInv, QueueInv, ReplicaInv
    <3>2. CASE b = "replica"
      <4> DEFINE q == inbox["replica"]
      <4>1. q \in Seq(Nat) /\ inbox'["replica"] = Append(q, taken) /\ taken \in Nat
        BY <1>3, <3>2 DEF RoutedInv, QueueInv
      <4>2. \A i \in 1 .. Len(q) : Allowed(q[i])
        BY DEF RoutedInv, ReplicaInv
      <4> HIDE DEF q
      <4> QED
        BY <2>3, <3>2, <4>1, <4>2, AppendProperties, LenProperties
    <3> QED
      BY <3>1, <3>2
  <2>5. \A i \in 1 .. Len(plan') : plan'[i] = Op("write", "replica") => Allowed(taken)
    BY <2>1, <2>2 DEF RoutedInv, ReplicaInv
  <2> QED
    BY <1>1, <2>1, <2>4, <2>5 DEF RoutedInv, ReplicaInv, Allowed
<1> QED
  BY <1>2, <1>3 DEF WriteCommand

\* A backend takes the next command out of its inbox.
LEMMA ExecuteStep ==
  ASSUME RoutedInv, NEW b \in Backend, Execute(b)
  PROVE  RoutedInv'
<1> DEFINE q == inbox[b]
           r == ran[b]
<1>1. /\ q # <<>> /\ UNCHANGED <<commands, taken, fetched, plan>>
      /\ ran' = [ran EXCEPT ![b] = Append(r, Head(q))]
      /\ inbox' = [inbox EXCEPT ![b] = Tail(q)]
  BY DEF Execute, clientVars
<1>2. q \in Seq(Nat) /\ r \in Seq(Nat)
  BY DEF RoutedInv, QueueInv
<1>3. /\ Head(q) \in Nat /\ Tail(q) \in Seq(Nat) /\ Head(q) = q[1]
      /\ Len(q) \in Nat /\ 1 <= Len(q) /\ Len(Tail(q)) = Len(q) - 1
      /\ \A i \in 1 .. Len(Tail(q)) : Tail(q)[i] = q[i + 1]
  <2> HIDE DEF q
  <2> QED
    BY <1>1, <1>2, HeadTailProperties, LenProperties, EmptySeq
<1>4. /\ Append(r, Head(q)) \in Seq(Nat) /\ Len(r) \in Nat
      /\ Len(Append(r, Head(q))) = Len(r) + 1
      /\ \A i \in 1 .. Len(r) : Append(r, Head(q))[i] = r[i]
      /\ Append(r, Head(q))[Len(r) + 1] = Head(q)
  <2> HIDE DEF q, r
  <2> QED
    BY <1>2, <1>3, AppendProperties, LenProperties
<1>5. QueueInv'
  <2> HIDE DEF q, r
  <2> QED
    BY <1>1, <1>3, <1>4 DEF RoutedInv, QueueInv
<1>6. b = "replica" => /\ \A i \in 1 .. Len(r) : Allowed(r[i])
                       /\ \A i \in 1 .. Len(q) : Allowed(q[i])
  BY DEF RoutedInv, ReplicaInv
<1>7. b = "replica" => /\ \A i \in 1 .. Len(Append(r, Head(q))) : Allowed(Append(r, Head(q))[i])
                       /\ \A i \in 1 .. Len(Tail(q)) : Allowed(Tail(q)[i])
  <2> HIDE DEF q, r
  <2> QED
    BY <1>3, <1>4, <1>6
<1>8. /\ \A i \in 1 .. Len(ran'["replica"]) : Allowed(ran'["replica"][i])
      /\ \A i \in 1 .. Len(inbox'["replica"]) : Allowed(inbox'["replica"][i])
  <2>1. CASE b = "replica"
    BY <1>1, <1>7, <2>1 DEF RoutedInv, QueueInv
  <2>2. CASE b = "master"
    BY <1>1, <2>2 DEF RoutedInv, QueueInv, ReplicaInv
  <2> QED
    BY <2>1, <2>2
<1> QED
  BY <1>1, <1>5, <1>8 DEF RoutedInv, ReplicaInv, Allowed

\* A pipe of a pinned session writes to the master alone.
LEMMA PipeUpStep ==
  ASSUME RoutedInv, PipeUp
  PROVE  RoutedInv'
<1>1. plan = <<>> /\ taken < fetched /\ UNCHANGED <<commands, fetched, plan, ran>>
  BY DEF PipeUp, Piping, clientVars, backendVars
<1>2. CASE UNCHANGED <<taken, inbox>>
  BY <1>1, <1>2, QueuesSame
<1>3. CASE /\ taken' = taken + 1
           /\ inbox' = [inbox EXCEPT !["master"] = Append(@, taken + 1)]
  <2>1. QueueInv'
    BY <1>1, <1>3, AppendProperties DEF RoutedInv, QueueInv
  <2>2. inbox'["replica"] = inbox["replica"] /\ Len(plan') = 0
    BY <1>1, <1>3 DEF RoutedInv, QueueInv
  <2> QED
    BY <1>1, <2>1, <2>2 DEF RoutedInv, ReplicaInv, Allowed
<1> QED
  BY <1>2, <1>3 DEF PipeUp, NextChunk

\* Every step keeps the invariant.
LEMMA RoutedStep == RoutedInv /\ [Next]_vars => RoutedInv'
<1> SUFFICES ASSUME RoutedInv, [Next]_vars PROVE RoutedInv'
  OBVIOUS
<1>1. CASE UNCHANGED vars \/ ReadFails \/ IdleTimeout \/ PipeUpEnds \/ PipeDown
           \/ PipeDownEnds \/ PipesIdle \/ PinReturns \/ CloseSend \/ Reset \/ Receive
           \/ (\E b \in Backend : SendPush(b) \/ Disconnect(b))
  BY <1>1, QueuesSame
     DEF vars, ReadFails, IdleTimeout, PipeUpEnds, PipeDown, PipeDownEnds, PipesIdle,
         PinReturns, CloseSend, Reset, Receive, SendPush, Disconnect, clientVars,
         backendVars
<1>2. CASE Fill
  BY <1>2, LenProperties
     DEF Fill, sent, clientVars, backendVars, RoutedInv, QueueInv, ReplicaInv, Allowed
<1>3. ASSUME NEW b \in Backend, Relay(b) \/ Discard(b) PROVE RoutedInv'
  <2>1. plan # <<>> /\ UNCHANGED <<commands, taken, fetched, inbox, ran>>
    BY <1>3 DEF Relay, Discard, Doing, clientVars, backendVars
  <2>2. plan' = plan \/ plan' = Tail(plan)
    BY <1>3 DEF Relay, Discard, AfterFrame
  <2> QED
    BY <2>1, <2>2, PlanShrinks
<1> QED
  BY <1>1, <1>2, <1>3, NextCommandStep, WriteStep, PipeUpStep, SendStep, ExecuteStep
     DEF Next, Run

(***************************************************************************)
(* Type correctness.                                                       *)
(***************************************************************************)
\* Initially every variable has its type.
LEMMA TypeInit == Init => TypeOK
<1> SUFFICES ASSUME Init PROVE TypeOK
  OBVIOUS
<1>1. /\ commands \in Seq(Command) /\ got \in Seq(Frame) /\ plan \in Seq(Operation)
      /\ Len(commands) = 0 /\ Len(got) = 0 /\ Len(plan) = 0
  BY DEF Init
<1>2. conn \in [Backend -> {"open", "lost", "closed", "none"}]
  BY DEF Init, Backend
<1>3. /\ inbox \in [Backend -> Seq(Frame)] /\ ran \in [Backend -> Seq(Frame)]
      /\ outbox \in [Backend -> Seq(Frame)]
  BY DEF Init
<1>4. eof \in BOOLEAN /\ gone \in BOOLEAN /\ shut \in BOOLEAN
  BY Zenon DEF Init
<1>5. /\ sent <= MaxCommands /\ taken \in 0 .. fetched /\ fetched \in 0 .. sent
      /\ seen \in 0 .. Len(got) /\ Len(plan) <= 4 /\ pushes \in 0 .. MaxPushes
  BY <1>1, RoutedAssumption DEF Init, sent
<1>6. /\ mode \in {"run", "pinned", "closed"} /\ up \in {"run", "done"}
      /\ down \in {"run", "done"} /\ cause \in {"none", "eof", "error", "idle", "pipes"}
  BY DEF Init
<1> QED
  BY <1>1, <1>2, <1>3, <1>4, <1>5, <1>6, Zenon DEF TypeOK, Operation

\* run, pin and routedProxy close only what is open.
LEMMA ConnTypes ==
  ASSUME TypeOK, pin \/ \E why \in {"eof", "error", "idle", "pipes"} : Close(why)
  PROVE  /\ mode' \in {"run", "pinned", "closed"}
         /\ conn' \in [Backend -> {"open", "lost", "closed", "none"}]
BY DEF TypeOK, pin, Close

\* A plan has at most four operations.
LEMMA PlanLength ==
  ASSUME NEW name \in Named
  PROVE  Len(Plan(name)) \in 0 .. 4
BY DEF Plan, stateCommand, Forward

\* What is left of a plan is a plan.
LEMMA PlanTail ==
  ASSUME TypeOK, plan # <<>>, plan' = plan \/ plan' = Tail(plan)
  PROVE  plan' \in Seq(Operation) /\ Len(plan') <= 4
<1>1. plan \in Seq(Operation) /\ Len(plan) \in Nat /\ Len(plan) <= 4
  BY LenProperties DEF TypeOK, Operation
<1>2. Tail(plan) \in Seq(Operation) /\ Len(Tail(plan)) = Len(plan) - 1
  BY <1>1, HeadTailProperties
<1>3. Len(Tail(plan)) \in Nat
  BY <1>2, LenProperties
<1>4. CASE plan' = plan
  <2>1. Len(plan') = Len(plan) /\ plan' \in Seq(Operation)
    BY <1>1, <1>4
  <2> QED
    BY <1>1, <2>1
<1>5. CASE plan' = Tail(plan)
  <2>1. Len(plan') = Len(Tail(plan)) /\ plan' \in Seq(Operation)
    BY <1>2, <1>5
  <2> QED
    BY <1>1, <1>2, <1>3, <2>1
<1> QED
  BY <1>4, <1>5

\* A frame that is passed on is a frame.
LEMMA FramePassed ==
  ASSUME TypeOK, NEW b \in Backend, outbox[b] # <<>>,
         got' = Append(got, Head(outbox[b])) \/ got' = got,
         outbox' = [outbox EXCEPT ![b] = Tail(@)], seen' = seen
  PROVE  /\ got' \in Seq(Frame) /\ seen' \in 0 .. Len(got')
         /\ outbox' \in [Backend -> Seq(Frame)]
<1> DEFINE q == outbox[b]
<1>1. q \in Seq(Frame) /\ got \in Seq(Frame) /\ seen \in 0 .. Len(got)
  BY DEF TypeOK
<1>2. Head(q) \in Frame /\ Tail(q) \in Seq(Frame)
  <2> HIDE DEF q
  <2> QED
    BY <1>1, HeadTailProperties DEF q
<1>3. /\ Append(got, Head(q)) \in Seq(Frame)
      /\ Len(Append(got, Head(q))) = Len(got) + 1 /\ Len(got) \in Nat
  <2> HIDE DEF q
  <2> QED
    BY <1>1, <1>2, AppendProperties, LenProperties
<1>4. got' \in Seq(Frame) /\ seen' \in 0 .. Len(got')
  BY <1>1, <1>3
<1>5. outbox' \in [Backend -> Seq(Frame)]
  BY <1>2 DEF TypeOK
<1> QED
  BY <1>4, <1>5

\* Every step keeps the types.
LEMMA TypeStep == TypeOK /\ [Next]_vars => TypeOK'
<1> SUFFICES ASSUME TypeOK, [Next]_vars PROVE TypeOK'
  OBVIOUS
<1> USE DEF sent
<1>0. Len(commands) \in Nat
  BY LenProperties DEF TypeOK
<1>1. CASE UNCHANGED vars
  BY <1>1 DEF TypeOK, vars, clientVars, backendVars
<1>2. CASE Fill
  BY <1>0, <1>2 DEF TypeOK, Fill, clientVars, backendVars
<1>3. CASE NextCommand
  <2> DEFINE name == readCommand(commands[taken + 1])
  <2>1. UNCHANGED <<clientVars, got, fetched, up, down, shut, inbox, outbox, backendVars>>
    BY <1>3 DEF NextCommand
  <2>2. taken' \in 0 .. fetched
    <3>1. taken < fetched /\ (taken' = taken + 1 \/ taken' = taken)
      BY <1>3, Zenon DEF NextCommand
    <3>2. taken \in Nat /\ fetched \in Nat
      BY <1>0 DEF TypeOK
    <3> QED
      BY <3>1, <3>2
  <2>3. plan' \in Seq(Operation) /\ Len(plan') <= 4
    <3>1. CASE UNCHANGED plan
      BY <3>1 DEF TypeOK, Operation
    <3>2. CASE name \in Named /\ plan' = Plan(name)
      <4> HIDE DEF name
      <4> QED
        BY <3>2, PlanWrites, PlanLength
    <3> QED
      BY <1>3, <3>1, <3>2 DEF NextCommand
  <2>4. /\ mode' \in {"run", "pinned", "closed"}
        /\ conn' \in [Backend -> {"open", "lost", "closed", "none"}]
    <3>1. CASE UNCHANGED <<mode, conn>>
      BY <3>1 DEF TypeOK
    <3> QED
      BY <1>3, <3>1, ConnTypes DEF NextCommand
  <2>5. cause' \in {"none", "eof", "error", "idle", "pipes"}
    BY <1>3 DEF NextCommand, Close, TypeOK
  <2> QED
    BY <2>1, <2>2, <2>3, <2>4, <2>5 DEF TypeOK, Operation, clientVars, backendVars
<1>4. CASE ReadFails \/ IdleTimeout \/ PinReturns
  <2>1. \E why \in {"eof", "error", "idle", "pipes"} : Close(why)
    BY <1>4 DEF ReadFails, IdleTimeout, PinReturns
  <2>2. cause' \in {"none", "eof", "error", "idle", "pipes"}
    BY <2>1 DEF Close
  <2>3. UNCHANGED <<clientVars, got, fetched, taken, plan, up, down, shut, inbox, outbox,
                    backendVars>>
    BY <1>4 DEF ReadFails, IdleTimeout, PinReturns
  <2> QED
    BY <2>1, <2>2, <2>3, ConnTypes DEF TypeOK, clientVars, backendVars
<1>5. ASSUME NEW b \in Backend, WriteCommand(b) \/ Relay(b) \/ Discard(b) PROVE TypeOK'
  <2>1. UNCHANGED <<clientVars, fetched, taken, up, down, shut, backendVars>>
    BY <1>5 DEF WriteCommand, Relay, Discard
  <2>2. plan # <<>> /\ (plan' = plan \/ plan' = Tail(plan))
    BY <1>5 DEF WriteCommand, Relay, Discard, Doing, AfterFrame
  <2>3. /\ mode' \in {"run", "pinned", "closed"}
        /\ conn' \in [Backend -> {"open", "lost", "closed", "none"}]
        /\ cause' \in {"none", "eof", "error", "idle", "pipes"}
    <3>1. CASE UNCHANGED <<mode, cause, conn>>
      BY <3>1 DEF TypeOK
    <3>2. CASE Close("error")
      BY <3>2, ConnTypes DEF Close
    <3> QED
      BY <1>5, <3>1, <3>2 DEF WriteCommand, Relay, Discard
  <2>4. inbox' \in [Backend -> Seq(Frame)]
    <3>1. taken \in Frame
      BY <1>0 DEF TypeOK, Frame
    <3>2. CASE UNCHANGED inbox
      BY <3>2 DEF TypeOK
    <3>3. CASE inbox' = [inbox EXCEPT ![b] = Append(@, taken)]
      BY <3>1, <3>3, AppendProperties DEF TypeOK
    <3> QED
      BY <1>5, <3>2, <3>3 DEF WriteCommand, Relay, Discard
  <2>5. /\ got' \in Seq(Frame) /\ seen' \in 0 .. Len(got')
        /\ outbox' \in [Backend -> Seq(Frame)]
    <3>1. CASE UNCHANGED <<got, outbox>>
      BY <2>1, <3>1 DEF TypeOK, clientVars
    <3>2. CASE /\ outbox[b] # <<>> /\ outbox' = [outbox EXCEPT ![b] = Tail(@)]
               /\ got' = Append(got, Head(outbox[b])) \/ got' = got
      BY <2>1, <3>2, FramePassed, Zenon DEF clientVars
    <3> QED
      BY <1>5, <3>1, <3>2 DEF WriteCommand, Relay, Discard
  <2>6. plan' \in Seq(Operation) /\ Len(plan') <= 4
    BY <2>2, PlanTail
  <2> QED
    BY <2>1, <2>3, <2>4, <2>5, <2>6 DEF TypeOK, Operation, clientVars, backendVars
<1>6. CASE PipeUp
  <2>0. taken < fetched /\ (taken' = taken + 1 \/ taken' = taken)
    BY <1>6, Zenon DEF PipeUp, NextChunk
  <2>1. taken' \in 0 .. fetched
    <3>1. taken \in Nat /\ fetched \in Nat
      BY <1>0 DEF TypeOK
    <3> QED
      BY <2>0, <3>1
  <2>2. taken + 1 \in Frame
    BY <1>0, <1>6 DEF PipeUp, TypeOK, Frame
  <2>3. inbox' \in [Backend -> Seq(Frame)]
    <3>1. CASE UNCHANGED inbox
      BY <3>1 DEF TypeOK
    <3>2. CASE inbox' = [inbox EXCEPT !["master"] = Append(@, taken + 1)]
      BY <2>2, <3>2, AppendProperties DEF TypeOK
    <3> QED
      BY <1>6, <3>1, <3>2 DEF PipeUp, NextChunk
  <2>4. shut' \in BOOLEAN
    BY <1>6, Zenon DEF PipeUp, HalfClosed, TypeOK
  <2> QED
    BY <1>6, <2>1, <2>3, <2>4 DEF PipeUp, TypeOK, clientVars, backendVars
<1>7. CASE PipeUpEnds \/ PipeDownEnds \/ PipesIdle
  <2>1. /\ UNCHANGED <<clientVars, got, fetched, taken, mode, plan, cause, conn, inbox, outbox,
                       backendVars>>
        /\ up' = up \/ up' = "done"
        /\ down' = down \/ down' = "done"
    BY <1>7, Zenon DEF PipeUpEnds, PipeDownEnds, PipesIdle
  <2>2. shut' = TRUE \/ shut' = shut
    BY <1>7, Zenon DEF PipeUpEnds, PipeDownEnds, PipesIdle, HalfClosed
  <2>3. shut' \in BOOLEAN
    BY <2>2, Zenon DEF TypeOK
  <2> QED
    BY <2>1, <2>3 DEF TypeOK, clientVars, backendVars
<1>8. CASE PipeDown
  <2>1. CASE UNCHANGED <<got, outbox>>
    BY <1>8, <2>1 DEF PipeDown, TypeOK, clientVars, backendVars
  <2>2. CASE /\ outbox' = [outbox EXCEPT !["master"] = Tail(@)]
             /\ got' = Append(got, Head(outbox["master"]))
    <3>1. /\ got' \in Seq(Frame) /\ seen' \in 0 .. Len(got')
          /\ outbox' \in [Backend -> Seq(Frame)]
      BY <1>8, <2>2, FramePassed DEF PipeDown, clientVars
    <3> QED
      BY <1>8, <3>1 DEF PipeDown, TypeOK, clientVars, backendVars
  <2> QED
    BY <1>8, <2>1, <2>2 DEF PipeDown
<1>9. ASSUME NEW name \in Command, Send(name) PROVE TypeOK'
  <2>1. commands' \in Seq(Command) /\ Len(commands') = Len(commands) + 1
    BY <1>9, AppendProperties DEF Send, TypeOK
  <2> QED
    BY <1>0, <1>9, <2>1 DEF Send, TypeOK, backendVars
<1>10. CASE CloseSend \/ Reset
  <2>1. eof' \in BOOLEAN /\ gone' \in BOOLEAN
    BY <1>10, Zenon DEF CloseSend, Reset, TypeOK
  <2>2. UNCHANGED <<commands, seen, got, fetched, taken, mode, plan, up, down, cause, conn, shut,
                    inbox, outbox, backendVars>>
    BY <1>10, Zenon DEF CloseSend, Reset
  <2> QED
    BY <2>1, <2>2 DEF TypeOK, backendVars
<1>11. CASE Receive
  <2>1. Len(got) \in Nat
    BY LenProperties DEF TypeOK
  <2> QED
    BY <1>11, <2>1 DEF Receive, TypeOK, backendVars
<1>12. ASSUME NEW b \in Backend, Execute(b) PROVE TypeOK'
  <2> DEFINE q == inbox[b]
  <2>1. q \in Seq(Frame) /\ ran[b] \in Seq(Frame) /\ outbox[b] \in Seq(Frame)
    BY DEF TypeOK
  <2>2. Head(q) \in Frame /\ Tail(q) \in Seq(Frame)
    <3>1. q # <<>>
      BY <1>12 DEF Execute
    <3> HIDE DEF q
    <3> QED
      BY <2>1, <3>1, HeadTailProperties
  <2>3. Append(ran[b], Head(q)) \in Seq(Frame) /\ Append(outbox[b], Head(q)) \in Seq(Frame)
    <3> HIDE DEF q
    <3> QED
      BY <2>1, <2>2, AppendProperties
  <2>4. /\ inbox' \in [Backend -> Seq(Frame)] /\ ran' \in [Backend -> Seq(Frame)]
        /\ outbox' \in [Backend -> Seq(Frame)]
    BY <1>12, <2>2, <2>3, Zenon DEF Execute, TypeOK
  <2> QED
    BY <1>12, <2>4, ZenonT(30) DEF Execute, TypeOK, clientVars
<1>13. ASSUME NEW b \in Backend, SendPush(b) PROVE TypeOK'
  <2>1. Push \in Frame
    BY RoutedAssumption DEF Frame, Push
  <2>2. outbox[b] \in Seq(Frame)
    BY DEF TypeOK
  <2>3. Append(outbox[b], Push) \in Seq(Frame)
    BY <2>1, <2>2, AppendProperties
  <2>4. outbox' \in [Backend -> Seq(Frame)]
    BY <1>13, <2>3 DEF SendPush, TypeOK
  <2>5. pushes' \in 0 .. MaxPushes
    BY <1>13, RoutedAssumption DEF SendPush, TypeOK
  <2>6. UNCHANGED <<clientVars, got, fetched, taken, mode, plan, up, down, cause, conn, shut,
                    inbox, ran>>
    BY <1>13 DEF SendPush
  <2> QED
    BY <2>4, <2>5, <2>6 DEF TypeOK, clientVars
<1>14. ASSUME NEW b \in Backend, Disconnect(b) PROVE TypeOK'
  BY <1>14 DEF Disconnect, TypeOK, clientVars, backendVars
<1> QED
  BY <1>1, <1>2, <1>3, <1>4, <1>5, <1>6, <1>7, <1>8, <1>9, <1>10, <1>11, <1>12, <1>13,
     <1>14 DEF Next, Run

(***************************************************************************)
(* The theorems.                                                           *)
(***************************************************************************)
\* Every variable keeps its type, for every bound on commands and messages.
THEOREM TypeCorrect == Spec => []TypeOK
BY TypeInit, TypeStep, PTL DEF Spec

\* Whatever the client sends, in whatever order the backends answer and whenever
\* run pins the session: no replica is given a write, a transaction or a
\* subscription.
THEOREM ReplicaReadsOnly == Spec => []WritesToMaster
<1>1. RoutedInv => WritesToMaster
  <2> SUFFICES ASSUME RoutedInv, NEW k \in 1 .. sent,
                      NEW i \in 1 .. Len(ran["replica"]) + Len(inbox["replica"]),
                      (ran["replica"] \o inbox["replica"])[i] = k
               PROVE  commands[k] \in (readOnlyCommands \cup stateCommands) \ pinCommands
    BY Zenon DEF WritesToMaster
  <2> DEFINE r == ran["replica"]
             q == inbox["replica"]
  <2>1. r \in Seq(Nat) /\ q \in Seq(Nat)
    BY DEF RoutedInv, QueueInv
  <2>2. k = IF i <= Len(r) THEN r[i] ELSE q[i - Len(r)]
    <3> HIDE DEF r, q
    <3> QED
      BY <2>1, ConcatProperties DEF r, q
  <2>3. Len(r) \in Nat /\ Len(q) \in Nat
    <3> HIDE DEF r, q
    <3> QED
      BY <2>1, LenProperties
  <2>4. /\ \A j \in 1 .. Len(r) : Allowed(r[j])
        /\ \A j \in 1 .. Len(q) : Allowed(q[j])
        /\ i \in 1 .. Len(r) + Len(q)
    BY Zenon DEF RoutedInv, ReplicaInv
  <2>5. Allowed(k)
    <3> HIDE DEF r, q
    <3>1. CASE i <= Len(r)
      BY <2>2, <2>3, <2>4, <3>1
    <3>2. CASE ~(i <= Len(r))
      <4>1. i - Len(r) \in 1 .. Len(q)
        BY <2>3, <2>4, <3>2
      <4> QED
        BY <2>2, <2>4, <3>2, <4>1
    <3> QED
      BY <3>1, <3>2
  <2> QED
    BY <2>5 DEF Allowed
<1> QED
  BY <1>1, RoutedInit, RoutedStep, PTL DEF Spec
=============================================================================
