------------------------- MODULE RoutedOrderProofs --------------------------
(***************************************************************************)
(* A routed session looks to its client like one redis connection: replies *)
(* come in the order of the commands, none is lost, and every backend has  *)
(* the connection state the client has set up.  Proved of RoutedSession    *)
(* for every sequence of commands and every interleaving with the          *)
(* backends.                                                               *)
(***************************************************************************)
EXTENDS RoutedProofs

(***************************************************************************)
(* The plan of run is always one of these.                                 *)
(***************************************************************************)
Wm == Op("write", "master")
Wr == Op("write", "replica")
Rm == Op("relay", "master")
Rr == Op("relay", "replica")
Dr == Op("discard", "replica")

Shapes ==
  {<<>>, <<Wm>>, <<Wm, Rm>>, <<Rm>>, <<Wr, Rr>>, <<Rr>>,
   <<Wm, Wr, Rm, Dr>>, <<Wr, Rm, Dr>>, <<Rm, Dr>>, <<Dr>>}

\* The command at hand is still to be written to b; its reply is to come from b;
\* the client is still to get a reply to it.
ToWrite(p, b) ==
  IF b = "master" THEN p \in {<<Wm>>, <<Wm, Rm>>, <<Wm, Wr, Rm, Dr>>}
  ELSE p \in {<<Wr, Rr>>, <<Wm, Wr, Rm, Dr>>, <<Wr, Rm, Dr>>}
Expects(p, b) ==
  IF b = "master" THEN p \in {<<Rm>>, <<Wr, Rm, Dr>>, <<Rm, Dr>>}
  ELSE p \in {<<Rr>>, <<Rm, Dr>>, <<Dr>>}
Owed(p) == p \notin {<<>>, <<Dr>>}

PlanInv ==
  /\ plan \in Shapes
  /\ mode = "run" => plan # <<Wm>>
  /\ mode = "pinned" => plan \in {<<>>, <<Wm>>}
  /\ plan # <<>> => taken > 0 /\ Answers(taken)

-----------------------------------------------------------------------------
(***************************************************************************)
(* Queues of command numbers and pushes, as sets and as orders.            *)
(***************************************************************************)
Items(q) == {q[i] : i \in 1 .. Len(q)}

\* The replies in q come in the order of their commands, one each.
Ordered(q) ==
  \A i, j \in 1 .. Len(q) : i < j /\ q[i] # Push /\ q[j] # Push => q[i] < q[j]

\* All replies of S are to earlier commands than those of T.
Before(S, T) == \A x \in S, y \in T : x # Push /\ y # Push => x < y

\* What a backend was given.
Given(b) == Items(ran[b]) \cup Items(inbox[b])

\* A backend that the state of the client's connection is kept up to date on.
Serves(b) == b = "master" \/ HasReplica

\* A backend is given commands in order, each after all state commands before it;
\* one that serves has all state commands that were taken, but for the one that
\* is about to be written to it.
GivenInv(b) ==
  /\ Ordered(ran[b]) /\ Ordered(inbox[b])
  /\ Before(Items(ran[b]), Items(inbox[b]))
  /\ Given(b) \subseteq 1 .. taken
  /\ \A k \in Given(b) : StateBefore(k) \subseteq Given(b)
  /\ ToWrite(plan, b) => taken \notin Given(b)
  /\ Serves(b) => StateBefore(IF ToWrite(plan, b) THEN taken ELSE taken + 1) \subseteq Given(b)

StateInv ==
  /\ \A b \in Backend : GivenInv(b)
  /\ mode # "closed" /\ ToWrite(plan, "replica") => HasReplica
  /\ mode = "pinned" => ~HasReplica

\* The replies the client got.
GotInv ==
  /\ Ordered(got)
  /\ Items(got) \ {Push} \subseteq Answerable(taken)
  /\ \A k \in Items(got) \ {Push} : Answerable(k - 1) \subseteq Items(got)
  /\ cause = "eof" => mode = "closed" /\ taken = sent /\ Answerable(sent) \subseteq Items(got)

\* A backend replies to what it ran, and the client gets what a backend replied.
RanInv ==
  /\ \A b \in Backend : /\ Ordered(outbox[b])
                        /\ Items(outbox[b]) \ {Push} \subseteq Items(ran[b])
  /\ Items(got) \ {Push} \subseteq Items(ran["master"]) \cup Items(ran["replica"])

\* The session closes no backend that it waits for.
OpenInv ==
  mode # "closed" =>
    conn["master"] # "closed" /\ (mode = "run" => conn["replica"] # "closed")

\* While run routes, all commands are answered but the one at hand.
OwedInv ==
  mode # "closed" /\ ~Piping =>
    Answerable(IF Owed(plan) THEN taken - 1 ELSE taken) = Items(got) \ {Push}

\* Nothing is on its way but pushes and what concerns the command at hand.
Awaited(b) ==
  IF Expects(plan, b)
  THEN \/ Items(inbox[b]) = {taken} /\ Items(outbox[b]) \subseteq {Push}
       \/ /\ Items(inbox[b]) = {}
          /\ taken \in Items(outbox[b]) /\ Items(outbox[b]) \subseteq {Push, taken}
  ELSE Items(inbox[b]) = {} /\ Items(outbox[b]) \subseteq {Push}

Routing(b) == mode = "run" \/ (mode = "pinned" /\ plan # <<>> /\ b = "master")
WaitInv == \A b \in Backend : Routing(b) => Awaited(b)

\* Once the pipes run: what is not answered yet is with the master or on its way
\* from there, in order.
PipeInv ==
  Piping =>
    /\ Before(Items(got), Items(outbox["master"]))
    /\ Before(Items(got), Items(inbox["master"]))
    /\ Before(Items(outbox["master"]), Items(inbox["master"]))
    /\ Items(outbox["master"]) \ {Push} \subseteq Answerable(taken)
    /\ Answerable(taken) \subseteq
         Items(got) \cup Items(outbox["master"]) \cup Items(inbox["master"])

ReplyInv == GotInv /\ RanInv /\ OpenInv /\ OwedInv /\ WaitInv /\ PipeInv

-----------------------------------------------------------------------------
(***************************************************************************)
(* The steps of a session, as far as the invariants see them.              *)
(***************************************************************************)
Quiet == UNCHANGED <<commands, got, taken, mode, plan, cause, conn, inbox, outbox, ran>>

\* The session is closed; at io.EOF only between two commands.
Ends ==
  /\ mode # "closed"
  /\ \E why \in {"eof", "error", "idle", "pipes"} :
       Close(why) /\ (why = "eof" => mode = "run" /\ plan = <<>> /\ taken = sent)
  /\ UNCHANGED <<commands, got, taken, plan, inbox, outbox, ran>>

BetweenCommands == mode = "run" /\ plan = <<>>

\* run takes a command that goes to no backend.
Skips ==
  /\ BetweenCommands /\ taken < sent /\ taken' = taken + 1
  /\ \/ commands[taken + 1] = "malformed" /\ Close("error")
     \/ commands[taken + 1] \in {"empty", "noName"} /\ UNCHANGED <<mode, cause, conn>>
  /\ UNCHANGED <<commands, got, plan, inbox, outbox, ran>>

\* It meets an inline command.
Inlines ==
  /\ BetweenCommands /\ pin
  /\ UNCHANGED <<commands, got, taken, plan, cause, inbox, outbox, ran>>

\* It takes one that has a name.
Takes(name) ==
  /\ BetweenCommands /\ taken < sent /\ commands[taken + 1] = name
  /\ taken' = taken + 1 /\ plan' = Plan(name)
  /\ IF name \in pinCommands THEN pin ELSE UNCHANGED <<mode, conn>>
  /\ UNCHANGED <<commands, got, cause, inbox, outbox, ran>>

\* The operations of the plan succeed.
Writes(b) ==
  /\ Doing("write", b) /\ plan' = Tail(plan)
  /\ inbox' = [inbox EXCEPT ![b] = Append(@, taken)]
  /\ UNCHANGED <<commands, got, taken, mode, cause, conn, outbox, ran>>

Reads(b) ==
  /\ outbox[b] # <<>> /\ plan' = AfterFrame(Head(outbox[b]))
  /\ outbox' = [outbox EXCEPT ![b] = Tail(@)]
  /\ UNCHANGED <<commands, taken, mode, cause, conn, inbox, ran>>

Relays(b) == Doing("relay", b) /\ Reads(b) /\ got' = Append(got, Head(outbox[b]))
Discards(b) == Doing("discard", b) /\ Reads(b) /\ got' = got

\* The pipes of a pinned session pass something on.
FeedsUp ==
  /\ Piping /\ taken < sent /\ taken' = taken + 1
  /\ inbox' = [inbox EXCEPT !["master"] = Append(@, taken + 1)]
  /\ UNCHANGED <<commands, got, mode, plan, cause, conn, outbox, ran>>

FeedsDown ==
  /\ Piping /\ outbox["master"] # <<>>
  /\ got' = Append(got, Head(outbox["master"]))
  /\ outbox' = [outbox EXCEPT !["master"] = Tail(@)]
  /\ UNCHANGED <<commands, taken, mode, plan, cause, conn, inbox, ran>>

Sends ==
  /\ mode # "closed" /\ \E name \in Command : commands' = Append(commands, name)
  /\ UNCHANGED <<got, taken, mode, plan, cause, conn, inbox, outbox, ran>>

-----------------------------------------------------------------------------
(***************************************************************************)
(* Facts about the plan.                                                   *)
(***************************************************************************)
\* The operations differ.
LEMMA OpsDiffer ==
  /\ Wm # Wr /\ Wm # Rm /\ Wm # Rr /\ Wm # Dr /\ Wr # Rm /\ Wr # Rr /\ Wr # Dr
  /\ Rm # Rr /\ Rm # Dr /\ Rr # Dr
  /\ \A b \in Backend : /\ Op("write", b) = IF b = "master" THEN Wm ELSE Wr
                        /\ Op("relay", b) = IF b = "master" THEN Rm ELSE Rr
                        /\ Op("discard", b) \notin {Wm, Wr, Rm, Rr}
                        /\ Op("discard", b) = Dr => b = "replica"
BY DEF Wm, Wr, Rm, Rr, Dr, Op, Backend

\* A write to b comes before everything else that has to do with b; after it b's
\* reply is expected, unless the session is being pinned.
LEMMA AfterWrite ==
  ASSUME NEW p \in Shapes, p # <<>>, NEW b \in Backend, Head(p) = Op("write", b)
  PROVE  /\ Tail(p) \in Shapes
         /\ ToWrite(p, b) /\ ~ToWrite(Tail(p), b)
         /\ ~Expects(p, b) /\ (Expects(Tail(p), b) <=> p # <<Wm>>)
         /\ \A c \in Backend \ {b} : /\ ToWrite(Tail(p), c) <=> ToWrite(p, c)
                                     /\ Expects(Tail(p), c) <=> Expects(p, c)
         /\ Owed(p) /\ (Owed(Tail(p)) <=> p # <<Wm>>)
         /\ p = <<Wm>> => b = "master" /\ Tail(p) = <<>>
         /\ p # <<Wm>> => Tail(p) # <<Wm>> /\ Tail(p) # <<>>
<1> USE DEF ToWrite, Expects, Owed, Shapes, Backend
<1>1. Head(p) = IF b = "master" THEN Wm ELSE Wr
  BY OpsDiffer
<1>2. CASE p = <<Wm>>
  BY <1>1, <1>2, OpsDiffer
<1>3. CASE p = <<Wm, Rm>>
  BY <1>1, <1>3, OpsDiffer
<1>4. CASE p = <<Wr, Rr>>
  BY <1>1, <1>4, OpsDiffer
<1>5. CASE p = <<Wm, Wr, Rm, Dr>>
  BY <1>1, <1>5, OpsDiffer
<1>6. CASE p = <<Wr, Rm, Dr>>
  BY <1>1, <1>6, OpsDiffer
<1>7. p \notin {<<Rm>>, <<Rr>>, <<Rm, Dr>>, <<Dr>>}
  BY <1>1, OpsDiffer
<1> QED
  BY <1>2, <1>3, <1>4, <1>5, <1>6, <1>7, Zenon

\* A relay ends what is owed to the client; no write is left then.
LEMMA AfterRelay ==
  ASSUME NEW p \in Shapes, p # <<>>, NEW b \in Backend, Head(p) = Op("relay", b)
  PROVE  /\ Tail(p) \in {<<>>, <<Dr>>}
         /\ Expects(p, b) /\ ~Expects(Tail(p), b)
         /\ \A c \in Backend \ {b} : Expects(Tail(p), c) <=> Expects(p, c)
         /\ \A c \in Backend : ~ToWrite(p, c) /\ ~ToWrite(Tail(p), c)
         /\ Owed(p) /\ ~Owed(Tail(p))
         /\ p # <<Wm>> /\ Tail(p) # <<Wm>>
<1> USE DEF ToWrite, Expects, Owed, Shapes, Backend
<1>1. Head(p) = IF b = "master" THEN Rm ELSE Rr
  BY OpsDiffer
<1>2. CASE p = <<Rm>>
  BY <1>1, <1>2, OpsDiffer
<1>3. CASE p = <<Rr>>
  BY <1>1, <1>3, OpsDiffer
<1>4. CASE p = <<Rm, Dr>>
  BY <1>1, <1>4, OpsDiffer
<1>5. p \notin {<<Wm>>, <<Wm, Rm>>, <<Wr, Rr>>, <<Wm, Wr, Rm, Dr>>, <<Wr, Rm, Dr>>, <<Dr>>}
  BY <1>1, OpsDiffer
<1> QED
  BY <1>2, <1>3, <1>4, <1>5, Zenon

\* The reply of the replica is dropped last.
LEMMA AfterDiscard ==
  ASSUME NEW p \in Shapes, p # <<>>, NEW b \in Backend, Head(p) = Op("discard", b)
  PROVE  /\ b = "replica" /\ p = <<Dr>> /\ Tail(p) = <<>>
         /\ Expects(p, "replica") /\ ~Expects(p, "master")
         /\ \A c \in Backend : ~ToWrite(p, c) /\ ~ToWrite(<<>>, c) /\ ~Expects(<<>>, c)
         /\ ~Owed(p) /\ ~Owed(<<>>) /\ p # <<Wm>> /\ <<>> # <<Wm>>
<1> USE DEF ToWrite, Expects, Owed, Shapes, Backend
<1>1. Head(p) \notin {Wm, Wr, Rm, Rr} /\ (Head(p) = Dr => b = "replica")
  BY OpsDiffer
<1>2. p = <<Dr>>
  BY <1>1
<1> QED
  BY <1>1, <1>2, OpsDiffer

\* What the plan of a command looks like before anything of it is done.
LEMMA NewPlan ==
  ASSUME NEW name \in Named
  PROVE  /\ Plan(name) \in Shapes /\ Plan(name) # <<>> /\ Owed(Plan(name))
         /\ \A b \in Backend : ~Expects(Plan(name), b)
         /\ Plan(name) = <<Wm>> <=> name \in pinCommands
         /\ ToWrite(Plan(name), "replica") => HasReplica
         /\ name \in stateCommands => /\ ToWrite(Plan(name), "master")
                                      /\ HasReplica => ToWrite(Plan(name), "replica")
<1> USE DEF ToWrite, Expects, Owed, Shapes, Backend
<1>1. CASE name \in pinCommands
  <2>1. Plan(name) = <<Wm>> /\ name \notin stateCommands
    BY <1>1 DEF Plan, Wm, pinCommands, stateCommands
  <2> QED
    BY <1>1, <2>1, OpsDiffer
<1>2. CASE name \in stateCommands \ pinCommands
  <2>1. Plan(name) = IF HasReplica THEN <<Wm, Wr, Rm, Dr>> ELSE <<Wm, Rm>>
    BY <1>2 DEF Plan, stateCommand, Forward, Wm, Wr, Rm, Dr
  <2> QED
    BY <1>2, <2>1, OpsDiffer
<1>3. CASE name \notin pinCommands \cup stateCommands
  <2>1. Plan(name) = IF Route(name) = "replica" THEN <<Wr, Rr>> ELSE <<Wm, Rm>>
    BY <1>3 DEF Plan, Forward, Route, Wm, Wr, Rm, Rr
  <2>2. Route(name) = "replica" => HasReplica
    BY DEF Route
  <2> QED
    BY <1>3, <2>1, <2>2, OpsDiffer
<1> QED
  BY <1>1, <1>2, <1>3

-----------------------------------------------------------------------------
(***************************************************************************)
(* Facts about queues.                                                     *)
(***************************************************************************)
\* An empty queue has nothing in it.
LEMMA EmptyQueue ==
  /\ Items(<<>>) = {} /\ Ordered(<<>>)
  /\ \A q \in Seq(Nat) : Items(q) \subseteq Nat /\ (Items(q) = {} => q = <<>>)
<1>1. Items(<<>>) = {} /\ Ordered(<<>>)
  BY DEF Items, Ordered
<1>2. ASSUME NEW q \in Seq(Nat)
      PROVE  Items(q) \subseteq Nat /\ (Items(q) = {} => q = <<>>)
  <2>1. Items(q) \subseteq Nat
    BY ElementOfSeq DEF Items
  <2>2. q # <<>> => q[1] \in Items(q)
    BY EmptySeq, LenProperties DEF Items
  <2> QED
    BY <2>1, <2>2
<1> QED
  BY <1>1, <1>2

\* What is appended comes last.
LEMMA QueueAppend ==
  ASSUME NEW q \in Seq(Nat), NEW k \in Nat
  PROVE  /\ Items(Append(q, k)) = Items(q) \cup {k}
         /\ Ordered(q) /\ Before(Items(q), {k}) => Ordered(Append(q, k))
<1> DEFINE a == Append(q, k)
<1>1. /\ Len(a) = Len(q) + 1 /\ Len(q) \in Nat
      /\ \A i \in 1 .. Len(q) : a[i] = q[i]
      /\ a[Len(q) + 1] = k
  BY AppendProperties, LenProperties
<1> HIDE DEF a
<1>2. Items(a) = Items(q) \cup {k}
  <2>1. \A i \in 1 .. Len(a) : a[i] \in Items(q) \cup {k}
    BY <1>1 DEF Items
  <2>2. \A i \in 1 .. Len(q) : q[i] \in Items(a)
    <3> SUFFICES ASSUME NEW i \in 1 .. Len(q) PROVE q[i] \in Items(a)
      OBVIOUS
    <3>1. i \in 1 .. Len(a) /\ a[i] = q[i]
      BY <1>1
    <3> QED
      BY <3>1 DEF Items
  <2>3. k \in Items(a)
    <3>1. Len(q) + 1 \in 1 .. Len(a)
      BY <1>1
    <3> QED
      BY <1>1, <3>1 DEF Items
  <2> QED
    BY <2>1, <2>2, <2>3, Zenon DEF Items
<1>3. ASSUME Ordered(q), Before(Items(q), {k}) PROVE Ordered(a)
  <2> SUFFICES ASSUME NEW i \in 1 .. Len(a), NEW j \in 1 .. Len(a), i < j,
                      a[i] # Push, a[j] # Push
               PROVE  a[i] < a[j]
    BY DEF Ordered
  <2>1. i \in 1 .. Len(q) /\ a[i] = q[i] /\ q[i] \in Items(q)
    BY <1>1 DEF Items
  <2>2. CASE j \in 1 .. Len(q)
    BY <1>1, <1>3, <2>1, <2>2 DEF Ordered
  <2>3. CASE j = Len(q) + 1
    BY <1>1, <1>3, <2>1, <2>3 DEF Before
  <2> QED
    BY <1>1, <2>2, <2>3
<1> QED
  BY <1>2, <1>3 DEF a

\* What is taken comes first.
LEMMA QueueTail ==
  ASSUME NEW q \in Seq(Nat), q # <<>>
  PROVE  /\ Head(q) \in Nat /\ Tail(q) \in Seq(Nat)
         /\ Items(q) = {Head(q)} \cup Items(Tail(q))
         /\ Ordered(q) => Ordered(Tail(q)) /\ Before({Head(q)}, Items(Tail(q)))
<1> DEFINE t == Tail(q)
<1>1. /\ Head(q) \in Nat /\ t \in Seq(Nat) /\ Head(q) = q[1]
      /\ Len(q) \in Nat /\ Len(q) >= 1 /\ Len(t) = Len(q) - 1
      /\ \A i \in 1 .. Len(t) : t[i] = q[i + 1]
  BY HeadTailProperties, LenProperties, EmptySeq
<1> HIDE DEF t
<1>2. Items(q) = {Head(q)} \cup Items(t)
  <2>1. \A i \in 1 .. Len(t) : t[i] \in Items(q)
    <3> SUFFICES ASSUME NEW i \in 1 .. Len(t) PROVE t[i] \in Items(q)
      OBVIOUS
    <3>1. i + 1 \in 1 .. Len(q) /\ t[i] = q[i + 1]
      BY <1>1
    <3> QED
      BY <3>1 DEF Items
  <2>2. Head(q) \in Items(q)
    <3>1. 1 \in 1 .. Len(q)
      BY <1>1
    <3> QED
      BY <1>1, <3>1 DEF Items
  <2>3. \A i \in 1 .. Len(q) : q[i] \in {Head(q)} \cup Items(t)
    <3> SUFFICES ASSUME NEW i \in 1 .. Len(q), i # 1 PROVE q[i] \in Items(t)
      BY <1>1
    <3>1. i - 1 \in 1 .. Len(t) /\ t[i - 1] = q[i]
      BY <1>1
    <3> QED
      BY <3>1 DEF Items
  <2> QED
    BY <2>1, <2>2, <2>3, Zenon DEF Items
<1>3. ASSUME Ordered(q) PROVE Ordered(t)
  <2> SUFFICES ASSUME NEW i \in 1 .. Len(t), NEW j \in 1 .. Len(t), i < j,
                      t[i] # Push, t[j] # Push
               PROVE  t[i] < t[j]
    BY DEF Ordered
  <2>1. i + 1 \in 1 .. Len(q) /\ j + 1 \in 1 .. Len(q) /\ i + 1 < j + 1
    BY <1>1
  <2>2. t[i] = q[i + 1] /\ t[j] = q[j + 1]
    BY <1>1
  <2> QED
    BY <1>3, <2>1, <2>2 DEF Ordered
<1>4. ASSUME Ordered(q) PROVE Before({Head(q)}, Items(t))
  <2> SUFFICES ASSUME NEW j \in 1 .. Len(t), Head(q) # Push, t[j] # Push
               PROVE  Head(q) < t[j]
    BY DEF Before, Items
  <2>1. j + 1 \in 1 .. Len(q) /\ 1 \in 1 .. Len(q) /\ 1 < j + 1 /\ t[j] = q[j + 1]
    BY <1>1
  <2> QED
    BY <1>1, <1>4, <2>1, Zenon DEF Ordered
<1> QED
  BY <1>1, <1>2, <1>3, <1>4 DEF t

\* The queues hold numbers.
LEMMA QueueTypes ==
  ASSUME TypeOK
  PROVE  /\ got \in Seq(Nat)
         /\ \A b \in Backend : ran[b] \in Seq(Nat) /\ inbox[b] \in Seq(Nat) /\ outbox[b] \in Seq(Nat)
         /\ taken \in Nat /\ fetched \in Nat /\ sent \in Nat /\ taken <= fetched /\ fetched <= sent
<1>1. Frame \subseteq Nat
  BY RoutedAssumption DEF Frame
<1>2. \A q \in Seq(Frame) : q \in Seq(Nat)
  BY <1>1, SeqMonotonic, Zenon
<1>3. sent \in Nat
  BY LenProperties DEF TypeOK, sent
<1> QED
  BY <1>2, <1>3 DEF TypeOK

-----------------------------------------------------------------------------
(***************************************************************************)
(* The plan stays one of its shapes.                                       *)
(***************************************************************************)
\* What a command is does not change when others follow it.
LEMMA CommandsKept ==
  ASSUME TypeOK, NEW name \in Command, commands' = Append(commands, name)
  PROVE  /\ sent' = sent + 1
         /\ \A k \in 1 .. sent : commands'[k] = commands[k]
BY AppendProperties, LenProperties DEF TypeOK, sent

\* So nothing that is said of the commands so far changes.
LEMMA SameSoFar ==
  ASSUME TypeOK, \/ commands' = commands
                 \/ \E name \in Command : commands' = Append(commands, name)
  PROVE  /\ sent' >= sent /\ sent' \in Nat
         /\ \A k \in 1 .. sent : Answers(k)' <=> Answers(k)
         /\ \A n \in 0 .. sent : Answerable(n)' = Answerable(n)
         /\ \A n \in 0 .. sent + 1 : StateBefore(n)' = StateBefore(n)
<1>0. sent \in Nat
  BY QueueTypes
<1>1. /\ sent' >= sent /\ sent' \in Nat
      /\ \A k \in 1 .. sent : commands'[k] = commands[k]
  <2>1. CASE commands' = commands
    BY <1>0, <2>1 DEF sent
  <2>2. CASE \E name \in Command : commands' = Append(commands, name)
    <3>1. PICK name \in Command : commands' = Append(commands, name)
      BY <2>2
    <3>2. sent' = sent + 1 /\ \A k \in 1 .. sent : commands'[k] = commands[k]
      BY <3>1, CommandsKept, Zenon
    <3> QED
      BY <1>0, <3>2
  <2> QED
    BY <2>1, <2>2
<1>2. \A k \in 1 .. sent : Answers(k)' <=> Answers(k)
  BY <1>1 DEF Answers
<1>3. \A n \in 0 .. sent : Answerable(n)' = Answerable(n)
  BY <1>0, <1>2 DEF Answerable
<1>4. \A n \in 0 .. sent + 1 : StateBefore(n)' = StateBefore(n)
  BY <1>0, <1>1 DEF StateBefore
<1> QED
  BY <1>1, <1>2, <1>3, <1>4

\* What readCommand makes of an input tells what kind of input it was.
LEMMA InputNames ==
  ASSUME NEW input \in Command
  PROVE  /\ readCommand(input) = "error" => input = "malformed"
         /\ readCommand(input) = "emptyName" => input \in {"empty", "noName"}
<1>1. input \notin {"error", "emptyName"}
  BY RoutedAssumption DEF Named, readOnlyCommands, stateCommands, pinCommands
<1>2. CASE input = "inline"
  BY <1>2 DEF readCommand
<1>3. CASE input = "malformed"
  BY <1>3 DEF readCommand
<1>4. CASE input \in {"empty", "noName"}
  BY <1>4 DEF readCommand
<1>5. CASE input \notin {"inline", "malformed", "empty", "noName"}
  BY <1>1, <1>5 DEF readCommand
<1> QED
  BY <1>2, <1>3, <1>4, <1>5

\* Every step is one of those, or a step of a backend.
LEMMA StepKinds ==
  ASSUME TypeOK, [Next]_vars
  PROVE  \/ Quiet \/ Ends \/ Skips \/ Inlines \/ (\E name \in Named : Takes(name))
         \/ (\E b \in Backend : Writes(b) \/ Relays(b) \/ Discards(b))
         \/ FeedsUp \/ FeedsDown \/ Sends
         \/ (\E b \in Backend : Execute(b) \/ SendPush(b) \/ Disconnect(b))
<1> USE DEF clientVars, backendVars
<1>0. taken < fetched => taken < sent
  BY QueueTypes
<1>1. CASE UNCHANGED vars \/ Fill \/ PipeUpEnds \/ PipeDownEnds \/ PipesIdle
           \/ CloseSend \/ Reset \/ Receive
  BY <1>1, Zenon DEF Quiet, vars, Fill, PipeUpEnds, PipeDownEnds, PipesIdle, CloseSend, Reset, Receive
<1>2. CASE NextCommand
  <2> DEFINE input == commands[taken + 1]
  <2>0. /\ BetweenCommands /\ taken < sent
        /\ UNCHANGED <<commands, got, inbox, outbox, ran>>
    BY <1>0, <1>2 DEF NextCommand, BetweenCommands
  <2>5. input \in Command
    BY <2>0, QueueTypes, ElementOfSeq DEF TypeOK, sent
  <2>1. CASE readCommand(input) = "errInlineCommand" /\ pin /\ UNCHANGED <<taken, plan, cause>>
    BY <2>0, <2>1, Zenon DEF Inlines
  <2>2. CASE /\ readCommand(input) = "error" /\ Close("error")
             /\ taken' = taken + 1 /\ UNCHANGED plan
    <3>1. input = "malformed"
      BY <2>5, <2>2, InputNames
    <3> QED
      BY <2>0, <2>2, <3>1, Zenon DEF Skips
  <2>3. CASE /\ readCommand(input) = "emptyName"
             /\ taken' = taken + 1 /\ UNCHANGED <<mode, plan, cause, conn>>
    <3>1. input \in {"empty", "noName"}
      BY <2>5, <2>3, InputNames
    <3> QED
      BY <2>0, <2>3, <3>1, Zenon DEF Skips
  <2>4. CASE /\ readCommand(input) \in Named
             /\ taken' = taken + 1 /\ plan' = Plan(readCommand(input))
             /\ IF readCommand(input) \in pinCommands THEN pin ELSE UNCHANGED <<mode, conn>>
             /\ UNCHANGED cause
    <3>1. readCommand(input) = input
      BY <2>4 DEF readCommand, Named, readOnlyCommands, stateCommands, pinCommands
    <3>2. input \in Named /\ Takes(input)
      BY <2>0, <2>4, <3>1, Zenon DEF Takes
    <3> QED
      BY <3>2, Zenon
  <2> QED
    BY <1>2, <2>1, <2>2, <2>3, <2>4, Zenon DEF NextCommand
<1>3. CASE ReadFails \/ IdleTimeout \/ PinReturns
  <2>1. \/ mode = "run" /\ plan = <<>> /\ taken = sent /\ Close("eof")
        \/ mode # "closed" /\ \E why \in {"error", "idle", "pipes"} : Close(why)
    BY <1>3 DEF ReadFails, IdleTimeout, PinReturns, Piping
  <2>2. UNCHANGED <<commands, got, taken, plan, inbox, outbox, ran>>
    BY <1>3, Zenon DEF ReadFails, IdleTimeout, PinReturns
  <2> QED
    BY <2>1, <2>2 DEF Ends
<1>4. ASSUME NEW b \in Backend, WriteCommand(b) \/ Relay(b) \/ Discard(b)
      PROVE  Writes(b) \/ Relays(b) \/ Discards(b) \/ Ends
  <2>1. CASE WriteCommand(b)
    BY <2>1 DEF WriteCommand, Writes, Ends, Doing
  <2>2. CASE Relay(b)
    BY <2>2 DEF Relay, Relays, Reads, Ends, Doing
  <2>3. CASE Discard(b)
    BY <2>3 DEF Discard, Discards, Reads, Ends, Doing
  <2> QED
    BY <1>4, <2>1, <2>2, <2>3
<1>5. CASE PipeUp
  BY <1>0, <1>5 DEF PipeUp, FeedsUp, Quiet, NextChunk
<1>6. CASE PipeDown
  BY <1>6 DEF PipeDown, FeedsDown, Quiet
<1>7. ASSUME NEW name \in Command, Send(name) PROVE Sends
  BY <1>7, Zenon DEF Send, Sends
<1> QED
  BY <1>1, <1>2, <1>3, <1>4, <1>5, <1>6, <1>7, Zenon DEF Next, Run

\* Every step keeps the plan in shape.
LEMMA PlanStep == TypeOK /\ PlanInv /\ [Next]_vars => PlanInv'
<1> SUFFICES ASSUME TypeOK, PlanInv, [Next]_vars PROVE PlanInv'
  OBVIOUS
<1>0. taken \in 0 .. sent /\ sent \in Nat
  BY QueueTypes
<1>1. /\ <<>> \in Shapes /\ <<Dr>> \in Shapes
      /\ <<>> # <<Wm>> /\ <<Dr>> # <<Wm>>
  BY OpsDiffer DEF Shapes
<1>2. ASSUME plan' \in Shapes, taken' = taken, mode' \in {mode, "closed"},
             plan' # plan => plan # <<>> /\ plan' # <<Wm>> /\ (mode = "pinned" => plan' = <<>>),
             \/ commands' = commands
             \/ \E name \in Command : commands' = Append(commands, name)
      PROVE  PlanInv'
  <2>1. plan' # <<>> => taken' > 0 /\ Answers(taken)'
    BY <1>0, <1>2, SameSoFar DEF PlanInv, Answers
  <2>2. /\ mode' = "run" => plan' # <<Wm>>
        /\ mode' = "pinned" => plan' \in {<<>>, <<Wm>>}
    BY <1>2 DEF PlanInv
  <2> QED
    BY <1>2, <2>1, <2>2 DEF PlanInv
<1>3. CASE Quiet \/ Ends \/ FeedsDown \/ Sends
           \/ (\E b \in Backend : Execute(b) \/ SendPush(b) \/ Disconnect(b))
  <2>1. UNCHANGED <<plan, taken>> /\ mode' \in {mode, "closed"}
    BY <1>3 DEF Quiet, Ends, FeedsDown, Sends, Execute, SendPush, Disconnect, Close
  <2>2. \/ commands' = commands
        \/ \E name \in Command : commands' = Append(commands, name)
    BY <1>3 DEF Quiet, Ends, FeedsDown, Sends, Execute, SendPush, Disconnect, clientVars
  <2> QED
    BY <1>2, <2>1, <2>2 DEF PlanInv
<1>4. CASE Skips \/ Inlines \/ FeedsUp
  BY <1>1, <1>4 DEF Skips, Inlines, FeedsUp, BetweenCommands, Piping, PlanInv
<1>5. ASSUME NEW name \in Named, Takes(name) PROVE PlanInv'
  <2>1. Answers(taken)' /\ taken' > 0
    BY <1>0, <1>5 DEF Takes, Answers, Named, readOnlyCommands, stateCommands, pinCommands
  <2>2. Plan(name) \in Shapes /\ (Plan(name) = <<Wm>> <=> name \in pinCommands)
    BY NewPlan
  <2>3. CASE name \in pinCommands
    BY <1>5, <2>1, <2>2, <2>3 DEF Takes, pin, PlanInv
  <2>4. CASE name \notin pinCommands
    BY <1>5, <2>1, <2>2, <2>4 DEF Takes, BetweenCommands, PlanInv
  <2> QED
    BY <2>3, <2>4
<1>6. ASSUME NEW b \in Backend, Writes(b) PROVE PlanInv'
  <2>1. plan \in Shapes /\ plan # <<>> /\ Head(plan) = Op("write", b)
    BY <1>6 DEF Writes, Doing, PlanInv
  <2>2. Tail(plan) \in Shapes /\ Tail(plan) # <<Wm>> /\ (plan = <<Wm>> => Tail(plan) = <<>>)
    BY <1>1, <2>1, AfterWrite
  <2>3. mode = "pinned" => plan = <<Wm>>
    BY <2>1 DEF PlanInv
  <2> QED
    BY <1>2, <1>6, <2>1, <2>2, <2>3 DEF Writes
<1>7. ASSUME NEW b \in Backend, Relays(b) \/ Discards(b) PROVE PlanInv'
  <2>1. plan \in Shapes /\ plan # <<>> /\ Head(plan) \in {Op("relay", b), Op("discard", b)}
    BY <1>7 DEF Relays, Discards, Doing, PlanInv
  <2>2. Tail(plan) \in {<<>>, <<Dr>>} /\ plan # <<Wm>>
    BY <2>1, AfterRelay, AfterDiscard
  <2>3. plan' \in {plan, Tail(plan)} /\ UNCHANGED <<commands, taken, mode>>
    BY <1>7 DEF Relays, Discards, Reads, AfterFrame
  <2> QED
    BY <1>1, <1>2, <2>1, <2>2, <2>3, Zenon DEF PlanInv
<1> QED
  BY <1>3, <1>4, <1>5, <1>6, <1>7, StepKinds

-----------------------------------------------------------------------------
(***************************************************************************)
(* The backends are kept in step.                                          *)
(***************************************************************************)
\* Initially nothing was given to anyone.
LEMMA StateInit == Init => PlanInv /\ StateInv
<1> SUFFICES ASSUME Init PROVE PlanInv /\ StateInv
  OBVIOUS
<1>1. PlanInv
  BY OpsDiffer DEF Init, PlanInv, Shapes
<1>2. \A b \in Backend : Given(b) = {} /\ Ordered(ran[b]) /\ Ordered(inbox[b])
                         /\ Items(ran[b]) = {} /\ Items(inbox[b]) = {}
  BY EmptyQueue DEF Init, Given
<1>3. \A b \in Backend : ~ToWrite(plan, b)
  BY DEF Init, ToWrite
<1>4. StateBefore(taken + 1) = {}
  BY DEF Init, StateBefore
<1>5. mode = "run"
  BY DEF Init
<1>6. \A b \in Backend : GivenInv(b)
  BY <1>2, <1>3, <1>4 DEF GivenInv, Before
<1> QED
  BY <1>1, <1>3, <1>5, <1>6 DEF StateInv, Backend

\* One more command.
LEMMA StateBeforeNext ==
  ASSUME NEW n \in Nat
  PROVE  StateBefore(n + 2) =
           StateBefore(n + 1) \cup {j \in {n + 1} : commands[j] \in stateCommands}
BY DEF StateBefore

\* A backend that is given nothing keeps its part.
LEMMA GivenKept ==
  ASSUME TypeOK, NEW b \in Backend, GivenInv(b),
         ran'[b] = ran[b], inbox'[b] = inbox[b], taken' = taken,
         ToWrite(plan, b)' <=> ToWrite(plan, b), Serves(b)' => Serves(b),
         \/ commands' = commands
         \/ \E name \in Command : commands' = Append(commands, name)
  PROVE  GivenInv(b)'
<1>1. Given(b)' = Given(b)
  BY DEF Given, Items
<1>2. taken \in 0 .. sent /\ sent \in Nat
  BY QueueTypes
<1>3. \A n \in 0 .. sent + 1 : StateBefore(n)' = StateBefore(n)
  BY SameSoFar
<1>4. \A k \in Given(b) : StateBefore(k)' = StateBefore(k)
  BY <1>2, <1>3 DEF GivenInv
<1>5. StateBefore(taken)' = StateBefore(taken) /\ StateBefore(taken + 1)' = StateBefore(taken + 1)
  BY <1>2, <1>3
<1>6. /\ Ordered(ran[b])' /\ Ordered(inbox[b])'
      /\ Before(Items(ran[b]), Items(inbox[b]))'
  BY Zenon DEF GivenInv, Ordered, Before, Items
<1>7. /\ Given(b)' \subseteq 1 .. taken'
      /\ \A k \in Given(b)' : StateBefore(k)' \subseteq Given(b)'
      /\ ToWrite(plan, b)' => taken' \notin Given(b)'
  BY <1>1, <1>4 DEF GivenInv
<1>8. Serves(b)' => StateBefore(IF ToWrite(plan, b) THEN taken ELSE taken + 1)' \subseteq Given(b)'
  BY <1>1, <1>5 DEF GivenInv
<1> QED
  BY <1>6, <1>7, <1>8, Zenon DEF GivenInv

\* A command is taken: a serving backend is to get it if it is one of state.
LEMMA GivenTaken ==
  ASSUME TypeOK, NEW b \in Backend, GivenInv(b), ~ToWrite(plan, b),
         ran'[b] = ran[b], inbox'[b] = inbox[b], taken' = taken + 1, commands' = commands,
         Serves(b)' => Serves(b),
         Serves(b)' /\ commands[taken + 1] \in stateCommands => ToWrite(plan, b)'
  PROVE  GivenInv(b)'
<1>1. Given(b)' = Given(b)
  BY DEF Given, Items
<1>2. taken \in Nat
  BY QueueTypes
<1>3. \A n : StateBefore(n)' = StateBefore(n)
  BY DEF StateBefore
<1>4. taken + 1 \notin Given(b) /\ Given(b) \subseteq 1 .. taken + 1
  BY <1>2 DEF GivenInv
<1>5. /\ Ordered(ran[b])' /\ Ordered(inbox[b])'
      /\ Before(Items(ran[b]), Items(inbox[b]))'
  BY DEF GivenInv, Ordered, Before, Items
<1>6. /\ Given(b)' \subseteq 1 .. taken'
      /\ \A k \in Given(b)' : StateBefore(k)' \subseteq Given(b)'
      /\ ToWrite(plan, b)' => taken' \notin Given(b)'
  BY <1>1, <1>3, <1>4 DEF GivenInv
<1>7. ASSUME Serves(b)'
      PROVE  StateBefore(IF ToWrite(plan, b) THEN taken ELSE taken + 1)' \subseteq Given(b)'
  <2>1. StateBefore(taken + 1) \subseteq Given(b)
    BY <1>7 DEF GivenInv
  <2>2. CASE ToWrite(plan, b)'
    <3>1. StateBefore(taken)' = StateBefore(taken + 1)
      BY DEF StateBefore
    <3> QED
      BY <1>1, <2>1, <2>2, <3>1
  <2>3. CASE ~ToWrite(plan, b)'
    <3>1. StateBefore(taken + 1)' = StateBefore(taken + 2)
      BY <1>2 DEF StateBefore
    <3>2. StateBefore(taken + 2) = StateBefore(taken + 1)
      BY <1>2, <1>7, <2>3, StateBeforeNext
    <3> QED
      BY <1>1, <2>1, <2>3, <3>1, <3>2
  <2> QED
    BY <2>2, <2>3
<1> QED
  BY <1>5, <1>6, <1>7, Zenon DEF GivenInv

\* A serving backend is given the command n that follows all it was given.
LEMMA GivenMore ==
  ASSUME TypeOK, NEW b \in Backend, GivenInv(b), Serves(b), NEW n \in Nat \ {0},
         Given(b) \subseteq 1 .. n - 1, StateBefore(n) \subseteq Given(b),
         ran'[b] = ran[b], inbox'[b] = Append(inbox[b], n), taken' = n, commands' = commands,
         ~ToWrite(plan, b)'
  PROVE  GivenInv(b)'
<1>1. inbox[b] \in Seq(Nat) /\ ran[b] \in Seq(Nat)
  BY QueueTypes
<1>2. Items(inbox[b]) \subseteq 1 .. n - 1 /\ Items(ran[b]) \subseteq 1 .. n - 1
  BY DEF Given
<1>3. Items(inbox[b])' = Items(inbox[b]) \cup {n} /\ Items(ran[b])' = Items(ran[b])
  <2>1. n \in Nat
    OBVIOUS
  <2>2. Items(Append(inbox[b], n)) = Items(inbox[b]) \cup {n}
    BY <1>1, <2>1, QueueAppend, Zenon
  <2> QED
    BY <2>2, Zenon DEF Items
<1>4. Given(b)' = Given(b) \cup {n}
  BY <1>3 DEF Given
<1>5. \A m : StateBefore(m)' = StateBefore(m)
  BY DEF StateBefore
<1>6. Ordered(ran[b])' /\ Ordered(inbox[b])'
  <2>1. Before(Items(inbox[b]), {n})
    BY <1>2 DEF Before
  <2>2. Ordered(Append(inbox[b], n))
    BY <1>1, <2>1, QueueAppend DEF GivenInv
  <2>3. Ordered(ran[b])
    BY DEF GivenInv
  <2> QED
    BY <2>2, <2>3 DEF Ordered
<1>7. Before(Items(ran[b]), Items(inbox[b]))'
  BY <1>2, <1>3 DEF GivenInv, Before
<1>8. /\ Given(b)' \subseteq 1 .. taken'
      /\ \A k \in Given(b)' : StateBefore(k)' \subseteq Given(b)'
  BY <1>4, <1>5 DEF GivenInv
<1>9. StateBefore(taken + 1)' \subseteq Given(b)'
  <2>1. StateBefore(taken + 1)' \subseteq StateBefore(n) \cup {n}
    BY DEF StateBefore
  <2> QED
    BY <1>4, <2>1
<1> QED
  BY <1>6, <1>7, <1>8, <1>9 DEF GivenInv

\* A backend executes what it was given.
LEMMA GivenRun ==
  ASSUME TypeOK, NEW b \in Backend, GivenInv(b), inbox[b] # <<>>,
         ran'[b] = Append(ran[b], Head(inbox[b])), inbox'[b] = Tail(inbox[b]),
         UNCHANGED <<taken, plan, conn, commands>>
  PROVE  GivenInv(b)'
<1> DEFINE q == inbox[b]
           r == ran[b]
           h == Head(q)
<1>1. q \in Seq(Nat) /\ r \in Seq(Nat) /\ q # <<>>
  BY QueueTypes
<1>2. Ordered(r) /\ Ordered(q) /\ Before(Items(r), Items(q))
  BY DEF GivenInv
<1>3. /\ h \in Nat /\ Tail(q) \in Seq(Nat) /\ Items(q) = {h} \cup Items(Tail(q))
      /\ Ordered(Tail(q)) /\ Before({h}, Items(Tail(q)))
  <2> HIDE DEF q
  <2> QED
    BY <1>1, <1>2, QueueTail, ZenonT(30)
<1>4. /\ Items(Append(r, h)) = Items(r) \cup {h} /\ Ordered(Append(r, h))
      /\ Before(Items(Append(r, h)), Items(Tail(q)))
  <2> HIDE DEF q, r, h
  <2>1. Before(Items(r), {h})
    BY <1>2, <1>3 DEF Before
  <2>2. Items(Append(r, h)) = Items(r) \cup {h} /\ Ordered(Append(r, h))
    BY <1>1, <1>2, <1>3, <2>1, QueueAppend
  <2> QED
    BY <1>2, <1>3, <2>2 DEF Before
<1>5. /\ Items(ran[b])' = Items(Append(r, h)) /\ Items(inbox[b])' = Items(Tail(q))
      /\ Ordered(ran[b])' = Ordered(Append(r, h)) /\ Ordered(inbox[b])' = Ordered(Tail(q))
  BY DEF Items, Ordered
<1>6. Given(b)' = Given(b)
  <2>1. Items(Append(r, h)) \cup Items(Tail(q)) = Items(r) \cup Items(q)
    BY <1>3, <1>4, Zenon
  <2> QED
    BY <1>5, <2>1 DEF Given
<1>7. /\ \A m : StateBefore(m)' = StateBefore(m)
      /\ (ToWrite(plan, b)' <=> ToWrite(plan, b)) /\ (Serves(b)' <=> Serves(b))
  BY DEF StateBefore, ToWrite, Serves, HasReplica
<1>8. /\ Given(b)' \subseteq 1 .. taken'
      /\ \A k \in Given(b)' : StateBefore(k)' \subseteq Given(b)'
      /\ ToWrite(plan, b)' => taken' \notin Given(b)'
  BY <1>6, <1>7 DEF GivenInv
<1>9. Serves(b)' => StateBefore(IF ToWrite(plan, b) THEN taken ELSE taken + 1)' \subseteq Given(b)'
  BY <1>6, <1>7 DEF GivenInv, StateBefore
<1>10. Before(Items(ran[b]), Items(inbox[b]))'
  BY <1>4, <1>5 DEF Before
<1>11. Ordered(ran[b])' /\ Ordered(inbox[b])'
  BY <1>3, <1>4, <1>5
<1> QED
  BY <1>8, <1>9, <1>10, <1>11, Zenon DEF GivenInv

\* Closing and pinning take no backend on.
LEMMA ReplicaGoes ==
  ASSUME TypeOK
  PROVE  /\ \A why : Close(why) => (HasReplica' => HasReplica) /\ mode' = "closed"
         /\ pin => ~HasReplica' /\ mode' = "pinned"
         /\ \A b \in Backend : Disconnect(b) => (HasReplica' <=> HasReplica)
<1>1. ASSUME NEW why, Close(why) PROVE (HasReplica' => HasReplica) /\ mode' = "closed"
  BY <1>1 DEF Close, HasReplica, TypeOK, Backend
<1>2. ASSUME pin PROVE ~HasReplica' /\ mode' = "pinned"
  BY <1>2 DEF pin, HasReplica, TypeOK, Backend
<1>3. ASSUME NEW b \in Backend, Disconnect(b) PROVE HasReplica' <=> HasReplica
  BY <1>3 DEF Disconnect, HasReplica, TypeOK, Backend
<1> QED
  BY <1>1, <1>2, <1>3

\* Every step keeps the backends in step.
LEMMA StateStep == TypeOK /\ PlanInv /\ StateInv /\ [Next]_vars => StateInv'
<1> SUFFICES ASSUME TypeOK, PlanInv, StateInv, [Next]_vars PROVE StateInv'
  OBVIOUS
<1>0. taken \in Nat /\ \A b : ~ToWrite(<<>>, b)
  BY QueueTypes DEF ToWrite
<1>1. ASSUME HasReplica' => HasReplica, UNCHANGED <<taken, inbox, ran>>,
             \A b \in Backend : ToWrite(plan, b)' <=> ToWrite(plan, b),
             mode' # "closed" /\ ToWrite(plan, "replica") => HasReplica',
             mode' = "pinned" => ~HasReplica',
             \/ commands' = commands
             \/ \E name \in Command : commands' = Append(commands, name)
      PROVE  StateInv'
  <2>1. ASSUME NEW b \in Backend PROVE GivenInv(b)'
    <3>1. GivenInv(b) /\ (Serves(b)' => Serves(b))
      BY <1>1 DEF StateInv, Serves
    <3> QED
      BY <1>1, <3>1, GivenKept
  <2> QED
    BY <1>1, <2>1 DEF StateInv, Backend
<1>2. CASE Quiet \/ Sends \/ FeedsDown \/ \E b \in Backend : SendPush(b) \/ Disconnect(b)
  <2>1. /\ UNCHANGED <<taken, inbox, ran, mode, plan>>
        /\ \/ commands' = commands
           \/ \E name \in Command : commands' = Append(commands, name)
    BY <1>2 DEF Quiet, Sends, FeedsDown, SendPush, Disconnect, clientVars, backendVars
  <2>2. HasReplica' <=> HasReplica
    <3>1. CASE \E b \in Backend : Disconnect(b)
      BY <3>1, ReplicaGoes
    <3>2. CASE Quiet \/ Sends \/ FeedsDown \/ \E b \in Backend : SendPush(b)
      BY <3>2 DEF Quiet, Sends, FeedsDown, SendPush, HasReplica
    <3> QED
      BY <1>2, <3>1, <3>2
  <2>3. \A b \in Backend : ToWrite(plan, b)' <=> ToWrite(plan, b)
    BY <2>1 DEF ToWrite
  <2> QED
    BY <1>1, <2>1, <2>2, <2>3 DEF StateInv
<1>3. CASE Ends \/ Inlines
  <2>1. UNCHANGED <<taken, inbox, ran, plan, commands>>
    BY <1>3 DEF Ends, Inlines
  <2>2. /\ HasReplica' => HasReplica
        /\ mode' = "closed" \/ (plan = <<>> /\ ~HasReplica')
    BY <1>3, ReplicaGoes DEF Ends, Inlines, BetweenCommands
  <2>3. \A b \in Backend : ToWrite(plan, b)' <=> ToWrite(plan, b)
    BY <2>1 DEF ToWrite
  <2> QED
    BY <1>0, <1>1, <2>1, <2>2, <2>3
<1>4. ASSUME NEW b \in Backend, Relays(b) \/ Discards(b) PROVE StateInv'
  <2>1. plan \in Shapes /\ plan # <<>> /\ Head(plan) \in {Op("relay", b), Op("discard", b)}
    BY <1>4 DEF Relays, Discards, Doing, PlanInv
  <2>2. \A c \in Backend : ~ToWrite(plan, c) /\ ~ToWrite(Tail(plan), c)
    BY <2>1, AfterRelay, AfterDiscard, Zenon
  <2>3. plan' \in {plan, Tail(plan)} /\ UNCHANGED <<commands, taken, mode, conn, inbox, ran>>
    BY <1>4 DEF Relays, Discards, Reads, AfterFrame
  <2>4. \A c \in Backend : ToWrite(plan, c)' <=> ToWrite(plan, c)
    BY <2>2, <2>3, Zenon DEF ToWrite
  <2>5. HasReplica' <=> HasReplica
    BY <2>3 DEF HasReplica
  <2> QED
    BY <1>1, <2>2, <2>3, <2>4, <2>5 DEF StateInv, Backend
<1>5. CASE Skips
  <2>1. /\ UNCHANGED <<inbox, ran, plan, commands>> /\ taken' = taken + 1 /\ plan = <<>>
        /\ mode = "run" /\ commands[taken + 1] \notin stateCommands
    BY <1>5 DEF Skips, BetweenCommands, stateCommands
  <2>2. (HasReplica' => HasReplica) /\ mode' # "pinned"
    BY <1>5, <2>1, ReplicaGoes DEF Skips, HasReplica
  <2>3. ASSUME NEW b \in Backend PROVE GivenInv(b)'
    <3>1. GivenInv(b) /\ (Serves(b)' => Serves(b))
      BY <2>2 DEF StateInv, Serves
    <3> QED
      BY <1>0, <2>1, <3>1, GivenTaken
  <2> QED
    BY <1>0, <2>1, <2>2, <2>3 DEF StateInv
<1>6. ASSUME NEW name \in Named, Takes(name) PROVE StateInv'
  <2>1. /\ UNCHANGED <<inbox, ran, commands>> /\ taken' = taken + 1 /\ plan = <<>>
        /\ mode = "run" /\ commands[taken + 1] = name /\ plan' = Plan(name)
    BY <1>6 DEF Takes, BetweenCommands
  <2>2. CASE name \in pinCommands
    <3>1. ~HasReplica' /\ mode' = "pinned" /\ name \notin stateCommands
      BY <1>6, <2>2, ReplicaGoes DEF Takes, pinCommands, stateCommands
    <3>2. ~ToWrite(plan', "replica")
      BY <2>1, <2>2, NewPlan, OpsDiffer DEF ToWrite
    <3>3. ASSUME NEW b \in Backend PROVE GivenInv(b)'
      <4>1. GivenInv(b) /\ (Serves(b)' => Serves(b))
        BY <3>1 DEF StateInv, Serves
      <4> QED
        BY <1>0, <2>1, <3>1, <4>1, GivenTaken, Zenon
    <3> QED
      BY <3>1, <3>2, <3>3 DEF StateInv
  <2>3. CASE name \notin pinCommands
    <3>1. (HasReplica' <=> HasReplica) /\ mode' = "run"
      BY <1>6, <2>1, <2>3 DEF Takes, HasReplica
    <3>2. ToWrite(plan', "replica") => HasReplica
      BY <2>1, NewPlan
    <3>3. ASSUME NEW b \in Backend PROVE GivenInv(b)'
      <4>1. GivenInv(b) /\ (Serves(b)' => Serves(b))
        BY <3>1 DEF StateInv, Serves
      <4>2. Serves(b) /\ name \in stateCommands => ToWrite(plan', b)
        BY <2>1, NewPlan DEF Serves, Backend
      <4>3. Serves(b)' /\ commands[taken + 1] \in stateCommands => ToWrite(plan, b)'
        BY <2>1, <4>1, <4>2 DEF ToWrite
      <4> QED
        BY <1>0, <2>1, <4>1, <4>3, GivenTaken
    <3> QED
      BY <3>1, <3>2, <3>3 DEF StateInv
  <2> QED
    BY <2>2, <2>3
<1>7. ASSUME NEW b \in Backend, Writes(b) PROVE StateInv'
  <2>1. plan \in Shapes /\ plan # <<>> /\ Head(plan) = Op("write", b) /\ mode # "closed"
    BY <1>7 DEF Writes, Doing, PlanInv
  <2>2. /\ ToWrite(plan, b) /\ ~ToWrite(Tail(plan), b)
        /\ \A c \in Backend \ {b} : ToWrite(Tail(plan), c) <=> ToWrite(plan, c)
    BY <2>1, AfterWrite
  <2>3. /\ plan' = Tail(plan) /\ inbox' = [inbox EXCEPT ![b] = Append(@, taken)]
        /\ UNCHANGED <<commands, taken, mode, conn, ran>>
    BY <1>7 DEF Writes
  <2>4. HasReplica' <=> HasReplica
    BY <2>3 DEF HasReplica
  <2>5. GivenInv(b)'
    <3>1. GivenInv(b) /\ Serves(b)
      BY <2>1, <2>2 DEF StateInv, Serves, Backend
    <3>2. taken \in Nat \ {0}
      BY <1>0, <2>1 DEF PlanInv
    <3>3. Given(b) \subseteq 1 .. taken - 1 /\ StateBefore(taken) \subseteq Given(b)
      BY <2>2, <3>1, <3>2 DEF GivenInv
    <3>4. inbox'[b] = Append(inbox[b], taken) /\ ~ToWrite(plan, b)'
      BY <2>2, <2>3, Zenon DEF TypeOK, ToWrite
    <3> QED
      BY <2>3, <3>1, <3>2, <3>3, <3>4, GivenMore
  <2>6. ASSUME NEW c \in Backend, c # b PROVE GivenInv(c)'
    <3>1. GivenInv(c) /\ (Serves(c)' => Serves(c))
      BY <2>4 DEF StateInv, Serves
    <3>2. inbox'[c] = inbox[c] /\ (ToWrite(plan, c)' <=> ToWrite(plan, c))
      BY <2>2, <2>3, <2>6, Zenon DEF TypeOK, ToWrite
    <3> QED
      BY <2>3, <3>1, <3>2, GivenKept
  <2>7. ToWrite(plan', "replica") => ToWrite(plan, "replica")
    BY <2>2, <2>3 DEF Backend
  <2> QED
    BY <2>1, <2>3, <2>4, <2>5, <2>6, <2>7 DEF StateInv
<1>8. CASE FeedsUp
  <2>1. /\ taken' = taken + 1 /\ plan = <<>> /\ mode = "pinned"
        /\ inbox' = [inbox EXCEPT !["master"] = Append(@, taken + 1)]
        /\ UNCHANGED <<commands, plan, mode, conn, ran>>
    BY <1>8 DEF FeedsUp, Piping
  <2>2. ~HasReplica /\ ~HasReplica'
    BY <2>1 DEF StateInv, HasReplica
  <2>3. GivenInv("master")'
    <3>1. GivenInv("master") /\ Serves("master")
      BY DEF StateInv, Serves, Backend
    <3>2. Given("master") \subseteq 1 .. (taken + 1) - 1 /\ StateBefore(taken + 1) \subseteq Given("master")
      BY <1>0, <2>1, <3>1 DEF GivenInv
    <3>3. inbox'["master"] = Append(inbox["master"], taken + 1) /\ ~ToWrite(plan, "master")'
      BY <1>0, <2>1 DEF TypeOK, Backend, ToWrite
    <3> QED
      BY <1>0, <2>1, <3>1, <3>2, <3>3, GivenMore DEF Backend
  <2>4. GivenInv("replica")'
    <3>1. GivenInv("replica") /\ ~Serves("replica")'
      BY <2>2 DEF StateInv, Serves, Backend
    <3>2. inbox'["replica"] = inbox["replica"]
      BY <2>1 DEF TypeOK, Backend
    <3> QED
      BY <1>0, <2>1, <3>1, <3>2, GivenTaken DEF Backend
  <2> QED
    BY <1>0, <2>1, <2>2, <2>3, <2>4 DEF StateInv, Backend
<1>9. ASSUME NEW b \in Backend, Execute(b) PROVE StateInv'
  <2>1. /\ inbox[b] # <<>> /\ UNCHANGED <<commands, taken, mode, plan, conn>>
        /\ ran' = [ran EXCEPT ![b] = Append(@, Head(inbox[b]))]
        /\ inbox' = [inbox EXCEPT ![b] = Tail(@)]
    BY <1>9 DEF Execute, clientVars
  <2>2. GivenInv(b)'
    <3>1. GivenInv(b)
      BY DEF StateInv
    <3>2. ran'[b] = Append(ran[b], Head(inbox[b])) /\ inbox'[b] = Tail(inbox[b])
      BY <2>1 DEF TypeOK
    <3> QED
      BY <2>1, <3>1, <3>2, GivenRun
  <2>3. ASSUME NEW c \in Backend, c # b PROVE GivenInv(c)'
    <3>1. GivenInv(c)
      BY DEF StateInv
    <3>2. ran'[c] = ran[c] /\ inbox'[c] = inbox[c] /\ (Serves(c)' => Serves(c))
      BY <2>1, <2>3 DEF TypeOK, Serves, HasReplica
    <3>3. ToWrite(plan, c)' <=> ToWrite(plan, c)
      BY <2>1 DEF ToWrite
    <3> QED
      BY <2>1, <3>1, <3>2, <3>3, GivenKept
  <2>4. HasReplica' <=> HasReplica
    BY <2>1 DEF HasReplica
  <2> QED
    BY <2>1, <2>2, <2>3, <2>4 DEF StateInv
<1> QED
  BY <1>2, <1>3, <1>4, <1>5, <1>6, <1>7, <1>8, <1>9, StepKinds

\* So a backend has executed the right state commands before each command.
LEMMA StateInvInStep == TypeOK /\ StateInv => StateInStep
<1> SUFFICES ASSUME TypeOK, StateInv, NEW b \in Backend, NEW i \in 1 .. Len(ran[b])
             PROVE  StateBefore(ran[b][i]) =
                      {ran[b][j] : j \in {m \in 1 .. i - 1 : commands[ran[b][m]] \in stateCommands}}
  BY Zenon DEF StateInStep
<1> DEFINE r == ran[b]
<1>1. GivenInv(b) /\ r \in Seq(Nat) /\ Len(r) \in Nat
  BY QueueTypes, LenProperties DEF StateInv
<1>2. \A j \in 1 .. Len(r) : r[j] \in Items(r)
  BY DEF Items
<1>3. \A x \in Items(r) \cup Items(inbox[b]) : x \in 1 .. taken /\ x # Push /\ x \in Nat
  BY <1>1, QueueTypes DEF GivenInv, Given, Push
<1>4. \A j, k \in 1 .. Len(r) : j < k => r[j] < r[k]
  <2> HIDE DEF r
  <2> QED
    BY <1>1, <1>2, <1>3 DEF GivenInv, Ordered, r
<1>5. ASSUME NEW x \in StateBefore(r[i])
      PROVE  \E j \in 1 .. i - 1 : x = r[j] /\ commands[r[j]] \in stateCommands
  <2>1. r[i] \in Given(b) /\ r[i] \in Items(r) /\ r[i] \in Nat
    BY <1>2, <1>3 DEF Given
  <2>2. x \in Given(b)
    BY <1>1, <2>1 DEF GivenInv
  <2>3. x < r[i] /\ commands[x] \in stateCommands /\ x \in Nat
    BY <2>1 DEF StateBefore
  <2>4. x \notin Items(inbox[b])
    <3>1. x \in Items(inbox[b]) => r[i] < x
      BY <1>1, <1>3, <2>1 DEF GivenInv, Before
    <3> QED
      BY <2>1, <2>3, <3>1
  <2>5. PICK j \in 1 .. Len(r) : x = r[j]
    BY <2>2, <2>4 DEF Given, Items
  <2>6. j < i
    <3>1. i < j => r[i] < r[j]
      BY <1>4
    <3>2. i = j => x = r[i]
      BY <2>5
    <3> HIDE DEF r
    <3> QED
      BY <2>1, <2>3, <2>5, <3>1, <3>2
  <2>7. j \in 1 .. i - 1
    BY <1>1, <2>6
  <2> QED
    BY <2>3, <2>5, <2>7
<1>6. ASSUME NEW j \in 1 .. i - 1, commands[r[j]] \in stateCommands
      PROVE  r[j] \in StateBefore(r[i])
  <2>1. j \in 1 .. Len(r) /\ j < i
    BY <1>1
  <2>2. r[j] < r[i] /\ r[j] \in 1 .. taken /\ r[i] \in 1 .. taken
    BY <1>2, <1>3, <1>4, <2>1
  <2>3. r[j] \in 1 .. r[i] - 1
    <3> HIDE DEF r
    <3> QED
      BY <2>2
  <2> QED
    BY <1>6, <2>3 DEF StateBefore
<1> QED
  BY <1>5, <1>6

-----------------------------------------------------------------------------
(***************************************************************************)
(* The replies.                                                            *)
(***************************************************************************)
\* Initially there are none.
LEMMA ReplyInit == Init => ReplyInv
<1> SUFFICES ASSUME Init PROVE ReplyInv
  OBVIOUS
<1>1. Items(got) = {} /\ Ordered(got) /\ taken = 0
  BY EmptyQueue DEF Init
<1>2. \A b \in Backend : Items(inbox[b]) = {} /\ Items(outbox[b]) = {} /\ Ordered(outbox[b])
                         /\ Items(ran[b]) = {}
  BY EmptyQueue DEF Init
<1>3. Answerable(taken) = {}
  BY <1>1 DEF Answerable
<1>4. GotInv
  BY <1>1 DEF GotInv, Init
<1>5. RanInv
  BY <1>1, <1>2 DEF RanInv, Backend
<1>6. OpenInv
  BY DEF OpenInv, Init, Backend
<1>7. OwedInv
  BY <1>1, <1>3 DEF OwedInv, Owed, Init
<1>8. WaitInv
  <2>1. \A b \in Backend : ~Expects(plan, b)
    BY DEF Expects, Init
  <2> QED
    BY <1>2, <2>1, Zenon DEF WaitInv, Awaited
<1>9. PipeInv
  BY DEF PipeInv, Piping, Init
<1> QED
  BY <1>4, <1>5, <1>6, <1>7, <1>8, <1>9 DEF ReplyInv

\* Commands that are answered, by number.
LEMMA AnswerableFacts ==
  ASSUME NEW n \in Nat
  PROVE  /\ Answerable(n + 1) = Answerable(n) \cup {k \in {n + 1} : Answers(k)}
         /\ Answerable(n) \subseteq 1 .. n
         /\ \A k \in Answerable(n) : k \in Nat \ {0} /\ Answers(k)
         /\ \A k \in 1 .. n : Answers(k) => k \in Answerable(n)
         /\ \A m \in 0 .. n : Answerable(m) \subseteq Answerable(n)
BY DEF Answerable

\* The numbers in the queues are those of the commands taken.
LEMMA ItemTypes ==
  ASSUME TypeOK, StateInv, ReplyInv
  PROVE  /\ Items(got) \subseteq Nat
         /\ \A b \in Backend :
              /\ Items(outbox[b]) \subseteq 0 .. taken
              /\ Items(ran[b]) \subseteq 1 .. taken /\ Items(inbox[b]) \subseteq 1 .. taken
<1>1. Items(got) \subseteq Nat
  BY QueueTypes, EmptyQueue
<1>2. ASSUME NEW b \in Backend
      PROVE  /\ Items(outbox[b]) \subseteq 0 .. taken
             /\ Items(ran[b]) \subseteq 1 .. taken /\ Items(inbox[b]) \subseteq 1 .. taken
  <2>1. Items(ran[b]) \subseteq 1 .. taken /\ Items(inbox[b]) \subseteq 1 .. taken
    BY DEF StateInv, GivenInv, Given
  <2>2. Items(outbox[b]) \ {Push} \subseteq Items(ran[b]) /\ taken \in Nat
    BY QueueTypes, ZenonT(30) DEF ReplyInv, RanInv
  <2>3. Items(outbox[b]) \subseteq 0 .. taken
    BY <2>1, <2>2 DEF Push
  <2> QED
    BY <2>1, <2>3
<1> QED
  BY <1>1, <1>2

\* A step that the replies are not concerned in.
LEMMA ReplyKept ==
  ASSUME TypeOK, ReplyInv, UNCHANGED <<got, taken, mode, plan, cause, inbox, outbox, ran>>,
         \A b \in Backend : conn'[b] = "closed" => conn[b] = "closed",
         \/ commands' = commands
         \/ mode # "closed" /\ \E name \in Command : commands' = Append(commands, name)
  PROVE  ReplyInv'
<1>0. taken \in 0 .. sent /\ sent \in Nat /\ (taken # 0 => taken - 1 \in 0 .. sent)
  BY QueueTypes
<1>1. \A n \in 0 .. sent : Answerable(n)' = Answerable(n)
  BY SameSoFar
<1>2. /\ Answerable(taken)' = Answerable(taken)
      /\ \A k \in 1 .. taken : Answerable(k - 1)' = Answerable(k - 1)
  <2>1. \A k \in 1 .. taken : k - 1 \in 0 .. sent
    BY <1>0
  <2> QED
    BY <1>0, <1>1, <2>1 DEF Answerable
<1>3. Items(got)' = Items(got) /\ Items(got) \ {Push} \subseteq 1 .. taken
  <2>1. Answerable(taken) \subseteq 1 .. taken
    BY <1>0, AnswerableFacts
  <2>2. Items(got)' = Items(got)
    BY DEF Items
  <2> QED
    BY <2>1, <2>2 DEF ReplyInv, GotInv
<1>10. \A b \in Backend : /\ Items(inbox[b])' = Items(inbox[b])
                          /\ Items(outbox[b])' = Items(outbox[b])
                          /\ Items(ran[b])' = Items(ran[b])
                          /\ Ordered(outbox[b])' <=> Ordered(outbox[b])
  BY DEF Items, Ordered
<1>4. GotInv'
  <2>1. Ordered(got)'
    BY ZenonT(30) DEF ReplyInv, GotInv, Ordered
  <2>2. \A k \in Items(got) \ {Push} : Answerable(k - 1)' \subseteq Items(got)'
    BY <1>2, <1>3 DEF ReplyInv, GotInv
  <2>3. cause' = "eof" => mode' = "closed" /\ taken' = sent' /\ Answerable(sent)' \subseteq Items(got)'
    <3> SUFFICES ASSUME cause = "eof"
                 PROVE  mode = "closed" /\ taken' = sent' /\ Answerable(sent)' \subseteq Items(got)'
      OBVIOUS
    <3>1. mode = "closed" /\ taken = sent /\ Answerable(sent) \subseteq Items(got)
      BY DEF ReplyInv, GotInv
    <3>2. commands' = commands
      BY <3>1
    <3> QED
      BY <1>3, <3>1, <3>2 DEF sent, Answerable, Answers
  <2>4. Items(got)' \ {Push} \subseteq Answerable(taken)'
    BY <1>2, <1>3 DEF ReplyInv, GotInv
  <2> QED
    BY <1>3, <2>1, <2>2, <2>3, <2>4 DEF GotInv
<1>5. RanInv'
  BY <1>3, <1>10 DEF ReplyInv, RanInv, Backend
<1>6. OpenInv'
  BY DEF ReplyInv, OpenInv, Backend
<1>7. OwedInv'
  <2>1. Owed(plan)' <=> Owed(plan)
    BY DEF Owed
  <2>2. Answerable(IF Owed(plan) THEN taken - 1 ELSE taken)'
          = Answerable(IF Owed(plan) THEN taken - 1 ELSE taken)
    <3>1. taken = 0 => Answerable(taken - 1)' = {} /\ Answerable(taken - 1) = {}
      BY DEF Answerable
    <3>2. taken # 0 => Answerable(taken - 1)' = Answerable(taken - 1)
      <4>1. taken # 0 => taken \in 1 .. taken
        BY <1>0
      <4> QED
        BY <1>2, <4>1 DEF Answerable
    <3> QED
      BY <1>2, <2>1, <3>1, <3>2 DEF Answerable
  <2> QED
    BY <1>3, <2>2 DEF ReplyInv, OwedInv, Piping
<1>8. WaitInv'
  <2>1. \A b \in Backend : (Awaited(b)' <=> Awaited(b)) /\ (Routing(b)' <=> Routing(b))
    BY <1>10 DEF Awaited, Expects, Routing
  <2> QED
    BY <2>1 DEF ReplyInv, WaitInv
<1>9. PipeInv'
  BY <1>2 DEF ReplyInv, PipeInv, Piping, Before, Items
<1> QED
  BY <1>4, <1>5, <1>6, <1>7, <1>8, <1>9 DEF ReplyInv

\* Nothing new for the client.
LEMMA GotKept ==
  ASSUME TypeOK, GotInv, UNCHANGED <<commands, got>>, taken' \in {taken, taken + 1},
         cause' = "eof" => mode' = "closed" /\ taken' = sent /\ Answerable(sent) \subseteq Items(got)
  PROVE  GotInv' /\ Items(got)' = Items(got)
<1>1. taken \in Nat
  BY QueueTypes
<1>2. Items(got)' = Items(got) /\ (Ordered(got)' <=> Ordered(got))
  BY DEF Items, Ordered
<1>3. \A n : Answerable(n)' = Answerable(n)
  BY DEF Answerable, Answers
<1>4. Answerable(taken) \subseteq Answerable(taken)'
  BY <1>1 DEF Answerable, Answers
<1>5. sent' = sent
  BY DEF sent
<1>6. cause' = "eof" => mode' = "closed" /\ taken' = sent' /\ Answerable(sent)' \subseteq Items(got)'
  BY <1>2, <1>5 DEF Answerable, Answers
<1>7. \A k \in Items(got)' \ {Push} : Answerable(k - 1)' \subseteq Items(got)'
  BY <1>2, <1>3 DEF GotInv
<1> QED
  BY <1>2, <1>4, <1>6, <1>7 DEF GotInv

\* The client gets a push, or the reply to the next command that has one.
LEMMA GotMore ==
  ASSUME TypeOK, GotInv, NEW h \in Nat, got' = Append(got, h),
         UNCHANGED <<commands, taken, mode, cause>>, mode # "closed",
         h # Push => /\ h \in Answerable(taken) /\ Before(Items(got), {h})
                     /\ Answerable(h - 1) \subseteq Items(got)
  PROVE  GotInv' /\ Items(got)' = Items(got) \cup {h}
<1>1. got \in Seq(Nat)
  BY QueueTypes
<1>2. Before(Items(got), {h})
  BY DEF Before
<1>3. /\ Items(Append(got, h)) = Items(got) \cup {h}
      /\ Ordered(Append(got, h))
  BY <1>1, <1>2, QueueAppend DEF GotInv
<1>4. Items(got)' = Items(got) \cup {h} /\ Ordered(got)'
  BY <1>3, Zenon DEF Items, Ordered
<1>5. \A n : Answerable(n)' = Answerable(n)
  BY DEF Answerable, Answers
<1>6. Answerable(taken)' = Answerable(taken)
  BY DEF Answerable, Answers
<1>7. Items(got)' \ {Push} \subseteq Answerable(taken)'
  BY <1>4, <1>6 DEF GotInv
<1>8. \A k \in Items(got)' \ {Push} : Answerable(k - 1)' \subseteq Items(got)'
  BY <1>4, <1>5 DEF GotInv
<1>9. cause' # "eof"
  BY DEF GotInv
<1> QED
  BY <1>4, <1>7, <1>8, <1>9 DEF GotInv

\* The backends' side of it.
LEMMA RanKept ==
  ASSUME TypeOK, RanInv, UNCHANGED <<got, outbox, ran>>
  PROVE  RanInv'
<1>1. \A b \in Backend : /\ Items(outbox[b])' = Items(outbox[b])
                         /\ Items(ran[b])' = Items(ran[b])
                         /\ Ordered(outbox[b])' <=> Ordered(outbox[b])
  BY DEF Items, Ordered
<1>2. Items(got)' = Items(got)
  BY DEF Items
<1> QED
  BY <1>1, <1>2 DEF RanInv, Backend

\* The session takes the next frame h of backend b.
LEMMA FrameTaken ==
  ASSUME TypeOK, RanInv, NEW b \in Backend, outbox[b] # <<>>,
         outbox' = [outbox EXCEPT ![b] = Tail(@)], UNCHANGED <<inbox, ran>>
  PROVE  /\ Head(outbox[b]) \in Nat
         /\ Items(outbox[b]) = {Head(outbox[b])} \cup Items(outbox[b])'
         /\ Before({Head(outbox[b])}, Items(outbox[b])')
         /\ \A c \in Backend : /\ Ordered(outbox[c])'
                               /\ Items(outbox[c])' \ {Push} \subseteq Items(ran[c])'
                               /\ Items(inbox[c])' = Items(inbox[c])
                               /\ Items(ran[c])' = Items(ran[c])
         /\ \A c \in Backend \ {b} : Items(outbox[c])' = Items(outbox[c])
<1> DEFINE q == outbox[b]
<1>1. q \in Seq(Nat) /\ q # <<>> /\ Ordered(q)
  BY QueueTypes DEF RanInv
<1>2. /\ Head(q) \in Nat /\ Items(q) = {Head(q)} \cup Items(Tail(q))
      /\ Ordered(Tail(q)) /\ Before({Head(q)}, Items(Tail(q)))
  <2> HIDE DEF q
  <2> QED
    BY <1>1, QueueTail
<1>3. outbox'[b] = Tail(q) /\ \A c \in Backend \ {b} : outbox'[c] = outbox[c]
  BY DEF TypeOK
<1>4. Items(outbox[b])' = Items(Tail(q)) /\ (Ordered(outbox[b])' <=> Ordered(Tail(q)))
  BY <1>3, ZenonT(30) DEF Items, Ordered
<1>5. \A c \in Backend \ {b} : /\ Items(outbox[c])' = Items(outbox[c])
                               /\ Ordered(outbox[c])' <=> Ordered(outbox[c])
  BY <1>3 DEF Items, Ordered
<1>6. \A c \in Backend : Items(inbox[c])' = Items(inbox[c]) /\ Items(ran[c])' = Items(ran[c])
  BY DEF Items
<1>7. \A c \in Backend : Ordered(outbox[c])' /\ Items(outbox[c])' \ {Push} \subseteq Items(ran[c])'
  <2>1. Items(outbox[b])' \subseteq Items(outbox[b])
    BY <1>2, <1>4
  <2> QED
    BY <1>2, <1>4, <1>5, <1>6, <2>1, Zenon DEF RanInv
<1> QED
  BY <1>2, <1>4, <1>5, <1>6, <1>7

\* The session closes.
LEMMA ReplyClosed ==
  ASSUME TypeOK, ReplyInv, Ends \/ (Skips /\ mode' = "closed")
  PROVE  ReplyInv'
<1>1. /\ mode' = "closed" /\ UNCHANGED <<commands, got, inbox, outbox, ran>>
      /\ taken' \in {taken, taken + 1}
  BY DEF Ends, Skips, Close
<1>2. cause' = "eof" => /\ taken' = taken /\ mode = "run" /\ plan = <<>> /\ taken = sent
  BY <1>1 DEF Ends, Skips, Close, BetweenCommands
<1>3. cause' = "eof" => Answerable(sent) \subseteq Items(got)
  BY <1>2 DEF ReplyInv, OwedInv, Owed, Piping
<1>4. GotInv'
  BY <1>1, <1>2, <1>3, GotKept DEF ReplyInv
<1>5. RanInv'
  BY <1>1, RanKept DEF ReplyInv
<1>6. OpenInv' /\ OwedInv' /\ WaitInv' /\ PipeInv'
  BY <1>1, ZenonT(30) DEF OpenInv, OwedInv, WaitInv, Routing, PipeInv, Piping
<1> QED
  BY <1>4, <1>5, <1>6 DEF ReplyInv

\* What is in the queues when nothing is put in or taken out.
LEMMA QueuesKept ==
  ASSUME UNCHANGED <<inbox, outbox, ran>>
  PROVE  \A b \in Backend : /\ Items(inbox[b])' = Items(inbox[b])
                            /\ Items(outbox[b])' = Items(outbox[b])
                            /\ Items(ran[b])' = Items(ran[b])
BY DEF Items

\* Between two commands nothing is on its way but pushes.
LEMMA AllAnswered ==
  ASSUME ReplyInv, BetweenCommands
  PROVE  /\ \A b \in Backend : Items(inbox[b]) = {} /\ Items(outbox[b]) \subseteq {Push}
         /\ Answerable(taken) = Items(got) \ {Push}
<1>1. \A b \in Backend : ~Expects(plan, b) /\ Routing(b) /\ ~Owed(plan)
  BY DEF BetweenCommands, Expects, Routing, Owed
<1> QED
  BY <1>1, Zenon DEF ReplyInv, WaitInv, Awaited, OwedInv, BetweenCommands, Piping, Backend

\* run passes over a command of no elements, which redis does not answer.
LEMMA ReplySkips ==
  ASSUME TypeOK, ReplyInv, Skips, mode' # "closed", "noName" \notin Command
  PROVE  ReplyInv'
<1>0. taken \in Nat /\ sent \in Nat
  BY QueueTypes
<1>1. /\ mode = "run" /\ plan = <<>> /\ taken < sent /\ taken' = taken + 1
      /\ commands[taken + 1] \in {"empty", "noName"}
      /\ UNCHANGED <<commands, got, mode, cause, conn, plan, inbox, outbox, ran>>
  BY DEF Skips, BetweenCommands, Close
<1>2. commands[taken + 1] \in Command
  BY <1>0, <1>1, ElementOfSeq DEF TypeOK, sent
<1>3. ~Answers(taken + 1)
  BY <1>1, <1>2 DEF Answers
<1>4. Answerable(taken)' = Answerable(taken)
  <2>1. Answerable(taken)' = Answerable(taken + 1)
    BY <1>1 DEF Answerable, Answers
  <2>2. Answerable(taken + 1) = Answerable(taken) \cup {k \in {taken + 1} : Answers(k)}
    BY <1>0, AnswerableFacts
  <2> QED
    BY <1>3, <2>1, <2>2
<1>5. cause' # "eof"
  BY <1>1 DEF ReplyInv, GotInv
<1>6. GotInv' /\ Items(got)' = Items(got)
  BY <1>1, <1>5, GotKept DEF ReplyInv
<1>7. RanInv'
  BY <1>1, RanKept DEF ReplyInv
<1>8. OpenInv'
  BY <1>1 DEF ReplyInv, OpenInv
<1>9. OwedInv'
  <2>1. ~Owed(plan)'
    BY <1>1 DEF Owed
  <2> QED
    BY <1>1, <1>4, <1>6, <2>1, AllAnswered DEF OwedInv, BetweenCommands
<1>10. WaitInv'
  <2>1. \A b \in Backend : ~Expects(plan, b)'
    BY <1>1 DEF Expects
  <2> QED
    BY <1>1, <2>1, AllAnswered, QueuesKept DEF WaitInv, Awaited, BetweenCommands
<1>11. PipeInv'
  BY <1>1 DEF PipeInv, Piping
<1> QED
  BY <1>6, <1>7, <1>8, <1>9, <1>10, <1>11 DEF ReplyInv

\* run pins the session at an inline command: all before it are answered.
LEMMA ReplyInlines ==
  ASSUME TypeOK, ReplyInv, Inlines
  PROVE  ReplyInv'
<1>1. /\ mode = "run" /\ plan = <<>> /\ mode' = "pinned"
      /\ UNCHANGED <<commands, got, taken, plan, cause, inbox, outbox, ran>>
      /\ conn'["master"] = conn["master"]
  BY DEF Inlines, BetweenCommands, pin, TypeOK, Backend
<1>2. cause' # "eof"
  BY <1>1 DEF ReplyInv, GotInv
<1>3. GotInv' /\ Items(got)' = Items(got)
  BY <1>1, <1>2, GotKept DEF ReplyInv
<1>4. RanInv'
  BY <1>1, RanKept DEF ReplyInv
<1>5. OpenInv'
  BY <1>1 DEF ReplyInv, OpenInv
<1>6. OwedInv' /\ WaitInv'
  BY <1>1 DEF OwedInv, WaitInv, Routing, Piping
<1>7. PipeInv'
  <2>1. /\ Items(inbox["master"])' = {} /\ Items(outbox["master"])' \subseteq {Push}
        /\ Answerable(taken) \subseteq Items(got)
    BY <1>1, AllAnswered, QueuesKept DEF BetweenCommands, Backend
  <2>2. Answerable(taken)' = Answerable(taken)
    BY <1>1 DEF Answerable, Answers
  <2> QED
    BY <1>3, <2>1, <2>2 DEF PipeInv, Before
<1> QED
  BY <1>3, <1>4, <1>5, <1>6, <1>7 DEF ReplyInv

\* run takes a command with a name: all before it are answered.
LEMMA ReplyTakes ==
  ASSUME TypeOK, ReplyInv, NEW name \in Named, Takes(name)
  PROVE  ReplyInv'
<1>0. taken \in Nat
  BY QueueTypes
<1>1. /\ mode = "run" /\ plan = <<>> /\ taken' = taken + 1 /\ plan' = Plan(name)
      /\ UNCHANGED <<commands, got, cause, inbox, outbox, ran>>
      /\ mode' \in {"run", "pinned"}
      /\ conn'["master"] = conn["master"] /\ (mode' = "run" => conn' = conn)
  BY DEF Takes, BetweenCommands, pin, TypeOK, Backend
<1>2. cause' # "eof"
  BY <1>1 DEF ReplyInv, GotInv
<1>3. GotInv' /\ Items(got)' = Items(got)
  BY <1>1, <1>2, GotKept DEF ReplyInv
<1>4. RanInv'
  BY <1>1, RanKept DEF ReplyInv
<1>5. OpenInv'
  BY <1>1 DEF ReplyInv, OpenInv
<1>6. plan' # <<>> /\ Owed(plan') /\ \A b \in Backend : ~Expects(plan', b)
  BY <1>1, NewPlan
<1>7. OwedInv'
  <2>1. Answerable(taken - 1)' = Answerable(taken)
    BY <1>0, <1>1 DEF Answerable, Answers
  <2>2. Answerable(taken) = Items(got)' \ {Push}
    BY <1>1, <1>3, AllAnswered DEF BetweenCommands
  <2> QED
    BY <1>6, <2>1, <2>2 DEF OwedInv, Answerable
<1>8. WaitInv'
  <2>1. \A b \in Backend : Items(inbox[b])' = {} /\ Items(outbox[b])' \subseteq {Push}
    BY <1>1, AllAnswered, QueuesKept, ZenonT(30) DEF BetweenCommands
  <2> QED
    BY <1>6, <2>1, ZenonT(30) DEF WaitInv, Awaited
<1>9. PipeInv'
  BY <1>6, ZenonT(30) DEF PipeInv, Piping
<1> QED
  BY <1>3, <1>4, <1>5, <1>7, <1>8, <1>9 DEF ReplyInv

\* The command at hand is written to a backend.
LEMMA ReplyWrites ==
  ASSUME TypeOK, PlanInv, ReplyInv, NEW b \in Backend, Writes(b)
  PROVE  ReplyInv'
<1>1. /\ plan \in Shapes /\ plan # <<>> /\ Head(plan) = Op("write", b) /\ mode # "closed"
      /\ plan' = Tail(plan) /\ inbox' = [inbox EXCEPT ![b] = Append(@, taken)]
      /\ UNCHANGED <<commands, got, taken, mode, cause, conn, outbox, ran>>
  BY DEF Writes, Doing, PlanInv
<1>2. taken \in Nat \ {0} /\ Answers(taken)
  BY <1>1, QueueTypes DEF PlanInv
<1>3. cause' # "eof"
  BY <1>1 DEF ReplyInv, GotInv
<1>4. GotInv' /\ Items(got)' = Items(got)
  BY <1>1, <1>3, GotKept DEF ReplyInv
<1>5. RanInv'
  BY <1>1, RanKept DEF ReplyInv
<1>6. OpenInv'
  BY <1>1 DEF ReplyInv, OpenInv
<1>7. /\ inbox[b] \in Seq(Nat) /\ inbox'[b] = Append(inbox[b], taken)
      /\ \A c \in Backend \ {b} : inbox'[c] = inbox[c]
  BY <1>1, QueueTypes, ZenonT(30) DEF TypeOK
<1>8. /\ Items(inbox[b])' = Items(inbox[b]) \cup {taken}
      /\ \A c \in Backend \ {b} : Items(inbox[c])' = Items(inbox[c])
      /\ \A c \in Backend : Items(outbox[c])' = Items(outbox[c])
  <2>1. Items(Append(inbox[b], taken)) = Items(inbox[b]) \cup {taken}
    BY <1>2, <1>7, QueueAppend, ZenonT(30)
  <2> QED
    BY <1>1, <1>7, <2>1 DEF Items
<1>9. /\ ~Expects(plan, b) /\ (Expects(plan', b) <=> plan # <<Wm>>)
      /\ \A c \in Backend \ {b} : Expects(plan', c) <=> Expects(plan, c)
      /\ Owed(plan) /\ (Owed(plan') <=> plan # <<Wm>>)
      /\ plan = <<Wm>> => b = "master" /\ plan' = <<>>
      /\ plan # <<Wm>> => plan' # <<>>
  BY <1>1, AfterWrite
<1>10. \A n : Answerable(n)' = Answerable(n)
  BY <1>1 DEF Answerable, Answers
<1>11. Answerable(taken - 1) = Items(got) \ {Push}
  BY <1>1, <1>9 DEF ReplyInv, OwedInv, Piping
<1>12. Routing(b) => Items(inbox[b]) = {} /\ Items(outbox[b]) \subseteq {Push}
  BY <1>9, ZenonT(30) DEF ReplyInv, WaitInv, Awaited
<1>13. OwedInv'
  <2>1. CASE plan = <<Wm>>
    BY <1>1, <1>9, <2>1 DEF OwedInv, Piping, PlanInv, TypeOK
  <2>2. CASE plan # <<Wm>>
    BY <1>1, <1>4, <1>9, <1>11, <2>2 DEF OwedInv, Answerable, Answers
  <2> QED
    BY <2>1, <2>2
<1>14. WaitInv'
  <2> SUFFICES ASSUME NEW c \in Backend, Routing(c)' PROVE Awaited(c)'
    BY DEF WaitInv
  <2>1. Routing(c) /\ plan # <<Wm>>
    BY <1>1, <1>9 DEF Routing, PlanInv
  <2>2. CASE c = b
    BY <1>1, <1>8, <1>9, <1>12, <2>1, <2>2 DEF Awaited
  <2>3. CASE c # b
    <3>1. Awaited(c)
      BY <2>1 DEF ReplyInv, WaitInv
    <3> QED
      BY <1>1, <1>8, <1>9, <2>3, <3>1 DEF Awaited
  <2> QED
    BY <2>2, <2>3
<1>15. PipeInv'
  <2> SUFFICES ASSUME Piping' PROVE PipeInv'
    BY ZenonT(30) DEF PipeInv
  <2>1. plan = <<Wm>> /\ b = "master" /\ Routing(b)
    BY <1>1, <1>9 DEF Piping, Routing
  <2>2. Items(inbox["master"])' = {taken} /\ Items(outbox["master"])' \subseteq {Push}
    BY <1>8, <1>12, <2>1
  <2>3. Answerable(taken)' = Answerable(taken - 1) \cup {taken}
    <3>1. taken - 1 \in Nat /\ (taken - 1) + 1 = taken
      BY <1>2
    <3>2. Answerable(taken) = Answerable(taken - 1) \cup {taken}
      BY <1>2, <3>1, AnswerableFacts
    <3> QED
      BY <1>1, <3>2 DEF Answerable, Answers
  <2>4. \A k \in Items(got)' : k # Push => k < taken
    <3>1. Answerable(taken - 1) \subseteq 1 .. taken - 1
      BY DEF Answerable
    <3> QED
      BY <1>2, <1>4, <1>11, <3>1
  <2> QED
    BY <1>4, <1>11, <2>2, <2>3, <2>4 DEF PipeInv, Before
<1> QED
  BY <1>4, <1>5, <1>6, <1>13, <1>14, <1>15 DEF ReplyInv

\* A frame of the reply the client waits for is passed on, or dropped.
LEMMA ReplyReads ==
  ASSUME TypeOK, PlanInv, ReplyInv, NEW b \in Backend, Relays(b) \/ Discards(b)
  PROVE  ReplyInv'
<1> DEFINE h == Head(outbox[b])
<1>1. /\ plan \in Shapes /\ plan # <<>> /\ mode # "closed" /\ outbox[b] # <<>>
      /\ Head(plan) \in {Op("relay", b), Op("discard", b)}
      /\ outbox' = [outbox EXCEPT ![b] = Tail(@)]
      /\ plan' = IF h = Push THEN plan ELSE Tail(plan)
      /\ UNCHANGED <<commands, taken, mode, cause, conn, inbox, ran>>
  BY DEF Relays, Discards, Reads, Doing, PlanInv, AfterFrame
<1>2. taken \in Nat \ {0} /\ Answers(taken)
  <2>1. taken > 0 /\ Answers(taken)
    BY <1>1, Zenon DEF PlanInv
  <2>2. taken \in Nat
    BY QueueTypes, Zenon
  <2> QED
    BY <2>1, <2>2
<1>3. /\ Tail(plan) \in {<<>>, <<Dr>>} /\ plan # <<Wm>>
      /\ Expects(plan, b) /\ ~Expects(Tail(plan), b) /\ ~Owed(Tail(plan))
      /\ \A c \in Backend \ {b} : Expects(Tail(plan), c) <=> Expects(plan, c)
  <2>1. CASE Head(plan) = Op("relay", b)
    BY <1>1, <2>1, AfterRelay
  <2>2. CASE Head(plan) = Op("discard", b)
    BY <1>1, <2>2, AfterDiscard, ZenonT(30) DEF Backend
  <2> QED
    BY <1>1, <2>1, <2>2
<1>4. mode = "run"
  BY <1>1, <1>3 DEF PlanInv, TypeOK
<1>5. Awaited(b)
  BY <1>4 DEF ReplyInv, WaitInv, Routing
<1>6. /\ h \in Nat /\ Items(outbox[b]) = {h} \cup Items(outbox[b])'
      /\ Before({h}, Items(outbox[b])')
      /\ \A c \in Backend : /\ Ordered(outbox[c])'
                            /\ Items(outbox[c])' \ {Push} \subseteq Items(ran[c])'
                            /\ Items(inbox[c])' = Items(inbox[c])
                            /\ Items(ran[c])' = Items(ran[c])
      /\ \A c \in Backend \ {b} : Items(outbox[c])' = Items(outbox[c])
  BY <1>1, FrameTaken, ZenonT(30) DEF ReplyInv
<1> HIDE DEF h
<1>7. ASSUME h # Push
      PROVE  /\ h = taken /\ Items(inbox[b]) = {} /\ Items(outbox[b])' \subseteq {Push}
             /\ h \in Items(ran[b])
  <2>1. h = taken /\ Items(inbox[b]) = {} /\ Items(outbox[b]) \subseteq {Push, taken}
    BY <1>3, <1>5, <1>6, <1>7, ZenonT(30) DEF Awaited
  <2>2. taken \notin Items(outbox[b])'
    <3>1. taken \in Items(outbox[b])' => taken < taken
      BY <1>6, <1>7, <2>1, Zenon DEF Before
    <3> QED
      BY <1>2, <3>1
  <2>3. h \in Items(ran[b])
    BY <1>6, <1>7, Zenon DEF ReplyInv, RanInv
  <2> QED
    BY <1>6, <2>1, <2>2, <2>3, Zenon
<1>8. ~Piping /\ ~Piping'
  BY <1>1, <1>4 DEF Piping
<1>9. Awaited(b)'
  <2>1. CASE h = Push
    <3>1. taken # Push
      BY <1>2 DEF Push
    <3>2. Expects(plan, b)' /\ taken' = taken /\ Items(inbox[b])' = Items(inbox[b])
      BY <1>1, <1>3, <1>6, <2>1, ZenonT(30) DEF Expects
    <3> QED
      BY <1>3, <1>5, <1>6, <2>1, <3>1, <3>2, ZenonT(30) DEF Awaited
  <2>2. CASE h # Push
    <3>1. ~Expects(plan, b)'
      BY <1>1, <1>3, <2>2 DEF Expects
    <3> QED
      BY <1>6, <1>7, <2>2, <3>1, ZenonT(30) DEF Awaited
  <2> QED
    BY <2>1, <2>2
<1>10. WaitInv'
  <2>1. ASSUME NEW c \in Backend, c # b PROVE Awaited(c)'
    <3>1. Awaited(c)
      BY <1>4 DEF ReplyInv, WaitInv, Routing
    <3>2. Expects(plan, c)' <=> Expects(plan, c)
      BY <1>1, <1>3, <2>1 DEF Expects
    <3> QED
      BY <1>1, <1>6, <2>1, <3>1, <3>2, ZenonT(30) DEF Awaited
  <2> QED
    BY <1>9, <2>1 DEF WaitInv
<1>11. OpenInv' /\ PipeInv'
  BY <1>1, <1>8, ZenonT(30) DEF ReplyInv, OpenInv, PipeInv
<1>12. CASE Discards(b)
  <2>1. got' = got /\ Head(plan) = Op("discard", b)
    BY <1>12 DEF Discards, Doing
  <2>2. ~Owed(plan) /\ ~Owed(Tail(plan))
    BY <1>1, <2>1, AfterDiscard, ZenonT(30)
  <2>3. cause' # "eof"
    BY <1>1 DEF ReplyInv, GotInv
  <2>4. GotInv' /\ Items(got)' = Items(got)
    BY <1>1, <2>1, <2>3, GotKept DEF ReplyInv
  <2>5. RanInv'
    BY <1>6, <2>4, ZenonT(30) DEF ReplyInv, RanInv, Backend
  <2>6. OwedInv'
    <3>1. Answerable(taken) = Items(got) \ {Push}
      BY <1>1, <1>8, <2>2 DEF ReplyInv, OwedInv
    <3>2. ~Owed(plan)' /\ Answerable(taken)' = Answerable(taken)
      BY <1>1, <2>2 DEF Owed, Answerable, Answers
    <3> QED
      BY <2>4, <3>1, <3>2 DEF OwedInv
  <2> QED
    BY <1>10, <1>11, <2>4, <2>5, <2>6 DEF ReplyInv
<1>13. CASE Relays(b)
  <2>1. got' = Append(got, h) /\ Head(plan) = Op("relay", b)
    BY <1>13 DEF Relays, Doing, h
  <2>2. Owed(plan) /\ ~Owed(Tail(plan))
    BY <1>1, <2>1, AfterRelay
  <2>3. Answerable(taken - 1) = Items(got) \ {Push}
    BY <1>1, <1>8, <2>2 DEF ReplyInv, OwedInv
  <2>4. Answerable(taken) = Answerable(taken - 1) \cup {taken} /\ Answerable(taken - 1) \subseteq 1 .. taken - 1
    <3>1. taken - 1 \in Nat /\ (taken - 1) + 1 = taken
      BY <1>2
    <3> QED
      BY <1>2, <3>1, AnswerableFacts
  <2>5. h # Push => /\ h \in Answerable(taken) /\ Before(Items(got), {h})
                    /\ Answerable(h - 1) \subseteq Items(got)
    BY <1>2, <1>7, <2>3, <2>4 DEF Before
  <2>6. GotInv' /\ Items(got)' = Items(got) \cup {h}
    BY <1>1, <1>6, <2>1, <2>5, GotMore, ZenonT(30) DEF ReplyInv
  <2>7. RanInv'
    BY <1>6, <1>7, <2>6, Zenon DEF ReplyInv, RanInv, Backend
  <2>8. OwedInv'
    <3>1. CASE h = Push
      <4>1. Owed(plan)' /\ Answerable(taken - 1)' = Answerable(taken - 1)
        BY <1>1, <2>2, <3>1 DEF Owed, Answerable, Answers
      <4> QED
        BY <2>3, <2>6, <3>1, <4>1 DEF OwedInv, Answerable
    <3>2. CASE h # Push
      <4>1. ~Owed(plan)' /\ Answerable(taken)' = Answerable(taken)
        BY <1>1, <2>2, <3>2 DEF Owed, Answerable, Answers
      <4> QED
        BY <1>7, <2>3, <2>4, <2>6, <3>2, <4>1 DEF OwedInv
    <3> QED
      BY <3>1, <3>2
  <2> QED
    BY <1>10, <1>11, <2>6, <2>7, <2>8 DEF ReplyInv
<1> QED
  BY <1>12, <1>13

\* The pipe to the master passes the next command on.
LEMMA ReplyFeedsUp ==
  ASSUME TypeOK, StateInv, ReplyInv, FeedsUp
  PROVE  ReplyInv'
<1>0. taken \in Nat
  BY QueueTypes
<1>1. /\ mode = "pinned" /\ plan = <<>> /\ taken' = taken + 1
      /\ inbox' = [inbox EXCEPT !["master"] = Append(@, taken + 1)]
      /\ UNCHANGED <<commands, got, mode, plan, cause, conn, outbox, ran>>
  BY DEF FeedsUp, Piping
<1>2. cause' # "eof"
  BY <1>1 DEF ReplyInv, GotInv
<1>3. GotInv' /\ Items(got)' = Items(got)
  BY <1>1, <1>2, GotKept DEF ReplyInv
<1>4. RanInv'
  BY <1>1, RanKept DEF ReplyInv
<1>5. OpenInv' /\ OwedInv' /\ WaitInv'
  BY <1>1 DEF ReplyInv, OpenInv, OwedInv, WaitInv, Routing, Piping
<1>6. /\ Items(inbox["master"])' = Items(inbox["master"]) \cup {taken + 1}
      /\ Items(outbox["master"])' = Items(outbox["master"])
  <2>1. inbox["master"] \in Seq(Nat) /\ inbox'["master"] = Append(inbox["master"], taken + 1)
    BY <1>1, QueueTypes DEF TypeOK, Backend
  <2>2. Items(Append(inbox["master"], taken + 1)) = Items(inbox["master"]) \cup {taken + 1}
    <3>1. taken + 1 \in Nat
      BY <1>0
    <3> QED
      BY <2>1, <3>1, QueueAppend, Zenon
  <2> QED
    BY <1>1, <2>1, <2>2 DEF Items
<1>7. PipeInv'
  <2>1. Answerable(taken)' \subseteq Answerable(taken) \cup {taken + 1} /\ Answerable(taken) \subseteq Answerable(taken)'
    BY <1>0, <1>1 DEF Answerable, Answers
  <2>2. PipeInv /\ Piping
    BY <1>1 DEF ReplyInv, Piping
  <2>3. /\ \A x \in Items(got) : x # Push => x < taken + 1
        /\ \A x \in Items(outbox["master"]) : x # Push => x < taken + 1
    <3>1. Answerable(taken) \subseteq 1 .. taken
      BY <1>0, AnswerableFacts, Zenon
    <3>2. \A x \in Answerable(taken) : x < taken + 1
      BY <1>0, <3>1
    <3>3. /\ Items(got) \ {Push} \subseteq Answerable(taken)
          /\ Items(outbox["master"]) \ {Push} \subseteq Answerable(taken)
      BY <2>2, Zenon DEF ReplyInv, GotInv, PipeInv
    <3> QED
      BY <3>2, <3>3, Zenon
  <2> QED
    BY <1>3, <1>6, <2>1, <2>2, <2>3, ZenonT(30) DEF PipeInv, Before
<1> QED
  BY <1>3, <1>4, <1>5, <1>7 DEF ReplyInv

\* The pipe from the master passes the next frame on.
LEMMA ReplyFeedsDown ==
  ASSUME TypeOK, StateInv, ReplyInv, FeedsDown
  PROVE  ReplyInv'
<1> DEFINE h == Head(outbox["master"])
<1>0. taken \in Nat /\ "master" \in Backend
  BY QueueTypes DEF Backend
<1>1. /\ mode = "pinned" /\ plan = <<>> /\ outbox["master"] # <<>>
      /\ got' = Append(got, h) /\ outbox' = [outbox EXCEPT !["master"] = Tail(@)]
      /\ UNCHANGED <<commands, taken, mode, plan, cause, conn, inbox, ran>>
  BY DEF FeedsDown, Piping
<1>2. /\ h \in Nat /\ Items(outbox["master"]) = {h} \cup Items(outbox["master"])'
      /\ Before({h}, Items(outbox["master"])')
      /\ \A c \in Backend : /\ Ordered(outbox[c])'
                            /\ Items(outbox[c])' \ {Push} \subseteq Items(ran[c])'
                            /\ Items(inbox[c])' = Items(inbox[c])
                            /\ Items(ran[c])' = Items(ran[c])
  BY <1>0, <1>1, FrameTaken, ZenonT(30) DEF ReplyInv
<1> HIDE DEF h
<1>3. PipeInv /\ Piping
  BY <1>1 DEF ReplyInv, Piping
<1>4. ASSUME h # Push
      PROVE  /\ h \in Answerable(taken) /\ Before(Items(got), {h})
             /\ Answerable(h - 1) \subseteq Items(got)
  <2>1. h \in Answerable(taken) /\ Before(Items(got), {h})
    BY <1>2, <1>3, <1>4, ZenonT(30) DEF PipeInv, Before
  <2>2. h \in 1 .. taken
    BY <2>1 DEF Answerable
  <2>3. ASSUME NEW x \in Answerable(h - 1) PROVE x \in Items(got)
    <3>1. x \in Nat \ {0} /\ x < h /\ x \in Answerable(taken)
      BY <1>0, <2>2 DEF Answerable
    <3>2. x # Push
      BY <3>1 DEF Push
    <3>3. x \notin Items(inbox["master"])
      <4>1. x \in Items(inbox["master"]) => h < x
        BY <1>2, <1>3, <1>4, <3>2, Zenon DEF PipeInv, Before
      <4> QED
        BY <1>2, <3>1, <4>1
    <3>4. x \notin Items(outbox["master"])
      <4>1. x \in Items(outbox["master"])' => h < x
        BY <1>2, <1>4, <3>2, Zenon DEF Before
      <4> QED
        BY <1>2, <3>1, <4>1
    <3> QED
      BY <1>3, <3>1, <3>3, <3>4, ZenonT(30) DEF PipeInv
  <2> QED
    BY <2>1, <2>3
<1>5. GotInv' /\ Items(got)' = Items(got) \cup {h}
  BY <1>1, <1>2, <1>4, GotMore, ZenonT(30) DEF ReplyInv
<1>6. RanInv'
  <2>1. h # Push => h \in Items(ran["master"])
    BY <1>0, <1>2, ZenonT(30) DEF ReplyInv, RanInv
  <2> QED
    BY <1>2, <1>5, <2>1, ZenonT(30) DEF ReplyInv, RanInv, Backend
<1>7. OpenInv' /\ OwedInv' /\ WaitInv'
  BY <1>1 DEF ReplyInv, OpenInv, OwedInv, WaitInv, Routing, Piping
<1>8. PipeInv'
  <2>1. Answerable(taken)' = Answerable(taken)
    BY <1>1 DEF Answerable, Answers
  <2>2. Items(inbox["master"])' = Items(inbox["master"])
    BY <1>0, <1>2
  <2>3. /\ Before(Items(got) \cup {h}, Items(outbox["master"])')
        /\ Before(Items(got) \cup {h}, Items(inbox["master"]))
        /\ Before(Items(outbox["master"])', Items(inbox["master"]))
    BY <1>2, <1>3, ZenonT(30) DEF PipeInv, Before
  <2>4. /\ Items(outbox["master"])' \ {Push} \subseteq Answerable(taken)
        /\ Answerable(taken) \subseteq
             (Items(got) \cup {h}) \cup Items(outbox["master"])' \cup Items(inbox["master"])
    BY <1>2, <1>3 DEF PipeInv
  <2> QED
    BY <1>5, <2>1, <2>2, <2>3, <2>4, Zenon DEF PipeInv, Before
<1> QED
  BY <1>5, <1>6, <1>7, <1>8 DEF ReplyInv

\* A backend executes a command.
LEMMA ReplyExecute ==
  ASSUME TypeOK, PlanInv, StateInv, ReplyInv, NEW b \in Backend, Execute(b)
  PROVE  ReplyInv'
<1> DEFINE k == Head(inbox[b])
           q == inbox[b]
           answered == Answers(k) /\ conn[b] = "open"
<1>0. taken \in Nat
  BY QueueTypes
<1>1. /\ q # <<>> /\ conn[b] \in {"open", "closed"}
      /\ ran' = [ran EXCEPT ![b] = Append(@, k)]
      /\ outbox' = [outbox EXCEPT ![b] = IF answered THEN Append(@, k) ELSE @]
      /\ inbox' = [inbox EXCEPT ![b] = Tail(@)]
      /\ UNCHANGED <<commands, got, taken, mode, plan, cause, conn>>
  BY DEF Execute, clientVars
<1>2. /\ inbox'[b] = Tail(q) /\ ran'[b] = Append(ran[b], k)
      /\ outbox'[b] = IF answered THEN Append(outbox[b], k) ELSE outbox[b]
      /\ \A c \in Backend \ {b} : inbox'[c] = inbox[c] /\ ran'[c] = ran[c] /\ outbox'[c] = outbox[c]
  BY <1>1 DEF TypeOK
<1>3. /\ q \in Seq(Nat) /\ ran[b] \in Seq(Nat) /\ outbox[b] \in Seq(Nat)
      /\ Ordered(q) /\ Ordered(outbox[b])
      /\ Before(Items(ran[b]), Items(q)) /\ Items(q) \subseteq 1 .. taken
      /\ Items(outbox[b]) \ {Push} \subseteq Items(ran[b])
  BY QueueTypes, ItemTypes, ZenonT(30) DEF StateInv, GivenInv, ReplyInv, RanInv
<1> HIDE DEF q
<1>4. /\ Head(q) \in Nat /\ Items(q) = {Head(q)} \cup Items(Tail(q))
      /\ Before({Head(q)}, Items(Tail(q)))
  BY <1>1, <1>3, QueueTail, Zenon
<1>5. k = Head(q) /\ q = inbox[b]
  BY DEF q
<1> HIDE DEF k, answered
<1>6. k \in 1 .. taken /\ k \in Nat /\ k # Push /\ Before(Items(outbox[b]), {k})
  BY <1>0, <1>3, <1>4, <1>5 DEF Push, Before
<1>7. /\ Items(Append(ran[b], k)) = Items(ran[b]) \cup {k}
      /\ Items(Append(outbox[b], k)) = Items(outbox[b]) \cup {k} /\ Ordered(Append(outbox[b], k))
  BY <1>3, <1>6, QueueAppend, ZenonT(30)
<1>8. /\ Items(inbox[b])' = Items(Tail(q)) /\ Items(ran[b])' = Items(ran[b]) \cup {k}
      /\ Items(outbox[b])' = Items(outbox[b]) \cup {x \in {k} : answered}
      /\ Ordered(outbox[b])'
  <2>1. Items(inbox[b])' = Items(Tail(q)) /\ Items(ran[b])' = Items(Append(ran[b], k))
    BY <1>2 DEF Items
  <2>2. CASE answered
    BY <1>2, <1>7, <2>1, <2>2 DEF Items, Ordered
  <2>3. CASE ~answered
    <3>1. Items(outbox[b])' = Items(outbox[b]) /\ Ordered(outbox[b])'
      BY <1>2, <1>3, <2>3 DEF Items, Ordered
    <3> QED
      BY <1>7, <2>1, <2>3, <3>1
  <2> QED
    BY <2>2, <2>3, Zenon
<1>9. \A c \in Backend \ {b} :
        /\ Items(inbox[c])' = Items(inbox[c]) /\ Items(ran[c])' = Items(ran[c])
        /\ Items(outbox[c])' = Items(outbox[c]) /\ (Ordered(outbox[c])' <=> Ordered(outbox[c]))
  BY <1>2 DEF Items, Ordered
<1>10. GotInv' /\ Items(got)' = Items(got)
  <2>1. \A n : Answerable(n)' = Answerable(n)
    BY <1>1 DEF Answerable, Answers
  <2>2. Answerable(taken)' = Answerable(taken) /\ Answerable(sent)' = Answerable(sent) /\ sent' = sent
    BY <1>1 DEF Answerable, Answers, sent
  <2>3. Items(got)' = Items(got) /\ (Ordered(got)' <=> Ordered(got))
    BY <1>1 DEF Items, Ordered
  <2> QED
    BY <1>1, <2>1, <2>2, <2>3 DEF ReplyInv, GotInv
<1>11. RanInv'
  <2>1. \A c \in Backend : Ordered(outbox[c])' /\ Items(outbox[c])' \ {Push} \subseteq Items(ran[c])'
    BY <1>3, <1>8, <1>9, ZenonT(30) DEF ReplyInv, RanInv
  <2>2. \A c \in Backend : Items(ran[c]) \subseteq Items(ran[c])'
    BY <1>8, <1>9, Zenon
  <2> QED
    BY <1>10, <2>1, <2>2 DEF ReplyInv, RanInv, Backend
<1>12. OpenInv' /\ (Piping' <=> Piping)
  BY <1>1 DEF ReplyInv, OpenInv, Piping
<1>13. OwedInv'
  BY <1>1, <1>10, <1>12 DEF ReplyInv, OwedInv, Owed, Answerable, Answers
<1>14. WaitInv'
  <2> SUFFICES ASSUME NEW c \in Backend, Routing(c)' PROVE Awaited(c)'
    BY DEF WaitInv
  <2>1. Awaited(c) /\ (Expects(plan, c)' <=> Expects(plan, c)) /\ Routing(c)
    BY <1>1 DEF ReplyInv, WaitInv, Routing, Expects
  <2>2. CASE c # b
    BY <1>1, <1>9, <2>1, <2>2 DEF Awaited
  <2>3. CASE c = b
    <3>1. Items(q) # {}
      BY <1>4
    <3>2. Expects(plan, b) /\ Items(q) = {taken} /\ Items(outbox[b]) \subseteq {Push}
      BY <1>5, <2>1, <2>3, <3>1, ZenonT(30) DEF Awaited
    <3>3. k = taken /\ Items(Tail(q)) = {}
      BY <1>4, <1>5, <1>6, <3>2 DEF Before
    <3>4. conn[b] # "closed"
      BY <2>1, <2>3 DEF ReplyInv, OpenInv, Routing, Backend
    <3>5. plan # <<>>
      BY <3>2 DEF Expects
    <3>6. answered
      BY <1>1, <3>3, <3>4, <3>5 DEF answered, PlanInv
    <3> QED
      BY <1>1, <1>8, <2>1, <2>3, <3>2, <3>3, <3>6, ZenonT(30) DEF Awaited
  <2> QED
    BY <2>2, <2>3
<1>15. PipeInv'
  <2> SUFFICES ASSUME Piping PROVE PipeInv'
    BY <1>12, Zenon DEF PipeInv
  <2>1. PipeInv /\ Answerable(taken)' = Answerable(taken)
    BY <1>1 DEF ReplyInv, Answerable, Answers
  <2>2. CASE b # "master"
    <3>1. /\ Items(inbox["master"])' = Items(inbox["master"])
          /\ Items(outbox["master"])' = Items(outbox["master"])
      BY <1>9, <2>2, ZenonT(30) DEF Backend
    <3> QED
      BY <1>10, <1>12, <2>1, <3>1, ZenonT(30) DEF PipeInv, Before
  <2>3. CASE b = "master"
    <3>1. conn[b] = "open"
      BY <1>1, <2>3 DEF ReplyInv, OpenInv, Piping
    <3>2. Answers(k) <=> answered
      BY <3>1 DEF answered
    <3>3. k \in Items(inbox["master"]) /\ Items(inbox["master"])' \subseteq Items(inbox["master"])
      BY <1>4, <1>5, <1>8, <2>3, ZenonT(30)
    <3>4. /\ Before(Items(got), Items(outbox["master"])')
          /\ Before(Items(got), Items(inbox["master"])')
      BY <1>8, <2>1, <2>3, <3>3, ZenonT(30) DEF PipeInv, Before
    <3>5. Before(Items(outbox["master"])', Items(inbox["master"])')
      BY <1>4, <1>5, <1>8, <2>1, <2>3, <3>3, ZenonT(30) DEF PipeInv, Before
    <3>6. Items(outbox["master"])' \ {Push} \subseteq Answerable(taken)
      BY <1>0, <1>6, <1>8, <2>1, <2>3, <3>2, AnswerableFacts DEF PipeInv
    <3>7. Answerable(taken) \subseteq
            Items(got) \cup Items(outbox["master"])' \cup Items(inbox["master"])'
      <4> SUFFICES ASSUME NEW x \in Answerable(taken), x \in Items(inbox["master"])
                   PROVE  x \in Items(outbox["master"])' \cup Items(inbox["master"])'
        BY <1>8, <2>1, <2>3, Zenon DEF PipeInv
      <4>1. Answers(x)
        BY DEF Answerable
      <4> QED
        BY <1>4, <1>5, <1>8, <2>3, <3>2, <4>1, ZenonT(30)
    <3> QED
      BY <1>10, <2>1, <3>4, <3>5, <3>6, <3>7, ZenonT(30) DEF PipeInv, Before
  <2> QED
    BY <2>2, <2>3
<1> QED
  BY <1>10, <1>11, <1>12, <1>13, <1>14, <1>15 DEF ReplyInv

\* A backend pushes a message.
LEMMA ReplyPush ==
  ASSUME TypeOK, ReplyInv, NEW b \in Backend, SendPush(b)
  PROVE  ReplyInv'
<1>1. /\ outbox' = [outbox EXCEPT ![b] = Append(@, Push)]
      /\ UNCHANGED <<commands, got, taken, mode, plan, cause, conn, inbox, ran>>
  BY DEF SendPush, clientVars
<1>2. /\ outbox[b] \in Seq(Nat) /\ Push \in Nat /\ outbox'[b] = Append(outbox[b], Push)
      /\ \A c \in Backend \ {b} : outbox'[c] = outbox[c]
  BY <1>1, QueueTypes DEF TypeOK, Push
<1>3. Items(Append(outbox[b], Push)) = Items(outbox[b]) \cup {Push} /\ Ordered(Append(outbox[b], Push))
  <2>1. Before(Items(outbox[b]), {Push}) /\ Ordered(outbox[b])
    BY DEF Before, ReplyInv, RanInv
  <2> QED
    BY <1>2, <2>1, QueueAppend, ZenonT(30)
<1>4. \A c \in Backend : /\ Items(outbox[c]) \subseteq Items(outbox[c])'
                         /\ Items(outbox[c])' \subseteq Items(outbox[c]) \cup {Push}
                         /\ Ordered(outbox[c])'
                         /\ Items(inbox[c])' = Items(inbox[c]) /\ Items(ran[c])' = Items(ran[c])
  <2>1. \A c \in Backend : Items(inbox[c])' = Items(inbox[c]) /\ Items(ran[c])' = Items(ran[c])
    BY <1>1 DEF Items
  <2>2. Items(outbox[b])' = Items(outbox[b]) \cup {Push} /\ Ordered(outbox[b])'
    BY <1>2, <1>3, ZenonT(30) DEF Items, Ordered
  <2>3. \A c \in Backend \ {b} : Items(outbox[c])' = Items(outbox[c]) /\ (Ordered(outbox[c])' <=> Ordered(outbox[c]))
    BY <1>2 DEF Items, Ordered
  <2> QED
    BY <2>1, <2>2, <2>3, ZenonT(30) DEF ReplyInv, RanInv
<1>5. Items(got)' = Items(got) /\ (Ordered(got)' <=> Ordered(got))
  BY <1>1 DEF Items, Ordered
<1>6. /\ \A n : Answerable(n)' = Answerable(n)
      /\ Answerable(taken)' = Answerable(taken) /\ Answerable(sent)' = Answerable(sent) /\ sent' = sent
  BY <1>1 DEF Answerable, Answers, sent
<1>7. GotInv'
  BY <1>1, <1>5, <1>6 DEF ReplyInv, GotInv
<1>8. RanInv'
  BY <1>4, <1>5, Zenon DEF ReplyInv, RanInv, Backend
<1>9. OpenInv' /\ (Piping' <=> Piping)
  BY <1>1 DEF ReplyInv, OpenInv, Piping
<1>10. OwedInv'
  BY <1>1, <1>5, <1>9 DEF ReplyInv, OwedInv, Owed, Answerable, Answers
<1>11. WaitInv'
  <2> SUFFICES ASSUME NEW c \in Backend, Routing(c)' PROVE Awaited(c)'
    BY DEF WaitInv
  <2>1. Awaited(c) /\ (Expects(plan, c)' <=> Expects(plan, c)) /\ taken' = taken
    BY <1>1 DEF ReplyInv, WaitInv, Routing, Expects
  <2> QED
    BY <1>4, <2>1, Zenon DEF Awaited
<1>12. PipeInv'
  <2> SUFFICES ASSUME Piping PROVE PipeInv'
    BY <1>9 DEF PipeInv
  <2>1. PipeInv
    BY DEF ReplyInv
  <2>2. /\ Items(outbox["master"]) \subseteq Items(outbox["master"])'
        /\ Items(outbox["master"])' \subseteq Items(outbox["master"]) \cup {Push}
        /\ Items(inbox["master"])' = Items(inbox["master"])
    BY <1>4, ZenonT(30) DEF Backend
  <2> QED
    BY <1>5, <1>6, <2>1, <2>2, ZenonT(30) DEF PipeInv, Before
<1> QED
  BY <1>7, <1>8, <1>9, <1>10, <1>11, <1>12 DEF ReplyInv

\* Every step keeps the replies in order, if no command starts with an empty
\* string: run takes such a command for a no-op, but redis answers it.
LEMMA ReplyStep ==
  ASSUME "noName" \notin Command
  PROVE  TypeOK /\ PlanInv /\ StateInv /\ ReplyInv /\ [Next]_vars => ReplyInv'
<1> SUFFICES ASSUME TypeOK, PlanInv, StateInv, ReplyInv, [Next]_vars PROVE ReplyInv'
  OBVIOUS
<1>1. CASE Quiet \/ Sends \/ \E b \in Backend : Disconnect(b)
  <2>1. UNCHANGED <<got, taken, mode, plan, cause, inbox, outbox, ran>>
    BY <1>1 DEF Quiet, Sends, Disconnect, backendVars
  <2>2. \A b \in Backend : conn'[b] = "closed" => conn[b] = "closed"
    BY <1>1 DEF Quiet, Sends, Disconnect, TypeOK
  <2>3. \/ commands' = commands
        \/ mode # "closed" /\ \E name \in Command : commands' = Append(commands, name)
    BY <1>1 DEF Quiet, Sends, Disconnect, clientVars
  <2> QED
    BY <2>1, <2>2, <2>3, ReplyKept
<1>2. CASE Skips
  BY <1>2, ReplySkips, ReplyClosed
<1> QED
  BY <1>1, <1>2, ReplyClosed, ReplyInlines, ReplyTakes, ReplyWrites, ReplyReads, ReplyFeedsUp,
     ReplyFeedsDown, ReplyExecute, ReplyPush, StepKinds

\* What the client has is in order, and complete.
LEMMA ReplyInvInOrder == TypeOK /\ ReplyInv => RepliesInOrder
<1> SUFFICES ASSUME TypeOK, ReplyInv, NEW i \in 1 .. Len(got), got[i] # Push
             PROVE  got[i] \in Answerable(sent) /\ RepliesAmong(i - 1) = Answerable(got[i] - 1)
  BY DEF RepliesInOrder
<1>1. /\ got \in Seq(Nat) /\ Len(got) \in Nat /\ taken \in Nat /\ sent \in Nat /\ taken <= sent
      /\ got[i] \in Nat
  BY QueueTypes, LenProperties, ElementOfSeq
<1>2. \A j \in 1 .. Len(got) : got[j] \in Items(got)
  BY DEF Items
<1>3. \A j \in 1 .. Len(got) : got[j] # Push => got[j] \in Answerable(taken) /\ got[j] \in 1 .. taken /\ Answers(got[j])
  <2>1. \A k \in Answerable(taken) : k \in 1 .. taken /\ Answers(k)
    BY DEF Answerable
  <2> QED
    BY <1>2, <2>1, Zenon DEF ReplyInv, GotInv
<1>4. got[i] \in Answerable(sent)
  BY <1>1, <1>3 DEF Answerable
<1>5. ASSUME NEW x \in RepliesAmong(i - 1) PROVE x \in Answerable(got[i] - 1)
  <2>1. PICK j \in 1 .. i - 1 : x = got[j] /\ got[j] # Push
    BY DEF RepliesAmong
  <2>2. j \in 1 .. Len(got) /\ j < i
    BY <1>1
  <2>3. x < got[i] /\ x \in 1 .. taken /\ Answers(x)
    BY <1>3, <2>1, <2>2 DEF ReplyInv, GotInv, Ordered
  <2> QED
    BY <1>1, <2>3 DEF Answerable
<1>6. ASSUME NEW x \in Answerable(got[i] - 1) PROVE x \in RepliesAmong(i - 1)
  <2>1. x \in Nat /\ x # Push /\ x < got[i]
    BY <1>1 DEF Answerable, Push
  <2>2. x \in Items(got)
    BY <1>2 DEF ReplyInv, GotInv
  <2>3. PICK j \in 1 .. Len(got) : x = got[j]
    BY <2>2 DEF Items
  <2>4. j < i
    <3>1. i < j => got[i] < x
      BY <2>1, <2>3 DEF ReplyInv, GotInv, Ordered
    <3>2. i # j
      BY <1>1, <2>1, <2>3
    <3> QED
      BY <1>1, <2>1, <3>1, <3>2
  <2>5. j \in 1 .. i - 1
    BY <1>1, <2>4
  <2> QED
    BY <2>1, <2>3, <2>5 DEF RepliesAmong
<1> QED
  BY <1>4, <1>5, <1>6, Zenon

\* Nothing is lost at the end, nor when the pipes take over.
LEMMA ReplyInvNothingDropped == TypeOK /\ ReplyInv => NothingDropped
<1> SUFFICES ASSUME TypeOK, ReplyInv PROVE NothingDropped
  OBVIOUS
<1>1. RepliesAmong(Len(got)) = Items(got) \ {Push}
  BY DEF RepliesAmong, Items
<1>2. ASSUME cause = "eof" PROVE Items(got) \ {Push} = Answerable(sent)
  <2>1. \A k \in Answerable(sent) : k # Push
    BY DEF Answerable, Push
  <2> QED
    BY <1>2, <2>1 DEF ReplyInv, GotInv
<1>3. ASSUME Piping, NEW k \in 1 .. taken, Answers(k)
      PROVE  \E b \in Backend : \E i \in 1 .. Len(ran[b] \o inbox[b]) : (ran[b] \o inbox[b])[i] = k
  <2>1. k \in Answerable(taken) /\ k # Push
    BY <1>3 DEF Answerable, Push
  <2>2. k \in Items(got) \cup Items(outbox["master"]) \cup Items(inbox["master"])
    BY <1>3, <2>1 DEF ReplyInv, PipeInv
  <2>3. PICK b \in Backend : k \in Items(ran[b]) \cup Items(inbox[b])
    BY <2>1, <2>2 DEF ReplyInv, RanInv, Backend
  <2> DEFINE r == ran[b]
             q == inbox[b]
  <2>4. r \in Seq(Nat) /\ q \in Seq(Nat) /\ k \in Items(r) \cup Items(q)
    BY <2>3, QueueTypes
  <2>5. \E i \in 1 .. Len(r \o q) : (r \o q)[i] = k
    <3> HIDE DEF r, q
    <3>1. /\ Len(r) \in Nat /\ Len(q) \in Nat /\ Len(r \o q) = Len(r) + Len(q)
          /\ \A i \in 1 .. Len(r) : (r \o q)[i] = r[i]
          /\ \A i \in 1 .. Len(q) : (r \o q)[Len(r) + i] = q[i]
      BY <2>4, ConcatProperties, LenProperties
    <3>2. CASE k \in Items(r)
      <4>1. PICK i \in 1 .. Len(r) : r[i] = k
        BY <3>2 DEF Items
      <4>2. i \in 1 .. Len(r \o q)
        BY <3>1
      <4> QED
        BY <3>1, <4>1, <4>2
    <3>3. CASE k \in Items(q)
      <4>1. PICK i \in 1 .. Len(q) : q[i] = k
        BY <3>3 DEF Items
      <4>2. Len(r) + i \in 1 .. Len(r \o q)
        BY <3>1
      <4> QED
        BY <3>1, <4>1, <4>2
    <3> QED
      BY <2>4, <3>2, <3>3
  <2> QED
    BY <2>5, ZenonT(30)
<1> QED
  BY <1>1, <1>2, <1>3, Zenon DEF NothingDropped

-----------------------------------------------------------------------------
(***************************************************************************)
(* The theorems.                                                           *)
(***************************************************************************)
\* Whatever the client sends and in whatever order the backends work: a command
\* is executed, by the master or by the replica, after exactly the state commands
\* (SELECT, AUTH, CLIENT ...) that the client sent before it.
THEOREM ConnectionStateInStep == Spec => []StateInStep
BY TypeInit, TypeStep, StateInit, PlanStep, StateStep, StateInvInStep, PTL DEF Spec

\* The client of a routed session gets one reply for each command, in the order
\* of its commands, although two backends answer.  The one thing that must not
\* occur is a command whose name is the empty string.
THEOREM OneReplyEachInOrder ==
  ASSUME "noName" \notin Command
  PROVE  Spec => []RepliesInOrder
BY TypeInit, TypeStep, StateInit, PlanStep, StateStep, ReplyInit, ReplyStep, ReplyInvInOrder,
   PTL DEF Spec

\* What the client has sent before it closes its side is answered before run
\* ends the session, and what run had read ahead when it pins the session is
\* passed on by the pipes.
THEOREM NoCommandDropped ==
  ASSUME "noName" \notin Command
  PROVE  Spec => []NothingDropped
BY TypeInit, TypeStep, StateInit, PlanStep, StateStep, ReplyInit, ReplyStep,
   ReplyInvNothingDropped, PTL DEF Spec
=============================================================================
