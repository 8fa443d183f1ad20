--------------------------- MODULE RoutedSession ----------------------------
(***************************************************************************)
(* A routed session of the proxy (routedSession of src/pkg/proxy/          *)
(* routing.go): commands are read from the client one by one and sent to   *)
(* the master, to the replica or to both; a conversation that cannot be    *)
(* routed pins the session to the master and turns it into two pipes.      *)
(*                                                                         *)
(* The client's commands are numbered in the order it sends them, and a    *)
(* reply carries the number of its command.  What run still has to do for  *)
(* the command at hand is a list of operations (plan).  When the idle      *)
(* timeout strikes is left open here; Session has the clock.               *)
(***************************************************************************)
EXTENDS Integers, Sequences

CONSTANTS
  Command,      \* the commands clients use, see below
  MaxCommands,  \* bound on the commands of a session
  MaxPushes,    \* bound on the out-of-band messages of a session
  Window        \* replies the client's socket holds before Write blocks

\* The tables, with a command for every combination that occurs in them; SET is
\* in none.  What is not the name of a command: "inline" (telnet-style),
\* "malformed", "empty" (an array of no elements) and "noName" (an array that
\* starts with an empty string).
readOnlyCommands == {"GET", "SELECT", "SUBSCRIBE"}
stateCommands == {"SELECT", "CLIENT"}
pinCommands == {"SUBSCRIBE", "MULTI"}
Named == readOnlyCommands \cup stateCommands \cup pinCommands \cup {"SET"}

ASSUME RoutedAssumption ==
  /\ Command \subseteq Named \cup {"inline", "malformed", "empty", "noName"}
  /\ MaxCommands \in Nat /\ MaxPushes \in Nat /\ Window \in Nat \ {0}

Backend == {"master", "replica"}
Push == 0                       \* a frame that is no reply

VARIABLES
  \* The client.
  commands,  \* what it has sent
  eof, gone, \* it has closed its sending side; its connection is reset
  got, seen, \* the frames written to it; how many of them it has read
  \* The session.
  fetched,   \* commands read from the client's socket into clientR
  taken,     \* commands taken out of clientR
  mode,      \* "run", "pinned" or "closed"
  plan,      \* operations left for the last command taken
  up, down,  \* the pipes of a pinned session: "run" or "done"
  cause,     \* why the session ended
  \* The backends.
  conn,      \* "open", "lost" (by the backend), "closed" (by the proxy), "none"
  shut,      \* the proxy has closed its sending side to the master
  inbox,     \* commands written to a backend and not executed yet
  ran,       \* history: commands executed by a backend
  outbox,    \* frames of a backend that the session has not read
  pushes

clientVars == <<commands, eof, gone, seen>>
sent == Len(commands)
backendVars == <<ran, pushes>>
vars == <<clientVars, got, fetched, taken, mode, plan, up, down, cause,
          conn, shut, inbox, outbox, backendVars>>

Init ==
  /\ commands = <<>> /\ eof = FALSE /\ gone = FALSE /\ got = <<>> /\ seen = 0
  /\ fetched = 0 /\ taken = 0 /\ mode = "run" /\ plan = <<>>
  /\ up = "run" /\ down = "run" /\ cause = "none"
  /\ conn \in {c \in [Backend -> {"open", "none"}] : c["master"] = "open"}
  /\ shut = FALSE
  /\ inbox = [b \in Backend |-> <<>>] /\ ran = [b \in Backend |-> <<>>]
  /\ outbox = [b \in Backend |-> <<>>] /\ pushes = 0

-----------------------------------------------------------------------------
(***************************************************************************)
(* run: which backends a command goes to.                                  *)
(***************************************************************************)
HasReplica == conn["replica"] \notin {"none", "closed"}

GetDirection(name) == IF name \in readOnlyCommands THEN "Read" ELSE "Write"

TableIgnored(name) == IF HasReplica THEN "replica" ELSE "master"

\* The backend of a command that is neither pinning nor connection state.
Route(name) ==
  IF HasReplica /\ GetDirection(name) = "Read" THEN "replica" ELSE "master"

Op(what, b) == [op |-> what, to |-> b]

\* backend.Write and copyRESP to the client
Forward(b) == <<Op("write", b), Op("relay", b)>>

StateToMasterOnly == Forward("master")

ReplicaReplyKept ==
  IF HasReplica
  THEN <<Op("write", "master"), Op("write", "replica"), Op("relay", "master")>>
  ELSE Forward("master")

\* To both backends; the client sees the reply of the master.
stateCommand ==
  IF HasReplica
  THEN <<Op("write", "master"), Op("write", "replica"),
         Op("relay", "master"), Op("discard", "replica")>>
  ELSE Forward("master")

Plan(name) ==
  IF name \in pinCommands THEN <<Op("write", "master")>>
  ELSE IF name \in stateCommands THEN stateCommand
  ELSE Forward(Route(name))

\* run returns and routedProxy closes what is open.
Close(why) ==
  /\ mode' = "closed" /\ cause' = why
  /\ conn' = [b \in Backend |-> IF conn[b] = "open" THEN "closed" ELSE conn[b]]

\* The start of pin: the replica is dropped.
pin ==
  /\ mode' = "pinned"
  /\ conn' = [conn EXCEPT !["replica"] = IF HasReplica THEN "closed" ELSE @]

\* clientR reads what has arrived, at most a buffer full.
Fill ==
  /\ mode # "closed" /\ plan = <<>> /\ taken = fetched /\ ~gone
  /\ mode = "pinned" => up = "run"
  /\ fetched' \in fetched + 1 .. sent
  /\ UNCHANGED <<clientVars, got, taken, mode, plan, up, down, cause, conn,
                 shut, inbox, outbox, backendVars>>

\* What readCommand makes of an input: a name, or one of three other results.
readCommand(input) ==
  CASE input = "inline" -> "errInlineCommand"
    [] input = "malformed" -> "error"
    [] input \in {"empty", "noName"} -> "emptyName"
    [] OTHER -> input

\* Peek leaves an inline command in clientR; an empty name counts as a no-op.
NextCommand ==
  /\ mode = "run" /\ plan = <<>> /\ taken < fetched
  /\ LET name == readCommand(commands[taken + 1]) IN
     \/ /\ name = "errInlineCommand" /\ pin
        /\ UNCHANGED <<taken, plan, cause>>
     \/ /\ name = "error" /\ Close("error")
        /\ taken' = taken + 1 /\ UNCHANGED plan
     \/ /\ name = "emptyName"
        /\ taken' = taken + 1 /\ UNCHANGED <<mode, plan, cause, conn>>
     \/ /\ name \in Named
        /\ taken' = taken + 1 /\ plan' = Plan(name)
        /\ IF name \in pinCommands THEN pin ELSE UNCHANGED <<mode, conn>>
        /\ UNCHANGED cause
  /\ UNCHANGED <<clientVars, got, fetched, up, down, shut, inbox, outbox,
                 backendVars>>

\* readCommand returns io.EOF or another error, once clientR is empty.
ReadFails ==
  /\ mode = "run" /\ plan = <<>> /\ taken = fetched
  /\ \/ gone /\ Close("error")
     \/ eof /\ fetched = sent /\ Close("eof")
  /\ UNCHANGED <<clientVars, got, fetched, taken, plan, up, down, shut, inbox,
                 outbox, backendVars>>

-----------------------------------------------------------------------------
(***************************************************************************)
(* The operations of the plan.  A write to a connection that is lost may   *)
(* fail or not be noticed; a read gets what had arrived, or an error.      *)
(***************************************************************************)
Doing(what, b) == mode # "closed" /\ plan # <<>> /\ Head(plan) = Op(what, b)

\* backend.Write(raw)
WriteCommand(b) ==
  /\ Doing("write", b)
  /\ \/ /\ inbox' = [inbox EXCEPT ![b] = Append(@, taken)]
        /\ plan' = Tail(plan)
        /\ UNCHANGED <<mode, cause, conn>>
     \/ /\ conn[b] = "lost" /\ Close("error")
        /\ UNCHANGED <<inbox, plan>>
  /\ UNCHANGED <<clientVars, got, fetched, taken, up, down, shut, outbox, backendVars>>

CountPushes(frame) == Tail(plan)

\* copyRESP passes messages on until it has seen the reply.
AfterFrame(frame) == IF frame = Push THEN plan ELSE Tail(plan)

HasRoom == Len(got) - seen < Window

\* copyRESP(s.client, ...)
Relay(b) ==
  /\ Doing("relay", b)
  /\ \/ /\ outbox[b] # <<>> /\ HasRoom /\ ~gone
        /\ got' = Append(got, Head(outbox[b]))
        /\ outbox' = [outbox EXCEPT ![b] = Tail(@)]
        /\ plan' = AfterFrame(Head(outbox[b]))
        /\ UNCHANGED <<mode, cause, conn>>
     \/ /\ conn[b] = "lost" \/ (gone /\ outbox[b] # <<>>)
        /\ Close("error")
        /\ UNCHANGED <<got, outbox, plan>>
  /\ UNCHANGED <<clientVars, fetched, taken, up, down, shut, inbox, backendVars>>

\* copyRESP(io.Discard, ...)
Discard(b) ==
  /\ Doing("discard", b)
  /\ \/ /\ outbox[b] # <<>>
        /\ outbox' = [outbox EXCEPT ![b] = Tail(@)]
        /\ plan' = AfterFrame(Head(outbox[b]))
        /\ UNCHANGED <<mode, cause, conn>>
     \/ /\ conn[b] = "lost" /\ Close("error")
        /\ UNCHANGED <<outbox, plan>>
  /\ UNCHANGED <<clientVars, got, fetched, taken, up, down, shut, inbox, backendVars>>

\* The idle timeout ends a read for which nothing has arrived.
IdleTimeout ==
  /\ mode = "run"
  /\ \/ plan = <<>> /\ taken = sent /\ ~eof /\ ~gone
     \/ \E b \in Backend : /\ Doing("relay", b) \/ Doing("discard", b)
                           /\ outbox[b] = <<>> /\ conn[b] = "open"
  /\ Close("idle")
  /\ UNCHANGED <<clientVars, got, fetched, taken, plan, up, down, shut, inbox,
                 outbox, backendVars>>

-----------------------------------------------------------------------------
(***************************************************************************)
(* The pipes of a pinned session (pipe of proxy.go, from clientR and from  *)
(* masterR).                                                               *)
(***************************************************************************)
Piping == mode = "pinned" /\ plan = <<>>

PastBuffer == fetched

\* The buffered bytes come first.
NextChunk == taken + 1

NotHalfClosed == shut

\* CloseWrite of the master's connection when the pipe to it ends
HalfClosed == TRUE

PipeUp ==
  /\ Piping /\ up = "run" /\ taken < fetched
  /\ \/ /\ taken' = NextChunk
        /\ inbox' = [inbox EXCEPT !["master"] = Append(@, NextChunk)]
        /\ UNCHANGED <<up, shut>>
     \/ /\ conn["master"] = "lost"
        /\ up' = "done" /\ shut' = HalfClosed
        /\ UNCHANGED <<taken, inbox>>
  /\ UNCHANGED <<clientVars, got, fetched, mode, plan, down, cause, conn, outbox,
                 backendVars>>

\* The end of the client's stream, or an error.
PipeUpEnds ==
  /\ Piping /\ up = "run" /\ taken = fetched
  /\ gone \/ (eof /\ fetched = sent)
  /\ up' = "done" /\ shut' = HalfClosed
  /\ UNCHANGED <<clientVars, got, fetched, taken, mode, plan, down, cause, conn,
                 inbox, outbox, backendVars>>

PipeDown ==
  /\ Piping /\ down = "run" /\ outbox["master"] # <<>>
  /\ \/ /\ HasRoom /\ ~gone
        /\ got' = Append(got, Head(outbox["master"]))
        /\ outbox' = [outbox EXCEPT !["master"] = Tail(@)]
        /\ UNCHANGED down
     \/ /\ gone /\ down' = "done"
        /\ UNCHANGED <<got, outbox>>
  /\ UNCHANGED <<clientVars, fetched, taken, mode, plan, up, cause, conn, shut,
                 inbox, backendVars>>

\* The end of the master's stream, or an error.
PipeDownEnds ==
  /\ Piping /\ down = "run" /\ conn["master"] = "lost"
  /\ down' = "done"
  /\ UNCHANGED <<clientVars, got, fetched, taken, mode, plan, up, cause, conn,
                 shut, inbox, outbox, backendVars>>

\* The idle timeout ends a pipe when nothing arrives for either.
PipesIdle ==
  /\ Piping /\ outbox["master"] = <<>> /\ (up = "run" => taken = sent)
  /\ \/ up = "run" /\ up' = "done" /\ shut' = HalfClosed /\ UNCHANGED down
     \/ down = "run" /\ down' = "done" /\ UNCHANGED <<up, shut>>
  /\ UNCHANGED <<clientVars, got, fetched, taken, mode, plan, cause, conn, inbox,
                 outbox, backendVars>>

\* <-sigChan, twice.
BothPipes == up = "done" /\ down = "done"

PinReturns ==
  /\ Piping /\ BothPipes
  /\ Close("pipes")
  /\ UNCHANGED <<clientVars, got, fetched, taken, plan, up, down, shut, inbox,
                 outbox, backendVars>>

-----------------------------------------------------------------------------
(***************************************************************************)
(* The client and the backends.  Redis executes the commands of a          *)
(* connection in order and answers each but the empty one.                 *)
(***************************************************************************)
Answers(k) == commands[k] # "empty"

Send(name) ==
  /\ mode # "closed" /\ sent < MaxCommands /\ ~eof /\ ~gone
  /\ commands' = Append(commands, name)
  /\ UNCHANGED <<eof, gone, seen, got, fetched, taken, mode, plan, up,
                 down, cause, conn, shut, inbox, outbox, backendVars>>

CloseSend ==
  /\ mode # "closed" /\ ~eof /\ ~gone
  /\ eof' = TRUE
  /\ UNCHANGED <<commands, gone, seen, got, fetched, taken, mode, plan, up,
                 down, cause, conn, shut, inbox, outbox, backendVars>>

Reset ==
  /\ mode # "closed" /\ ~gone
  /\ gone' = TRUE
  /\ UNCHANGED <<commands, eof, seen, got, fetched, taken, mode, plan, up,
                 down, cause, conn, shut, inbox, outbox, backendVars>>

Receive ==
  /\ mode # "closed" /\ seen < Len(got) /\ ~gone
  /\ seen' = seen + 1
  /\ UNCHANGED <<commands, eof, gone, got, fetched, taken, mode, plan, up,
                 down, cause, conn, shut, inbox, outbox, backendVars>>

\* A backend goes on with what it was sent after the proxy has closed.
Execute(b) ==
  /\ conn[b] \in {"open", "closed"} /\ inbox[b] # <<>>
  /\ LET k == Head(inbox[b]) IN
     /\ ran' = [ran EXCEPT ![b] = Append(@, k)]
     /\ outbox' = [outbox EXCEPT ![b] =
                     IF Answers(k) /\ conn[b] = "open" THEN Append(@, k) ELSE @]
  /\ inbox' = [inbox EXCEPT ![b] = Tail(@)]
  /\ UNCHANGED <<clientVars, got, fetched, taken, mode, plan, up, down, cause,
                 conn, shut, pushes>>

SendPush(b) ==
  /\ conn[b] = "open" /\ pushes < MaxPushes
  /\ pushes' = pushes + 1
  /\ outbox' = [outbox EXCEPT ![b] = Append(@, Push)]
  /\ UNCHANGED <<clientVars, got, fetched, taken, mode, plan, up, down, cause,
                 conn, shut, inbox, ran>>

Disconnect(b) ==
  /\ conn[b] = "open"
  /\ conn' = [conn EXCEPT ![b] = "lost"]
  /\ UNCHANGED <<clientVars, got, fetched, taken, mode, plan, up, down, cause,
                 shut, inbox, outbox, backendVars>>

-----------------------------------------------------------------------------
Run ==
  \/ Fill \/ NextCommand \/ ReadFails
  \/ \E b \in Backend : WriteCommand(b) \/ Relay(b) \/ Discard(b)

Next ==
  \/ Run \/ IdleTimeout
  \/ PipeUp \/ PipeUpEnds \/ PipeDown \/ PipeDownEnds \/ PipesIdle \/ PinReturns
  \/ \E name \in Command : Send(name)
  \/ CloseSend \/ Reset \/ Receive
  \/ \E b \in Backend : Execute(b) \/ SendPush(b) \/ Disconnect(b)

Spec == Init /\ [][Next]_vars

\* The goroutines of the session run; the client reads; backends answer, and the
\* master closes its side when the proxy has.
FairSpec ==
  /\ Spec
  /\ WF_vars(Run) /\ WF_vars(PipeUp \/ PipeUpEnds) /\ WF_vars(PipeDown \/ PipeDownEnds)
  /\ WF_vars(PinReturns) /\ WF_vars(Receive)
  /\ \A b \in Backend : WF_vars(Execute(b))
  /\ WF_vars(shut /\ inbox["master"] = <<>> /\ Disconnect("master"))

-----------------------------------------------------------------------------
(***************************************************************************)
(* Properties.                                                             *)
(***************************************************************************)
Frame == 0 .. MaxCommands

\* Every variable has its type, and a session has at most four things to do.
TypeOK ==
  /\ commands \in Seq(Command) /\ sent <= MaxCommands
  /\ taken \in 0 .. fetched /\ fetched \in 0 .. sent
  /\ eof \in BOOLEAN /\ gone \in BOOLEAN /\ shut \in BOOLEAN
  /\ got \in Seq(Frame) /\ seen \in 0 .. Len(got)
  /\ mode \in {"run", "pinned", "closed"}
  /\ plan \in Seq([op : {"write", "relay", "discard"}, to : Backend])
  /\ Len(plan) <= 4
  /\ up \in {"run", "done"} /\ down \in {"run", "done"}
  /\ cause \in {"none", "eof", "error", "idle", "pipes"}
  /\ conn \in [Backend -> {"open", "lost", "closed", "none"}]
  /\ inbox \in [Backend -> Seq(Frame)] /\ ran \in [Backend -> Seq(Frame)]
  /\ outbox \in [Backend -> Seq(Frame)] /\ pushes \in 0 .. MaxPushes

\* The commands whose replies are among the first n frames the client got.
RepliesAmong(n) == {got[i] : i \in {m \in 1 .. n : got[m] # Push}}

\* The commands that redis answers, up to the n-th.
Answerable(n) == {k \in 1 .. n : Answers(k)}

\* The client gets the replies to its commands in the order it sent them, one
\* each and none left out: what came before a reply are the replies to exactly
\* the commands before its own, as on a single redis connection, although two
\* backends answer and push messages come in between.
RepliesInOrder ==
  \A i \in 1 .. Len(got) : got[i] # Push =>
    got[i] \in Answerable(sent) /\ RepliesAmong(i - 1) = Answerable(got[i] - 1)

\* A replica is only ever given reads and connection state, whatever the client
\* sends and whenever it is pinned.
WritesToMaster ==
  \A k \in 1 .. sent :
    k \in {(ran["replica"] \o inbox["replica"])[i] :
             i \in 1 .. Len(ran["replica"]) + Len(inbox["replica"])} =>
      commands[k] \in (readOnlyCommands \cup stateCommands) \ pinCommands

StateBefore(k) == {j \in 1 .. k - 1 : commands[j] \in stateCommands}

\* A backend executes a command with the connection state the client has set up
\* by then: the same state commands were executed before it, no matter which
\* backend has it.
StateInStep ==
  \A b \in Backend : \A i \in 1 .. Len(ran[b]) :
    StateBefore(ran[b][i]) =
      {ran[b][j] : j \in {m \in 1 .. i - 1 : commands[ran[b][m]] \in stateCommands}}

\* What the client sent before it closed its side is answered before run ends,
\* and a pinned session has passed on every command from the pinning one on,
\* also those that had been read ahead.
NothingDropped ==
  /\ cause = "eof" => RepliesAmong(Len(got)) = Answerable(sent)
  /\ Piping => \A k \in 1 .. taken : Answers(k) =>
       \E b \in Backend : \E i \in 1 .. Len(ran[b] \o inbox[b]) : (ran[b] \o inbox[b])[i] = k

\* Each command is answered, or the client sees the end of its stream: no
\* operation of the plan waits for a reply that will not come.
EachAnswered ==
  \A k \in 1 .. MaxCommands :
    sent >= k /\ Answers(k) ~>
      mode = "closed" \/ down = "done" \/ gone \/ \E i \in 1 .. Len(got) : got[i] = k

\* A session whose client has closed its sending side ends, pinned or not.
EndsAfterClient == eof ~> mode = "closed" \/ gone
=============================================================================
