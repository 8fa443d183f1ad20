------------------------------ MODULE Session -------------------------------
(***************************************************************************)
(* A plain session of the proxy: two pipe goroutines, the half-close, and  *)
(* the idle timeout they share (proxy, pipe and idleConn of                *)
(* src/pkg/proxy/proxy.go; a routed session becomes the same after pin).   *)
(*                                                                         *)
(* A direction is named by where its bytes flow: "up" from the client to   *)
(* the backend, "down" the other way.  Bytes are counted in chunks, one    *)
(* Read each.  Time passes in ticks, and only when no goroutine can run.   *)
(***************************************************************************)
EXTENDS Integers

CONSTANTS
  IdleTimeouts, \* the settings to look at, in ticks; 0: never
  MaxUp,        \* bound on the chunks the client sends in one session
  MaxDown,      \* the same for the backend
  Window        \* chunks the sockets towards a peer hold before Write blocks

ASSUME SessionAssumption ==
  /\ IdleTimeouts \subseteq Nat /\ Window \in Nat \ {0}
  /\ MaxUp \in Nat /\ MaxDown \in Nat

Direction == {"up", "down"}
Peer == {"client", "backend"}
Opposite(d) == IF d = "up" THEN "down" ELSE "up"
Src(d) == IF d = "up" THEN "client" ELSE "backend"
Dst(d) == Src(Opposite(d))
MaxChunks(d) == IF d = "up" THEN MaxUp ELSE MaxDown

VARIABLES
  idleTimeout,           \* the setting, fixed
  sent, wrote, drained,  \* chunks sent by Src, written to Dst, taken by Dst
  eof,        \* Src has closed its sending side
  reset,      \* per peer: its end of the connection is gone
  socket,     \* per peer, the proxy's socket: "open", "shut" (write side), "closed"
  pipe,       \* per direction: "read", "write" or "done"
  cause,      \* per direction: why the pipe ended
  deadline,   \* per direction: ticks until its read deadline
  age,        \* ticks since activity was stored
  sentNow,    \* history: a peer has sent something since the last tick
  quiet,      \* history: ticks since a peer had last sent something
  still       \* history: ticks since a pipe last moved a chunk

peerVars == <<idleTimeout, sent, eof, reset>>
pipeVars == <<wrote, pipe, cause, deadline, socket>>
historyVars == <<sentNow, quiet, still>>
vars == <<peerVars, pipeVars, drained, age, historyVars>>

Idles == idleTimeout > 0
Unread(d) == sent[d] - wrote[d]

Init ==
  /\ idleTimeout \in IdleTimeouts
  /\ sent = [d \in Direction |-> 0]
  /\ wrote = [d \in Direction |-> 0]
  /\ drained = [d \in Direction |-> 0]
  /\ eof = [d \in Direction |-> FALSE]
  /\ reset = [p \in Peer |-> FALSE]
  /\ socket = [p \in Peer |-> "open"]
  /\ pipe = [d \in Direction |-> "read"]
  /\ cause = [d \in Direction |-> "none"]
  /\ deadline = [d \in Direction |-> idleTimeout]
  /\ age = 0 /\ sentNow = FALSE /\ quiet = 0 /\ still = 0

-----------------------------------------------------------------------------
(***************************************************************************)
(* pipe of direction d: io.Copy from Src(d) to Dst(d).                     *)
(***************************************************************************)
CloseFully(d) == "closed"

\* What the pipe does to Dst(d) at its end: CloseWrite, not Close.
HalfClose(d) == "shut"

PipeEnds(d, why) ==
  /\ pipe' = [pipe EXCEPT ![d] = "done"]
  /\ cause' = [cause EXCEPT ![d] = why]
  /\ socket' = [socket EXCEPT ![Dst(d)] = HalfClose(d)]
  /\ UNCHANGED <<wrote, deadline>>

ActivityNotStored == age

\* activity.Store(now), shared by both directions.
AgeAfterRead == 0

Read(d) ==
  /\ pipe[d] = "read" /\ socket[Src(d)] # "closed"
  /\ Unread(d) > 0 /\ ~reset[Src(d)]
  /\ pipe' = [pipe EXCEPT ![d] = "write"]
  /\ age' = AgeAfterRead /\ still' = 0
  /\ UNCHANGED <<peerVars, drained, wrote, cause, deadline, socket, sentNow, quiet>>

\* Read reports the end of the stream after the last byte.
SeesEof(d) == eof[d] /\ Unread(d) = 0

\* Read returns io.EOF or an error.
ReadEnds(d) ==
  /\ pipe[d] = "read"
  /\ \/ socket[Src(d)] = "closed" /\ PipeEnds(d, "closed")
     \/ reset[Src(d)] /\ PipeEnds(d, "reset")
     \/ SeesEof(d) /\ PipeEnds(d, "eof")
  /\ UNCHANGED <<peerVars, drained, age, historyVars>>

NeverCut == FALSE

StaleOffByOne == age > idleTimeout

\* The other direction has been silent for long enough, too.
Stale == age >= idleTimeout

\* os.ErrDeadlineExceeded: wait on, or give up.
DeadlineExceeded(d) ==
  /\ Idles /\ pipe[d] = "read" /\ deadline[d] = 0
  /\ \/ /\ Stale
        /\ PipeEnds(d, "idle")
     \/ /\ ~Stale
        /\ deadline' = [deadline EXCEPT ![d] = idleTimeout]
        /\ UNCHANGED <<wrote, pipe, cause, socket>>
  /\ UNCHANGED <<peerVars, drained, age, historyVars>>

\* Write blocks while Dst(d) does not take what it was sent.
HasRoom(d) == wrote[d] - drained[d] < Window

\* The next Read sets a new deadline.
NewDeadline(d) == idleTimeout

Write(d) ==
  /\ pipe[d] = "write"
  /\ \/ /\ reset[Dst(d)] \/ socket[Dst(d)] = "closed"
        /\ PipeEnds(d, "reset")
        /\ UNCHANGED still
     \/ /\ ~reset[Dst(d)] /\ socket[Dst(d)] # "closed" /\ HasRoom(d)
        /\ wrote' = [wrote EXCEPT ![d] = @ + 1]
        /\ pipe' = [pipe EXCEPT ![d] = "read"]
        /\ deadline' = [deadline EXCEPT ![d] = NewDeadline(d)]
        /\ still' = 0
        /\ UNCHANGED <<cause, socket>>
  /\ UNCHANGED <<peerVars, drained, age, sentNow, quiet>>

SignalOnErrorOnly == \A d \in Direction : pipe[d] = "done" /\ cause[d] # "eof"

\* <-sigChan, twice.
BothSignalled == \A d \in Direction : pipe[d] = "done"

\* proxy() returns and its deferred calls close both sockets.
Finish ==
  /\ BothSignalled /\ \E p \in Peer : socket[p] # "closed"
  /\ socket' = [p \in Peer |-> "closed"]
  /\ UNCHANGED <<peerVars, drained, wrote, pipe, cause, deadline, age, historyVars>>

Goroutine(d) == Read(d) \/ ReadEnds(d) \/ DeadlineExceeded(d) \/ Write(d)

-----------------------------------------------------------------------------
(***************************************************************************)
(* The peers and time.                                                     *)
(***************************************************************************)
Over == \A p \in Peer : socket[p] = "closed"

Send(d) ==
  /\ ~Over /\ ~eof[d] /\ ~reset[Src(d)] /\ sent[d] < MaxChunks(d)
  /\ sent' = [sent EXCEPT ![d] = @ + 1]
  /\ sentNow' = TRUE
  /\ UNCHANGED <<idleTimeout, eof, reset, pipeVars, drained, age, quiet, still>>

CloseSend(d) ==
  /\ ~Over /\ ~eof[d] /\ ~reset[Src(d)]
  /\ eof' = [eof EXCEPT ![d] = TRUE]
  /\ UNCHANGED <<idleTimeout, sent, reset, pipeVars, drained, age, historyVars>>

Reset(p) ==
  /\ ~Over /\ ~reset[p]
  /\ reset' = [reset EXCEPT ![p] = TRUE]
  /\ UNCHANGED <<idleTimeout, sent, eof, pipeVars, drained, age, historyVars>>

Drain(d) ==
  /\ drained[d] < wrote[d] /\ ~reset[Dst(d)]
  /\ drained' = [drained EXCEPT ![d] = @ + 1]
  /\ UNCHANGED <<peerVars, pipeVars, age, historyVars>>

\* The goroutines of direction d wait for a peer or for the clock.
Blocked(d) ==
  \/ pipe[d] = "done"
  \/ /\ pipe[d] = "read" /\ socket[Src(d)] # "closed"
     /\ Unread(d) = 0 /\ ~eof[d] /\ ~reset[Src(d)] /\ (Idles => deadline[d] > 0)
  \/ /\ pipe[d] = "write" /\ socket[Dst(d)] # "closed"
     /\ ~reset[Dst(d)] /\ ~HasRoom(d)

\* age and quiet count no further than what is told apart.
Older(n) == IF n < 2 * idleTimeout + 1 THEN n + 1 ELSE n

Tick ==
  /\ Idles /\ ~BothSignalled /\ \A d \in Direction : Blocked(d)
  /\ age' = Older(age) /\ still' = Older(still)
  /\ quiet' = IF sentNow THEN 1 ELSE Older(quiet)
  /\ sentNow' = FALSE
  /\ deadline' = [d \in Direction |->
       IF pipe[d] = "read" THEN deadline[d] - 1 ELSE deadline[d]]
  /\ UNCHANGED <<peerVars, wrote, pipe, cause, socket, drained>>

Next ==
  \/ \E d \in Direction : Goroutine(d) \/ Send(d) \/ CloseSend(d) \/ Drain(d)
  \/ \E p \in Peer : Reset(p)
  \/ Finish \/ Tick

Spec == Init /\ [][Next]_vars

\* Goroutines run and time passes.
FairSpec ==
  /\ Spec
  /\ \A d \in Direction : WF_vars(Goroutine(d))
  /\ WF_vars(Finish) /\ WF_vars(Tick)

\* The peers keep reading.
DrainingSpec == FairSpec /\ \A d \in Direction : WF_vars(Drain(d))

-----------------------------------------------------------------------------
(***************************************************************************)
(* Properties.                                                             *)
(***************************************************************************)
\* Every variable has its type.
TypeOK ==
  /\ idleTimeout \in IdleTimeouts /\ sent \in [Direction -> Nat]
  /\ \A d \in Direction : /\ drained[d] \in 0 .. wrote[d] /\ wrote[d] \in 0 .. sent[d]
                          /\ sent[d] <= MaxChunks(d)
  /\ eof \in [Direction -> BOOLEAN] /\ reset \in [Peer -> BOOLEAN]
  /\ socket \in [Peer -> {"open", "shut", "closed"}]
  /\ pipe \in [Direction -> {"read", "write", "done"}]
  /\ cause \in [Direction -> {"none", "eof", "reset", "idle", "closed"}]
  /\ deadline \in [Direction -> 0 .. idleTimeout]
  /\ sentNow \in BOOLEAN
  /\ age \in 0 .. 2 * idleTimeout + 1 /\ quiet \in 0 .. 2 * idleTimeout + 1
  /\ still \in 0 .. 2 * idleTimeout + 1

\* The end of one direction never truncates the other: a pipe ends because of
\* its own peers or the idle timeout, not because the proxy closed a socket
\* under it, and one that ended with its stream has forwarded all of it.
NothingTruncated ==
  \A d \in Direction :
    /\ cause[d] # "closed"
    /\ cause[d] = "eof" => wrote[d] = sent[d]

\* A pipe is cut as idle only if no peer sent anything for idleTimeout, on
\* either side, as far as the opposite pipe came to read it (it is neither stuck
\* on a peer that does not take its data, nor behind after that, nor over).
IdleCutJustified ==
  [][\A d \in Direction :
       cause'[d] = "idle" /\ cause[d] = "none" /\
       pipe[Opposite(d)] = "read" /\ Unread(Opposite(d)) = 0 =>
         quiet >= idleTimeout]_vars

\* A pipe that waits in Read is cut in less than two idle timeouts after the
\* last chunk was moved by either pipe: it renews its deadline at most once.
CutInTime ==
  \A d \in Direction : Idles /\ pipe[d] = "read" => still < 2 * idleTimeout

\* The README: a connection is closed after no traffic in either direction for
\* the idle timeout, if there is one.  (MaxUp and MaxDown bound traffic, so it ceases.)
IdleCloses == Idles => <>Over

\* A session whose peers have both closed their sides ends, also without a timeout.
EndsWithPeers == (\A d \in Direction : eof[d]) ~> Over
=============================================================================
