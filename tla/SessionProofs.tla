--------------------------- MODULE SessionProofs ----------------------------
(***************************************************************************)
(* Proofs about Session for every idle timeout, every amount of traffic    *)
(* and every size of the sockets' buffers.                                 *)
(***************************************************************************)
EXTENDS Session, TLAPS

USE SessionAssumption DEF Direction, Peer

(***************************************************************************)
(* The inductive invariants.                                               *)
(***************************************************************************)
\* What every variable ranges over.
TypeInv ==
  /\ idleTimeout \in IdleTimeouts /\ idleTimeout \in Nat
  /\ sent \in [Direction -> Nat] /\ wrote \in [Direction -> Nat]
  /\ drained \in [Direction -> Nat]
  /\ eof \in [Direction -> BOOLEAN] /\ reset \in [Peer -> BOOLEAN]
  /\ socket \in [Peer -> {"open", "shut", "closed"}]
  /\ pipe \in [Direction -> {"read", "write", "done"}]
  /\ cause \in [Direction -> {"none", "eof", "reset", "idle", "closed"}]
  /\ deadline \in [Direction -> Nat]
  /\ sentNow \in BOOLEAN
  /\ age \in 0 .. 2 * idleTimeout + 1 /\ quiet \in 0 .. 2 * idleTimeout + 1
  /\ still \in 0 .. 2 * idleTimeout + 1

\* A socket is closed only when both pipes are done, and a pipe that saw the end
\* of its stream had written all of it, to which nothing can be added.
ClosingInv ==
  /\ \A p \in Peer : socket[p] = "closed" => \A d \in Direction : pipe[d] = "done"
  /\ \A d \in Direction :
       /\ drained[d] <= wrote[d] /\ wrote[d] <= sent[d] /\ sent[d] <= MaxChunks(d)
       /\ pipe[d] = "write" => wrote[d] < sent[d]
       /\ cause[d] # "closed"
       /\ cause[d] # "none" => pipe[d] = "done"
       /\ cause[d] = "eof" => eof[d] /\ wrote[d] = sent[d]

\* A pipe in Read has renewed its deadline at most once since a chunk was moved:
\* age, which Stale looks at, is never less than the time since then.
RenewInv ==
  /\ still <= age
  /\ \A d \in Direction :
       /\ deadline[d] <= idleTimeout
       /\ Idles /\ pipe[d] = "read" => still + deadline[d] < 2 * idleTimeout

\* Everything that was sent has been read, the chunk in hand included.
AllRead(d) ==
  \/ pipe[d] = "read" /\ wrote[d] = sent[d]
  \/ pipe[d] = "write" /\ wrote[d] + 1 = sent[d]

\* Everything that was sent before the last tick has been read: a pipe whose
\* deadline runs was blocked on an empty stream when time last passed.
CaughtUp(d) == AllRead(d) \/ (pipe[d] = "read" /\ deadline[d] < idleTimeout)

\* Where both pipes keep up, age is a lower bound of the peers' silence.
QuietInv ==
  /\ (\A d \in Direction : CaughtUp(d)) => age <= quiet
  /\ (\A d \in Direction : AllRead(d)) /\ sentNow => age = 0

SessionInv == TypeInv /\ ClosingInv /\ RenewInv /\ QuietInv

\* The source of one direction is the destination of the other.
LEMMA Ends ==
  \A d \in Direction :
    /\ Opposite(d) \in Direction \ {d} /\ Opposite(Opposite(d)) = d
    /\ Src(d) \in Peer /\ Dst(d) \in Peer /\ Dst(d) # Src(d)
    /\ \A x \in Direction : x = d \/ x = Opposite(d)
BY DEF Opposite, Src, Dst

\* The counters of ticks stay within their bound, and their order is kept.
LEMMA OlderBounds ==
  ASSUME idleTimeout \in Nat, NEW m \in 0 .. 2 * idleTimeout + 1,
         NEW n \in 0 .. 2 * idleTimeout + 1
  PROVE  /\ Older(n) \in 0 .. 2 * idleTimeout + 1
         /\ Older(n) <= n + 1
         /\ m <= n => Older(m) <= Older(n)
         /\ n = 0 => Older(n) = 1
BY DEF Older

\* Initially all of it holds.
LEMMA SessionInit == Init => SessionInv
<1> SUFFICES ASSUME Init PROVE SessionInv
  OBVIOUS
<1>1. idleTimeout \in IdleTimeouts /\ idleTimeout \in Nat
  BY DEF Init
<1>2. TypeInv
  <2>1. 0 \in 0 .. 2 * idleTimeout + 1
    BY <1>1
  <2>2. deadline \in [Direction -> Nat]
    BY <1>1 DEF Init
  <2> QED
    BY <1>1, <2>1, <2>2, Zenon DEF Init, TypeInv
<1>3. ClosingInv
  BY DEF Init, ClosingInv, MaxChunks
<1>4. RenewInv
  BY <1>1 DEF Init, RenewInv, Idles
<1>5. QuietInv
  BY DEF Init, QuietInv
<1> QED
  BY <1>2, <1>3, <1>4, <1>5 DEF SessionInv

\* The end of a pipe keeps the types.
LEMMA PipeEndsType ==
  ASSUME TypeInv, NEW d \in Direction,
         NEW why \in {"eof", "reset", "idle", "closed"}, PipeEnds(d, why)
  PROVE  /\ socket' \in [Peer -> {"open", "shut", "closed"}]
         /\ pipe' \in [Direction -> {"read", "write", "done"}]
         /\ cause' \in [Direction -> {"none", "eof", "reset", "idle", "closed"}]
         /\ UNCHANGED <<wrote, deadline>>
BY Ends DEF PipeEnds, HalfClose, TypeInv

\* Every step keeps the types.
LEMMA TypeStep == SessionInv /\ [Next]_vars => TypeInv'
<1> SUFFICES ASSUME SessionInv, [Next]_vars PROVE TypeInv'
  OBVIOUS
<1>0. TypeInv
  BY DEF SessionInv
<1>1. CASE UNCHANGED vars
  BY <1>0, <1>1 DEF TypeInv, vars, peerVars, pipeVars, historyVars
<1>2. ASSUME NEW d \in Direction, Goroutine(d) PROVE TypeInv'
  <2>1. CASE Read(d)
    BY <1>0, <2>1 DEF TypeInv, Read, AgeAfterRead, peerVars
  <2>2. CASE ReadEnds(d)
    BY <1>0, <2>2, PipeEndsType DEF TypeInv, ReadEnds, peerVars, historyVars
  <2>3. CASE DeadlineExceeded(d)
    BY <1>0, <2>3, PipeEndsType DEF TypeInv, DeadlineExceeded, peerVars, historyVars
  <2>4. CASE Write(d)
    BY <1>0, <2>4, PipeEndsType DEF TypeInv, Write, NewDeadline, peerVars
  <2> QED
    BY <1>2, <2>1, <2>2, <2>3, <2>4 DEF Goroutine
<1>3. ASSUME NEW d \in Direction, Send(d) \/ CloseSend(d) \/ Drain(d) PROVE TypeInv'
  <2>1. CASE Send(d)
    BY <1>0, <2>1 DEF TypeInv, Send, pipeVars
  <2>2. CASE CloseSend(d)
    BY <1>0, <2>2 DEF TypeInv, CloseSend, pipeVars, historyVars
  <2>3. CASE Drain(d)
    BY <1>0, <2>3 DEF TypeInv, Drain, peerVars, pipeVars, historyVars
  <2> QED
    BY <1>3, <2>1, <2>2, <2>3
<1>4. ASSUME NEW p \in Peer, Reset(p) PROVE TypeInv'
  BY <1>0, <1>4 DEF TypeInv, Reset, pipeVars, historyVars
<1>5. CASE Finish
  BY <1>0, <1>5 DEF TypeInv, Finish, peerVars, historyVars
<1>6. CASE Tick
  <2>1. \A d \in Direction : pipe[d] = "read" => deadline[d] - 1 \in Nat
    BY <1>0, <1>6 DEF TypeInv, Tick, Blocked
  <2>2. deadline' \in [Direction -> Nat]
    BY <1>0, <1>6, <2>1 DEF TypeInv, Tick
  <2>3. idleTimeout' \in Nat /\ idleTimeout' = idleTimeout
    BY <1>0, <1>6 DEF TypeInv, Tick, peerVars
  <2>4. /\ age' \in 0 .. 2 * idleTimeout + 1 /\ still' \in 0 .. 2 * idleTimeout + 1
        /\ quiet' \in 0 .. 2 * idleTimeout + 1
    BY <1>0, <1>6, OlderBounds DEF TypeInv, Tick, Idles
  <2> QED
    BY <1>0, <1>6, <2>2, <2>3, <2>4, Zenon DEF TypeInv, Tick, peerVars
<1> QED
  BY <1>1, <1>2, <1>3, <1>4, <1>5, <1>6 DEF Next

\* Every step keeps the sockets open under a running pipe and the streams whole.
LEMMA ClosingStep == SessionInv /\ [Next]_vars => ClosingInv'
<1> SUFFICES ASSUME SessionInv, [Next]_vars PROVE ClosingInv'
  OBVIOUS
<1>0. TypeInv /\ ClosingInv
  BY DEF SessionInv
<1>1. CASE UNCHANGED <<socket, pipe, cause, wrote, drained, sent, eof>>
  BY <1>0, <1>1 DEF ClosingInv
<1>2. ASSUME NEW d \in Direction, NEW why \in {"reset", "eof", "idle"}, PipeEnds(d, why),
             pipe[d] # "done", why = "eof" => SeesEof(d), UNCHANGED <<sent, eof, drained>>
      PROVE  ClosingInv'
  <2>1. \A p \in Peer : socket'[p] # "closed"
    BY <1>0, <1>2, Ends DEF PipeEnds, HalfClose, ClosingInv, TypeInv
  <2>2. why = "eof" => eof[d] /\ wrote[d] = sent[d]
    BY <1>0, <1>2 DEF SeesEof, Unread, TypeInv
  <2> QED
    BY <1>0, <1>2, <2>1, <2>2 DEF PipeEnds, ClosingInv, TypeInv
<1>3. ASSUME NEW d \in Direction, Goroutine(d) PROVE ClosingInv'
  <2>1. CASE Read(d)
    BY <1>0, <2>1 DEF Read, Unread, ClosingInv, TypeInv, peerVars
  <2>2. CASE ReadEnds(d)
    <3>1. socket[Src(d)] # "closed" /\ pipe[d] # "done"
      BY <1>0, <2>2, Ends DEF ReadEnds, ClosingInv
    <3> QED
      BY <1>2, <2>2, <3>1 DEF ReadEnds, peerVars
  <2>3. CASE DeadlineExceeded(d)
    <3>1. CASE PipeEnds(d, "idle")
      BY <1>2, <2>3, <3>1 DEF DeadlineExceeded, peerVars
    <3>2. CASE UNCHANGED <<wrote, pipe, cause, socket>>
      BY <1>1, <2>3, <3>2 DEF DeadlineExceeded, peerVars
    <3> QED
      BY <2>3, <3>1, <3>2 DEF DeadlineExceeded
  <2>4. CASE Write(d)
    <3>1. CASE PipeEnds(d, "reset")
      BY <1>2, <2>4, <3>1 DEF Write, peerVars
    <3>2. CASE /\ wrote' = [wrote EXCEPT ![d] = @ + 1]
               /\ pipe' = [pipe EXCEPT ![d] = "read"]
               /\ UNCHANGED <<cause, socket>>
      BY <1>0, <2>4, <3>2 DEF Write, ClosingInv, TypeInv, peerVars
    <3> QED
      BY <2>4, <3>1, <3>2 DEF Write
  <2> QED
    BY <1>3, <2>1, <2>2, <2>3, <2>4 DEF Goroutine
<1>4. ASSUME NEW d \in Direction, Send(d) PROVE ClosingInv'
  <2>1. sent[d] + 1 <= MaxChunks(d)
    BY <1>0, <1>4 DEF Send, MaxChunks, TypeInv
  <2> QED
    BY <1>0, <1>4, <2>1 DEF Send, ClosingInv, TypeInv, pipeVars
<1>5. ASSUME NEW d \in Direction, CloseSend(d) PROVE ClosingInv'
  BY <1>0, <1>5 DEF CloseSend, ClosingInv, TypeInv, pipeVars
<1>6. CASE Finish
  BY <1>0, <1>6 DEF Finish, BothSignalled, ClosingInv, TypeInv, peerVars
<1>7. ASSUME NEW d \in Direction, Drain(d) PROVE ClosingInv'
  BY <1>0, <1>7 DEF Drain, ClosingInv, TypeInv, peerVars, pipeVars
<1>8. CASE UNCHANGED vars \/ (\E p \in Peer : Reset(p)) \/ Tick
  BY <1>1, <1>8 DEF vars, Reset, Tick, peerVars, pipeVars
<1> QED
  BY <1>3, <1>4, <1>5, <1>6, <1>7, <1>8 DEF Next

\* Every step keeps the bound on the renewals.
LEMMA RenewStep == SessionInv /\ [Next]_vars => RenewInv'
<1> SUFFICES ASSUME SessionInv, [Next]_vars PROVE RenewInv'
  OBVIOUS
<1>0. TypeInv /\ RenewInv
  BY DEF SessionInv
<1>1. CASE UNCHANGED <<idleTimeout, still, age, deadline, pipe>>
  BY <1>0, <1>1 DEF RenewInv, Idles
<1>2. ASSUME NEW d \in Direction, NEW why, PipeEnds(d, why),
             UNCHANGED <<idleTimeout, still, age>>
      PROVE  RenewInv'
  BY <1>0, <1>2 DEF PipeEnds, RenewInv, Idles, TypeInv
<1>3. ASSUME NEW d \in Direction, Goroutine(d) PROVE RenewInv'
  <2>1. CASE Read(d)
    BY <1>0, <2>1 DEF Read, AgeAfterRead, RenewInv, Idles, TypeInv, peerVars
  <2>2. CASE ReadEnds(d)
    BY <1>2, <2>2 DEF ReadEnds, peerVars, historyVars
  <2>3. CASE DeadlineExceeded(d)
    <3>1. CASE PipeEnds(d, "idle")
      BY <1>2, <2>3, <3>1 DEF DeadlineExceeded, peerVars, historyVars
    <3>2. CASE /\ ~Stale /\ deadline' = [deadline EXCEPT ![d] = idleTimeout]
               /\ UNCHANGED <<wrote, pipe, cause, socket>>
      <4>1. still < idleTimeout
        BY <1>0, <3>2 DEF Stale, RenewInv, TypeInv
      <4> QED
        BY <1>0, <2>3, <3>2, <4>1
           DEF DeadlineExceeded, RenewInv, Idles, TypeInv, peerVars, historyVars
    <3> QED
      BY <2>3, <3>1, <3>2 DEF DeadlineExceeded
  <2>4. CASE Write(d)
    <3>1. CASE PipeEnds(d, "reset") /\ UNCHANGED still
      BY <1>2, <2>4, <3>1 DEF Write, peerVars
    <3>2. CASE /\ pipe' = [pipe EXCEPT ![d] = "read"]
               /\ deadline' = [deadline EXCEPT ![d] = NewDeadline(d)]
               /\ still' = 0
      BY <1>0, <2>4, <3>2 DEF Write, NewDeadline, RenewInv, Idles, TypeInv, peerVars
    <3> QED
      BY <2>4, <3>1, <3>2 DEF Write
  <2> QED
    BY <1>3, <2>1, <2>2, <2>3, <2>4 DEF Goroutine
<1>4. CASE Tick
  <2>1. still' <= age' /\ still' <= still + 1
    BY <1>0, <1>4, OlderBounds DEF Tick, RenewInv, TypeInv
  <2>2. \A d \in Direction : pipe[d] = "read" => deadline'[d] = deadline[d] - 1
    BY <1>4 DEF Tick
  <2>3. \A d \in Direction : deadline'[d] <= deadline[d]
    BY <1>0, <1>4 DEF Tick, TypeInv
  <2>4. still' \in Nat /\ \A d \in Direction : deadline'[d] \in Int
    BY <1>0, <1>4, OlderBounds DEF Tick, TypeInv
  <2> QED
    BY <1>0, <1>4, <2>1, <2>2, <2>3, <2>4 DEF Tick, RenewInv, Idles, TypeInv, peerVars
<1>5. CASE UNCHANGED vars \/ Finish \/ (\E p \in Peer : Reset(p))
           \/ (\E d \in Direction : Send(d) \/ CloseSend(d) \/ Drain(d))
  BY <1>1, <1>5
     DEF vars, Finish, Reset, Send, CloseSend, Drain, peerVars, pipeVars, historyVars
<1> QED
  BY <1>3, <1>4, <1>5 DEF Next

\* Every step keeps what age says of the peers' silence.
LEMMA QuietStep == SessionInv /\ [Next]_vars => QuietInv'
<1> SUFFICES ASSUME SessionInv, [Next]_vars PROVE QuietInv'
  OBVIOUS
<1>0. TypeInv /\ QuietInv /\ ClosingInv
  BY DEF SessionInv
<1>1. ASSUME UNCHANGED <<age, quiet, sentNow>>,
             \A d \in Direction : CaughtUp(d)' => CaughtUp(d),
             \A d \in Direction : AllRead(d)' => AllRead(d)
      PROVE  QuietInv'
  BY <1>0, <1>1 DEF QuietInv
<1>2. ASSUME NEW d \in Direction, NEW why, PipeEnds(d, why),
             UNCHANGED <<idleTimeout, sent, age, quiet, sentNow>>
      PROVE  QuietInv'
  BY <1>0, <1>1, <1>2 DEF PipeEnds, CaughtUp, AllRead, TypeInv
<1>3. ASSUME NEW d \in Direction, Goroutine(d) PROVE QuietInv'
  <2>1. CASE Read(d)
    BY <1>0, <2>1 DEF Read, AgeAfterRead, QuietInv, TypeInv
  <2>2. CASE ReadEnds(d)
    BY <1>2, <2>2 DEF ReadEnds, peerVars, historyVars
  <2>3. CASE DeadlineExceeded(d)
    <3>1. CASE PipeEnds(d, "idle")
      BY <1>2, <2>3, <3>1 DEF DeadlineExceeded, peerVars, historyVars
    <3>2. CASE /\ deadline' = [deadline EXCEPT ![d] = idleTimeout]
               /\ UNCHANGED <<wrote, pipe, cause, socket>>
      BY <1>0, <1>1, <2>3, <3>2
         DEF DeadlineExceeded, CaughtUp, AllRead, TypeInv, peerVars, historyVars
    <3> QED
      BY <2>3, <3>1, <3>2 DEF DeadlineExceeded
  <2>4. CASE Write(d)
    <3>1. CASE PipeEnds(d, "reset")
      BY <1>2, <2>4, <3>1 DEF Write, peerVars
    <3>2. CASE /\ wrote' = [wrote EXCEPT ![d] = @ + 1]
               /\ pipe' = [pipe EXCEPT ![d] = "read"]
               /\ deadline' = [deadline EXCEPT ![d] = NewDeadline(d)]
      <4>1. \A x \in Direction : AllRead(x)' => AllRead(x)
        BY <1>0, <2>4, <3>2 DEF Write, AllRead, TypeInv, peerVars
      <4>2. \A x \in Direction : CaughtUp(x)' => CaughtUp(x)
        BY <1>0, <2>4, <3>2, <4>1 DEF Write, CaughtUp, NewDeadline, TypeInv, peerVars
      <4> QED
        BY <1>1, <2>4, <4>1, <4>2 DEF Write
    <3> QED
      BY <2>4, <3>1, <3>2 DEF Write
  <2> QED
    BY <1>3, <2>1, <2>2, <2>3, <2>4 DEF Goroutine
<1>4. ASSUME NEW d \in Direction, Send(d) PROVE QuietInv'
  <2>1. \A x \in Direction : CaughtUp(x)' => CaughtUp(x)
    BY <1>0, <1>4 DEF Send, CaughtUp, AllRead, ClosingInv, TypeInv, pipeVars
  <2>2. ~AllRead(d)'
    BY <1>0, <1>4 DEF Send, AllRead, ClosingInv, TypeInv, pipeVars
  <2> QED
    BY <1>0, <1>4, <2>1, <2>2 DEF Send, QuietInv
<1>5. CASE Tick
  <2>1. \A d \in Direction : CaughtUp(d)' => AllRead(d)
    BY <1>0, <1>5 DEF Tick, Blocked, Unread, CaughtUp, AllRead, TypeInv, peerVars
  <2>2. SUFFICES ASSUME \A d \in Direction : AllRead(d) PROVE age' <= quiet'
    BY <1>5, <2>1 DEF Tick, QuietInv
  <2>3. age <= quiet /\ (sentNow => age = 0)
    BY <1>0, <2>2 DEF QuietInv, CaughtUp
  <2> QED
    BY <1>0, <1>5, <2>3, OlderBounds DEF Tick, TypeInv
<1>6. CASE UNCHANGED vars \/ Finish \/ (\E p \in Peer : Reset(p))
           \/ (\E d \in Direction : CloseSend(d) \/ Drain(d))
  <2>1. UNCHANGED <<idleTimeout, sent, wrote, pipe, deadline, age, quiet, sentNow>>
    BY <1>6 DEF vars, Finish, Reset, CloseSend, Drain, peerVars, pipeVars, historyVars
  <2> QED
    BY <1>1, <2>1 DEF CaughtUp, AllRead
<1> QED
  BY <1>3, <1>4, <1>5, <1>6 DEF Next

(***************************************************************************)
(* The theorems.                                                           *)
(***************************************************************************)
\* In every behaviour of a session the inductive invariant holds.
THEOREM SessionInvariant == Spec => []SessionInv
<1>1. SessionInv /\ [Next]_vars => SessionInv'
  BY TypeStep, ClosingStep, RenewStep, QuietStep DEF SessionInv
<1> QED
  BY <1>1, SessionInit, PTL DEF Spec

\* Every variable keeps its type; in particular no deadline runs below zero and
\* no counter past what was sent.
THEOREM TypeCorrect == Spec => []TypeOK
<1>1. SessionInv => TypeOK
  <2> SUFFICES ASSUME SessionInv PROVE TypeOK
    OBVIOUS
  <2>0. TypeInv /\ ClosingInv /\ RenewInv
    BY DEF SessionInv
  <2>1. \A d \in Direction : /\ drained[d] \in 0 .. wrote[d] /\ wrote[d] \in 0 .. sent[d]
                             /\ sent[d] <= MaxChunks(d)
    BY <2>0 DEF TypeInv, ClosingInv
  <2>2. deadline \in [Direction -> 0 .. idleTimeout]
    BY <2>0 DEF TypeInv, RenewInv
  <2> QED
    BY <2>0, <2>1, <2>2 DEF TypeInv, TypeOK
<1> QED
  BY <1>1, SessionInvariant, PTL

\* The half-close of pipe never truncates the opposite direction.
THEOREM StreamsWhole == Spec => []NothingTruncated
<1>1. SessionInv => NothingTruncated
  BY DEF SessionInv, ClosingInv, NothingTruncated
<1> QED
  BY <1>1, SessionInvariant, PTL

\* idleConn.Read gives up within twice the idle timeout.
THEOREM CutBound == Spec => []CutInTime
<1>1. SessionInv => CutInTime
  BY DEF SessionInv, TypeInv, RenewInv, CutInTime
<1> QED
  BY <1>1, SessionInvariant, PTL

\* idleConn.Read gives up only after a silence of both peers, as far as the
\* opposite pipe came to read what they sent.
THEOREM CutJustified == Spec => IdleCutJustified
<1>1. SessionInv /\ [Next]_vars =>
        [\A d \in Direction :
           cause'[d] = "idle" /\ cause[d] = "none" /\
           pipe[Opposite(d)] = "read" /\ Unread(Opposite(d)) = 0 =>
             quiet >= idleTimeout]_vars
  <2> SUFFICES ASSUME SessionInv, Next, NEW d \in Direction,
                      cause'[d] = "idle", cause[d] = "none",
                      pipe[Opposite(d)] = "read", Unread(Opposite(d)) = 0
               PROVE  quiet >= idleTimeout
    OBVIOUS
  <2>0. TypeInv /\ QuietInv
    BY DEF SessionInv
  <2>1. DeadlineExceeded(d) /\ Stale
    <3>1. CASE UNCHANGED cause
      BY <3>1
    <3>2. ASSUME NEW x \in Direction, Goroutine(x) PROVE DeadlineExceeded(d) /\ Stale
      BY <2>0, <3>2 DEF Goroutine, Read, ReadEnds, DeadlineExceeded, Write, PipeEnds, TypeInv
    <3> QED
      BY <3>1, <3>2 DEF Next, Send, CloseSend, Drain, Reset, Finish, Tick, pipeVars
  <2>2. CaughtUp(d)
    BY <2>0, <2>1 DEF DeadlineExceeded, CaughtUp, Idles, TypeInv
  <2>3. CaughtUp(Opposite(d))
    BY <2>0, Ends DEF Unread, CaughtUp, AllRead, TypeInv
  <2>4. age <= quiet
    BY <2>0, <2>2, <2>3, Ends DEF QuietInv
  <2> QED
    BY <2>0, <2>1, <2>4 DEF Stale, TypeInv
<1> QED
  BY <1>1, SessionInvariant, PTL DEF Spec, IdleCutJustified
=============================================================================
