------------------------------- MODULE Proxy --------------------------------
(***************************************************************************)
(* The proxy of redis-sentinel-proxy up to the point where a session is    *)
(* open: Run with its accept loops, the connection limit, and how a        *)
(* connection handler finds a backend (src/pkg/proxy/proxy.go, the first   *)
(* part of routing.go), together with the errgroup of src/main.go.         *)
(*                                                                         *)
(* The resolver is seen through its contract, AddressService: its steps    *)
(* are the other half of Next.  What happens inside an open session is     *)
(* left out; it ends at any time.                                          *)
(***************************************************************************)
EXTENDS Integers, FiniteSets

CONSTANTS
  Node, AddrRank, NoAddr, IdxModulus,  \* see AddressService
  Client,                 \* client sockets; one may connect again and again
  Endpoint,               \* the enabled ones of "master" and "replica"
  MaxConnections,         \* 0 or less: unlimited
  ReplicaFallbackMaster,  \* replica_fallback = master
  Router                  \* route single commands on the master endpoint

ASSUME ProxyAssumption ==
  /\ Endpoint \subseteq {"master", "replica"} /\ Endpoint # {}
  /\ IsFiniteSet(Client) /\ MaxConnections \in Int
  /\ ReplicaFallbackMaster \in BOOLEAN /\ Router \in BOOLEAN
  /\ Router => "master" \in Endpoint

\* The replicas are sorted by address, and addresses are distinct.
ASSUME RankAssumption ==
  /\ IsFiniteSet(Node) /\ IdxModulus \in Nat \ {0}
  /\ AddrRank \in [Node -> Nat]
  /\ \A m, n \in Node : AddrRank[m] = AddrRank[n] => m = n

VARIABLES
  wasMaster, wasSlave, status, master, replicas, idx,  \* AddressService
  up,        \* the nodes a dial reaches
  ctxDone,   \* the context of main's errgroup is cancelled
  runPc,     \* Run: the endpoint it listens on next, "wait" or "returned"
  runErr,    \* Run returned an error
  listener,  \* per endpoint: "none", "open", "closed"
  accept,    \* per endpoint, runListenLoop: "off", "check", "accept", "done"
  used,      \* len(r.sem)
  via,       \* per client: the endpoint it connected to
  conn,      \* per client: where its handler is
  retried,   \* per client: connectBackend or the replica pick is at its 2nd attempt
  to,        \* per client: the address it was given
  replica,   \* per client: the address of the replica of a routed session
  steady,    \* history: clients whose refresh left a reachable master published
  offered    \* history: what the endpoint of a client stood for since its attempt
             \* began; of this, once it has picked an address, only that one

Service == INSTANCE AddressService

serviceVars == <<wasMaster, wasSlave, status, master, replicas, idx>>
runVars == <<ctxDone, runPc, runErr, listener, accept>>
connVars == <<via, conn, retried, to, replica>>
histVars == <<steady, offered>>
vars == <<serviceVars, up, runVars, used, connVars, histVars>>

Limited == MaxConnections > 0
\* The resolver looks for replicas only when there is a replica endpoint.
TrackReplicas == "replica" \in Endpoint

Init ==
  /\ Service!Init /\ up \in SUBSET Node
  /\ ctxDone = FALSE /\ runPc = "master" /\ runErr = FALSE
  /\ listener = [e \in Endpoint |-> "none"]
  /\ accept = [e \in Endpoint |-> "off"]
  /\ used = 0
  /\ via = [c \in Client |-> CHOOSE e \in Endpoint : TRUE]
  /\ conn = [c \in Client |-> "away"]
  /\ retried = [c \in Client |-> FALSE]
  /\ to = [c \in Client |-> NoAddr]
  /\ replica = [c \in Client |-> NoAddr]
  /\ steady = {} /\ offered = [c \in Client |-> {}]

-----------------------------------------------------------------------------
(***************************************************************************)
(* Run.                                                                    *)
(***************************************************************************)
AfterListen(e) == IF e = "master" THEN "replica" ELSE "wait"

\* A closed listener resets the connections nobody has accepted.
CloseListeners(E) ==
  /\ listener' = [e \in Endpoint |->
       IF e \in E /\ listener[e] = "open" THEN "closed" ELSE listener[e]]
  /\ conn' = [c \in Client |->
       IF conn[c] = "pending" /\ via[c] \in E THEN "away" ELSE conn[c]]

LeaveListenersOpen == {}

\* The deferred function of Run closes what was opened when Run fails.
ClosedOnError == Endpoint

\* net.ListenTCP; with the listener come its accept loop and its closer.
Listen(e) ==
  /\ runPc = e
  /\ \/ /\ e \notin Endpoint
        /\ runPc' = AfterListen(e)
        /\ UNCHANGED <<listener, accept, runErr, conn>>
     \/ /\ e \in Endpoint
        /\ runPc' = AfterListen(e)
        /\ listener' = [listener EXCEPT ![e] = "open"]
        /\ accept' = [accept EXCEPT ![e] = "check"]
        /\ UNCHANGED <<runErr, conn>>
     \/ /\ e \in Endpoint
        /\ runPc' = "returned" /\ runErr' = TRUE
        /\ CloseListeners(ClosedOnError)
        /\ UNCHANGED accept
  /\ UNCHANGED <<serviceVars, up, ctxDone, used, via, retried, to, replica, histVars>>

\* closeListenerByContext
CloseByContext(e) ==
  /\ ctxDone /\ listener[e] = "open"
  /\ CloseListeners({e})
  /\ UNCHANGED <<serviceVars, up, ctxDone, runPc, runErr, accept, used, via,
                 retried, to, replica, histVars>>

\* errGr.Wait(): the accept loops and the closers have returned nil.
RunReturns ==
  /\ runPc = "wait"
  /\ \A e \in Endpoint : accept[e] = "done" /\ listener[e] = "closed"
  /\ runPc' = "returned"
  /\ UNCHANGED <<serviceVars, up, ctxDone, runErr, listener, accept, used,
                 connVars, histVars>>

(***************************************************************************)
(* runListenLoop of endpoint e.                                            *)
(***************************************************************************)
GoTo(e, pc) == accept' = [accept EXCEPT ![e] = pc]

LoopCheck(e) ==
  /\ accept[e] = "check"
  /\ GoTo(e, IF ctxDone THEN "done" ELSE "accept")
  /\ UNCHANGED <<serviceVars, up, ctxDone, runPc, runErr, listener, used,
                 connVars, histVars>>

AdmitOneMore == used <= MaxConnections

\* case r.sem <- struct{}{} is ready.
SlotFree == used < MaxConnections

\* Accept succeeds: the handler is started, or the connection is closed at once.
Accept(e, c) ==
  /\ accept[e] = "accept" /\ conn[c] = "pending" /\ via[c] = e
  /\ GoTo(e, "check")
  /\ \/ /\ Limited => SlotFree
        /\ used' = IF Limited THEN used + 1 ELSE used
        /\ conn' = [conn EXCEPT ![c] = "handshake"]
     \/ /\ Limited /\ ~SlotFree
        /\ conn' = [conn EXCEPT ![c] = "away"]
        /\ UNCHANGED used
  /\ UNCHANGED <<serviceVars, up, ctxDone, runPc, runErr, listener, via,
                 retried, to, replica, histVars>>

\* After an error of Accept; the sleep before the next round is time spent at "check".
AfterAcceptError(e) == IF ctxDone THEN "done" ELSE "check"

\* Accept fails: the listener is closed, or a passing error such as EMFILE.
AcceptFails(e) ==
  /\ accept[e] = "accept"
  /\ GoTo(e, AfterAcceptError(e))
  /\ UNCHANGED <<serviceVars, up, ctxDone, runPc, runErr, listener, used,
                 connVars, histVars>>

-----------------------------------------------------------------------------
(***************************************************************************)
(* The handler of client c: proxy, or routedProxy on a routed endpoint.    *)
(***************************************************************************)
Routed(c) == Router /\ via[c] = "master"

\* proxy() returns: the sockets are closed, the slot is still held.
Hangup(c) ==
  /\ conn' = [conn EXCEPT ![c] = "closing"]
  /\ to' = [to EXCEPT ![c] = NoAddr]
  /\ retried' = [retried EXCEPT ![c] = FALSE]
  /\ replica' = [replica EXCEPT ![c] = NoAddr]
  /\ offered' = [offered EXCEPT ![c] = {}]

RetryForever(c) == FALSE

\* connectBackend gives up after its second attempt.
LastAttempt(c) == retried[c]

\* An attempt of connectBackend fails: refresh and retry, but only once.
AttemptFails(c) ==
  \/ /\ LastAttempt(c)
     /\ Hangup(c)
  \/ /\ ~LastAttempt(c)
     /\ conn' = [conn EXCEPT ![c] = "refresh"]
     /\ offered' = [offered EXCEPT ![c] = {}]
     /\ UNCHANGED <<to, retried, replica>>

\* What endpoint e stands for at this moment: the master, or the replicas, and
\* for want of these the master if replica_fallback says so.
Offer(e) ==
  IF status = "starting" THEN {}
  ELSE IF e = "master" \/ (replicas = {} /\ ReplicaFallbackMaster) THEN {master}
  ELSE replicas

\* What a handler that is about to pick would be given.
Choices(c) ==
  IF conn[c] = "pick" THEN Offer(via[c])
  ELSE IF conn[c] = "fallBack" THEN {master} ELSE {}

\* completeClientHandshake; bounded by handshakeTimeout.
Handshake(c) ==
  /\ conn[c] = "handshake"
  /\ \/ /\ conn' = [conn EXCEPT ![c] = "pick"]
        /\ offered' = [offered EXCEPT ![c] = Offer(via[c])]
        /\ UNCHANGED <<retried, to, replica>>
     \/ Hangup(c)
  /\ UNCHANGED <<serviceVars, up, runVars, used, via, steady>>

\* The addr of a dial is fixed here; it may be stale by the time it is used.
Given(c, a) ==
  /\ to' = [to EXCEPT ![c] = a]
  /\ conn' = [conn EXCEPT ![c] = "dial"]
  /\ offered' = [offered EXCEPT ![c] = @ \cap {a}]
  /\ UNCHANGED <<retried, replica>>

\* MasterAddress and ReplicaAddress block until the latch is open.
PickMaster(c) ==
  /\ conn[c] = "pick" /\ via[c] = "master" /\ status # "starting"
  /\ Given(c, master)
  /\ UNCHANGED <<serviceVars, up, runVars, used, via, steady>>

\* pickReplica found no replica and goes on to MasterAddress, a read of its own.
FallBack(c) ==
  /\ conn' = [conn EXCEPT ![c] = "fallBack"]
  /\ offered' = [offered EXCEPT ![c] = {master}]
  /\ UNCHANGED <<to, retried, replica>>

PickReplica(c) ==
  /\ conn[c] = "pick" /\ via[c] = "replica" /\ status # "starting"
  /\ \/ Service!ReplicaAddress /\ Given(c, Service!Pick(idx))
     \/ /\ replicas = {}
        /\ IF ReplicaFallbackMaster THEN FallBack(c) ELSE AttemptFails(c)
        /\ UNCHANGED serviceVars
  /\ UNCHANGED <<up, runVars, used, via, steady>>

PickFallback(c) ==
  /\ conn[c] = "fallBack"
  /\ Given(c, master)
  /\ UNCHANGED <<serviceVars, up, runVars, used, via, steady>>

ReachedInTime(c) == to[c] \in up /\ ~retried[c]

\* dialRedis: within a second, for every attempt anew, the backend is reached or not.
Reached(c) == to[c] \in up

Dial(c) ==
  /\ conn[c] = "dial"
  /\ \/ /\ Reached(c)
        /\ conn' = [conn EXCEPT ![c] = IF Routed(c) THEN "pickReplica" ELSE "open"]
        /\ retried' = [retried EXCEPT ![c] = FALSE]
        /\ steady' = steady \ {c}
        /\ UNCHANGED <<to, replica, offered>>
     \/ /\ ~Reached(c)
        /\ AttemptFails(c)
        /\ UNCHANGED steady
  /\ UNCHANGED <<serviceVars, up, runVars, used, via>>

DialAgain(c) == IF to[c] = NoAddr THEN "pick" ELSE "dial"

\* Where connectBackend goes on after the refresh: it picks anew.
AfterRefresh(c) == "pick"

\* RefreshAddresses returns; what it found was published by AddressService.
RefreshReturns(c) ==
  /\ conn[c] = "refresh"
  /\ conn' = [conn EXCEPT ![c] = AfterRefresh(c)]
  /\ retried' = [retried EXCEPT ![c] = TRUE]
  /\ steady' = IF master \in up THEN steady \cup {c} ELSE steady \ {c}
  /\ offered' = [offered EXCEPT ![c] = Offer(via[c])]
  /\ UNCHANGED <<serviceVars, up, runVars, used, via, to, replica>>

\* dialReplicaForRouting: a refresh only when no replica is known.
PickReplicaForRouting(c) ==
  /\ conn[c] = "pickReplica" /\ status # "starting"
  /\ \/ /\ Service!ReplicaAddress
        /\ replica' = [replica EXCEPT ![c] = Service!Pick(idx)]
        /\ conn' = [conn EXCEPT ![c] = "dialReplica"]
     \/ /\ replicas = {}
        /\ conn' = [conn EXCEPT ![c] = IF retried[c] THEN "open" ELSE "refreshReplica"]
        /\ UNCHANGED <<serviceVars, replica>>
  /\ UNCHANGED <<up, runVars, used, via, retried, to, histVars>>

RefreshForRouting(c) ==
  /\ conn[c] = "refreshReplica"
  /\ conn' = [conn EXCEPT ![c] = "pickReplica"]
  /\ retried' = [retried EXCEPT ![c] = TRUE]
  /\ UNCHANGED <<serviceVars, up, runVars, used, via, to, replica, histVars>>

HangUpOnDeadReplica(c) == IF replica[c] \in up THEN "open" ELSE "closing"

\* Without its replica the session goes on with the master alone.
AfterReplicaDial(c) == "open"

DialReplicaForRouting(c) ==
  /\ conn[c] = "dialReplica"
  /\ conn' = [conn EXCEPT ![c] = AfterReplicaDial(c)]
  /\ replica' = [replica EXCEPT ![c] = IF @ \in up THEN @ ELSE NoAddr]
  /\ UNCHANGED <<serviceVars, up, runVars, used, via, to, retried, histVars>>

\* An open session ends: either side has closed, failed or been idle.
SessionEnds(c) ==
  /\ conn[c] = "open"
  /\ Hangup(c)
  /\ UNCHANGED <<serviceVars, up, runVars, used, via, steady>>

\* <-r.sem
SlotReturned == IF Limited THEN used - 1 ELSE used

\* The deferred release in runListenLoop, after the sockets were closed.
Release(c) ==
  /\ conn[c] = "closing"
  /\ used' = SlotReturned
  /\ conn' = [conn EXCEPT ![c] = "away"]
  /\ steady' = steady \ {c}
  /\ UNCHANGED <<serviceVars, up, runVars, via, retried, to, replica, offered>>

-----------------------------------------------------------------------------
(***************************************************************************)
(* The clients, the nodes, the resolver, and main.                         *)
(***************************************************************************)
Connect(c, e) ==
  /\ conn[c] = "away" /\ listener[e] = "open"
  /\ conn' = [conn EXCEPT ![c] = "pending"]
  /\ via' = [via EXCEPT ![c] = e]
  /\ UNCHANGED <<serviceVars, up, runVars, used, retried, to, replica, histVars>>

NodesChange(S) ==
  /\ S # up
  /\ up' = S
  /\ steady' = IF master \in S THEN steady ELSE {}
  /\ UNCHANGED <<serviceVars, runVars, used, connVars, offered>>

\* A handler is in RefreshAddresses, which publishes what it finds even after the
\* loop has ended.
Refreshing == \E c \in Client : conn[c] \in {"refresh", "refreshReplica"}

\* A resolve publishes something new, or opens the latch; or, as a step of its own,
\* the loop ends.
Resolve ==
  /\ status \in Service!Ended => Refreshing
  /\ \/ /\ Service!PublishMaster \/ (TrackReplicas /\ Service!PublishReplicas)
        /\ status' \in Service!Ended => status' = status
     \/ Service!Stop
  /\ serviceVars' # serviceVars
  /\ UNCHANGED <<up, runVars, used, connVars>>
  /\ steady' = IF master' = master THEN steady ELSE {}
  /\ offered' = [c \in Client |-> offered[c] \cup Choices(c)']

Signal ==
  /\ ~ctxDone
  /\ ctxDone' = TRUE
  /\ UNCHANGED <<serviceVars, up, runPc, runErr, listener, accept, used,
                 connVars, histVars>>

IgnoreRun == status = "failed"

\* errgroup: the first member that returns an error cancels the context of the
\* other; one that returns nil does not.
MemberFailed == status = "failed" \/ runErr

GroupCancels == MemberFailed /\ Signal

-----------------------------------------------------------------------------
Handler(c) ==
  \/ Handshake(c) \/ PickMaster(c) \/ PickReplica(c) \/ PickFallback(c)
  \/ Dial(c) \/ RefreshReturns(c) \/ PickReplicaForRouting(c) \/ RefreshForRouting(c)
  \/ DialReplicaForRouting(c) \/ Release(c)

AcceptLoop(e) ==
  LoopCheck(e) \/ (\E c \in Client : Accept(e, c)) \/ AcceptFails(e)

Next ==
  \/ \E e \in {"master", "replica"} : Listen(e)
  \/ \E e \in Endpoint : CloseByContext(e) \/ AcceptLoop(e)
  \/ RunReturns
  \/ \E c \in Client : Handler(c) \/ SessionEnds(c)
  \/ \E c \in Client, e \in Endpoint : Connect(c, e)
  \/ \E S \in SUBSET Node : NodesChange(S)
  \/ Resolve \/ Signal \/ GroupCancels

Spec == Init /\ [][Next]_vars

\* The latch opens (StartupUnblocks of Resolver).
LatchOpens == status = "starting" /\ Resolve /\ status' # "starting"

\* The loop returns once the context is done (ShutdownStops of Resolver).
ResolverStops == ctxDone /\ status \notin Service!Ended /\ Resolve /\ status' \in Service!Ended

\* A loop blocked in Accept moves on for a client or for a closed listener.
AcceptMoves(e) ==
  \/ LoopCheck(e)
  \/ \E c \in Client : Accept(e, c)
  \/ listener[e] = "closed" /\ AcceptFails(e)

\* The goroutine of Run.
RunMoves == RunReturns \/ \E e \in {"master", "replica"} : Listen(e)

\* Goroutines run, dials, handshakes and refreshes are bounded by timeouts.
\* Nobody has to end a session, and no client has to connect.
Fairness ==
  /\ WF_vars(RunMoves)
  /\ \A e \in Endpoint : WF_vars(AcceptMoves(e)) /\ WF_vars(CloseByContext(e))
  /\ WF_vars(GroupCancels)
  /\ \A c \in Client : WF_vars(Handler(c))
  /\ WF_vars(LatchOpens) /\ WF_vars(ResolverStops)

FairSpec == Spec /\ Fairness

-----------------------------------------------------------------------------
(***************************************************************************)
(* Properties.                                                             *)
(***************************************************************************)
\* The handler of the client exists and holds its slot.
Admitted(c) == conn[c] \notin {"away", "pending"}

\* Every variable has its type.
TypeOK ==
  /\ status \in {"starting", "serving", "stopped", "failed"}
  /\ master \in Node \cup {NoAddr} /\ replicas \subseteq Node
  /\ idx \in 0 .. IdxModulus - 1 /\ up \subseteq Node
  /\ ctxDone \in BOOLEAN /\ runErr \in BOOLEAN
  /\ runPc \in {"master", "replica", "wait", "returned"}
  /\ listener \in [Endpoint -> {"none", "open", "closed"}]
  /\ accept \in [Endpoint -> {"off", "check", "accept", "done"}]
  /\ used \in Nat
  /\ via \in [Client -> Endpoint]
  /\ conn \in [Client -> {"away", "pending", "handshake", "pick", "fallBack", "dial",
                          "refresh", "pickReplica", "refreshReplica", "dialReplica", "open",
                          "closing"}]
  /\ retried \in [Client -> BOOLEAN]
  /\ to \in [Client -> Node \cup {NoAddr}] /\ replica \in [Client -> Node \cup {NoAddr}]
  /\ steady \subseteq Client /\ offered \in [Client -> SUBSET (Node \cup {NoAddr})]

\* The semaphore counts the handlers: no slot is lost or returned twice on any
\* way out of a handler, and the two accept loops that share it never start
\* more than MaxConnections handlers.
SlotsCounted ==
  Limited => /\ used = Cardinality({c \in Client : Admitted(c)})
             /\ used <= MaxConnections

\* The handler has an address that it dials or is connected to.
HasBackend(c) ==
  conn[c] \in {"dial", "pickReplica", "refreshReplica", "dialReplica", "open"}

\* Whatever the resolver publishes while a handler waits for the latch, dials,
\* refreshes and tries again, the address it ends up with is one that its endpoint
\* stood for after its last refresh (or, without one, its handshake): never an older
\* one, the master only if no replica was published at some moment since (and then
\* the master of that moment or a later one), and not at all with
\* replica_fallback = reject.  It had answered the ROLE probe with the
\* role it was published for (or is empty, after a start that failed); it may have
\* changed its role afterwards.
RightBackend ==
  \A c \in Client : HasBackend(c) =>
    /\ to[c] \in offered[c]
    /\ via[c] = "master" => to[c] \in wasMaster \cup {NoAddr}
    /\ via[c] = "replica" /\ ~ReplicaFallbackMaster => to[c] \in wasSlave
    /\ replica[c] \in wasSlave \cup {NoAddr}

\* When Run has returned, with an error or not, no listener is left open and no
\* client is left in a backlog that nobody accepts from.
NothingListensAfterRun ==
  runPc = "returned" =>
    /\ \A e \in Endpoint : listener[e] # "open"
    /\ \A c \in Client : conn[c] # "pending"

\* The retry is worth something: a client of the master endpoint whose first
\* dial met a dead address is not rejected if the refresh left a reachable
\* master published and that has not changed since.
SurvivesFailover ==
  [][\A c \in steady : via[c] = "master" /\ conn[c] \in {"pick", "dial"} =>
       conn'[c] # "closing"]_vars

\* An admitted client is served or hung up in the end: no handler waits for
\* ever for the latch, a refresh, a dial or a third attempt.
ClientDecided ==
  \A c \in Client : Admitted(c) ~> conn[c] \in {"open", "away"}

\* Every failure of the replica degrades gracefully: a routed client whose master
\* was reached never loses its session to the search for a replica, whether none
\* is known, one is dead at an address that is not refreshed, or one is lost
\* between the pick and the dial.  With ClientDecided the session does open.
DegradesToMaster ==
  [][\A c \in Client : conn[c] \in {"pickReplica", "refreshReplica", "dialReplica"} =>
       conn'[c] \notin {"closing", "away"}]_vars

\* The process ends once it is told to, the resolver gave up, or an endpoint
\* cannot be opened: the two members of main's errgroup take each other down.  A
\* resolver that returns nil unasked (a negative resolve_retries) takes nobody down.
ProcessExits ==
  (ctxDone \/ runErr \/ status = "failed")
    ~> (runPc = "returned" /\ status \in Service!Ended)
=============================================================================
