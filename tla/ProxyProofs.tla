---------------------------- MODULE ProxyProofs -----------------------------
(***************************************************************************)
(* Proofs about Proxy for every number of clients and nodes, every limit   *)
(* and every configuration of the endpoints.                               *)
(***************************************************************************)
EXTENDS Proxy, FiniteSetTheorems, TLAPS

USE ProxyAssumption

(***************************************************************************)
(* Type correctness.                                                       *)
(***************************************************************************)
ConnState ==
  {"away", "pending", "handshake", "pick", "fallBack", "dial", "refresh", "pickReplica",
   "refreshReplica", "dialReplica", "open", "closing"}
Address == Node \cup {NoAddr}

\* What a handler changes of its own state.
HandlerType ==
  /\ conn \in [Client -> ConnState] /\ retried \in [Client -> BOOLEAN]
  /\ to \in [Client -> Address] /\ replica \in [Client -> Address]
  /\ offered \in [Client -> SUBSET Address]

\* What AddressService may publish are addresses of nodes.
TypeInv == TypeOK /\ wasMaster \subseteq Node /\ wasSlave \subseteq Node

\* The part of it that most steps need: what the state of the handlers ranges over.
LEMMA HandlerTypes ==
  ASSUME TypeInv
  PROVE  /\ conn \in [Client -> ConnState] /\ to \in [Client -> Address]
         /\ replica \in [Client -> Address] /\ offered \in [Client -> SUBSET Address]
         /\ via \in [Client -> Endpoint] /\ retried \in [Client -> BOOLEAN]
         /\ listener \in [Endpoint -> {"none", "open", "closed"}]
         /\ steady \subseteq Client
BY DEF TypeInv, TypeOK, ConnState, Address

\* In a sorted list of addresses every position is taken.
LEMMA EveryPosition ==
  ASSUME NEW S \in SUBSET Node
  PROVE  \A i \in 0 .. Cardinality(S) - 1 :
           \E n \in S : Cardinality({m \in S : AddrRank[m] < AddrRank[n]}) = i
<1> DEFINE Below(x) == {m \in S : AddrRank[m] < AddrRank[x]}
           k == Cardinality(S)
           pos == [x \in S |-> Cardinality(Below(x))]
<1>1. IsFiniteSet(S) /\ k \in Nat
  <2>1. IsFiniteSet(S)
    BY RankAssumption, FS_Subset, Zenon
  <2> QED
    BY <2>1, FS_CardinalityType, Zenon
<1>2. \A x \in S : AddrRank[x] \in Nat
  BY RankAssumption
<1>3. \A x \in S : /\ IsFiniteSet(Below(x)) /\ Cardinality(Below(x)) \in Nat
                  /\ Cardinality(Below(x)) <= k /\ (k = Cardinality(Below(x)) => S = Below(x))
  <2> TAKE x \in S
  <2>1. Below(x) \in SUBSET S
    OBVIOUS
  <2> HIDE DEF Below
  <2>2. IsFiniteSet(Below(x))
    BY <1>1, <2>1, FS_Subset, Zenon
  <2> QED
    BY <1>1, <2>1, <2>2, FS_Subset, FS_CardinalityType, Zenon
<1>4. \A x \in S : pos[x] \in 0 .. k - 1
  <2> TAKE x \in S
  <2>1. x \notin Below(x)
    BY <1>2
  <2>2. Cardinality(Below(x)) # k
    BY <1>3, <2>1, Zenon
  <2> HIDE DEF Below, k
  <2> QED
    BY <1>1, <1>3, <2>2
<1>5. ASSUME NEW x \in S, NEW y \in S, AddrRank[x] < AddrRank[y]
      PROVE  pos[x] # pos[y]
  <2>1. Below(x) \in SUBSET Below(y) /\ x \in Below(y) /\ x \notin Below(x)
    BY <1>2, <1>5
  <2> HIDE DEF Below
  <2>2. Cardinality(Below(y)) # Cardinality(Below(x))
    BY <1>3, <2>1, FS_Subset, Zenon
  <2> QED
    BY <2>2
<1>6. \A x, y \in S : pos[x] = pos[y] => x = y
  <2> HIDE DEF pos
  <2> QED
    BY <1>2, <1>5, RankAssumption
<1>7. pos \in Injection(S, 0 .. k - 1)
  <2>1. pos \in [S -> 0 .. k - 1]
    BY <1>4
  <2> HIDE DEF pos, k
  <2> QED
    BY <1>6, <2>1, Zenon DEF Injection, IsInjective
<1>8. IsFiniteSet(0 .. k - 1) /\ Cardinality(0 .. k - 1) = k
  <2> HIDE DEF k
  <2> QED
    BY <1>1, FS_Interval
<1>9. pos \in Surjection(S, 0 .. k - 1)
  <2> HIDE DEF pos
  <2> QED
    BY <1>7, <1>8, FS_Injection, Zenon
<1>10. \A i \in 0 .. k - 1 : \E n \in S : pos[n] = i
  <2> HIDE DEF pos, k
  <2> QED
    BY <1>9, Zenon DEF Surjection
<1> QED
  <2>1. \A n \in S : pos[n] = Cardinality({m \in S : AddrRank[m] < AddrRank[n]})
    BY Zenon
  <2> HIDE DEF pos
  <2> QED
    BY <1>10, <2>1, Zenon

\* The ticket of the round robin always selects an address of the list.
LEMMA PickIsReplica ==
  ASSUME TypeInv, replicas # {}
  PROVE  Service!Pick(idx) \in replicas
<1> DEFINE k == Cardinality(replicas)
<1>1. IsFiniteSet(replicas)
  BY FS_Subset, RankAssumption DEF TypeInv, TypeOK
<1>2. k \in Nat /\ k # 0
  BY <1>1, FS_CardinalityType, FS_EmptySet
<1>3. idx \in Nat
  BY RankAssumption DEF TypeInv, TypeOK
<1>4. idx % k \in 0 .. k - 1
  <2> HIDE DEF k
  <2> QED
    BY <1>2, <1>3
<1>5. \E n \in replicas :
        Cardinality({m \in replicas : AddrRank[m] < AddrRank[n]}) = idx % k
  <2>1. replicas \in SUBSET Node
    BY DEF TypeInv, TypeOK
  <2>2. \A i \in 0 .. k - 1 : \E n \in replicas :
          Cardinality({m \in replicas : AddrRank[m] < AddrRank[n]}) = i
    BY <2>1, EveryPosition, Zenon
  <2> QED
    BY <1>4, <2>2, Zenon
<1>6. \A S : Service!Cardinality(S) = Cardinality(S)
  BY DEF Cardinality, Service!Cardinality
<1>7. Service!Pick(idx) = CHOOSE n \in replicas :
        Cardinality({m \in replicas : AddrRank[m] < AddrRank[n]}) = idx % k
  BY <1>6, Zenon DEF Service!Pick, Service!Ranked
<1> QED
  BY <1>5, <1>7, Zenon

\* A call of ReplicaAddress changes nothing of the service but the ticket.
LEMMA TicketType ==
  ASSUME TypeInv, Service!ReplicaAddress
  PROVE  /\ idx' \in 0 .. IdxModulus - 1
         /\ UNCHANGED <<wasMaster, wasSlave, status, master, replicas>>
<1>1. idx \in Nat /\ IdxModulus \in Nat \ {0}
  BY RankAssumption DEF TypeInv, TypeOK
<1> QED
  BY <1>1 DEF Service!ReplicaAddress

\* The way out of a handler keeps the types.
LEMMA HangupType ==
  ASSUME TypeInv, NEW c \in Client, Hangup(c)
  PROVE  HandlerType'
BY HandlerTypes DEF Hangup, HandlerType, ConnState, Address

\* And so does a failed attempt.
LEMMA AttemptFailsType ==
  ASSUME TypeInv, NEW c \in Client, AttemptFails(c)
  PROVE  HandlerType'
<1>1. CASE Hangup(c)
  BY <1>1, HangupType
<1>2. CASE /\ conn' = [conn EXCEPT ![c] = "refresh"]
           /\ offered' = [offered EXCEPT ![c] = {}]
           /\ UNCHANGED <<to, retried, replica>>
  BY <1>2, HandlerTypes DEF HandlerType, ConnState
<1> QED
  BY <1>1, <1>2 DEF AttemptFails

\* And so does an address that is given.
LEMMA GivenType ==
  ASSUME TypeInv, NEW c \in Client, NEW a \in Address, Given(c, a)
  PROVE  HandlerType'
BY HandlerTypes DEF Given, HandlerType, ConnState

\* What an endpoint stands for are addresses.
LEMMA OfferType ==
  ASSUME TypeInv, NEW e
  PROVE  Offer(e) \subseteq Address
BY DEF Offer, TypeInv, TypeOK, Address

\* Initially every variable has its type.
LEMMA TypeInit == Init => TypeInv
<1> SUFFICES ASSUME Init PROVE TypeInv
  OBVIOUS
<1>1. (CHOOSE e \in Endpoint : TRUE) \in Endpoint
  OBVIOUS
<1>2. 0 \in 0 .. IdxModulus - 1
  BY RankAssumption
<1> QED
  BY <1>1, <1>2, Zenon DEF Init, Service!Init, TypeInv, TypeOK

\* A handler that exists has its slot: the semaphore is not empty.
LEMMA HoldsSlot ==
  ASSUME TypeInv, SlotsCounted, Limited, NEW c \in Client, Admitted(c)
  PROVE  used # 0
<1> DEFINE A == {x \in Client : Admitted(x)}
<1>1. IsFiniteSet(A)
  BY FS_Subset
<1>2. c \in A
  OBVIOUS
<1>3. Cardinality(A) # 0
  BY <1>1, <1>2, FS_EmptySet
<1> QED
  BY <1>3 DEF SlotsCounted

\* Every step keeps the types; that the semaphore is never received from when it
\* is empty needs the count.
LEMMA TypeStep == TypeInv /\ SlotsCounted /\ [Next]_vars => TypeInv'
<1> SUFFICES ASSUME TypeInv, SlotsCounted, [Next]_vars PROVE TypeInv'
  OBVIOUS
<1> USE DEF TypeInv, TypeOK, histVars
<1>1. CASE UNCHANGED vars
  BY <1>1 DEF vars, serviceVars, runVars, connVars
<1>2. ASSUME NEW e \in {"master", "replica"}, Listen(e) PROVE TypeInv'
  <2>1. AfterListen(e) \in {"replica", "wait"}
    BY DEF AfterListen
  <2>2. CASE e \in Endpoint /\ CloseListeners(ClosedOnError) /\ UNCHANGED accept
             /\ runPc' = "returned" /\ runErr' = TRUE
    BY <1>2, <2>2 DEF Listen, CloseListeners, serviceVars
  <2>3. CASE /\ runPc' = AfterListen(e)
             /\ \/ UNCHANGED <<listener, accept, runErr, conn>>
                \/ /\ e \in Endpoint
                   /\ listener' = [listener EXCEPT ![e] = "open"]
                   /\ accept' = [accept EXCEPT ![e] = "check"]
                   /\ UNCHANGED <<runErr, conn>>
    BY <1>2, <2>1, <2>3 DEF Listen, serviceVars
  <2> QED
    BY <1>2, <2>2, <2>3, Zenon DEF Listen
<1>3. ASSUME NEW e \in Endpoint, CloseByContext(e) PROVE TypeInv'
  BY <1>3 DEF CloseByContext, CloseListeners, serviceVars
<1>4. ASSUME NEW e \in Endpoint, AcceptLoop(e) PROVE TypeInv'
  <2>1. CASE LoopCheck(e)
    BY <2>1 DEF LoopCheck, GoTo, serviceVars, connVars
  <2>2. ASSUME NEW c \in Client, Accept(e, c) PROVE TypeInv'
    BY <2>2 DEF Accept, GoTo, serviceVars
  <2>3. CASE AcceptFails(e)
    BY <2>3 DEF AcceptFails, AfterAcceptError, GoTo, serviceVars, connVars
  <2> QED
    BY <1>4, <2>1, <2>2, <2>3 DEF AcceptLoop
<1>5. CASE RunReturns
  BY <1>5, SMTT(20) DEF RunReturns, serviceVars, connVars
<1>6. ASSUME NEW c \in Client, Handler(c) PROVE TypeInv'
  <2>1. CASE Handshake(c)
    <3>1. HandlerType'
      <4>1. CASE Hangup(c)
        BY <4>1, HangupType
      <4>2. CASE ~Hangup(c)
        BY <2>1, <4>2, HandlerTypes, OfferType DEF Handshake, HandlerType, ConnState
      <4> QED
        BY <4>1, <4>2
    <3> QED
      BY <2>1, <3>1 DEF Handshake, HandlerType, serviceVars, runVars, ConnState, Address
  <2>2. CASE PickMaster(c) \/ PickFallback(c)
    BY <2>2, GivenType, Zenon
       DEF PickMaster, PickFallback, HandlerType, serviceVars, runVars, ConnState, Address
  <2>3. CASE PickReplica(c)
    <3>1. CASE Service!ReplicaAddress /\ Given(c, Service!Pick(idx))
      <4>1. Service!Pick(idx) \in Address
        BY <3>1, PickIsReplica DEF Service!ReplicaAddress, Address
      <4> QED
        BY <2>3, <3>1, <4>1, TicketType, GivenType, Zenon
           DEF PickReplica, HandlerType, runVars, ConnState, Address
    <3>2. CASE FallBack(c) /\ UNCHANGED serviceVars
      <4>1. HandlerType'
        BY <3>2, HandlerTypes DEF FallBack, HandlerType, ConnState, TypeInv, TypeOK, Address
      <4> QED
        BY <2>3, <3>2, <4>1
           DEF PickReplica, HandlerType, serviceVars, runVars, ConnState, Address
    <3>3. CASE AttemptFails(c) /\ UNCHANGED serviceVars
      BY <2>3, <3>3, AttemptFailsType
         DEF PickReplica, HandlerType, serviceVars, runVars, ConnState, Address
    <3> QED
      BY <2>3, <3>1, <3>2, <3>3 DEF PickReplica
  <2>4. CASE Dial(c)
    <3>1. CASE AttemptFails(c) /\ UNCHANGED steady
      BY <2>4, <3>1, AttemptFailsType
         DEF Dial, HandlerType, serviceVars, runVars, ConnState, Address
    <3>2. CASE /\ conn' = [conn EXCEPT ![c] = IF Routed(c) THEN "pickReplica" ELSE "open"]
               /\ retried' = [retried EXCEPT ![c] = FALSE]
               /\ steady' = steady \ {c}
               /\ UNCHANGED <<to, replica, offered>>
      BY <2>4, <3>2 DEF Dial, serviceVars, runVars
    <3> QED
      BY <2>4, <3>1, <3>2 DEF Dial
  <2>5. CASE RefreshReturns(c)
    <3>1. offered' \in [Client -> SUBSET Address]
      BY <2>5, HandlerTypes, OfferType DEF RefreshReturns
    <3> QED
      BY <2>5, <3>1 DEF RefreshReturns, AfterRefresh, Address, serviceVars, runVars
  <2>6. CASE PickReplicaForRouting(c)
    <3>1. CASE /\ Service!ReplicaAddress
               /\ replica' = [replica EXCEPT ![c] = Service!Pick(idx)]
               /\ conn' = [conn EXCEPT ![c] = "dialReplica"]
      <4>1. Service!Pick(idx) \in Node
        BY <3>1, PickIsReplica DEF Service!ReplicaAddress
      <4> QED
        BY <2>6, <3>1, <4>1, TicketType DEF PickReplicaForRouting, runVars, histVars
    <3>2. CASE /\ conn' = [conn EXCEPT ![c] = IF retried[c] THEN "open" ELSE "refreshReplica"]
               /\ UNCHANGED <<serviceVars, replica>>
      BY <2>6, <3>2 DEF PickReplicaForRouting, serviceVars, runVars, histVars
    <3> QED
      BY <2>6, <3>1, <3>2 DEF PickReplicaForRouting
  <2>7. CASE RefreshForRouting(c)
    BY <2>7 DEF RefreshForRouting, serviceVars, runVars
  <2>8. CASE DialReplicaForRouting(c)
    BY <2>8 DEF DialReplicaForRouting, AfterReplicaDial, serviceVars, runVars
  <2>9. CASE Release(c)
    <3>1. Limited => used # 0
      BY <2>9, HoldsSlot DEF Release, Admitted
    <3> QED
      BY <2>9, <3>1 DEF Release, SlotReturned, serviceVars, runVars
  <2> QED
    BY <1>6, <2>1, <2>2, <2>3, <2>4, <2>5, <2>6, <2>7, <2>8, <2>9, ZenonT(30) DEF Handler
<1>7. ASSUME NEW c \in Client, SessionEnds(c) PROVE TypeInv'
  BY <1>7, HangupType DEF SessionEnds, HandlerType, serviceVars, runVars, ConnState, Address
<1>8. ASSUME NEW c \in Client, NEW e \in Endpoint, Connect(c, e) PROVE TypeInv'
  BY <1>8 DEF Connect, serviceVars, runVars
<1>9. ASSUME NEW S \in SUBSET Node, NodesChange(S) PROVE TypeInv'
  BY <1>9 DEF NodesChange, serviceVars, runVars, connVars
<1>10. CASE Resolve
  <2>1. /\ status' \in {"starting", "serving", "stopped", "failed"}
        /\ master' \in Address /\ replicas' \subseteq Node
        /\ UNCHANGED <<wasMaster, wasSlave, idx>>
    BY <1>10 DEF Resolve, Service!PublishMaster, Service!PublishReplicas, Service!Stop,
                 Service!StatusStep, Service!LoopEnds, Service!Ended, Address
  <2>2. \A c \in Client : Choices(c)' \subseteq Address
    BY <2>1 DEF Choices, Offer, Address
  <2>3. offered' \in [Client -> SUBSET Address]
    BY <1>10, <2>2, HandlerTypes DEF Resolve
  <2> QED
    BY <1>10, <2>1, <2>3 DEF Resolve, Address, runVars, connVars
<1>11. CASE Signal \/ GroupCancels
  BY <1>11, ZenonT(30) DEF GroupCancels, Signal, serviceVars, connVars
<1> QED
  BY <1>1, <1>2, <1>3, <1>4, <1>5, <1>6, <1>7, <1>8, <1>9, <1>10, <1>11, ZenonT(30) DEF Next

(***************************************************************************)
(* The connection limit.                                                   *)
(***************************************************************************)
\* A step that starts and ends no handler keeps the count.
LEMMA SlotsSame ==
  ASSUME SlotsCounted, used' = used, \A c \in Client : Admitted(c)' <=> Admitted(c)
  PROVE  SlotsCounted'
<1>1. {c \in Client : Admitted(c)}' = {c \in Client : Admitted(c)}
  OBVIOUS
<1> QED
  BY <1>1 DEF SlotsCounted, Limited

\* Accept starts a handler only with a slot of its own.
LEMMA SlotTaken ==
  ASSUME TypeInv, SlotsCounted, NEW e \in Endpoint, NEW c \in Client, Accept(e, c)
  PROVE  SlotsCounted'
<1> DEFINE A == {x \in Client : Admitted(x)}
<1>1. CASE conn' = [conn EXCEPT ![c] = "away"] /\ UNCHANGED used
  BY <1>1, SlotsSame DEF Accept, Admitted, TypeInv, TypeOK
<1>2. CASE ~Limited
  BY <1>2 DEF SlotsCounted, Limited
<1>3. CASE Limited /\ SlotFree /\ used' = used + 1
           /\ conn' = [conn EXCEPT ![c] = "handshake"]
  <2>1. IsFiniteSet(A) /\ c \notin A
    BY FS_Subset DEF Accept, Admitted
  <2>2. A' = A \cup {c}
    BY <1>3 DEF Accept, Admitted, TypeInv, TypeOK
  <2>3. Cardinality(A') = Cardinality(A) + 1
    BY <2>1, <2>2, FS_AddElement, Zenon
  <2> QED
    BY <1>3, <2>3 DEF SlotsCounted, SlotFree, Limited, TypeInv, TypeOK
<1> QED
  BY <1>1, <1>2, <1>3 DEF Accept

\* The deferred release gives back exactly the slot of its handler.
LEMMA SlotGivenBack ==
  ASSUME TypeInv, SlotsCounted, NEW c \in Client, Release(c)
  PROVE  SlotsCounted'
<1> DEFINE A == {x \in Client : Admitted(x)}
<1>1. CASE ~Limited
  BY <1>1 DEF SlotsCounted, Limited
<1>2. CASE Limited
  <2>1. IsFiniteSet(A) /\ c \in A
    BY FS_Subset DEF Release, Admitted
  <2>2. A' = A \ {c}
    BY DEF Release, Admitted, TypeInv, TypeOK
  <2>3. Cardinality(A') = Cardinality(A) - 1
    BY <2>1, <2>2, FS_RemoveElement, Zenon
  <2> QED
    BY <1>2, <2>3 DEF SlotsCounted, Release, SlotReturned, Limited, TypeInv, TypeOK
<1> QED
  BY <1>1, <1>2

\* What the other steps of a handler do with it: it stays admitted.
LEMMA StaysAdmitted ==
  ASSUME TypeInv, NEW c \in Client, Handler(c) \/ SessionEnds(c), ~Release(c)
  PROVE  /\ UNCHANGED <<used, via, listener, accept, runPc, runErr, ctxDone>>
         /\ Admitted(c)
         /\ \E s \in ConnState \ {"away", "pending"} : conn' = [conn EXCEPT ![c] = s]
<1>1. CASE Handshake(c)
  BY <1>1 DEF Handshake, Hangup, Admitted, ConnState, runVars
<1>2. CASE PickMaster(c) \/ PickFallback(c)
  BY <1>2, Zenon DEF PickMaster, PickFallback, Given, Admitted, ConnState, runVars
<1>3. CASE PickReplica(c)
  BY <1>3 DEF PickReplica, FallBack, Given, AttemptFails, Hangup, Admitted, ConnState, runVars
<1>4. CASE Dial(c)
  BY <1>4 DEF Dial, AttemptFails, Hangup, Admitted, ConnState, runVars
<1>5. CASE RefreshReturns(c)
  BY <1>5, Zenon DEF RefreshReturns, AfterRefresh, Admitted, ConnState, runVars
<1>6. CASE PickReplicaForRouting(c)
  BY <1>6 DEF PickReplicaForRouting, Admitted, ConnState, runVars
<1>7. CASE RefreshForRouting(c)
  BY <1>7, Zenon DEF RefreshForRouting, Admitted, ConnState, runVars
<1>8. CASE DialReplicaForRouting(c)
  BY <1>8, Zenon DEF DialReplicaForRouting, AfterReplicaDial, Admitted, ConnState, runVars
<1>9. CASE SessionEnds(c)
  BY <1>9, Zenon DEF SessionEnds, Hangup, Admitted, ConnState, runVars
<1> QED
  BY <1>1, <1>2, <1>3, <1>4, <1>5, <1>6, <1>7, <1>8, <1>9 DEF Handler

\* A handler moves no connection but its own.
LEMMA OthersUntouched ==
  ASSUME TypeInv, NEW x \in Client, NEW c \in Client \ {x}, Handler(x)
  PROVE  conn'[c] = conn[c]
<1>1. CASE Release(x)
  BY <1>1 DEF Release, TypeInv, TypeOK
<1>2. CASE ~Release(x)
  BY <1>2, StaysAdmitted DEF TypeInv, TypeOK
<1> QED
  BY <1>1, <1>2

\* Every step keeps the count.
LEMMA SlotsStep == TypeInv /\ SlotsCounted /\ [Next]_vars => SlotsCounted'
<1> SUFFICES ASSUME TypeInv, SlotsCounted, [Next]_vars PROVE SlotsCounted'
  OBVIOUS
<1> DEFINE Same == used' = used /\ \A c \in Client : Admitted(c)' <=> Admitted(c)
<1>1. CASE Same
  BY <1>1, SlotsSame
<1>2. CASE UNCHANGED <<used, conn>>
  BY <1>1, <1>2 DEF Admitted
<1>3. ASSUME NEW e \in {"master", "replica"}, Listen(e) PROVE Same
  BY <1>3 DEF Listen, CloseListeners, Admitted, TypeInv, TypeOK
<1>4. ASSUME NEW e \in Endpoint, CloseByContext(e) PROVE Same
  BY <1>4 DEF CloseByContext, CloseListeners, Admitted, TypeInv, TypeOK
<1>5. ASSUME NEW e \in Endpoint, AcceptLoop(e) PROVE SlotsCounted'
  BY <1>2, <1>5, SlotTaken DEF AcceptLoop, LoopCheck, AcceptFails, connVars
<1>6. ASSUME NEW c \in Client, Handler(c) \/ SessionEnds(c) PROVE SlotsCounted'
  <2>1. CASE Release(c)
    BY <2>1, SlotGivenBack
  <2>2. CASE ~Release(c)
    BY <1>1, <1>6, <2>2, StaysAdmitted DEF Admitted, ConnState, TypeInv, TypeOK
  <2> QED
    BY <2>1, <2>2
<1>7. ASSUME NEW c \in Client, NEW e \in Endpoint, Connect(c, e) PROVE Same
  BY <1>7, SMTT(20) DEF Connect, Admitted, TypeInv, TypeOK
<1>8. CASE UNCHANGED vars \/ RunReturns \/ (\E S \in SUBSET Node : NodesChange(S))
           \/ Resolve \/ Signal \/ GroupCancels
  BY <1>2, <1>8, Zenon DEF vars, RunReturns, NodesChange, Resolve, Signal, GroupCancels, connVars
<1> QED
  BY <1>1, <1>3, <1>4, <1>5, <1>6, <1>7, <1>8 DEF Next

(***************************************************************************)
(* The backend of a client.                                                *)
(***************************************************************************)
\* Only what has answered the probe is published.
PublishedInv == master \in wasMaster \cup {NoAddr} /\ replicas \subseteq wasSlave

\* The history of a handler that is about to pick holds all that it would be given
\* at this moment; one that has picked keeps what it was given.
BackendOk(c) ==
  /\ Choices(c) \subseteq offered[c]
  /\ conn[c] = "fallBack" => via[c] = "replica" /\ ReplicaFallbackMaster
  /\ HasBackend(c) =>
       /\ to[c] \in offered[c]
       /\ via[c] = "master" => to[c] \in wasMaster \cup {NoAddr}
       /\ via[c] = "replica" /\ ~ReplicaFallbackMaster => to[c] \in wasSlave
  /\ replica[c] \in wasSlave \cup {NoAddr}

BackendInv == PublishedInv /\ \A c \in Client : BackendOk(c)

\* A step that publishes nothing.
SameAddresses == UNCHANGED <<wasMaster, wasSlave, status, master, replicas>>

\* A step that leaves a handler alone, and one after which it has no backend.
Untouched(c) ==
  /\ conn'[c] = conn[c] /\ via'[c] = via[c] /\ to'[c] = to[c]
  /\ replica'[c] = replica[c] /\ offered'[c] = offered[c]
WithoutBackend(c) ==
  /\ conn'[c] \in {"away", "pending", "handshake", "refresh", "closing"}
  /\ replica'[c] \in {replica[c], NoAddr}

\* Neither can break the invariant of this handler.
LEMMA BackendKept ==
  ASSUME SameAddresses, NEW c, BackendOk(c), Untouched(c) \/ WithoutBackend(c)
  PROVE  BackendOk(c)'
<1>1. CASE Untouched(c)
  <2>1. Choices(c)' = Choices(c) /\ (HasBackend(c)' <=> HasBackend(c))
    BY <1>1, ZenonT(30) DEF Untouched, SameAddresses, Choices, Offer, HasBackend
  <2> QED
    BY <1>1, <2>1, ZenonT(30) DEF Untouched, SameAddresses, BackendOk
<1>2. CASE WithoutBackend(c)
  BY <1>2 DEF WithoutBackend, SameAddresses, BackendOk, HasBackend, Choices
<1> QED
  BY <1>1, <1>2, SMTT(20)

\* What a resolve publishes has answered the probe, and the handlers that are about
\* to pick see it.
LEMMA BackendResolve ==
  ASSUME TypeInv, BackendInv, Resolve
  PROVE  BackendInv'
<1> USE HandlerTypes
<1>1. PublishedInv' /\ UNCHANGED <<wasMaster, wasSlave>>
  BY DEF Resolve, BackendInv, PublishedInv, Service!PublishMaster, Service!PublishReplicas,
         Service!Stop
<1>2. ASSUME NEW c \in Client PROVE BackendOk(c)'
  <2>1. /\ UNCHANGED <<via, conn, to, replica>>
        /\ offered[c] \subseteq offered'[c] /\ Choices(c)' \subseteq offered'[c]
    BY DEF Resolve, connVars
  <2>2. BackendOk(c)
    BY DEF BackendInv
  <2> QED
    BY <1>1, <2>1, <2>2 DEF BackendOk, HasBackend
<1> QED
  BY <1>1, <1>2 DEF BackendInv

\* A handler that picks is given an address that its endpoint stands for.
LEMMA BackendGiven ==
  ASSUME TypeInv, BackendInv, SameAddresses, NEW c \in Client, NEW a,
         a \in Choices(c), Given(c, a), via' = via
  PROVE  BackendOk(c)'
<1> USE HandlerTypes
<1>1. BackendOk(c) /\ PublishedInv
  BY DEF BackendInv
<1>2. /\ conn'[c] = "dial" /\ to'[c] = a /\ offered'[c] = offered[c] \cap {a}
      /\ replica' = replica
  BY DEF Given
<1>3. a \in offered[c]
  BY <1>1 DEF BackendOk
<1>4. /\ via[c] = "master" => a \in wasMaster \cup {NoAddr}
      /\ via[c] = "replica" /\ ~ReplicaFallbackMaster => a \in wasSlave
  BY <1>1 DEF Choices, Offer, PublishedInv, BackendOk
<1> QED
  BY <1>1, <1>2, <1>3, <1>4 DEF BackendOk, Choices, SameAddresses

\* A step of handler x publishes nothing and leaves the other handlers alone.
LEMMA BackendOthers ==
  ASSUME TypeInv, NEW x \in Client, Handler(x) \/ SessionEnds(x)
  PROVE  SameAddresses /\ \A c \in Client \ {x} : Untouched(c)
<1> USE HandlerTypes DEF SameAddresses, Untouched, serviceVars, histVars
<1>1. CASE Handshake(x)
  BY <1>1 DEF Handshake, Hangup
<1>2. CASE PickMaster(x) \/ PickFallback(x)
  BY <1>2 DEF PickMaster, PickFallback, Given
<1>3. CASE PickReplica(x)
  BY <1>3 DEF PickReplica, FallBack, Given, AttemptFails, Hangup, Service!ReplicaAddress
<1>4. CASE Dial(x)
  BY <1>4 DEF Dial, AttemptFails, Hangup
<1>5. CASE RefreshReturns(x)
  BY <1>5 DEF RefreshReturns
<1>6. CASE PickReplicaForRouting(x)
  BY <1>6 DEF PickReplicaForRouting, Service!ReplicaAddress
<1>7. CASE RefreshForRouting(x) \/ DialReplicaForRouting(x)
  BY <1>7 DEF RefreshForRouting, DialReplicaForRouting
<1>8. CASE Release(x)
  BY <1>8 DEF Release
<1>9. CASE SessionEnds(x)
  BY <1>9 DEF SessionEnds, Hangup
<1> QED
  BY <1>1, <1>2, <1>3, <1>4, <1>5, <1>6, <1>7, <1>8, <1>9, ZenonT(30) DEF Handler

\* A handler's own steps: it picks, keeps what it picked, or loses it.
LEMMA BackendOwn ==
  ASSUME TypeInv, BackendInv, NEW c \in Client, Handler(c) \/ SessionEnds(c)
  PROVE  BackendOk(c)'
<1> USE HandlerTypes
<1>1. SameAddresses /\ BackendOk(c) /\ PublishedInv
  BY BackendOthers DEF BackendInv
<1>2. \A e : Offer(e)' = Offer(e)
  BY <1>1 DEF SameAddresses, Offer
<1>3. CASE Hangup(c) \/ AttemptFails(c)
  <2>1. WithoutBackend(c)
    BY <1>3 DEF Hangup, AttemptFails, WithoutBackend
  <2> QED
    BY <1>1, <2>1, BackendKept
<1>4. CASE Handshake(c)
  <2>1. CASE /\ conn' = [conn EXCEPT ![c] = "pick"]
             /\ offered' = [offered EXCEPT ![c] = Offer(via[c])]
             /\ UNCHANGED <<replica, via>>
    BY <1>1, <1>2, <2>1 DEF BackendOk, Choices, HasBackend, SameAddresses
  <2> QED
    BY <1>3, <1>4, <2>1, SMTT(20) DEF Handshake
<1>5. CASE PickMaster(c) \/ PickFallback(c)
  <2>1. master \in Choices(c)
    BY <1>5 DEF PickMaster, PickFallback, Choices, Offer
  <2> QED
    BY <1>1, <1>5, <2>1, BackendGiven DEF PickMaster, PickFallback
<1>6. CASE PickReplica(c)
  <2>1. CASE Service!ReplicaAddress /\ Given(c, Service!Pick(idx))
    <3>1. Service!Pick(idx) \in Choices(c)
      BY <1>6, <2>1, PickIsReplica, SMTT(20)
         DEF PickReplica, Choices, Offer, Service!ReplicaAddress
    <3> QED
      BY <1>1, <1>6, <2>1, <3>1, BackendGiven DEF PickReplica
  <2>2. CASE ReplicaFallbackMaster /\ FallBack(c)
    <3>1. /\ conn'[c] = "fallBack" /\ offered'[c] = {master} /\ via'[c] = "replica"
          /\ replica' = replica
      BY <1>6, <2>2 DEF PickReplica, FallBack
    <3> QED
      BY <1>1, <2>2, <3>1 DEF BackendOk, Choices, HasBackend, SameAddresses
  <2> QED
    BY <1>3, <1>6, <2>1, <2>2 DEF PickReplica
<1>7. CASE Dial(c)
  <2>1. CASE /\ conn' = [conn EXCEPT ![c] = IF Routed(c) THEN "pickReplica" ELSE "open"]
             /\ UNCHANGED <<to, replica, offered, via>>
    BY <1>1, <1>7, <2>1 DEF Dial, BackendOk, Choices, HasBackend, SameAddresses
  <2> QED
    BY <1>3, <1>7, <2>1 DEF Dial
<1>8. CASE RefreshReturns(c)
  BY <1>1, <1>2, <1>8, SMTT(20)
     DEF RefreshReturns, AfterRefresh, BackendOk, Choices, HasBackend, SameAddresses
<1>9. CASE PickReplicaForRouting(c)
  <2>1. /\ HasBackend(c) /\ HasBackend(c)' /\ conn'[c] \notin {"pick", "fallBack"}
        /\ UNCHANGED <<to, via, offered>>
    BY <1>9 DEF PickReplicaForRouting, HasBackend, histVars
  <2>2. replica'[c] \in wasSlave \cup {NoAddr}
    BY <1>1, <1>9, PickIsReplica, SMTT(20)
       DEF PickReplicaForRouting, BackendOk, PublishedInv, Service!ReplicaAddress
  <2> QED
    BY <1>1, <2>1, <2>2 DEF BackendOk, Choices, SameAddresses
<1>10. CASE RefreshForRouting(c) \/ DialReplicaForRouting(c)
  <2>1. /\ HasBackend(c) /\ HasBackend(c)' /\ conn'[c] \notin {"pick", "fallBack"}
        /\ UNCHANGED <<to, via, offered>> /\ replica'[c] \in {replica[c], NoAddr}
    BY <1>10 DEF RefreshForRouting, DialReplicaForRouting, AfterReplicaDial, HasBackend,
                 histVars
  <2> QED
    BY <1>1, <2>1 DEF BackendOk, Choices, SameAddresses
<1>11. CASE Release(c)
  <2>1. WithoutBackend(c)
    BY <1>11 DEF Release, WithoutBackend
  <2> QED
    BY <1>1, <2>1, BackendKept
<1>12. CASE SessionEnds(c)
  BY <1>3, <1>12 DEF SessionEnds
<1> QED
  BY <1>4, <1>5, <1>6, <1>7, <1>8, <1>9, <1>10, <1>11, <1>12, ZenonT(30) DEF Handler

\* Every step leaves every client with a backend its endpoint stood for.
LEMMA BackendStep == TypeInv /\ BackendInv /\ [Next]_vars => BackendInv'
<1> SUFFICES ASSUME TypeInv, BackendInv, [Next]_vars PROVE BackendInv'
  OBVIOUS
<1> USE HandlerTypes
<1> DEFINE Quiet == SameAddresses /\ \A c \in Client : Untouched(c) \/ WithoutBackend(c)
<1>1. CASE SameAddresses /\ \A c \in Client : BackendOk(c)'
  BY <1>1 DEF BackendInv, PublishedInv, SameAddresses
<1>2. CASE Quiet
  BY <1>1, <1>2, BackendKept, Zenon DEF BackendInv
<1>3. ASSUME NEW e \in {"master", "replica"}, Listen(e) PROVE Quiet
  BY <1>3 DEF Listen, CloseListeners, SameAddresses, Untouched, WithoutBackend,
              serviceVars, histVars
<1>4. ASSUME NEW e \in Endpoint, CloseByContext(e) PROVE Quiet
  BY <1>4 DEF CloseByContext, CloseListeners, SameAddresses, Untouched, WithoutBackend,
              serviceVars, histVars
<1>5. ASSUME NEW e \in Endpoint, AcceptLoop(e) PROVE Quiet
  <2>1. ASSUME NEW c \in Client, Accept(e, c) PROVE Quiet
    BY <2>1 DEF Accept, SameAddresses, Untouched, WithoutBackend, serviceVars, histVars
  <2> QED
    BY <1>5, <2>1 DEF AcceptLoop, LoopCheck, AcceptFails, SameAddresses, Untouched,
                      serviceVars, connVars, histVars
<1>6. ASSUME NEW c \in Client, Handler(c) \/ SessionEnds(c) PROVE BackendInv'
  BY <1>1, <1>6, BackendOwn, BackendOthers, BackendKept, Zenon DEF BackendInv
<1>7. ASSUME NEW c \in Client, NEW e \in Endpoint, Connect(c, e) PROVE Quiet
  BY <1>7 DEF Connect, SameAddresses, Untouched, WithoutBackend, serviceVars, histVars
<1>8. CASE UNCHANGED vars \/ RunReturns \/ (\E S \in SUBSET Node : NodesChange(S))
           \/ Signal \/ GroupCancels
  <2>1. Quiet
    BY <1>8, ZenonT(30)
       DEF vars, RunReturns, NodesChange, Signal, GroupCancels, SameAddresses, Untouched,
           serviceVars, connVars, histVars
  <2> QED
    BY <1>2, <2>1, SMTT(20)
<1> QED
  <2> HIDE DEF Quiet
  <2> QED
    BY <1>2, <1>3, <1>4, <1>5, <1>6, <1>7, <1>8, BackendResolve, ZenonT(30) DEF Next

(***************************************************************************)
(* The listeners.                                                          *)
(***************************************************************************)
\* A backlog exists only as long as its listener does.
ListenInv ==
  /\ runPc = "returned" => \A e \in Endpoint : listener[e] # "open"
  /\ \A c \in Client : conn[c] = "pending" => listener[via[c]] = "open"

\* Every step keeps a client in the backlog of an open listener, and Run leaves
\* none open.
LEMMA ListenStep == TypeInv /\ ListenInv /\ [Next]_vars => ListenInv'
<1> SUFFICES ASSUME TypeInv, ListenInv, [Next]_vars PROVE ListenInv'
  OBVIOUS
<1> USE HandlerTypes DEF ListenInv
<1>1. CASE UNCHANGED <<conn, via, listener, runPc>>
  BY <1>1
<1>2. ASSUME NEW e \in {"master", "replica"}, Listen(e) PROVE ListenInv'
  <2>1. CASE CloseListeners(Endpoint) /\ UNCHANGED via
    <3>1. \A x \in Endpoint : listener'[x] # "open"
      BY <2>1 DEF CloseListeners
    <3>2. \A c \in Client : conn'[c] # "pending"
      BY <2>1 DEF CloseListeners
    <3> QED
      BY <3>1, <3>2, Zenon
  <2>2. CASE /\ runPc' = AfterListen(e) /\ UNCHANGED <<conn, via>>
             /\ \/ UNCHANGED listener
                \/ listener' = [listener EXCEPT ![e] = "open"]
    BY <2>2 DEF AfterListen
  <2> QED
    BY <1>2, <2>1, <2>2 DEF Listen, ClosedOnError
<1>3. ASSUME NEW e \in Endpoint, CloseByContext(e) PROVE ListenInv'
  BY <1>3 DEF CloseByContext, CloseListeners
<1>4. ASSUME NEW e \in Endpoint, AcceptLoop(e) PROVE ListenInv'
  <2>1. ASSUME NEW c \in Client, Accept(e, c) PROVE ListenInv'
    BY <2>1 DEF Accept
  <2> QED
    BY <1>1, <1>4, <2>1 DEF AcceptLoop, LoopCheck, AcceptFails, connVars
<1>5. CASE RunReturns
  BY <1>5 DEF RunReturns, connVars
<1>6. ASSUME NEW c \in Client, Handler(c) \/ SessionEnds(c) PROVE ListenInv'
  <2>1. CASE Release(c)
    BY <2>1 DEF Release, runVars
  <2>2. CASE ~Release(c)
    BY <1>6, <2>2, StaysAdmitted DEF ConnState
  <2> QED
    BY <2>1, <2>2
<1>7. ASSUME NEW c \in Client, NEW e \in Endpoint, Connect(c, e) PROVE ListenInv'
  BY <1>7, SMTT(20) DEF Connect, runVars
<1>8. CASE UNCHANGED vars \/ (\E S \in SUBSET Node : NodesChange(S))
           \/ Resolve \/ Signal \/ GroupCancels
  BY <1>1, <1>8 DEF vars, NodesChange, Resolve, Signal, GroupCancels, connVars, runVars
<1> QED
  BY <1>2, <1>3, <1>4, <1>5, <1>6, <1>7, <1>8, Zenon DEF Next

(***************************************************************************)
(* The second attempt.                                                     *)
(***************************************************************************)
\* A client in steady is at its second attempt or already turned away, the
\* published master is reachable, and if a master was picked it is that one.
SteadyInv ==
  \A c \in steady :
    /\ master \in up
    /\ conn[c] \in {"pick", "fallBack", "dial", "closing"}
    /\ conn[c] \in {"pick", "fallBack", "dial"} => retried[c]
    /\ conn[c] = "dial" /\ via[c] = "master" => to[c] = master

\* Every step keeps this.
LEMMA SteadyStep == TypeInv /\ SteadyInv /\ [Next]_vars => SteadyInv'
<1> SUFFICES ASSUME TypeInv, SteadyInv, [Next]_vars PROVE SteadyInv'
  OBVIOUS
<1> USE HandlerTypes DEF SteadyInv, histVars
<1>1. CASE UNCHANGED <<steady, master, up, conn, retried, via, to>>
  BY <1>1
<1>2. ASSUME NEW e \in {"master", "replica"}, Listen(e) PROVE SteadyInv'
  BY <1>2 DEF Listen, CloseListeners, serviceVars
<1>3. ASSUME NEW e \in Endpoint, CloseByContext(e) PROVE SteadyInv'
  BY <1>3 DEF CloseByContext, CloseListeners, serviceVars
<1>4. ASSUME NEW e \in Endpoint, AcceptLoop(e) PROVE SteadyInv'
  <2>1. ASSUME NEW c \in Client, Accept(e, c) PROVE SteadyInv'
    BY <2>1 DEF Accept, serviceVars
  <2> QED
    BY <1>1, <1>4, <2>1 DEF AcceptLoop, LoopCheck, AcceptFails, connVars, serviceVars
<1>5. ASSUME NEW c \in Client, Handler(c) PROVE SteadyInv'
  <2>1. CASE Handshake(c)
    BY <2>1 DEF Handshake, Hangup, serviceVars
  <2>2. CASE PickMaster(c) \/ PickFallback(c)
    BY <2>2, SMTT(20) DEF PickMaster, PickFallback, Given, serviceVars
  <2>3. CASE PickReplica(c)
    <3>1. UNCHANGED <<master, up, via, steady>> /\ via[c] = "replica"
      BY <2>3 DEF PickReplica, serviceVars, Service!ReplicaAddress
    <3>2. CASE AttemptFails(c)
      BY <2>3, <3>1, <3>2 DEF PickReplica, AttemptFails, LastAttempt, Hangup
    <3>3. CASE \E a : Given(c, a)
      <4>1. PICK a : Given(c, a)
        BY <3>3
      <4>2. /\ conn' = [conn EXCEPT ![c] = "dial"] /\ retried' = retried
            /\ to' = [to EXCEPT ![c] = a]
        BY <4>1 DEF Given
      <4> QED
        BY <2>3, <3>1, <4>2 DEF PickReplica
    <3>4. CASE FallBack(c)
      BY <2>3, <3>1, <3>4 DEF PickReplica, FallBack
    <3> QED
      BY <2>3, <3>2, <3>3, <3>4, Zenon DEF PickReplica
  <2>4. CASE Dial(c)
    BY <2>4 DEF Dial, AttemptFails, LastAttempt, Hangup, serviceVars
  <2>5. CASE RefreshReturns(c)
    BY <2>5 DEF RefreshReturns, AfterRefresh, serviceVars
  <2>6. CASE PickReplicaForRouting(c)
    BY <2>6 DEF PickReplicaForRouting, serviceVars, Service!ReplicaAddress
  <2>7. CASE RefreshForRouting(c) \/ DialReplicaForRouting(c)
    BY <2>7 DEF RefreshForRouting, DialReplicaForRouting, serviceVars
  <2>8. CASE Release(c)
    BY <2>8 DEF Release, serviceVars
  <2> QED
    BY <1>5, <2>1, <2>2, <2>3, <2>4, <2>5, <2>6, <2>7, <2>8, ZenonT(30) DEF Handler
<1>6. ASSUME NEW c \in Client, SessionEnds(c) PROVE SteadyInv'
  BY <1>6 DEF SessionEnds, Hangup, serviceVars
<1>7. ASSUME NEW c \in Client, NEW e \in Endpoint, Connect(c, e) PROVE SteadyInv'
  BY <1>7 DEF Connect, serviceVars
<1>8. ASSUME NEW S \in SUBSET Node, NodesChange(S) PROVE SteadyInv'
  BY <1>8 DEF NodesChange, serviceVars, connVars
<1>9. CASE Resolve
  BY <1>9, SMTT(20) DEF Resolve, connVars
<1>10. CASE UNCHANGED vars \/ RunReturns \/ Signal \/ GroupCancels
  BY <1>1, <1>10 DEF vars, RunReturns, Signal, GroupCancels, connVars, serviceVars
<1> QED
  BY <1>2, <1>3, <1>4, <1>5, <1>6, <1>7, <1>8, <1>9, <1>10, ZenonT(30) DEF Next

(***************************************************************************)
(* The theorems.                                                           *)
(***************************************************************************)
ProxyInv == TypeInv /\ SlotsCounted /\ BackendInv /\ ListenInv /\ SteadyInv

\* The inductive invariant holds initially.
LEMMA ProxyInit == Init => ProxyInv
<1> SUFFICES ASSUME Init PROVE ProxyInv
  OBVIOUS
<1>1. TypeInv
  BY TypeInit
<1>2. SlotsCounted
  <2>1. {c \in Client : Admitted(c)} = {}
    BY DEF Init, Admitted
  <2> QED
    BY <2>1, FS_EmptySet, SMTT(20) DEF Init, SlotsCounted, Limited
<1>3. BackendInv
  BY DEF Init, Service!Init, BackendInv, PublishedInv, BackendOk, Choices, HasBackend
<1>4. ListenInv /\ SteadyInv
  BY DEF Init, ListenInv, SteadyInv
<1> QED
  BY <1>1, <1>2, <1>3, <1>4 DEF ProxyInv

\* And every step keeps it.
LEMMA ProxyStep == ProxyInv /\ [Next]_vars => ProxyInv'
BY TypeStep, SlotsStep, BackendStep, ListenStep, SteadyStep DEF ProxyInv

\* In every behaviour of the proxy the inductive invariant holds.
THEOREM ProxyInvariant == Spec => []ProxyInv
BY ProxyInit, ProxyStep, PTL DEF Spec

\* The semaphore of runListenLoop counts the handlers exactly and stays within
\* the limit, however many clients connect on both endpoints at once.
THEOREM LimitKept == Spec => []SlotsCounted
<1>1. ProxyInv => SlotsCounted
  BY DEF ProxyInv
<1> QED
  BY <1>1, ProxyInvariant, PTL

\* connectBackend never leads a client to an address other than one its endpoint
\* stood for after its last refresh, whatever is published between the steps of how
\* many handlers: no address is kept over a refresh, the master is no stand-in for
\* replicas that were published all the time, nor ever under reject.
THEOREM BackendOfEndpoint == Spec => []RightBackend
<1>1. ProxyInv => RightBackend
  BY Zenon DEF ProxyInv, BackendInv, BackendOk, RightBackend
<1> QED
  BY <1>1, ProxyInvariant, PTL

\* When Run has returned, all its listeners are closed and their backlogs gone.
THEOREM ListenersClosed == Spec => []NothingListensAfterRun
<1>1. ProxyInv => NothingListensAfterRun
  BY Zenon DEF ProxyInv, TypeInv, TypeOK, ListenInv, NothingListensAfterRun
<1> QED
  BY <1>1, ProxyInvariant, PTL

\* connectBackend's retry is worth something: after a refresh that left a
\* reachable master published, its second attempt is not the one that fails.
THEOREM RetrySurvives == Spec => SurvivesFailover
<1>1. ProxyInv /\ [Next]_vars =>
        [\A c \in steady : via[c] = "master" /\ conn[c] \in {"pick", "dial"} =>
           conn'[c] # "closing"]_vars
  <2> SUFFICES ASSUME ProxyInv, Next, NEW c \in steady, via[c] = "master",
                      conn[c] \in {"pick", "dial"}
               PROVE  conn'[c] # "closing"
    OBVIOUS
  <2> TypeInv /\ SteadyInv
    BY DEF ProxyInv
  <2> USE HandlerTypes DEF SteadyInv
  <2>1. CASE UNCHANGED conn
    BY <2>1
  <2>2. ASSUME NEW e \in {"master", "replica"}, Listen(e) PROVE conn'[c] # "closing"
    BY <2>2, SMTT(20) DEF Listen, CloseListeners
  <2>3. ASSUME NEW e \in Endpoint, CloseByContext(e) \/ AcceptLoop(e)
        PROVE  conn'[c] # "closing"
    <3>1. CASE CloseByContext(e)
      BY <3>1 DEF CloseByContext, CloseListeners
    <3>2. ASSUME NEW x \in Client, Accept(e, x) PROVE conn'[c] = conn[c]
      BY <3>2, SMTT(20) DEF Accept
    <3> QED
      BY <2>1, <2>3, <3>1, <3>2 DEF AcceptLoop, LoopCheck, AcceptFails, connVars
  <2>4. ASSUME NEW x \in Client, Handler(x) PROVE conn'[c] # "closing"
    <3>1. CASE x # c
      BY <2>4, <3>1, OthersUntouched, SMTT(20)
    <3>2. CASE x = c
      BY <2>4, <3>2, ZenonT(30)
         DEF Handler, Handshake, PickMaster, Given, PickReplica, PickFallback, Dial, Reached,
             RefreshReturns, PickReplicaForRouting, RefreshForRouting, DialReplicaForRouting, Release
    <3> QED
      BY <3>1, <3>2, ZenonT(30)
  <2>5. ASSUME NEW x \in Client, SessionEnds(x) PROVE conn'[c] # "closing"
    BY <2>5 DEF SessionEnds, Hangup
  <2>6. ASSUME NEW x \in Client, NEW e \in Endpoint, Connect(x, e)
        PROVE  conn'[c] # "closing"
    BY <2>6, SMTT(20) DEF Connect
  <2>7. CASE RunReturns \/ (\E S \in SUBSET Node : NodesChange(S))
             \/ Resolve \/ Signal \/ GroupCancels
    BY <2>1, <2>7 DEF RunReturns, NodesChange, Resolve, Signal, GroupCancels, connVars
  <2> QED
    BY <2>2, <2>3, <2>4, <2>5, <2>6, <2>7 DEF Next
<1> QED
  BY <1>1, ProxyInvariant, PTL DEF Spec, SurvivesFailover

\* dialReplicaForRouting never costs a routed client its session.
THEOREM ReplicaOptional == Spec => DegradesToMaster
<1>1. ProxyInv /\ [Next]_vars =>
        [\A c \in Client : conn[c] \in {"pickReplica", "refreshReplica", "dialReplica"} =>
           conn'[c] \notin {"closing", "away"}]_vars
  <2> SUFFICES ASSUME ProxyInv, Next, NEW c \in Client,
                      conn[c] \in {"pickReplica", "refreshReplica", "dialReplica"}
               PROVE  conn'[c] \notin {"closing", "away"}
    OBVIOUS
  <2> TypeInv
    BY DEF ProxyInv
  <2> USE HandlerTypes
  <2>1. CASE UNCHANGED conn
    BY <2>1
  <2>2. ASSUME NEW e \in {"master", "replica"}, Listen(e)
        PROVE  conn'[c] \notin {"closing", "away"}
    BY <2>2 DEF Listen, CloseListeners
  <2>3. ASSUME NEW e \in Endpoint, CloseByContext(e) \/ AcceptLoop(e)
        PROVE  conn'[c] \notin {"closing", "away"}
    <3>1. CASE CloseByContext(e)
      BY <3>1 DEF CloseByContext, CloseListeners
    <3>2. ASSUME NEW x \in Client, Accept(e, x) PROVE conn'[c] = conn[c]
      BY <3>2 DEF Accept
    <3> QED
      BY <2>1, <2>3, <3>1, <3>2 DEF AcceptLoop, LoopCheck, AcceptFails, connVars
  <2>4. ASSUME NEW x \in Client, Handler(x) PROVE conn'[c] \notin {"closing", "away"}
    <3>1. CASE x # c
      BY <2>4, <3>1, OthersUntouched, SMTT(20)
    <3>2. CASE x = c
      BY <2>4, <3>2
         DEF Handler, Handshake, PickMaster, PickReplica, PickFallback, Dial,
             RefreshReturns, Release, PickReplicaForRouting, RefreshForRouting, DialReplicaForRouting,
             AfterReplicaDial
    <3> QED
      BY <3>1, <3>2
  <2>5. ASSUME NEW x \in Client, SessionEnds(x) PROVE conn'[c] \notin {"closing", "away"}
    BY <2>5 DEF SessionEnds, Hangup
  <2>6. ASSUME NEW x \in Client, NEW e \in Endpoint, Connect(x, e)
        PROVE  conn'[c] \notin {"closing", "away"}
    BY <2>6 DEF Connect
  <2>7. CASE RunReturns \/ (\E S \in SUBSET Node : NodesChange(S))
             \/ Resolve \/ Signal \/ GroupCancels
    BY <2>1, <2>7 DEF RunReturns, NodesChange, Resolve, Signal, GroupCancels, connVars
  <2> QED
    BY <2>2, <2>3, <2>4, <2>5, <2>6, <2>7, ZenonT(30) DEF Next
<1> QED
  BY <1>1, ProxyInvariant, PTL DEF Spec, DegradesToMaster

=============================================================================
