--------------------------- MODULE AddressService ---------------------------
(***************************************************************************)
(* What the resolver promises to the proxy: the interfaces MasterResolver, *)
(* ReplicaResolver and addressRefresher of src/pkg/proxy/proxy.go.  How    *)
(* addresses are found (goroutines, probes, retries) is left open; Resolver*)
(* implements this specification.                                          *)
(*                                                                         *)
(* The master and the replicas are published in separate steps, so a       *)
(* reader may see a new master next to an old replica list.                *)
(***************************************************************************)
EXTENDS Integers, FiniteSets

CONSTANTS
  Node,        \* addresses of the redis nodes
  AddrRank,    \* their order as strings
  NoAddr,      \* the empty address
  IdxModulus   \* range of the round-robin ticket

VARIABLES
  wasMaster, wasSlave,  \* nodes that have been seen in that role so far
  status,               \* "starting" (readers block), "serving", or how the loop ended
  master, replicas,     \* what is published; replicas is kept sorted
  idx                   \* the round-robin ticket

serviceVars == <<wasMaster, wasSlave, status, master, replicas, idx>>

Init ==
  /\ wasMaster \in SUBSET Node /\ wasSlave \in SUBSET Node
  /\ status = "starting" /\ master = NoAddr /\ replicas = {} /\ idx = 0

\* The update loop has returned: nil ("stopped") or an error ("failed").
Ended == {"stopped", "failed"}

LoopEnds ==
  /\ status \notin Ended /\ status' \in Ended
  /\ status' = "stopped" => master' # NoAddr

\* A status is left at most once; only a failed start is without a master.
StatusStep ==
  \/ status' = status
  \/ status = "starting" /\ status' = "serving" /\ master' # NoAddr
  \/ LoopEnds

GroupChanges ==
  /\ \E M, S \in SUBSET Node :
       wasMaster' = wasMaster \cup M /\ wasSlave' = wasSlave \cup S
  /\ UNCHANGED <<status, master, replicas, idx>>

PublishMaster ==
  /\ master' \in wasMaster
  /\ StatusStep
  /\ UNCHANGED <<wasMaster, wasSlave, replicas, idx>>

PublishReplicas ==
  /\ master # NoAddr
  /\ replicas' \in SUBSET wasSlave
  /\ UNCHANGED master
  /\ StatusStep
  /\ UNCHANGED <<wasMaster, wasSlave, idx>>

Stop ==
  /\ UNCHANGED <<wasMaster, wasSlave, master, replicas, idx>>
  /\ LoopEnds

\* The i-th address (from 0) of the sorted replica list.
Ranked(list, i) ==
  CHOOSE n \in list : Cardinality({m \in list : AddrRank[m] < AddrRank[n]}) = i

PickOffByOne(ticket) ==
  LET k == Cardinality(replicas)
  IN  Ranked(replicas, IF k = 1 THEN 0 ELSE ticket % (k - 1))

\* The replica that the call with this ticket is given.
Pick(ticket) == Ranked(replicas, ticket % Cardinality(replicas))

\* A successful ReplicaAddress; reading the master changes nothing.
ReplicaAddress ==
  /\ status # "starting" /\ replicas # {}
  /\ idx' = (idx + 1) % IdxModulus
  /\ UNCHANGED <<wasMaster, wasSlave, status, master, replicas>>

Next ==
  GroupChanges \/ PublishMaster \/ PublishReplicas \/ Stop \/ ReplicaAddress

Spec == Init /\ [][Next]_serviceVars

-----------------------------------------------------------------------------
\* Round robin: while the list stays as it is, the next calls (as many as there
\* are replicas, from whichever connections) are given every replica once.  When
\* the ticket wraps within these calls this takes a list that divides its range.
RotationFair ==
  LET k == Cardinality(replicas)
  IN  replicas # {} /\ (idx + k <= IdxModulus \/ IdxModulus % k = 0) =>
        \A n \in replicas : \E i \in 0 .. k - 1 : Pick((idx + i) % IdxModulus) = n
=============================================================================
