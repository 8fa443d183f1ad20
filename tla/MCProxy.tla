------------------------------- MODULE MCProxy ------------------------------
(* Instances of Proxy for TLC. *)
EXTENDS Proxy, TLC

CONSTANTS n1, n2, c1, c2, c3

Nodes1 == {n1}
Nodes2 == {n1, n2}
Rank1 == n1 :> 1
Rank2 == n1 :> 1 @@ n2 :> 2
Clients1 == {c1}
Clients3 == {c1, c2, c3}
Both == {"master", "replica"}

\* No action of the proxy reads wasMaster or wasSlave, and AddressService only
\* adds to them: what they start with is what can be published.
FullInit == Init /\ wasMaster = Node /\ wasSlave = Node
SafetySpec == FullInit /\ [][Next]_vars
FailoverInit == Init /\ wasMaster = Node /\ wasSlave = {n2}
FailoverSpec == FailoverInit /\ [][Next]_vars /\ Fairness

ClientSymmetry == Permutations(Client)
=============================================================================
