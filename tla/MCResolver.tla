----------------------------- MODULE MCResolver -----------------------------
(* Instances of Resolver for TLC. *)
EXTENDS Resolver, TLC

CONSTANTS n1, n2, n3, c1, c2

Nodes2 == {n1, n2}
Nodes3 == {n1, n2, n3}
Rank2 == n1 :> 1 @@ n2 :> 2
Rank3 == n1 :> 1 @@ n2 :> 2 @@ n3 :> 3
Callers0 == {}
Callers1 == {c1}
Callers2 == {c1, c2}
MinusOne == -1

\* everMaster and everSlave are history: no action reads them.  Runs whose
\* properties do not mention them start with both full.
FullInit == Init /\ everMaster = Node /\ everSlave = Node
NoHistorySpec == FullInit /\ [][Next]_vars
ShortInit ==
  /\ Init
  /\ everMaster = {n \in Node : role[n] = "master"}
  /\ everSlave = {n \in Node : role[n] = "slave"}
ShortHistorySpec == ShortInit /\ [][Next]_vars
Unsettled == ~calm /\ ~ctxDone
LiveSpec == FullInit /\ [][Next]_vars /\ CodeFairness /\ Recovery

CallerSymmetry == Permutations({c1, c2})
=============================================================================
