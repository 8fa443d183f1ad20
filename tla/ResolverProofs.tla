--------------------------- MODULE ResolverProofs ---------------------------
(***************************************************************************)
(* Proofs about Resolver for every set of nodes and callers and every      *)
(* configuration.                                                          *)
(***************************************************************************)
EXTENDS Resolver, TLAPS

USE NodeAssumption, GoroutineAssumption, ConfigAssumption

(***************************************************************************)
(* Lemmas about the helpers.                                               *)
(***************************************************************************)

\* usableTCPAddr returns an error or the address of a node: neither the empty
\* host nor the placeholder gets through.
LEMMA UsableIsNode ==
  \A h \in Host, p \in Port : usableTCPAddr(h, p) \in Node \cup Error
BY DEF usableTCPAddr, Host, Port, Error, Unspecified

\* The same for the whole reply of sentinel.
LEMMA ReportedIsNode ==
  \A reply \in MasterReply : ReportedMaster(reply) \in Node \cup Error
BY UsableIsNode DEF MasterReply, ReportedMaster, Error

\* The backoff is between one second and the cap.
LEMMA BackoffBounds ==
  \A n \in Nat : /\ ResolveFailureBackoff(n) \in Nat
                 /\ 1 <= ResolveFailureBackoff(n)
                 /\ ResolveFailureBackoff(n) <= ResolveFailureBackoffCap
<1> SUFFICES ASSUME NEW n \in Nat
             PROVE  ResolveFailureBackoff(n) \in 1 .. 30
  BY DEF ResolveFailureBackoffCap
<1>1. CASE n < 1 \/ n > 5
  BY <1>1 DEF ResolveFailureBackoff, ResolveFailureBackoffCap
<1>2. CASE n \in 1 .. 5
  <2>1. n - 1 \in {0, 1, 2, 3, 4}
    BY <1>2
  <2>2. 2 ^ 0 = 1 /\ 2 ^ 1 = 2 /\ 2 ^ 2 = 4 /\ 2 ^ 3 = 8 /\ 2 ^ 4 = 16
    OBVIOUS
  <2>3. 2 ^ (n - 1) \in {1, 2, 4, 8, 16}
    BY <2>1, <2>2, Zenon
  <2> QED
    BY <1>2, <2>3 DEF ResolveFailureBackoff, ResolveFailureBackoffCap, Lesser
<1> QED
  BY <1>1, <1>2

(***************************************************************************)
(* Type correctness.                                                       *)
(***************************************************************************)
LEMMA InitTypeOK == Init => TypeOK
<1> SUFFICES ASSUME Init PROVE TypeOK
  OBVIOUS
<1>1. /\ calm \in BOOLEAN /\ ctxDone \in BOOLEAN /\ resolved \in BOOLEAN
      /\ sentinelClosed \in BOOLEAN /\ throttled \in BOOLEAN
  BY Zenon DEF Init
<1>2. replicaIdx \in 0 .. IdxModulus - 1
  BY DEF Init
<1>3. /\ step \in [Thread -> {"idle", "ask", "probe", "set", "list", "vet"}]
      /\ cand \in [Thread -> Addr \cup {NoAddr}]
      /\ todo \in [Thread -> SUBSET Node] /\ reps \in [Thread -> SUBSET Node]
      /\ call \in [Caller -> {"idle", "lock", "resolving"}]
  BY DEF Init
<1>4. /\ everMaster \subseteq Node /\ everSlave \subseteq Node
      /\ elected \in Node /\ role \in [Node -> {"master", "slave", "down"}]
      /\ replicaAddrs \subseteq Node
  BY DEF Init
<1> QED
  BY <1>1, <1>2, <1>3, <1>4
     DEF Init, TypeOK, Thread, Addr, Unlocked, Error

\* The return of a resolve, in either kind of goroutine, keeps the types.
LEMMA FinishTypeOK ==
  ASSUME TypeOK, NEW t \in Thread, NEW e \in Error \cup {"none"}, Finish(t, e)
  PROVE  /\ step' \in [Thread -> {"idle", "ask", "probe", "set", "list", "vet"}]
         /\ refreshLock' \in Thread
         /\ call' \in [Caller -> {"idle", "lock", "resolving"}]
         /\ loopPc' \in {"initial", "initialWait", "tick", "update", "wait",
                         "returning", "returned"}
         /\ errCount' \in Nat /\ wait' \in Nat /\ waited' \in Nat
         /\ failsSinceOk' \in Nat
         /\ err' \in Error \cup {"none"}
         /\ resolved' \in BOOLEAN /\ sentinelClosed' \in BOOLEAN
<1>1. failsSinceOk' \in Nat /\ refreshLock' \in Thread
  BY DEF Finish, AfterUnlock, TypeOK, Thread, Unlocked
<1>2. step' \in [Thread -> {"idle", "ask", "probe", "set", "list", "vet"}]
  BY DEF Finish, AfterUnlock, TypeOK
<1>3. CASE t \in Caller
  BY <1>1, <1>2, <1>3 DEF Finish, AfterUnlock, TypeOK, loopVars, Thread, Unlocked
<1>4. CASE t = Loop
  <2>1. call' = call /\ (InitialResult(e) \/ UpdateResult(e))
    BY <1>4 DEF Finish, AfterUnlock
  <2>2. CASE InitialResult(e)
    <3>1. resolved' \in BOOLEAN /\ sentinelClosed' \in BOOLEAN
      BY <2>2, Zenon DEF InitialResult, LatchAfterFailure, TypeOK
    <3>2. /\ errCount' \in Nat /\ wait' \in Nat /\ waited' \in Nat
          /\ err' \in Error \cup {"none"}
      BY <2>2, BackoffBounds
         DEF InitialResult, LatchAfterFailure, CountsAgainstBudget, TypeOK, SentinelNotReadyBackoff
    <3>3. loopPc' \in {"tick", "returning", "initialWait"}
      BY <2>2 DEF InitialResult, LatchAfterFailure, LoopHead
    <3> QED
      BY <1>1, <1>2, <2>1, <3>1, <3>2, <3>3 DEF TypeOK
  <2>3. CASE UpdateResult(e)
    BY <1>1, <1>2, <2>1, <2>3, BackoffBounds
       DEF UpdateResult, CountsAgainstBudget, LoopHead,
           TypeOK, SentinelNotReadyBackoff
  <2> QED
    BY <2>1, <2>2, <2>3
<1> QED
  BY <1>3, <1>4 DEF Thread

\* Every step of the resolver keeps the types.
LEMMA NextTypeOK == TypeOK /\ [Next]_vars => TypeOK'
<1> SUFFICES ASSUME TypeOK, [Next]_vars PROVE TypeOK'
  OBVIOUS
<1> USE DEF envVars, addrVars, lockVars, loopVars, updateVars
<1>1. ASSUME NEW t \in Thread, AskMaster(t) PROVE TypeOK'
  <2> PICK reply \in MasterReplies :
         LET a == ReportedMaster(reply)
         IN  \/ /\ a \in Error
                /\ Finish(t, a)
                /\ UNCHANGED cand
             \/ /\ a \notin Error
                /\ cand' = [cand EXCEPT ![t] = a]
                /\ step' = [step EXCEPT ![t] = "probe"]
                /\ UNCHANGED <<refreshLock, call, failsSinceOk, loopVars>>
    BY <1>1 DEF AskMaster
  <2>1. reply \in MasterReply
    BY DEF MasterReplies
  <2>2. ReportedMaster(reply) \in Node \cup Error
    BY <2>1, ReportedIsNode
  <2>3. CASE ReportedMaster(reply) \in Error
    BY <1>1, <2>3, FinishTypeOK, SMTT(30) DEF AskMaster, TypeOK
  <2>4. CASE ReportedMaster(reply) \notin Error
    BY <1>1, <2>2, <2>4 DEF AskMaster, TypeOK, Addr
  <2> QED
    BY <2>3, <2>4
<1>2. ASSUME NEW t \in Thread, ProbeMaster(t) PROVE TypeOK'
  <2>1. CASE Finish(t, "hard")
    BY <1>2, <2>1, FinishTypeOK, Zenon DEF ProbeMaster, TypeOK, Error
  <2>2. CASE /\ step' = [step EXCEPT ![t] = "set"]
             /\ UNCHANGED <<refreshLock, call, failsSinceOk, loopVars, cand>>
    BY <1>2, <2>2, SMTT(30) DEF ProbeMaster, TypeOK
  <2> QED
    BY <1>2, <2>1, <2>2, Zenon DEF ProbeMaster
<1>3. ASSUME NEW t \in Thread, setMasterAddress(t) PROVE TypeOK'
  <2>1. masterAddr' \in Addr \cup {NoAddr} /\ cand' \in [Thread -> Addr \cup {NoAddr}]
    BY <1>3 DEF setMasterAddress, PublishedMaster, TypeOK
  <2>2. CASE TrackReplicas
    BY <1>3, <2>1, <2>2 DEF setMasterAddress, PublishedMaster, TypeOK
  <2>3. CASE ~TrackReplicas
    BY <1>3, <2>1, <2>3, FinishTypeOK DEF setMasterAddress, PublishedMaster, TypeOK
  <2> QED
    BY <2>2, <2>3
<1>4. ASSUME NEW t \in Thread, ListReplicas(t) PROVE TypeOK'
  BY <1>4 DEF ListReplicas, TypeOK
<1>5. ASSUME NEW t \in Thread, VetReplica(t) PROVE TypeOK'
  BY <1>5 DEF VetReplica, TypeOK
<1>6. ASSUME NEW t \in Thread, setReplicaAddresses(t) PROVE TypeOK'
  <2>1. replicaAddrs' \subseteq Node /\ reps' \in [Thread -> SUBSET Node]
    BY <1>6 DEF setReplicaAddresses, TypeOK
  <2> QED
    BY <1>6, <2>1, FinishTypeOK DEF setReplicaAddresses, TypeOK
<1>7. CASE LoopTick
  BY <1>7 DEF LoopTick, TypeOK, Thread
<1>8. CASE LoopWaited
  BY <1>8 DEF LoopWaited, LoopHead, TypeOK
<1>9. CASE InitialWaited
  BY <1>9 DEF InitialWaited, TypeOK, Thread
<1>10. CASE LoopSeesDone
  BY <1>10 DEF LoopSeesDone, Interruptible, ErrWhenDone, TypeOK
<1>11. CASE CloseSentinel
  BY <1>11 DEF CloseSentinel, ReturnedErr, TypeOK
<1>12. ASSUME NEW t \in Caller, RefreshAddresses(t) PROVE TypeOK'
  BY <1>12 DEF RefreshAddresses, TypeOK
<1>13. ASSUME NEW t \in Caller, AcquireRefreshLock(t) PROVE TypeOK'
  <2>1. CASE throttled
    BY <1>13, <2>1, SMTT(30) DEF AcquireRefreshLock, LockFree, TypeOK
  <2>2. CASE ~throttled
    <3>1. throttled' \in BOOLEAN
      BY <1>13, <2>2, Zenon DEF AcquireRefreshLock, LockFree
    <3>2. /\ step' = [step EXCEPT ![t] = "ask"] /\ refreshLock' = t
          /\ call' = [call EXCEPT ![t] = "resolving"]
      BY <1>13, <2>2 DEF AcquireRefreshLock, LockFree
    <3>3. t \in Thread
      BY DEF Thread
    <3> QED
      BY <1>13, <3>1, <3>2, <3>3, SMTT(30) DEF AcquireRefreshLock, LockFree, TypeOK
  <2> QED
    BY <2>1, <2>2
<1>14. CASE ThrottleElapses
  BY <1>14, ZenonT(30) DEF ThrottleElapses, TypeOK
<1>15. CASE ReplicaAddress
  <2>1. replicaIdx' \in 0 .. IdxModulus - 1
    BY <1>15 DEF ReplicaAddress, NextTicket, TypeOK
  <2> QED
    BY <1>15, <2>1 DEF ReplicaAddress, NextTicket, TypeOK
<1>16. ASSUME NEW n \in Node, Failover(n) PROVE TypeOK'
  BY <1>16, SMTT(30) DEF Failover, TypeOK
<1>17. ASSUME NEW n \in Node, NEW r \in {"master", "slave", "down"}, NodeChange(n, r)
       PROVE  TypeOK'
  BY <1>17, SMTT(30) DEF NodeChange, TypeOK
<1>18. CASE Settle
  BY <1>18 DEF Settle, TypeOK
<1>19. CASE Cancel
  BY <1>19 DEF Cancel, TypeOK
<1>20. CASE UNCHANGED vars
  BY <1>20 DEF vars, TypeOK
<1> QED
  BY <1>1, <1>2, <1>3, <1>4, <1>5, <1>6, <1>7, <1>8, <1>9, <1>10, <1>11, <1>12,
     <1>13, <1>14, <1>15, <1>16, <1>17, <1>18, <1>19, <1>20
     DEF Next, updateMasterAddress, LoopTimer

\* Every reachable state is type correct.
THEOREM TypeCorrect == Spec => []TypeOK
BY InitTypeOK, NextTypeOK, PTL DEF Spec

(***************************************************************************)
(* Only verified addresses are published.                                  *)
(***************************************************************************)
AddressInv == TypeOK /\ VerifiedAddresses /\ CandidatesVerified

\* Nothing is published and nothing collected at the start.
LEMMA InitAddressInv == Init => AddressInv
<1> SUFFICES ASSUME Init PROVE VerifiedAddresses /\ CandidatesVerified
  BY InitTypeOK DEF AddressInv
<1> QED
  BY DEF Init, VerifiedAddresses, CandidatesVerified, Thread

\* Every step publishes only what has passed its ROLE probe.
LEMMA NextAddressInv == AddressInv /\ [Next]_vars => AddressInv'
<1> SUFFICES ASSUME AddressInv, [Next]_vars
             PROVE  VerifiedAddresses' /\ CandidatesVerified'
  BY NextTypeOK DEF AddressInv
<1> DEFINE Goal == VerifiedAddresses /\ CandidatesVerified
<1> USE DEF envVars, addrVars, lockVars, loopVars, updateVars
<1>0. TypeOK /\ VerifiedAddresses /\ CandidatesVerified
  BY DEF AddressInv
<1>1. ASSUME NEW t \in Thread, AskMaster(t) PROVE Goal'
  <2> PICK reply \in MasterReplies :
         LET a == ReportedMaster(reply)
         IN  \/ /\ a \in Error
                /\ Finish(t, a)
                /\ UNCHANGED cand
             \/ /\ a \notin Error
                /\ cand' = [cand EXCEPT ![t] = a]
                /\ step' = [step EXCEPT ![t] = "probe"]
                /\ UNCHANGED <<refreshLock, call, failsSinceOk, loopVars>>
    BY <1>1 DEF AskMaster
  <2>1. reply \in MasterReply
    BY DEF MasterReplies
  <2>2. ReportedMaster(reply) \in Node \cup Error
    BY <2>1, ReportedIsNode
  <2>3. CASE ReportedMaster(reply) \in Error
    <3>1. step' = [step EXCEPT ![t] = "idle"] /\ cand' = cand
      BY <2>3 DEF Finish, AfterUnlock
    <3> QED
      BY <1>0, <1>1, <3>1 DEF AskMaster, TypeOK, VerifiedAddresses, CandidatesVerified
  <2>4. CASE ReportedMaster(reply) \notin Error
    BY <1>0, <1>1, <2>2, <2>4, ZenonT(60) DEF AskMaster, TypeOK, VerifiedAddresses, CandidatesVerified
  <2> QED
    BY <2>3, <2>4
<1>2. ASSUME NEW t \in Thread, ProbeMaster(t) PROVE Goal'
  <2>1. CASE Finish(t, "hard") /\ cand' = [cand EXCEPT ![t] = NoAddr]
    <3>1. step' = [step EXCEPT ![t] = "idle"]
      BY <2>1 DEF Finish, AfterUnlock
    <3> QED
      BY <1>0, <1>2, <2>1, <3>1 DEF ProbeMaster, TypeOK, VerifiedAddresses, CandidatesVerified
  <2>2. CASE /\ TRUE \in checkRole(cand[t], "master")
             /\ step' = [step EXCEPT ![t] = "set"]
             /\ cand' = cand
    <3>1. cand[t] \in Node
      BY <1>0, <1>2 DEF ProbeMaster, CandidatesVerified
    <3>2. role[cand[t]] = "master"
      BY <2>2, <3>1 DEF checkRole, Unspecified
    <3>3. cand[t] \in everMaster
      BY <1>0, <3>1, <3>2 DEF CandidatesVerified
    <3> QED
      BY <1>0, <1>2, <2>2, <3>3 DEF ProbeMaster, TypeOK, VerifiedAddresses, CandidatesVerified
  <2> QED
    BY <1>2, <2>1, <2>2, Zenon DEF ProbeMaster
<1>3. ASSUME NEW t \in Thread, setMasterAddress(t) PROVE Goal'
  <2>1. /\ masterAddr' \in everMaster
        /\ cand' = [cand EXCEPT ![t] = NoAddr]
        /\ \/ step' = [step EXCEPT ![t] = "list"]
           \/ step' = [step EXCEPT ![t] = "idle"]
    BY <1>0, <1>3 DEF setMasterAddress, PublishedMaster, CandidatesVerified, Finish
  <2> QED
    BY <1>0, <1>3, <2>1 DEF setMasterAddress, PublishedMaster, TypeOK, VerifiedAddresses, CandidatesVerified
<1>4. ASSUME NEW t \in Thread, ListReplicas(t) PROVE Goal'
  BY <1>0, <1>4 DEF ListReplicas, TypeOK, VerifiedAddresses, CandidatesVerified
<1>5. ASSUME NEW t \in Thread, VetReplica(t) PROVE Goal'
  <2> PICK n \in todo[t] : \E keep \in Vetted(n) :
         reps' = [reps EXCEPT ![t] = IF keep THEN @ \cup {n} ELSE @]
    BY <1>5, Zenon DEF VetReplica
  <2> PICK keep \in Vetted(n) :
         reps' = [reps EXCEPT ![t] = IF keep THEN @ \cup {n} ELSE @]
    BY Zenon
  <2>1. n \in Node
    BY <1>0 DEF TypeOK
  <2>2. keep => n \in everSlave
    <3> PICK fields \in ReplicaFields, ok \in checkRole(n, "slave") :
           keep = (Eligible(fields) /\ ok)
      BY SMTT(30) DEF Vetted
    <3> QED
      BY <1>0, <2>1 DEF checkRole, CandidatesVerified, Unspecified
  <2>3. reps'[t] \subseteq everSlave
    BY <1>0, <2>2 DEF TypeOK, CandidatesVerified
  <2> QED
    BY <1>0, <1>5, <2>3 DEF VetReplica, TypeOK, VerifiedAddresses, CandidatesVerified
<1>6. ASSUME NEW t \in Thread, setReplicaAddresses(t) PROVE Goal'
  <2>1. step' = [step EXCEPT ![t] = "idle"]
    BY <1>6, Zenon DEF setReplicaAddresses, Finish
  <2> QED
    BY <1>0, <1>6, <2>1 DEF setReplicaAddresses, TypeOK, VerifiedAddresses, CandidatesVerified
<1>7. CASE LoopTick
  BY <1>0, <1>7 DEF LoopTick, TypeOK, VerifiedAddresses, CandidatesVerified
<1>8. CASE LoopWaited
  BY <1>0, <1>8 DEF LoopWaited, TypeOK, VerifiedAddresses, CandidatesVerified
<1>9. CASE InitialWaited
  BY <1>0, <1>9 DEF InitialWaited, TypeOK, VerifiedAddresses, CandidatesVerified
<1>10. CASE LoopSeesDone
  BY <1>0, <1>10 DEF LoopSeesDone, Interruptible, ErrWhenDone, TypeOK, VerifiedAddresses, CandidatesVerified
<1>11. CASE CloseSentinel
  BY <1>0, <1>11 DEF CloseSentinel, ReturnedErr, TypeOK, VerifiedAddresses, CandidatesVerified
<1>12. ASSUME NEW t \in Caller, RefreshAddresses(t) PROVE Goal'
  BY <1>0, <1>12 DEF RefreshAddresses, TypeOK, VerifiedAddresses, CandidatesVerified
<1>13. ASSUME NEW t \in Caller, AcquireRefreshLock(t) PROVE Goal'
  BY <1>0, <1>13 DEF AcquireRefreshLock, LockFree, TypeOK, VerifiedAddresses, CandidatesVerified
<1>14. CASE ThrottleElapses
  BY <1>0, <1>14 DEF ThrottleElapses, TypeOK, VerifiedAddresses, CandidatesVerified
<1>15. CASE ReplicaAddress
  BY <1>0, <1>15 DEF ReplicaAddress, NextTicket, TypeOK, VerifiedAddresses, CandidatesVerified
<1>16. ASSUME NEW n \in Node, Failover(n) PROVE Goal'
  BY <1>0, <1>16 DEF Failover, TypeOK, VerifiedAddresses, CandidatesVerified
<1>17. ASSUME NEW n \in Node, NEW r \in {"master", "slave", "down"}, NodeChange(n, r) PROVE Goal'
  BY <1>0, <1>17 DEF NodeChange, TypeOK, VerifiedAddresses, CandidatesVerified
<1>18. CASE Settle
  BY <1>0, <1>18 DEF Settle, TypeOK, VerifiedAddresses, CandidatesVerified
<1>19. CASE Cancel
  BY <1>0, <1>19 DEF Cancel, TypeOK, VerifiedAddresses, CandidatesVerified
<1>20. CASE UNCHANGED vars
  BY <1>0, <1>20 DEF vars, TypeOK, VerifiedAddresses, CandidatesVerified
<1> QED
  BY <1>1, <1>2, <1>3, <1>4, <1>5, <1>6, <1>7, <1>8, <1>9, <1>10, <1>11, <1>12, <1>13, <1>14, <1>15, <1>16, <1>17, <1>18, <1>19, <1>20
     DEF Next, updateMasterAddress, LoopTimer

\* Whatever sentinel answers and however the resolves of the loop and of the
\* connection handlers overlap with failovers, a published address belongs to
\* a node that did answer ROLE as wanted.
THEOREM AddressesVerified == Spec => []VerifiedAddresses
<1>1. Init => AddressInv
  BY InitAddressInv
<1>2. AddressInv => VerifiedAddresses
  BY DEF AddressInv
<1> QED
  BY <1>1, <1>2, NextAddressInv, PTL DEF Spec

(***************************************************************************)
(* RefreshAddresses is serialised.                                         *)
(***************************************************************************)
LEMMA FinishSerialised ==
  ASSUME TypeOK, RefreshSerialised, NEW t \in Thread, NEW e, Finish(t, e),
         step[t] # "idle"
  PROVE  RefreshSerialised'
BY SMTT(30) DEF Finish, AfterUnlock, TypeOK, RefreshSerialised, Thread

\* A goroutine that goes on with its resolve stays the holder of refreshLock.
LEMMA StepSerialised ==
  ASSUME TypeOK, RefreshSerialised, NEW t \in Thread, NEW s, step[t] # "idle",
         step' = [step EXCEPT ![t] = s], UNCHANGED <<refreshLock, call>>
  PROVE  RefreshSerialised'
BY DEF TypeOK, RefreshSerialised

\* Every step leaves at most the holder of refreshLock resolving.
LEMMA NextSerialised ==
  TypeOK /\ RefreshSerialised /\ [Next]_vars => RefreshSerialised'
<1> SUFFICES ASSUME TypeOK, RefreshSerialised, [Next]_vars
             PROVE  RefreshSerialised'
  OBVIOUS
<1> USE DEF envVars, addrVars, lockVars, loopVars, updateVars
<1>0. TypeOK /\ RefreshSerialised
  OBVIOUS
<1>1. ASSUME NEW t \in Thread, AskMaster(t) PROVE RefreshSerialised'
  <2>1. ASSUME NEW e, Finish(t, e) PROVE RefreshSerialised'
    BY <1>0, <1>1, <2>1, FinishSerialised DEF AskMaster
  <2>2. CASE step' = [step EXCEPT ![t] = "probe"] /\ UNCHANGED <<refreshLock, call>>
    <3>1. step[t] # "idle"
      BY <1>1 DEF AskMaster
    <3> QED
      BY <1>0, <2>2, <3>1, StepSerialised, Zenon
  <2> QED
    BY <1>1, <2>1, <2>2 DEF AskMaster
<1>2. ASSUME NEW t \in Thread, ProbeMaster(t) PROVE RefreshSerialised'
  <2>1. CASE Finish(t, "hard")
    BY <1>0, <1>2, <2>1, FinishSerialised DEF ProbeMaster
  <2>2. CASE step' = [step EXCEPT ![t] = "set"] /\ UNCHANGED <<refreshLock, call>>
    <3>1. step[t] # "idle"
      BY <1>2 DEF ProbeMaster
    <3> QED
      BY <1>0, <2>2, <3>1, StepSerialised, Zenon
  <2> QED
    BY <1>2, <2>1, <2>2, Zenon DEF ProbeMaster
<1>3. ASSUME NEW t \in Thread, setMasterAddress(t) PROVE RefreshSerialised'
  <2>1. CASE Finish(t, "none")
    BY <1>0, <1>3, <2>1, FinishSerialised DEF setMasterAddress, PublishedMaster
  <2>2. CASE step' = [step EXCEPT ![t] = "list"] /\ UNCHANGED <<refreshLock, call>>
    <3>1. step[t] # "idle"
      BY <1>3 DEF setMasterAddress
    <3> QED
      BY <1>0, <2>2, <3>1, StepSerialised, Zenon
  <2> QED
    BY <1>3, <2>1, <2>2 DEF setMasterAddress, PublishedMaster
<1>4. ASSUME NEW t \in Thread, ListReplicas(t) PROVE RefreshSerialised'
  <2>1. /\ step[t] # "idle" /\ step' = [step EXCEPT ![t] = "vet"]
        /\ UNCHANGED <<refreshLock, call>>
    BY <1>4 DEF ListReplicas
  <2> QED
    BY <1>0, <2>1, StepSerialised, ZenonT(30)
<1>5. ASSUME NEW t \in Thread, VetReplica(t) PROVE RefreshSerialised'
  BY <1>0, <1>5 DEF VetReplica, TypeOK, RefreshSerialised
<1>6. ASSUME NEW t \in Thread, setReplicaAddresses(t) PROVE RefreshSerialised'
  BY <1>0, <1>6, FinishSerialised, ZenonT(30) DEF setReplicaAddresses
<1>7. CASE LoopTick
  BY <1>0, <1>7 DEF LoopTick, TypeOK, RefreshSerialised, Thread
<1>8. CASE LoopWaited
  BY <1>0, <1>8 DEF LoopWaited, TypeOK, RefreshSerialised
<1>9. CASE InitialWaited
  BY <1>0, <1>9 DEF InitialWaited, TypeOK, RefreshSerialised, Thread
<1>10. CASE LoopSeesDone
  BY <1>0, <1>10 DEF LoopSeesDone, Interruptible, ErrWhenDone, TypeOK, RefreshSerialised
<1>11. CASE CloseSentinel
  BY <1>0, <1>11 DEF CloseSentinel, ReturnedErr, TypeOK, RefreshSerialised
<1>12. ASSUME NEW t \in Caller, RefreshAddresses(t) PROVE RefreshSerialised'
  BY <1>0, <1>12 DEF RefreshAddresses, TypeOK, RefreshSerialised
<1>13. ASSUME NEW t \in Caller, AcquireRefreshLock(t) PROVE RefreshSerialised'
  <2>1. \A s \in Caller : step[s] = "idle"
    BY <1>0, <1>13 DEF AcquireRefreshLock, LockFree, RefreshSerialised, Unlocked
  <2>2. \/ step' = step
        \/ /\ step' = [step EXCEPT ![t] = "ask"] /\ refreshLock' = t
           /\ call' = [call EXCEPT ![t] = "resolving"]
    BY <1>13 DEF AcquireRefreshLock, LockFree
  <2> QED
    BY <1>0, <2>1, <2>2 DEF TypeOK, RefreshSerialised, Thread
<1>14. CASE ThrottleElapses
  BY <1>0, <1>14 DEF ThrottleElapses, TypeOK, RefreshSerialised
<1>15. CASE ReplicaAddress
  BY <1>0, <1>15 DEF ReplicaAddress, NextTicket, TypeOK, RefreshSerialised
<1>16. ASSUME NEW n \in Node, Failover(n) PROVE RefreshSerialised'
  BY <1>0, <1>16 DEF Failover, TypeOK, RefreshSerialised
<1>17. ASSUME NEW n \in Node, NEW r \in {"master", "slave", "down"}, NodeChange(n, r) PROVE RefreshSerialised'
  BY <1>0, <1>17 DEF NodeChange, TypeOK, RefreshSerialised
<1>18. CASE Settle
  BY <1>0, <1>18 DEF Settle, TypeOK, RefreshSerialised
<1>19. CASE Cancel
  BY <1>0, <1>19 DEF Cancel, TypeOK, RefreshSerialised
<1>20. CASE UNCHANGED vars
  BY <1>0, <1>20 DEF vars, TypeOK, RefreshSerialised
<1> QED
  BY <1>1, <1>2, <1>3, <1>4, <1>5, <1>6, <1>7, <1>8, <1>9, <1>10, <1>11, <1>12, <1>13, <1>14, <1>15, <1>16, <1>17, <1>18, <1>19, <1>20
     DEF Next, updateMasterAddress, LoopTimer

\* At most one connection handler resolves at a time, and it holds refreshLock:
\* the loop and one refresh are the only resolves that ever overlap.
THEOREM RefreshesSerialised == Spec => []RefreshSerialised
<1>1. Init => RefreshSerialised
  BY DEF Init, RefreshSerialised, Thread
<1> QED
  BY <1>1, TypeCorrect, NextSerialised, PTL DEF Spec

(***************************************************************************)
(* The start-up latch.                                                     *)
(***************************************************************************)
LEMMA FinishLatch ==
  ASSUME TypeOK, LatchFollowsLoop, NEW t \in Thread,
         NEW e \in Error \cup {"none"}, Finish(t, e),
         masterAddr # NoAddr \/ e = "none" => masterAddr' # NoAddr
  PROVE  LatchFollowsLoop'
<1>1. step' = [step EXCEPT ![t] = "idle"]
  BY DEF Finish, AfterUnlock
<1>2. CASE t \in Caller
  <2>1. UNCHANGED loopVars
    BY <1>2 DEF Finish, AfterUnlock
  <2> QED
    BY <1>1, <2>1 DEF loopVars, TypeOK, LatchFollowsLoop, Running
<1>3. CASE t = Loop
  <2>1. InitialResult(e) \/ UpdateResult(e)
    BY <1>3 DEF Finish, AfterUnlock
  <2>2. CASE InitialResult(e)
    <3>1. loopPc = "initial" /\ err' = e
      BY <2>2 DEF InitialResult
    <3>2. \/ e = "none" /\ resolved' /\ loopPc' \in {"tick", "returning"}
          \/ e = "hard" /\ resolved' /\ loopPc' = "returning"
          \/ e # "none" /\ resolved' = resolved /\ loopPc' = "initialWait"
      BY <2>2 DEF InitialResult, LatchAfterFailure, LoopHead, CountsAgainstBudget
    <3>3. (\E u \in Thread : step'[u] \in {"list", "vet"}) => masterAddr # NoAddr
      BY <1>1 DEF TypeOK, LatchFollowsLoop
    <3>4. (e = "none" \/ \E u \in Thread : step'[u] \in {"list", "vet"}) => masterAddr' # NoAddr
      BY <3>3
    <3>5. ~resolved
      BY <3>1 DEF LatchFollowsLoop
    <3> QED
      <4>1. resolved' <=> loopPc' \notin {"initial", "initialWait"}
        BY <3>2, <3>5
      <4>2. loopPc' \in {"initialWait", "wait"} => err' # "none"
        BY <3>1, <3>2
      <4>3. loopPc' \in {"tick", "update", "wait"} \/ err' = "none" => e = "none"
        BY <3>1, <3>2
      <4> QED
        BY <3>4, <4>1, <4>2, <4>3 DEF LatchFollowsLoop
  <2>3. CASE UpdateResult(e)
    BY <1>1, <2>3 DEF UpdateResult, LoopHead, TypeOK, LatchFollowsLoop, Running
  <2> QED
    BY <2>1, <2>2, <2>3
<1> QED
  BY <1>2, <1>3 DEF Thread

\* Every step keeps the latch in line with where the loop is.
LEMMA NextLatch ==
  AddressInv /\ LatchFollowsLoop /\ [Next]_vars => LatchFollowsLoop'
<1> SUFFICES ASSUME AddressInv, LatchFollowsLoop, [Next]_vars
             PROVE  LatchFollowsLoop'
  OBVIOUS
<1> USE DEF envVars, addrVars, lockVars, loopVars, updateVars
<1>0. TypeOK /\ AddressInv /\ LatchFollowsLoop /\ "hard" \in Error /\ "notReady" \in Error
  BY DEF AddressInv, Error
<1>1. ASSUME NEW t \in Thread, AskMaster(t) PROVE LatchFollowsLoop'
  <2>1. step[t] = "ask" /\ UNCHANGED masterAddr
    BY <1>1 DEF AskMaster
  <2>2. ASSUME Finish(t, "hard") \/ Finish(t, "notReady") PROVE LatchFollowsLoop'
    BY <1>0, <2>1, <2>2, FinishLatch
  <2>3. CASE step' = [step EXCEPT ![t] = "probe"] /\ UNCHANGED loopVars
    BY <1>0, <2>1, <2>3 DEF TypeOK, LatchFollowsLoop, Running
  <2> QED
    BY <1>1, <2>2, <2>3 DEF AskMaster, Error
<1>2. ASSUME NEW t \in Thread, ProbeMaster(t) PROVE LatchFollowsLoop'
  <2>1. step[t] = "probe" /\ UNCHANGED masterAddr
    BY <1>2 DEF ProbeMaster
  <2>2. ASSUME Finish(t, "hard") \/ Finish(t, "notReady") PROVE LatchFollowsLoop'
    BY <1>0, <2>1, <2>2, FinishLatch
  <2>3. CASE step' = [step EXCEPT ![t] = "set"] /\ UNCHANGED loopVars
    BY <1>0, <2>1, <2>3 DEF TypeOK, LatchFollowsLoop, Running
  <2> QED
    BY <1>2, <2>2, <2>3, Zenon DEF ProbeMaster, Error
<1>3. ASSUME NEW t \in Thread, setMasterAddress(t) PROVE LatchFollowsLoop'
  <2>1. masterAddr' # NoAddr
    BY <1>0, <1>3 DEF setMasterAddress, PublishedMaster, TypeOK, AddressInv, CandidatesVerified, NoAddr
  <2>2. CASE Finish(t, "none")
    BY <1>0, <1>3, <2>1, <2>2, FinishLatch DEF setMasterAddress, PublishedMaster
  <2>3. CASE step' = [step EXCEPT ![t] = "list"] /\ UNCHANGED loopVars
    BY <1>0, <2>1, <2>3 DEF TypeOK, LatchFollowsLoop, Running
  <2> QED
    BY <1>3, <2>2, <2>3 DEF setMasterAddress, PublishedMaster
<1>4. ASSUME NEW t \in Thread, ListReplicas(t) PROVE LatchFollowsLoop'
  BY <1>0, <1>4 DEF ListReplicas, TypeOK, LatchFollowsLoop, Running
<1>5. ASSUME NEW t \in Thread, VetReplica(t) PROVE LatchFollowsLoop'
  BY <1>0, <1>5 DEF VetReplica, TypeOK, LatchFollowsLoop, Running
<1>6. ASSUME NEW t \in Thread, setReplicaAddresses(t) PROVE LatchFollowsLoop'
  <2>1. masterAddr # NoAddr /\ masterAddr' = masterAddr
    <3>1. step[t] = "vet" /\ masterAddr' = masterAddr
      BY <1>6, ZenonT(30) DEF setReplicaAddresses
    <3> QED
      BY <3>1 DEF LatchFollowsLoop
  <2> QED
    BY <1>0, <1>6, <2>1, FinishLatch, ZenonT(30) DEF setReplicaAddresses
<1>7. CASE LoopTick
  BY <1>0, <1>7 DEF LoopTick, TypeOK, LatchFollowsLoop, Running
<1>8. CASE LoopWaited
  BY <1>0, <1>8 DEF LoopWaited, LoopHead, TypeOK, LatchFollowsLoop, Running
<1>9. CASE InitialWaited
  BY <1>0, <1>9 DEF InitialWaited, TypeOK, LatchFollowsLoop, Running
<1>10. CASE LoopSeesDone
  BY <1>0, <1>10, ZenonT(30) DEF LoopSeesDone, Interruptible, ErrWhenDone, TypeOK, LatchFollowsLoop, Running
<1>11. CASE CloseSentinel
  BY <1>0, <1>11 DEF CloseSentinel, ReturnedErr, TypeOK, LatchFollowsLoop, Running
<1>12. ASSUME NEW t \in Caller, RefreshAddresses(t) PROVE LatchFollowsLoop'
  BY <1>0, <1>12 DEF RefreshAddresses, TypeOK, LatchFollowsLoop, Running
<1>13. ASSUME NEW t \in Caller, AcquireRefreshLock(t) PROVE LatchFollowsLoop'
  <2>1. UNCHANGED <<loopPc, resolved, err, masterAddr>>
    BY <1>13 DEF AcquireRefreshLock, loopVars, addrVars
  <2>2. step' = step \/ step' = [step EXCEPT ![t] = "ask"]
    BY <1>13 DEF AcquireRefreshLock
  <2>3. (\E u \in Thread : step'[u] \in {"list", "vet"})
        => \E u \in Thread : step[u] \in {"list", "vet"}
    BY <1>0, <2>2 DEF TypeOK
  <2> QED
    BY <1>0, <2>1, <2>3 DEF LatchFollowsLoop, Running
<1>14. CASE ThrottleElapses
  BY <1>0, <1>14 DEF ThrottleElapses, TypeOK, LatchFollowsLoop, Running
<1>15. CASE ReplicaAddress
  BY <1>0, <1>15 DEF ReplicaAddress, NextTicket, TypeOK, LatchFollowsLoop, Running
<1>16. ASSUME NEW n \in Node, Failover(n) PROVE LatchFollowsLoop'
  BY <1>0, <1>16 DEF Failover, TypeOK, LatchFollowsLoop, Running
<1>17. ASSUME NEW n \in Node, NEW r \in {"master", "slave", "down"}, NodeChange(n, r) PROVE LatchFollowsLoop'
  BY <1>0, <1>17 DEF NodeChange, TypeOK, LatchFollowsLoop, Running
<1>18. CASE Settle
  BY <1>0, <1>18 DEF Settle, TypeOK, LatchFollowsLoop, Running
<1>19. CASE Cancel
  BY <1>0, <1>19 DEF Cancel, TypeOK, LatchFollowsLoop, Running
<1>20. CASE UNCHANGED vars
  BY <1>0, <1>20 DEF vars, TypeOK, LatchFollowsLoop, Running
<1> QED
  BY <1>1, <1>2, <1>3, <1>4, <1>5, <1>6, <1>7, <1>8, <1>9, <1>10, <1>11, <1>12, <1>13, <1>14, <1>15, <1>16, <1>17, <1>18, <1>19, <1>20
     DEF Next, updateMasterAddress, LoopTimer

\* The loop starts in the initial resolve with the latch shut.
LEMMA InitLatch == Init => LatchFollowsLoop
BY Zenon DEF Init, LatchFollowsLoop, Thread, Running

\* The invariant of Resolver that relates the latch, the loop and the resolves in
\* flight to what is published holds in every reachable state.
THEOREM ResolverInvariant == Spec => []ResolverInv
<1>1. Init => AddressInv
  BY InitAddressInv
<1>2. AddressInv /\ LatchFollowsLoop /\ RefreshSerialised => ResolverInv
  BY DEF AddressInv, ResolverInv
<1> QED
  BY <1>1, <1>2, InitLatch, NextAddressInv, NextLatch, RefreshesSerialised, PTL
     DEF Spec

\* Once the latch is open MasterAddress returns an address unless the initial
\* resolve gave up: no handler dials the empty address of a proxy that goes on.
THEOREM NoEmptyMaster == Spec => []EmptyOnlyAfterFailedStart
<1>1. TypeOK /\ ResolverInv => EmptyOnlyAfterFailedStart
  BY DEF TypeOK, ResolverInv, LatchFollowsLoop, EmptyOnlyAfterFailedStart, Running
<1> QED
  BY <1>1, TypeCorrect, ResolverInvariant, PTL

(***************************************************************************)
(* With a retry budget that is not negative the loop never just ends.      *)
(***************************************************************************)
NeverReturnsSilently == ~Running /\ err = "none" => ctxDone

\* A resolve that ends never lets the loop end without an error.
LEMMA FinishStops ==
  ASSUME ResolveRetries >= 0, TypeOK, NeverReturnsSilently, NEW t \in Thread,
         NEW e \in Error \cup {"none"}, Finish(t, e), UNCHANGED ctxDone
  PROVE  NeverReturnsSilently'
<1>1. CASE t \in Caller
  BY <1>1 DEF Finish, AfterUnlock, loopVars, NeverReturnsSilently, Running
<1>2. CASE t = Loop
  <2>1. InitialResult(e) \/ UpdateResult(e)
    BY <1>2 DEF Finish, AfterUnlock
  <2>2. CASE e = "none"
    <3>1. loopPc' = "tick"
      BY <2>1, <2>2 DEF InitialResult, UpdateResult, LoopHead, CountsAgainstBudget
    <3> QED
      BY <3>1 DEF NeverReturnsSilently, Running
  <2>3. CASE e # "none"
    <3>1. err' # "none"
      BY <2>1, <2>3 DEF InitialResult, UpdateResult
    <3> QED
      BY <3>1 DEF NeverReturnsSilently
  <2> QED
    BY <2>2, <2>3
<1> QED
  BY <1>1, <1>2 DEF Thread

\* No step but a cancellation lets the loop end without an error.
LEMMA NextStops ==
  ASSUME ResolveRetries >= 0, TypeOK, LatchFollowsLoop, NeverReturnsSilently, [Next]_vars
  PROVE  NeverReturnsSilently'
<1> USE DEF envVars, addrVars, lockVars, loopVars, updateVars
<1>0. /\ TypeOK /\ LatchFollowsLoop /\ NeverReturnsSilently /\ ResolveRetries >= 0
      /\ "hard" \in Error /\ "notReady" \in Error
  BY DEF Error
<1>1. ASSUME NEW t \in Thread, AskMaster(t) PROVE NeverReturnsSilently'
  <2>1. ASSUME Finish(t, "hard") \/ Finish(t, "notReady") PROVE NeverReturnsSilently'
    BY <1>0, <1>1, <2>1, FinishStops DEF AskMaster
  <2>2. CASE UNCHANGED loopVars
    BY <1>0, <1>1, <2>2 DEF AskMaster, NeverReturnsSilently, Running
  <2> QED
    BY <1>1, <2>1, <2>2 DEF AskMaster, Error
<1>2. ASSUME NEW t \in Thread, ProbeMaster(t) PROVE NeverReturnsSilently'
  <2>1. ASSUME Finish(t, "hard") \/ Finish(t, "notReady") PROVE NeverReturnsSilently'
    BY <1>0, <1>2, <2>1, FinishStops DEF ProbeMaster
  <2>2. CASE UNCHANGED loopVars
    BY <1>0, <1>2, <2>2 DEF ProbeMaster, NeverReturnsSilently, Running
  <2> QED
    BY <1>2, <2>1, <2>2, ZenonT(30) DEF ProbeMaster, Error
<1>3. ASSUME NEW t \in Thread, setMasterAddress(t) PROVE NeverReturnsSilently'
  <2>1. CASE Finish(t, "none")
    BY <1>0, <1>3, <2>1, FinishStops DEF setMasterAddress, PublishedMaster
  <2>2. CASE UNCHANGED loopVars
    BY <1>0, <1>3, <2>2 DEF setMasterAddress, PublishedMaster, NeverReturnsSilently, Running
  <2> QED
    BY <1>3, <2>1, <2>2 DEF setMasterAddress, PublishedMaster
<1>4. ASSUME NEW t \in Thread, ListReplicas(t) PROVE NeverReturnsSilently'
  BY <1>0, <1>4 DEF ListReplicas, NeverReturnsSilently, Running
<1>5. ASSUME NEW t \in Thread, VetReplica(t) PROVE NeverReturnsSilently'
  BY <1>0, <1>5 DEF VetReplica, NeverReturnsSilently, Running
<1>6. ASSUME NEW t \in Thread, setReplicaAddresses(t) PROVE NeverReturnsSilently'
  BY <1>0, <1>6, FinishStops DEF setReplicaAddresses
<1>7. CASE LoopTick
  BY <1>0, <1>7 DEF LoopTick, NeverReturnsSilently, Running
<1>8. CASE LoopWaited
  BY <1>0, <1>8 DEF LoopWaited, LoopHead, LatchFollowsLoop, NeverReturnsSilently, Running
<1>9. CASE InitialWaited
  BY <1>0, <1>9 DEF InitialWaited, NeverReturnsSilently, Running
<1>10. CASE LoopSeesDone
  BY <1>0, <1>10 DEF LoopSeesDone, Interruptible, ErrWhenDone, LatchFollowsLoop, NeverReturnsSilently, Running
<1>11. CASE CloseSentinel
  BY <1>0, <1>11 DEF CloseSentinel, ReturnedErr, NeverReturnsSilently, Running
<1>12. ASSUME NEW t \in Caller, RefreshAddresses(t) PROVE NeverReturnsSilently'
  BY <1>0, <1>12 DEF RefreshAddresses, NeverReturnsSilently, Running
<1>13. ASSUME NEW t \in Caller, AcquireRefreshLock(t) PROVE NeverReturnsSilently'
  BY <1>0, <1>13 DEF AcquireRefreshLock, LockFree, NeverReturnsSilently, Running
<1>14. CASE ThrottleElapses
  BY <1>0, <1>14 DEF ThrottleElapses, NeverReturnsSilently, Running
<1>15. CASE ReplicaAddress
  BY <1>0, <1>15 DEF ReplicaAddress, NextTicket, NeverReturnsSilently, Running
<1>16. ASSUME NEW n \in Node, Failover(n) PROVE NeverReturnsSilently'
  BY <1>0, <1>16 DEF Failover, NeverReturnsSilently, Running
<1>17. ASSUME NEW n \in Node, NEW r \in {"master", "slave", "down"}, NodeChange(n, r) PROVE NeverReturnsSilently'
  BY <1>0, <1>17 DEF NodeChange, NeverReturnsSilently, Running
<1>18. CASE Settle
  BY <1>0, <1>18 DEF Settle, NeverReturnsSilently, Running
<1>19. CASE Cancel
  BY <1>0, <1>19 DEF Cancel, NeverReturnsSilently, Running
<1>20. CASE UNCHANGED vars
  BY <1>0, <1>20 DEF vars, NeverReturnsSilently, Running
<1> QED
  BY <1>1, <1>2, <1>3, <1>4, <1>5, <1>6, <1>7, <1>8, <1>9, <1>10, <1>11, <1>12, <1>13, <1>14, <1>15, <1>16, <1>17, <1>18, <1>19, <1>20
     DEF Next, updateMasterAddress, LoopTimer

\* With -resolve-retries >= 0 the update loop returns nil only after the context
\* was cancelled, so a running proxy never has a dead resolver.  (TLC refutes it
\* for a negative value.)
THEOREM LoopNeverJustEnds ==
  ASSUME ResolveRetries >= 0
  PROVE  Spec => []NeverStopsSilently
<1>1. Init => NeverReturnsSilently
  BY DEF Init, NeverReturnsSilently, Running
<1>2. TypeOK /\ LatchFollowsLoop /\ NeverReturnsSilently /\ [Next]_vars
        => NeverReturnsSilently'
  BY NextStops
<1>3. NeverReturnsSilently => NeverStopsSilently
  BY DEF NeverReturnsSilently, NeverStopsSilently, Running
<1>4. ResolverInv => LatchFollowsLoop
  BY DEF ResolverInv
<1> QED
  BY <1>1, <1>2, <1>3, <1>4, TypeCorrect, ResolverInvariant, PTL DEF Spec

(***************************************************************************)
(* The retry budget and the backoffs.                                      *)
(***************************************************************************)
\* While the loop runs it has waited for all counted failures since its last
\* success, or is about to; the head of the loop keeps the count in the budget.
BudgetInv ==
  /\ loopPc \in {"initial", "tick", "update"} => waited = Patience(errCount)
  /\ loopPc \in {"initialWait", "wait"} =>
       waited + (IF err = "hard" THEN wait ELSE 0) = Patience(errCount)
  /\ loopPc \in {"initial", "initialWait"} => errCount = 0 \/ errCount <= ResolveRetries
  /\ loopPc \in {"tick", "update"} => errCount <= ResolveRetries
  /\ loopPc = "wait" =>
       errCount <= IF err = "hard" THEN ResolveRetries + 1 ELSE ResolveRetries
  /\ ~Running /\ err = "hard" /\ ~ctxDone =>
       waited \in {Patience(ResolveRetries), Patience(ResolveRetries + 1)}

\* The backoff after the n-th failure is what it adds to the sum.
LEMMA PatienceGrows ==
  ASSUME NEW n \in Nat
  PROVE  /\ Patience(n) \in Nat
         /\ Patience(n + 1) = Patience(n) + ResolveFailureBackoff(n + 1)
<1>1. /\ 2 ^ 0 = 1 /\ 2 ^ 1 = 2 /\ 2 ^ 2 = 4 /\ 2 ^ 3 = 8 /\ 2 ^ 4 = 16 /\ 2 ^ 5 = 32
      /\ 2 ^ (1 - 1) = 1 /\ 2 ^ (2 - 1) = 2 /\ 2 ^ (3 - 1) = 4 /\ 2 ^ (4 - 1) = 8
      /\ 2 ^ (5 - 1) = 16
  OBVIOUS
<1>2. CASE n = 0
  BY <1>1, <1>2 DEF Patience, ResolveFailureBackoff, ResolveFailureBackoffCap, Lesser
<1>3. CASE n = 1
  BY <1>1, <1>3 DEF Patience, ResolveFailureBackoff, ResolveFailureBackoffCap, Lesser
<1>4. CASE n = 2
  BY <1>1, <1>4 DEF Patience, ResolveFailureBackoff, ResolveFailureBackoffCap, Lesser
<1>5. CASE n = 3
  BY <1>1, <1>5 DEF Patience, ResolveFailureBackoff, ResolveFailureBackoffCap, Lesser
<1>6. CASE n = 4
  BY <1>1, <1>6 DEF Patience, ResolveFailureBackoff, ResolveFailureBackoffCap, Lesser
<1>7. CASE n = 5
  BY <1>1, <1>7 DEF Patience, ResolveFailureBackoff, ResolveFailureBackoffCap, Lesser
<1>8. CASE n > 5
  BY <1>8 DEF Patience, ResolveFailureBackoff, ResolveFailureBackoffCap, Lesser
<1> QED
  BY <1>2, <1>3, <1>4, <1>5, <1>6, <1>7, <1>8

\* Nothing that the budget depends on.
LEMMA BudgetKept ==
  ASSUME BudgetInv, UNCHANGED loopVars, (ctxDone' = ctxDone) \/ ctxDone'
  PROVE  BudgetInv'
BY DEF BudgetInv, loopVars, Running

\* A resolve ends: a failure that counts is added, one that does not is waited
\* out, a success restores the budget.
LEMMA FinishBudget ==
  ASSUME TypeOK, BudgetInv, NEW t \in Thread, NEW e \in Error \cup {"none"}, Finish(t, e),
         UNCHANGED ctxDone
  PROVE  BudgetInv'
<1>1. CASE t \in Caller
  BY <1>1, BudgetKept DEF Finish
<1>2. CASE t = Loop
  <2>1. InitialResult(e) \/ UpdateResult(e)
    BY <1>2 DEF Finish
  <2>2. errCount \in Nat /\ waited \in Nat /\ Patience(0) = 0
    BY DEF TypeOK, Patience
  <2>3. CASE e = "none"
    <3>1. errCount' = 0 /\ waited' = 0 /\ err' = "none"
          /\ loopPc' = (IF 0 <= ResolveRetries THEN "tick" ELSE "returning")
      BY <2>1, <2>3 DEF InitialResult, UpdateResult, LoopHead, CountsAgainstBudget
    <3> QED
      BY <2>2, <3>1 DEF BudgetInv, Running
  <2>4. CASE e = "notReady"
    <3>1. errCount' = errCount /\ waited' = waited /\ err' = "notReady"
          /\ \/ loopPc = "initial" /\ loopPc' = "initialWait"
             \/ loopPc = "update" /\ loopPc' = "wait"
      BY <2>1, <2>4 DEF InitialResult, UpdateResult, CountsAgainstBudget
    <3> QED
      BY <2>2, <3>1, PatienceGrows DEF BudgetInv, Running
  <2>5. CASE e = "hard"
    <3>1. /\ errCount' = errCount + 1 /\ waited' = waited /\ err' = "hard"
          /\ \/ /\ loopPc = "initial" /\ errCount + 1 > ResolveRetries /\ loopPc' = "returning"
             \/ /\ loopPc = "initial" /\ errCount + 1 <= ResolveRetries /\ loopPc' = "initialWait"
                /\ wait' = ResolveFailureBackoff(errCount + 1)
             \/ /\ loopPc = "update" /\ loopPc' = "wait"
                /\ wait' = ResolveFailureBackoff(errCount + 1)
      BY <2>1, <2>5 DEF InitialResult, UpdateResult, CountsAgainstBudget
    <3>2. /\ loopPc \in {"initial", "update"} /\ waited = Patience(errCount)
          /\ Patience(errCount + 1) = Patience(errCount) + ResolveFailureBackoff(errCount + 1)
      BY <2>2, <3>1, PatienceGrows DEF BudgetInv
    <3>3. CASE loopPc' = "returning"
      <4>1. errCount = ResolveRetries \/ (errCount = 0 /\ ResolveRetries < 0)
        BY <2>2, <3>1, <3>3 DEF BudgetInv
      <4>2. ResolveRetries < 0 => Patience(ResolveRetries) = 0
        BY DEF Patience
      <4>3. waited = Patience(ResolveRetries)
        BY <2>2, <3>2, <4>1, <4>2
      <4> QED
        BY <3>1, <3>3, <4>3 DEF BudgetInv, Running
    <3>4. CASE loopPc' # "returning"
      <4>1. waited' + wait' = Patience(errCount')
        BY <3>1, <3>2, <3>4
      <4>2. loopPc' = "wait" => errCount' <= ResolveRetries + 1
        BY <2>2, <3>1 DEF BudgetInv
      <4> HIDE DEF Patience
      <4> QED
        BY <3>1, <3>4, <4>1, <4>2 DEF BudgetInv, Running
    <3> QED
      BY <3>3, <3>4
  <2> QED
    BY <2>3, <2>4, <2>5 DEF Error
<1> QED
  BY <1>1, <1>2 DEF Thread

\* Every step keeps the account of failures and waits.
LEMMA NextBudget ==
  ASSUME TypeOK, BudgetInv, [Next]_vars
  PROVE  BudgetInv'
<1> USE DEF envVars, addrVars, lockVars, loopVars, updateVars
<1>0. /\ TypeOK /\ BudgetInv
      /\ "hard" \in Error /\ "notReady" \in Error
  BY DEF Error
<1>1. ASSUME NEW t \in Thread, AskMaster(t) PROVE BudgetInv'
  <2>1. ASSUME Finish(t, "hard") \/ Finish(t, "notReady") PROVE BudgetInv'
    BY <1>0, <1>1, <2>1, FinishBudget DEF AskMaster
  <2>2. CASE UNCHANGED loopVars
    BY <1>0, <1>1, <2>2, BudgetKept DEF AskMaster
  <2> QED
    BY <1>1, <2>1, <2>2 DEF AskMaster, Error
<1>2. ASSUME NEW t \in Thread, ProbeMaster(t) PROVE BudgetInv'
  <2>1. ASSUME Finish(t, "hard") \/ Finish(t, "notReady") PROVE BudgetInv'
    BY <1>0, <1>2, <2>1, FinishBudget DEF ProbeMaster
  <2>2. CASE UNCHANGED loopVars
    BY <1>0, <1>2, <2>2, BudgetKept DEF ProbeMaster
  <2> QED
    BY <1>2, <2>1, <2>2, ZenonT(30) DEF ProbeMaster, Error
<1>3. ASSUME NEW t \in Thread, setMasterAddress(t) PROVE BudgetInv'
  <2>1. CASE Finish(t, "none")
    BY <1>0, <1>3, <2>1, FinishBudget DEF setMasterAddress, PublishedMaster
  <2>2. CASE UNCHANGED loopVars
    BY <1>0, <1>3, <2>2, BudgetKept DEF setMasterAddress, PublishedMaster
  <2> QED
    BY <1>3, <2>1, <2>2 DEF setMasterAddress, PublishedMaster
<1>4. ASSUME NEW t \in Thread, ListReplicas(t) PROVE BudgetInv'
  BY <1>0, <1>4, BudgetKept DEF ListReplicas
<1>5. ASSUME NEW t \in Thread, VetReplica(t) PROVE BudgetInv'
  BY <1>0, <1>5, BudgetKept, ZenonT(30) DEF VetReplica
<1>6. ASSUME NEW t \in Thread, setReplicaAddresses(t) PROVE BudgetInv'
  BY <1>0, <1>6, FinishBudget, ZenonT(30) DEF setReplicaAddresses
<1>7. CASE LoopTick
  BY <1>0, <1>7 DEF LoopTick, BudgetInv, Running
<1>8. CASE LoopWaited
  <2>1. /\ errCount \in Nat /\ wait \in Nat /\ waited \in Nat
        /\ loopPc = "wait" /\ UNCHANGED <<errCount, err>>
        /\ waited' = waited + (IF err = "hard" THEN wait ELSE 0)
        /\ loopPc' = (IF errCount <= ResolveRetries THEN "tick" ELSE "returning")
    BY <1>0, <1>8 DEF LoopWaited, LoopHead, TypeOK
  <2>2. waited' = Patience(errCount)
    BY <1>0, <2>1 DEF BudgetInv
  <2>3. errCount <= (IF err = "hard" THEN ResolveRetries + 1 ELSE ResolveRetries)
    BY <1>0, <2>1 DEF BudgetInv
  <2>4. CASE errCount <= ResolveRetries
    BY <2>1, <2>2, <2>4 DEF BudgetInv, Running
  <2>5. CASE ~(errCount <= ResolveRetries)
    <3>1. err' = "hard" /\ errCount = ResolveRetries + 1 /\ loopPc' = "returning"
      BY <2>1, <2>3, <2>5, ConfigAssumption
    <3> QED
      BY <2>2, <3>1 DEF BudgetInv, Running
  <2> QED
    BY <2>4, <2>5
<1>9. CASE InitialWaited
  <2>1. /\ waited \in Nat /\ loopPc = "initialWait" /\ loopPc' = "initial"
        /\ UNCHANGED errCount /\ waited' = waited + (IF err = "hard" THEN wait ELSE 0)
    BY <1>0, <1>9 DEF InitialWaited, TypeOK
  <2> QED
    BY <1>0, <2>1 DEF BudgetInv, Running
<1>10. CASE LoopSeesDone
  BY <1>0, <1>10, Zenon DEF LoopSeesDone, BudgetInv, Running
<1>11. CASE CloseSentinel
  BY <1>0, <1>11 DEF CloseSentinel, ReturnedErr, BudgetInv, Running
<1>12. ASSUME NEW t \in Caller, RefreshAddresses(t) PROVE BudgetInv'
  BY <1>0, <1>12, BudgetKept DEF RefreshAddresses
<1>13. ASSUME NEW t \in Caller, AcquireRefreshLock(t) PROVE BudgetInv'
  BY <1>0, <1>13, BudgetKept DEF AcquireRefreshLock, LockFree
<1>14. CASE ThrottleElapses
  BY <1>0, <1>14, BudgetKept DEF ThrottleElapses
<1>15. CASE ReplicaAddress
  BY <1>0, <1>15, BudgetKept DEF ReplicaAddress, NextTicket
<1>16. ASSUME NEW n \in Node, Failover(n) PROVE BudgetInv'
  BY <1>0, <1>16, BudgetKept DEF Failover
<1>17. ASSUME NEW n \in Node, NEW r \in {"master", "slave", "down"}, NodeChange(n, r) PROVE BudgetInv'
  BY <1>0, <1>17, BudgetKept DEF NodeChange
<1>18. CASE Settle
  BY <1>0, <1>18, BudgetKept DEF Settle
<1>19. CASE Cancel
  BY <1>0, <1>19, BudgetKept DEF Cancel
<1>20. CASE UNCHANGED vars
  BY <1>0, <1>20, BudgetKept DEF vars
<1> QED
  BY <1>1, <1>2, <1>3, <1>4, <1>5, <1>6, <1>7, <1>8, <1>9, <1>10, <1>11, <1>12, <1>13, <1>14, <1>15, <1>16, <1>17, <1>18, <1>19, <1>20
     DEF Next, updateMasterAddress, LoopTimer

\* The backoffs between the failures after which AddressUpdateLoop gives up add up
\* to those of the whole budget: it never gives up early, and never keeps failing
\* past its budget.
THEOREM GivesUpOnSchedule == Spec => []GivesUpAfterBackoffs
<1>1. Init => BudgetInv
  BY DEF Init, BudgetInv, Patience, Running
<1>2. TypeOK /\ BudgetInv /\ [Next]_vars => BudgetInv'
  BY NextBudget
<1>3. BudgetInv => GivesUpAfterBackoffs
  BY DEF BudgetInv, GivesUpAfterBackoffs, Running
<1> QED
  BY <1>1, <1>2, <1>3, TypeCorrect, PTL DEF Spec

(***************************************************************************)
(* The resolver implements AddressService.                                 *)
(***************************************************************************)
ServiceStep == [Service!Next]_(Service!serviceVars)

\* What a step never takes back: the latch stays open, and a loop that has ended
\* stays so, with the error it ended with.
GoesOn == (resolved => resolved') /\ (~Running => ~Running' /\ err' = err)

\* The return of a resolve takes none of this back.
LEMMA FinishGoesOn ==
  ASSUME NEW t \in Thread, NEW e, Finish(t, e)
  PROVE  GoesOn
<1>1. CASE UNCHANGED loopVars
  BY <1>1 DEF loopVars, GoesOn, Running
<1>2. CASE InitialResult(e)
  BY <1>2 DEF InitialResult, LatchAfterFailure, GoesOn, Running
<1>3. CASE UpdateResult(e)
  BY <1>3 DEF UpdateResult, GoesOn, Running
<1> QED
  BY <1>1, <1>2, <1>3, Zenon DEF Finish

\* Nor does any step.
LEMMA NextGoesOn ==
  ASSUME [Next]_vars
  PROVE  GoesOn
<1>1. CASE UNCHANGED loopVars
  BY <1>1 DEF loopVars, GoesOn, Running
<1>2. ASSUME NEW t \in Thread, updateMasterAddress(t) PROVE GoesOn
  <2>1. CASE \E e : Finish(t, e)
    BY <2>1, FinishGoesOn
  <2> QED
    BY <1>1, <1>2, <2>1, ZenonT(30)
       DEF updateMasterAddress, AskMaster, ProbeMaster, setMasterAddress, ListReplicas,
           VetReplica, setReplicaAddresses
<1>3. CASE LoopTimer \/ CloseSentinel
  BY <1>3 DEF LoopTimer, LoopTick, LoopWaited, InitialWaited, CloseSentinel, ReturnedErr,
              GoesOn, Running
<1>4. CASE LoopSeesDone
  <2>1. Running
    BY <1>4 DEF LoopSeesDone, Interruptible, Running
  <2> QED
    BY <1>4, <2>1, Zenon DEF LoopSeesDone, GoesOn
<1>5. CASE ReplicaAddress \/ ThrottleElapses \/ Settle \/ Cancel \/ UNCHANGED vars
  BY <1>1, <1>5, Zenon DEF ReplicaAddress, ThrottleElapses, Settle, Cancel, vars
<1>6. ASSUME NEW t \in Caller, RefreshAddresses(t) \/ AcquireRefreshLock(t) PROVE GoesOn
  BY <1>1, <1>6, Zenon DEF RefreshAddresses, AcquireRefreshLock
<1>7. ASSUME NEW n \in Node, Failover(n) PROVE GoesOn
  BY <1>1, <1>7, Zenon DEF Failover
<1>8. ASSUME NEW n \in Node, NEW r \in {"master", "slave", "down"}, NodeChange(n, r)
      PROVE  GoesOn
  BY <1>1, <1>8, Zenon DEF NodeChange
<1> QED
  BY <1>2, <1>3, <1>4, <1>5, <1>6, <1>7, <1>8, ZenonT(30) DEF Next

\* So every step is a status step of the service: where the latch opens or the loop
\* ends without an error, a master was published.
LEMMA NextStatusStep ==
  ASSUME TypeOK', LatchFollowsLoop', GoesOn
  PROVE  Service!StatusStep
<1>1. resolved' /\ (Running \/ err = "none")' => masterAddr' # NoAddr
  BY DEF TypeOK, LatchFollowsLoop, Running
<1> QED
  BY <1>1, Zenon DEF GoesOn, Service!StatusStep, Service!LoopEnds, Service!Ended

\* Every step of the resolver is a step of the service or leaves it alone.
LEMMA NextServiceStep ==
  ASSUME AddressInv, LatchFollowsLoop, [Next]_vars
  PROVE  ServiceStep
<1> USE DEF envVars, addrVars
<1>0. TypeOK /\ LatchFollowsLoop /\ CandidatesVerified /\ VerifiedAddresses
  BY DEF AddressInv
<1>a. LatchFollowsLoop' /\ Service!StatusStep
  <2>1. LatchFollowsLoop' /\ TypeOK'
    BY NextLatch, NextAddressInv DEF AddressInv
  <2> QED
    BY <2>1, NextGoesOn, NextStatusStep
<1> DEFINE Frame == UNCHANGED <<everMaster, everSlave, masterAddr, replicaAddrs, replicaIdx>>
<1>b. ASSUME Frame PROVE ServiceStep
  <2>1. masterAddr # NoAddr => masterAddr \in everMaster
    BY <1>0 DEF VerifiedAddresses
  <2>2. CASE Service!LoopEnds
    BY <1>b, <2>2, Zenon DEF ServiceStep, Service!Next, Service!Stop
  <2>3. CASE masterAddr' # NoAddr
    BY <1>a, <1>b, <2>1, <2>3, Zenon DEF ServiceStep, Service!Next, Service!PublishMaster
  <2> QED
    BY <1>a, <1>b, <2>2, <2>3, Zenon DEF Service!StatusStep, ServiceStep, Service!serviceVars
<1>1. ASSUME NEW t \in Thread, AskMaster(t) \/ ProbeMaster(t) \/ ListReplicas(t) \/ VetReplica(t)
      PROVE  ServiceStep
  BY <1>1, <1>b, Zenon DEF AskMaster, ProbeMaster, ListReplicas, VetReplica
<1>2. ASSUME NEW t \in Thread, setMasterAddress(t) PROVE ServiceStep
  <2>1. masterAddr' \in everMaster
    BY <1>0, <1>2, Zenon DEF setMasterAddress, PublishedMaster, CandidatesVerified
  <2> QED
    BY <1>2, <1>a, <2>1, Zenon
       DEF setMasterAddress, ServiceStep, Service!Next, Service!PublishMaster
<1>3. ASSUME NEW t \in Thread, setReplicaAddresses(t) PROVE ServiceStep
  <2>1. masterAddr # NoAddr /\ replicaAddrs' \in SUBSET everSlave /\ masterAddr' = masterAddr
    BY <1>0, <1>3, ZenonT(30)
       DEF setReplicaAddresses, CandidatesVerified, LatchFollowsLoop, TypeOK, NoAddr
  <2> QED
    BY <1>3, <1>a, <2>1, Zenon
       DEF setReplicaAddresses, ServiceStep, Service!Next, Service!PublishReplicas
<1>4. CASE LoopTimer \/ LoopSeesDone \/ CloseSentinel \/ ThrottleElapses \/ Cancel
  BY <1>4, <1>b, Zenon
     DEF LoopTimer, LoopTick, LoopWaited, InitialWaited, LoopSeesDone, CloseSentinel,
         ThrottleElapses, Cancel
<1>5. ASSUME NEW t \in Caller, RefreshAddresses(t) \/ AcquireRefreshLock(t) PROVE ServiceStep
  BY <1>5, <1>b, Zenon DEF RefreshAddresses, AcquireRefreshLock
<1>6. CASE ReplicaAddress
  BY <1>0, <1>6
     DEF ReplicaAddress, NextTicket, ServiceStep, Service!Next, Service!ReplicaAddress, Running,
         lockVars, loopVars
<1>7. ASSUME NEW n \in Node, Failover(n) PROVE ServiceStep
  <2>1. /\ everMaster' = everMaster \cup {n}
        /\ everSlave' = everSlave \cup {}
        /\ {n} \in SUBSET Node /\ {} \in SUBSET Node
    BY <1>0, <1>7 DEF Failover, TypeOK
  <2>2. \E M, S \in SUBSET Node : everMaster' = everMaster \cup M /\ everSlave' = everSlave \cup S
    BY <2>1, ZenonT(30)
  <2> QED
    BY <1>7, <2>2, ZenonT(30) DEF Failover, ServiceStep, Service!Next, Service!GroupChanges, Running, loopVars
<1>8. ASSUME NEW n \in Node, NEW r \in {"master", "slave", "down"}, NodeChange(n, r) PROVE ServiceStep
  <2>1. /\ everMaster' = everMaster \cup (IF r = "master" THEN {n} ELSE {})
        /\ everSlave' = everSlave \cup (IF r = "slave" THEN {n} ELSE {})
        /\ (IF r = "master" THEN {n} ELSE {}) \in SUBSET Node /\ (IF r = "slave" THEN {n} ELSE {}) \in SUBSET Node
    BY <1>0, <1>8, Zenon DEF NodeChange, TypeOK
  <2>2. \E M, S \in SUBSET Node : everMaster' = everMaster \cup M /\ everSlave' = everSlave \cup S
    BY <2>1, Zenon
  <2> QED
    BY <1>8, <2>2, Zenon DEF NodeChange, ServiceStep, Service!Next, Service!GroupChanges, Running, loopVars
<1>9. CASE Settle
  <2>1. \E M, S \in SUBSET Node : everMaster' = everMaster \cup M /\ everSlave' = everSlave \cup S
    <3> PICK r \in [Node -> {"master", "slave", "down"}] :
           everSlave' = everSlave \cup {n \in Node : r[n] = "slave"}
      BY <1>9 DEF Settle
    <3>1. everMaster' = everMaster \cup {elected}
      BY <1>9, ZenonT(30) DEF Settle
    <3>2. {elected} \in SUBSET Node
      BY <1>0 DEF TypeOK
    <3> QED
      BY <3>1, <3>2, ZenonT(30)
  <2> QED
    BY <1>9, <2>1, Zenon DEF Settle, ServiceStep, Service!Next, Service!GroupChanges, Running, loopVars
<1>10. CASE UNCHANGED vars
  BY <1>10, <1>b, Zenon DEF vars
<1> QED
  BY <1>1, <1>2, <1>3, <1>4, <1>5, <1>6, <1>7, <1>8, <1>9, <1>10, ZenonT(30)
     DEF Next, updateMasterAddress

\* The resolver, with all its goroutines, implements the address service the
\* proxy is written against.
THEOREM ResolverImplementsService == Spec => ImplementsService
<1>1. Init => Service!Init
  BY DEF Init, Service!Init
<1>2. AddressInv /\ LatchFollowsLoop /\ [Next]_vars => ServiceStep
  BY NextServiceStep
<1>3. ServiceStep <=> [Service!Next]_(Service!serviceVars)
  BY Zenon DEF ServiceStep
<1> QED
  BY <1>1, <1>2, <1>3, InitAddressInv, InitLatch, NextAddressInv, NextLatch, PTL
     DEF Spec, ImplementsService, Service!Spec

(***************************************************************************)
(* Round robin over the replicas.                                          *)
(***************************************************************************)

Finite == INSTANCE FiniteSetTheorems

\* Finite sets and cardinalities are those of the library's theorems.
LEMMA SameFinite ==
  \A S : Finite!IsFiniteSet(S) = IsFiniteSet(S) /\ Finite!Cardinality(S) = Cardinality(S)
BY Zenon DEF Finite!IsFiniteSet, IsFiniteSet, Finite!Cardinality, Cardinality

\* The cardinality of a set of nodes is a number, 0 for the empty set only, and a
\* proper subset has a smaller one.
LEMMA NodeCardinality ==
  ASSUME NEW S \in SUBSET Node
  PROVE  /\ Cardinality(S) \in Nat
         /\ Cardinality(S) = 0 <=> S = {}
         /\ \A T \in SUBSET S : Cardinality(T) <= Cardinality(S)
                                /\ (Cardinality(T) = Cardinality(S) => T = S)
<1>1. Finite!IsFiniteSet(Node)
  BY SameFinite, NodeAssumption, Zenon
<1>2. Finite!IsFiniteSet(S)
  BY <1>1, Finite!FS_Subset, Zenon
<1>3. Finite!Cardinality(S) \in Nat /\ (Finite!Cardinality(S) = 0 <=> S = {})
  BY <1>2, Finite!FS_CardinalityType, Finite!FS_EmptySet, Zenon
<1>4. \A T \in SUBSET S : Finite!Cardinality(T) <= Finite!Cardinality(S)
                         /\ (Finite!Cardinality(T) = Finite!Cardinality(S) => T = S)
  BY <1>2, Finite!FS_Subset, Zenon
<1> QED
  BY <1>3, <1>4, SameFinite, Zenon

\* Division with remainder.
LEMMA Remainders ==
  ASSUME NEW k \in Nat \ {0}, NEW x \in Nat
  PROVE  x % k \in 0 .. k - 1 /\ x \div k \in Nat /\ x = (x \div k) * k + (x % k)
OBVIOUS

\* The remainder is what it should be.
LEMMA RemainderUnique ==
  ASSUME NEW k \in Nat \ {0}, NEW q \in Int, NEW r \in 0 .. k - 1
  PROVE  (q * k + r) % k = r
OBVIOUS

\* Numbers below m, and their first turn around m.
LEMMA RemainderSmall ==
  ASSUME NEW m \in Nat \ {0}, NEW y \in 0 .. m - 1
  PROVE  y % m = y /\ (y + m) % m = y
OBVIOUS

\* Cardinality is the same for the service.
LEMMA SameCardinality == \A S : Service!Cardinality(S) = Cardinality(S)
BY DEF Service!Cardinality, Cardinality

\* Each remainder is the one of a number among k successive tickets.
LEMMA TicketFor ==
  ASSUME NEW k \in Nat \ {0}, NEW x \in Nat, NEW r \in 0 .. k - 1
  PROVE  \E i \in 0 .. k - 1 : \E q \in Nat : x + i = q * k + r
<1> DEFINE q == x \div k
           c == x % k
<1>1. c \in 0 .. k - 1 /\ q \in Nat /\ x = q * k + c
  BY Remainders, Zenon
<1> HIDE DEF q, c
<1>2. CASE c <= r
  <2>1. r - c \in 0 .. k - 1 /\ x + (r - c) = q * k + r
    BY <1>1, <1>2
  <2> QED
    BY <1>1, <2>1, ZenonT(30)
<1>3. CASE r < c
  <2>1. k + r - c \in 0 .. k - 1 /\ x + (k + r - c) = (q + 1) * k + r /\ q + 1 \in Nat
    BY <1>1, <1>3
  <2> QED
    BY <2>1, ZenonT(30)
<1> QED
  BY <1>1, <1>2, <1>3

\* It stays so when the tickets wrap at a multiple of k.
LEMMA TicketWraps ==
  \A k, m \in Nat \ {0} : \A x \in 0 .. m - 1, r \in 0 .. k - 1 :
    x + k <= m \/ m % k = 0 => \E i \in 0 .. k - 1 : ((x + i) % m) % k = r
<1> SUFFICES ASSUME NEW k \in Nat \ {0}, NEW m \in Nat \ {0},
                    NEW x \in 0 .. m - 1, NEW r \in 0 .. k - 1,
                    x + k <= m \/ m % k = 0
             PROVE  \E i \in 0 .. k - 1 : ((x + i) % m) % k = r
  BY Zenon
<1>0. x \in Nat
  OBVIOUS
<1>1. PICK i \in 0 .. k - 1 : \E q \in Nat : x + i = q * k + r
  BY <1>0, TicketFor, ZenonT(60)
<1>2. PICK q \in Nat : x + i = q * k + r
  BY <1>1, Zenon
<1> SUFFICES ((x + i) % m) % k = r
  BY Zenon
<1>3. (q * k + r) % k = r
  BY RemainderUnique
<1>4. CASE x + i < m
  <2>1. (x + i) % m = x + i
    <3>1. x + i \in 0 .. m - 1
      BY <1>4
    <3> QED
      BY <3>1, RemainderSmall, ZenonT(30)
  <2> QED
    BY <1>2, <1>3, <2>1, Zenon
<1>5. CASE m <= x + i
  <2>1. m % k = 0
    BY <1>5
  <2> DEFINE p == m \div k
  <2>2. p \in Nat /\ m = p * k + (m % k)
    BY Remainders, Zenon
  <2> HIDE DEF p
  <2>3. m = p * k /\ p # 0
    BY <2>1, <2>2
  <2>4. k <= m
    BY <2>2, <2>3
  <2> DEFINE y == x + i - m
  <2>5. y \in 0 .. m - 1 /\ x + i = y + m
    BY <1>5, <2>4
  <2>6. y = (q - p) * k + r /\ q - p \in Int
    BY <1>2, <2>2, <2>3
  <2> HIDE DEF y
  <2>7. (x + i) % m = y
    BY <2>5, RemainderSmall
  <2>8. ((q - p) * k + r) % k = r
    BY <2>6, RemainderUnique, Zenon
  <2> QED
    BY <2>6, <2>7, <2>8
<1> QED
  BY <1>4, <1>5

\* Every node of a list has a place in it, and is found there.
LEMMA RankedFinds ==
  ASSUME NEW list \in SUBSET Node, NEW n \in list
  PROVE  \E r \in 0 .. Cardinality(list) - 1 : Service!Ranked(list, r) = n
<1> DEFINE Below(x) == {y \in list : AddrRank[y] < AddrRank[x]}
<1>1. Cardinality(list) \in Nat
  BY NodeCardinality
<1>2. \A x \in list : Below(x) \in SUBSET Node /\ Cardinality(Below(x)) \in Nat
  BY NodeCardinality
<1>3. \A x \in list : AddrRank[x] \in Nat
  OBVIOUS
<1>4. ASSUME NEW x \in list, NEW y \in list, AddrRank[x] < AddrRank[y]
      PROVE  Cardinality(Below(x)) # Cardinality(Below(y))
  <2>1. Below(x) \subseteq Below(y)
    BY <1>3, <1>4
  <2>2. x \in Below(y) /\ x \notin Below(x)
    BY <1>3, <1>4
  <2> HIDE DEF Below
  <2>3. Below(x) \in SUBSET Below(y) /\ Below(x) # Below(y)
    BY <2>1, <2>2
  <2> QED
    BY <1>2, <2>3, NodeCardinality, Zenon
<1>5. \A x \in list : Cardinality(Below(x)) = Cardinality(Below(n)) => x = n
  BY <1>3, <1>4
<1>6. Cardinality(Below(n)) \in 0 .. Cardinality(list) - 1
  <2>1. Below(n) \in SUBSET list /\ n \notin Below(n)
    BY <1>3
  <2> HIDE DEF Below
  <2>0. Below(n) # list
    BY <2>1
  <2>2. Cardinality(Below(n)) <= Cardinality(list) /\ Cardinality(Below(n)) # Cardinality(list)
    BY <2>1, <2>0, NodeCardinality, Zenon
  <2> QED
    BY <1>1, <1>2, <2>2
<1>7. Service!Ranked(list, Cardinality(Below(n))) = n
  BY <1>5, SameCardinality DEF Service!Ranked
<1> QED
  BY <1>6, <1>7

\* Round robin.
LEMMA RotationIsFair == TypeOK => RotationFair
<1> DEFINE k == Cardinality(replicaAddrs)
<1>0. k = Service!Cardinality(replicaAddrs)
  BY SameCardinality
<1> SUFFICES ASSUME TypeOK, replicaAddrs # {}, NEW n \in replicaAddrs,
                    replicaIdx + k <= IdxModulus \/ IdxModulus % k = 0
             PROVE  \E i \in 0 .. k - 1 : Service!Pick((replicaIdx + i) % IdxModulus) = n
  <2> HIDE DEF k
  <2> QED
    BY <1>0, Zenon DEF RotationFair, Service!RotationFair
<1>1. replicaAddrs \in SUBSET Node /\ replicaIdx \in 0 .. IdxModulus - 1
  BY DEF TypeOK
<1>2. k \in Nat \ {0}
  BY <1>1, NodeCardinality
<1>3. \E r \in 0 .. k - 1 : Service!Ranked(replicaAddrs, r) = n
  BY <1>1, RankedFinds
<1> HIDE DEF k
<1>4. PICK r \in 0 .. k - 1 : Service!Ranked(replicaAddrs, r) = n
  BY <1>3
<1>5. PICK i \in 0 .. k - 1 : ((replicaIdx + i) % IdxModulus) % k = r
  <2>1. IdxModulus \in Nat \ {0}
    OBVIOUS
  <2>2. r \in 0 .. k - 1
    OBVIOUS
  <2>3. replicaIdx + k <= IdxModulus \/ IdxModulus % k = 0
    OBVIOUS
  <2>4. \A x \in 0 .. IdxModulus - 1, s \in 0 .. k - 1 : x + k <= IdxModulus \/ IdxModulus % k = 0 =>
          \E i \in 0 .. k - 1 : ((x + i) % IdxModulus) % k = s
    BY <1>2, <2>1, TicketWraps, Zenon
  <2> QED
    BY <1>1, <2>2, <2>3, <2>4, Zenon
<1>6. Service!Pick((replicaIdx + i) % IdxModulus) = n
  BY <1>0, <1>4, <1>5, Zenon DEF Service!Pick
<1> QED
  BY <1>6

\* Callers that ask for a replica are given each in turn, whatever the number of
\* replicas, as long as the list stays the same.
THEOREM ReplicasTakeTurns == Spec => []RotationFair
BY TypeCorrect, RotationIsFair, PTL
=============================================================================
