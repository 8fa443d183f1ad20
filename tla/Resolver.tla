------------------------------ MODULE Resolver ------------------------------
(***************************************************************************)
(* The address resolver of redis-sentinel-proxy                            *)
(* (src/pkg/master_resolver/master_resolver.go).                           *)
(*                                                                         *)
(* Two kinds of goroutines resolve addresses: the one that runs            *)
(* UpdateMasterAddressLoop (Loop) and the proxy's connection handlers      *)
(* (Caller), which call RefreshAddresses after a failed dial and read      *)
(* MasterAddress and ReplicaAddress.  A resolve (updateMasterAddress) is   *)
(* a chain of network calls, and every call is a step of its own: other    *)
(* goroutines and the redis group move between any two of them.            *)
(*                                                                         *)
(* Time is abstract: a ticker, a backoff or the refresh throttle elapses   *)
(* at any moment after it was started.                                     *)
(***************************************************************************)
EXTENDS Integers, FiniteSets

CONSTANTS
  Node,            \* addresses of the redis nodes of the master group
  AddrRank,        \* their order as strings (slices.SortFunc of the replicas)
  Caller,          \* connection handlers of the proxy
  Loop,            \* the goroutine of UpdateMasterAddressLoop
  ResolveRetries,  \* retryOnMasterResolveFail: any int, it is not validated
  TrackReplicas,   \* trackReplicas
  IdxModulus       \* range of replicaIdx, 2^64 in the code

ASSUME NodeAssumption ==
  /\ IsFiniteSet(Node) /\ Node # {}
  /\ Node \cap {"empty", "unspecified", "hard", "notReady"} = {}
  /\ AddrRank \in [Node -> Nat]
  /\ \A m, n \in Node : AddrRank[m] = AddrRank[n] => m = n

ASSUME GoroutineAssumption == Loop \notin Caller

ASSUME ConfigAssumption ==
  ResolveRetries \in Int /\ TrackReplicas \in BOOLEAN /\ IdxModulus \in Nat \ {0}

VARIABLES
  \* The redis group and sentinel (outside the program).
  elected,        \* the node the sentinels agreed on
  role,           \* what each node answers to ROLE
  calm,           \* no further failover, fault or stale answer
  everMaster,     \* history: the nodes that have been a master
  everSlave,      \* history: the nodes that have been a slave
  \* The process.
  ctxDone,        \* the context was cancelled
  \* RedisMasterResolver.
  masterAddr, replicaAddrs, replicaIdx,
  resolved,       \* initialMasterResolveLock is closed
  sentinelClosed, \* the sentinel client was closed
  refreshLock,    \* holder of refreshLock, Loop when free
  throttled,      \* time.Since(lastRefresh) < refreshThrottle
  \* UpdateMasterAddressLoop.
  loopPc, errCount, wait, err,
  \* One updateMasterAddress per goroutine.
  step, cand, todo, reps,
  \* Callers.
  call,           \* where a caller is in RefreshAddresses
  \* History.
  waited,         \* seconds the loop has backed off since its last success
  failsSinceOk    \* counted failures of the loop since anyone's last success

envVars    == <<elected, role, calm, everMaster, everSlave>>
addrVars   == <<masterAddr, replicaAddrs>>
lockVars   == <<refreshLock, throttled>>
loopVars   == <<loopPc, errCount, wait, err, resolved, sentinelClosed, waited>>
updateVars == <<step, cand, todo, reps>>
vars == <<envVars, ctxDone, addrVars, lockVars, loopVars, updateVars, call,
          failsSinceOk, replicaIdx>>

Thread == Caller \cup {Loop}
NoAddr == "empty"                   \* the string "": masterAddr before the first resolve
Unspecified == "unspecified"        \* 0.0.0.0 or ::, sentinel's startup placeholder
Addr == Node \cup {Unspecified}
Error == {"hard", "notReady"}       \* "notReady": errSentinelNotReady
Unlocked == Loop

(***************************************************************************)
(* Pure helpers.                                                           *)
(***************************************************************************)
SentinelNotReadyBackoff == 10
ResolveFailureBackoffCap == 30

Lesser(a, b) == IF a <= b THEN a ELSE b

\* Seconds to wait after the n-th consecutive failure.
ResolveFailureBackoff(n) ==
  IF n < 1 THEN 1
  ELSE IF n > 5 THEN ResolveFailureBackoffCap
  ELSE Lesser(2 ^ (n - 1), ResolveFailureBackoffCap)

\* What sentinel can report as a host and a port: a node, nothing, the
\* placeholder, a host name without DNS record, a host name whose lookup fails.
Host == Node \cup {"empty", Unspecified, "notFound", "lookupError"}
Port == {"empty", "invalid", "valid"}

UsableWithoutPlaceholderCheck(host, port) ==
  IF host = "empty" \/ port # "valid" \/ host = "lookupError" THEN "hard"
  ELSE IF host = "notFound" THEN "notReady"
  ELSE host

\* The address, or the kind of error.
usableTCPAddr(host, port) ==
  IF host = "empty" \/ port = "empty" THEN "hard"
  ELSE IF host = Unspecified THEN "notReady"
  ELSE IF port = "invalid" THEN "hard"
  ELSE IF host = "notFound" THEN "notReady"
  ELSE IF host = "lookupError" THEN "hard"
  ELSE host

\* Replies to SENTINEL get-master-addr-by-name.
MasterReply ==
  [kind : {"error", "nil", "short"}] \cup
  [kind : {"addr"}, host : Host, port : Port]

\* The part of resolveMasterAddress before the ROLE probe.
ReportedMaster(reply) ==
  IF reply.kind # "addr" THEN "hard" ELSE usableTCPAddr(reply.host, reply.port)

\* Calls succeed and answers are true: the group is calm, ctx is live.
Reliable == calm /\ ~ctxDone /\ ~sentinelClosed

\* A closed sentinel client only fails.
MasterReplies ==
  {reply \in MasterReply :
     /\ sentinelClosed => reply.kind = "error"
     /\ Reliable => reply = [kind |-> "addr", host |-> elected, port |-> "valid"]}

ProbeIgnoringRole(a, wantRole) == {TRUE}

\* Outcomes of a ROLE probe.  A connect to the placeholder reaches the proxy's
\* own listener, whose backend may well answer with the wanted role.
checkRole(a, wantRole) ==
  {ok \in BOOLEAN :
     /\ ok => a = Unspecified \/ role[a] = wantRole
     /\ calm /\ ~ctxDone /\ a \in Node => ok = (role[a] = wantRole)}

\* The fields of a SENTINEL replicas entry that resolveReplicaAddresses reads.
\* "down": the flags contain s_down, o_down or disconnected.
ReplicaFields ==
  [flags : {"slave", "down"},
   link : {"ok", "err", "absent"}, addrUsable : BOOLEAN]
HealthyFields == [flags |-> "slave", link |-> "ok", addrUsable |-> TRUE]

Eligible(fields) ==
  /\ fields.flags # "down"
  /\ fields.link # "absent" => fields.link = "ok"
  /\ fields.addrUsable

-----------------------------------------------------------------------------
Init ==
  /\ elected \in Node
  /\ role \in [Node -> {"master", "slave", "down"}]
  /\ \A n \in Node : role[n] = "master" => n = elected
  /\ everMaster \in {S \in SUBSET Node : \A n \in Node : role[n] = "master" => n \in S}
  /\ everSlave \in {S \in SUBSET Node : \A n \in Node : role[n] = "slave" => n \in S}
  /\ calm = FALSE /\ ctxDone = FALSE
  /\ masterAddr = NoAddr /\ replicaAddrs = {} /\ replicaIdx = 0
  /\ resolved = FALSE /\ sentinelClosed = FALSE
  /\ refreshLock = Unlocked /\ throttled = FALSE
  /\ loopPc = "initial" /\ errCount = 0 /\ wait = 0 /\ err = "none"
  /\ step = [t \in Thread |-> IF t = Loop THEN "ask" ELSE "idle"]
  /\ cand = [t \in Thread |-> NoAddr]
  /\ todo = [t \in Thread |-> {}]
  /\ reps = [t \in Thread |-> {}]
  /\ call = [t \in Caller |-> "idle"]
  /\ waited = 0 /\ failsSinceOk = 0

-----------------------------------------------------------------------------
(***************************************************************************)
(* UpdateMasterAddressLoop and initialMasterAddressResolve: what the loop  *)
(* does with the outcome e of a resolve, and between resolves.             *)
(***************************************************************************)

\* The head of the for loop: another round, or return err.
LoopHead(n) == loopPc' = IF n <= ResolveRetries THEN "tick" ELSE "returning"

CountEveryFailure(e) == e # "none"

\* errSentinelNotReady is waited out without burning the retry budget.
CountsAgainstBudget(e) == e = "hard"

LatchStaysShut == resolved

\* defer close(r.initialMasterResolveLock), also when giving up.
LatchAfterFailure == TRUE

InitialResult(e) ==
  LET n == IF CountsAgainstBudget(e) THEN errCount + 1 ELSE errCount
  IN  /\ loopPc = "initial"
      /\ err' = e
      /\ UNCHANGED sentinelClosed
      /\ \/ /\ e = "none"
            /\ resolved' = TRUE /\ errCount' = 0 /\ wait' = 0 /\ waited' = 0
            /\ LoopHead(0)
         \/ /\ CountsAgainstBudget(e) /\ n > ResolveRetries
            /\ resolved' = LatchAfterFailure /\ errCount' = n
            /\ loopPc' = "returning"
            /\ UNCHANGED <<wait, waited>>
         \/ /\ e # "none" /\ (CountsAgainstBudget(e) => n <= ResolveRetries)
            /\ errCount' = n /\ loopPc' = "initialWait"
            /\ wait' = IF e = "notReady" THEN SentinelNotReadyBackoff
                                         ELSE ResolveFailureBackoff(n)
            /\ UNCHANGED <<resolved, waited>>

UpdateResult(e) ==
  LET n == IF CountsAgainstBudget(e) THEN errCount + 1 ELSE errCount
  IN  /\ loopPc = "update"
      /\ err' = e
      /\ UNCHANGED <<resolved, sentinelClosed>>
      /\ \/ /\ e = "none"
            /\ errCount' = 0 /\ wait' = 0 /\ waited' = 0
            /\ LoopHead(0)
         \/ /\ e # "none"
            /\ errCount' = n /\ loopPc' = "wait"
            /\ wait' = IF e = "notReady" THEN SentinelNotReadyBackoff
                                         ELSE ResolveFailureBackoff(n)
            /\ UNCHANGED waited

\* case <-ticker.C
LoopTick ==
  /\ loopPc = "tick"
  /\ loopPc' = "update"
  /\ step' = [step EXCEPT ![Loop] = "ask"]
  /\ UNCHANGED <<envVars, ctxDone, addrVars, lockVars, errCount, wait, err,
                 resolved, sentinelClosed, waited, cand, todo, reps, call,
                 failsSinceOk, replicaIdx>>

\* case <-time.After(wait) of the update loop
LoopWaited ==
  /\ loopPc = "wait"
  /\ LoopHead(errCount)
  /\ wait' = 0
  /\ waited' = IF err = "hard" THEN waited + wait ELSE waited
  /\ UNCHANGED <<envVars, ctxDone, addrVars, lockVars, errCount, err,
                 resolved, sentinelClosed, updateVars, call, failsSinceOk, replicaIdx>>

\* case <-time.After(wait) of the initial resolve
InitialWaited ==
  /\ loopPc = "initialWait"
  /\ loopPc' = "initial"
  /\ step' = [step EXCEPT ![Loop] = "ask"]
  /\ wait' = 0
  /\ waited' = IF err = "hard" THEN waited + wait ELSE waited
  /\ UNCHANGED <<envVars, ctxDone, addrVars, lockVars, errCount, err,
                 resolved, sentinelClosed, cand, todo, reps, call,
                 failsSinceOk, replicaIdx>>

WaitsOnly == {"wait", "initialWait"}

\* The selects that have a case <-ctx.Done().
Interruptible == {"tick", "wait", "initialWait"}

ErrDropped == "none"

\* Interrupted, the update loop returns nil and the initial resolve its error.
ErrWhenDone == IF loopPc = "initialWait" THEN err ELSE "none"

\* case <-ctx.Done(); leaving the initial resolve opens the latch.
LoopSeesDone ==
  /\ ctxDone /\ loopPc \in Interruptible
  /\ loopPc' = "returning"
  /\ err' = ErrWhenDone
  /\ resolved' = (resolved \/ loopPc = "initialWait")
  /\ UNCHANGED <<envVars, ctxDone, addrVars, lockVars, errCount, wait,
                 sentinelClosed, waited, updateVars, call, failsSinceOk, replicaIdx>>

ErrShadowed == "none"

\* return err at the end of the loop.
ReturnedErr == err

\* defer r.sentinel.Close()
CloseSentinel ==
  /\ loopPc = "returning"
  /\ loopPc' = "returned"
  /\ sentinelClosed' = TRUE
  /\ err' = ReturnedErr
  /\ UNCHANGED <<envVars, ctxDone, addrVars, lockVars, errCount, wait, resolved,
                 waited, updateVars, call, failsSinceOk, replicaIdx>>

-----------------------------------------------------------------------------
(***************************************************************************)
(* updateMasterAddress of goroutine t.  Finish(t, e) is its return: the    *)
(* loop evaluates the error, RefreshAddresses drops it and unlocks.        *)
(***************************************************************************)
StillLocked(t) == t

\* defer r.refreshLock.Unlock()
AfterUnlock(t) == Unlocked

Finish(t, e) ==
  /\ step' = [step EXCEPT ![t] = "idle"]
  /\ \/ /\ t = Loop
        /\ InitialResult(e) \/ UpdateResult(e)
        /\ UNCHANGED <<refreshLock, call>>
     \/ /\ t \in Caller
        /\ refreshLock' = AfterUnlock(t)
        /\ call' = [call EXCEPT ![t] = "idle"]
        /\ UNCHANGED loopVars
  /\ failsSinceOk' = IF e = "none" THEN 0
                     ELSE IF t = Loop /\ e = "hard" THEN failsSinceOk + 1
                     ELSE failsSinceOk

\* sentinel.GetMasterAddrByName and usableTCPAddr
AskMaster(t) ==
  /\ step[t] = "ask"
  /\ \E reply \in MasterReplies :
       LET a == ReportedMaster(reply)
       IN  \/ /\ a \in Error
              /\ Finish(t, a)
              /\ UNCHANGED cand
           \/ /\ a \notin Error
              /\ cand' = [cand EXCEPT ![t] = a]
              /\ step' = [step EXCEPT ![t] = "probe"]
              /\ UNCHANGED <<refreshLock, call, failsSinceOk, loopVars>>
  /\ UNCHANGED <<envVars, ctxDone, addrVars, throttled, todo, reps, replicaIdx>>

\* checkRole(ctx, addr, "master") and displayName
ProbeMaster(t) ==
  /\ step[t] = "probe"
  /\ \/ /\ TRUE \in checkRole(cand[t], "master")
        /\ step' = [step EXCEPT ![t] = "set"]
        /\ UNCHANGED <<refreshLock, call, failsSinceOk, loopVars, cand>>
     \/ /\ FALSE \in checkRole(cand[t], "master")
        /\ Finish(t, "hard")
        /\ cand' = [cand EXCEPT ![t] = NoAddr]
  /\ UNCHANGED <<envVars, ctxDone, addrVars, throttled, todo, reps, replicaIdx>>

KeepFirstMaster(t) == IF masterAddr = NoAddr THEN cand[t] ELSE masterAddr

PublishedMaster(t) == cand[t]

setMasterAddress(t) ==
  /\ step[t] = "set"
  /\ masterAddr' = PublishedMaster(t)
  /\ cand' = [cand EXCEPT ![t] = NoAddr]
  /\ \/ /\ TrackReplicas
        /\ step' = [step EXCEPT ![t] = "list"]
        /\ UNCHANGED <<refreshLock, call, failsSinceOk, loopVars>>
     \/ /\ ~TrackReplicas
        /\ Finish(t, "none")
  /\ UNCHANGED <<envVars, ctxDone, replicaAddrs, throttled, todo, reps, replicaIdx>>

\* sentinel.Replicas; after an error the replica list becomes nil.
ListReplicas(t) ==
  /\ step[t] = "list"
  /\ step' = [step EXCEPT ![t] = "vet"]
  /\ reps' = [reps EXCEPT ![t] = {}]
  /\ \E listed \in SUBSET Node :
       /\ sentinelClosed => listed = {}
       /\ Reliable => listed = Node \ {elected}
       /\ todo' = [todo EXCEPT ![t] = listed]
  /\ UNCHANGED <<envVars, ctxDone, addrVars, lockVars, loopVars, cand, call,
                 failsSinceOk, replicaIdx>>

\* Whether an iteration can keep n: its fields and then its ROLE decide.
Vetted(n) ==
  {Eligible(fields) /\ ok :
     fields \in {f \in ReplicaFields : Reliable => f = HealthyFields},
     ok \in checkRole(n, "slave")}

\* One iteration of the loop of resolveReplicaAddresses.
VetReplica(t) ==
  /\ step[t] = "vet"
  /\ \E n \in todo[t] : \E keep \in Vetted(n) :
       /\ todo' = [todo EXCEPT ![t] = @ \ {n}]
       /\ reps' = [reps EXCEPT ![t] = IF keep THEN @ \cup {n} ELSE @]
  /\ UNCHANGED <<envVars, ctxDone, addrVars, lockVars, loopVars, step, cand,
                 call, failsSinceOk, replicaIdx>>

InvalidatingMaster(t) ==
  /\ step[t] = "vet" /\ todo[t] = {}
  /\ replicaAddrs' = reps[t]
  /\ masterAddr' = IF reps[t] = {} THEN NoAddr ELSE masterAddr
  /\ reps' = [reps EXCEPT ![t] = {}]
  /\ Finish(t, "none")
  /\ UNCHANGED <<envVars, ctxDone, throttled, cand, todo, replicaIdx>>

\* A failure to resolve replicas does not invalidate the new master.
setReplicaAddresses(t) ==
  /\ step[t] = "vet" /\ todo[t] = {}
  /\ replicaAddrs' = reps[t]
  /\ reps' = [reps EXCEPT ![t] = {}]
  /\ Finish(t, "none")
  /\ UNCHANGED <<envVars, ctxDone, masterAddr, throttled, cand, todo,
                 replicaIdx>>

-----------------------------------------------------------------------------
(***************************************************************************)
(* What a connection handler calls.                                        *)
(***************************************************************************)

\* Up to the wait for refreshLock; before the first resolve it returns at once.
RefreshAddresses(t) ==
  /\ call[t] = "idle" /\ resolved
  /\ call' = [call EXCEPT ![t] = "lock"]
  /\ UNCHANGED <<envVars, ctxDone, addrVars, lockVars, loopVars, updateVars,
                 failsSinceOk, replicaIdx>>

LockIgnored == TRUE

LockFree == refreshLock = Unlocked

\* refreshLock.Lock and the throttle check
AcquireRefreshLock(t) ==
  /\ call[t] = "lock" /\ LockFree
  /\ \/ /\ throttled
        /\ call' = [call EXCEPT ![t] = "idle"]
        /\ UNCHANGED <<lockVars, step>>
     \/ /\ ~throttled
        /\ throttled' = TRUE
        /\ refreshLock' = t
        /\ call' = [call EXCEPT ![t] = "resolving"]
        /\ step' = [step EXCEPT ![t] = "ask"]
  /\ UNCHANGED <<envVars, ctxDone, addrVars, loopVars, cand, todo, reps,
                 failsSinceOk, replicaIdx>>

\* refreshThrottle has passed since lastRefresh.
ThrottleElapses ==
  /\ throttled
  /\ throttled' = FALSE
  /\ UNCHANGED <<envVars, ctxDone, addrVars, refreshLock, loopVars, updateVars,
                 call, failsSinceOk, replicaIdx>>

\* What MasterAddress returns; it blocks until the latch is open.
MasterAddress == masterAddr

\* replicaIdx.Add(1)
NextTicket == (replicaIdx + 1) % IdxModulus

\* A call that returns ok = true (which replica: see AddressService); without
\* a replica nothing changes.
ReplicaAddress ==
  /\ resolved /\ replicaAddrs # {}
  /\ replicaIdx' = NextTicket
  /\ UNCHANGED <<envVars, ctxDone, addrVars, lockVars, loopVars, updateVars,
                 call, failsSinceOk>>

-----------------------------------------------------------------------------
(***************************************************************************)
(* The redis group, as far as the resolver can observe it, and the signal  *)
(* handler.  An old master may answer "master" until it learns better.     *)
(***************************************************************************)
Failover(n) ==
  /\ ~calm /\ n # elected
  /\ elected' = n
  /\ role' = [role EXCEPT ![n] = "master"]
  /\ everMaster' = everMaster \cup {n}
  /\ UNCHANGED <<calm, everSlave, ctxDone, addrVars, lockVars, loopVars, updateVars, call,
                 failsSinceOk, replicaIdx>>

NodeChange(n, r) ==
  /\ ~calm /\ r # role[n]
  /\ r = "master" => n = elected
  /\ role' = [role EXCEPT ![n] = r]
  /\ everMaster' = IF r = "master" THEN everMaster \cup {n} ELSE everMaster
  /\ everSlave' = IF r = "slave" THEN everSlave \cup {n} ELSE everSlave
  /\ UNCHANGED <<elected, calm, ctxDone, addrVars, lockVars, loopVars,
                 updateVars, call, failsSinceOk, replicaIdx>>

\* From now on the elected node is the only master and nothing fails.
Settle ==
  /\ ~calm
  /\ calm' = TRUE
  /\ \E r \in [Node -> {"master", "slave", "down"}] :
       /\ \A n \in Node : r[n] = "master" <=> n = elected
       /\ role' = r
       /\ everMaster' = everMaster \cup {elected}
       /\ everSlave' = everSlave \cup {n \in Node : r[n] = "slave"}
  /\ UNCHANGED <<elected, ctxDone, addrVars, lockVars, loopVars, updateVars,
                 call, failsSinceOk, replicaIdx>>

Cancel ==
  /\ ~ctxDone
  /\ ctxDone' = TRUE
  /\ UNCHANGED <<envVars, addrVars, lockVars, loopVars, updateVars, call,
                 failsSinceOk, replicaIdx>>

-----------------------------------------------------------------------------
updateMasterAddress(t) ==
  \/ AskMaster(t)    \/ ProbeMaster(t) \/ setMasterAddress(t)
  \/ ListReplicas(t) \/ VetReplica(t)  \/ setReplicaAddresses(t)

LoopTimer == LoopTick \/ LoopWaited \/ InitialWaited

Next ==
  \/ \E t \in Thread : updateMasterAddress(t)
  \/ LoopTimer \/ LoopSeesDone \/ CloseSentinel
  \/ \E t \in Caller : RefreshAddresses(t) \/ AcquireRefreshLock(t)
  \/ ThrottleElapses \/ ReplicaAddress
  \/ \E n \in Node : Failover(n)
  \/ \E n \in Node, r \in {"master", "slave", "down"} : NodeChange(n, r)
  \/ Settle \/ Cancel

Spec == Init /\ [][Next]_vars

\* Every network call has a one-second timeout, so a resolve goes on; timers
\* fire; select picks at random among its ready cases, so a done context is not
\* passed over for ever; sync.Mutex hands the lock to a starving waiter.
CodeFairness ==
  /\ \A t \in Thread : WF_vars(updateMasterAddress(t))
  /\ WF_vars(LoopTimer) /\ WF_vars(CloseSentinel)
  /\ SF_vars(LoopSeesDone)
  /\ \A t \in Caller : SF_vars(AcquireRefreshLock(t))

FairSpec == Spec /\ CodeFairness

\* The redis group recovers for good at some point.
Recovery == WF_vars(Settle)
RecoveringSpec == FairSpec /\ Recovery

-----------------------------------------------------------------------------
(***************************************************************************)
(* Properties.                                                             *)
(***************************************************************************)
Running == loopPc \notin {"returning", "returned"}

\* Every variable has its type.
TypeOK ==
  /\ elected \in Node
  /\ role \in [Node -> {"master", "slave", "down"}]
  /\ everMaster \subseteq Node /\ everSlave \subseteq Node
  /\ calm \in BOOLEAN /\ ctxDone \in BOOLEAN /\ resolved \in BOOLEAN
  /\ sentinelClosed \in BOOLEAN /\ throttled \in BOOLEAN
  /\ masterAddr \in Addr \cup {NoAddr} /\ replicaAddrs \subseteq Node
  /\ replicaIdx \in 0 .. IdxModulus - 1
  /\ refreshLock \in Thread
  /\ loopPc \in {"initial", "initialWait", "tick", "update", "wait",
                 "returning", "returned"}
  /\ errCount \in Nat /\ wait \in Nat /\ waited \in Nat /\ failsSinceOk \in Nat
  /\ err \in Error \cup {"none"}
  /\ step \in [Thread -> {"idle", "ask", "probe", "set", "list", "vet"}]
  /\ cand \in [Thread -> Addr \cup {NoAddr}]
  /\ todo \in [Thread -> SUBSET Node] /\ reps \in [Thread -> SUBSET Node]
  /\ call \in [Caller -> {"idle", "lock", "resolving"}]

\* Whatever sentinel reports (placeholders, stale masters, demoted replicas)
\* and however resolves overlap, a served master address belongs to a node that
\* really was a master, a served replica address to one that really was a
\* slave: the ROLE probes and usableTCPAddr stand before both setters.
VerifiedAddresses ==
  /\ masterAddr # NoAddr => masterAddr \in everMaster
  /\ replicaAddrs \subseteq everSlave

\* RefreshAddresses is serialised: at most one handler resolves at a time, and
\* it is the one that holds refreshLock.
RefreshSerialised ==
  \A t \in Caller : step[t] # "idle" => refreshLock = t /\ call[t] = "resolving"

\* Once the start-up latch is open MasterAddress returns an address, unless the
\* initial resolve gave up and the process is on its way out.
EmptyOnlyAfterFailedStart ==
  resolved /\ masterAddr = NoAddr => ~Running /\ err # "none"

\* A candidate has passed its probe by the time it can be published, and the
\* replicas collected so far all answered "slave".
CandidatesVerified ==
  /\ \A n \in Node : /\ role[n] = "master" => n \in everMaster
                     /\ role[n] = "slave" => n \in everSlave
  /\ \A t \in Thread : /\ step[t] = "probe" => cand[t] \in Node
                       /\ step[t] = "set" => cand[t] \in everMaster
                       /\ reps[t] \subseteq everSlave

\* The latch opens when the initial resolve ends, and whenever the loop is past
\* it without an error a master has been published.
LatchFollowsLoop ==
  /\ resolved <=> loopPc \notin {"initial", "initialWait"}
  /\ loopPc \in {"initialWait", "wait"} => err # "none"
  /\ \/ loopPc \in {"tick", "update", "wait"}
     \/ ~Running /\ err = "none"
     \/ \E t \in Thread : step[t] \in {"list", "vet"}
     => masterAddr # NoAddr

\* The invariant the proofs rest on: what the resolves in flight carry and where
\* the loop is explain what may be published and when the latch may be open.
ResolverInv ==
  VerifiedAddresses /\ CandidatesVerified /\ LatchFollowsLoop /\ RefreshSerialised

\* The sum of the backoffs after n consecutive failures: 1, 2, 4, 8 and 16 seconds,
\* then 30 for each.
Patience(n) ==
  IF n < 1 THEN 0 ELSE IF n <= 5 THEN 2 ^ n - 1 ELSE 31 + 30 * (n - 5)

\* The loop gives up only when the outage has outlasted the backoff of every
\* tolerated failure, and not later than one more backoff after that: failures
\* that fix themselves and failed refreshes do not use up the retry budget, and
\* a success of the loop restores it.
GivesUpAfterBackoffs ==
  loopPc = "returned" /\ err = "hard" /\ ~ctxDone =>
    waited \in {Patience(ResolveRetries), Patience(ResolveRetries + 1)}

\* The update loop ends without an error only when the context is done; were it
\* to end otherwise, the proxy would go on with frozen addresses.
NeverStopsSilently ==
  loopPc = "returned" /\ err = "none" => ctxDone

\* Callers blocked on the start-up latch are released in the end.
StartupUnblocks == <>resolved

\* Once the group has settled the resolver serves its master and its replicas
\* for good, whatever resolves were still under way, unless the retry budget
\* was used up before or the process is stopped.  (Of the replicas this says
\* something only where they are tracked.)
Converges ==
  <>[](~Running \/ ctxDone
       \/ /\ masterAddr = elected
          /\ TrackReplicas => replicaAddrs = {n \in Node : role[n] = "slave"})

\* After a signal the update loop returns, also out of its waits.
ShutdownStops == ctxDone ~> loopPc = "returned"

\* RefreshAddresses always returns to the handler that called it.
RefreshReturns == \A t \in Caller : call[t] # "idle" ~> call[t] = "idle"

\* What a refresh picked up is still there when it returns: while it goes on to
\* look for replicas, the master it has published is not replaced by an older one.
\* The code does not promise this (see README): the update loop does not take
\* refreshLock, and may publish what it was told before the failover.
RefreshKeepsMaster ==
  [][\A t \in Caller :
       step[t] \in {"list", "vet"} /\ Reliable /\ masterAddr = elected
         => masterAddr' = elected]_vars

\* README: routed connections get a replica when a healthy one is known, and
\* replicas are discovered as for -replica-listen: once the group has settled,
\* its replicas are known.  (Router without ReplicaListen: ~TrackReplicas.)
RouterKnowsReplicas ==
  <>[](~Running \/ ctxDone \/ replicaAddrs = {n \in Node : role[n] = "slave"})

\* README: the proxy terminates only once -resolve-retries consecutive
\* attempts have failed.
ExitsOnlyAfterConsecutiveFailures ==
  loopPc = "returned" /\ err = "hard" /\ ~ctxDone => failsSinceOk >= ResolveRetries

-----------------------------------------------------------------------------
\* The resolver implements the service the proxy relies on: addresses are
\* published one list at a time and only after a probe, the latch opens once,
\* and it opens onto an address unless the loop has given up; how the
\* loop ended is what the errgroup of main sees.
Service == INSTANCE AddressService WITH
  wasMaster <- everMaster, wasSlave <- everSlave,
  status <- IF ~resolved THEN "starting" ELSE IF Running THEN "serving"
            ELSE IF err = "none" THEN "stopped" ELSE "failed",
  master <- masterAddr, replicas <- replicaAddrs, idx <- replicaIdx

ImplementsService == Service!Spec

\* Round robin over the published replicas, see AddressService: while the list
\* stays as it is, every replica has its turn, also when replicaIdx overflows, if
\* its range is a multiple of the list's length.
RotationFair == Service!RotationFair
=============================================================================
