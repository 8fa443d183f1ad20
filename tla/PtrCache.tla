------------------------------ MODULE PtrCache ------------------------------
(***************************************************************************)
(* The reverse-DNS cache of the resolver                                   *)
(* (src/pkg/master_resolver/ptr_cache.go), called by the displayName of    *)
(* every resolve of a node that sentinel announces by its IP: the update   *)
(* loop and the refreshes share one cache, and its mutex is held while a   *)
(* query is under way.                                                     *)
(*                                                                         *)
(* Time is kept as ages, which stop at Old: nothing tells older things     *)
(* apart.  The records of an IP change at any moment, as pod IPs are given *)
(* to new pods; an answer shows the records at some moment of its query.   *)
(***************************************************************************)
EXTENDS Integers, Sequences

CONSTANTS
  Thread,         \* the goroutines that resolve
  IP,             \* the node IPs
  Pod,            \* the names that pods publish
  Dashed,         \* a name that only re-encodes the IP
  None,           \* the empty name
  Free,           \* nobody holds the mutex
  ptrCacheTTL,
  LookupTimeout   \* the timeout of the query's context

ASSUME PtrCacheAssumption ==
  /\ ptrCacheTTL \in Nat \ {0} /\ LookupTimeout \in Nat
  /\ Dashed \notin Pod /\ None \notin Pod \cup {Dashed} /\ Free \notin Thread

VARIABLES
  dns,       \* per IP: the PTR records, in the order they are answered
  lock,      \* the thread that holds ptrCache.lock, or Free
  pc,        \* per thread: "out", "lock" (in Lock()), "query", "answered"
  ip,        \* per thread: the argument of Lookup
  names,     \* per thread: the answer to its query
  waited,    \* per thread: the age of its query
  entries,   \* ptrCache.entries: its domain is the set of IPs that have one
  gone,      \* history: the time since a name was last the one to show
  quiet      \* history: the time since the last query for an IP ended

vars == <<dns, lock, pc, ip, names, waited, entries, gone, quiet>>

Name == Pod \cup {Dashed, None}
Old == ptrCacheTTL + LookupTimeout
Age == 0 .. Old
Older(a) == IF a < Old THEN a + 1 ELSE a

\* Kubernetes publishes the dashed name next to the name of the pod.
Records ==
  {<<>>, <<Dashed>>} \cup {<<p>> : p \in Pod}
    \cup {<<Dashed, p>> : p \in Pod} \cup {<<p, Dashed>> : p \in Pod}

\* The name a reader of the log wants: that of the pod, if it has one.
BestName(r) ==
  IF \E k \in DOMAIN r : r[k] \in Pod
    THEN CHOOSE p \in Pod : \E k \in DOMAIN r : r[k] = p
    ELSE IF r = <<>> THEN None ELSE Dashed

\* A name that no record has shown yet counts as long gone.
Init ==
  /\ dns \in [IP -> Records]
  /\ lock = Free
  /\ pc = [t \in Thread |-> "out"]
  /\ ip \in [Thread -> IP]
  /\ names = [t \in Thread |-> <<>>]
  /\ waited = [t \in Thread |-> 0]
  /\ entries = [i \in {} |-> [name |-> None, age |-> 0]]
  /\ gone = [i \in IP |-> [n \in Name |-> IF n = BestName(dns[i]) THEN 0 ELSE Old]]
  /\ quiet = [i \in IP |-> Old]

-----------------------------------------------------------------------------
(***************************************************************************)
(* Lookup.                                                                 *)
(***************************************************************************)
\* The first record that is not the dashed IP, otherwise the first record.
pickPTRName(r) ==
  LET other == {k \in DOMAIN r : r[k] # Dashed}
  IN IF other # {} THEN r[CHOOSE k \in other : \A j \in other : k <= j]
     ELSE IF r # <<>> THEN r[1] ELSE None

UpToTTL(i) == i \in DOMAIN entries /\ entries[i].age <= ptrCacheTTL

\* The entry is there and young enough.
Cached(i) == i \in DOMAIN entries /\ entries[i].age < ptrCacheTTL

Call(t, i) ==
  /\ pc[t] = "out"
  /\ pc' = [pc EXCEPT ![t] = "lock"]
  /\ ip' = [ip EXCEPT ![t] = i]
  /\ UNCHANGED <<dns, lock, names, waited, entries, gone, quiet>>

\* The mutex is taken and given back in one step: nothing blocks in between.
Hit(t) ==
  /\ pc[t] = "lock" /\ lock = Free /\ Cached(ip[t])
  /\ pc' = [pc EXCEPT ![t] = "out"]
  /\ UNCHANGED <<dns, lock, ip, names, waited, entries, gone, quiet>>

GivenBack(t) == Free

\* The mutex stays locked while the query runs.
HeldForQuery(t) == t

Miss(t) ==
  /\ pc[t] = "lock" /\ lock = Free /\ ~Cached(ip[t])
  /\ lock' = HeldForQuery(t)
  /\ pc' = [pc EXCEPT ![t] = "query"]
  /\ waited' = [waited EXCEPT ![t] = 0]
  /\ UNCHANGED <<dns, ip, names, entries, gone, quiet>>

\* The name server answers with the records it has at that moment.
Answer(t) ==
  /\ pc[t] = "query"
  /\ names' = [names EXCEPT ![t] = dns[ip[t]]]
  /\ pc' = [pc EXCEPT ![t] = "answered"]
  /\ UNCHANGED <<dns, lock, ip, waited, entries, gone, quiet>>

\* c.entries[ip] = ...
Stored(i, n) ==
  [j \in DOMAIN entries \cup {i} |->
     IF j = i THEN [name |-> n, age |-> 0] ELSE entries[j]]

UnlockedIfNamed(n) == IF n = None THEN lock ELSE Free

\* defer c.lock.Unlock()
Unlocked(n) == Free

Return(t, n) ==
  /\ entries' = Stored(ip[t], n)
  /\ lock' = Unlocked(n)
  /\ pc' = [pc EXCEPT ![t] = "out"]
  /\ names' = [names EXCEPT ![t] = <<>>]
  /\ waited' = [waited EXCEPT ![t] = 0]
  /\ quiet' = [quiet EXCEPT ![ip[t]] = 0]
  /\ UNCHANGED <<dns, ip, gone>>

QuerySucceeds(t) == pc[t] = "answered" /\ Return(t, pickPTRName(names[t]))

\* No such name, a server failure, the timeout or the end of the caller's
\* context: the missing name is stored like any other.
QueryFails(t) == pc[t] \in {"query", "answered"} /\ Return(t, None)

-----------------------------------------------------------------------------
(***************************************************************************)
(* The world.                                                              *)
(***************************************************************************)
\* The IP is given to another pod, or its records change.
Publish(i, r) ==
  /\ dns' = [dns EXCEPT ![i] = r]
  /\ gone' = [gone EXCEPT ![i][BestName(r)] = 0]
  /\ UNCHANGED <<lock, pc, ip, names, waited, entries, quiet>>

Querying(t) == pc[t] \in {"query", "answered"}

\* context.WithTimeout: no query outlives the timeout of its context.
InTime(t) == Querying(t) => waited[t] < LookupTimeout

Tick ==
  /\ \A t \in Thread : InTime(t)
  /\ waited' = [t \in Thread |-> IF Querying(t) THEN waited[t] + 1 ELSE 0]
  /\ entries' = [i \in DOMAIN entries |-> [entries[i] EXCEPT !.age = Older(@)]]
  /\ gone' = [i \in IP |-> [n \in Name |->
                 IF n = BestName(dns[i]) THEN 0 ELSE Older(gone[i][n])]]
  /\ quiet' = [i \in IP |-> Older(quiet[i])]
  /\ UNCHANGED <<dns, lock, pc, ip, names>>

-----------------------------------------------------------------------------
Lookup(t) == Hit(t) \/ Miss(t) \/ Answer(t) \/ QuerySucceeds(t) \/ QueryFails(t)

Next ==
  \/ \E t \in Thread : Lookup(t) \/ \E i \in IP : Call(t, i)
  \/ \E i \in IP, r \in Records : Publish(i, r)
  \/ Tick

Spec == Init /\ [][Next]_vars

\* A Mutex lets every waiter in eventually, and the timeout ends every query.
Fairness ==
  \A t \in Thread :
    SF_vars(Hit(t) \/ Miss(t)) /\ WF_vars(QuerySucceeds(t) \/ QueryFails(t))

FairSpec == Spec /\ Fairness

-----------------------------------------------------------------------------
(***************************************************************************)
(* Properties.                                                             *)
(***************************************************************************)
\* Every variable has its type.
TypeOK ==
  /\ dns \in [IP -> Records]
  /\ lock \in Thread \cup {Free}
  /\ pc \in [Thread -> {"out", "lock", "query", "answered"}]
  /\ ip \in [Thread -> IP] /\ names \in [Thread -> Records]
  /\ waited \in [Thread -> 0 .. LookupTimeout]
  /\ DOMAIN entries \subseteq IP
  /\ entries \in [DOMAIN entries -> [name : Name, age : Age]]
  /\ gone \in [IP -> [Name -> Age]] /\ quiet \in [IP -> Age]

\* A cached name does not outlive its owner for long: a name that Lookup returns
\* was the one to show for the IP less than the TTL and one timeout ago, even if
\* the records change during the query or while the caller waits for the mutex.
NamesFresh ==
  [][\A t \in Thread : pc[t] # "out" /\ pc'[t] = "out" =>
       LET n == entries'[ip[t]].name IN n # None => gone[ip[t]][n] < Old]_vars

\* Concurrent resolves share their queries: one query at a time, and none for an
\* IP within the TTL of the end of the last one, whether that had a name or not.
QueriesShared ==
  \A t \in Thread : Querying(t) =>
    /\ \A u \in Thread : Querying(u) => u = t
    /\ quiet[ip[t]] >= ptrCacheTTL

\* A resolve never hangs in the cache, whatever DNS does and however many
\* others wait for the mutex.
LookupReturns == \A t \in Thread : pc[t] = "lock" ~> pc[t] = "out"
=============================================================================
