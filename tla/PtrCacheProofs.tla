--------------------------- MODULE PtrCacheProofs ---------------------------
(***************************************************************************)
(* Theorems about PtrCache, for any number of goroutines, IPs and names    *)
(* and any TTL and timeout.                                                *)
(***************************************************************************)
EXTENDS PtrCache, TLAPS

\* The mutex belongs to the thread that queries.
LockInv ==
  /\ \A t \in Thread : Querying(t) => lock = t
  /\ \A t \in Thread : lock = t => Querying(t)

\* An entry is as old as the last query for its IP, and a query is sent only
\* when that is old enough.
QuietInv ==
  /\ \A i \in IP : quiet[i] = IF i \in DOMAIN entries THEN entries[i].age ELSE Old
  /\ \A t \in Thread : Querying(t) => quiet[ip[t]] >= ptrCacheTTL

\* The name to show now is not gone, an answer is no older than its query, and
\* the name of an entry was true within one timeout before it was stored.
FreshInv ==
  /\ \A i \in IP : gone[i][BestName(dns[i])] = 0
  /\ \A t \in Thread : pc[t] = "answered" =>
       gone[ip[t]][BestName(names[t])] <= waited[t]
  /\ \A i \in DOMAIN entries : entries[i].name # None =>
       gone[i][entries[i].name] <= entries[i].age + LookupTimeout

CacheInv == TypeOK /\ LockInv /\ QuietInv /\ FreshInv

-----------------------------------------------------------------------------
\* Ages are numbers below their limit.
LEMMA Ages ==
  /\ ptrCacheTTL \in Nat /\ ptrCacheTTL > 0 /\ LookupTimeout \in Nat
  /\ Old \in Nat /\ Old = ptrCacheTTL + LookupTimeout
  /\ \A a \in Age : a \in Nat /\ a <= Old /\ Older(a) \in Age
                    /\ Older(a) >= a /\ Older(a) <= a + 1 /\ (a = Old => Older(a) = Old)
                    /\ (a < Old => Older(a) = a + 1)
  BY PtrCacheAssumption DEF Old, Age, Older

\* The five shapes of a record set.
LEMMA RecordShapes ==
  \A r \in Records :
    \/ r = <<>> \/ r = <<Dashed>>
    \/ \E p \in Pod : r = <<p>> \/ r = <<Dashed, p>> \/ r = <<p, Dashed>>
  BY DEF Records

\* pickPTRName finds the name of the pod wherever it stands in the answer.
LEMMA PicksBest == \A r \in Records : pickPTRName(r) = BestName(r) /\ BestName(r) \in Name
<1>1. TAKE r \in Records
<1>2. CASE r = <<>>
  <2>1. DOMAIN r = {}
    BY <1>2
  <2>. QED
    BY <1>2, <2>1 DEF pickPTRName, BestName, Name
<1>3. CASE r = <<Dashed>>
  <2>1. DOMAIN r = {1} /\ r[1] = Dashed /\ r # <<>>
    BY <1>3
  <2>. QED
    BY <2>1, PtrCacheAssumption DEF pickPTRName, BestName, Name
<1>4. ASSUME NEW p \in Pod, NEW q \in {1, 2}, NEW D \in SUBSET {1, 2},
             DOMAIN r = D, q \in D, r[q] = p, \A k \in D : k # q => r[k] = Dashed
      PROVE  pickPTRName(r) = BestName(r) /\ BestName(r) \in Name
  <2>1. p # Dashed
    BY PtrCacheAssumption
  <2>2. {k \in DOMAIN r : r[k] # Dashed} = {q}
    BY <1>4, <2>1, Zenon
  <2>3. (CHOOSE k \in {q} : \A j \in {q} : k <= j) = q
    BY <1>4
  <2>4. pickPTRName(r) = p
    BY <1>4, <2>2, <2>3 DEF pickPTRName
  <2>5. \A k \in DOMAIN r, x \in Pod : r[k] = x => x = p
    BY <1>4, PtrCacheAssumption, Zenon
  <2>6. (CHOOSE x \in Pod : \E k \in DOMAIN r : r[k] = x) = p
    BY <1>4, <2>5
  <2>7. BestName(r) = p
    BY <1>4, <2>6 DEF BestName
  <2>. QED
    BY <2>4, <2>7 DEF Name
<1>5. CASE \E p \in Pod : r = <<p>>
  <2>1. PICK p \in Pod : r = <<p>>
    BY <1>5
  <2>2. DOMAIN r = {1} /\ r[1] = p
    BY <2>1
  <2>. QED
    BY <2>2, <1>4
<1>6. CASE \E p \in Pod : r = <<Dashed, p>>
  <2>1. PICK p \in Pod : r = <<Dashed, p>>
    BY <1>6
  <2>2. DOMAIN r = {1, 2} /\ r[1] = Dashed /\ r[2] = p
    BY <2>1
  <2>. QED
    BY <2>2, <1>4
<1>7. CASE \E p \in Pod : r = <<p, Dashed>>
  <2>1. PICK p \in Pod : r = <<p, Dashed>>
    BY <1>7
  <2>2. DOMAIN r = {1, 2} /\ r[2] = Dashed /\ r[1] = p
    BY <2>1
  <2>. QED
    BY <2>2, <1>4
<1>. QED
  BY <1>2, <1>3, <1>5, <1>6, <1>7, RecordShapes

\* The empty answer is a record set, and None is a name.
LEMMA SmallFacts == <<>> \in Records /\ None \in Name
  BY DEF Records, Name

\* What a return leaves in the cache.
LEMMA StoredFacts ==
  ASSUME TypeOK, NEW i \in IP, NEW n \in Name
  PROVE  /\ DOMAIN Stored(i, n) = DOMAIN entries \cup {i}
         /\ Stored(i, n)[i].name = n /\ Stored(i, n)[i].age = 0
         /\ \A j \in DOMAIN entries : j # i => Stored(i, n)[j] = entries[j]
         /\ Stored(i, n) \in [DOMAIN entries \cup {i} -> [name : Name, age : Age]]
         /\ DOMAIN entries \cup {i} \subseteq IP
<1>1. 0 \in Age
  BY Ages DEF Age
<1>. QED
  BY <1>1 DEF Stored, TypeOK

\* The type invariant holds initially.
LEMMA TypeInit == Init => TypeOK
<1>1. Init => /\ lock \in Thread \cup {Free}
              /\ names \in [Thread -> Records]
              /\ pc \in [Thread -> {"out", "lock", "query", "answered"}]
  BY SmallFacts DEF Init
<1>2. 0 \in 0 .. LookupTimeout /\ 0 \in Age /\ Old \in Age
  BY Ages DEF Age
<1>. QED
  BY <1>1, <1>2 DEF Init, TypeOK

\* Every step keeps the type invariant.
LEMMA TypeStep == TypeOK /\ [Next]_vars => TypeOK'
<1> SUFFICES ASSUME TypeOK, [Next]_vars PROVE TypeOK'
  OBVIOUS
<1>1. ASSUME NEW t \in Thread, NEW i \in IP, Call(t, i) PROVE TypeOK'
  BY <1>1 DEF Call, TypeOK
<1>2. ASSUME NEW t \in Thread, Hit(t) PROVE TypeOK'
  BY <1>2 DEF Hit, TypeOK
<1>3. ASSUME NEW t \in Thread, Miss(t) PROVE TypeOK'
  <2>1. 0 \in 0 .. LookupTimeout
    BY Ages
  <2>. QED
    BY <1>3, <2>1 DEF Miss, HeldForQuery, TypeOK
<1>4. ASSUME NEW t \in Thread, Answer(t) PROVE TypeOK'
  BY <1>4 DEF Answer, TypeOK
<1>5. ASSUME NEW t \in Thread, NEW n \in Name, Return(t, n) PROVE TypeOK'
  <2>1. 0 \in 0 .. LookupTimeout /\ 0 \in Age /\ ip[t] \in IP
    BY Ages DEF Age, TypeOK
  <2>2. /\ DOMAIN entries' \subseteq IP
        /\ entries' \in [DOMAIN entries' -> [name : Name, age : Age]]
    BY <1>5, <2>1, StoredFacts, ZenonT(30) DEF Return
  <2>3. /\ dns' = dns /\ ip' = ip /\ gone' = gone /\ lock' = Free
        /\ pc' = [pc EXCEPT ![t] = "out"] /\ names' = [names EXCEPT ![t] = <<>>]
        /\ waited' = [waited EXCEPT ![t] = 0] /\ quiet' = [quiet EXCEPT ![ip[t]] = 0]
    BY <1>5 DEF Return, Unlocked
  <2>. QED
    BY <2>1, <2>2, <2>3, SmallFacts DEF TypeOK
<1>6. ASSUME NEW t \in Thread, QuerySucceeds(t) \/ QueryFails(t) PROVE TypeOK'
  <2>1. pickPTRName(names[t]) \in Name
    BY PicksBest DEF TypeOK
  <2>. QED
    BY <1>5, <1>6, <2>1, SmallFacts DEF QuerySucceeds, QueryFails
<1>7. ASSUME NEW i \in IP, NEW r \in Records, Publish(i, r) PROVE TypeOK'
  <2>1. BestName(r) \in Name /\ 0 \in Age
    BY PicksBest, Ages DEF Age
  <2>. QED
    BY <1>7, <2>1 DEF Publish, TypeOK
<1>8. CASE Tick
  <2>1. waited' \in [Thread -> 0 .. LookupTimeout]
    <3>1. \A t \in Thread : waited[t] \in 0 .. LookupTimeout /\ InTime(t)
      BY <1>8 DEF Tick, TypeOK
    <3>2. \A t \in Thread :
            (IF Querying(t) THEN waited[t] + 1 ELSE 0) \in 0 .. LookupTimeout
      BY <3>1, Ages DEF InTime
    <3>. QED
      BY <1>8, <3>2 DEF Tick
  <2>2. DOMAIN entries' = DOMAIN entries
    BY <1>8 DEF Tick
  <2>3. entries' \in [DOMAIN entries -> [name : Name, age : Age]]
    BY <1>8, Ages, Zenon DEF Tick, TypeOK
  <2>4. 0 \in Age
    BY Ages DEF Age
  <2>5. gone' \in [IP -> [Name -> Age]] /\ quiet' \in [IP -> Age]
    BY <1>8, <2>4, Ages DEF Tick, TypeOK
  <2>. QED
    BY <1>8, <2>1, <2>2, <2>3, <2>5 DEF Tick, TypeOK
<1>9. CASE UNCHANGED vars
  BY <1>9 DEF vars, TypeOK
<1>. QED
  BY <1>1, <1>2, <1>3, <1>4, <1>6, <1>7, <1>8, <1>9 DEF Next, Lookup

-----------------------------------------------------------------------------
\* The mutex belongs to the thread that queries, and to no other.
LEMMA LockStep == TypeOK /\ LockInv /\ [Next]_vars => LockInv'
<1> SUFFICES ASSUME TypeOK, LockInv, [Next]_vars PROVE LockInv'
  OBVIOUS
<1>0. pc \in [Thread -> {"out", "lock", "query", "answered"}] /\ Free \notin Thread
  BY PtrCacheAssumption DEF TypeOK
<1>1. ASSUME NEW t \in Thread, NEW i \in IP, Call(t, i) PROVE LockInv'
  BY <1>0, <1>1 DEF Call, LockInv, Querying
<1>2. ASSUME NEW t \in Thread, Hit(t) PROVE LockInv'
  BY <1>0, <1>2 DEF Hit, LockInv, Querying
<1>3. ASSUME NEW t \in Thread, Miss(t) PROVE LockInv'
  BY <1>0, <1>3 DEF Miss, HeldForQuery, LockInv, Querying
<1>4. ASSUME NEW t \in Thread, Answer(t) PROVE LockInv'
  BY <1>0, <1>4 DEF Answer, LockInv, Querying
<1>5. ASSUME NEW t \in Thread, QuerySucceeds(t) \/ QueryFails(t) PROVE LockInv'
  <2>1. Querying(t) /\ pc' = [pc EXCEPT ![t] = "out"] /\ lock' = Free
    BY <1>5 DEF QuerySucceeds, QueryFails, Return, Unlocked, Querying
  <2>2. \A u \in Thread : Querying(u) => u = t
    BY <2>1 DEF LockInv
  <2>. QED
    BY <1>0, <2>1, <2>2 DEF LockInv, Querying
<1>6. ASSUME NEW i \in IP, NEW r \in Records, Publish(i, r) PROVE LockInv'
  BY <1>6 DEF Publish, LockInv, Querying
<1>7. CASE Tick
  BY <1>7 DEF Tick, LockInv, Querying
<1>8. CASE UNCHANGED vars
  BY <1>8 DEF vars, LockInv, Querying
<1>. QED
  BY <1>1, <1>2, <1>3, <1>4, <1>5, <1>6, <1>7, <1>8 DEF Next, Lookup

\* How a query that ends changes the state.
LEMMA ReturnFacts ==
  ASSUME TypeOK, NEW t \in Thread, QuerySucceeds(t) \/ QueryFails(t)
  PROVE  /\ Querying(t) /\ ip[t] \in IP
         /\ \E n \in Name :
              /\ entries' = Stored(ip[t], n)
              /\ n = None \/ (pc[t] = "answered" /\ n = BestName(names[t]))
         /\ pc' = [pc EXCEPT ![t] = "out"] /\ names' = [names EXCEPT ![t] = <<>>]
         /\ quiet' = [quiet EXCEPT ![ip[t]] = 0] /\ ip' = ip /\ gone' = gone
         /\ waited' = [waited EXCEPT ![t] = 0]
<1>1. /\ pickPTRName(names[t]) = BestName(names[t]) /\ BestName(names[t]) \in Name
      /\ None \in Name /\ ip[t] \in IP
  BY PicksBest, SmallFacts DEF TypeOK
<1>. QED
  BY <1>1 DEF QuerySucceeds, QueryFails, Return, Querying

\* Every step keeps QuietInv: nobody sends a query while an entry is young.
LEMMA QuietStep == TypeOK /\ LockInv /\ QuietInv /\ [Next]_vars => QuietInv'
<1> SUFFICES ASSUME TypeOK, LockInv, QuietInv, [Next]_vars PROVE QuietInv'
  OBVIOUS
<1>0. /\ pc \in [Thread -> {"out", "lock", "query", "answered"}]
      /\ ip \in [Thread -> IP] /\ quiet \in [IP -> Age]
      /\ DOMAIN entries \subseteq IP
      /\ \A i \in DOMAIN entries : entries[i].age \in Age
  BY DEF TypeOK
<1>1. ASSUME NEW t \in Thread, NEW i \in IP, Call(t, i) PROVE QuietInv'
  BY <1>0, <1>1 DEF Call, QuietInv, Querying
<1>2. ASSUME NEW t \in Thread, Hit(t) PROVE QuietInv'
  BY <1>0, <1>2 DEF Hit, QuietInv, Querying
<1>3. ASSUME NEW t \in Thread, Miss(t) PROVE QuietInv'
  <2>1. quiet[ip[t]] >= ptrCacheTTL
    <3>1. ip[t] \in IP /\ ~Cached(ip[t])
      BY <1>0, <1>3 DEF Miss
    <3>2. CASE ip[t] \in DOMAIN entries
      <4>1. quiet[ip[t]] = entries[ip[t]].age /\ ~(entries[ip[t]].age < ptrCacheTTL)
        BY <3>1, <3>2 DEF QuietInv, Cached
      <4>2. entries[ip[t]].age \in Nat
        BY <1>0, <3>2, Ages
      <4>. QED
        BY <4>1, <4>2, Ages
    <3>3. CASE ip[t] \notin DOMAIN entries
      <4>1. quiet[ip[t]] = Old
        BY <3>1, <3>3 DEF QuietInv
      <4>. QED
        BY <4>1, Ages
    <3>. QED
      BY <3>2, <3>3
  <2>. QED
    BY <1>0, <1>3, <2>1 DEF Miss, QuietInv, Querying
<1>4. ASSUME NEW t \in Thread, Answer(t) PROVE QuietInv'
  BY <1>0, <1>4 DEF Answer, QuietInv, Querying
<1>5. ASSUME NEW t \in Thread, QuerySucceeds(t) \/ QueryFails(t) PROVE QuietInv'
  <2>1. PICK n \in Name : entries' = Stored(ip[t], n)
    BY <1>5, ReturnFacts
  <2>2. /\ Querying(t) /\ ip[t] \in IP /\ ip' = ip
        /\ pc' = [pc EXCEPT ![t] = "out"] /\ quiet' = [quiet EXCEPT ![ip[t]] = 0]
    BY <1>5, ReturnFacts
  <2>3. /\ DOMAIN entries' = DOMAIN entries \cup {ip[t]} /\ entries'[ip[t]].age = 0
        /\ \A j \in DOMAIN entries : j # ip[t] => entries'[j] = entries[j]
    BY <2>1, <2>2, StoredFacts, ZenonT(30)
  <2>4. \A i \in IP : quiet'[i] = IF i \in DOMAIN entries' THEN entries'[i].age ELSE Old
    BY <1>0, <2>2, <2>3 DEF QuietInv
  <2>5. \A u \in Thread : ~Querying(u)'
    <3>1. \A u \in Thread : Querying(u) => u = t
      BY <2>2 DEF LockInv
    <3>. QED
      BY <1>0, <2>2, <3>1 DEF Querying
  <2>. QED
    BY <2>4, <2>5 DEF QuietInv
<1>6. ASSUME NEW i \in IP, NEW r \in Records, Publish(i, r) PROVE QuietInv'
  BY <1>6 DEF Publish, QuietInv, Querying
<1>7. CASE Tick
  <2>1. /\ quiet' = [i \in IP |-> Older(quiet[i])] /\ pc' = pc /\ ip' = ip
        /\ DOMAIN entries' = DOMAIN entries
        /\ \A i \in DOMAIN entries : entries'[i].age = Older(entries[i].age)
    BY <1>7 DEF Tick, TypeOK
  <2>2. Older(Old) = Old
    BY Ages DEF Older
  <2>3. \A i \in IP : quiet'[i] = IF i \in DOMAIN entries' THEN entries'[i].age ELSE Old
    BY <2>1, <2>2 DEF QuietInv
  <2>4. \A t \in Thread : Querying(t)' => quiet'[ip'[t]] >= ptrCacheTTL
    <3>1. TAKE t \in Thread
    <3>2. HAVE Querying(t)'
    <3>3. quiet[ip[t]] >= ptrCacheTTL /\ ip[t] \in IP /\ quiet[ip[t]] \in Age
      BY <1>0, <2>1, <3>2 DEF QuietInv, Querying
    <3>4. quiet'[ip'[t]] = Older(quiet[ip[t]])
      BY <2>1, <3>3
    <3>5. /\ Older(quiet[ip[t]]) >= quiet[ip[t]] /\ Older(quiet[ip[t]]) \in Nat
          /\ quiet[ip[t]] \in Nat
      BY <3>3, Ages
    <3>. QED
      BY <3>3, <3>4, <3>5, Ages
  <2>. QED
    BY <2>3, <2>4 DEF QuietInv
<1>8. CASE UNCHANGED vars
  BY <1>8 DEF vars, QuietInv, Querying
<1>. QED
  BY <1>1, <1>2, <1>3, <1>4, <1>5, <1>6, <1>7, <1>8 DEF Next, Lookup

-----------------------------------------------------------------------------
\* Every step keeps FreshInv: time makes a name and its entry older alike, and
\* records that change only ever make names younger.
LEMMA FreshStep == TypeOK /\ FreshInv /\ [Next]_vars => FreshInv'
<1> SUFFICES ASSUME TypeOK, FreshInv, [Next]_vars PROVE FreshInv'
  OBVIOUS
<1>0. /\ pc \in [Thread -> {"out", "lock", "query", "answered"}]
      /\ ip \in [Thread -> IP] /\ names \in [Thread -> Records]
      /\ gone \in [IP -> [Name -> Age]] /\ waited \in [Thread -> 0 .. LookupTimeout]
      /\ DOMAIN entries \subseteq IP
      /\ \A i \in DOMAIN entries : entries[i].age \in Age /\ entries[i].name \in Name
  BY DEF TypeOK
<1>1. ASSUME NEW t \in Thread, NEW i \in IP, Call(t, i) PROVE FreshInv'
  BY <1>0, <1>1 DEF Call, FreshInv
<1>2. ASSUME NEW t \in Thread, Hit(t) PROVE FreshInv'
  BY <1>0, <1>2 DEF Hit, FreshInv
<1>3. ASSUME NEW t \in Thread, Miss(t) PROVE FreshInv'
  BY <1>0, <1>3 DEF Miss, FreshInv
<1>4. ASSUME NEW t \in Thread, Answer(t) PROVE FreshInv'
  <2>1. gone[ip[t]][BestName(dns[ip[t]])] = 0 /\ waited[t] >= 0
    BY <1>0, <1>4 DEF FreshInv
  <2>2. /\ pc' = [pc EXCEPT ![t] = "answered"] /\ names' = [names EXCEPT ![t] = dns[ip[t]]]
        /\ UNCHANGED <<dns, ip, waited, entries, gone>>
    BY <1>4 DEF Answer
  <2>. QED
    BY <1>0, <2>1, <2>2 DEF FreshInv
<1>5. ASSUME NEW t \in Thread, QuerySucceeds(t) \/ QueryFails(t) PROVE FreshInv'
  <2>1. PICK n \in Name : /\ entries' = Stored(ip[t], n)
                          /\ n = None \/ (pc[t] = "answered" /\ n = BestName(names[t]))
    BY <1>5, ReturnFacts
  <2>2. /\ ip[t] \in IP /\ ip' = ip /\ gone' = gone /\ dns' = dns
        /\ pc' = [pc EXCEPT ![t] = "out"] /\ names' = [names EXCEPT ![t] = <<>>]
        /\ waited' = [waited EXCEPT ![t] = 0]
    BY <1>5, ReturnFacts DEF QuerySucceeds, QueryFails, Return
  <2>3. /\ DOMAIN entries' = DOMAIN entries \cup {ip[t]}
        /\ entries'[ip[t]].age = 0 /\ entries'[ip[t]].name = n
        /\ \A j \in DOMAIN entries : j # ip[t] => entries'[j] = entries[j]
    <3>1. /\ DOMAIN Stored(ip[t], n) = DOMAIN entries \cup {ip[t]}
          /\ Stored(ip[t], n)[ip[t]].age = 0 /\ Stored(ip[t], n)[ip[t]].name = n
          /\ \A j \in DOMAIN entries : j # ip[t] => Stored(ip[t], n)[j] = entries[j]
      BY <2>2, StoredFacts, ZenonT(30)
    <3>. QED
      BY <2>1, <3>1
  <2>4. n # None => gone[ip[t]][n] <= LookupTimeout
    <3>1. n # None => gone[ip[t]][n] <= waited[t]
      BY <2>1 DEF FreshInv
    <3>2. waited[t] \in 0 .. LookupTimeout /\ gone[ip[t]][n] \in Nat
      BY <1>0, <2>2, Ages
    <3>. QED
      BY <3>1, <3>2, Ages
  <2>5. \A i \in DOMAIN entries' : entries'[i].name # None =>
          gone'[i][entries'[i].name] <= entries'[i].age + LookupTimeout
    <3>1. TAKE i \in DOMAIN entries'
    <3>2. CASE i = ip[t]
      BY <2>2, <2>3, <2>4, <3>2, Ages
    <3>3. CASE i # ip[t]
      BY <2>2, <2>3, <3>3 DEF FreshInv
    <3>. QED
      BY <3>2, <3>3
  <2>6. \A u \in Thread : pc'[u] = "answered" =>
          gone'[ip'[u]][BestName(names'[u])] <= waited'[u]
    BY <1>0, <2>2 DEF FreshInv
  <2>7. \A i \in IP : gone'[i][BestName(dns'[i])] = 0
    BY <2>2 DEF FreshInv
  <2>. QED
    BY <2>5, <2>6, <2>7 DEF FreshInv
<1>6. ASSUME NEW i \in IP, NEW r \in Records, Publish(i, r) PROVE FreshInv'
  <2>1. /\ gone' = [gone EXCEPT ![i][BestName(r)] = 0] /\ dns' = [dns EXCEPT ![i] = r]
        /\ UNCHANGED <<pc, ip, names, waited, entries>>
    BY <1>6 DEF Publish
  <2>2. BestName(r) \in Name /\ dns \in [IP -> Records]
    BY PicksBest DEF TypeOK
  <2>3. \A j \in IP, n \in Name :
          /\ gone'[j][n] = IF j = i /\ n = BestName(r) THEN 0 ELSE gone[j][n]
          /\ gone[j][n] \in Nat
    BY <1>0, <2>1, <2>2, Ages
  <2>4. \A j \in IP, n \in Name : gone'[j][n] <= gone[j][n] /\ gone'[j][n] \in Nat
    BY <2>3
  <2>5. \A j \in IP : gone'[j][BestName(dns'[j])] = 0
    <3>1. TAKE j \in IP
    <3>2. BestName(dns[j]) \in Name
      BY <2>2, PicksBest
    <3>3. CASE j = i
      BY <2>1, <2>2, <2>3, <3>3
    <3>4. CASE j # i
      BY <2>1, <2>2, <2>3, <3>2, <3>4 DEF FreshInv
    <3>. QED
      BY <3>3, <3>4
  <2>6. \A t \in Thread : pc'[t] = "answered" =>
          gone'[ip'[t]][BestName(names'[t])] <= waited'[t]
    <3>1. TAKE t \in Thread
    <3>2. HAVE pc'[t] = "answered"
    <3>3. /\ BestName(names[t]) \in Name /\ ip[t] \in IP /\ waited[t] \in Int
          /\ gone[ip[t]][BestName(names[t])] <= waited[t]
      BY <1>0, <2>1, <3>2, PicksBest DEF FreshInv
    <3>4. /\ gone'[ip[t]][BestName(names[t])] <= gone[ip[t]][BestName(names[t])]
          /\ gone'[ip[t]][BestName(names[t])] \in Nat
          /\ gone[ip[t]][BestName(names[t])] \in Nat
      BY <2>3, <2>4, <3>3
    <3>. QED
      BY <2>1, <3>3, <3>4
  <2>7. \A j \in DOMAIN entries' : entries'[j].name # None =>
          gone'[j][entries'[j].name] <= entries'[j].age + LookupTimeout
    <3>1. TAKE j \in DOMAIN entries'
    <3>2. HAVE entries'[j].name # None
    <3>3. /\ entries'[j] = entries[j] /\ j \in IP /\ entries[j].name \in Name
          /\ gone[j][entries[j].name] <= entries[j].age + LookupTimeout
          /\ entries[j].age \in Nat
      BY <1>0, <2>1, <3>2, Ages DEF FreshInv
    <3>4. /\ gone'[j][entries[j].name] <= gone[j][entries[j].name]
          /\ gone'[j][entries[j].name] \in Nat /\ gone[j][entries[j].name] \in Nat
      BY <2>3, <2>4, <3>3
    <3>. QED
      BY <3>3, <3>4, Ages
  <2>. QED
    BY <2>5, <2>6, <2>7 DEF FreshInv
<1>7. CASE Tick
  <2>1. /\ gone' = [i \in IP |-> [n \in Name |->
                     IF n = BestName(dns[i]) THEN 0 ELSE Older(gone[i][n])]]
        /\ waited' = [t \in Thread |-> IF Querying(t) THEN waited[t] + 1 ELSE 0]
        /\ UNCHANGED <<dns, pc, ip, names>>
    BY <1>7 DEF Tick
  <2>2. /\ DOMAIN entries' = DOMAIN entries
        /\ \A i \in DOMAIN entries : /\ entries'[i].age = Older(entries[i].age)
                                     /\ entries'[i].name = entries[i].name
    BY <1>7 DEF Tick, TypeOK
  <2>3. \A i \in IP, n \in Name :
          /\ gone[i][n] \in Nat /\ gone'[i][n] \in Nat
          /\ gone'[i][n] <= gone[i][n] + 1 /\ gone'[i][n] <= Old
    <3>1. TAKE i \in IP, n \in Name
    <3>2. gone[i][n] \in Age
      BY <1>0
    <3>3. gone'[i][n] = IF n = BestName(dns[i]) THEN 0 ELSE Older(gone[i][n])
      BY <2>1
    <3>4. /\ gone[i][n] \in Nat /\ Older(gone[i][n]) \in Nat /\ Older(gone[i][n]) <= Old
          /\ Older(gone[i][n]) <= gone[i][n] + 1
      BY <3>2, Ages
    <3>. QED
      BY <3>3, <3>4, Ages
  <2>4. \A i \in IP : gone'[i][BestName(dns'[i])] = 0
    <3>1. \A i \in IP : BestName(dns[i]) \in Name
      BY PicksBest DEF TypeOK
    <3>. QED
      BY <2>1, <3>1
  <2>5. \A t \in Thread : pc'[t] = "answered" =>
          gone'[ip'[t]][BestName(names'[t])] <= waited'[t]
    <3>1. TAKE t \in Thread
    <3>2. HAVE pc'[t] = "answered"
    <3>3. /\ BestName(names[t]) \in Name /\ ip[t] \in IP /\ waited[t] \in Int
          /\ gone[ip[t]][BestName(names[t])] <= waited[t]
      BY <1>0, <2>1, <3>2, PicksBest DEF FreshInv
    <3>4. waited'[t] = waited[t] + 1
      BY <2>1, <3>2 DEF Querying
    <3>5. /\ gone[ip[t]][BestName(names[t])] \in Nat
          /\ gone'[ip[t]][BestName(names[t])] \in Nat
          /\ gone'[ip[t]][BestName(names[t])] <= gone[ip[t]][BestName(names[t])] + 1
      BY <2>3, <3>3
    <3>. QED
      BY <2>1, <3>3, <3>4, <3>5
  <2>6. \A i \in DOMAIN entries' : entries'[i].name # None =>
          gone'[i][entries'[i].name] <= entries'[i].age + LookupTimeout
    <3>1. TAKE i \in DOMAIN entries'
    <3>2. HAVE entries'[i].name # None
    <3>3. /\ i \in IP /\ entries[i].name \in Name /\ entries'[i].name = entries[i].name
          /\ entries[i].age \in Age /\ entries'[i].age = Older(entries[i].age)
          /\ gone[i][entries[i].name] <= entries[i].age + LookupTimeout
      BY <1>0, <2>2, <3>2 DEF FreshInv
    <3>4. /\ gone[i][entries[i].name] \in Nat /\ gone'[i][entries[i].name] \in Nat
          /\ gone'[i][entries[i].name] <= gone[i][entries[i].name] + 1
          /\ gone'[i][entries[i].name] <= Old
      BY <2>3, <3>3
    <3>5. /\ entries[i].age \in Nat
          /\ \/ entries[i].age = Old /\ Older(entries[i].age) = Old
             \/ Older(entries[i].age) = entries[i].age + 1
      BY <3>3, Ages
    <3>. QED
      BY <3>3, <3>4, <3>5, Ages
  <2>. QED
    BY <2>4, <2>5, <2>6 DEF FreshInv
<1>8. CASE UNCHANGED vars
  BY <1>8 DEF vars, FreshInv
<1>. QED
  BY <1>1, <1>2, <1>3, <1>4, <1>5, <1>6, <1>7, <1>8 DEF Next, Lookup

-----------------------------------------------------------------------------
\* Init establishes the invariant.
LEMMA CacheInit == Init => CacheInv
<1> SUFFICES ASSUME Init PROVE CacheInv
  OBVIOUS
<1>1. TypeOK
  BY TypeInit
<1>2. LockInv
  BY PtrCacheAssumption DEF Init, LockInv, Querying
<1>3. QuietInv
  BY DEF Init, QuietInv, Querying
<1>4. FreshInv
  <2>1. \A i \in IP : BestName(dns[i]) \in Name
    BY <1>1, PicksBest DEF TypeOK
  <2>. QED
    BY <2>1 DEF Init, FreshInv
<1>. QED
  BY <1>1, <1>2, <1>3, <1>4 DEF CacheInv

\* Every step keeps the invariant.
LEMMA CacheStep == CacheInv /\ [Next]_vars => CacheInv'
  BY TypeStep, LockStep, QuietStep, FreshStep DEF CacheInv

\* One query at a time, and at most one per IP and TTL, however many goroutines
\* resolve at once.
THEOREM SharedQueries == Spec => []QueriesShared
<1>1. CacheInv => QueriesShared
  BY DEF CacheInv, LockInv, QuietInv, QueriesShared
<1>. QED
  BY <1>1, CacheInit, CacheStep, PTL DEF Spec

\* No name that Lookup returns is older than the TTL and one timeout, whenever
\* the records change.
THEOREM FreshNames == Spec => NamesFresh
<1> DEFINE Fresh(t) ==
      LET n == entries'[ip[t]].name IN n # None => gone[ip[t]][n] < Old
<1>1. ASSUME CacheInv, [Next]_vars, NEW t \in Thread, pc[t] # "out", pc'[t] = "out"
      PROVE  Fresh(t)
  <2>0. TypeOK /\ FreshInv
    BY <1>1 DEF CacheInv
  <2>1. pc \in [Thread -> {"out", "lock", "query", "answered"}]
    BY <2>0 DEF TypeOK
  <2>2. Hit(t) \/ QuerySucceeds(t) \/ QueryFails(t)
    <3>1. ASSUME NEW u \in Thread, Hit(u) \/ QuerySucceeds(u) \/ QueryFails(u)
          PROVE  u = t
      BY <1>1, <2>1, <3>1 DEF Hit, QuerySucceeds, QueryFails, Return
    <3>2. ASSUME NEW u \in Thread, Miss(u) \/ Answer(u) \/ \E i \in IP : Call(u, i)
          PROVE  FALSE
      BY <1>1, <2>1, <3>2 DEF Call, Miss, Answer
    <3>3. ASSUME NEW i \in IP, NEW r \in Records, Publish(i, r) PROVE FALSE
      BY <1>1, <3>3 DEF Publish
    <3>4. ~Tick /\ ~UNCHANGED vars
      BY <1>1 DEF Tick, vars
    <3>5. PICK u \in Thread : Lookup(u) \/ \E i \in IP : Call(u, i)
      BY <1>1, <3>3, <3>4 DEF Next
    <3>. QED
      BY <3>1, <3>2, <3>5 DEF Lookup
  <2>3. CASE Hit(t)
    <3>1. /\ entries' = entries /\ ip[t] \in DOMAIN entries
          /\ entries[ip[t]].age < ptrCacheTTL /\ entries[ip[t]].age \in Age
          /\ ip[t] \in IP /\ entries[ip[t]].name \in Name
      BY <2>0, <2>3 DEF Hit, Cached, TypeOK
    <3>2. gone[ip[t]][entries[ip[t]].name] \in Nat
      BY <2>0, <3>1, Ages DEF TypeOK
    <3>3. entries[ip[t]].name # None =>
            gone[ip[t]][entries[ip[t]].name] <= entries[ip[t]].age + LookupTimeout
      BY <2>0, <3>1 DEF FreshInv
    <3>4. entries[ip[t]].age \in Nat
      BY <3>1, Ages
    <3>5. entries[ip[t]].age + LookupTimeout < Old /\ Old \in Nat /\ LookupTimeout \in Nat
      BY <3>1, <3>4, Ages
    <3>6. entries[ip[t]].name # None => gone[ip[t]][entries[ip[t]].name] < Old
      BY <3>2, <3>3, <3>4, <3>5
    <3>. QED
      BY <3>1, <3>6
  <2>4. CASE QuerySucceeds(t) \/ QueryFails(t)
    <3>1. PICK n \in Name :
            /\ entries' = Stored(ip[t], n)
            /\ n = None \/ (pc[t] = "answered" /\ n = BestName(names[t]))
      BY <2>0, <2>4, ReturnFacts
    <3>2. entries'[ip[t]].name = n /\ ip[t] \in IP
      BY <2>0, <3>1, StoredFacts, Zenon DEF TypeOK
    <3>3. n # None => gone[ip[t]][n] <= waited[t]
      BY <2>0, <3>1 DEF FreshInv
    <3>4. gone[ip[t]][n] \in Nat /\ waited[t] \in 0 .. LookupTimeout
      BY <2>0, <3>2, Ages DEF TypeOK
    <3>. QED
      BY <3>2, <3>3, <3>4, Ages
  <2>. QED
    BY <2>2, <2>3, <2>4
<1>2. CacheInv /\ [Next]_vars =>
        [\A t \in Thread : pc[t] # "out" /\ pc'[t] = "out" => Fresh(t)]_vars
  BY <1>1
<1>. QED
  BY <1>2, CacheInit, CacheStep, PTL DEF Spec, NamesFresh
=============================================================================
