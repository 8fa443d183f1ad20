# A verification of redis-sentinel-proxy

TLA+ models of the proxy, from its start-up to the bytes of a session, the TLC
runs that check them on small instances, and TLAPS proofs for every size. Line
numbers refer to `src/`.

## The system

One process (`main.go`) runs two members of an errgroup: the **resolver**'s
update loop and the **proxy**. The resolver asks Sentinel for the master (and,
with a replica endpoint, for the replicas), verifies each node with a `ROLE`
probe and publishes the addresses. The proxy accepts clients on up to two
endpoints, asks the resolver for a backend, dials it and copies bytes. After a
failed dial a connection handler calls back into the resolver
(`RefreshAddresses`) and tries once more. Before all this `config.Load` merges
four sources of options and `runProxying` hands them to the two members.

| Part | State | Operations | What makes it hard |
| --- | --- | --- | --- |
| resolver | published addresses, start-up latch, refresh lock and throttle, the loop's failure count | update loop, initial resolve, refresh, address reads | the loop and refreshes resolve at the same time, each over several network calls, while the group fails over |
| listeners | sockets, accept loops, semaphore | listen, accept, admit, close | shutdown and partial failure between the goroutines, slots shared by both endpoints |
| connection handler | picked address, attempt | handshake, pick, dial, refresh, retry | the picked address is stale by the time it is dialled |
| plain session | two pipes, half-closed sockets, activity clock, deadlines | read, write, half-close, time out | one direction ends while the other goes on; deadlines race traffic; back-pressure |
| routed session | three connections, buffered readers | route, state command, pin | one reply per command, two backends in step |
| RESP reader | remaining values of a reply | read a command, copy a reply | nested aggregates, limits, odd lengths |
| configuration | four sources, the merged options, TLS configurations | bind, merge, check, construct | precedence, explicit empty values, options that are nil until a default is merged, checks that come before or after a merge |
| reverse-DNS cache | entries with age | lookup | holds its lock during a query of up to one second; a name is stale as soon as it is stored |

## Modules

| Module | Models |
| --- | --- |
| `AddressService` | the contract between resolver and proxy: what may be published, when readers are released, round-robin tickets |
| `Resolver` | `master_resolver.go`; implements `AddressService` |
| `PtrCache` | `ptr_cache.go`, with a DNS server as its environment |
| `Proxy` | `Run`, `runListenLoop`, `connectBackend`, the connect phase of `routedProxy`, the errgroup of `main.go`; uses `AddressService` as its resolver |
| `Session` | `proxy()` after the dial, `pipe`, `idleConn` |
| `RoutedSession` | `routedSession` of `routing.go`: the command loop, state commands, pinning; what it needs of `router.go` |
| `Resp` | `resp.go`: `readLine`, `readCommand`, `copyRESP`, line by line, with the peer that sends |
| `Config` | `flags.go`, `env.go`, `config.go`, `tls.go` and the constructors that `runProxying` calls |
| `MCResolver`, `MCProxy`, `MCResp`, `MCConfig` | instances for TLC |
| `ResolverProofs`, `PtrCacheProofs`, `ProxyProofs`, `SessionProofs`, `RoutedProofs`, `RespProofs`, `ConfigProofs` | theorems about the module of that name |
| `RoutedOrderProofs` | theorems about the order of commands and replies in `RoutedSession` |

**Resolver.** Threads are `Loop` (the goroutine of `UpdateMasterAddressLoop`) and
the `Caller`s (connection handlers inside `RefreshAddresses`). `step[t]` is where
thread `t` is in `updateMasterAddress`: `ask` (Sentinel and `usableTCPAddr`),
`probe`, `set`, `list`, `vet`. Every network call is a step of its own; the two
setters are the critical sections of `masterAddrLock`. `loopPc`, `errCount`,
`wait` and `err` are the loop's own state. Sentinel's replies range over nodes,
empty fields, the `0.0.0.0` placeholder, unknown host names, lookup errors and
bad ports. The group is external: `elected` is what the sentinels agreed on,
`role[n]` what a node answers; an old master may answer `master` after a
failover. Before `calm` Sentinel answers anything; afterwards answers are true.
Timers are abstract: they elapse at any moment after they were started.

**Proxy.** `conn[c]` is where the handler of client `c` is, `to[c]` the address
it was given, which may be stale when it is dialled (`up` is the set of nodes a
dial reaches), `replica[c]` that of the replica of a routed session. The fallback
of `pickReplica` is a state of its own, as the master is read in a second critical
section. A refresh is a state in which the resolver may publish, also after its loop
has ended; `status` says how that was: `stopped` (it returned nil) or `failed`, and
only the latter makes the errgroup cancel. The pause after an accept error is time
spent before the next check of the context. `closing` is the moment between the
closing of the sockets and the return of the slot. A session that is open ends at any
time; `Session` models its inside. Two histories: `steady`, the clients whose refresh
left a reachable master published, and `offered`, what a client's endpoint stood for
since its handshake or its last refresh.

**Session.** Bytes are counted in chunks, one per `Read`. `Window` is what the
sockets towards a peer take before a `Write` blocks. Time advances by ticks,
only when no goroutine can run, so deadlines are exact.

**PtrCache.** A thread is a resolve that wants a name for an IP. `lock` is the
mutex, held from the look into the map until the query has ended; a query ends at
the latest after `LookupTimeout`, because time does not pass beyond it. The DNS
server may change an IP's records at any moment. Two histories say how long ago
a name was last the right one (`gone`) and when an IP was last asked for (`quiet`).

**Resp.** The peer nests values as the protocol says and keeps the number it owes
on every level (`owed`), where the code has the single counter `remaining`; it may
also send a malformed line or a length beyond a limit. Lengths and types are
modelled, bytes are not.

**Config.** A `Config` is a function on the options that are set; an option
outside its domain is a nil pointer. One action per step of `Load` and
`runProxying`, in the code's order. Values stand for classes: empty, good, and one
that does not parse, resolve or load.

**RoutedSession.** It continues `Proxy` where a routed connection opens. Commands
are numbered, replies carry the number of their command. `fetched` and `taken`
tell apart what is in the socket, in the buffered reader and consumed; `plan` is
what `run` still has to write, relay and discard for the command at hand. There is
one command per combination of the three tables (`GET`, `SET`, `SELECT`, ...) and one
input per special result of `readCommand`. `ran[b]` is what backend `b` has executed.
The idle timeout may strike whenever nothing has arrived.

## Runs

All bounds are in the `.cfg` files.

| Run | Instance | Shows |
| --- | --- | --- |
| `resolver_refresh` | 2 nodes, loop and 2 callers, 1 retry | `RefreshSerialised`, `EmptyOnlyAfterFailedStart`, `GivesUpAfterBackoffs`, `NeverStopsSilently` |
| `resolver_replicas` | 2 nodes, loop and 1 caller, replicas tracked | `VerifiedAddresses`, `RotationFair`, `ImplementsService` |
| `resolver_live` | 2 nodes, loop and 1 caller | `StartupUnblocks`, `Converges`, `ShutdownStops`, `RefreshReturns` |
| `proxy_limit` | 3 clients, 2 endpoints, 2 slots, fallback to the master | `SlotsCounted`, `NothingListensAfterRun` |
| `proxy_live` | 2 nodes, 1 client, 1 slot, router mode, no fallback | `RightBackend`, `SurvivesFailover`, `ClientDecided`, `DegradesToMaster`, `ProcessExits` |
| `session` | no timeout and one of 2 ticks, 3 chunks up and 1 down, window 1 | `NothingTruncated`, `CutInTime`, `IdleCutJustified`, `IdleCloses`, `EndsWithPeers` |
| `routed` | 2 commands of 7 kinds, 1 push message, window 1, with and without a replica | `RepliesInOrder`, `WritesToMaster`, `StateInStep`, `NothingDropped`, `EachAnswered`, `EndsAfterClient` |
| `resp` | up to 2 elements and 2 bytes, lengths -1 to 3, lines up to 8 through a buffer of 4, depth 4, 2 extra lines | `ReadsExactlyOne`, `AcceptsWellFormed`, `BufferBounded` |
| `ptr_cache` | 2 threads, 1 IP, 2 pods, TTL 2, timeout 1 | `QueriesShared`, `NamesFresh`, `LookupReturns` |
| `config` | 13,658 inputs | `FirstSourceWins`, `NilSafe`, `TLSAsConfigured`, `WiredAsConfigured`, `FatalJustified` |

No run lists a `TypeOK`: it is proved wherever it is defined (see Proofs).

Why the bounds are enough:

- Two nodes give a failover and a stale answer. The resolver's races are between
  two resolves, so one loop and one or two callers produce all of them. One retry
  gives a tolerated and a fatal failure.
- Three clients on two slots give a rejection while both accept loops compete.
- In `proxy_live` one node can be a replica, either can be the master, both come and
  go: a stale address, a failover between two attempts and a replica lost between pick
  and dial all occur. `RightBackend` has to tell addresses apart, hence two nodes. With
  the fallback to the master the run passes as well (160,652 states instead of 135,232).
- Window 1 with three chunks gives a blocked `Write`, a chunk that arrives behind it
  and one more when the peer takes data again: a pipe that is *behind* although no
  longer blocked. With two chunks this case does not occur, and an idle cut
  that it causes stays hidden. Both directions run the same code, so one with three
  chunks is enough; three both ways also pass (4.5 million states, 14 minutes).
- In `routed` two commands give what one command leaves behind for the next (state, a
  reply in the wrong buffer, bytes read ahead of a pin); the loop carries nothing
  else over. The invariants, `TypeOK` included, also hold for three commands of six
  kinds with window 2 (3.6 million states). `CLIENT` and `MULTI` are treated like
  `SELECT` and `SUBSCRIBE` but are in no read table, so the run leaves them out.
- In `resp` every length is below, at and above its limit, and a line may need
  several fills of the buffer. The counter of the code does not depend on the depth.
- One IP is enough for the cache: entries of different IPs share nothing but the mutex.
- `config` takes every pair of settings within a group of options that the code
  relates, every option set by all three sources, every combination of the options of
  one TLS section, every combination of the endpoint options, and overrides of
  these. Options of different groups meet in no condition of the code.

In `resolver_refresh` and `resolver_live` the history variables `everMaster` and
`everSlave`, which no action reads, start full; in the proxy runs
`wasMaster` and `wasSlave` start with what the resolver may publish.
`resolver_replicas` uses the shortest possible histories and explores states of an
unsettled group before shutdown (`Unsettled`); settled groups and shutdown are
covered by the other two runs, and by the proofs. `resolver_live` does not track
replicas, so its `Converges` is about the master; `ResolverReplicasLive.cfg` (module
`MCResolver`, started by hand, 31,504 states) checks it with replicas for the loop
alone, and passes. `RotationFair` leaves out one turn:
the one in which the ticket counter wraps, if the number of replicas does not divide
its modulus (2^64 in the code). There a replica may be passed over once.

### Where the documentation and the code disagree

These runs check a statement of the repository's documentation or tests, and
TLC refutes it with what the code does (details in `PROJECT.json`, `findings`):

| Run | Statement | What happens |
| --- | --- | --- |
| `session_stalled` | a connection without traffic is closed | not if a peer has stopped reading: writes have no deadline |
| `config_passthrough` | passthrough on sentinel is refused | `Merge` drops `sentinel_tls.passthrough` of a file, so the check that refuses it never sees it, and the proxy starts |

Three more have a configuration that is not among the runs and is started by hand;
TLC ends each with a counterexample:

| Configuration, module | Statement | What happens |
| --- | --- | --- |
| `ResolverConsecutive.cfg`, `MCResolver` | exit only after consecutive failures | a successful refresh in between is not counted |
| `ResolverRouter.cfg`, `MCResolver` | routed connections use discovered replicas | without `-replica-listen` none is discovered |
| `RoutedNoName.cfg`, `RoutedSession` | an empty command name means an empty array | so does an array that starts with an empty string; redis answers it, the proxy drops it, and later replies take its place |

One more shows something that the repository neither promises nor rules out.
`ResolverOvertake.cfg` (module `MCResolver`) checks `RefreshKeepsMaster`: what a refresh
has published is still there when it returns. TLC finds the overlap that breaks it: the
loop, which does not take `refreshLock`, probes the old master, the group fails over, a
refresh publishes the new master, then the loop publishes the old one. `Converges` shows
that this does not last.

Known without a run:

- `resolve_retries` is not validated; with a negative value the update loop ends right
  after the initial resolve without an error, and the errgroup, which cancels on errors
  only, leaves the proxy running.
- An address is served until a later resolve replaces it, so a node may have lost its
  role when it is handed out.
- A routed session whose replica cannot be dialled opens without it, with no refresh,
  and does without it until it ends (`DegradesToMaster` says only that it does open).
- A connection that `Accept` returns after the cancellation is still served.
- While a pipe is blocked in `Write` the arriving traffic is not read, so the opposite
  pipe may be cut as idle; the same holds after the stall, until the pipe has read
  what piled up. These are the exceptions in `IdleCutJustified`.
- An environment variable that does not parse stops the start even if a flag
  overrides it.
- With only `-replica-listen` set, the default `:10000` of `-listen` does not apply.

### Fairness

`Resolver`: weak fairness of resolves (every network call has a timeout of one
second or less per attempt), timers and the closing of the client; strong
fairness of the `ctx.Done()` cases, since `select` chooses at random among ready
cases and the loop comes back to them; strong fairness of taking `refreshLock`,
since `sync.Mutex` hands the lock to a starving waiter. That the group settles
is an assumption about the environment (`RecoveringSpec`).

`Proxy`: weak fairness of every goroutine (dials, handshakes and refreshes are
bounded by timeouts), where `RunMoves` is the goroutine of `Run`. `LatchOpens` and
`ResolverStops` are assumptions here: `ClientDecided` and `ProcessExits` hold if the
resolver opens its latch and stops on cancellation, which is what `StartupUnblocks` and
`ShutdownStops` show of it. No client has to connect and no session has to end.

`PtrCache`: strong fairness of taking the mutex (as for `refreshLock`), weak fairness
of the end of a query, which the context's timeout forces.

`Session`: weak fairness of the pipes and of time; `DrainingSpec` adds peers that
keep reading, `FairSpec` does not.

`RoutedSession`: weak fairness of the session's goroutines, of a client that reads, and
of backends that execute what they were sent; the master closes when the proxy
has closed its side. A blocking command that is never answered is outside
`EachAnswered`, and so is `CLIENT REPLY OFF`, after which redis answers nothing.

## Proofs

`ResolverProofs` proves, for every set of nodes and callers and every
configuration that meets the assumptions of `Resolver`:

- `TypeCorrect`: `TypeOK`.
- `AddressesVerified`: `VerifiedAddresses`. It is not inductive, as a candidate is
  published some steps after its probe; `CandidatesVerified` carries what
  the resolves in flight know (a candidate at `set` was a master, collected
  replicas were slaves). `UsableIsNode` and `ReportedIsNode` show that the
  placeholder never gets as far as a probe.
- `RefreshesSerialised`: `RefreshSerialised`, inductive with `TypeOK`.
- `ResolverInvariant`: `ResolverInv`, the conjunction of the above with
  `LatchFollowsLoop`, which ties the latch and the published master to the
  position of the loop.
- `NoEmptyMaster`: `EmptyOnlyAfterFailedStart`, from `LatchFollowsLoop`.
- `LoopNeverJustEnds`: `NeverStopsSilently`, for a retry budget of zero or more.
  The hypothesis is needed: a negative budget ends the loop at once.
- `GivesUpOnSchedule`: `GivesUpAfterBackoffs`, for every retry budget, a negative one
  included. `BudgetInv` accounts for the time: in every state of the loop the waits
  so far, plus the one it is in, are the backoffs of the failures it has counted since
  its last success (`Patience`), and the count exceeds the budget by at most one.
  `PatienceGrows` ties the closed form of `Patience` to the code's
  `resolveFailureBackoff`.
- `ReplicasTakeTurns`: `RotationFair`, for any number of replicas and any modulus. It is
  no induction over steps but arithmetic: `k` successive tickets have all remainders
  modulo `k` (`TicketFor`), also across a wrap at a multiple of `k` (`TicketWraps`), and
  each address has a position of its own in the sorted list (`RankedFinds`).
- `ResolverImplementsService`: the initial states map to initial states and each
  step to a step of `AddressService` or a stutter, given `ResolverInv`. The status of the
  service is read off the position of the loop; that an ended loop stays ended and keeps
  its result (`NextGoesOn`, `NextStatusStep`) is shown first.

The other theorems, for every value of the constants under the `ASSUME`s of their
modules:

| Theorem | Establishes | Inductive invariant |
| --- | --- | --- |
| `RespProofs!ExactlyOne`, `WellFormedAccepted` | `ReadsExactlyOne`, `AcceptsWellFormed` | `RespInv` |
| `RespProofs!BoundedBuffers` | `BufferBounded` | `RoomInv` with `RespInv` |
| `PtrCacheProofs!SharedQueries`, `FreshNames` | `QueriesShared`, `NamesFresh` | `CacheInv` |
| `ConfigProofs!Precedence` | `FirstSourceWins` | `ChainInv` |
| `ConfigProofs!NoNilDereference` | `NilSafe` | `NilInv` |
| `ConfigProofs!TLSHonoured`, `PartsWired`, `FailsForAReason` | `TLSAsConfigured`, `WiredAsConfigured`, `FatalJustified` | `StartInv` |
| `ProxyProofs!LimitKept`, `BackendOfEndpoint`, `ListenersClosed`, `RetrySurvives`, `ReplicaOptional` | `SlotsCounted`, `RightBackend`, `NothingListensAfterRun`, `SurvivesFailover`, `DegradesToMaster` | `ProxyInv` |
| `SessionProofs!TypeCorrect`, `StreamsWhole`, `CutBound`, `CutJustified` | `TypeOK`, `NothingTruncated`, `CutInTime`, `IdleCutJustified` | `SessionInv` |
| `RoutedProofs!TypeCorrect` | `TypeOK` | `TypeOK` |
| `RoutedProofs!ReplicaReadsOnly` | `WritesToMaster` | `RoutedInv` |
| `RoutedOrderProofs!ConnectionStateInStep` | `StateInStep` | `StateInv` with `PlanInv` |
| `RoutedOrderProofs!OneReplyEachInOrder`, `NoCommandDropped` | `RepliesInOrder`, `NothingDropped` | `ReplyInv` with `StateInv` and `PlanInv` |

Why the strengthenings are needed:

- `RespInv`: the code knows one number, the peer one per level. `Tally` relates them by
  the partial sums of `owed`, given as a function because a sum over levels would
  need an induction; each kind of line keeps them equal. `RoomInv` says that the
  arguments still to come fit under the bound on `raw`.
- `CacheInv`: the mutex belongs to the thread that queries (`LockInv`), an entry is as old
  as the last query for its IP (`QuietInv`), and its name was true within one
  timeout before it was stored (`FreshInv`).
- `ChainInv` says what `cfg` is after each merge; that merging is associative enough for
  the documented precedence is then a fact about functions. `NilInv` says which options
  are set at each step: all but the two of the replica endpoint, which become nil together.
- `StartInv` says what a start has built at each step: `ChainInv` the options, `TLSInv` the
  TLS configurations made so far, each as a function of the options in effect, `LoadedInv`
  the result of `Load`, `WiredInv` what the constructors were given. A start that is
  fatal has left the sequence at a check whose condition is one of the documented reasons.
  `FirstSourceWins` and `TLSAsConfigured`, and so `Precedence` and `TLSHonoured`, leave out
  `sentinel_tls.passthrough`, of which they do not hold (run `config_passthrough`).
- `ProxyInv`: `SlotsCounted` is inductive by the cardinality of the set of admitted
  clients; `BackendInv` says that only probed addresses are published, that what a handler would be
  given at this moment is in its history `offered`, and that one which has picked keeps
  what it was given, a routed one over the search for its replica;
  `ListenInv` ties a backlog to its listener; `SteadyInv` follows a client at its second
  attempt while a reachable master is published. That a ticket always selects a replica
  needs that every position of a sorted list is taken (`EveryPosition`): positions are
  an injection into as many numbers as there are addresses, hence a surjection.
- `SessionInv`: a socket is closed only after both pipes are done (`ClosingInv`); a pipe in
  `Read` has renewed its deadline at most once since a chunk moved (`RenewInv`), so `age`
  is never too small; where both pipes keep up, `age` is also a lower bound of the
  peers' silence (`QuietInv`).
- `RoutedInv`: what is at a replica, on its way there or still planned for it is a read or
  connection state.
- `PlanInv`: only ten plans occur, the ends of the four that `run` makes; a lone write
  stands for a pinned command.
- `StateInv`: a backend is given commands in ascending order, each after all state commands
  before it; one that serves has every state command that was taken, but for the
  one that the plan still has to write to it.
- `ReplyInv` accounts for every reply: what the client has is in order and without a gap
  (`GotInv`), and while `run` routes it is everything but the reply to the command at hand
  (`OwedInv`); a backend replies, in order, to what it ran (`RanInv`); a backend that is
  routed to has nothing but the command at hand in its boxes, and only if the plan
  expects a frame from it (`WaitInv`); once the session is piped, what the
  client has, what the master has answered and what it still has to execute follow one
  another and leave no command out (`PipeInv`); no connection that is still needed is closed
  (`OpenInv`). Steps are first classified by what they do to the queues (`StepKinds`),
  then each kind is shown to keep the account.

`OneReplyEachInOrder` and `NoCommandDropped` assume that no command has an empty name
(`"noName" \notin Command`). The hypothesis is needed: `RoutedNoName.cfg` shows what
happens otherwise.

`TypeOK` is proved for all modules that have one: `Resolver`, `Session` and `RoutedSession` by
their theorems `TypeCorrect`, the others as a conjunct of `ProxyInv`, `RespInv` and `CacheInv`.

The proofs have one step per action. Every invariant and every action property of
the passing runs is proved. Only model-checked is the liveness, which is beyond this
prover: `StartupUnblocks`, `Converges`, `ShutdownStops`, `RefreshReturns`, `ClientDecided`,
`ProcessExits`, `IdleCloses`, `EndsWithPeers`, `EachAnswered`, `EndsAfterClient` and
`LookupReturns`.

## Not modelled, and the plan

Left out:

- the syntax of flags, variables, YAML, numbers, durations, addresses and PEM files
  (library work): a value is good or bad;
- `Config.String`, version formatting, log messages and counters that only feed them;
- the TLS protocol and what happens with credentials on the wire; `Config` models which
  configuration each connection is given, and `Proxy` that a handshake may fail;
- the dial helpers, two library calls whose outcome is the `Dial` action of `Proxy`;
- the full command lists of `router.go`, which are constants: there is one
  representative per combination of tables.

Next: the composition of `RoutedSession` with the idle clock of `Session`, whose timeout
may now strike at any quiet moment.
